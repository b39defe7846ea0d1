---------------------------- MODULE Jobs_proofs -----------------------------
(***************************************************************************)
(* Theorems of MCJobs, for all of its constants: a behaviour of it is one  *)
(* of UpdatesJob or of ModelJob. A section names the variables it is about *)
(* as the component does.                                                  *)
(***************************************************************************)
EXTENDS MCJobs, TLAPS

\* A behaviour stays with its component and takes the component's steps.
LEMMA ComponentStep ==
    ASSUME [Next]_vars
    PROVE  /\ which' = which
           /\ which = "Upd" => [Upd!Next]_(Upd!vars)
           /\ which = "Pull" => [Pull!Next]_(Pull!vars)
BY DEF Next, vars, Upd!vars, Pull!vars

----------------------------------------------------------------------------
(* UpdatesJob *)

world == s1
cache == s2
checking == s3
running == s4
updReq == s5
check == s6
apply == s7
USE DEF world, cache, checking, running, updReq, check, apply

LEMMA UpdInit ==
    ASSUME Init, which = "Upd"
    PROVE  Upd!TypeOK /\ Upd!FlagHasOwner /\ Upd!ApplyFlagged
<1>1. Upd!Init
    BY DEF Init
<1>2. Upd!Idle \in Upd!ThreadType
    BY DEF Upd!Idle, Upd!ThreadType, Upd!Stages
<1>3. Upd!TypeOK
    <2>1. 0 \in 0..MaxApplies
        BY BoundsAssumption
    <2>2. world \in Upd!Reading /\ cache \in Upd!Reading
        BY <1>1, <2>1 DEF Upd!Init, Upd!Reading
    <2>3. /\ check = [c \in Checks |-> Upd!Idle]
          /\ updReq = [r \in Requests |-> "idle"]
          /\ apply = Upd!Idle
        BY <1>1 DEF Upd!Init
    <2>4. /\ check \in [Checks -> Upd!ThreadType]
          /\ updReq \in [Requests -> {"idle", "kick", "force", "apply"}]
        BY <1>2, <2>3
    <2>5. checking \in BOOLEAN /\ running \in BOOLEAN
        BY <1>1 DEF Upd!Init
    <2> QED
        BY <1>2, <2>2, <2>3, <2>4, <2>5 DEF Upd!TypeOK
<1> QED
    BY <1>1, <1>3 DEF Upd!Init, Upd!FlagHasOwner, Upd!ApplyFlagged, Upd!Idle

LEMMA UpdTypeStep ==
    ASSUME Upd!TypeOK, [Upd!Next]_(Upd!vars)
    PROVE  Upd!TypeOK'
<1> USE DEF Upd!TypeOK
<1>0. \A p \in Upd!Stages \cup {"helper", "finish"}, r \in Upd!Reading \cup {Nil} :
         [pc |-> p, result |-> r] \in Upd!ThreadType
    BY DEF Upd!ThreadType
<1>1. Upd!Idle \in Upd!ThreadType /\ \A p \in Upd!Stages \cup {"helper", "finish"} :
         Upd!Start(p) \in Upd!ThreadType
    BY <1>0 DEF Upd!Idle, Upd!Start, Upd!Stages
<1>2. Upd!Results \subseteq Upd!Reading \cup {Nil}
    BY DEF Upd!Results
<1>3. ASSUME NEW r \in Requests,
             (\E force \in BOOLEAN : Upd!KickRead(r, force)) \/ Upd!KickNothing(r) \/ Upd!ApplyRead(r)
      PROVE  Upd!TypeOK'
    BY <1>3 DEF Upd!KickRead, Upd!KickNothing, Upd!ApplyRead
<1>4. ASSUME NEW r \in Requests, NEW c \in Checks, Upd!KickStart(r, c)
      PROVE  Upd!TypeOK'
    BY <1>1, <1>4 DEF Upd!KickStart, Upd!Stages
<1>5. ASSUME NEW r \in Requests, Upd!ApplyClaim(r)
      PROVE  Upd!TypeOK'
    BY <1>1, <1>5 DEF Upd!ApplyClaim
<1>6. ASSUME NEW c \in Checks, Upd!CheckQuery(c)
      PROVE  Upd!TypeOK'
    BY <1>0, <1>2, <1>6 DEF Upd!CheckQuery, Upd!Stages
<1>7. ASSUME NEW c \in Checks, Upd!CheckRecord(c)
      PROVE  Upd!TypeOK'
    BY <1>7 DEF Upd!CheckRecord, Upd!Recorded, Upd!ThreadType, Upd!Stages
<1>8. ASSUME NEW c \in Checks, Upd!CheckClear(c)
      PROVE  Upd!TypeOK'
    BY <1>1, <1>8 DEF Upd!CheckClear
<1>9. CASE Upd!ApplyHelper
    <2>1. CASE UNCHANGED world
        BY <1>1, <1>9, <2>1 DEF Upd!ApplyHelper, Upd!Stages
    <2>2. CASE world.epoch < MaxApplies /\ world' = [epoch |-> world.epoch + 1, pending |-> FALSE]
        <3>1. MaxApplies \in Nat /\ world.epoch \in 0..MaxApplies
            BY BoundsAssumption DEF Upd!Reading
        <3>2. world.epoch + 1 \in 0..MaxApplies
            BY <2>2, <3>1
        <3>3. world' \in Upd!Reading
            BY <2>2, <3>2 DEF Upd!Reading
        <3> QED
            BY <1>1, <1>9, <3>3 DEF Upd!ApplyHelper, Upd!Stages
    <2> QED
        BY <1>9, <2>1, <2>2 DEF Upd!ApplyHelper
<1>10. CASE Upd!ApplyQuery
    BY <1>0, <1>2, <1>10 DEF Upd!ApplyQuery, Upd!Stages
<1>11. CASE Upd!ApplyRecord
    BY <1>11 DEF Upd!ApplyRecord, Upd!Recorded, Upd!ThreadType, Upd!Stages
<1>12. CASE Upd!ApplyClear \/ Upd!ApplyFinish
    BY <1>1, <1>12 DEF Upd!ApplyClear, Upd!ApplyFinish, Upd!ThreadType
<1>13. CASE Upd!Publish
    BY <1>13 DEF Upd!Publish, Upd!Reading
<1>14. CASE UNCHANGED Upd!vars
    BY <1>14 DEF Upd!vars
<1> QED
    BY <1>3, <1>4, <1>5, <1>6, <1>7, <1>8, <1>9, <1>10, <1>11, <1>12, <1>13, <1>14
       DEF Upd!Next, Upd!CheckStep, Upd!ApplyStep

\* The flag goes up with a check thread, and goes down before the thread is done.
LEMMA UpdOwnerStep ==
    ASSUME Upd!TypeOK, Upd!FlagHasOwner, [Upd!Next]_(Upd!vars)
    PROVE  Upd!FlagHasOwner'
<1> USE DEF Upd!FlagHasOwner
<1>1. check \in [Checks -> Upd!ThreadType]
    BY DEF Upd!TypeOK
<1>2. ASSUME NEW r \in Requests, NEW c \in Checks, Upd!KickStart(r, c)
      PROVE  Upd!FlagHasOwner'
    <2>1. check'[c].pc = "query"
        BY <1>1, <1>2 DEF Upd!KickStart, Upd!Start
    <2> QED
        BY <2>1
<1>3. ASSUME NEW c \in Checks, Upd!CheckStep(c)
      PROVE  Upd!FlagHasOwner'
    <2>1. CASE Upd!CheckClear(c)
        BY <2>1 DEF Upd!CheckClear
    <2>2. CASE Upd!CheckQuery(c) \/ Upd!CheckRecord(c)
        <3>1. check'[c].pc # "idle"
            BY <1>1, <2>2 DEF Upd!CheckQuery, Upd!CheckRecord, Upd!ThreadType
        <3> QED
            BY <3>1
    <2> QED
        BY <1>3, <2>1, <2>2 DEF Upd!CheckStep
<1>4. CASE Upd!ApplyStep
    BY <1>4 DEF Upd!ApplyStep, Upd!ApplyHelper, Upd!ApplyQuery, Upd!ApplyRecord,
                Upd!ApplyClear, Upd!ApplyFinish
<1> QED
    BY <1>2, <1>3, <1>4
       DEF Upd!Next, Upd!vars, Upd!KickRead, Upd!KickNothing, Upd!ApplyRead, Upd!ApplyClaim,
           Upd!Publish

\* The apply thread is started only with the flag down, and runs with it up.
LEMMA UpdApplyStep ==
    ASSUME Upd!TypeOK, Upd!ApplyFlagged, [Upd!Next]_(Upd!vars)
    PROVE  Upd!ApplyFlagged' /\ Upd!HelperEnteredIdle
<1> USE DEF Upd!ApplyFlagged, Upd!HelperEnteredIdle
<1>1. apply \in Upd!ThreadType
    BY DEF Upd!TypeOK
<1>2. ASSUME NEW r \in Requests, Upd!ApplyClaim(r)
      PROVE  Upd!ApplyFlagged' /\ Upd!HelperEnteredIdle
    BY <1>2 DEF Upd!ApplyClaim, Upd!Start
<1>3. CASE Upd!ApplyStep
    BY <1>1, <1>3 DEF Upd!ApplyStep, Upd!ApplyHelper, Upd!ApplyQuery, Upd!ApplyRecord,
                      Upd!ApplyClear, Upd!ApplyFinish, Upd!Start, Upd!Idle, Upd!ThreadType
<1> QED
    BY <1>2, <1>3
       DEF Upd!Next, Upd!vars, Upd!KickRead, Upd!KickNothing, Upd!KickStart, Upd!ApplyRead,
           Upd!CheckStep, Upd!CheckQuery, Upd!CheckRecord, Upd!CheckClear, Upd!Publish

UpdInv == which = "Upd" => Upd!TypeOK /\ Upd!FlagHasOwner /\ Upd!ApplyFlagged

LEMMA UpdInvariant == Spec => []UpdInv
<1>1. Init => UpdInv
    BY UpdInit DEF UpdInv
<1>2. UpdInv /\ [Next]_vars => UpdInv'
    BY ComponentStep, UpdTypeStep, UpdOwnerStep, UpdApplyStep DEF UpdInv
<1> QED
    BY <1>1, <1>2, PTL DEF Spec

\* The flag `checking`, which gates the next check and every apply, is never left
\* set with no check behind it, for any number of requests and checks (_refresh).
THEOREM CheckFlagOwned == Spec => []FlagHasOwner
<1>1. UpdInv => FlagHasOwner
    BY DEF UpdInv, FlagHasOwner
<1> QED
    BY <1>1, UpdInvariant, PTL

\* An apply is never started over a running one, however many admins click
\* (api_updates_apply, _apply_thread).
THEOREM ApplyIsExclusive == Spec => OneApply
<1>1. UpdInv /\ [Next]_vars => [which = "Upd" => Upd!HelperEnteredIdle]_vars
    BY ComponentStep, UpdApplyStep DEF UpdInv
<1> QED
    BY <1>1, UpdInvariant, PTL DEF Spec, OneApply

----------------------------------------------------------------------------
(* ModelJob: types, and what the lock protects *)

job == s1
lock == s2
req == s3
worker == s4
spawned == s5
up == s6
restarts == s7
kills == s8
told == s9
USE DEF job, lock, req, worker, spawned, up, restarts, kills, told

PullType == Pull!TypeOK /\ Pull!Shape /\ Pull!LockInv

LEMMA Bounds ==
    MaxWorkers \in Nat /\ MaxRestarts \in Nat /\ MaxKills \in Nat
BY BoundsAssumption

LEMMA PullConstants ==
    /\ Pull!ReqIdle \in Pull!ReqType
    /\ Pull!Unborn \in Pull!WorkerType
    /\ Pull!Dead \in Pull!WorkerType
    /\ Pull!ReqIdle.pc = "idle" /\ Pull!Unborn.pc = "none" /\ Pull!Dead.pc = "dead"
<1>1. Pull!ReqIdle \in Pull!ReqType
    BY DEF Pull!ReqIdle, Pull!ReqType
<1>2. Pull!Unborn \in Pull!WorkerType
    BY DEF Pull!Unborn, Pull!WorkerType, Pull!States
<1>3. Pull!Dead \in Pull!WorkerType /\ Pull!Dead.pc = "dead"
    BY <1>2 DEF Pull!Dead, Pull!Unborn, Pull!WorkerType
<1> QED
    BY <1>1, <1>2, <1>3 DEF Pull!ReqIdle, Pull!Unborn

LEMMA PullInitType ==
    ASSUME Pull!Init
    PROVE  PullType
<1> USE DEF Pull!Init
<1>1. job \in Pull!Job
    BY Bounds DEF Pull!Job, Pull!States, Pull!Pid
<1>2. /\ req \in [Pullers -> Pull!ReqType]
      /\ worker \in [Pull!Worker -> Pull!WorkerType]
    BY PullConstants
<1>3. /\ spawned \in Pull!Pid /\ restarts \in 0..MaxRestarts /\ kills \in 0..MaxKills
      /\ told \subseteq Pull!Worker
    BY Bounds DEF Pull!Pid
<1>4. up \in BOOLEAN /\ lock = Nil
    OBVIOUS
<1>5. Pull!TypeOK
    BY <1>1, <1>2, <1>3, <1>4 DEF Pull!TypeOK
<1>6. /\ \A r \in Pullers : req[r].pc = "idle"
      /\ \A w \in Pull!Worker : worker[w].pc = "none"
    BY PullConstants
<1> QED
    BY <1>4, <1>5, <1>6 DEF PullType, Pull!Shape, Pull!LockInv, Pull!InLock

\* What SIGTERM does to a worker.
LEMMA Signal ==
    ASSUME NEW x \in Pull!WorkerType
    PROVE  /\ Pull!Signalled(x) \in Pull!WorkerType
           /\ Pull!Signalled(x).pc = "dead" \/ Pull!Signalled(x).pc = x.pc
           /\ Pull!Signalled(x).pc # "dead" => /\ Pull!Signalled(x).copy = x.copy
                                               /\ Pull!Signalled(x).outcome = x.outcome
                                               /\ x.pc \notin {"start", "init"}
<1>1. CASE x.pc \in {"start", "init"}
    BY <1>1, PullConstants DEF Pull!Signalled
<1>2. CASE x.pc \in {"run", "flush", "end"}
    <2>1. Pull!Signalled(x) = [x EXCEPT !.stop = TRUE]
        BY <1>2 DEF Pull!Signalled
    <2> QED
        BY <1>2, <2>1 DEF Pull!WorkerType
<1>3. CASE x.pc \notin {"start", "init", "run", "flush", "end"}
    BY <1>3 DEF Pull!Signalled
<1> QED
    BY <1>1, <1>2, <1>3

\* A step of the request that alone can hold the lock, or of one that never does.
LEMMA RequestLock ==
    ASSUME Pull!TypeOK, Pull!LockInv, NEW r \in Pullers,
           \A o \in Pullers \ {r} : req'[o] = req[o],
           \/ req'[r].pc \in Pull!InLock /\ lock' = r /\ lock \in {Nil, r}
           \/ req'[r].pc \notin Pull!InLock /\ lock' = Nil /\ lock \in {Nil, r}
           \/ req'[r].pc \notin Pull!InLock /\ req[r].pc \notin Pull!InLock /\ lock' = lock
    PROVE  Pull!LockInv'
BY NilAssumption DEF Pull!LockInv, Pull!TypeOK

LEMMA PullTypeStep ==
    ASSUME PullType, [Pull!Next]_(Pull!vars)
    PROVE  PullType'
<1> USE Bounds, PullConstants DEF Pull!ServiceStops
<1>0. /\ job \in Pull!Job
      /\ lock \in Pullers \cup {Nil}
      /\ req \in [Pullers -> Pull!ReqType]
      /\ worker \in [Pull!Worker -> Pull!WorkerType]
      /\ Pull!TypeOK /\ Pull!LockInv
    BY DEF PullType, Pull!TypeOK
<1>b. job \in Pull!Job
    BY <1>0
<1>c. /\ job \in Pull!Job
      /\ lock \in Pullers \cup {Nil}
      /\ req \in [Pullers -> Pull!ReqType]
      /\ worker \in [Pull!Worker -> Pull!WorkerType]
      /\ spawned \in Pull!Pid
      /\ up \in BOOLEAN
      /\ restarts \in 0..MaxRestarts
      /\ kills \in 0..MaxKills
      /\ told \subseteq Pull!Worker
    BY DEF PullType, Pull!TypeOK
<1>a. \A r \in Pullers :
         /\ req[r].pc \in {"spawn", "save", "cancel"} => req[r].copy \in Pull!Job /\ lock = r
         /\ req[r].pc = "signal" => req[r].copy \in Pull!Job
         /\ req[r].pc = "spawn" => spawned < MaxWorkers
    <2>1. ASSUME NEW r \in Pullers, req[r].pc \in {"spawn", "save", "cancel"}
          PROVE  req[r].copy \in Pull!Job /\ lock = r
        BY <1>0, <2>1 DEF PullType, Pull!Shape, Pull!LockInv, Pull!InLock
    <2>2. ASSUME NEW r \in Pullers, req[r].pc = "signal"
          PROVE  req[r].copy \in Pull!Job
        BY <1>0, <2>2 DEF PullType, Pull!Shape, Pull!InLock
    <2>3. ASSUME NEW r \in Pullers, req[r].pc = "spawn"
          PROVE  spawned < MaxWorkers
        BY <1>0, <2>3 DEF PullType, Pull!Shape
    <2> QED
        BY <2>1, <2>2, <2>3
\* A step of one request that leaves the workers alone.
<1>1. ASSUME NEW r \in Pullers, NEW new \in Pull!ReqType,
             req' = [req EXCEPT ![r] = new], job' \in Pull!Job,
             lock' \in Pullers \cup {Nil}, told' \subseteq Pull!Worker,
             UNCHANGED <<worker, spawned, up, restarts, kills>>,
             new.pc \in Pull!InLock \cup {"signal"} => new.copy \in Pull!Job,
             new.pc = "spawn" => spawned < MaxWorkers,
             Pull!LockInv'
      PROVE  PullType'
    <2>1. Pull!TypeOK'
        <3>1. req' \in [Pullers -> Pull!ReqType]
            BY <1>0, <1>1
        <3> QED
            BY <1>c, <1>1, <3>1 DEF Pull!TypeOK
    <2>2. Pull!Shape'
        BY <1>0, <1>1 DEF PullType, Pull!Shape
    <2> QED
        BY <1>1, <2>1, <2>2 DEF PullType
\* A step of one worker.
<1>2. ASSUME NEW w \in Pull!Worker, NEW new \in Pull!WorkerType,
             worker' = [worker EXCEPT ![w] = new], job' \in Pull!Job,
             kills' \in 0..MaxKills,
             UNCHANGED <<lock, req, spawned, up, restarts, told>>,
             new.pc \in {"init", "flush", "end"} => new.copy \in Pull!Job
      PROVE  PullType'
    <2>1. Pull!TypeOK'
        <3>1. worker' \in [Pull!Worker -> Pull!WorkerType]
            BY <1>0, <1>2
        <3> QED
            BY <1>c, <1>2, <3>1 DEF Pull!TypeOK
    <2>2. Pull!Shape'
        BY <1>0, <1>2 DEF PullType, Pull!Shape
    <2>3. Pull!LockInv'
        BY <1>0, <1>2 DEF Pull!LockInv
    <2> QED
        BY <2>1, <2>2, <2>3 DEF PullType
\* The service stops.
<1>3. ASSUME Pull!ServiceStops, restarts' \in 0..MaxRestarts,
             UNCHANGED <<job, spawned, kills, told>>
      PROVE  PullType'
    <2>1. worker' \in [Pull!Worker -> Pull!WorkerType]
        BY <1>0, <1>3, Signal
    <2>2. \A r \in Pullers : req'[r].pc = "idle"
        BY <1>3
    <2>3. req' \in [Pullers -> Pull!ReqType]
        BY <1>3
    <2>4. Pull!TypeOK'
        BY <1>0, <1>3, <2>1, <2>3 DEF Pull!TypeOK
    <2>5. \A w \in Pull!Worker : worker'[w].pc \in {"init", "flush", "end"} =>
              worker'[w].pc = worker[w].pc /\ worker'[w].copy = worker[w].copy
        BY <1>0, <1>3, Signal
    <2>6. Pull!Shape' /\ Pull!LockInv'
        BY <1>3, <2>2, <2>5 DEF PullType, Pull!Shape, Pull!LockInv, Pull!InLock
    <2> QED
        BY <2>4, <2>6 DEF PullType
<1>4. ASSUME NEW r \in Pullers, NEW g \in Groups, Pull!PullCheck(r, g)
      PROVE  PullType'
    <2> DEFINE new == [Pull!ReqIdle EXCEPT !.pc = "checked", !.group = g]
    <2>1. new \in Pull!ReqType /\ new.pc = "checked"
        BY DEF Pull!ReqIdle, Pull!ReqType
    <2>2. Pull!LockInv'
        BY <1>0, <1>4, <2>1, RequestLock DEF Pull!PullCheck, Pull!InLock
    <2> QED
        BY <1>0, <1>1, <1>4, <2>1, <2>2 DEF Pull!PullCheck, Pull!TypeOK, Pull!InLock
<1>5. ASSUME NEW r \in Pullers, Pull!PullRefused(r)
      PROVE  PullType'
    <2>1. Pull!LockInv'
        BY <1>0, <1>5, RequestLock DEF Pull!PullRefused, Pull!InLock
    <2> QED
        BY <1>0, <1>1, <1>5, <2>1 DEF Pull!PullRefused, Pull!TypeOK, Pull!InLock
<1>6. ASSUME NEW r \in Pullers, Pull!PullSave(r)
      PROVE  PullType'
    <2> DEFINE j == [state |-> "downloading", group |-> req[r].group, pid |-> 0, cancel |-> FALSE]
               new == [req[r] EXCEPT !.pc = "spawn", !.copy = j]
    <2>1. j \in Pull!Job
        BY <1>0 DEF Pull!Job, Pull!ReqType, Pull!States, Pull!Pid
    <2>2. new \in Pull!ReqType /\ new.pc = "spawn" /\ new.copy = j
        BY <1>0, <2>1 DEF Pull!ReqType
    <2> HIDE DEF j
    <2>3. req' = [req EXCEPT ![r] = new] /\ job' = j /\ lock' = r /\ lock = Nil
        BY <1>0, <1>6 DEF Pull!PullSave, j
    <2> HIDE DEF new
    <2>4. Pull!LockInv'
        BY <1>0, <2>2, <2>3, RequestLock DEF Pull!InLock
    <2>5. /\ UNCHANGED <<worker, spawned, up, restarts, kills, told>>
          /\ spawned < MaxWorkers
        BY <1>6 DEF Pull!PullSave
    <2>6. told' \subseteq Pull!Worker
        BY <1>0, <2>5 DEF Pull!TypeOK
    <2> QED
        BY <1>0, <1>1, <2>1, <2>2, <2>3, <2>4, <2>5, <2>6
<1>7. ASSUME NEW r \in Pullers, Pull!Spawn(r)
      PROVE  PullType'
    <2>1. /\ req[r].copy \in Pull!Job /\ spawned < MaxWorkers /\ lock = r
          /\ spawned \in Nat
        BY <1>a, <1>7 DEF Pull!Spawn, PullType, Pull!TypeOK, Pull!Pid
    <2> DEFINE n == spawned + 1
               j == [req[r].copy EXCEPT !.pid = n]
               new == [req[r] EXCEPT !.pc = "save", !.copy = j]
               born == [Pull!Unborn EXCEPT !.pc = "start"]
    <2>2. n \in Pull!Pid /\ n \in Pull!Worker
        BY <2>1 DEF Pull!Pid, Pull!Worker
    <2>3. j \in Pull!Job
        BY <2>1, <2>2 DEF Pull!Job
    <2>4. new \in Pull!ReqType /\ new.pc = "save" /\ new.copy = j
        BY <1>0, <2>3 DEF Pull!ReqType
    <2>5. born \in Pull!WorkerType /\ born.pc = "start"
        BY DEF Pull!WorkerType, Pull!Unborn
    <2>6. /\ req' = [req EXCEPT ![r] = new] /\ worker' = [worker EXCEPT ![n] = born]
          /\ spawned' = n
        BY <1>0, <1>7 DEF Pull!Spawn, Pull!ReqType
    <2> HIDE DEF n, j, new, born
    <2>7. Pull!TypeOK'
        <3>1. req' \in [Pullers -> Pull!ReqType]
            BY <1>0, <2>4, <2>6
        <3>2. worker' \in [Pull!Worker -> Pull!WorkerType]
            BY <1>0, <2>2, <2>5, <2>6
        <3>3. spawned' \in Pull!Pid
            BY <2>2, <2>6
        <3>4. UNCHANGED <<job, lock, up, restarts, kills, told>>
            BY <1>7 DEF Pull!Spawn
        <3> QED
            BY <1>c, <3>1, <3>2, <3>3, <3>4 DEF Pull!TypeOK
    <2>8. Pull!LockInv'
        BY <1>0, <1>7, <2>1, <2>4, <2>6, RequestLock DEF Pull!Spawn, Pull!InLock
    <2>9. Pull!Shape'
        <3>1. \A o \in Pullers \ {r} : req[o].pc # "spawn"
            BY <1>0, <2>1 DEF Pull!LockInv, Pull!InLock
        <3> QED
            BY <1>0, <2>2, <2>3, <2>4, <2>5, <2>6, <3>1 DEF PullType, Pull!Shape
    <2> QED
        BY <2>7, <2>8, <2>9 DEF PullType
<1>8. ASSUME NEW r \in Pullers, Pull!SpawnSave(r)
      PROVE  PullType'
    <2>1. req[r].copy \in Pull!Job /\ lock = r
        BY <1>a, <1>8 DEF Pull!SpawnSave
    <2>2. Pull!LockInv'
        BY <1>0, <1>8, <2>1, RequestLock DEF Pull!SpawnSave, Pull!InLock
    <2> QED
        BY <1>0, <1>1, <1>8, <2>1, <2>2 DEF Pull!SpawnSave, Pull!TypeOK, Pull!InLock
<1>9. ASSUME NEW r \in Pullers, Pull!Resume(r)
      PROVE  PullType'
    <2> DEFINE j == [job EXCEPT !.state = "downloading", !.cancel = FALSE]
               new == [Pull!ReqIdle EXCEPT !.pc = "spawn", !.copy = j]
    <2>1. j \in Pull!Job
        BY <1>0 DEF Pull!Job, Pull!States
    <2>2. new \in Pull!ReqType /\ new.pc = "spawn" /\ new.copy = j
        BY <2>1 DEF Pull!ReqType, Pull!ReqIdle
    <2>3. req' = [req EXCEPT ![r] = new] /\ job' = j /\ lock' = r /\ lock = Nil
        BY <1>9 DEF Pull!Resume
    <2> HIDE DEF j, new
    <2>4. Pull!LockInv'
        BY <1>0, <2>2, <2>3, RequestLock DEF Pull!InLock
    <2>5. /\ UNCHANGED <<worker, spawned, up, restarts, kills, told>>
          /\ spawned < MaxWorkers
        BY <1>9 DEF Pull!Resume
    <2>6. told' \subseteq Pull!Worker
        BY <1>0, <2>5 DEF Pull!TypeOK
    <2> QED
        BY <1>0, <1>1, <2>1, <2>2, <2>3, <2>4, <2>5, <2>6
<1>10. ASSUME NEW r \in Pullers, Pull!CancelLoad(r)
       PROVE  PullType'
    <2> DEFINE j == [job EXCEPT !.cancel = TRUE]
               new == [Pull!ReqIdle EXCEPT !.pc = "cancel", !.copy = j]
    <2>1. j \in Pull!Job
        BY <1>0 DEF Pull!Job
    <2>2. new \in Pull!ReqType /\ new.pc = "cancel" /\ new.copy = j
        BY <2>1 DEF Pull!ReqType, Pull!ReqIdle
    <2>3. req' = [req EXCEPT ![r] = new] /\ lock' = r /\ lock = Nil
        BY <1>10 DEF Pull!CancelLoad
    <2> HIDE DEF j, new
    <2>4. Pull!LockInv'
        BY <1>0, <2>2, <2>3, RequestLock DEF Pull!InLock
    <2>5. told' \subseteq Pull!Worker
        BY <1>0, <1>10 DEF Pull!CancelLoad, Pull!TypeOK
    <2> QED
        BY <1>0, <1>1, <1>10, <2>1, <2>2, <2>3, <2>4, <2>5 DEF Pull!CancelLoad, Pull!TypeOK
<1>11. ASSUME NEW r \in Pullers, Pull!CancelSave(r)
       PROVE  PullType'
    <2> DEFINE new == [req[r] EXCEPT !.pc = "signal"]
    <2>1. req[r].copy \in Pull!Job /\ lock = r
        BY <1>a, <1>11 DEF Pull!CancelSave
    <2>2. new \in Pull!ReqType /\ new.pc = "signal" /\ new.copy = req[r].copy
        BY <1>0 DEF Pull!ReqType
    <2>3. req' = [req EXCEPT ![r] = new]
        BY <1>0, <1>11 DEF Pull!CancelSave
    <2> HIDE DEF new
    <2>4. Pull!LockInv'
        BY <1>0, <1>11, <2>1, <2>2, <2>3, RequestLock DEF Pull!CancelSave, Pull!InLock
    <2> QED
        BY <1>0, <1>1, <1>11, <2>1, <2>2, <2>3, <2>4 DEF Pull!CancelSave, Pull!TypeOK
<1>12. ASSUME NEW r \in Pullers, Pull!CancelSignal(r)
       PROVE  PullType'
    <2>1. CASE req[r].copy.pid = 0
        BY <1>0, <1>3, <1>12, <2>1 DEF Pull!CancelSignal, Pull!TypeOK
    <2>2. CASE req[r].copy.pid # 0
        <3> DEFINE p == req[r].copy.pid
        <3>1. p \in Pull!Worker
            BY <1>a, <1>12, <2>2 DEF Pull!CancelSignal, Pull!Job, Pull!Pid, Pull!Worker
        <3>2. /\ worker' = [worker EXCEPT ![p] = Pull!Signalled(worker[p])]
              /\ req' = [req EXCEPT ![r] = Pull!ReqIdle]
              /\ UNCHANGED <<job, lock, spawned, up, restarts, kills, told>>
            BY <1>12, <2>2 DEF Pull!CancelSignal
        <3> HIDE DEF p
        <3>3. Pull!TypeOK'
            <4>1. worker' \in [Pull!Worker -> Pull!WorkerType]
                BY <1>0, <3>1, <3>2, Signal
            <4>2. req' \in [Pullers -> Pull!ReqType]
                BY <1>0, <3>2 DEF Pull!ReqType, Pull!ReqIdle
            <4> QED
                BY <1>c, <3>2, <4>1, <4>2 DEF Pull!TypeOK
        <3>4. Pull!LockInv'
            BY <1>0, <1>12, <3>2, RequestLock DEF Pull!CancelSignal, Pull!InLock
        <3>5. Pull!Shape'
            BY <1>0, <3>1, <3>2, Signal DEF PullType, Pull!Shape, Pull!InLock
        <3> QED
            BY <3>3, <3>4, <3>5 DEF PullType
    <2> QED
        BY <2>1, <2>2
<1>13. ASSUME NEW w \in Pull!Worker, Pull!WStart(w)
       PROVE  PullType'
    <2> DEFINE new == IF job.state = "downloading"
                      THEN [worker[w] EXCEPT !.pc = "init", !.group = job.group, !.copy = job]
                      ELSE Pull!Dead
    <2>1. new \in Pull!WorkerType /\ (new.pc = "init" => new.copy = job)
          /\ new.pc \in {"init", "dead"}
        BY <1>0 DEF Pull!WorkerType, Pull!Job
    <2>2. worker' = [worker EXCEPT ![w] = new]
        BY <1>0, <1>13 DEF Pull!WStart
    <2> HIDE DEF new
    <2>3. job' \in Pull!Job /\ kills' \in 0..MaxKills
        BY <1>0, <1>13 DEF Pull!WStart, Pull!TypeOK
    <2>4. UNCHANGED <<lock, req, spawned, up, restarts, told>>
        BY <1>13 DEF Pull!WStart
    <2>5. new.pc \in {"init", "flush", "end"} => new.copy \in Pull!Job
        BY <1>b, <2>1
    <2> QED
        BY <1>2, <2>1, <2>2, <2>3, <2>4, <2>5
<1>14. ASSUME NEW w \in Pull!Worker, Pull!WInit(w) \/ Pull!WFlushSave(w)
       PROVE  PullType'
    <2> DEFINE new == [worker[w] EXCEPT !.pc = "run", !.copy = Nil]
    <2>1. new \in Pull!WorkerType /\ new.pc = "run"
        BY <1>0 DEF Pull!WorkerType
    <2>2. worker[w].copy \in Pull!Job
        BY <1>14 DEF Pull!WInit, Pull!WFlushSave, PullType, Pull!Shape
    <2>3. [worker[w].copy EXCEPT !.pid = w] \in Pull!Job
        BY <2>2 DEF Pull!Job, Pull!Pid, Pull!Worker
    <2>4. /\ worker' = [worker EXCEPT ![w] = new]
          /\ job' = [worker[w].copy EXCEPT !.pid = w]
        BY <1>0, <1>14 DEF Pull!WInit, Pull!WFlushSave
    <2> HIDE DEF new
    <2>5. job' \in Pull!Job /\ kills' \in 0..MaxKills
        BY <1>0, <1>14, <2>3, <2>4 DEF Pull!WInit, Pull!WFlushSave, Pull!TypeOK
    <2>6. UNCHANGED <<lock, req, spawned, up, restarts, told>>
        BY <1>14 DEF Pull!WInit, Pull!WFlushSave
    <2>7. new.pc \in {"init", "flush", "end"} => new.copy \in Pull!Job
        BY <1>b, <2>1
    <2> QED
        BY <1>2, <2>1, <2>4, <2>5, <2>6, <2>7
<1>15. ASSUME NEW w \in Pull!Worker, Pull!WPoll(w)
       PROVE  PullType'
    <2> DEFINE new == [worker[w] EXCEPT !.stop = TRUE]
    <2>1. new \in Pull!WorkerType /\ new.pc = "run"
        BY <1>0, <1>15 DEF Pull!WPoll, Pull!WorkerType
    <2>2. worker' = [worker EXCEPT ![w] = new]
        BY <1>0, <1>15 DEF Pull!WPoll
    <2> HIDE DEF new
    <2>3. job' \in Pull!Job /\ kills' \in 0..MaxKills
        BY <1>0, <1>15 DEF Pull!WPoll, Pull!TypeOK
    <2>4. UNCHANGED <<lock, req, spawned, up, restarts, told>>
        BY <1>15 DEF Pull!WPoll
    <2>5. new.pc \in {"init", "flush", "end"} => new.copy \in Pull!Job
        BY <1>b, <2>1
    <2> QED
        BY <1>2, <2>1, <2>2, <2>3, <2>4, <2>5
<1>16. ASSUME NEW w \in Pull!Worker, Pull!WFlushLoad(w)
       PROVE  PullType'
    <2> DEFINE new == IF job.group = worker[w].group
                      THEN [worker[w] EXCEPT !.pc = "flush", !.copy = job]
                      ELSE [worker[w] EXCEPT !.stop = TRUE]
    <2>1. new \in Pull!WorkerType /\ (new.pc # "run" => new.pc = "flush" /\ new.copy = job)
        BY <1>0, <1>16 DEF Pull!WFlushLoad, Pull!WorkerType
    <2>2. worker' = [worker EXCEPT ![w] = new]
        BY <1>0, <1>16 DEF Pull!WFlushLoad
    <2> HIDE DEF new
    <2>3. job' \in Pull!Job /\ kills' \in 0..MaxKills
        BY <1>0, <1>16 DEF Pull!WFlushLoad, Pull!TypeOK
    <2>4. UNCHANGED <<lock, req, spawned, up, restarts, told>>
        BY <1>16 DEF Pull!WFlushLoad
    <2>5. new.pc \in {"init", "flush", "end"} => new.copy \in Pull!Job
        BY <1>b, <2>1
    <2> QED
        BY <1>2, <2>1, <2>2, <2>3, <2>4, <2>5
<1>17. ASSUME NEW w \in Pull!Worker, NEW o \in Pull!States, Pull!WEnds(w, o)
       PROVE  PullType'
    <2> DEFINE new == IF job.group = worker[w].group
                      THEN [worker[w] EXCEPT !.pc = "end", !.copy = job, !.outcome = o]
                      ELSE Pull!Dead
    <2>1. new \in Pull!WorkerType /\ (new.pc # "dead" => new.pc = "end" /\ new.copy = job)
        BY <1>0 DEF Pull!WorkerType
    <2>2. worker' = [worker EXCEPT ![w] = new]
        BY <1>0, <1>17 DEF Pull!WEnds
    <2> HIDE DEF new
    <2>3. job' \in Pull!Job /\ kills' \in 0..MaxKills
        BY <1>0, <1>17 DEF Pull!WEnds, Pull!TypeOK
    <2>4. UNCHANGED <<lock, req, spawned, up, restarts, told>>
        BY <1>17 DEF Pull!WEnds
    <2>5. new.pc \in {"init", "flush", "end"} => new.copy \in Pull!Job
        BY <1>b, <2>1
    <2> QED
        BY <1>2, <2>1, <2>2, <2>3, <2>4, <2>5
<1>18. ASSUME NEW w \in Pull!Worker, Pull!WEndSave(w)
       PROVE  PullType'
    <2> DEFINE old == worker[w]
               j == [old.copy EXCEPT !.state = old.outcome,
                                     !.cancel = @ /\ old.outcome # "cancelled"]
    <2>1. old.copy \in Pull!Job /\ old.outcome \in Pull!States
        BY <1>0, <1>18 DEF Pull!WEndSave, PullType, Pull!Shape, Pull!WorkerType
    <2>2. (old.copy.cancel /\ old.outcome # "cancelled") \in BOOLEAN
        OBVIOUS
    <2>3. j \in Pull!Job
        BY <2>1, <2>2 DEF Pull!Job
    <2>4. job' = j /\ worker' = [worker EXCEPT ![w] = Pull!Dead]
        BY <1>18 DEF Pull!WEndSave
    <2>5. kills' \in 0..MaxKills
        BY <1>0, <1>18 DEF Pull!WEndSave, Pull!TypeOK
    <2>6. UNCHANGED <<lock, req, spawned, up, restarts, told>>
        BY <1>18 DEF Pull!WEndSave
    <2> HIDE DEF j
    <2> QED
        BY <1>0, <1>2, <2>3, <2>4, <2>5, <2>6
<1>19. ASSUME NEW w \in Pull!Worker, Pull!WKilled(w)
       PROVE  PullType'
    <2>1. kills' \in 0..MaxKills
        BY <1>0, <1>19 DEF Pull!WKilled, Pull!TypeOK
    <2>2. worker' = [worker EXCEPT ![w] = Pull!Dead] /\ job' \in Pull!Job
        BY <1>b, <1>19 DEF Pull!WKilled
    <2>3. UNCHANGED <<lock, req, spawned, up, restarts, told>>
        BY <1>19 DEF Pull!WKilled
    <2> QED
        BY <1>0, <1>2, <2>1, <2>2, <2>3
<1>20. CASE Pull!Stop
    <2>1. restarts' \in 0..MaxRestarts
        BY <1>0, <1>20 DEF Pull!Stop, Pull!TypeOK
    <2> QED
        BY <1>3, <1>20, <2>1 DEF Pull!Stop
<1>21. CASE Pull!Boot
    BY <1>0, <1>21 DEF Pull!Boot, PullType, Pull!TypeOK, Pull!Shape, Pull!LockInv
<1>22. CASE UNCHANGED Pull!vars
    BY <1>22 DEF Pull!vars, PullType, Pull!TypeOK, Pull!Shape, Pull!LockInv
<1>23. ASSUME NEW w \in Pull!Worker, Pull!WStops(w) \/ Pull!WFinishes(w)
       PROVE  PullType'
    BY <1>17, <1>23 DEF Pull!WStops, Pull!WFinishes, Pull!States
<1> QED
    BY <1>4, <1>5, <1>6, <1>7, <1>8, <1>9, <1>10, <1>11, <1>12, <1>13, <1>14, <1>15, <1>16,
       <1>18, <1>19, <1>20, <1>21, <1>22, <1>23 DEF Pull!Next, Pull!Request, Pull!WorkerStep

----------------------------------------------------------------------------
(* ModelJob: whose pid is on file *)

LEMMA PidsInit ==
    ASSUME Pull!Init
    PROVE  Pull!PidsKnown
<1>1. /\ job.state = "idle"
      /\ \A r \in Pullers : req[r].pc = "idle"
      /\ \A w \in Pull!Worker : worker[w].pc = "none"
    BY PullConstants DEF Pull!Init
<1> QED
    BY <1>1 DEF Pull!PidsKnown

\* A step of one request: what it may leave in the job and in its copy.
LEMMA PidsRequest ==
    ASSUME PullType, Pull!PidsKnown, NEW r \in Pullers,
           \A o \in Pullers \ {r} : req'[o] = req[o],
           restarts' = restarts, worker' = worker,
           lock' = Nil /\ job'.state = "downloading" /\ job'.pid = 0 => restarts > 0,
           req'[r].pc \in {"cancel", "signal"} /\ req'[r].copy.pid = 0 => restarts > 0,
           req'[r].pc = "save" => req'[r].copy.pid # 0
    PROVE  Pull!PidsKnown'
BY DEF Pull!PidsKnown

LEMMA PidsStep ==
    ASSUME PullType, Pull!PidsKnown, [Pull!Next]_(Pull!vars)
    PROVE  Pull!PidsKnown'
<1> USE PullConstants
<1>0. /\ job \in Pull!Job
      /\ req \in [Pullers -> Pull!ReqType]
      /\ worker \in [Pull!Worker -> Pull!WorkerType]
      /\ restarts \in Nat
    BY Bounds DEF PullType, Pull!TypeOK
<1>a. \A r \in Pullers :
         req[r].pc \in {"spawn", "save", "cancel", "signal"} => req[r].copy \in Pull!Job
    BY DEF PullType, Pull!Shape, Pull!InLock
<1>1. ASSUME NEW r \in Pullers,
             \/ \E g \in Groups : Pull!PullCheck(r, g)
             \/ Pull!PullRefused(r)
      PROVE  Pull!PidsKnown'
    <2>1. req'[r].pc \in {"checked", "idle"} /\ \A o \in Pullers \ {r} : req'[o] = req[o]
        BY <1>0, <1>1 DEF Pull!PullCheck, Pull!PullRefused, Pull!ReqIdle
    <2>2. UNCHANGED <<job, lock, worker, restarts>>
        BY <1>1 DEF Pull!PullCheck, Pull!PullRefused
    <2> QED
        BY <2>1, <2>2, PidsRequest DEF Pull!PidsKnown
<1>2. ASSUME NEW r \in Pullers, Pull!PullSave(r) \/ Pull!Resume(r)
      PROVE  Pull!PidsKnown'
    <2>1. req'[r].pc = "spawn" /\ \A o \in Pullers \ {r} : req'[o] = req[o]
        <3>1. CASE Pull!PullSave(r)
            BY <1>0, <3>1 DEF Pull!PullSave, Pull!ReqType
        <3>2. CASE Pull!Resume(r)
            BY <1>0, <3>2 DEF Pull!Resume, Pull!ReqIdle
        <3> QED
            BY <1>2, <3>1, <3>2
    <2>2. UNCHANGED <<worker, restarts>> /\ lock' = r
        BY <1>2 DEF Pull!PullSave, Pull!Resume
    <2> QED
        BY <2>1, <2>2, PidsRequest, NilAssumption
<1>3. ASSUME NEW r \in Pullers, Pull!Spawn(r)
      PROVE  Pull!PidsKnown'
    <2>1. spawned + 1 \in Pull!Worker /\ spawned + 1 # 0 /\ lock = r
        BY <1>3, Bounds DEF Pull!Spawn, PullType, Pull!Shape, Pull!LockInv, Pull!InLock,
                            Pull!TypeOK, Pull!Pid, Pull!Worker
    <2>2. req[r].copy \in Pull!Job
        BY <1>3, <1>a DEF Pull!Spawn
    <2>3. req'[r].pc = "save" /\ req'[r].copy.pid = spawned + 1
        BY <1>0, <1>3, <2>2 DEF Pull!Spawn, Pull!ReqType, Pull!Job
    <2>4. \A o \in Pullers \ {r} : req'[o] = req[o]
        BY <1>0, <1>3 DEF Pull!Spawn
    <2>5. \A w \in Pull!Worker : worker'[w] = worker[w] \/ worker'[w].pc = "start"
        BY <1>0, <1>3, <2>1 DEF Pull!Spawn, Pull!Unborn
    <2>6. UNCHANGED <<job, lock, restarts>>
        BY <1>3 DEF Pull!Spawn
    <2>7. lock # Nil
        BY <2>1, NilAssumption
    <2>8. \A o \in Pullers : req'[o] = req[o] \/ (req'[o].pc = "save" /\ req'[o].copy.pid # 0)
        BY <2>1, <2>3, <2>4
    <2> QED
        BY <2>5, <2>6, <2>7, <2>8 DEF Pull!PidsKnown
<1>4. ASSUME NEW r \in Pullers, Pull!SpawnSave(r)
      PROVE  Pull!PidsKnown'
    <2>1. req'[r].pc = "idle" /\ \A o \in Pullers \ {r} : req'[o] = req[o]
        BY <1>0, <1>4 DEF Pull!SpawnSave
    <2>2. UNCHANGED <<worker, restarts>> /\ job'.pid # 0
        BY <1>4 DEF Pull!SpawnSave, Pull!PidsKnown
    <2> QED
        BY <2>1, <2>2, PidsRequest
<1>5. ASSUME NEW r \in Pullers, Pull!CancelLoad(r)
      PROVE  Pull!PidsKnown'
    <2>1. /\ lock = Nil /\ lock' = r /\ job.state = "downloading"
          /\ UNCHANGED <<worker, restarts>>
        BY <1>5 DEF Pull!CancelLoad, Pull!View
    <2>2. req'[r].pc = "cancel" /\ req'[r].copy.pid = job.pid
        BY <1>0, <1>5 DEF Pull!CancelLoad, Pull!ReqIdle, Pull!Job
    <2>3. \A o \in Pullers \ {r} : req'[o] = req[o]
        BY <1>0, <1>5 DEF Pull!CancelLoad
    <2> QED
        BY <2>1, <2>2, <2>3, PidsRequest, NilAssumption DEF Pull!PidsKnown
<1>6. ASSUME NEW r \in Pullers, Pull!CancelSave(r)
      PROVE  Pull!PidsKnown'
    <2>1. /\ req'[r].pc = "signal" /\ req'[r].copy = req[r].copy
          /\ \A o \in Pullers \ {r} : req'[o] = req[o]
        BY <1>0, <1>6 DEF Pull!CancelSave, Pull!ReqType
    <2>2. UNCHANGED <<worker, restarts>> /\ job' = req[r].copy /\ req[r].pc = "cancel"
        BY <1>6 DEF Pull!CancelSave
    <2> QED
        BY <2>1, <2>2, PidsRequest DEF Pull!PidsKnown
\* The service stops, by itself or by a signal to pid 0.
<1>7. ASSUME Pull!ServiceStops, job' = job, restarts' \in Nat, restarts' > 0
      PROVE  Pull!PidsKnown'
    <2>1. \A r \in Pullers : req'[r].pc = "idle"
        BY <1>7 DEF Pull!ServiceStops
    <2>2. \A w \in Pull!Worker : worker'[w].pc = "end" =>
              worker[w].pc = "end" /\ worker'[w].outcome = worker[w].outcome
        BY <1>0, <1>7, Signal DEF Pull!ServiceStops
    <2> QED
        BY <1>7, <2>1, <2>2 DEF Pull!PidsKnown
<1>8. ASSUME NEW r \in Pullers, Pull!CancelSignal(r)
      PROVE  Pull!PidsKnown'
    <2>1. CASE req[r].copy.pid = 0
        BY <1>0, <1>7, <1>8, <2>1 DEF Pull!CancelSignal, Pull!PidsKnown
    <2>2. CASE req[r].copy.pid # 0
        <3>1. req[r].copy.pid \in Pull!Worker
            BY <1>8, <1>a, <2>2 DEF Pull!CancelSignal, Pull!Job, Pull!Pid, Pull!Worker
        <3>2. /\ req'[r].pc = "idle" /\ \A o \in Pullers \ {r} : req'[o] = req[o]
              /\ UNCHANGED <<job, lock, restarts>>
            BY <1>0, <1>8, <2>2 DEF Pull!CancelSignal
        <3>3. \A w \in Pull!Worker : worker'[w].pc = "end" =>
                  worker[w].pc = "end" /\ worker'[w].outcome = worker[w].outcome
            BY <1>0, <1>8, <2>2, <3>1, Signal DEF Pull!CancelSignal
        <3> QED
            BY <3>2, <3>3 DEF Pull!PidsKnown
    <2> QED
        BY <2>1, <2>2
\* A step of one worker.
<1>9. ASSUME NEW w \in Pull!Worker, UNCHANGED <<lock, req, restarts>>,
             \A v \in Pull!Worker \ {w} : worker'[v] = worker[v],
             worker'[w].pc = "end" => worker'[w].outcome # "downloading",
             \/ job' = job
             \/ job'.pid # 0
             \/ job'.state # "downloading"
      PROVE  Pull!PidsKnown'
    BY <1>9 DEF Pull!PidsKnown
<1>10. ASSUME NEW w \in Pull!Worker, Pull!WStart(w) \/ Pull!WPoll(w) \/ Pull!WFlushLoad(w)
       PROVE  Pull!PidsKnown'
    <2>1. worker'[w].pc # "end" /\ \A v \in Pull!Worker \ {w} : worker'[v] = worker[v]
        <3>1. CASE Pull!WStart(w)
            BY <1>0, <3>1 DEF Pull!WStart, Pull!WorkerType
        <3>2. CASE Pull!WPoll(w)
            BY <1>0, <3>2 DEF Pull!WPoll, Pull!WorkerType
        <3>3. CASE Pull!WFlushLoad(w)
            BY <1>0, <3>3 DEF Pull!WFlushLoad, Pull!WorkerType
        <3> QED
            BY <1>10, <3>1, <3>2, <3>3
    <2> QED
        BY <1>9, <1>10, <2>1 DEF Pull!WStart, Pull!WPoll, Pull!WFlushLoad
<1>11. ASSUME NEW w \in Pull!Worker, Pull!WInit(w) \/ Pull!WFlushSave(w)
       PROVE  Pull!PidsKnown'
    <2>1. worker'[w].pc = "run" /\ \A v \in Pull!Worker \ {w} : worker'[v] = worker[v]
        BY <1>0, <1>11 DEF Pull!WInit, Pull!WFlushSave, Pull!WorkerType
    <2>2. worker[w].copy \in Pull!Job
        BY <1>11 DEF Pull!WInit, Pull!WFlushSave, PullType, Pull!Shape
    <2>3. job'.pid = w /\ w # 0
        BY <1>11, <2>2, Bounds DEF Pull!WInit, Pull!WFlushSave, Pull!Job, Pull!Worker
    <2> QED
        BY <1>9, <1>11, <2>1, <2>3 DEF Pull!WInit, Pull!WFlushSave
<1>12. ASSUME NEW w \in Pull!Worker, NEW o \in {"cancelled", "done", "error"}, Pull!WEnds(w, o)
       PROVE  Pull!PidsKnown'
    <2>1. worker'[w].pc = "end" => worker'[w].outcome = o
        BY <1>0, <1>12 DEF Pull!WEnds, Pull!WorkerType
    <2>2. \A v \in Pull!Worker \ {w} : worker'[v] = worker[v]
        BY <1>0, <1>12 DEF Pull!WEnds
    <2> QED
        BY <1>9, <1>12, <2>1, <2>2 DEF Pull!WEnds
<1>13. ASSUME NEW w \in Pull!Worker, Pull!WEndSave(w)
       PROVE  Pull!PidsKnown'
    <2>1. worker[w].copy \in Pull!Job /\ worker[w].outcome # "downloading"
        BY <1>13 DEF Pull!WEndSave, PullType, Pull!Shape, Pull!PidsKnown
    <2>2. job'.state = worker[w].outcome
        BY <1>13, <2>1 DEF Pull!WEndSave, Pull!Job
    <2>3. worker'[w].pc = "dead" /\ \A v \in Pull!Worker \ {w} : worker'[v] = worker[v]
        BY <1>0, <1>13 DEF Pull!WEndSave
    <2> QED
        BY <1>9, <1>13, <2>1, <2>2, <2>3 DEF Pull!WEndSave
<1>14. ASSUME NEW w \in Pull!Worker, Pull!WKilled(w)
       PROVE  Pull!PidsKnown'
    <2>1. worker'[w].pc = "dead" /\ \A v \in Pull!Worker \ {w} : worker'[v] = worker[v]
        BY <1>0, <1>14 DEF Pull!WKilled
    <2> QED
        BY <1>9, <1>14, <2>1 DEF Pull!WKilled
<1>15. CASE Pull!Stop
    BY <1>0, <1>7, <1>15 DEF Pull!Stop
<1>16. CASE Pull!Boot
    BY <1>16 DEF Pull!Boot, Pull!PidsKnown
<1>17. CASE UNCHANGED Pull!vars
    BY <1>17 DEF Pull!vars, Pull!PidsKnown
<1>18. ASSUME NEW w \in Pull!Worker, Pull!WStops(w) \/ Pull!WFinishes(w)
       PROVE  Pull!PidsKnown'
    BY <1>12, <1>18 DEF Pull!WStops, Pull!WFinishes
<1> QED
    BY <1>1, <1>2, <1>3, <1>4, <1>5, <1>6, <1>8, <1>10, <1>11, <1>13, <1>14, <1>15, <1>16,
       <1>17, <1>18 DEF Pull!Next, Pull!Request, Pull!WorkerStep

PullInv == which = "Pull" => PullType /\ Pull!PidsKnown

LEMMA PullInvariant == Spec => []PullInv
<1>1. Init => PullInv
    BY PullInitType, PidsInit DEF Init, PullInv
<1>2. PullInv /\ [Next]_vars => PullInv'
    BY ComponentStep, PullTypeStep, PidsStep DEF PullInv
<1> QED
    BY <1>1, <1>2, PTL DEF Spec

\* A download that the page shows as running has a live worker or a request about
\* to start one, for any number of requests, workers, kills and restarts; after a
\* stop of the service a job left without a pid is the one exception (_job_view).
THEOREM ShownJobIsReal == Spec => []ViewHonest
<1>1. ASSUME PullType, Pull!PidsKnown
      PROVE  Pull!ViewHonest
    <2> SUFFICES ASSUME Pull!View(job) = "downloading", lock = Nil
                 PROVE  \/ \E w \in Pull!Worker : Pull!Alive(w)
                        \/ restarts > 0 /\ job.pid = 0
        BY DEF Pull!ViewHonest
    <2>1. job.state = "downloading" /\ Pull!PidAlive(job.pid) /\ job.pid \in Pull!Pid
        BY <1>1 DEF Pull!View, PullType, Pull!TypeOK, Pull!Job
    <2>2. CASE job.pid = 0
        BY <1>1, <2>1, <2>2 DEF Pull!PidsKnown
    <2>3. CASE job.pid # 0
        BY <2>1, <2>3 DEF Pull!PidAlive, Pull!Pid, Pull!Worker
    <2> QED
        BY <2>2, <2>3
<1>2. PullInv => ViewHonest
    BY <1>1 DEF PullInv, ViewHonest
<1> QED
    BY <1>2, PullInvariant, PTL

----------------------------------------------------------------------------
(* ModelJob: one worker at a time, when one request is served at a time *)

LEMMA SoleInit ==
    ASSUME Pull!Init
    PROVE  Pull!SoleWorker
<1>1. /\ \A r \in Pullers : req[r].pc = "idle"
      /\ \A w \in Pull!Worker : worker[w].pc = "none"
    BY PullConstants DEF Pull!Init
<1> QED
    BY <1>1 DEF Pull!SoleWorker, Pull!Alive

LEMMA SoleStep ==
    ASSUME PullType, Pull!SoleWorker, [Pull!Next]_(Pull!vars), NEW p, Pullers = {p}
    PROVE  Pull!SoleWorker'
<1> USE PullConstants
<1>0. /\ job \in Pull!Job
      /\ req \in [Pullers -> Pull!ReqType]
      /\ worker \in [Pull!Worker -> Pull!WorkerType]
    BY DEF PullType, Pull!TypeOK
<1>a. req[p].pc \in {"spawn", "save", "cancel", "signal"} => req[p].copy \in Pull!Job
    BY DEF PullType, Pull!Shape, Pull!InLock
\* Idle requests leave no worker alive that the job does not name.
<1>b. ASSUME req[p].pc = "idle", Pull!View(job) # "downloading", NEW w \in Pull!Worker
      PROVE  ~Pull!Alive(w)
    BY <1>b DEF Pull!SoleWorker, Pull!View, Pull!PidAlive
\* With no worker alive, only the spawning request has to agree with the job.
<1>c. ASSUME \A w \in Pull!Worker : ~Pull!Alive(w), worker' = worker,
             req'[p].pc = "spawn" => /\ job'.state = "downloading"
                                     /\ req'[p].copy.state = "downloading"
      PROVE  Pull!SoleWorker'
    BY <1>c DEF Pull!SoleWorker, Pull!Alive
<1>1. CASE \E g \in Groups : Pull!PullCheck(p, g)
    <2>1. /\ req[p].pc = "idle" /\ Pull!View(job) # "downloading"
          /\ req'[p].pc = "checked" /\ worker' = worker
        BY <1>0, <1>1 DEF Pull!PullCheck, Pull!ReqIdle
    <2> QED
        BY <1>b, <1>c, <2>1
<1>2. CASE Pull!PullRefused(p)
    <2>1. req[p].pc = "checked" /\ req'[p].pc = "idle" /\ worker' = worker
        BY <1>0, <1>2 DEF Pull!PullRefused
    <2> QED
        BY <1>c, <2>1 DEF Pull!SoleWorker
<1>3. CASE Pull!PullSave(p)
    <2>1. req[p].pc = "checked" /\ worker' = worker /\ job'.state = "downloading"
        BY <1>3 DEF Pull!PullSave
    <2>2. req'[p].copy.state = "downloading"
        BY <1>0, <1>3 DEF Pull!PullSave, Pull!ReqType
    <2> QED
        BY <1>c, <2>1, <2>2 DEF Pull!SoleWorker
<1>4. CASE Pull!Resume(p)
    <2>1. /\ req[p].pc = "idle" /\ Pull!View(job) # "downloading"
          /\ worker' = worker
        BY <1>4 DEF Pull!Resume
    <2>2. job'.state = "downloading" /\ job' \in Pull!Job
        BY <1>0, <1>4 DEF Pull!Resume, Pull!Job, Pull!States
    <2>3. req'[p].copy = job'
        BY <1>0, <1>4 DEF Pull!Resume, Pull!ReqIdle
    <2> QED
        BY <1>b, <1>c, <2>1, <2>2, <2>3
<1>5. CASE Pull!Spawn(p)
    <2>1. req[p].pc = "spawn" /\ UNCHANGED job /\ spawned' = spawned + 1
        BY <1>5 DEF Pull!Spawn
    <2>2. \A w \in Pull!Worker : ~Pull!Alive(w)
        BY <2>1 DEF Pull!SoleWorker
    <2>3. job.state = "downloading" /\ req[p].copy.state = "downloading"
        BY <2>1 DEF Pull!SoleWorker
    <2>4. spawned + 1 \in Pull!Worker
        BY <2>1, Bounds DEF PullType, Pull!Shape, Pull!TypeOK, Pull!Pid, Pull!Worker
    <2>5. /\ req'[p].pc = "save" /\ req'[p].copy.pid = spawned'
          /\ req'[p].copy.state = "downloading"
        BY <1>0, <1>5, <1>a, <2>3 DEF Pull!Spawn, Pull!ReqType, Pull!Job
    <2>6. worker'[spawned'].pc = "start"
        BY <1>0, <1>5, <2>1, <2>4 DEF Pull!Spawn, Pull!Unborn
    <2>7. \A w \in Pull!Worker : Pull!Alive(w)' => w = spawned'
        BY <1>0, <1>5, <2>2 DEF Pull!Spawn, Pull!Alive
    <2> QED
        BY <2>1, <2>3, <2>5, <2>6, <2>7 DEF Pull!SoleWorker
<1>6. CASE Pull!SpawnSave(p) \/ Pull!CancelSave(p)
    <2>1. /\ req[p].pc \in {"save", "cancel"} /\ job' = req[p].copy
          /\ UNCHANGED <<worker, spawned>>
        BY <1>6 DEF Pull!SpawnSave, Pull!CancelSave
    <2>2. req'[p].pc \in {"idle", "signal"}
        BY <1>0, <1>6 DEF Pull!SpawnSave, Pull!CancelSave, Pull!ReqType
    <2> QED
        BY <2>1, <2>2 DEF Pull!SoleWorker, Pull!Alive, Pull!InLock
<1>7. CASE Pull!CancelLoad(p)
    <2>1. req[p].pc = "idle" /\ UNCHANGED <<job, worker, spawned>>
        BY <1>7 DEF Pull!CancelLoad
    <2>2. /\ req'[p].pc = "cancel" /\ req'[p].copy.pid = job.pid
          /\ req'[p].copy.state = job.state
        BY <1>0, <1>7 DEF Pull!CancelLoad, Pull!ReqIdle, Pull!Job
    <2> QED
        BY <2>1, <2>2 DEF Pull!SoleWorker, Pull!Alive, Pull!InLock
\* The workers that a stop of the service leaves, in whatever way it comes.
<1>8. ASSUME Pull!ServiceStops, UNCHANGED <<job, spawned>>
      PROVE  Pull!SoleWorker'
    <2>1. req'[p].pc = "idle"
        BY <1>8 DEF Pull!ServiceStops
    <2>2. \A w \in Pull!Worker : Pull!Alive(w)' =>
              /\ Pull!Alive(w)
              /\ worker'[w].pc = worker[w].pc /\ worker'[w].copy = worker[w].copy
              /\ worker[w].pc \notin {"start", "init"}
        BY <1>0, <1>8, Signal DEF Pull!ServiceStops, Pull!Alive
    <2> QED
        BY <1>8, <2>1, <2>2 DEF Pull!SoleWorker, Pull!InLock
<1>9. CASE Pull!CancelSignal(p)
    <2>1. CASE req[p].copy.pid = 0
        BY <1>8, <1>9, <2>1 DEF Pull!CancelSignal
    <2>2. CASE req[p].copy.pid # 0
        <3>1. req[p].copy.pid \in Pull!Worker /\ req[p].pc = "signal"
            BY <1>9, <1>a, <2>2 DEF Pull!CancelSignal, Pull!Job, Pull!Pid, Pull!Worker
        <3>2. req'[p].pc = "idle" /\ UNCHANGED <<job, spawned>>
            BY <1>0, <1>9, <2>2 DEF Pull!CancelSignal
        <3>3. \A w \in Pull!Worker : Pull!Alive(w)' =>
                  /\ Pull!Alive(w)
                  /\ worker'[w].pc = worker[w].pc /\ worker'[w].copy = worker[w].copy
            BY <1>0, <1>9, <2>2, <3>1, Signal DEF Pull!CancelSignal, Pull!Alive
        <3> QED
            BY <3>1, <3>2, <3>3 DEF Pull!SoleWorker, Pull!InLock
    <2> QED
        BY <2>1, <2>2
\* A step of one worker that stays alive.
<1>10. ASSUME NEW w \in Pull!Worker, Pull!Alive(w), UNCHANGED <<req, spawned>>,
              \A v \in Pull!Worker \ {w} : worker'[v] = worker[v],
              \/ job' = job
              \/ job'.state = "downloading" /\ job'.pid = w,
              worker'[w].pc \in {"start", "init"} => worker[w].pc \in {"start", "init"}
                                                     /\ job' = job,
              worker[w].pc \in {"start", "init"} /\ worker'[w].pc \notin {"start", "init", "dead"}
                  => job'.pid = w,
              worker'[w].pc \in {"init", "flush"} => worker'[w].copy.state = "downloading"
       PROVE  Pull!SoleWorker'
    BY <1>10 DEF Pull!SoleWorker, Pull!Alive, Pull!InLock
\* One that dies: no worker is left.
<1>11. ASSUME NEW w \in Pull!Worker, Pull!Alive(w), UNCHANGED <<req, spawned>>,
              \A v \in Pull!Worker \ {w} : worker'[v] = worker[v],
              worker'[w].pc = "dead"
       PROVE  Pull!SoleWorker'
    BY <1>11 DEF Pull!SoleWorker, Pull!Alive
<1>12. ASSUME NEW w \in Pull!Worker, Pull!WStart(w)
       PROVE  Pull!SoleWorker'
    <2>1. Pull!Alive(w) /\ UNCHANGED <<job, req, spawned>> /\ worker[w].pc = "start"
        BY <1>12 DEF Pull!WStart, Pull!Alive
    <2>2. worker'[w].pc \in {"init", "dead"} /\ \A v \in Pull!Worker \ {w} : worker'[v] = worker[v]
        BY <1>0, <1>12 DEF Pull!WStart, Pull!WorkerType
    <2>3. worker'[w].pc = "init" => worker'[w].copy.state = "downloading"
        BY <1>0, <1>12 DEF Pull!WStart, Pull!WorkerType
    <2> QED
        BY <1>10, <1>11, <2>1, <2>2, <2>3
<1>13. ASSUME NEW w \in Pull!Worker, Pull!WInit(w) \/ Pull!WFlushSave(w)
       PROVE  Pull!SoleWorker'
    <2>1. Pull!Alive(w) /\ UNCHANGED <<req, spawned>> /\ worker[w].pc \in {"init", "flush"}
        BY <1>13 DEF Pull!WInit, Pull!WFlushSave, Pull!Alive
    <2>2. worker'[w].pc = "run" /\ \A v \in Pull!Worker \ {w} : worker'[v] = worker[v]
        BY <1>0, <1>13 DEF Pull!WInit, Pull!WFlushSave, Pull!WorkerType
    <2>3. worker[w].copy \in Pull!Job /\ worker[w].copy.state = "downloading"
        BY <2>1 DEF PullType, Pull!Shape, Pull!SoleWorker
    <2>4. job'.pid = w /\ job'.state = "downloading"
        BY <1>13, <2>3 DEF Pull!WInit, Pull!WFlushSave, Pull!Job
    <2> QED
        BY <1>10, <2>1, <2>2, <2>4
<1>14. ASSUME NEW w \in Pull!Worker, Pull!WPoll(w) \/ Pull!WFlushLoad(w)
       PROVE  Pull!SoleWorker'
    <2>1. Pull!Alive(w) /\ UNCHANGED <<job, req, spawned>> /\ worker[w].pc = "run"
        BY <1>14 DEF Pull!WPoll, Pull!WFlushLoad, Pull!Alive
    <2>2. \A v \in Pull!Worker \ {w} : worker'[v] = worker[v]
        BY <1>0, <1>14 DEF Pull!WPoll, Pull!WFlushLoad
    <2>3. worker'[w].pc = "run" \/ (worker'[w].pc = "flush" /\ worker'[w].copy = job)
        <3>1. CASE Pull!WPoll(w)
            BY <1>0, <3>1 DEF Pull!WPoll, Pull!WorkerType
        <3>2. CASE Pull!WFlushLoad(w)
            BY <1>0, <3>2 DEF Pull!WFlushLoad, Pull!WorkerType
        <3> QED
            BY <1>14, <3>1, <3>2
    <2>4. job.state = "downloading"
        BY <2>1 DEF Pull!SoleWorker
    <2> QED
        BY <1>10, <2>1, <2>2, <2>3, <2>4
<1>15. ASSUME NEW w \in Pull!Worker, NEW o \in Pull!States, Pull!WEnds(w, o)
       PROVE  Pull!SoleWorker'
    <2>1. Pull!Alive(w) /\ UNCHANGED <<job, req, spawned>> /\ worker[w].pc = "run"
        BY <1>15 DEF Pull!WEnds, Pull!Alive
    <2>2. worker'[w].pc \in {"end", "dead"} /\ \A v \in Pull!Worker \ {w} : worker'[v] = worker[v]
        BY <1>0, <1>15 DEF Pull!WEnds, Pull!WorkerType
    <2> QED
        BY <1>10, <1>11, <2>1, <2>2
<1>16. ASSUME NEW w \in Pull!Worker, Pull!WEndSave(w) \/ Pull!WKilled(w)
       PROVE  Pull!SoleWorker'
    <2>1. Pull!Alive(w) /\ UNCHANGED <<req, spawned>>
        BY <1>16 DEF Pull!WEndSave, Pull!WKilled, Pull!Alive
    <2>2. worker'[w].pc = "dead" /\ \A v \in Pull!Worker \ {w} : worker'[v] = worker[v]
        BY <1>0, <1>16 DEF Pull!WEndSave, Pull!WKilled
    <2> QED
        BY <1>11, <2>1, <2>2
<1>17. CASE Pull!Stop
    BY <1>8, <1>17 DEF Pull!Stop
<1>18. CASE Pull!Boot
    BY <1>18 DEF Pull!Boot, Pull!SoleWorker, Pull!Alive
<1>19. CASE UNCHANGED Pull!vars
    BY <1>19 DEF Pull!vars, Pull!SoleWorker, Pull!Alive
<1>20. ASSUME NEW w \in Pull!Worker, Pull!WStops(w) \/ Pull!WFinishes(w)
       PROVE  Pull!SoleWorker'
    BY <1>15, <1>20 DEF Pull!WStops, Pull!WFinishes, Pull!States
<1> QED
    BY <1>1, <1>2, <1>3, <1>4, <1>5, <1>6, <1>7, <1>9, <1>12, <1>13, <1>14, <1>16, <1>17,
       <1>18, <1>19, <1>20 DEF Pull!Next, Pull!Request, Pull!WorkerStep

\* While the service serves one download request at a time, no two workers ever
\* transfer, whatever is killed, restarted, cancelled or resumed in between
\* (llama_model_pull, _spawn_worker). With two requests the check and the save of
\* one let the other in between: the run model_pulls shows it.
THEOREM OneRequestOneWorker ==
    ASSUME NEW p, Pullers = {p}
    PROVE  Spec => []OneWorker
<1> DEFINE Inv == which = "Pull" => Pull!SoleWorker
<1>1. Init => Inv
    BY SoleInit DEF Init
<1>2. Inv /\ PullInv /\ [Next]_vars => Inv'
    BY ComponentStep, SoleStep DEF PullInv
<1>3. Inv => OneWorker
    BY DEF OneWorker, Pull!OneWorker, Pull!SoleWorker
<1> QED
    BY <1>1, <1>2, <1>3, PullInvariant, PTL DEF Spec
=============================================================================
