---------------------------- MODULE Host_proofs ----------------------------
(***************************************************************************)
(* Theorems of MCPlatform about the drives of the host and what is on      *)
(* them, for all of its constants: the locate light, disk health and its   *)
(* alerts, the disks that storage requests may clear, and snapshots with   *)
(* their replication. Every section names the variables it is about as     *)
(* the component does.                                                     *)
(***************************************************************************)
EXTENDS MCPlatform, FiniteSetTheorems, WellFoundedInduction, TLAPS

\* A behaviour stays with its component and takes the component's steps.
LEMMA ComponentStep ==
    ASSUME [Next]_vars
    PROVE  /\ which' = which
           /\ which = "Loc" => [Loc!Next]_(Loc!vars)
           /\ which = "Hea" => [Hea!Next]_(Hea!vars)
           /\ which = "Sto" => [Sto!Next]_(Sto!vars)
           /\ which = "Rep" => [Rep!Next]_(Rep!vars)
<1>1. which' = which
    BY DEF Next, vars
<1>2. CASE which = "Loc"
    BY <1>1, <1>2 DEF Next, vars, Loc!vars
<1>3. CASE which = "Hea"
    BY <1>1, <1>3 DEF Next, vars, Hea!vars
<1>4. CASE which = "Sto"
    BY <1>1, <1>4 DEF Next, vars, Sto!vars, Sto!system
<1>5. CASE which = "Rep"
    BY <1>1, <1>5 DEF Next, vars, Rep!vars, Rep!bounds, Rep!history
<1> QED
    BY <1>1, <1>2, <1>3, <1>4, <1>5

----------------------------------------------------------------------------
(* Locate *)

job == s1
worker == s2
request == s3
led == s4
started == s5
restarts == s6
orphaned == s7
USE DEF job, worker, request, led, started, restarts, orphaned

LEMMA LocateBounds == LocateWorkers \in Nat /\ LocateRestarts \in Nat
BY BoundsAssumption

\* The states a request can be in, one by one.
LEMMA RequestStates ==
    /\ \A p \in {"idle", "off", "register"} : [pc |-> p] \in Loc!RequestState
    /\ \A o \in 0..LocateWorkers, a \in {"off", "register"} :
          [pc |-> "popped", old |-> o, then |-> a] \in Loc!RequestState
    /\ \A w \in Loc!Worker : [pc |-> "spawn", worker |-> w] \in Loc!RequestState
    /\ \A r \in Loc!RequestState :
          /\ r.pc = "popped" => r.old \in 0..LocateWorkers /\ r.then \in {"off", "register"}
          /\ r.pc = "spawn" => r.worker \in Loc!Worker
BY DEF Loc!RequestState

LEMMA LocateInit ==
    ASSUME Loc!Init
    PROVE  Loc!IInv
<1> USE LocateBounds
<1>1. worker \in [Loc!Worker -> Loc!WorkerState]
    BY DEF Loc!Init, Loc!WorkerState, Loc!Unborn
<1>2. request \in [Threads -> Loc!RequestState]
    <2>1. Loc!Idle \in Loc!RequestState
        BY RequestStates DEF Loc!Idle
    <2> QED
        BY <2>1 DEF Loc!Init
<1>3. led \in BOOLEAN /\ orphaned \in BOOLEAN
    BY DEF Loc!Init
<1>4. job \in 0..LocateWorkers /\ started \in 0..LocateWorkers /\ restarts \in 0..LocateRestarts
    BY DEF Loc!Init
<1>5. Loc!TypeOK
    BY <1>1, <1>2, <1>3, <1>4 DEF Loc!TypeOK
<1>6. Loc!SpawnsAreFresh /\ Loc!UnusedAreGone
    BY DEF Loc!Init, Loc!SpawnsAreFresh, Loc!UnusedAreGone, Loc!Worker, Loc!Idle, Loc!Unborn
<1>7. Loc!LitHasOwner /\ Loc!JobHasOwner
    BY DEF Loc!Init, Loc!LitHasOwner, Loc!JobHasOwner
<1> QED
    BY <1>5, <1>6, <1>7 DEF Loc!IInv

LEMMA LocateStep ==
    ASSUME Loc!IInv, [Loc!Next]_(Loc!vars)
    PROVE  Loc!IInv'
<1> USE LocateBounds, RequestStates
    DEF Loc!IInv, Loc!TypeOK, Loc!SpawnsAreFresh, Loc!UnusedAreGone, Loc!LitHasOwner,
        Loc!JobHasOwner, Loc!WorkerState, Loc!Worker, Loc!Alive, Loc!AboutToSpawn,
        Loc!Idle, Loc!Unborn
<1>1. ASSUME NEW t \in Threads, Loc!Pop(t)
      PROVE  Loc!IInv'
    <2>1. PICK then \in {"off", "register"} :
              request' = [request EXCEPT ![t] = [pc |-> "popped", old |-> job, then |-> then]]
        BY <1>1 DEF Loc!Pop
    <2>2. [pc |-> "popped", old |-> job, then |-> then] \in Loc!RequestState
        OBVIOUS
    <2>3. Loc!TypeOK'
        BY <1>1, <2>1, <2>2 DEF Loc!Pop
    <2> QED
        BY <1>1, <2>1, <2>3 DEF Loc!Pop
<1>2. ASSUME NEW t \in Threads, Loc!SetEvent(t)
      PROVE  Loc!IInv'
    <2>1. Loc!TypeOK'
        BY <1>2 DEF Loc!SetEvent
    <2>2. /\ \A w \in Loc!Worker : worker'[w].pc = worker[w].pc
          /\ \A u \in Threads : request'[u].pc = "spawn" => u # t /\ request'[u] = request[u]
        BY <1>2 DEF Loc!SetEvent
    <2>3. Loc!SpawnsAreFresh' /\ Loc!UnusedAreGone' /\ Loc!LitHasOwner'
        BY <1>2, <2>2 DEF Loc!SetEvent
    <2>4. Loc!JobHasOwner'
        BY <1>2, <2>2 DEF Loc!SetEvent
    <2> QED
        BY <2>1, <2>3, <2>4
<1>3. ASSUME NEW t \in Threads, Loc!TurnOff(t)
      PROVE  Loc!IInv'
    BY <1>3 DEF Loc!TurnOff
<1>4. ASSUME NEW t \in Threads, Loc!Register(t)
      PROVE  Loc!IInv'
    <2> DEFINE w == started + 1
               x == [pc |-> "spawn", worker |-> w]
    <2>1. /\ w \in Loc!Worker /\ started' = w /\ job' = w
          /\ request' = [request EXCEPT ![t] = x]
          /\ UNCHANGED <<worker, led, restarts, orphaned>>
        BY <1>4 DEF Loc!Register
    <2>2. x \in Loc!RequestState
        BY <2>1
    <2>3. worker[w].pc = "gone" /\ \A u \in Threads : request[u].pc = "spawn" => request[u].worker # w
        BY <2>1
    <2>4. Loc!TypeOK'
        BY <2>1, <2>2
    <2>5. request'[t] = x /\ \A u \in Threads \ {t} : request'[u] = request[u]
        BY <2>1
    <2> HIDE DEF w
    <2>6. Loc!SpawnsAreFresh'
        BY <2>1, <2>3, <2>5 DEF w
    <2>7. Loc!UnusedAreGone' /\ Loc!LitHasOwner'
        BY <2>1 DEF w
    <2>8. Loc!JobHasOwner'
        BY <2>1, <2>5
    <2> QED
        BY <2>4, <2>6, <2>7, <2>8
<1>5. ASSUME NEW t \in Threads, Loc!Spawn(t)
      PROVE  Loc!IInv'
    <2> DEFINE new == request[t].worker
    <2>1. new \in Loc!Worker /\ worker[new].pc = "gone" /\ new <= started
        BY <1>5 DEF Loc!Spawn
    <2>2. Loc!TypeOK'
        BY <1>5, <2>1 DEF Loc!Spawn
    <2>3. /\ \A w \in Loc!Worker : w # new => worker'[w] = worker[w]
          /\ worker'[new].pc = "on"
          /\ \A u \in Threads : request'[u].pc = "spawn" => u # t /\ request'[u] = request[u]
        BY <1>5, <2>1 DEF Loc!Spawn
    <2>4. Loc!SpawnsAreFresh' /\ Loc!UnusedAreGone' /\ Loc!LitHasOwner'
        BY <1>5, <2>1, <2>3 DEF Loc!Spawn
    <2>5. Loc!JobHasOwner'
        BY <1>5, <2>1, <2>3 DEF Loc!Spawn
    <2> QED
        BY <2>2, <2>4, <2>5
<1>6. ASSUME NEW w \in Loc!Worker, Loc!LightOn(w)
      PROVE  Loc!IInv'
    BY <1>6 DEF Loc!LightOn
<1>7. ASSUME NEW w \in Loc!Worker, Loc!LightOff(w)
      PROVE  Loc!IInv'
    <2>1. /\ worker[w].pc = "blink" /\ led' = FALSE /\ orphaned' = FALSE
          /\ worker' = [worker EXCEPT ![w].pc = "leave"]
          /\ UNCHANGED <<job, request, started, restarts>>
        BY <1>7 DEF Loc!LightOff
    <2>2. /\ worker' \in [Loc!Worker -> Loc!WorkerState]
          /\ worker'[w].pc = "leave" /\ \A v \in Loc!Worker \ {w} : worker'[v] = worker[v]
        BY <2>1
    <2>3. Loc!TypeOK'
        BY <2>1, <2>2
    <2>4. \A t \in Threads : request[t].pc = "spawn" => request[t].worker \in Loc!Worker \ {w}
        BY <2>1
    <2>5. Loc!SpawnsAreFresh'
        BY <2>1, <2>2, <2>4
    <2>6. Loc!UnusedAreGone' /\ Loc!LitHasOwner'
        BY <2>1, <2>2
    <2>7. Loc!JobHasOwner'
        BY <2>1, <2>2
    <2> QED
        BY <2>3, <2>5, <2>6, <2>7
<1>8. ASSUME NEW w \in Loc!Worker, Loc!Leave(w)
      PROVE  Loc!IInv'
    BY <1>8 DEF Loc!Leave
<1>9. CASE Loc!Restart
    BY <1>9 DEF Loc!Restart
<1>10. CASE UNCHANGED Loc!vars
    BY <1>10 DEF Loc!vars
<1> QED
    BY <1>1, <1>2, <1>3, <1>4, <1>5, <1>6, <1>7, <1>8, <1>9, <1>10 DEF Loc!Next

\* DarkAtRest: when every worker is gone the LED is off, and the table of jobs names
\* no worker that is gone, however many threads start and stop locating at once
\* (disk_locate, _locate_worker).
THEOREM LedGoesDark == Spec => []DarkAtRest
<1>1. (which = "Loc" => Loc!IInv) => DarkAtRest
    BY DEF Loc!IInv, Loc!LitHasOwner, Loc!JobHasOwner, DarkAtRest, Loc!DarkAtRest, Loc!Alive
<1>2. Init => (which = "Loc" => Loc!IInv)
    BY LocateInit DEF Init
<1>3. (which = "Loc" => Loc!IInv) /\ [Next]_vars => (which = "Loc" => Loc!IInv)'
    BY LocateStep, ComponentStep
<1> QED
    BY <1>1, <1>2, <1>3, PTL DEF Spec

----------------------------------------------------------------------------
(* Health *)

bad == s1
wrong == s2
smart == s3
file == s4
timer == s5
tick == s6
page == s7
now == s8
requests == s9
faults == s10
told == s11
read == s12
excused == s13
USE DEF bad, wrong, smart, file, timer, tick, page, now, requests, faults, told, read, excused

LEMMA HealthBounds ==
    /\ MaxBad \in Nat /\ HealthTime \in Nat /\ HealthRequests \in Nat /\ HealthFaults \in Nat
    /\ Nil \notin Nat
BY BoundsAssumption, NilAssumption

LEMMA HealthInit ==
    ASSUME Hea!Init
    PROVE  Hea!IInv
<1> USE HealthBounds DEF Hea!Init
<1>1. file \in Hea!Config
    BY DEF Hea!Config
<1>2. tick \in Hea!TickType /\ page \in Hea!PageType /\ tick.pc = "idle"
    BY DEF Hea!TickType, Hea!PageType, Hea!Idle
<1>3. smart \in [seen : Hea!Reading, grown : Hea!Reading] /\ read \in [seen : Hea!Reading, rose : Hea!Reading]
    BY DEF Hea!Reading
<1>4. Hea!TypeOK
    <2>a. /\ timer = FALSE /\ bad = 0 /\ now = 0 /\ wrong = {}
          /\ requests = 0 /\ faults = 0 /\ excused = {}
          /\ told = [k \in Hea!Keys |-> "nothing"]
        BY Zenon
    <2>1. timer \in BOOLEAN
        BY ONLY <2>a
    <2>2. /\ bad \in 0..MaxBad /\ now \in 0..HealthTime /\ wrong \subseteq Others
          /\ requests \in 0..HealthRequests /\ faults \in 0..HealthFaults /\ excused \subseteq Hea!Keys
        BY ONLY HealthBounds, <2>a
    <2>3. told \in [Hea!Keys -> {"nothing", "ALERT", "RESOLVED"}]
        BY ONLY <2>a
    <2> QED
        BY <1>1, <1>2, <1>3, <2>1, <2>2, <2>3 DEF Hea!TypeOK
<1>5. Hea!Informed /\ Hea!LoadedIsTold /\ Hea!Underway
    BY <1>2 DEF Hea!Informed, Hea!LoadedIsTold, Hea!Underway
<1> QED
    BY <1>4, <1>5 DEF Hea!IInv

LEMMA TickShape ==
    ASSUME NEW x \in Hea!TickType
    PROVE  /\ x.pc \in {"idle", "loaded", "deliver"}
           /\ x.pc = "loaded" => x.cfg \in Hea!Config
           /\ x.pc = "deliver" =>
                x \in [pc : {"deliver"}, cfg : Hea!Config, current : SUBSET Hea!Keys,
                       queue : SUBSET Hea!Keys, sent : SUBSET Hea!Keys]
BY DEF Hea!TickType

LEMMA HealthStep ==
    ASSUME Hea!IInv, [Hea!Next]_(Hea!vars)
    PROVE  Hea!IInv'
<1> USE HealthBounds
<1>0. /\ bad \in 0..MaxBad /\ wrong \subseteq Others /\ now \in 0..HealthTime
      /\ smart \in [seen : Hea!Reading, grown : Hea!Reading]
      /\ read \in [seen : Hea!Reading, rose : Hea!Reading]
      /\ file \in Hea!Config /\ timer \in BOOLEAN
      /\ tick \in Hea!TickType /\ page \in Hea!PageType
      /\ requests \in 0..HealthRequests /\ faults \in 0..HealthFaults
      /\ told \in [Hea!Keys -> {"nothing", "ALERT", "RESOLVED"}]
      /\ excused \subseteq Hea!Keys
      /\ Hea!Informed /\ Hea!LoadedIsTold /\ Hea!Underway
    BY DEF Hea!IInv, Hea!TypeOK
<1>a. tick.pc = "deliver" =>
          tick \in [pc : {"deliver"}, cfg : Hea!Config, current : SUBSET Hea!Keys,
                    queue : SUBSET Hea!Keys, sent : SUBSET Hea!Keys]
    BY <1>0, TickShape
\* Steps that neither tell anything nor touch the record or the tick.
<1>1. ASSUME UNCHANGED <<file, tick, told, excused>>, Hea!TypeOK'
      PROVE  Hea!IInv'
    BY <1>0, <1>1 DEF Hea!IInv, Hea!Informed, Hea!LoadedIsTold, Hea!Underway
<1>2. CASE Hea!World
    <2>1. bad' \in 0..MaxBad /\ wrong' \subseteq Others /\ now' \in 0..HealthTime
        BY <1>0, <1>2 DEF Hea!World
    <2>2. UNCHANGED <<smart, file, timer, tick, page, requests, faults, told, read, excused>>
        BY <1>2 DEF Hea!World
    <2> QED
        BY <1>0, <1>1, <2>1, <2>2 DEF Hea!TypeOK
<1>3. CASE Hea!Sample
    <2>1. PICK v \in {bad, Nil} :
              /\ smart' = Hea!Applied(smart, v, now)
              /\ read' = IF v = Nil THEN read
                         ELSE [seen |-> v,
                               rose |-> IF read.seen # Nil /\ v > read.seen THEN now ELSE read.rose]
        BY <1>0, <1>3 DEF Hea!Sample
    <2>2. UNCHANGED <<bad, wrong, file, timer, tick, page, now, requests, faults, told, excused>>
        BY <1>3 DEF Hea!Sample
    <2>3. smart' \in [seen : Hea!Reading, grown : Hea!Reading]
        BY <1>0, <2>1 DEF Hea!Applied, Hea!Reading
    <2>4. read' \in [seen : Hea!Reading, rose : Hea!Reading]
        BY <1>0, <2>1 DEF Hea!Reading
    <2> QED
        BY <1>0, <1>1, <2>2, <2>3, <2>4 DEF Hea!TypeOK
<1>4. CASE Hea!TickLoad
    <2> DEFINE x == [pc |-> "loaded", cfg |-> file]
    <2>1. /\ tick.pc = "idle" /\ tick' = x /\ requests' \in 0..HealthRequests
          /\ UNCHANGED <<bad, wrong, smart, file, timer, page, now, faults, told, read, excused>>
        BY <1>0, <1>4 DEF Hea!TickLoad
    <2>2. x \in Hea!TickType /\ x.pc = "loaded" /\ x.cfg = file
        BY <1>0 DEF Hea!TickType
    <2> HIDE DEF x
    <2>3. Hea!TypeOK'
        BY <1>0, <2>1, <2>2 DEF Hea!TypeOK
    <2>4. Hea!LoadedIsTold'
        BY <1>0, <2>1, <2>2 DEF Hea!LoadedIsTold, Hea!Informed
    <2> QED
        BY <2>1, <2>2, <2>3, <2>4 DEF Hea!IInv, Hea!Informed, Hea!Underway
<1>5. CASE Hea!TickCompute
    <2> DEFINE q == IF tick.cfg.on
                    THEN (Hea!Current \ tick.cfg.state) \cup (tick.cfg.state \ Hea!Current)
                    ELSE {}
               x == [pc |-> "deliver", cfg |-> tick.cfg, current |-> Hea!Current,
                     queue |-> q, sent |-> {}]
    <2>1. /\ tick.pc = "loaded" /\ tick' = x
          /\ UNCHANGED <<bad, wrong, smart, file, timer, page, now, requests, faults, told, read, excused>>
        BY <1>5 DEF Hea!TickCompute
    <2>2. tick.cfg \in Hea!Config /\ Hea!Current \subseteq Hea!Keys
        BY <1>0, <2>1, TickShape DEF Hea!Current, Hea!Keys
    <2>3. q \subseteq Hea!Keys
        BY <2>2 DEF Hea!Config
    <2>4. /\ ~tick.cfg.on => q = {}
          /\ tick.cfg.on => \A k \in Hea!Keys \ q : k \in Hea!Current <=> k \in tick.cfg.state
        OBVIOUS
    <2> HIDE DEF q
    <2>5. /\ x \in Hea!TickType /\ x.pc = "deliver" /\ x.cfg = tick.cfg
          /\ x.current = Hea!Current /\ x.queue = q /\ x.sent = {}
        BY <2>2, <2>3 DEF Hea!TickType
    <2> HIDE DEF x
    <2>6. Hea!TypeOK'
        BY <1>0, <2>1, <2>5 DEF Hea!TypeOK
    <2>7. Hea!LoadedIsTold'
        BY <1>0, <2>1, <2>5 DEF Hea!LoadedIsTold
    <2>8. Hea!Underway' /\ Hea!Informed'
        BY <2>1, <2>4, <2>5 DEF Hea!Underway, Hea!Informed
    <2> QED
        BY <2>6, <2>7, <2>8 DEF Hea!IInv
<1>6. CASE Hea!Deliver
    <2>1. PICK k \in tick.queue :
          \/ /\ told' = [told EXCEPT ![k] = IF k \in tick.current THEN "ALERT" ELSE "RESOLVED"]
             /\ tick' = [tick EXCEPT !.queue = @ \ {k}, !.sent = @ \cup {k}]
             /\ UNCHANGED <<faults, excused>>
          \/ /\ faults < HealthFaults /\ faults' = faults + 1
             /\ tick' = [tick EXCEPT !.queue = @ \ {k}]
             /\ excused' = excused \cup {k}
             /\ UNCHANGED told
        BY <1>6 DEF Hea!Deliver
    <2>2. /\ tick.pc = "deliver" /\ k \in Hea!Keys
          /\ UNCHANGED <<bad, wrong, smart, file, timer, page, now, requests, read>>
        BY <1>6, <1>a DEF Hea!Deliver
    <2>3. /\ told' \in [Hea!Keys -> {"nothing", "ALERT", "RESOLVED"}]
          /\ faults' \in 0..HealthFaults /\ excused' \subseteq Hea!Keys
        BY <1>0, <2>1, <2>2
    <2>4. /\ tick' \in [pc : {"deliver"}, cfg : Hea!Config, current : SUBSET Hea!Keys,
                        queue : SUBSET Hea!Keys, sent : SUBSET Hea!Keys]
          /\ tick'.pc = "deliver" /\ tick'.cfg = tick.cfg /\ tick'.current = tick.current
          /\ tick'.queue = tick.queue \ {k}
        <3> DEFINE R == [pc : {"deliver"}, cfg : Hea!Config, current : SUBSET Hea!Keys,
                         queue : SUBSET Hea!Keys, sent : SUBSET Hea!Keys]
        <3>1. tick \in R
            BY <1>a, <2>2
        <3>2. CASE tick' = [tick EXCEPT !.queue = @ \ {k}, !.sent = @ \cup {k}]
            BY <2>2, <3>1, <3>2
        <3>3. CASE tick' = [tick EXCEPT !.queue = @ \ {k}]
            BY <2>2, <3>1, <3>3
        <3> HIDE DEF R
        <3> QED
            BY <2>1, <3>2, <3>3 DEF R
    <2>5. \/ /\ tick'.sent = tick.sent \cup {k} /\ excused' = excused
             /\ told'[k] = "ALERT" <=> k \in tick.current
             /\ \A j \in Hea!Keys \ {k} : told'[j] = told[j]
          \/ /\ tick'.sent = tick.sent /\ excused' = excused \cup {k} /\ told' = told
        BY <1>0, <1>a, <2>1, <2>2
    <2>6. tick' \in Hea!TickType
        BY <2>4 DEF Hea!TickType
    <2>7. Hea!TypeOK'
        BY <1>0, <2>2, <2>3, <2>6 DEF Hea!TypeOK
    <2>8. Hea!LoadedIsTold'
        BY <1>0, <2>2, <2>4, <2>5 DEF Hea!LoadedIsTold
    <2>9. Hea!Underway'
        <3>1. tick.sent \subseteq Hea!Keys
            BY <1>a, <2>2
        <3>2. \A j \in tick'.sent : told'[j] = "ALERT" <=> j \in tick'.current
            BY <1>0, <2>2, <2>4, <2>5, <3>1 DEF Hea!Underway
        <3>3. tick'.sent \cap tick'.queue = {}
            BY <1>0, <2>2, <2>4, <2>5 DEF Hea!Underway
        <3>4. tick'.cfg.on
            BY <1>0, <2>1, <2>2, <2>4 DEF Hea!Underway
        <3>5. \A j \in Hea!Keys \ (tick'.queue \cup tick'.sent \cup excused') :
                  j \in tick'.current <=> j \in tick'.cfg.state
            BY <1>0, <2>2, <2>4, <2>5, <3>4 DEF Hea!Underway
        <3> QED
            BY <3>2, <3>3, <3>4, <3>5 DEF Hea!Underway
    <2>10. Hea!Informed'
        BY <2>4 DEF Hea!Informed
    <2> QED
        BY <2>7, <2>8, <2>9, <2>10 DEF Hea!IInv
<1>7. CASE Hea!TickSave
    <2>1. /\ tick.pc = "deliver" /\ tick.queue = {}
          /\ file' = [tick.cfg EXCEPT !.state = tick.current]
          /\ excused' = IF tick.cfg.on THEN excused \ tick.sent
                        ELSE excused \cup (tick.current \ tick.cfg.state)
                                     \cup (tick.cfg.state \ tick.current)
          /\ tick' = Hea!Idle
          /\ UNCHANGED <<bad, wrong, smart, timer, page, now, requests, faults, told, read>>
        BY <1>7 DEF Hea!TickSave
    <2>2. /\ tick.cfg \in Hea!Config /\ tick.current \subseteq Hea!Keys
          /\ tick.sent \subseteq Hea!Keys
        BY <1>a, <2>1
    <2>3. file' \in Hea!Config /\ file'.state = tick.current
        BY <2>1, <2>2 DEF Hea!Config
    <2>4. excused' \subseteq Hea!Keys
        BY <1>0, <2>1, <2>2 DEF Hea!Config
    <2>5. tick' \in Hea!TickType /\ tick'.pc = "idle"
        BY <2>1 DEF Hea!Idle, Hea!TickType
    <2>6. Hea!TypeOK'
        BY <1>0, <2>1, <2>3, <2>4, <2>5 DEF Hea!TypeOK
    <2>7. ASSUME NEW k \in Hea!Keys \ excused'
          PROVE  told[k] = "ALERT" <=> k \in tick.current
        <3>1. CASE k \in tick.sent
            BY <1>0, <2>1, <3>1 DEF Hea!Underway
        <3>2. CASE k \notin tick.sent
            <4>1. k \notin excused /\ (k \in tick.current <=> k \in tick.cfg.state)
                BY <1>0, <2>1, <2>7, <3>2 DEF Hea!Underway
            <4> QED
                BY <1>0, <2>1, <3>2, <4>1 DEF Hea!LoadedIsTold
        <3> QED
            BY <3>1, <3>2
    <2> QED
        BY <2>1, <2>3, <2>5, <2>6, <2>7 DEF Hea!IInv, Hea!Informed, Hea!LoadedIsTold, Hea!Underway
<1>8. CASE Hea!TickDies
    <2>1. /\ tick.pc # "idle" /\ tick' = Hea!Idle
          /\ faults' \in 0..HealthFaults
          /\ excused' = IF tick.pc = "deliver" THEN excused \cup tick.sent ELSE excused
          /\ UNCHANGED <<bad, wrong, smart, file, timer, page, now, requests, told, read>>
        BY <1>0, <1>8 DEF Hea!TickDies
    <2>2. excused' \subseteq Hea!Keys
        BY <1>0, <1>a, <2>1
    <2>3. tick' \in Hea!TickType /\ tick'.pc = "idle"
        BY <2>1 DEF Hea!Idle, Hea!TickType
    <2>4. Hea!TypeOK'
        BY <1>0, <2>1, <2>2, <2>3 DEF Hea!TypeOK
    <2>5. Hea!Informed'
        BY <1>0, <2>1, <2>3 DEF Hea!Informed, Hea!LoadedIsTold
    <2> QED
        BY <2>3, <2>4, <2>5 DEF Hea!IInv, Hea!LoadedIsTold, Hea!Underway
<1>9. CASE Hea!PageLoad
    <2>1. PICK on \in BOOLEAN, password \in {"masked", "new"} :
              page' = [pc |-> "loaded",
                       cfg |-> [on |-> on, state |-> file.state,
                                password |-> IF password = "masked" THEN file.password ELSE password]]
        BY <1>9 DEF Hea!PageLoad
    <2>2. /\ requests' \in 0..HealthRequests
          /\ UNCHANGED <<bad, wrong, smart, file, timer, tick, now, faults, told, read, excused>>
        BY <1>0, <1>9 DEF Hea!PageLoad
    <2>3. page' \in Hea!PageType
        BY <1>0, <2>1 DEF Hea!PageType, Hea!Config
    <2> QED
        BY <1>0, <1>1, <2>2, <2>3 DEF Hea!TypeOK
<1>10. CASE Hea!PageSave
    <2>1. /\ page.pc = "loaded" /\ file' = page.cfg
          /\ excused' = excused \cup (file.state \ page.cfg.state) \cup (page.cfg.state \ file.state)
          /\ page' = [pc |-> "saved"]
          /\ UNCHANGED <<bad, wrong, smart, timer, tick, now, requests, faults, told, read>>
        BY <1>10 DEF Hea!PageSave
    <2>2. file' \in Hea!Config /\ page' \in Hea!PageType
        BY <1>0, <2>1 DEF Hea!PageType
    <2>3. excused' \subseteq Hea!Keys
        BY <1>0, <2>1, <2>2 DEF Hea!Config
    <2>4. Hea!TypeOK'
        BY <1>0, <2>1, <2>2, <2>3 DEF Hea!TypeOK
    <2>5. \A k \in Hea!Keys \ excused' : k \notin excused /\ (k \in file'.state <=> k \in file.state)
        BY <2>1
    <2>6. Hea!Informed'
        BY <1>0, <2>1, <2>5 DEF Hea!Informed
    <2>7. Hea!LoadedIsTold'
        BY <1>0, <2>1, <2>5 DEF Hea!LoadedIsTold
    <2>8. Hea!Underway'
        BY <1>0, <2>1 DEF Hea!Underway
    <2> QED
        BY <2>4, <2>6, <2>7, <2>8 DEF Hea!IInv
<1>11. CASE Hea!PageSync
    <2>1. /\ timer' = file.on /\ page' = Hea!Idle
          /\ UNCHANGED <<bad, wrong, smart, file, tick, now, requests, faults, told, read, excused>>
        BY <1>11 DEF Hea!PageSync
    <2>2. page' \in Hea!PageType /\ timer' \in BOOLEAN
        BY <1>0, <2>1 DEF Hea!PageType, Hea!Idle, Hea!Config
    <2> QED
        BY <1>0, <1>1, <2>1, <2>2 DEF Hea!TypeOK
<1>12. CASE UNCHANGED Hea!vars
    BY <1>0, <1>1, <1>12 DEF Hea!vars, Hea!TypeOK
<1> QED
    BY <1>2, <1>3, <1>4, <1>5, <1>6, <1>7, <1>8, <1>9, <1>10, <1>11, <1>12 DEF Hea!Next

\* Informed: between two ticks the last message about an alert says whether it is on
\* record, whatever the settings page and failing deliveries do (cli_alerts_tick).
THEOREM MessagesMatchRecord == Spec => []Informed
<1>1. (which = "Hea" => Hea!IInv) => Informed
    BY DEF Hea!IInv, Informed
<1>2. Init => (which = "Hea" => Hea!IInv)
    BY HealthInit DEF Init
<1>3. (which = "Hea" => Hea!IInv) /\ [Next]_vars => (which = "Hea" => Hea!IInv)'
    BY HealthStep, ComponentStep
<1> QED
    BY <1>1, <1>2, <1>3, PTL DEF Spec

----------------------------------------------------------------------------
(* Storage *)

holds == s1
mounted == s2
fstab == s3
pool == s4
vg == s5
md == s6
conf == s7
th == s8
cleared == s10
waived == s11
USE DEF holds, mounted, fstab, pool, vg, md, conf, th, cleared, waived

PoolRecord == [disks : SUBSET Disks, imported : BOOLEAN, stable : BOOLEAN]
VgRecord == [disks : SUBSET Disks, lv : {"none", "plain", "mounted"}, on : SUBSET Disks]
MdRecord == [disks : SUBSET Disks, up : BOOLEAN, used : BOOLEAN, spelled : {"kernel", "name"}]
ConfLine == {"none", "kernel", "name"}

LEMMA StorageTypes ==
    ASSUME Sto!IInv
    PROVE  /\ holds \in [Disks -> Sto!Signature]
           /\ mounted \subseteq Disks /\ fstab \subseteq Disks
           /\ pool = Absent \/ pool \in PoolRecord
           /\ vg = Absent \/ vg \in VgRecord
           /\ md = Absent \/ md \in MdRecord
           /\ conf \in ConfLine /\ waived \in BOOLEAN
           /\ th \in [Threads -> Sto!Underway]
           /\ Sto!LivePool \subseteq Disks /\ Sto!VgDisks \subseteq Disks /\ Sto!MdUp \subseteq Disks
           /\ Sto!LivePool \subseteq Sto!InUse /\ Sto!VgDisks \subseteq Sto!InUse
           /\ Sto!LivePool \subseteq Sto!Busy /\ Sto!VgDisks \subseteq Sto!Busy
BY DEF Sto!IInv, Sto!TypeOK, PoolRecord, VgRecord, MdRecord, Sto!LivePool, Sto!VgDisks, Sto!MdUp,
       Sto!InUse, Sto!Busy, ConfLine, Sto!Spelling

Singles == {"wipe", "format", "mount", "unmount", "replace", "detach", "pvcreate", "pvremove",
            "vgextend", "vgreduce", "pvmove", "mdadd", "mdremove", "clear", "zap", "mkfs"}

\* The disks a request is about: for most of them, one.
LEMMA RequestDisks ==
    ASSUME NEW r \in Sto!Underway
    PROVE  /\ r.disks \subseteq Disks
           /\ r.op \in Singles => \E d \in Disks : r.disks = {d}
           /\ r.op = "idle" => r = Sto!Idle
BY DEF Sto!Underway, Sto!Request, Sto!Idle, Singles

LEMMA OneDisk ==
    ASSUME Sto!IInv, NEW t \in Threads, th[t].op \in Singles
    PROVE  /\ Sto!The(t) \in Disks /\ th[t].disks = {Sto!The(t)}
<1>1. PICK d \in Disks : th[t].disks = {d}
    BY RequestDisks, StorageTypes
<1>2. Sto!The(t) = d
    BY <1>1 DEF Sto!The
<1> QED
    BY <1>1, <1>2

LEMMA StorageInit ==
    ASSUME Sto!Init
    PROVE  Sto!IInv
<1>1. /\ mounted = {} /\ fstab = {} /\ th = [t \in Threads |-> Sto!Idle]
      /\ cleared = {} /\ waived = FALSE
    BY DEF Sto!Init
<1>2. /\ holds \in [Disks -> Sto!Signature] /\ conf \in ConfLine
      /\ pool = Absent \/ pool \in PoolRecord
      /\ vg = Absent \/ vg \in VgRecord
      /\ md = Absent \/ md \in MdRecord
      /\ Sto!Labelled
    <2>1. CASE /\ holds = [d \in Disks |-> "blank"]
               /\ vg = Absent /\ pool = Absent /\ md = Absent /\ conf = "none"
        BY <2>1 DEF Sto!Signature, Sto!Labelled, Sto!LivePool, Sto!VgDisks, ConfLine
    <2>2. ASSUME NEW D \in (SUBSET Disks) \ {{}}, NEW lv \in {"none", "plain", "mounted"},
                 holds = [x \in Disks |-> IF x \in D THEN "LVM2_member" ELSE "blank"],
                 vg = [disks |-> D, lv |-> lv, on |-> IF lv = "none" THEN {} ELSE D],
                 pool = Absent, md = Absent, conf = "none"
          PROVE  /\ holds \in [Disks -> Sto!Signature] /\ vg \in VgRecord /\ Sto!Labelled
        <3>1. vg \in VgRecord /\ vg.disks = D
            BY <2>2 DEF VgRecord
        <3> QED
            BY <2>2, <3>1 DEF Sto!Signature, Sto!Labelled, Sto!LivePool, Sto!VgDisks
    <2>3. ASSUME NEW d \in Disks,
                 holds = [x \in Disks |-> IF x = d THEN "zfs_member" ELSE "fs"],
                 pool = [disks |-> {d}, imported |-> TRUE, stable |-> FALSE],
                 vg = Absent, md = Absent, conf = "none"
          PROVE  /\ holds \in [Disks -> Sto!Signature] /\ pool \in PoolRecord /\ Sto!Labelled
        <3>1. pool \in PoolRecord /\ pool.disks = {d}
            BY <2>3 DEF PoolRecord
        <3> QED
            BY <2>3, <3>1 DEF Sto!Signature, Sto!Labelled, Sto!LivePool, Sto!VgDisks
    <2>4. CASE /\ holds = [d \in Disks |-> "linux_raid_member"]
               /\ \E spelled \in Sto!Spelling :
                     md = [disks |-> Disks, up |-> TRUE, used |-> FALSE, spelled |-> spelled]
               /\ vg = Absent /\ pool = Absent /\ conf \in ConfLine
        <3>1. md \in MdRecord
            BY <2>4 DEF MdRecord, Sto!Spelling
        <3> QED
            BY <2>4, <3>1 DEF Sto!Signature, Sto!Labelled, Sto!LivePool, Sto!VgDisks, ConfLine, Sto!Spelling
    <2> QED
        BY <2>1, <2>2, <2>3, <2>4 DEF Sto!Init, ConfLine, Sto!Spelling
<1>3. \A t \in Threads : th[t] = Sto!Idle /\ th[t].op = "idle"
    BY <1>1 DEF Sto!Idle
<1>4. Sto!TypeOK /\ Sto!LiveDisksKept
    BY <1>1, <1>2 DEF Sto!TypeOK, Sto!LiveDisksKept, PoolRecord, VgRecord, MdRecord, ConfLine, Sto!Spelling
<1>5. th \in [Threads -> Sto!Underway]
    BY <1>1 DEF Sto!Underway
<1> QED
    BY <1>2, <1>3, <1>4, <1>5 DEF Sto!IInv, Sto!Spared

\* A command of a request, the only one there is unless requests waived.
LEMMA StorageMoves ==
    ASSUME Sto!IInv, NEW t \in Threads, th[t] # Sto!Idle, NEW r \in Sto!Underway,
           th' = [th EXCEPT ![t] = r], waived' = waived,
           Sto!TypeOK',
           ~waived => Sto!Labelled' /\ cleared' = {},
           r.op \notin {"wipe", "format"},
           r.op \in {"clear", "zap"} =>
               /\ th[t].op \in {"wipe", "format", "clear"} /\ r.disks = th[t].disks
               /\ Sto!InUse' \subseteq Sto!InUse
    PROVE  Sto!IInv'
<1>1. /\ th' \in [Threads -> Sto!Underway] /\ th'[t] = r
      /\ \A o \in Threads \ {t} : th'[o] = th[o]
    BY StorageTypes
<1>2. Sto!LiveDisksKept'
    BY StorageTypes DEF Sto!LiveDisksKept
<1>3. ASSUME ~waived
      PROVE  /\ \A o, p \in Threads : o # p => th'[o] = Sto!Idle \/ th'[p] = Sto!Idle
             /\ \A o \in Threads : Sto!Spared(o)'
    <2>1. \A o \in Threads \ {t} : th'[o] = Sto!Idle
        BY <1>1, <1>3 DEF Sto!IInv
    <2>2. \A o \in Threads \ {t} : Sto!Spared(o)'
        BY <2>1 DEF Sto!Spared, Sto!Idle
    <2>3. Sto!Spared(t)'
        <3>1. Sto!Spared(t)
            BY <1>3 DEF Sto!IInv
        <3> QED
            BY <1>1, <3>1 DEF Sto!Spared, Sto!The
    <2> QED
        BY <2>1, <2>2, <2>3
<1> QED
    BY <1>1, <1>2, <1>3 DEF Sto!IInv

\* A command that changes what disks hold, where no pool in service and no volume group is.
LEMMA Relabelled ==
    ASSUME Sto!IInv, NEW D \in SUBSET Disks, NEW sig \in Sto!Signature, Sto!Become(D, sig)
    PROVE  /\ holds' \in [Disks -> Sto!Signature]
           /\ \A d \in Disks : holds'[d] = IF d \in D THEN sig ELSE holds[d]
           /\ ~waived /\ D \cap (Sto!LivePool \cup Sto!VgDisks) = {}
              /\ Sto!LivePool' \subseteq Sto!LivePool /\ Sto!VgDisks' \subseteq Sto!VgDisks => Sto!Labelled'
<1>1. /\ holds' \in [Disks -> Sto!Signature]
      /\ \A d \in Disks : holds'[d] = IF d \in D THEN sig ELSE holds[d]
    BY StorageTypes DEF Sto!Become
<1>2. ASSUME ~waived, D \cap (Sto!LivePool \cup Sto!VgDisks) = {},
             Sto!LivePool' \subseteq Sto!LivePool, Sto!VgDisks' \subseteq Sto!VgDisks
      PROVE  Sto!Labelled'
    BY <1>1, <1>2 DEF Sto!IInv, Sto!Labelled
<1> QED
    BY <1>1, <1>2

\* The requests of one command.
LEMMA StorageOnce ==
    ASSUME Sto!IInv, NEW t \in Threads, th[t].op # "idle",
           th' = [th EXCEPT ![t] = Sto!Idle], UNCHANGED <<cleared, waived>>,
           Sto!TypeOK', ~waived => Sto!Labelled'
    PROVE  Sto!IInv'
<1>1. th[t] # Sto!Idle /\ Sto!Idle \in Sto!Underway /\ Sto!Idle.op = "idle"
    BY DEF Sto!Idle, Sto!Underway
<1>2. ~waived => cleared' = {}
    BY DEF Sto!IInv, Sto!LiveDisksKept
<1> QED
    BY <1>1, <1>2, StorageMoves

LEMMA StorageSame ==
    ASSUME Sto!IInv, UNCHANGED <<holds, pool, vg>>, ~waived
    PROVE  Sto!Labelled'
BY DEF Sto!IInv, Sto!Labelled, Sto!LivePool, Sto!VgDisks

LEMMA StorageBegin ==
    ASSUME Sto!IInv, NEW t \in Threads, Sto!Begin(t)
    PROVE  Sto!IInv'
<1>1. PICK r \in Sto!Request :
         /\ th' = [th EXCEPT ![t] = r]
         /\ waived' = (waived \/ ~Sto!Admitted(r) \/ \E o \in Threads \ {t} : th[o] # Sto!Idle)
         /\ UNCHANGED <<holds, mounted, fstab, pool, vg, md, conf, cleared>>
    BY DEF Sto!Begin, Sto!system
<1>2. r \in Sto!Underway /\ th' \in [Threads -> Sto!Underway] /\ th'[t] = r
      /\ \A o \in Threads \ {t} : th'[o] = th[o]
    BY <1>1, StorageTypes DEF Sto!Underway
<1>3. waived' \in BOOLEAN
    BY <1>1, StorageTypes
<1>4. Sto!TypeOK'
    BY <1>1, <1>3 DEF Sto!IInv, Sto!TypeOK
<1>5. Sto!LiveDisksKept'
    BY <1>1 DEF Sto!IInv, Sto!LiveDisksKept
<1>6. ASSUME ~waived'
      PROVE  /\ \A o, p \in Threads : o # p => th'[o] = Sto!Idle \/ th'[p] = Sto!Idle
             /\ Sto!Labelled'
             /\ \A o \in Threads : Sto!Spared(o)'
    <2>1. ~waived /\ Sto!Admitted(r) /\ \A o \in Threads \ {t} : th'[o] = Sto!Idle
        BY <1>1, <1>2, <1>6
    <2>2. Sto!Labelled'
        BY <1>1, <2>1, StorageSame
    <2>3. \A o \in Threads \ {t} : Sto!Spared(o)'
        BY <2>1 DEF Sto!Spared, Sto!Idle
    <2>4. Sto!Spared(t)'
        <3> SUFFICES ASSUME r.op \in {"wipe", "format"}
                     PROVE  Sto!Spared(t)'
            <4>1. r.op \notin {"clear", "zap"}
                BY <1>1 DEF Sto!Request
            <4> QED
                BY <1>2, <4>1 DEF Sto!Spared
        <3>1. PICK d \in Disks : r.disks = {d}
            BY <1>2, RequestDisks DEF Singles
        <3>2. Sto!Wipeable(d)
            BY <2>1, <3>1 DEF Sto!Admitted
        <3>3. d \notin Sto!InUse
            <4>1. d \notin mounted /\ d \notin Sto!LivePool /\ d \notin Sto!VgDisks
                BY <2>1, <3>2 DEF Sto!IInv, Sto!Labelled, Sto!Wipeable, Sto!Stale
            <4> QED
                BY <3>2, <4>1 DEF Sto!Wipeable, Sto!Stale, Sto!InUse
        <3>4. Sto!InUse' = Sto!InUse
            BY <1>1 DEF Sto!InUse, Sto!LivePool, Sto!VgDisks, Sto!MdUp
        <3>5. (CHOOSE x \in r.disks : TRUE) = d
            BY <3>1
        <3>6. Sto!The(t)' = d
            BY <1>2, <3>5 DEF Sto!The
        <3> QED
            BY <3>3, <3>4, <3>6 DEF Sto!Spared
    <2> QED
        BY <2>1, <2>2, <2>3, <2>4
<1> QED
    BY <1>2, <1>4, <1>5, <1>6 DEF Sto!IInv

\* A wipe, step by step.
LEMMA StorageWipe ==
    ASSUME Sto!IInv, NEW t \in Threads, Sto!StopStale(t) \/ Sto!Clear(t) \/ Sto!Zap(t) \/ Sto!Mkfs(t)
    PROVE  Sto!IInv'
<1> DEFINE d == Sto!The(t)
<1>1. th[t].op \in {"wipe", "format", "clear", "zap", "mkfs"}
    BY DEF Sto!StopStale, Sto!Clear, Sto!Zap, Sto!Mkfs, Sto!Is
<1>2. /\ d \in Disks /\ th[t].disks = {d} /\ th[t] # Sto!Idle
    BY <1>1, OneDisk DEF Singles, Sto!Idle
<1>3. ~waived /\ th[t].op # "mkfs" => d \notin Sto!InUse
    BY <1>1 DEF Sto!IInv, Sto!Spared
<1>4. th[t].op \in {"clear", "zap", "mkfs"} => th[t] \in [op : {"clear", "zap", "mkfs"}, disks : {{x} : x \in Disks}, format : BOOLEAN]
    BY StorageTypes DEF Sto!Underway, Sto!Request, Sto!Idle
<1>5. Sto!Idle \in Sto!Underway /\ Sto!Idle.op = "idle"
    BY DEF Sto!Underway, Sto!Idle
<1>6. ~waived => cleared = {}
    BY DEF Sto!IInv, Sto!LiveDisksKept
<1> HIDE DEF d
<1>7. CASE Sto!StopStale(t)
    <2> DEFINE r == [op |-> "clear", disks |-> th[t].disks, format |-> Sto!Is(t, "format")]
    <2>1. /\ th[t].op \in {"wipe", "format"}
          /\ md' = md \/ (md # Absent /\ md' = [md EXCEPT !.up = FALSE])
          /\ th' = [th EXCEPT ![t] = r]
          /\ cleared' = cleared \cup ({d} \cap Sto!InUse)
          /\ UNCHANGED <<holds, mounted, fstab, pool, vg, conf, waived>>
        BY <1>7 DEF Sto!StopStale, Sto!Is, Sto!Goto, Sto!MdUp, d
    <2>2. r \in [op : {"clear", "zap", "mkfs"}, disks : {{x} : x \in Disks}, format : BOOLEAN]
        BY <1>2 DEF Sto!Is
    <2>3. r \in Sto!Underway
        BY <2>2 DEF Sto!Underway
    <2>4. r.op = "clear" /\ r.disks = th[t].disks
        OBVIOUS
    <2> HIDE DEF r
    <2>5. /\ md' = Absent \/ md' \in MdRecord
          /\ md' # md => ~md'.up
        <3>1. CASE md' = md
            BY <3>1, StorageTypes
        <3>2. CASE md # Absent /\ md' = [md EXCEPT !.up = FALSE]
            <4>1. md \in MdRecord
                BY <3>2, StorageTypes
            <4>2. md' \in MdRecord /\ ~md'.up
                BY <3>2, <4>1 DEF MdRecord
            <4> QED
                BY <4>2
        <3> QED
            BY <2>1, <3>1, <3>2
    <2>6. Sto!TypeOK'
        BY <2>1, <2>5, StorageTypes DEF Sto!TypeOK, PoolRecord, VgRecord, MdRecord, ConfLine, Sto!Spelling
    <2>7. Sto!InUse' \subseteq Sto!InUse
        <3>1. md' # md => Sto!MdUp' = {}
            BY <2>5 DEF Sto!MdUp
        <3>2. CASE md' = md
            BY <2>1, <3>2 DEF Sto!InUse, Sto!LivePool, Sto!VgDisks, Sto!MdUp
        <3>3. CASE md' # md
            BY <2>1, <3>1, <3>3 DEF Sto!InUse, Sto!LivePool, Sto!VgDisks
        <3> QED
            BY <3>2, <3>3
    <2>8. ~waived => cleared' = {}
        BY <1>3, <1>6, <2>1
    <2> QED
        BY <1>2, <2>1, <2>3, <2>4, <2>6, <2>7, <2>8, StorageMoves, StorageSame
<1>8. CASE Sto!Clear(t)
    <2> DEFINE r == [th[t] EXCEPT !.op = "zap"]
    <2>1. /\ th[t].op = "clear" /\ th' = [th EXCEPT ![t] = r]
          /\ holds' = holds \/ (d \notin Sto!Busy /\ Sto!Become({d}, "blank"))
          /\ UNCHANGED <<mounted, fstab, pool, vg, md, conf, cleared, waived>>
        BY <1>8 DEF Sto!Clear, Sto!Is, Sto!Goto, d
    <2>2. r \in Sto!Underway /\ r.op = "zap" /\ r.disks = th[t].disks
        BY <1>4, <2>1 DEF Sto!Underway
    <2> HIDE DEF r
    <2>3. holds' \in [Disks -> Sto!Signature]
        BY <1>2, <2>1, StorageTypes, Relabelled DEF Sto!Signature
    <2>4. Sto!TypeOK'
        BY <2>1, <2>3, StorageTypes DEF Sto!TypeOK, PoolRecord, VgRecord, MdRecord, ConfLine, Sto!Spelling
    <2>5. Sto!InUse' = Sto!InUse /\ Sto!LivePool' = Sto!LivePool /\ Sto!VgDisks' = Sto!VgDisks
        BY <2>1 DEF Sto!InUse, Sto!LivePool, Sto!VgDisks, Sto!MdUp
    <2>6. ~waived => Sto!Labelled'
        <3>1. CASE holds' = holds
            BY <2>1, <3>1, StorageSame
        <3>2. CASE d \notin Sto!Busy /\ Sto!Become({d}, "blank")
            BY <1>2, <2>5, <3>2, Relabelled, StorageTypes DEF Sto!Signature
        <3> QED
            BY <2>1, <3>1, <3>2
    <2> QED
        BY <1>2, <1>6, <2>1, <2>2, <2>4, <2>5, <2>6, StorageMoves
<1>9. CASE Sto!Zap(t)
    <2>1. /\ th[t].op = "zap" /\ Sto!Become({d}, "blank")
          /\ cleared' = cleared \cup ({d} \cap Sto!InUse)
          /\ fstab' = fstab \ {d} /\ Sto!Forget({d})
          /\ UNCHANGED <<mounted, vg, conf, waived>>
        BY <1>9 DEF Sto!Zap, Sto!Is, d
    <2>2. PICK r \in Sto!Underway :
             /\ th' = [th EXCEPT ![t] = r] /\ r.op \in {"idle", "mkfs"}
        <3>1. [th[t] EXCEPT !.op = "mkfs"] \in Sto!Underway /\ [th[t] EXCEPT !.op = "mkfs"].op = "mkfs"
            BY <1>4, <2>1 DEF Sto!Underway
        <3> QED
            BY <1>5, <1>9, <3>1 DEF Sto!Zap, Sto!Goto, Sto!Done
    <2>3. /\ pool' = Absent \/ pool' \in PoolRecord
          /\ (pool # Absent /\ pool.imported) \/ Sto!LivePool' = {}
          /\ pool # Absent /\ pool.imported => pool' = pool
        <3>1. CASE pool = Absent \/ pool.imported
            BY <2>1, <3>1, StorageTypes DEF Sto!Forget, Sto!LivePool
        <3>2. CASE pool # Absent /\ ~pool.imported
            <4>1. pool' = Absent \/ pool' = [pool EXCEPT !.disks = pool.disks \ {d}]
                BY <2>1, <3>2 DEF Sto!Forget
            <4>2. pool \in PoolRecord /\ pool.disks \ {d} \subseteq Disks
                BY <3>2, StorageTypes DEF PoolRecord
            <4>3. pool' = [pool EXCEPT !.disks = pool.disks \ {d}] => pool' \in PoolRecord /\ ~pool'.imported
                BY <3>2, <4>2 DEF PoolRecord
            <4> QED
                BY <3>2, <4>1, <4>3 DEF Sto!LivePool
        <3> QED
            BY <3>1, <3>2
    <2>4. md' = Absent \/ md' \in MdRecord
        <3>1. md' \in {md, Absent} \/ (md # Absent /\ md' = [md EXCEPT !.disks = md.disks \ {d}])
            BY <2>1 DEF Sto!Forget
        <3>2. md # Absent /\ md' = [md EXCEPT !.disks = md.disks \ {d}] => md' \in MdRecord
            BY StorageTypes DEF MdRecord
        <3> QED
            BY <3>1, <3>2, StorageTypes
    <2>5. holds' \in [Disks -> Sto!Signature]
        BY <1>2, <2>1, Relabelled DEF Sto!Signature
    <2>6. Sto!TypeOK'
        BY <2>1, <2>3, <2>4, <2>5, StorageTypes DEF Sto!TypeOK, PoolRecord, VgRecord, MdRecord, ConfLine, Sto!Spelling
    <2>7. ~waived => Sto!Labelled' /\ cleared' = {}
        <3> SUFFICES ASSUME ~waived
                     PROVE  Sto!Labelled' /\ cleared' = {}
            OBVIOUS
        <3>1. d \notin Sto!InUse
            BY <1>3, <2>1
        <3>2. Sto!LivePool' \subseteq Sto!LivePool /\ Sto!VgDisks' = Sto!VgDisks
            BY <2>1, <2>3 DEF Sto!LivePool, Sto!VgDisks
        <3>3. {d} \cap (Sto!LivePool \cup Sto!VgDisks) = {}
            BY <3>1, StorageTypes
        <3>4. Sto!Labelled'
            BY <1>2, <2>1, <3>2, <3>3, Relabelled DEF Sto!Signature
        <3>5. cleared' = {}
            BY <1>6, <2>1, <3>1
        <3> QED
            BY <3>4, <3>5
    <2> QED
        BY <1>2, <2>1, <2>2, <2>6, <2>7, StorageMoves
<1>10. CASE Sto!Mkfs(t)
    <2>1. /\ th[t].op = "mkfs" /\ th' = [th EXCEPT ![t] = Sto!Idle]
          /\ holds' = holds \/ (d \notin Sto!Busy /\ Sto!Become({d}, "fs"))
          /\ UNCHANGED <<mounted, fstab, pool, vg, md, conf, cleared, waived>>
        BY <1>10 DEF Sto!Mkfs, Sto!Is, Sto!Goto, Sto!Done, d
    <2>2. holds' \in [Disks -> Sto!Signature]
        BY <1>2, <2>1, StorageTypes, Relabelled DEF Sto!Signature
    <2>3. Sto!TypeOK'
        BY <2>1, <2>2, StorageTypes DEF Sto!TypeOK, PoolRecord, VgRecord, MdRecord, ConfLine, Sto!Spelling
    <2>4. Sto!LivePool' = Sto!LivePool /\ Sto!VgDisks' = Sto!VgDisks
        BY <2>1 DEF Sto!LivePool, Sto!VgDisks
    <2>5. ~waived => Sto!Labelled'
        <3>1. CASE holds' = holds
            BY <2>1, <3>1, StorageSame
        <3>2. CASE d \notin Sto!Busy /\ Sto!Become({d}, "fs")
            BY <1>2, <2>4, <3>2, Relabelled, StorageTypes DEF Sto!Signature
        <3> QED
            BY <2>1, <3>1, <3>2
    <2> QED
        BY <2>1, <2>3, <2>5, StorageOnce
<1> QED
    BY <1>7, <1>8, <1>9, <1>10

LEMMA StorageRefused ==
    ASSUME Sto!IInv, NEW t \in Threads, Sto!Refused(t)
    PROVE  Sto!IInv'
<1>1. /\ th[t].op # "idle" /\ th' = [th EXCEPT ![t] = Sto!Idle]
      /\ UNCHANGED <<holds, mounted, fstab, pool, vg, md, conf, cleared, waived>>
    BY DEF Sto!Refused, Sto!Goto, Sto!Done, Sto!system
<1>2. Sto!TypeOK'
    BY <1>1 DEF Sto!IInv, Sto!TypeOK
<1> QED
    BY <1>1, <1>2, StorageOnce, StorageSame

LEMMA StorageMount ==
    ASSUME Sto!IInv, NEW t \in Threads, Sto!Mount(t)
    PROVE  Sto!IInv'
<1>1. /\ th[t].op \in {"mount", "unmount"} /\ th' = [th EXCEPT ![t] = Sto!Idle]
      /\ mounted' \in {mounted \cup th[t].disks, mounted \ th[t].disks}
      /\ fstab' \in {fstab, fstab \cup th[t].disks, fstab \ th[t].disks}
      /\ UNCHANGED <<holds, pool, vg, md, conf, cleared, waived>>
    BY DEF Sto!Mount, Sto!Is, Sto!Goto, Sto!Done
<1>2. th[t].disks \subseteq Disks
    BY RequestDisks, StorageTypes
<1>3. Sto!TypeOK'
    BY <1>1, <1>2, StorageTypes DEF Sto!TypeOK, PoolRecord, VgRecord, MdRecord, ConfLine, Sto!Spelling
<1> QED
    BY <1>1, <1>3, StorageOnce, StorageSame

\* A pool takes disks that nothing has open.
LEMMA StoragePoolGrow ==
    ASSUME Sto!IInv, NEW t \in Threads, Sto!PoolGrow(t)
    PROVE  Sto!IInv'
<1> DEFINE D == th[t].disks
<1>1. /\ th[t].op \in {"zpoolcreate", "zpooladd"} /\ th' = [th EXCEPT ![t] = Sto!Idle]
      /\ D \cap Sto!Busy = {} /\ Sto!Become(D, "zfs_member")
      /\ UNCHANGED <<mounted, fstab, vg, md, conf, cleared, waived>>
    BY DEF Sto!PoolGrow, Sto!Is, Sto!Goto, Sto!Done
<1>2. D \subseteq Disks
    BY RequestDisks, StorageTypes
<1>3. pool' \in PoolRecord /\ pool'.disks \subseteq D \cup Sto!LivePool
    <2>1. CASE pool' = [disks |-> D, imported |-> TRUE, stable |-> TRUE]
        BY <1>2, <2>1 DEF PoolRecord
    <2>2. CASE /\ pool # Absent /\ pool.imported
               /\ pool' = [pool EXCEPT !.disks = @ \cup D]
        <3>1. pool \in PoolRecord /\ pool.disks = Sto!LivePool
            BY <2>2, StorageTypes DEF Sto!LivePool
        <3> QED
            BY <1>2, <2>2, <3>1 DEF PoolRecord
    <2> QED
        BY <2>1, <2>2 DEF Sto!PoolGrow
<1>4. /\ holds' \in [Disks -> Sto!Signature]
      /\ \A d \in Disks : holds'[d] = IF d \in D THEN "zfs_member" ELSE holds[d]
    BY <1>1, <1>2, Relabelled DEF Sto!Signature
<1>5. Sto!TypeOK'
    BY <1>1, <1>3, <1>4, StorageTypes DEF Sto!TypeOK, PoolRecord, VgRecord, MdRecord, ConfLine, Sto!Spelling
<1>6. ~waived => Sto!Labelled'
    <2>1. Sto!LivePool' \subseteq D \cup Sto!LivePool /\ Sto!VgDisks' = Sto!VgDisks
        BY <1>1, <1>3 DEF Sto!LivePool, Sto!VgDisks
    <2>2. D \cap Sto!VgDisks = {}
        BY <1>1, StorageTypes
    <2> QED
        BY <1>4, <2>1, <2>2 DEF Sto!IInv, Sto!Labelled
<1> QED
    BY <1>1, <1>5, <1>6, StorageOnce

\* A disk that leaves a pool loses its label with it.
LEMMA StorageReplace ==
    ASSUME Sto!IInv, NEW t \in Threads, Sto!Replace(t)
    PROVE  Sto!IInv'
<1>1. /\ th[t].op \in {"replace", "detach"} /\ th' = [th EXCEPT ![t] = Sto!Idle]
      /\ pool # Absent /\ pool.imported
      /\ UNCHANGED <<mounted, fstab, vg, md, conf, cleared, waived>>
    BY DEF Sto!Replace, Sto!Is, Sto!Goto, Sto!Done
<1>2. PICK d \in Disks : d = Sto!The(t) /\ th[t].disks = {d}
    BY <1>1, OneDisk DEF Singles
<1>3. pool \in PoolRecord /\ Sto!LivePool = pool.disks
    BY <1>1, StorageTypes DEF Sto!LivePool
<1>4. Sto!VgDisks' = Sto!VgDisks
    BY <1>1 DEF Sto!VgDisks
<1>5. CASE Sto!Is(t, "replace")
    <2>1. PICK old \in pool.disks :
             /\ d \notin Sto!Busy
             /\ pool' = [pool EXCEPT !.disks = (pool.disks \ {old}) \cup {d}]
             /\ holds' = [holds EXCEPT ![old] = "blank", ![d] = "zfs_member"]
        BY <1>2, <1>5 DEF Sto!Replace, Sto!Is
    <2>2. old \in Disks /\ old # d
        BY <1>3, <2>1, StorageTypes DEF PoolRecord
    <2>3. pool' \in PoolRecord /\ pool'.disks = (pool.disks \ {old}) \cup {d}
        <3>1. (pool.disks \ {old}) \cup {d} \subseteq Disks
            BY <1>3 DEF PoolRecord
        <3> QED
            BY <1>3, <2>1, <3>1 DEF PoolRecord
    <2>4. /\ holds' \in [Disks -> Sto!Signature]
          /\ holds'[old] = "blank" /\ holds'[d] = "zfs_member"
          /\ \A x \in Disks \ {old, d} : holds'[x] = holds[x]
        BY <2>1, <2>2, StorageTypes DEF Sto!Signature
    <2>5. Sto!TypeOK'
        BY <1>1, <2>3, <2>4, StorageTypes DEF Sto!TypeOK, PoolRecord, VgRecord, MdRecord, ConfLine, Sto!Spelling
    <2>6. ~waived => Sto!Labelled'
        <3> SUFFICES ASSUME ~waived
                     PROVE  Sto!Labelled'
            OBVIOUS
        <3>1. Sto!Labelled
            BY DEF Sto!IInv
        <3>2. d \notin Sto!VgDisks
            BY <2>1, StorageTypes
        <3>3. old \notin Sto!VgDisks
            BY <1>3, <2>2, <3>1 DEF Sto!Labelled
        <3>4. Sto!LivePool' \subseteq (Sto!LivePool \ {old}) \cup {d}
            BY <1>3, <2>3 DEF Sto!LivePool
        <3> QED
            BY <1>4, <2>2, <2>4, <3>1, <3>2, <3>3, <3>4 DEF Sto!Labelled
    <2> QED
        BY <1>1, <2>5, <2>6, StorageOnce
<1>6. CASE Sto!Is(t, "detach")
    <2>1. /\ d \in pool.disks /\ Sto!Become({d}, "blank")
          /\ pool' = [pool EXCEPT !.disks = pool.disks \ {d}]
        BY <1>2, <1>6 DEF Sto!Replace, Sto!Is
    <2>2. pool' \in PoolRecord /\ pool'.disks = pool.disks \ {d}
        <3>1. pool.disks \ {d} \subseteq Disks
            BY <1>3 DEF PoolRecord
        <3> QED
            BY <1>3, <2>1, <3>1 DEF PoolRecord
    <2>3. /\ holds' \in [Disks -> Sto!Signature]
          /\ \A x \in Disks : holds'[x] = IF x \in {d} THEN "blank" ELSE holds[x]
        BY <2>1, Relabelled DEF Sto!Signature
    <2>4. Sto!TypeOK'
        BY <1>1, <2>2, <2>3, StorageTypes DEF Sto!TypeOK, PoolRecord, VgRecord, MdRecord, ConfLine, Sto!Spelling
    <2>5. ~waived => Sto!Labelled'
        <3>1. Sto!LivePool' \subseteq Sto!LivePool \ {d}
            BY <1>3, <2>2 DEF Sto!LivePool
        <3> QED
            BY <1>3, <1>4, <2>1, <2>3, <3>1 DEF Sto!IInv, Sto!Labelled
    <2> QED
        BY <1>1, <2>4, <2>5, StorageOnce
<1> QED
    BY <1>5, <1>6 DEF Sto!Replace

\* A pool that leaves, and one that comes back: only when every disk of it is labelled.
LEMMA StoragePoolMoves ==
    ASSUME Sto!IInv, NEW t \in Threads, th[t].op # "idle", NEW r \in Sto!Underway,
           th' = [th EXCEPT ![t] = r], r.op \in {"idle", "reimport", "recover"},
           \/ pool' \in {pool, Absent}
           \/ /\ pool # Absent /\ pool' \in PoolRecord /\ pool'.disks = pool.disks
              /\ ~pool'.imported \/ Sto!Importable,
           UNCHANGED <<holds, mounted, fstab, vg, md, conf, cleared, waived>>
    PROVE  Sto!IInv'
<1>1. pool' = Absent \/ pool' \in PoolRecord
    BY StorageTypes
<1>2. Sto!TypeOK'
    BY <1>1, StorageTypes DEF Sto!TypeOK, PoolRecord, VgRecord, MdRecord, ConfLine, Sto!Spelling
<1>3. ~waived => Sto!Labelled'
    <2>1. Sto!VgDisks' = Sto!VgDisks
        BY DEF Sto!VgDisks
    <2>2. \/ Sto!LivePool' \subseteq Sto!LivePool
          \/ \A d \in Sto!LivePool' : holds[d] = "zfs_member"
        BY DEF Sto!LivePool, Sto!Importable
    <2> QED
        BY <2>1, <2>2 DEF Sto!IInv, Sto!Labelled
<1>4. ~waived => cleared' = {}
    BY DEF Sto!IInv, Sto!LiveDisksKept
<1>5. th[t] # Sto!Idle
    BY DEF Sto!Idle
<1> QED
    BY <1>2, <1>3, <1>4, <1>5, StorageMoves

LEMMA StoragePoolLeave ==
    ASSUME Sto!IInv, NEW t \in Threads, Sto!PoolLeave(t) \/ Sto!Reimport(t)
    PROVE  Sto!IInv'
<1>1. Sto!Idle \in Sto!Underway /\ Sto!Idle.op = "idle"
    BY DEF Sto!Underway, Sto!Idle
<1>2. UNCHANGED <<holds, mounted, fstab, vg, md, conf, cleared, waived>>
    BY DEF Sto!PoolLeave, Sto!Reimport
<1>3. CASE Sto!PoolLeave(t)
    <2>1. /\ th[t].op # "idle" /\ pool # Absent /\ pool \in PoolRecord
          /\ \/ pool' = Absent
             \/ pool' = [pool EXCEPT !.imported = FALSE]
             \/ Sto!Importable /\ pool' = [pool EXCEPT !.imported = TRUE]
        BY <1>3, StorageTypes DEF Sto!PoolLeave, Sto!Is
    <2>2. PICK r \in Sto!Underway :
             /\ th' = [th EXCEPT ![t] = r] /\ r.op \in {"idle", "reimport"}
        <3>1. [op |-> "reimport", disks |-> {}] \in Sto!Underway
            BY DEF Sto!Underway
        <3> QED
            BY <1>1, <1>3, <3>1 DEF Sto!PoolLeave, Sto!Goto, Sto!Done
    <2>3. CASE pool' = Absent
        BY <1>2, <2>1, <2>2, <2>3, StoragePoolMoves
    <2>4. CASE pool' = [pool EXCEPT !.imported = FALSE]
        <3>1. pool' \in PoolRecord /\ pool'.disks = pool.disks /\ ~pool'.imported
            BY <2>1, <2>4 DEF PoolRecord
        <3> QED
            BY <1>2, <2>1, <2>2, <3>1, StoragePoolMoves
    <2>5. CASE Sto!Importable /\ pool' = [pool EXCEPT !.imported = TRUE]
        <3>1. pool' \in PoolRecord /\ pool'.disks = pool.disks
            BY <2>1, <2>5 DEF PoolRecord
        <3> QED
            BY <1>2, <2>1, <2>2, <2>5, <3>1, StoragePoolMoves
    <2> QED
        BY <2>1, <2>3, <2>4, <2>5
<1>4. CASE Sto!Reimport(t)
    <2>1. /\ th[t].op \in {"reimport", "recover"}
          /\ \/ pool' = pool
             \/ Sto!Importable /\ pool' = [pool EXCEPT !.imported = TRUE]
             \/ Sto!Importable /\ pool' = [pool EXCEPT !.imported = TRUE, !.stable = TRUE]
        BY <1>4 DEF Sto!Reimport, Sto!Is
    <2>2. PICK r \in Sto!Underway :
             /\ th' = [th EXCEPT ![t] = r] /\ r.op \in {"idle", "recover"}
        <3>1. th[t].op = "reimport" => /\ [th[t] EXCEPT !.op = "recover"] \in Sto!Underway
                                       /\ [th[t] EXCEPT !.op = "recover"].op = "recover"
            <4> SUFFICES ASSUME th[t].op = "reimport"
                         PROVE  /\ [th[t] EXCEPT !.op = "recover"] \in Sto!Underway
                                /\ [th[t] EXCEPT !.op = "recover"].op = "recover"
                OBVIOUS
            <4>1. th[t] \in [op : {"reimport", "recover"}, disks : {{}}]
                BY StorageTypes DEF Sto!Underway, Sto!Request, Sto!Idle
            <4>2. [th[t] EXCEPT !.op = "recover"] \in [op : {"reimport", "recover"}, disks : {{}}]
                BY <4>1
            <4> QED
                BY <4>1, <4>2 DEF Sto!Underway
        <3> QED
            BY <1>1, <1>4, <3>1 DEF Sto!Reimport, Sto!Goto, Sto!Done, Sto!Is
    <2>3. CASE pool' = pool
        BY <1>2, <2>1, <2>2, <2>3, StoragePoolMoves
    <2>4. CASE pool' # pool
        <3>1. Sto!Importable /\ pool # Absent /\ pool \in PoolRecord
            BY <2>1, <2>4, StorageTypes DEF Sto!Importable
        <3>2. pool' \in PoolRecord /\ pool'.disks = pool.disks
            <4>1. CASE pool' = [pool EXCEPT !.imported = TRUE]
                BY <3>1, <4>1 DEF PoolRecord
            <4>2. CASE pool' = [pool EXCEPT !.imported = TRUE, !.stable = TRUE]
                BY <3>1, <4>2 DEF PoolRecord
            <4> QED
                BY <2>1, <2>4, <4>1, <4>2
        <3> QED
            BY <1>2, <2>1, <2>2, <3>1, <3>2, StoragePoolMoves
    <2> QED
        BY <2>3, <2>4
<1> QED
    BY <1>3, <1>4

\* Volume groups take labelled disks only, and no label changes under one.
LEMMA StorageVg ==
    ASSUME Sto!IInv, NEW t \in Threads, th[t].op # "idle",
           th' = [th EXCEPT ![t] = Sto!Idle],
           vg' = Absent \/ vg' \in VgRecord,
           vg' # Absent => \A d \in vg'.disks : d \in Sto!VgDisks \/ Sto!Standalone(d),
           UNCHANGED <<holds, mounted, fstab, pool, md, conf, cleared, waived>>
    PROVE  Sto!IInv'
<1>1. Sto!TypeOK'
    BY StorageTypes DEF Sto!TypeOK, PoolRecord, VgRecord, MdRecord, ConfLine, Sto!Spelling
<1>2. Sto!LivePool' = Sto!LivePool
    BY DEF Sto!LivePool
<1>3. \A d \in Sto!VgDisks' : d \in Sto!VgDisks \/ holds[d] = "LVM2_member"
    BY DEF Sto!VgDisks, Sto!Standalone, Sto!Pvs
<1>4. ~waived => Sto!Labelled'
    BY <1>2, <1>3 DEF Sto!IInv, Sto!Labelled
<1> QED
    BY <1>1, <1>4, StorageOnce

LEMMA StorageLvm ==
    ASSUME Sto!IInv, NEW t \in Threads, Sto!Lvm(t)
    PROVE  Sto!IInv'
<1>1. /\ th[t].op \in {"pvcreate", "pvremove", "vgcreate", "vgextend", "vgreduce", "pvmove",
                       "vgremove", "lvcreate", "lvremove"}
      /\ th' = [th EXCEPT ![t] = Sto!Idle]
      /\ UNCHANGED <<mounted, fstab, pool, md, conf, cleared, waived>>
    BY Zenon DEF Sto!Lvm, Sto!Is, Sto!Goto, Sto!Done
<1>2. th[t].disks \subseteq Disks
    BY RequestDisks, StorageTypes
<1>3. CASE th[t].op \in {"pvcreate", "pvremove"}
    <2>1. PICK d \in Disks : d = Sto!The(t) /\ th[t].disks = {d}
        BY <1>3, OneDisk DEF Singles
    <2>2. vg' = vg /\ \/ d \notin Sto!Busy /\ Sto!Become({d}, "LVM2_member")
                      \/ Sto!Standalone(d) /\ Sto!Become({d}, "blank")
        BY Zenon, <1>3, <2>1 DEF Sto!Lvm, Sto!Is
    <2>3. holds' \in [Disks -> Sto!Signature]
        BY <2>2, Relabelled DEF Sto!Signature
    <2>4. Sto!TypeOK'
        BY <1>1, <2>2, <2>3, StorageTypes DEF Sto!TypeOK, PoolRecord, VgRecord, MdRecord, ConfLine, Sto!Spelling
    <2>5. ~waived => Sto!Labelled'
        <3> SUFFICES ASSUME ~waived
                     PROVE  Sto!Labelled'
            OBVIOUS
        <3>1. d \notin Sto!LivePool /\ d \notin Sto!VgDisks
            <4>1. CASE d \notin Sto!Busy
                BY <4>1, StorageTypes
            <4>2. CASE Sto!Standalone(d)
                BY <4>2 DEF Sto!Standalone, Sto!Pvs, Sto!IInv, Sto!Labelled
            <4> QED
                BY <2>2, <4>1, <4>2
        <3>2. Sto!LivePool' = Sto!LivePool /\ Sto!VgDisks' = Sto!VgDisks
            BY <1>1, <2>2 DEF Sto!LivePool, Sto!VgDisks
        <3>3. CASE Sto!Become({d}, "LVM2_member")
            BY <3>1, <3>2, <3>3, Relabelled DEF Sto!Signature
        <3>4. CASE Sto!Become({d}, "blank")
            BY <3>1, <3>2, <3>4, Relabelled DEF Sto!Signature
        <3> QED
            BY <2>2, <3>3, <3>4
    <2> QED
        BY <1>1, <2>4, <2>5, StorageOnce
<1>4. CASE th[t].op = "vgcreate"
    <2>1. /\ \A d \in th[t].disks : Sto!Standalone(d)
          /\ vg' = [disks |-> th[t].disks, lv |-> "none", on |-> {}] /\ UNCHANGED holds
        BY <1>4 DEF Sto!Lvm, Sto!Is
    <2>2. vg' \in VgRecord /\ vg'.disks = th[t].disks
        BY <1>2, <2>1 DEF VgRecord
    <2> QED
        BY <1>1, <2>1, <2>2, StorageVg
<1>5. CASE th[t].op = "vgremove"
    <2>1. vg' = Absent /\ UNCHANGED holds
        BY <1>5 DEF Sto!Lvm, Sto!Is
    <2> QED
        BY <1>1, <2>1, StorageVg
<1>6. CASE th[t].op \in {"vgextend", "vgreduce", "pvmove", "lvcreate", "lvremove"}
    <2>1. vg # Absent /\ UNCHANGED holds
        BY Zenon, <1>6 DEF Sto!Lvm, Sto!Is
    <2>2. vg \in VgRecord /\ Sto!VgDisks = vg.disks
        BY <2>1, StorageTypes DEF Sto!VgDisks
    <2>3. CASE th[t].op = "vgextend"
        <3>1. PICK d \in Disks : d = Sto!The(t) /\ th[t].disks = {d}
            BY <2>3, OneDisk DEF Singles
        <3>2. Sto!Standalone(d) /\ vg' = [vg EXCEPT !.disks = vg.disks \cup {d}]
            BY <2>3, <3>1 DEF Sto!Lvm, Sto!Is
        <3>3. vg' \in VgRecord /\ vg'.disks = vg.disks \cup {d}
            BY <2>2, <3>2 DEF VgRecord
        <3> QED
            BY <1>1, <2>1, <2>2, <3>2, <3>3, StorageVg
    <2>4. CASE th[t].op = "vgreduce"
        <3>1. vg' = [vg EXCEPT !.disks = vg.disks \ th[t].disks]
            BY <2>4 DEF Sto!Lvm, Sto!Is
        <3>2. vg.disks \ th[t].disks \in SUBSET Disks
            BY <2>2 DEF VgRecord
        <3>3. vg' \in VgRecord /\ vg'.disks = vg.disks \ th[t].disks
            BY <2>2, <3>1, <3>2 DEF VgRecord
        <3> QED
            BY <1>1, <2>1, <2>2, <3>3, StorageVg
    <2>5. CASE th[t].op = "pvmove"
        <3>1. PICK d \in vg.disks : vg' = [vg EXCEPT !.on = (vg.on \ th[t].disks) \cup {d}]
            BY <2>5 DEF Sto!Lvm, Sto!Is
        <3>2. (vg.on \ th[t].disks) \cup {d} \in SUBSET Disks
            BY <2>2 DEF VgRecord
        <3>3. vg' \in VgRecord /\ vg'.disks = vg.disks
            BY <2>2, <3>1, <3>2 DEF VgRecord
        <3> QED
            BY <1>1, <2>1, <2>2, <3>3, StorageVg
    <2>6. CASE th[t].op = "lvcreate"
        <3>1. PICK D \in SUBSET vg.disks : vg' = [vg EXCEPT !.lv = "plain", !.on = D]
            BY Zenon, <2>6 DEF Sto!Lvm, Sto!Is
        <3>2. D \in SUBSET Disks
            BY <2>2 DEF VgRecord
        <3>3. vg' \in VgRecord /\ vg'.disks = vg.disks
            BY <2>2, <3>1, <3>2 DEF VgRecord
        <3> QED
            BY <1>1, <2>1, <2>2, <3>3, StorageVg
    <2>7. CASE th[t].op = "lvremove"
        <3>1. vg' = [vg EXCEPT !.lv = "none", !.on = {}]
            BY <2>7 DEF Sto!Lvm, Sto!Is
        <3>2. vg' \in VgRecord /\ vg'.disks = vg.disks
            BY <2>2, <3>1 DEF VgRecord
        <3> QED
            BY <1>1, <2>1, <2>2, <3>2, StorageVg
    <2> QED
        BY <1>6, <2>3, <2>4, <2>5, <2>6, <2>7
<1> QED
    BY <1>1, <1>3, <1>4, <1>5, <1>6

\* Arrays take disks that nothing has open, and zero disks that nothing has open.
LEMMA StorageMd ==
    ASSUME Sto!IInv, NEW t \in Threads, th[t].op # "idle", NEW r \in Sto!Underway,
           th' = [th EXCEPT ![t] = r], r.op \in {"idle", "zero"},
           md' = Absent \/ md' \in MdRecord, conf' \in ConfLine,
           \/ holds' = holds
           \/ \E D \in SUBSET Disks, sig \in Sto!Signature :
                 D \cap Sto!Busy = {} /\ Sto!Become(D, sig),
           UNCHANGED <<mounted, fstab, pool, vg, cleared, waived>>
    PROVE  Sto!IInv'
<1>1. Sto!LivePool' = Sto!LivePool /\ Sto!VgDisks' = Sto!VgDisks
    BY DEF Sto!LivePool, Sto!VgDisks
<1>2. holds' \in [Disks -> Sto!Signature] /\ (~waived => Sto!Labelled')
    <2>1. CASE holds' = holds
        BY <2>1, StorageTypes, StorageSame
    <2>2. ASSUME NEW D \in SUBSET Disks, NEW sig \in Sto!Signature,
                 D \cap Sto!Busy = {}, Sto!Become(D, sig)
          PROVE  holds' \in [Disks -> Sto!Signature] /\ (~waived => Sto!Labelled')
        <3>1. D \cap (Sto!LivePool \cup Sto!VgDisks) = {}
            BY <2>2, StorageTypes
        <3> QED
            BY <1>1, <2>2, <3>1, Relabelled
    <2> QED
        BY <2>1, <2>2
<1>3. Sto!TypeOK'
    BY <1>2, StorageTypes DEF Sto!TypeOK, PoolRecord, VgRecord, MdRecord, ConfLine, Sto!Spelling
<1>4. ~waived => cleared' = {}
    BY DEF Sto!IInv, Sto!LiveDisksKept
<1>5. th[t] # Sto!Idle
    BY DEF Sto!Idle
<1> QED
    BY <1>2, <1>3, <1>4, <1>5, StorageMoves

LEMMA StorageMdChange ==
    ASSUME Sto!IInv, NEW t \in Threads, Sto!MdChange(t)
    PROVE  Sto!IInv'
<1> DEFINE D == th[t].disks
<1>1. /\ th[t].op \in {"mdcreate", "mdadd", "mdremove", "mdstop", "mdassemble", "mddelete"}
      /\ UNCHANGED <<mounted, fstab, pool, vg, cleared, waived>>
    BY DEF Sto!MdChange, Sto!Is
<1>2. D \subseteq Disks
    BY RequestDisks, StorageTypes
<1>3. PICK r \in Sto!Underway : th' = [th EXCEPT ![t] = r] /\ r.op \in {"idle", "zero"}
    <2>1. Sto!Idle \in Sto!Underway /\ Sto!Idle.op = "idle"
        BY DEF Sto!Underway, Sto!Idle
    <2>2. [op |-> "zero", disks |-> Sto!MdUp] \in Sto!Underway
        BY StorageTypes DEF Sto!Underway
    <2> QED
        BY <2>1, <2>2 DEF Sto!MdChange, Sto!Goto, Sto!Done
<1>4. conf' \in ConfLine
    BY StorageTypes DEF Sto!MdChange, Sto!Synced, MdRecord, ConfLine
<1> HIDE DEF D
<1>5. CASE th[t].op = "mdcreate"
    <2>1. /\ D \cap Sto!Busy = {} /\ Sto!Become(D, "linux_raid_member")
          /\ md' = [disks |-> D, up |-> TRUE, used |-> FALSE, spelled |-> "name"]
        BY <1>5 DEF Sto!MdChange, Sto!Is, D
    <2>2. md' \in MdRecord
        BY <1>2, <2>1 DEF MdRecord
    <2>3. "linux_raid_member" \in Sto!Signature
        BY DEF Sto!Signature
    <2> QED
        BY <1>1, <1>2, <1>3, <1>4, <2>1, <2>2, <2>3, StorageMd
<1>6. CASE th[t].op = "mdadd"
    <2>1. /\ md # Absent /\ Sto!The(t) \notin Sto!Busy /\ Sto!Become(D, "linux_raid_member")
          /\ md' = [md EXCEPT !.disks = md.disks \cup D]
        BY <1>6 DEF Sto!MdChange, Sto!Is, D
    <2>2. D \cap Sto!Busy = {}
        BY <1>6, <2>1, OneDisk DEF Singles, D
    <2>3. md' \in MdRecord
        <3>1. md \in MdRecord
            BY <2>1, StorageTypes
        <3>2. md.disks \cup D \in SUBSET Disks
            BY <1>2, <3>1 DEF MdRecord
        <3> QED
            BY <2>1, <3>1, <3>2 DEF MdRecord
    <2>4. "linux_raid_member" \in Sto!Signature
        BY DEF Sto!Signature
    <2> QED
        BY <1>1, <1>2, <1>3, <1>4, <2>1, <2>2, <2>3, <2>4, StorageMd
<1>7. CASE th[t].op \in {"mdremove", "mdstop", "mdassemble", "mddelete"}
    <2>1. md # Absent /\ holds' = holds
        BY <1>7 DEF Sto!MdChange, Sto!Is
    <2>2. md \in MdRecord
        BY <2>1, StorageTypes
    <2>3. md' \in MdRecord
        <3>1. CASE th[t].op = "mdremove"
            <4>1. md' = [md EXCEPT !.disks = md.disks \ D]
                BY <3>1 DEF Sto!MdChange, Sto!Is, D
            <4>2. md.disks \ D \in SUBSET Disks
                BY <2>2 DEF MdRecord
            <4> QED
                BY <2>2, <4>1, <4>2 DEF MdRecord
        <3>2. CASE th[t].op \in {"mdstop", "mddelete"}
            <4>1. md' = md \/ md' = [md EXCEPT !.up = FALSE]
                BY <3>2 DEF Sto!MdChange, Sto!Is
            <4>2. CASE md' = [md EXCEPT !.up = FALSE]
                BY <2>2, <4>2 DEF MdRecord
            <4> QED
                BY <2>2, <4>1, <4>2
        <3>3. CASE th[t].op = "mdassemble"
            <4> DEFINE K == {d \in md.disks : holds[d] = "linux_raid_member"}
            <4>1. md' = [md EXCEPT !.disks = K, !.up = TRUE]
                BY <3>3 DEF Sto!MdChange, Sto!Is
            <4>2. K \in SUBSET Disks
                BY <2>2 DEF MdRecord
            <4> HIDE DEF K
            <4> QED
                BY <2>2, <4>1, <4>2 DEF MdRecord
        <3> QED
            BY <1>7, <3>1, <3>2, <3>3
    <2> QED
        BY <1>1, <1>3, <1>4, <2>1, <2>3, StorageMd
<1> QED
    BY <1>1, <1>5, <1>6, <1>7

LEMMA StorageZero ==
    ASSUME Sto!IInv, NEW t \in Threads, Sto!ZeroMembers(t)
    PROVE  Sto!IInv'
<1>1. PICK freed \in SUBSET th[t].disks :
         /\ freed \cap Sto!Busy = {} /\ Sto!Become(freed, "blank")
         /\ md' \in {Absent, md} /\ conf' \in Sto!Synced(md')
         /\ th[t].op = "zero" /\ th' = [th EXCEPT ![t] = Sto!Idle]
         /\ UNCHANGED <<mounted, fstab, pool, vg, cleared, waived>>
    <2> DEFINE freed == {d \in th[t].disks : holds[d] = "linux_raid_member"} \ Sto!Busy
    <2>1. /\ freed \in SUBSET th[t].disks
          /\ freed \cap Sto!Busy = {} /\ Sto!Become(freed, "blank")
          /\ md' \in {Absent, md} /\ conf' \in Sto!Synced(md')
        BY DEF Sto!ZeroMembers
    <2>2. /\ th[t].op = "zero" /\ th' = [th EXCEPT ![t] = Sto!Idle]
          /\ UNCHANGED <<mounted, fstab, pool, vg, cleared, waived>>
        BY DEF Sto!ZeroMembers, Sto!Is, Sto!Goto, Sto!Done
    <2> HIDE DEF freed
    <2> QED
        BY <2>1, <2>2
<1>2. freed \in SUBSET Disks
    BY <1>1, RequestDisks, StorageTypes
<1>3. (md' = Absent \/ md' \in MdRecord) /\ conf' \in ConfLine
    BY <1>1, StorageTypes DEF Sto!Synced, MdRecord, ConfLine
<1>4. Sto!Idle \in Sto!Underway /\ Sto!Idle.op = "idle" /\ "blank" \in Sto!Signature
    BY DEF Sto!Underway, Sto!Idle, Sto!Signature
<1> QED
    BY <1>1, <1>2, <1>3, <1>4, StorageMd

\* What happens elsewhere on the host disturbs no label; a request it meets half-way is waived.
LEMMA StorageUse ==
    ASSUME Sto!IInv, Sto!Use
    PROVE  Sto!IInv'
<1>1. /\ waived' = (waived \/ \E o \in Threads : th[o] # Sto!Idle)
      /\ UNCHANGED <<holds, mounted, fstab, pool, conf, th, cleared>>
    BY DEF Sto!Use
<1>2. (md' = Absent \/ md' \in MdRecord) /\ (vg' = Absent \/ vg' \in VgRecord)
      /\ Sto!VgDisks' \subseteq Sto!VgDisks
    <2>1. CASE md # Absent /\ md' = [md EXCEPT !.used = ~md.used] /\ vg' = vg
        <3>1. md \in MdRecord
            BY <2>1, StorageTypes
        <3>2. md' \in MdRecord
            BY <2>1, <3>1 DEF MdRecord
        <3> QED
            BY <2>1, <3>2, StorageTypes DEF Sto!VgDisks
    <2>2. CASE /\ vg # Absent /\ md' = md
               /\ vg' = [vg EXCEPT !.lv = IF vg.lv = "plain" THEN "mounted" ELSE "plain"]
        <3>1. vg \in VgRecord
            BY <2>2, StorageTypes
        <3>2. PICK v \in {"mounted", "plain"} : vg' = [vg EXCEPT !.lv = v]
            BY <2>2
        <3>3. vg' \in VgRecord /\ vg'.disks = vg.disks
            BY <3>1, <3>2 DEF VgRecord
        <3>4. Sto!VgDisks' \subseteq Sto!VgDisks
            BY <2>2, <3>3 DEF Sto!VgDisks
        <3> QED
            BY <2>2, <3>3, <3>4, StorageTypes
    <2> QED
        BY <2>1, <2>2 DEF Sto!Use
<1>3. waived' \in BOOLEAN
    BY <1>1, StorageTypes
<1>4. Sto!TypeOK'
    BY <1>1, <1>2, <1>3, StorageTypes DEF Sto!TypeOK, PoolRecord, VgRecord, MdRecord, ConfLine, Sto!Spelling
<1>5. Sto!LiveDisksKept'
    BY <1>1 DEF Sto!IInv, Sto!LiveDisksKept
<1>6. ASSUME ~waived'
      PROVE  /\ \A o, p \in Threads : o # p => th'[o] = Sto!Idle \/ th'[p] = Sto!Idle
             /\ Sto!Labelled'
             /\ \A o \in Threads : Sto!Spared(o)'
    <2>1. ~waived /\ \A o \in Threads : th'[o] = Sto!Idle
        BY <1>1, <1>6
    <2>2. Sto!Labelled'
        BY <1>1, <1>2, <2>1 DEF Sto!IInv, Sto!Labelled, Sto!LivePool
    <2> QED
        BY <2>1, <2>2 DEF Sto!Spared, Sto!Idle
<1> QED
    BY <1>1, <1>4, <1>5, <1>6, StorageTypes DEF Sto!IInv

LEMMA StorageStep ==
    ASSUME Sto!IInv, [Sto!Next]_(Sto!vars)
    PROVE  Sto!IInv'
<1>1. CASE Sto!Use
    BY <1>1, StorageUse
<1>2. CASE UNCHANGED Sto!vars
    BY <1>2 DEF Sto!vars, Sto!system, Sto!IInv, Sto!TypeOK, Sto!LiveDisksKept, Sto!Labelled,
                Sto!Spared, Sto!The, Sto!InUse, Sto!LivePool, Sto!VgDisks, Sto!MdUp
<1>3. ASSUME NEW t \in Threads,
             \/ Sto!Begin(t) \/ Sto!Refused(t) \/ Sto!StopStale(t) \/ Sto!Clear(t) \/ Sto!Zap(t)
             \/ Sto!Mkfs(t) \/ Sto!Mount(t) \/ Sto!PoolGrow(t) \/ Sto!Replace(t)
             \/ Sto!PoolLeave(t) \/ Sto!Reimport(t) \/ Sto!Lvm(t) \/ Sto!MdChange(t)
             \/ Sto!ZeroMembers(t)
      PROVE  Sto!IInv'
    BY <1>3, StorageBegin, StorageRefused, StorageWipe, StorageMount, StoragePoolGrow,
       StorageReplace, StoragePoolLeave, StorageLvm, StorageMdChange, StorageZero
<1> QED
    BY <1>1, <1>2, <1>3 DEF Sto!Next

\* No series of requests, each answered before the next, stops or clears what a mount, a
\* pool, a volume group or an array in use has on a disk, for any disks and number of
\* requests: as long as zpool status answered, and but for an unused array that
\* mdadm.conf has only by name (disk_wipe_status, disks.py).
THEOREM LiveDisksAreKept == Spec => []LiveDisksKept
<1>1. Init => (which = "Sto" => Sto!IInv)
    BY StorageInit DEF Init
<1>2. (which = "Sto" => Sto!IInv) /\ [Next]_vars => (which = "Sto" => Sto!IInv)'
    <2> SUFFICES ASSUME which = "Sto" => Sto!IInv, [Next]_vars, which' = "Sto"
                 PROVE  Sto!IInv'
        OBVIOUS
    <2>1. Sto!IInv /\ [Sto!Next]_(Sto!vars)
        BY ComponentStep
    <2> QED
        BY <2>1, StorageStep
<1>3. (which = "Sto" => Sto!IInv) => LiveDisksKept
    BY DEF LiveDisksKept, Sto!IInv
<1> QED
    BY <1>1, <1>2, <1>3, PTL DEF Spec


----------------------------------------------------------------------------
(* Snapshots and replication *)

snaps == s1
remote == s2
sched == s3
replJob == s4
replTimer == s5
pr == s6
snapClock == s7
taken == s8
snapRequests == s9
snapDeaths == s10
limit == s11
debt == s12
crossed == s13
USE DEF snaps, remote, sched, replJob, replTimer, pr, snapClock, taken, snapRequests, snapDeaths,
        limit, debt, crossed

\* A bounded set of numbers has a least element and a greatest.
LEMMA Least ==
    ASSUME NEW b \in Nat, NEW S \in SUBSET (1..b), S # {}
    PROVE  \E m \in S : \A n \in S : m <= n
<1> DEFINE Below(m) == {j \in S : j < m}
           T == {Below(m) : m \in S}
<1>1. T \subseteq FiniteSubsetsOf(S) /\ T # {}
    <2>1. IsFiniteSet(1..b)
        BY FS_Interval
    <2>2. IsFiniteSet(S)
        BY <2>1, FS_Subset
    <2>3. FiniteSubsetsOf(S) = SUBSET S
        BY <2>2, FS_FiniteSubsetsOfFinite
    <2>4. \A m \in S : Below(m) \in SUBSET S
        OBVIOUS
    <2> HIDE DEF Below
    <2>5. T \subseteq SUBSET S
        BY <2>4, Zenon
    <2>6. T # {}
        <3>1. PICK m \in S : TRUE
            OBVIOUS
        <3>2. Below(m) \in T
            OBVIOUS
        <3> QED
            BY <3>2
    <2> QED
        BY <2>3, <2>5, <2>6
<1>2. PICK U \in T : \A V \in T : ~(<<V, U>> \in StrictSubsetOrdering(S))
    <2>1. IsWellFoundedOn(StrictSubsetOrdering(S), FiniteSubsetsOf(S))
        BY FS_StrictSubsetOrderingWellFounded
    <2> HIDE DEF T
    <2> QED
        BY <1>1, <2>1, WFMin, Zenon
<1>3. PICK m \in S : U = Below(m)
    BY <1>2
<1>4. ASSUME NEW n \in S, n < m
      PROVE  FALSE
    <2>0. \A x \in S : x \in Int
        OBVIOUS
    <2>1. Below(n) \subseteq Below(m)
        <3>1. ASSUME NEW j \in S, j < n
              PROVE  j < m
            <4>1. j \in Int /\ n \in Int /\ m \in Int
                BY <2>0
            <4> QED
                BY <1>4, <3>1, <4>1
        <3> QED
            BY <3>1
    <2>2. n \in Below(m) /\ n \notin Below(n)
        BY <1>4
    <2>3. <<Below(n), Below(m)>> \in StrictSubsetOrdering(S)
        BY <2>1, <2>2 DEF StrictSubsetOrdering
    <2> QED
        BY <1>2, <1>3, <2>3
<1> QED
    BY <1>4

LEMMA Greatest ==
    ASSUME NEW b \in Nat, NEW S \in SUBSET (1..b), S # {}
    PROVE  Rep!Max(S) \in S /\ \A n \in S : n <= Rep!Max(S)
<1> DEFINE T == {b + 1 - n : n \in S}
<1>1. T \in SUBSET (1..b) /\ T # {}
    <2>1. \A n \in S : b + 1 - n \in 1..b
        OBVIOUS
    <2>2. \A k \in T : k \in 1..b
        BY <2>1
    <2> QED
        BY <2>2
<1>2. PICK m \in T : \A n \in T : m <= n
    <2> HIDE DEF T
    <2> QED
        BY <1>1, Least
<1>3. PICK x \in S : m = b + 1 - x
    BY <1>2
<1>4. ASSUME NEW n \in S
      PROVE  x >= n
    <2>1. b + 1 - n \in T
        OBVIOUS
    <2>2. m <= b + 1 - n
        BY <1>2, <2>1
    <2> HIDE DEF T
    <2>3. x \in Int /\ n \in Int
        BY <1>4
    <2> QED
        BY <1>3, <2>2, <2>3
<1>5. \E y \in S : \A n \in S : y >= n
    BY <1>3, <1>4
<1>6. Rep!Max(S) \in S /\ \A n \in S : Rep!Max(S) >= n
    BY <1>5, Zenon DEF Rep!Max
<1>7. \A n \in S : n \in Int
    OBVIOUS
<1>8. Rep!Max(S) \in Int
    BY <1>6, <1>7
<1> QED
    BY <1>6, <1>7, <1>8

\* Those of a set of numbers that less than k of it are greater than are k at most.
LEMMA Newest ==
    ASSUME NEW b \in Nat, NEW A \in SUBSET (1..b), NEW k \in Nat,
           NEW K \in SUBSET A, \A i \in K : ~(Cardinality({j \in A : j > i}) >= k)
    PROVE  IsFiniteSet(K) /\ Cardinality(K) <= k
<1>1. IsFiniteSet(A)
    <2>1. IsFiniteSet(1..b)
        BY FS_Interval
    <2> QED
        BY <2>1, FS_Subset
<1>2. IsFiniteSet(K)
    BY <1>1, FS_Subset
<1>3. CASE K = {}
    BY <1>3, FS_EmptySet
<1>4. CASE K # {}
    <2>1. PICK m \in K : \A n \in K : m <= n
        BY <1>4, Least
    <2> DEFINE N == {j \in A : j > m}
    <2>2. IsFiniteSet(N) /\ Cardinality(N) \in Nat /\ Cardinality(N) < k
        <3>1. IsFiniteSet(N)
            BY <1>1, FS_Subset
        <3>2. Cardinality(N) \in Nat
            BY <3>1, FS_CardinalityType
        <3>3. ~(Cardinality(N) >= k)
            BY <2>1
        <3> HIDE DEF N
        <3> QED
            BY <3>1, <3>2, <3>3
    <2>3. IsFiniteSet(N \cup {m}) /\ Cardinality(N \cup {m}) = Cardinality(N) + 1
        <3>1. m \notin N
            OBVIOUS
        <3> HIDE DEF N
        <3> QED
            BY <2>2, <3>1, FS_AddElement
    <2>4. K \subseteq N \cup {m}
        BY <2>1
    <2> HIDE DEF N
    <2>5. Cardinality(K) \in Nat /\ Cardinality(K) <= Cardinality(N \cup {m})
        BY <1>2, <2>3, <2>4, FS_Subset, FS_CardinalityType
    <2> QED
        BY <1>2, <2>2, <2>3, <2>5
<1> QED
    BY <1>3, <1>4

\* What a process at each of its steps knows.
LEMMA ProcStates ==
    ASSUME Rep!TypeOK, NEW p \in Rep!Procs
    PROVE  /\ pr[p].pc = "write" => pr[p].sched \in Rep!Schedule \cup {Absent}
           /\ pr[p].pc = "jobwrite" => pr[p].job \in Rep!Job \cup {Absent}
           /\ pr[p].pc = "sync" => pr[p].which \in {"snap", "repl"}
           /\ pr[p].pc \in {"take", "prune", "save"} =>
                 /\ pr[p] \in [pc : {"take", "prune", "save"}, sched : {s \in Rep!Schedule : s.keep > 0}]
                 /\ pr[p].sched \in Rep!Schedule /\ pr[p].sched.keep > 0
           /\ pr[p].pc = "destroy" =>
                 /\ pr[p] \in [pc : {"destroy"}, sched : Rep!Schedule, victims : SUBSET (1..taken)]
                 /\ pr[p].sched \in Rep!Schedule
           /\ pr[p].pc \in {"listed", "answered"} =>
                 /\ pr[p].job \in Rep!Job
                 /\ pr[p].local \in SUBSET (1..taken) /\ pr[p].local # {}
           /\ pr[p].pc = "answered" => pr[p].remote \in {Absent} \cup SUBSET (1..taken)
           /\ pr[p].pc = "jobsave" => pr[p].job \in Rep!Job
<1>1. pr[p] \in Rep!ProcType
    BY DEF Rep!TypeOK
<1> USE <1>1 DEF Rep!ProcType, Rep!Idle
<1>2. pr[p].pc = "write" => pr[p].sched \in Rep!Schedule \cup {Absent}
    OBVIOUS
<1>3. pr[p].pc = "jobwrite" => pr[p].job \in Rep!Job \cup {Absent}
    OBVIOUS
<1>4. pr[p].pc = "sync" => pr[p].which \in {"snap", "repl"}
    OBVIOUS
<1>5. pr[p].pc \in {"take", "prune", "save"} =>
         pr[p] \in [pc : {"take", "prune", "save"}, sched : {s \in Rep!Schedule : s.keep > 0}]
    OBVIOUS
<1>6. pr[p].pc = "destroy" =>
         pr[p] \in [pc : {"destroy"}, sched : Rep!Schedule, victims : SUBSET (1..taken)]
    OBVIOUS
<1> DEFINE L == SUBSET (1..taken)
<1>7. pr[p].pc = "listed" =>
         pr[p] \in [pc : {"listed"}, job : Rep!Job, local : L \ {{}}]
    OBVIOUS
<1>8. pr[p].pc = "answered" =>
         pr[p] \in [pc : {"answered"}, job : Rep!Job, local : L \ {{}}, remote : {Absent} \cup L]
    OBVIOUS
<1>9. pr[p].pc = "jobsave" => pr[p].job \in Rep!Job
    OBVIOUS
<1> HIDE <1>1 DEF Rep!ProcType, Rep!Idle
<1>10. pr[p].pc \in {"take", "prune", "save"} => pr[p].sched \in Rep!Schedule /\ pr[p].sched.keep > 0
    BY <1>5
<1>11. pr[p].pc = "destroy" => pr[p].sched \in Rep!Schedule
    BY <1>6
<1> HIDE DEF L
<1>12. pr[p].pc \in {"listed", "answered"} =>
          pr[p].job \in Rep!Job /\ pr[p].local \in L /\ pr[p].local # {}
    BY <1>7, <1>8
<1>13. pr[p].pc = "answered" => pr[p].remote \in {Absent} \cup L
    BY <1>8
<1> QED
    BY <1>2, <1>3, <1>4, <1>5, <1>6, <1>9, <1>10, <1>11, <1>12, <1>13 DEF L

LEMMA ProcRecords ==
    /\ Rep!Idle \in Rep!ProcType
    /\ \A s \in Rep!Schedule \cup {Absent} : [pc |-> "write", sched |-> s] \in Rep!ProcType
    /\ \A j \in Rep!Job \cup {Absent} : [pc |-> "jobwrite", job |-> j] \in Rep!ProcType
    /\ \A w \in {"snap", "repl"} : [pc |-> "sync", which |-> w] \in Rep!ProcType
    /\ \A s \in Rep!Schedule : s.keep > 0 => [pc |-> "take", sched |-> s] \in Rep!ProcType
    /\ \A s \in Rep!Schedule, v \in SUBSET (1..taken) :
          [pc |-> "destroy", sched |-> s, victims |-> v] \in Rep!ProcType
    /\ \A j \in Rep!Job, l \in (SUBSET (1..taken)) \ {{}} :
          /\ [pc |-> "listed", job |-> j, local |-> l] \in Rep!ProcType
          /\ \A r \in {Absent} \cup SUBSET (1..taken) :
                [pc |-> "answered", job |-> j, local |-> l, remote |-> r] \in Rep!ProcType
    /\ \A j \in Rep!Job : [pc |-> "jobsave", job |-> j] \in Rep!ProcType
BY DEF Rep!ProcType

\* The records of the two files, when a field is set.
LEMMA Settable ==
    /\ \A s \in Rep!Schedule, n \in Nat :
          [s EXCEPT !.last = n] \in Rep!Schedule /\ [s EXCEPT !.last = n].keep = s.keep
    /\ \A j \in Rep!Job, t \in {"never", "ok", "error"} : [j EXCEPT !.status = t] \in Rep!Job
BY DEF Rep!Schedule, Rep!Job

\* A snapshot more leaves what the processes know well typed.
LEMMA ProcTypeGrows ==
    ASSUME taken \in Nat, taken' = taken \/ taken' = taken + 1
    PROVE  Rep!ProcType \subseteq Rep!ProcType'
<1>1. 1..taken \subseteq 1..taken'
    OBVIOUS
<1>2. SUBSET (1..taken) \subseteq SUBSET (1..taken')
    BY <1>1
<1> DEFINE Same == {Rep!Idle}
              \cup [pc : {"write"}, sched : Rep!Schedule \cup {Absent}]
              \cup [pc : {"jobwrite"}, job : Rep!Job \cup {Absent}]
              \cup [pc : {"sync"}, which : {"snap", "repl"}]
              \cup [pc : {"take", "prune", "save"}, sched : {s \in Rep!Schedule : s.keep > 0}]
              \cup [pc : {"jobsave"}, job : Rep!Job]
           Destroys(S) == [pc : {"destroy"}, sched : Rep!Schedule, victims : S]
           Lists(S) == [pc : {"listed"}, job : Rep!Job, local : S \ {{}}]
           Answers(S) == [pc : {"answered"}, job : Rep!Job, local : S \ {{}}, remote : {Absent} \cup S]
<1>3. Rep!ProcType = Same \cup Destroys(SUBSET (1..taken)) \cup Lists(SUBSET (1..taken))
                          \cup Answers(SUBSET (1..taken))
    BY Zenon DEF Rep!ProcType
<1>4. Rep!ProcType' = Same \cup Destroys(SUBSET (1..taken')) \cup Lists(SUBSET (1..taken'))
                           \cup Answers(SUBSET (1..taken'))
    BY Zenon DEF Rep!ProcType, Rep!Idle, Rep!Schedule, Rep!Job
<1>5. ASSUME NEW S, NEW Sn, S \subseteq Sn
      PROVE  Destroys(S) \subseteq Destroys(Sn) /\ Lists(S) \subseteq Lists(Sn) /\ Answers(S) \subseteq Answers(Sn)
    BY <1>5
<1> HIDE DEF Same, Destroys, Lists, Answers
<1> QED
    BY <1>2, <1>3, <1>4, <1>5

\* Snapshots have the numbers of the ones taken.
LEMMA Numbers ==
    ASSUME Rep!TypeOK
    PROVE  /\ Rep!Autos \in SUBSET (1..taken) /\ Rep!LocalIds \in SUBSET (1..taken)
           /\ Rep!Autos \subseteq Rep!LocalIds
           /\ IsFiniteSet(Rep!Autos)
<1>1. \A s \in snaps : s.id \in 1..taken
    BY DEF Rep!TypeOK
<1>2. Rep!Autos \in SUBSET (1..taken) /\ Rep!LocalIds \in SUBSET (1..taken)
    BY <1>1 DEF Rep!Autos, Rep!LocalIds
<1>3. IsFiniteSet(1..taken)
    BY FS_Interval DEF Rep!TypeOK
<1>4. Rep!Autos \subseteq Rep!LocalIds
    BY DEF Rep!Autos, Rep!LocalIds
<1> QED
    BY <1>2, <1>3, <1>4, FS_Subset

LEMMA SnapInit == Rep!Init => Rep!IInv
<1> SUFFICES ASSUME Rep!Init
             PROVE  Rep!IInv
    OBVIOUS
<1>1. /\ snaps \in {{}, {[id |-> 1, auto |-> FALSE]}} /\ remote = Absent /\ taken = Rep!Cardinality(snaps)
      /\ pr = [p \in Rep!Procs |-> Rep!Idle] /\ snapClock = 1
      /\ limit = 0 /\ debt = TRUE /\ crossed = FALSE
    BY DEF Rep!Init
<1>2. taken = Cardinality(snaps)
    BY <1>1 DEF Rep!Cardinality, Cardinality
<1>3. taken \in Nat /\ snaps \subseteq [id : 1..taken, auto : BOOLEAN]
    <2>1. CASE snaps = {}
        BY <1>2, <2>1, FS_EmptySet
    <2>2. CASE snaps = {[id |-> 1, auto |-> FALSE]}
        <3>1. taken = 1
            BY <1>2, <2>2, FS_Singleton
        <3> QED
            BY <2>2, <3>1
    <2> QED
        BY <1>1, <2>1, <2>2
<1>4. sched = Absent \/ sched \in Rep!Schedule
    <2>1. sched \in {Absent} \cup [on : {TRUE}, keep : Keeps \ {0}, last : {Rep!Never}]
        BY DEF Rep!Init
    <2>2. Rep!Never \in Nat
        BY DEF Rep!Never
    <2>3. [on : {TRUE}, keep : Keeps \ {0}, last : {Rep!Never}] \subseteq Rep!Schedule
        BY <2>2 DEF Rep!Schedule
    <2> QED
        BY <2>1, <2>3
<1>5. replJob = Absent \/ replJob \in Rep!Job
    BY DEF Rep!Init, Rep!Job
<1>6. replTimer \in [snap : BOOLEAN, repl : BOOLEAN]
    BY DEF Rep!Init
<1>7. pr \in [Rep!Procs -> Rep!ProcType]
    BY <1>1, ProcRecords
<1>8. Rep!TypeOK
    BY <1>1, <1>3, <1>4, <1>5, <1>6, <1>7 DEF Rep!TypeOK
<1>9. \A p \in Rep!Procs : pr[p].pc = "idle"
    BY <1>1 DEF Rep!Idle
<1> QED
    BY <1>1, <1>8, <1>9 DEF Rep!IInv, Rep!Pruned, Rep!OneSender, Rep!KnowsBoth, Rep!Replicating

\* A process goes from one step to the next, the others stay where they are.
LEMMA ProcMoves ==
    ASSUME Rep!TypeOK, NEW p \in Rep!Procs, NEW new, pr' = [pr EXCEPT ![p] = new]
    PROVE  pr'[p] = new /\ \A q \in Rep!Procs \ {p} : pr'[q] = pr[q]
<1>1. DOMAIN pr = Rep!Procs
    BY DEF Rep!TypeOK
<1> QED
    BY <1>1

LEMMA ProcTyped ==
    ASSUME Rep!TypeOK, NEW p \in Rep!Procs, NEW new \in Rep!ProcType', pr' = [pr EXCEPT ![p] = new],
           taken' = taken \/ taken' = taken + 1
    PROVE  pr' \in [Rep!Procs -> Rep!ProcType']
<1>1. pr \in [Rep!Procs -> Rep!ProcType] /\ taken \in Nat
    BY DEF Rep!TypeOK
<1>2. Rep!ProcType \subseteq Rep!ProcType'
    BY <1>1, ProcTypeGrows
<1> DEFINE PT == Rep!ProcType  PTn == Rep!ProcType'
<1> HIDE DEF PT, PTn
<1>3. pr \in [Rep!Procs -> PT] /\ PT \subseteq PTn /\ new \in PTn
    BY <1>1, <1>2 DEF PT, PTn
<1>4. pr' \in [Rep!Procs -> PTn]
    BY <1>3
<1> QED
    BY <1>4 DEF PTn

\* What is left when all that is doomed is destroyed does not grow.
LEMMA PrunedKept ==
    ASSUME Rep!TypeOK, Rep!Pruned,
           ~debt' => ~debt /\ limit' = limit /\ Rep!Autos' \ Rep!Doomed' \subseteq Rep!Autos \ Rep!Doomed
    PROVE  Rep!Pruned'
<1> SUFFICES ASSUME ~debt'
             PROVE  Rep!Cardinality((Rep!Autos \ Rep!Doomed)') <= limit'
    BY DEF Rep!Pruned
<1>1. Rep!Cardinality(Rep!Autos \ Rep!Doomed) <= limit /\ limit' = limit
    BY DEF Rep!Pruned
<1>2. Cardinality(Rep!Autos \ Rep!Doomed) <= limit
    BY <1>1 DEF Rep!Cardinality, Cardinality
<1>3. IsFiniteSet(Rep!Autos \ Rep!Doomed)
    BY Numbers, FS_Subset
<1>4. limit \in Int
    BY KeepsAssumption DEF Rep!TypeOK
<1> DEFINE A == Rep!Autos \ Rep!Doomed  B == Rep!Autos' \ Rep!Doomed'
<1>5. B \subseteq A /\ IsFiniteSet(A) /\ Cardinality(A) <= limit
    BY <1>2, <1>3
<1> HIDE DEF A, B
<1>6. Cardinality(B) <= limit
    BY <1>4, <1>5, FS_Subset, FS_CardinalityType
<1>7. Rep!Cardinality(B) <= limit
    BY <1>6 DEF Rep!Cardinality, Cardinality
<1> QED
    BY <1>1, <1>7 DEF B

\* What the sender knows stays so, when no sender comes and the replica is as it was
\* or gone.
LEMMA SenderKept ==
    ASSUME Rep!TypeOK, Rep!OneSender, Rep!KnowsBoth,
           \A q \in Rep!Procs : Rep!Replicating(q)' => Rep!Replicating(q),
           \A q \in Rep!Procs : pr'[q].pc \in {"listed", "answered"} => pr'[q] = pr[q],
           remote' = remote \/ remote' = Absent,
           Rep!LocalIds' \subseteq Rep!LocalIds \cup {taken + 1}
    PROVE  (Rep!OneSender /\ Rep!KnowsBoth)'
<1>1. Rep!OneSender'
    BY DEF Rep!OneSender
<1>2. ASSUME remote' = Absent
      PROVE  Rep!KnowsBoth'
    BY <1>2 DEF Rep!KnowsBoth
<1>3. ASSUME remote' = remote, remote # Absent
      PROVE  Rep!KnowsBoth'
    <2>1. remote \cap Rep!LocalIds' \subseteq remote \cap Rep!LocalIds
        <3>1. remote \subseteq 1..taken /\ taken \in Nat
            BY <1>3 DEF Rep!TypeOK
        <3>2. taken + 1 \notin remote
            BY <3>1
        <3> QED
            BY <3>2
    <2> QED
        BY <1>3, <2>1 DEF Rep!KnowsBoth
<1> QED
    BY <1>1, <1>2, <1>3

\* Steps that neither make nor drop a snapshot, here or there, and start no replication.
LEMMA SnapQuiet ==
    ASSUME Rep!IInv, NEW p \in Rep!Procs, NEW new \in Rep!ProcType, pr' = [pr EXCEPT ![p] = new],
           new.pc \notin {"destroy", "listed", "answered"},
           new.pc = "jobsave" => Rep!Replicating(p),
           pr[p].pc = "destroy" => debt' \/ pr[p].victims = {},
           UNCHANGED <<snaps, remote, snapClock, taken, limit, crossed>>,
           replTimer' = replTimer \/ replTimer' \in [snap : BOOLEAN, repl : BOOLEAN],
           debt' = debt \/ debt' = TRUE,
           sched' \in Rep!Schedule \cup {Absent}, replJob' \in Rep!Job \cup {Absent}
    PROVE  Rep!IInv'
<1> USE DEF Rep!IInv
<1>1. pr'[p] = new /\ \A q \in Rep!Procs \ {p} : pr'[q] = pr[q]
    BY ProcMoves
<1>2. Rep!ProcType' = Rep!ProcType /\ Rep!Autos' = Rep!Autos /\ Rep!LocalIds' = Rep!LocalIds
    BY DEF Rep!ProcType, Rep!Idle, Rep!Schedule, Rep!Job, Rep!Autos, Rep!LocalIds
<1>3. pr' \in [Rep!Procs -> Rep!ProcType']
    BY <1>2, ProcTyped
<1>4. Rep!TypeOK'
    BY <1>3 DEF Rep!TypeOK, Rep!Schedule, Rep!Job
<1>5. ~debt' => Rep!Doomed \subseteq Rep!Doomed'
    <2> SUFFICES ASSUME ~debt', NEW x \in Rep!Doomed
                 PROVE  x \in Rep!Doomed'
        OBVIOUS
    <2>1. PICK q \in Rep!Procs : pr[q].pc = "destroy" /\ x \in pr[q].victims
        BY DEF Rep!Doomed
    <2>2. q # p
        BY <2>1
    <2>3. pr'[q] = pr[q]
        BY <1>1, <2>2
    <2> QED
        BY <2>1, <2>3 DEF Rep!Doomed
<1>6. Rep!Pruned'
    BY <1>2, <1>5, PrunedKept
<1>7. ASSUME ~crossed'
      PROVE  (Rep!OneSender /\ Rep!KnowsBoth)'
    <2>1. \A q \in Rep!Procs : Rep!Replicating(q)' => Rep!Replicating(q)
        BY <1>1 DEF Rep!Replicating
    <2>2. \A q \in Rep!Procs : pr'[q].pc \in {"listed", "answered"} => pr'[q] = pr[q]
        BY <1>1
    <2> QED
        BY <1>2, <1>7, <2>1, <2>2, SenderKept
<1> QED
    BY <1>4, <1>6, <1>7

LEMMA SnapTake ==
    ASSUME Rep!IInv, NEW p \in Rep!Procs, pr[p].pc = "take",
           pr' = [pr EXCEPT ![p] = [pr[p] EXCEPT !.pc = "prune"]],
           taken' = taken + 1, debt' = TRUE,
           snaps' = snaps \cup {[id |-> taken + 1, auto |-> TRUE]},
           UNCHANGED <<remote, sched, replJob, replTimer, snapClock, limit, crossed>>
    PROVE  Rep!IInv'
<1> USE DEF Rep!IInv
<1> DEFINE new == [pr[p] EXCEPT !.pc = "prune"]
<1>1. new \in Rep!ProcType /\ new.pc = "prune"
    <2>1. pr[p] \in [pc : {"take", "prune", "save"}, sched : {s \in Rep!Schedule : s.keep > 0}]
        BY ProcStates
    <2>2. new \in [pc : {"take", "prune", "save"}, sched : {s \in Rep!Schedule : s.keep > 0}] /\ new.pc = "prune"
        BY <2>1
    <2> QED
        BY <2>2, Zenon DEF Rep!ProcType
<1>2. pr' = [pr EXCEPT ![p] = new]
    OBVIOUS
<1> HIDE DEF new
<1>3. taken \in Nat
    BY DEF Rep!TypeOK
<1>4. pr' \in [Rep!Procs -> Rep!ProcType']
    <2>1. new \in Rep!ProcType'
        BY <1>1, <1>3, ProcTypeGrows
    <2> QED
        BY <1>2, <2>1, ProcTyped
<1>5. pr'[p] = new /\ \A q \in Rep!Procs \ {p} : pr'[q] = pr[q]
    BY <1>2, ProcMoves
<1>6. Rep!TypeOK'
    <2>1. 1..taken \subseteq 1..(taken + 1) /\ taken + 1 \in 1..(taken + 1)
        BY <1>3
    <2>2. snaps \subseteq [id : 1..taken, auto : BOOLEAN]
        BY DEF Rep!TypeOK
    <2>3. snaps \subseteq [id : 1..(taken + 1), auto : BOOLEAN]
        <3> DEFINE I == 1..taken  J == 1..(taken + 1)
        <3>1. I \subseteq J /\ snaps \subseteq [id : I, auto : BOOLEAN]
            BY <2>1, <2>2
        <3> HIDE DEF I, J
        <3>2. snaps \subseteq [id : J, auto : BOOLEAN]
            BY <3>1
        <3> QED
            BY <3>2 DEF J
    <2>4. [id |-> taken + 1, auto |-> TRUE] \in [id : 1..(taken + 1), auto : BOOLEAN]
        BY <2>1
    <2>5. snaps' \subseteq [id : 1..taken', auto : BOOLEAN]
        <3> DEFINE T == [id : 1..(taken + 1), auto : BOOLEAN]  more == [id |-> taken + 1, auto |-> TRUE]
        <3>1. snaps \subseteq T /\ more \in T /\ snaps' = snaps \cup {more}
            BY <2>3, <2>4
        <3> HIDE DEF T, more
        <3>2. snaps' \subseteq T
            BY <3>1
        <3> QED
            BY <3>2 DEF T
    <2>6. remote' = Absent \/ remote' \subseteq 1..taken'
        BY <2>1 DEF Rep!TypeOK
    <2> QED
        BY <1>3, <1>4, <2>5, <2>6 DEF Rep!TypeOK, Rep!Schedule, Rep!Job
<1>7. Rep!Pruned'
    BY DEF Rep!Pruned
<1>8. ASSUME ~crossed'
      PROVE  (Rep!OneSender /\ Rep!KnowsBoth)'
    <2>1. \A q \in Rep!Procs : Rep!Replicating(q)' => Rep!Replicating(q)
        BY <1>1, <1>5 DEF Rep!Replicating
    <2>2. \A q \in Rep!Procs : pr'[q].pc \in {"listed", "answered"} => pr'[q] = pr[q]
        BY <1>1, <1>5
    <2>3. Rep!LocalIds' \subseteq Rep!LocalIds \cup {taken + 1}
        BY DEF Rep!LocalIds
    <2> QED
        BY <1>8, <2>1, <2>2, <2>3, SenderKept
<1> QED
    BY <1>6, <1>7, <1>8

\* The list of what to destroy leaves as many as the keep count allows.
LEMMA SnapList ==
    ASSUME Rep!IInv, NEW p \in Rep!Procs, Rep!ListAutosnaps(p)
    PROVE  Rep!IInv'
<1> USE DEF Rep!IInv
<1> PICK listed \in BOOLEAN :
        /\ Rep!Goto(p, [pc |-> "destroy", sched |-> pr[p].sched,
                        victims |-> IF listed THEN Rep!Surplus(pr[p].sched.keep) ELSE {}])
        /\ limit' = IF listed THEN pr[p].sched.keep ELSE limit
        /\ debt' = ~listed
    BY DEF Rep!ListAutosnaps
<1> DEFINE keep == pr[p].sched.keep
           victims == IF listed THEN Rep!Surplus(keep) ELSE {}
           new == [pc |-> "destroy", sched |-> pr[p].sched, victims |-> victims]
<1>1. /\ pr[p].pc = "prune" /\ pr' = [pr EXCEPT ![p] = new]
      /\ limit' = (IF listed THEN keep ELSE limit) /\ debt' = ~listed
      /\ UNCHANGED <<snaps, remote, sched, replJob, replTimer, snapClock, taken, crossed>>
    BY DEF Rep!ListAutosnaps, Rep!Goto, Rep!bounds
<1>2. pr[p].sched \in Rep!Schedule /\ keep > 0 /\ keep \in Keeps /\ keep \in Nat
    <2>1. pr[p].sched \in Rep!Schedule /\ pr[p].sched.keep > 0
        BY <1>1, ProcStates
    <2> QED
        BY <2>1, KeepsAssumption DEF Rep!Schedule
<1>3. victims \in SUBSET (1..taken)
    <2>1. victims \subseteq Rep!Autos
        BY DEF Rep!Surplus
    <2> QED
        BY <2>1, Numbers
<1>4. new \in Rep!ProcType
    BY <1>2, <1>3, ProcRecords
<1>5. new.pc = "destroy" /\ new.victims = victims
    OBVIOUS
<1> HIDE DEF new
<1>6. pr'[p] = new /\ \A q \in Rep!Procs \ {p} : pr'[q] = pr[q]
    BY <1>1, ProcMoves
<1>7. Rep!ProcType' = Rep!ProcType /\ Rep!Autos' = Rep!Autos /\ Rep!LocalIds' = Rep!LocalIds
    BY <1>1 DEF Rep!ProcType, Rep!Idle, Rep!Schedule, Rep!Job, Rep!Autos, Rep!LocalIds
<1>8. pr' \in [Rep!Procs -> Rep!ProcType']
    BY <1>1, <1>4, <1>7, ProcTyped
<1>9. Rep!TypeOK'
    BY <1>1, <1>2, <1>8 DEF Rep!TypeOK, Rep!Schedule, Rep!Job
<1>10. Rep!Pruned'
    <2> SUFFICES ASSUME listed PROVE Rep!Pruned'
        BY <1>1 DEF Rep!Pruned
    <2>1. victims \subseteq Rep!Doomed'
        <3>1. p \in {q \in Rep!Procs : pr'[q].pc = "destroy"} /\ pr'[p].victims = victims
            BY <1>5, <1>6
        <3> HIDE DEF victims
        <3> QED
            BY <3>1 DEF Rep!Doomed
    <2> DEFINE K == Rep!Autos \ Rep!Doomed'
    <2>2. \A i \in K : ~(Cardinality({j \in Rep!Autos : j > i}) >= keep)
        <3>1. \A i \in K : i \in Rep!Autos /\ i \notin victims
            BY <2>1
        <3>2. \A i \in Rep!Autos : Cardinality({j \in Rep!Autos : j > i}) >= keep => i \in victims
            BY <1>2 DEF Rep!Surplus, Rep!Newer, Rep!Cardinality, Cardinality
        <3> QED
            BY <3>1, <3>2
    <2>3. K \in SUBSET Rep!Autos /\ Rep!Autos \in SUBSET (1..taken) /\ taken \in Nat
        BY Numbers DEF Rep!TypeOK
    <2> HIDE DEF K, keep
    <2>4. Cardinality(K) <= keep
        BY <1>2, <2>2, <2>3, Newest
    <2>5. Rep!Cardinality(K) <= keep
        BY <2>4 DEF Rep!Cardinality, Cardinality
    <2> QED
        BY <1>1, <1>7, <2>5 DEF Rep!Pruned, K
<1>11. ASSUME ~crossed'
       PROVE  (Rep!OneSender /\ Rep!KnowsBoth)'
    <2>1. \A q \in Rep!Procs : Rep!Replicating(q)' => Rep!Replicating(q)
        BY <1>5, <1>6 DEF Rep!Replicating
    <2>2. \A q \in Rep!Procs : pr'[q].pc \in {"listed", "answered"} => pr'[q] = pr[q]
        BY <1>5, <1>6
    <2> QED
        BY <1>1, <1>7, <1>11, <2>1, <2>2, SenderKept
<1> QED
    BY <1>9, <1>10, <1>11

LEMMA SnapDestroy ==
    ASSUME Rep!IInv, NEW p \in Rep!Procs, Rep!DestroySnapshot(p)
    PROVE  Rep!IInv'
<1> USE DEF Rep!IInv
<1> DEFINE v == Rep!Min(pr[p].victims)
           new == [pr[p] EXCEPT !.victims = @ \ {v}]
<1>1. /\ pr[p].pc = "destroy" /\ pr' = [pr EXCEPT ![p] = new]
      /\ UNCHANGED <<remote, sched, replJob, replTimer, snapClock, taken, limit, crossed>>
      /\ \/ snaps' = {s \in snaps : s.id # v} /\ debt' = debt
         \/ snaps' = snaps /\ debt' = TRUE
    BY DEF Rep!DestroySnapshot, Rep!Goto, Rep!bounds
<1>2. /\ new \in [pc : {"destroy"}, sched : Rep!Schedule, victims : SUBSET (1..taken)]
      /\ new.pc = "destroy" /\ new.victims = pr[p].victims \ {v}
    <2>1. pr[p] \in [pc : {"destroy"}, sched : Rep!Schedule, victims : SUBSET (1..taken)]
        BY <1>1, ProcStates
    <2> HIDE DEF v
    <2> QED
        BY <2>1
<1>3. new \in Rep!ProcType
    BY <1>2, Zenon DEF Rep!ProcType
<1> HIDE DEF new, v
<1>4. pr'[p] = new /\ \A q \in Rep!Procs \ {p} : pr'[q] = pr[q]
    BY <1>1, ProcMoves
<1>5. Rep!ProcType' = Rep!ProcType
    BY <1>1 DEF Rep!ProcType, Rep!Idle, Rep!Schedule, Rep!Job
<1>6. pr' \in [Rep!Procs -> Rep!ProcType']
    BY <1>1, <1>3, <1>5, ProcTyped
<1>7. snaps' \subseteq snaps
    BY <1>1
<1>8. Rep!TypeOK'
    BY <1>1, <1>6, <1>7 DEF Rep!TypeOK, Rep!Schedule, Rep!Job
<1>9. Rep!Autos' \subseteq Rep!Autos /\ Rep!LocalIds' \subseteq Rep!LocalIds
    BY <1>7 DEF Rep!Autos, Rep!LocalIds
<1>10. ~debt' => Rep!Autos' \ Rep!Doomed' \subseteq Rep!Autos \ Rep!Doomed
    <2> SUFFICES ASSUME ~debt', NEW x \in Rep!Autos', x \notin Rep!Doomed', x \in Rep!Doomed
                 PROVE  FALSE
        BY <1>9
    <2>1. snaps' = {s \in snaps : s.id # v}
        BY <1>1
    <2>2. x # v
        BY <2>1 DEF Rep!Autos
    <2>3. PICK q \in Rep!Procs : pr[q].pc = "destroy" /\ x \in pr[q].victims
        BY DEF Rep!Doomed
    <2>4. pr'[q].pc = "destroy" /\ x \in pr'[q].victims
        BY <1>2, <1>4, <2>2, <2>3
    <2>5. x \in Rep!Doomed'
        BY <2>4 DEF Rep!Doomed
    <2> QED
        BY <2>5
<1>11. Rep!Pruned'
    BY <1>1, <1>10, PrunedKept
<1>12. ASSUME ~crossed'
       PROVE  (Rep!OneSender /\ Rep!KnowsBoth)'
    <2>1. \A q \in Rep!Procs : Rep!Replicating(q)' => Rep!Replicating(q)
        BY <1>2, <1>4 DEF Rep!Replicating
    <2>2. \A q \in Rep!Procs : pr'[q].pc \in {"listed", "answered"} => pr'[q] = pr[q]
        BY <1>2, <1>4
    <2> QED
        BY <1>1, <1>9, <1>12, <2>1, <2>2, SenderKept
<1> QED
    BY <1>8, <1>11, <1>12

LEMMA SnapReplicate ==
    ASSUME Rep!IInv, NEW p \in Rep!Procs, Rep!Replicate(p)
    PROVE  Rep!IInv'
<1> USE DEF Rep!IInv
<1>1. /\ pr[p].pc = "idle" /\ replJob # Absent
      /\ UNCHANGED <<snaps, remote, sched, replJob, replTimer, snapClock, taken, limit, debt>>
      /\ crossed' = (crossed \/ \E o \in Rep!Procs \ {p} : Rep!Replicating(o))
    BY DEF Rep!Replicate, Rep!Begin
<1>2. PICK new \in Rep!ProcType :
          /\ pr' = [pr EXCEPT ![p] = new]
          /\ \/ new.pc = "jobsave"
             \/ new.pc = "listed" /\ new.local = Rep!LocalIds
    <2>0. replJob \in Rep!Job
        BY <1>1 DEF Rep!TypeOK
    <2>1. CASE snaps = {}
        <3> DEFINE next == [pc |-> "jobsave", job |-> [replJob EXCEPT !.status = "error"]]
        <3>1. pr' = [pr EXCEPT ![p] = next]
            BY <2>1 DEF Rep!Replicate, Rep!Begin, Rep!Goto
        <3>2. next \in Rep!ProcType /\ next.pc = "jobsave"
            BY <2>0, Settable, ProcRecords
        <3> HIDE DEF next
        <3> QED
            BY <3>1, <3>2
    <2>2. CASE snaps # {}
        <3> DEFINE next == [pc |-> "listed", job |-> replJob, local |-> Rep!LocalIds]
        <3>1. pr' = [pr EXCEPT ![p] = next]
            BY <2>2 DEF Rep!Replicate, Rep!Begin, Rep!Goto
        <3>2. Rep!LocalIds \in (SUBSET (1..taken)) \ {{}}
            <4>1. PICK s \in snaps : TRUE
                BY <2>2
            <4>2. s.id \in Rep!LocalIds
                BY DEF Rep!LocalIds
            <4> QED
                BY <4>2, Numbers
        <3>3. next \in Rep!ProcType
            BY <2>0, <3>2, ProcRecords
        <3>4. next.pc = "listed" /\ next.local = Rep!LocalIds
            OBVIOUS
        <3> HIDE DEF next
        <3> QED
            BY <3>1, <3>3, <3>4
    <2> QED
        BY <2>1, <2>2
<1>3. pr'[p] = new /\ \A q \in Rep!Procs \ {p} : pr'[q] = pr[q]
    BY <1>2, ProcMoves
<1>4. Rep!ProcType' = Rep!ProcType /\ Rep!Autos' = Rep!Autos /\ Rep!LocalIds' = Rep!LocalIds
    BY <1>1 DEF Rep!ProcType, Rep!Idle, Rep!Schedule, Rep!Job, Rep!Autos, Rep!LocalIds
<1>5. pr' \in [Rep!Procs -> Rep!ProcType']
    BY <1>1, <1>2, <1>4, ProcTyped
<1>6. crossed' \in BOOLEAN
    BY <1>1
<1>7. Rep!TypeOK'
    BY <1>1, <1>5, <1>6 DEF Rep!TypeOK, Rep!Schedule, Rep!Job
<1>8. Rep!Doomed \subseteq Rep!Doomed'
    <2> SUFFICES ASSUME NEW x \in Rep!Doomed
                 PROVE  x \in Rep!Doomed'
        OBVIOUS
    <2>1. PICK q \in Rep!Procs : pr[q].pc = "destroy" /\ x \in pr[q].victims
        BY DEF Rep!Doomed
    <2>2. pr'[q] = pr[q]
        BY <1>1, <1>3, <2>1
    <2> QED
        BY <2>1, <2>2 DEF Rep!Doomed
<1>9. Rep!Pruned'
    BY <1>1, <1>4, <1>8, PrunedKept
<1>10. ASSUME ~crossed'
       PROVE  (Rep!OneSender /\ Rep!KnowsBoth)'
    <2>1. \A q \in Rep!Procs \ {p} : ~Rep!Replicating(q)
        BY <1>1, <1>10
    <2>2. \A q \in Rep!Procs \ {p} : pr'[q].pc \notin {"listed", "answered", "jobsave"}
        BY <1>3, <2>1 DEF Rep!Replicating
    <2>3. Rep!OneSender'
        BY <2>2 DEF Rep!OneSender, Rep!Replicating
    <2>4. Rep!KnowsBoth'
        BY <1>1, <1>2, <1>3, <1>4, <2>2 DEF Rep!KnowsBoth
    <2> QED
        BY <2>3, <2>4
<1> QED
    BY <1>7, <1>9, <1>10

\* The other host answers with what it has.
LEMMA SnapAnswered ==
    ASSUME Rep!IInv, NEW p \in Rep!Procs, pr[p].pc = "listed",
           pr' = [pr EXCEPT ![p] = [pc |-> "answered", job |-> pr[p].job, local |-> pr[p].local,
                                    remote |-> remote]],
           UNCHANGED <<snaps, remote, sched, replJob, replTimer, snapClock, taken, limit, debt, crossed>>
    PROVE  Rep!IInv'
<1> USE DEF Rep!IInv
<1> DEFINE new == [pc |-> "answered", job |-> pr[p].job, local |-> pr[p].local, remote |-> remote]
<1>1. pr' = [pr EXCEPT ![p] = new]
    OBVIOUS
<1>2. new \in Rep!ProcType
    <2>1. /\ pr[p].job \in Rep!Job /\ pr[p].local \in (SUBSET (1..taken)) \ {{}}
          /\ remote \in {Absent} \cup SUBSET (1..taken)
        BY ProcStates DEF Rep!TypeOK
    <2> QED
        BY <2>1, ProcRecords
<1>3. new.pc = "answered" /\ new.local = pr[p].local /\ new.remote = remote
    OBVIOUS
<1> HIDE DEF new
<1>4. pr'[p] = new /\ \A q \in Rep!Procs \ {p} : pr'[q] = pr[q]
    BY <1>1, ProcMoves
<1>5. Rep!ProcType' = Rep!ProcType /\ Rep!Autos' = Rep!Autos /\ Rep!LocalIds' = Rep!LocalIds
    BY DEF Rep!ProcType, Rep!Idle, Rep!Schedule, Rep!Job, Rep!Autos, Rep!LocalIds
<1>6. pr' \in [Rep!Procs -> Rep!ProcType']
    BY <1>1, <1>2, <1>5, ProcTyped
<1>7. Rep!TypeOK'
    BY <1>6 DEF Rep!TypeOK, Rep!Schedule, Rep!Job
<1>8. Rep!Doomed \subseteq Rep!Doomed'
    <2> SUFFICES ASSUME NEW x \in Rep!Doomed
                 PROVE  x \in Rep!Doomed'
        OBVIOUS
    <2>1. PICK q \in Rep!Procs : pr[q].pc = "destroy" /\ x \in pr[q].victims
        BY DEF Rep!Doomed
    <2>2. pr'[q] = pr[q]
        BY <1>4, <2>1
    <2> QED
        BY <2>1, <2>2 DEF Rep!Doomed
<1>9. Rep!Pruned'
    BY <1>5, <1>8, PrunedKept
<1>10. ASSUME ~crossed'
       PROVE  (Rep!OneSender /\ Rep!KnowsBoth)'
    <2>1. Rep!OneSender'
        BY <1>3, <1>4, <1>10 DEF Rep!OneSender, Rep!Replicating
    <2>2. Rep!KnowsBoth'
        BY <1>3, <1>4, <1>5, <1>10 DEF Rep!KnowsBoth
    <2> QED
        BY <2>1, <2>2
<1> QED
    BY <1>7, <1>9, <1>10

\* What a transfer leaves on the replica, whole or broken.
LEMMA SnapArrives ==
    ASSUME Rep!IInv, NEW p \in Rep!Procs, pr[p].pc = "answered", NEW t \in {"never", "ok", "error"},
           pr' = [pr EXCEPT ![p] = [pc |-> "jobsave", job |-> [pr[p].job EXCEPT !.status = t]]],
           remote' \subseteq 1..taken,
           UNCHANGED <<snaps, sched, replJob, replTimer, snapClock, taken, limit, debt, crossed>>
    PROVE  Rep!IInv'
<1> USE DEF Rep!IInv
<1> DEFINE new == [pc |-> "jobsave", job |-> [pr[p].job EXCEPT !.status = t]]
<1>1. pr' = [pr EXCEPT ![p] = new] /\ new.pc = "jobsave"
    OBVIOUS
<1>2. new \in Rep!ProcType
    <2>1. pr[p].job \in Rep!Job
        BY ProcStates
    <2>2. [pr[p].job EXCEPT !.status = t] \in Rep!Job
        BY <2>1, Settable
    <2> QED
        BY <2>2, ProcRecords
<1> HIDE DEF new
<1>3. pr'[p] = new /\ \A q \in Rep!Procs \ {p} : pr'[q] = pr[q]
    BY <1>1, ProcMoves
<1>4. Rep!ProcType' = Rep!ProcType /\ Rep!Autos' = Rep!Autos /\ Rep!LocalIds' = Rep!LocalIds
    BY DEF Rep!ProcType, Rep!Idle, Rep!Schedule, Rep!Job, Rep!Autos, Rep!LocalIds
<1>5. pr' \in [Rep!Procs -> Rep!ProcType']
    BY <1>1, <1>2, <1>4, ProcTyped
<1>6. Rep!TypeOK'
    BY <1>5 DEF Rep!TypeOK, Rep!Schedule, Rep!Job
<1>7. Rep!Doomed \subseteq Rep!Doomed'
    <2> SUFFICES ASSUME NEW x \in Rep!Doomed
                 PROVE  x \in Rep!Doomed'
        OBVIOUS
    <2>1. PICK q \in Rep!Procs : pr[q].pc = "destroy" /\ x \in pr[q].victims
        BY DEF Rep!Doomed
    <2>2. pr'[q] = pr[q]
        BY <1>3, <2>1
    <2> QED
        BY <2>1, <2>2 DEF Rep!Doomed
<1>8. Rep!Pruned'
    BY <1>4, <1>7, PrunedKept
<1>9. ASSUME ~crossed'
      PROVE  (Rep!OneSender /\ Rep!KnowsBoth)'
    <2>1. \A q \in Rep!Procs \ {p} : ~Rep!Replicating(q)
        BY <1>9 DEF Rep!OneSender, Rep!Replicating
    <2>2. \A q \in Rep!Procs : pr'[q].pc \notin {"listed", "answered"}
        BY <1>1, <1>3, <2>1 DEF Rep!Replicating
    <2>3. Rep!OneSender'
        BY <1>1, <1>3, <1>9 DEF Rep!OneSender, Rep!Replicating
    <2>4. Rep!KnowsBoth'
        BY <2>2 DEF Rep!KnowsBoth
    <2> QED
        BY <2>3, <2>4
<1> QED
    BY <1>6, <1>8, <1>9

\* What a transfer works with.
LEMMA Transferred ==
    ASSUME Rep!TypeOK, NEW p \in Rep!Procs, pr[p].pc = "answered", Rep!Full(p) \/ Rep!Increment(p)
    PROVE  /\ Rep!Kept(p) \subseteq 1..taken /\ Rep!Sent(p) \subseteq 1..taken
           /\ Rep!Increment(p) => \A x \in Rep!Common(p) : x <= Rep!Base(p)
<1>1. Rep!LocalIds \subseteq 1..taken /\ taken \in Nat
    BY Numbers DEF Rep!TypeOK
<1>2. Rep!Kept(p) \subseteq 1..taken
    <2>1. ~Rep!Full(p) => remote \subseteq 1..taken
        BY DEF Rep!Increment, Rep!TypeOK
    <2> QED
        BY <1>1, <2>1 DEF Rep!Kept
<1>3. Rep!Sent(p) \subseteq 1..taken
    BY <1>1 DEF Rep!Sent, Rep!Full
<1>4. ASSUME Rep!Increment(p)
      PROVE  \A x \in Rep!Common(p) : x <= Rep!Base(p)
    <2>1. pr[p].local \in SUBSET (1..taken)
        BY ProcStates
    <2>2. Rep!Common(p) \in SUBSET (1..taken) /\ Rep!Common(p) # {}
        BY <1>4, <2>1 DEF Rep!Common, Rep!Increment
    <2> QED
        BY <1>1, <2>2, Greatest DEF Rep!Base
<1> QED
    BY <1>2, <1>3, <1>4

\* A transfer takes nothing from the replica that the source still has.
LEMMA TransferKeeps ==
    ASSUME Rep!IInv, ~crossed, remote # Absent, NEW p \in Rep!Procs, pr[p].pc = "answered",
           Rep!Full(p) \/ Rep!Increment(p)
    PROVE  remote \cap Rep!LocalIds \subseteq Rep!Kept(p)
<1>1. /\ remote \cap Rep!LocalIds \subseteq pr[p].local
      /\ remote = pr[p].remote
    BY DEF Rep!IInv, Rep!KnowsBoth
<1>2. ~Rep!Full(p)
    BY <1>1 DEF Rep!Full
<1>3. \A x \in Rep!Common(p) : x <= Rep!Base(p)
    BY <1>2, Transferred DEF Rep!IInv
<1>4. remote \cap Rep!LocalIds \subseteq Rep!Common(p)
    BY <1>1 DEF Rep!Common
<1> QED
    BY <1>2, <1>3, <1>4 DEF Rep!Kept

\* The requests of the web and the tick of the schedule begin.
LEMMA SnapBegin ==
    ASSUME Rep!IInv, NEW p \in Rep!Procs, NEW new \in Rep!ProcType, Rep!Begin(p, new),
           new.pc \in {"write", "jobwrite", "take"},
           UNCHANGED <<snaps, remote, sched, replJob, replTimer, snapClock, taken, limit, debt, crossed>>
    PROVE  Rep!IInv'
<1>1. pr[p].pc = "idle" /\ pr' = [pr EXCEPT ![p] = new]
    BY DEF Rep!Begin, Rep!Goto
<1>2. sched' \in Rep!Schedule \cup {Absent} /\ replJob' \in Rep!Job \cup {Absent}
    BY DEF Rep!IInv, Rep!TypeOK
<1> QED
    BY <1>1, <1>2, SnapQuiet

LEMMA SnapRequested ==
    ASSUME Rep!IInv, Rep!SchedSave \/ Rep!SchedDelete \/ Rep!AutosnapTick \/ Rep!SchedRun
                     \/ Rep!JobSave \/ Rep!JobDelete
    PROVE  Rep!IInv'
<1>1. UNCHANGED <<snaps, remote, sched, replJob, replTimer, snapClock, taken, limit, debt, crossed>>
    BY DEF Rep!SchedSave, Rep!SchedDelete, Rep!AutosnapTick, Rep!SchedRun, Rep!JobSave, Rep!JobDelete,
           Rep!history
<1>2. "web" \in Rep!Procs /\ "snaptick" \in Rep!Procs
    BY DEF Rep!Procs
<1>3. /\ sched = Absent \/ sched \in Rep!Schedule
      /\ replJob = Absent \/ replJob \in Rep!Job
      /\ snapClock \in Nat
    BY DEF Rep!IInv, Rep!TypeOK
<1>4. ASSUME Rep!SchedSave
      PROVE  \E new \in Rep!ProcType : new.pc = "write" /\ Rep!Begin("web", new)
    <2>1. PICK on \in BOOLEAN, keep \in Keeps : Rep!Begin("web", [pc |-> "write", sched |->
              [on |-> on, keep |-> keep, last |-> IF sched = Absent THEN Rep!Never ELSE sched.last]])
        BY <1>4 DEF Rep!SchedSave
    <2> DEFINE entry == [on |-> on, keep |-> keep, last |-> IF sched = Absent THEN Rep!Never ELSE sched.last]
               new == [pc |-> "write", sched |-> entry]
    <2>2. entry \in Rep!Schedule
        BY <1>3 DEF Rep!Schedule, Rep!Never
    <2> HIDE DEF entry
    <2>3. new \in Rep!ProcType /\ new.pc = "write"
        BY <2>2, ProcRecords
    <2> QED
        BY <2>1, <2>3 DEF entry
<1>5. ASSUME Rep!SchedDelete
      PROVE  \E new \in Rep!ProcType : new.pc = "write" /\ Rep!Begin("web", new)
    <2> DEFINE new == [pc |-> "write", sched |-> Absent]
    <2>1. new \in Rep!ProcType /\ new.pc = "write"
        BY ProcRecords
    <2> QED
        BY <1>5, <2>1 DEF Rep!SchedDelete
<1>6. ASSUME Rep!AutosnapTick \/ Rep!SchedRun
      PROVE  \E p \in Rep!Procs, new \in Rep!ProcType : new.pc = "take" /\ Rep!Begin(p, new)
    <2> DEFINE new == [pc |-> "take", sched |-> [sched EXCEPT !.last = snapClock]]
    <2>1. sched \in Rep!Schedule /\ sched.keep > 0
        BY <1>3, <1>6 DEF Rep!AutosnapTick, Rep!SchedRun, Rep!SchedActive
    <2>2. [sched EXCEPT !.last = snapClock] \in Rep!Schedule /\ [sched EXCEPT !.last = snapClock].keep > 0
        BY <1>3, <2>1, Settable
    <2>3. new \in Rep!ProcType /\ new.pc = "take"
        BY <2>2, ProcRecords
    <2>4. Rep!Begin("web", new) \/ Rep!Begin("snaptick", new)
        BY <1>6 DEF Rep!AutosnapTick, Rep!SchedRun
    <2> HIDE DEF new
    <2> QED
        BY <1>2, <2>3, <2>4
<1>7. ASSUME Rep!JobSave
      PROVE  \E new \in Rep!ProcType : new.pc = "jobwrite" /\ Rep!Begin("web", new)
    <2>1. PICK on \in BOOLEAN, rec \in BOOLEAN : Rep!Begin("web", [pc |-> "jobwrite", job |->
              [on |-> on, recursive |-> rec, status |-> IF replJob = Absent THEN "never" ELSE replJob.status]])
        BY <1>7 DEF Rep!JobSave
    <2> DEFINE entry == [on |-> on, recursive |-> rec,
                         status |-> IF replJob = Absent THEN "never" ELSE replJob.status]
               new == [pc |-> "jobwrite", job |-> entry]
    <2>2. entry \in Rep!Job
        BY <1>3 DEF Rep!Job
    <2> HIDE DEF entry
    <2>3. new \in Rep!ProcType /\ new.pc = "jobwrite"
        BY <2>2, ProcRecords
    <2> QED
        BY <2>1, <2>3 DEF entry
<1>8. ASSUME Rep!JobDelete
      PROVE  \E new \in Rep!ProcType : new.pc = "jobwrite" /\ Rep!Begin("web", new)
    <2> DEFINE new == [pc |-> "jobwrite", job |-> Absent]
    <2>1. new \in Rep!ProcType /\ new.pc = "jobwrite"
        BY ProcRecords
    <2> QED
        BY <1>8, <2>1 DEF Rep!JobDelete
<1>9. \E p \in Rep!Procs, new \in Rep!ProcType :
          new.pc \in {"write", "jobwrite", "take"} /\ Rep!Begin(p, new)
    BY <1>2, <1>4, <1>5, <1>6, <1>7, <1>8
<1> QED
    BY <1>1, <1>9, SnapBegin

\* What the web and the ticks write, and what a process that dies leaves.
LEMMA SnapWrites ==
    ASSUME Rep!IInv, Rep!SchedWrite \/ Rep!JobWrite \/ Rep!SyncTimer
    PROVE  Rep!IInv'
<1>1. "web" \in Rep!Procs
    BY DEF Rep!Procs
<1>2. /\ sched \in Rep!Schedule \cup {Absent} /\ replJob \in Rep!Job \cup {Absent}
      /\ replTimer \in [snap : BOOLEAN, repl : BOOLEAN]
      /\ Rep!TypeOK
    BY DEF Rep!IInv, Rep!TypeOK
<1>3. ASSUME Rep!SchedWrite
      PROVE  Rep!IInv'
    <2> DEFINE new == [pc |-> "sync", which |-> "snap"]
    <2>1. /\ pr["web"].pc = "write" /\ sched' = pr["web"].sched /\ pr' = [pr EXCEPT !["web"] = new]
          /\ UNCHANGED <<snaps, remote, replJob, replTimer, snapClock, taken, limit, debt, crossed>>
        BY <1>3 DEF Rep!SchedWrite, Rep!Goto, Rep!bounds, Rep!history
    <2>2. new \in Rep!ProcType /\ new.pc = "sync"
        BY ProcRecords
    <2>3. sched' \in Rep!Schedule \cup {Absent}
        BY <1>1, <1>2, <2>1, ProcStates
    <2> HIDE DEF new
    <2> QED
        BY <1>1, <1>2, <2>1, <2>2, <2>3, SnapQuiet
<1>4. ASSUME Rep!JobWrite
      PROVE  Rep!IInv'
    <2> DEFINE new == [pc |-> "sync", which |-> "repl"]
    <2>1. /\ pr["web"].pc = "jobwrite" /\ replJob' = pr["web"].job /\ pr' = [pr EXCEPT !["web"] = new]
          /\ UNCHANGED <<snaps, remote, sched, replTimer, snapClock, taken, limit, debt, crossed>>
        BY <1>4 DEF Rep!JobWrite, Rep!Goto, Rep!bounds, Rep!history
    <2>2. new \in Rep!ProcType /\ new.pc = "sync"
        BY ProcRecords
    <2>3. replJob' \in Rep!Job \cup {Absent}
        BY <1>1, <1>2, <2>1, ProcStates
    <2> HIDE DEF new
    <2> QED
        BY <1>1, <1>2, <2>1, <2>2, <2>3, SnapQuiet
<1>5. ASSUME Rep!SyncTimer
      PROVE  Rep!IInv'
    <2> DEFINE on == IF pr["web"].which = "snap" THEN Rep!SchedActive ELSE Rep!JobActive
    <2>1. /\ pr["web"].pc = "sync" /\ pr' = [pr EXCEPT !["web"] = Rep!Idle]
          /\ replTimer' = [replTimer EXCEPT ![pr["web"].which] = on]
          /\ UNCHANGED <<snaps, remote, sched, replJob, snapClock, taken, limit, debt, crossed>>
        BY <1>5 DEF Rep!SyncTimer, Rep!Goto, Rep!bounds, Rep!history
    <2>2. on \in BOOLEAN
        <3>1. /\ sched # Absent => sched.on \in BOOLEAN
              /\ replJob # Absent => replJob.on \in BOOLEAN
            BY <1>2 DEF Rep!Schedule, Rep!Job
        <3> QED
            BY <3>1 DEF Rep!SchedActive, Rep!JobActive
    <2> HIDE DEF on
    <2>3. replTimer' \in [snap : BOOLEAN, repl : BOOLEAN]
        <3>1. pr["web"].which \in {"snap", "repl"}
            BY <1>1, <1>2, <2>1, ProcStates
        <3> QED
            BY <1>2, <2>1, <2>2, <3>1
    <2>4. Rep!Idle \in Rep!ProcType /\ Rep!Idle.pc = "idle"
        BY ProcRecords DEF Rep!Idle
    <2> QED
        BY <1>1, <1>2, <2>1, <2>3, <2>4, SnapQuiet
<1> QED
    BY <1>3, <1>4, <1>5

\* A process saves what it loaded, or dies.
LEMMA SnapSaves ==
    ASSUME Rep!IInv, NEW p \in Rep!Procs, Rep!SaveSchedule(p) \/ Rep!SaveJob(p) \/ Rep!Dies(p)
    PROVE  Rep!IInv'
<1>1. /\ sched \in Rep!Schedule \cup {Absent} /\ replJob \in Rep!Job \cup {Absent}
      /\ Rep!TypeOK
    BY DEF Rep!IInv, Rep!TypeOK
<1>2. Rep!Idle \in Rep!ProcType /\ Rep!Idle.pc = "idle"
    BY ProcRecords DEF Rep!Idle
<1>3. /\ pr' = [pr EXCEPT ![p] = Rep!Idle]
      /\ UNCHANGED <<snaps, remote, replTimer, snapClock, taken, limit, crossed>>
    BY DEF Rep!SaveSchedule, Rep!SaveJob, Rep!Dies, Rep!Goto, Rep!bounds, Rep!history
<1>4. ASSUME Rep!SaveSchedule(p)
      PROVE  Rep!IInv'
    <2>1. /\ pr[p].pc = "save" \/ (pr[p].pc = "destroy" /\ pr[p].victims = {})
          /\ sched' = pr[p].sched /\ replJob' = replJob /\ debt' = debt
        BY <1>4 DEF Rep!SaveSchedule, Rep!history
    <2>2. sched' \in Rep!Schedule
        BY <1>1, <2>1, ProcStates
    <2> QED
        BY <1>1, <1>2, <1>3, <2>1, <2>2, SnapQuiet
<1>5. ASSUME Rep!SaveJob(p)
      PROVE  Rep!IInv'
    <2>1. /\ pr[p].pc = "jobsave" /\ replJob' = pr[p].job /\ sched' = sched /\ debt' = debt
        BY <1>5 DEF Rep!SaveJob, Rep!history
    <2>2. replJob' \in Rep!Job
        BY <1>1, <2>1, ProcStates
    <2> QED
        BY <1>1, <1>2, <1>3, <2>1, <2>2, SnapQuiet
<1>6. ASSUME Rep!Dies(p)
      PROVE  Rep!IInv'
    <2>1. /\ debt' = (debt \/ pr[p].pc = "destroy") /\ sched' = sched /\ replJob' = replJob
        BY <1>6 DEF Rep!Dies
    <2>2. debt \in BOOLEAN
        BY <1>1 DEF Rep!TypeOK
    <2>3. (debt' = debt \/ debt' = TRUE) /\ (pr[p].pc = "destroy" => debt')
        BY <2>1, <2>2
    <2> QED
        BY <1>1, <1>2, <1>3, <2>1, <2>3, SnapQuiet
<1> QED
    BY <1>4, <1>5, <1>6

\* A snapshot that comes, or fails.
LEMMA SnapTaken ==
    ASSUME Rep!IInv, NEW p \in Rep!Procs, Rep!TakeSnapshot(p)
    PROVE  Rep!IInv'
<1>1. /\ pr[p].pc = "take"
      /\ UNCHANGED <<remote, sched, replJob, replTimer, snapClock, limit, crossed>>
    BY DEF Rep!TakeSnapshot
<1>2. CASE taken' = taken + 1
    <2>1. /\ taken' = taken + 1 /\ debt' = TRUE
          /\ snaps' = snaps \cup {[id |-> taken + 1, auto |-> TRUE]}
          /\ pr' = [pr EXCEPT ![p] = [pr[p] EXCEPT !.pc = "prune"]]
        <3>1. taken \in Nat
            BY DEF Rep!IInv, Rep!TypeOK
        <3>2. taken' # taken
            BY <1>2, <3>1
        <3> QED
            BY <3>2 DEF Rep!TakeSnapshot, Rep!Goto
    <2> QED
        BY <1>1, <2>1, SnapTake
<1>3. CASE taken' # taken + 1
    <2> DEFINE new == [pr[p] EXCEPT !.pc = "save"]
    <2>1. pr' = [pr EXCEPT ![p] = new] /\ UNCHANGED <<snaps, taken, debt>>
        BY <1>3 DEF Rep!TakeSnapshot, Rep!Goto
    <2>2. new \in Rep!ProcType /\ new.pc = "save"
        <3>1. pr[p] \in [pc : {"take", "prune", "save"}, sched : {s \in Rep!Schedule : s.keep > 0}]
            BY <1>1, ProcStates DEF Rep!IInv
        <3>2. /\ new \in [pc : {"take", "prune", "save"}, sched : {s \in Rep!Schedule : s.keep > 0}]
              /\ new.pc = "save"
            BY <3>1
        <3> QED
            BY <3>2, Zenon DEF Rep!ProcType
    <2>3. sched' \in Rep!Schedule \cup {Absent} /\ replJob' \in Rep!Job \cup {Absent}
        BY <1>1 DEF Rep!IInv, Rep!TypeOK
    <2> HIDE DEF new
    <2> QED
        BY <1>1, <2>1, <2>2, <2>3, SnapQuiet
<1> QED
    BY <1>2, <1>3

\* A replication whose run is over but for its record, the hosts being as they were.
LEMMA SnapEnds ==
    ASSUME Rep!IInv, NEW p \in Rep!Procs, pr[p].pc \in {"listed", "answered"},
           NEW t \in {"never", "ok", "error"},
           pr' = [pr EXCEPT ![p] = [pc |-> "jobsave", job |-> [pr[p].job EXCEPT !.status = t]]],
           UNCHANGED <<snaps, remote, sched, replJob, replTimer, snapClock, taken, limit, debt, crossed>>
    PROVE  Rep!IInv'
<1> DEFINE new == [pc |-> "jobsave", job |-> [pr[p].job EXCEPT !.status = t]]
<1>1. pr' = [pr EXCEPT ![p] = new] /\ new.pc = "jobsave"
    OBVIOUS
<1>2. new \in Rep!ProcType
    <2>1. pr[p].job \in Rep!Job
        BY ProcStates DEF Rep!IInv
    <2>2. [pr[p].job EXCEPT !.status = t] \in Rep!Job
        BY <2>1, Settable
    <2> QED
        BY <2>2, ProcRecords
<1> HIDE DEF new
<1>3. sched' \in Rep!Schedule \cup {Absent} /\ replJob' \in Rep!Job \cup {Absent}
    BY DEF Rep!IInv, Rep!TypeOK
<1>4. Rep!Replicating(p)
    BY DEF Rep!Replicating
<1> QED
    BY <1>1, <1>2, <1>3, <1>4, SnapQuiet

LEMMA SnapHeard ==
    ASSUME Rep!IInv, NEW p \in Rep!Procs, Rep!RemoteSnaps(p)
    PROVE  Rep!IInv'
<1>1. /\ pr[p].pc = "listed"
      /\ UNCHANGED <<snaps, remote, sched, replJob, replTimer, snapClock, taken, limit, debt, crossed>>
    BY DEF Rep!RemoteSnaps, Rep!bounds, Rep!history
<1>2. \/ pr' = [pr EXCEPT ![p] = [pc |-> "jobsave", job |-> [pr[p].job EXCEPT !.status = "error"]]]
      \/ pr' = [pr EXCEPT ![p] = [pc |-> "answered", job |-> pr[p].job, local |-> pr[p].local,
                                  remote |-> remote]]
    BY DEF Rep!RemoteSnaps, Rep!Answer, Rep!Goto
<1> QED
    BY <1>1, <1>2, SnapEnds, SnapAnswered

LEMMA SnapTransfer ==
    ASSUME Rep!IInv, NEW p \in Rep!Procs, Rep!Transfer(p)
    PROVE  Rep!IInv'
<1>1. /\ pr[p].pc = "answered"
      /\ UNCHANGED <<snaps, sched, replJob, replTimer, snapClock, taken, limit, debt, crossed>>
    BY DEF Rep!Transfer, Rep!bounds, Rep!history
<1>2. PICK t \in {"ok", "error"} :
          pr' = [pr EXCEPT ![p] = [pc |-> "jobsave", job |-> [pr[p].job EXCEPT !.status = t]]]
    BY DEF Rep!Transfer, Rep!Goto
<1>3. CASE remote' = remote
    BY <1>1, <1>2, <1>3, SnapEnds
<1>4. CASE remote' # remote
    <2>1. /\ Rep!Full(p) \/ Rep!Increment(p)
          /\ \/ remote' = Rep!Kept(p) \cup Rep!Sent(p)
             \/ \E n \in Rep!Sent(p) : remote' = Rep!Kept(p) \cup {i \in Rep!Sent(p) : i < n}
        BY <1>4 DEF Rep!Transfer
    <2>2. Rep!Kept(p) \subseteq 1..taken /\ Rep!Sent(p) \subseteq 1..taken
        BY <1>1, <2>1, Transferred DEF Rep!IInv
    <2>3. remote' \subseteq 1..taken
        BY <2>1, <2>2
    <2> QED
        BY <1>1, <1>2, <2>3, SnapArrives
<1> QED
    BY <1>3, <1>4

\* The processes stay where they are.
LEMMA SnapRests ==
    ASSUME Rep!IInv, snapClock' \in Nat, remote' = remote \/ remote' = Absent,
           UNCHANGED <<snaps, sched, replJob, replTimer, pr, taken, limit, debt, crossed>>
    PROVE  Rep!IInv'
<1> USE DEF Rep!IInv
<1>1. /\ Rep!ProcType' = Rep!ProcType /\ Rep!Autos' = Rep!Autos /\ Rep!LocalIds' = Rep!LocalIds
      /\ Rep!Doomed' = Rep!Doomed
    BY DEF Rep!ProcType, Rep!Idle, Rep!Schedule, Rep!Job, Rep!Autos, Rep!LocalIds, Rep!Doomed
<1>2. Rep!TypeOK'
    BY <1>1 DEF Rep!TypeOK, Rep!Schedule, Rep!Job
<1>3. Rep!Pruned'
    BY <1>1, PrunedKept
<1>4. ASSUME ~crossed'
      PROVE  (Rep!OneSender /\ Rep!KnowsBoth)'
    <2>1. \A q \in Rep!Procs : Rep!Replicating(q)' => Rep!Replicating(q)
        BY DEF Rep!Replicating
    <2> QED
        BY <1>1, <1>4, <2>1, SenderKept
<1> QED
    BY <1>2, <1>3, <1>4

LEMMA SnapStep ==
    ASSUME Rep!IInv, [Rep!Next]_(Rep!vars)
    PROVE  Rep!IInv'
<1>1. snapClock \in Nat
    BY DEF Rep!IInv, Rep!TypeOK
<1>2. CASE Rep!Clock
    BY <1>1, <1>2, SnapRests DEF Rep!Clock, Rep!history
<1>3. CASE Rep!RemoteDestroyed
    BY <1>1, <1>3, SnapRests DEF Rep!RemoteDestroyed, Rep!history
<1>4. CASE UNCHANGED Rep!vars
    BY <1>1, <1>4, SnapRests DEF Rep!vars, Rep!bounds, Rep!history
<1>5. ASSUME NEW p \in Rep!Procs,
             \/ Rep!TakeSnapshot(p) \/ Rep!ListAutosnaps(p) \/ Rep!DestroySnapshot(p)
             \/ Rep!SaveSchedule(p) \/ Rep!Replicate(p) \/ Rep!RemoteSnaps(p) \/ Rep!Transfer(p)
             \/ Rep!SaveJob(p) \/ Rep!Dies(p)
      PROVE  Rep!IInv'
    BY <1>5, SnapTaken, SnapList, SnapDestroy, SnapSaves, SnapReplicate, SnapHeard, SnapTransfer
<1> QED
    BY <1>2, <1>3, <1>4, <1>5, SnapRequested, SnapWrites DEF Rep!Next

LEMMA SnapInvariant == Spec => [](which = "Rep" => Rep!IInv)
<1>1. Init => (which = "Rep" => Rep!IInv)
    BY SnapInit DEF Init
<1>2. (which = "Rep" => Rep!IInv) /\ [Next]_vars => (which = "Rep" => Rep!IInv)'
    <2> SUFFICES ASSUME which = "Rep" => Rep!IInv, [Next]_vars, which' = "Rep"
                 PROVE  Rep!IInv'
        OBVIOUS
    <2>1. Rep!IInv /\ [Rep!Next]_(Rep!vars)
        BY ComponentStep
    <2> QED
        BY <2>1, SnapStep
<1> QED
    BY <1>1, <1>2, PTL DEF Spec

\* When no pruning is under way the automatic snapshots are within the keep count of the
\* latest one, unless its list failed, a snapshot came after the list or one would not go,
\* however many ticks and requests run at once and die half-way (autosnap_prune,
\* schedules.py).
THEOREM SnapshotsArePruned == Spec => []Retention
<1>1. (which = "Rep" => Rep!IInv) => Retention
    <2> SUFFICES ASSUME which = "Rep", Rep!Pruned, ~debt, \A p \in Rep!Procs : pr[p].pc # "destroy"
                 PROVE  Rep!Cardinality(Rep!Autos) <= limit
        BY DEF Retention, Rep!Retention, Rep!IInv
    <2>1. Rep!Doomed = {}
        BY DEF Rep!Doomed
    <2>2. Rep!Autos \ Rep!Doomed = Rep!Autos
        BY <2>1
    <2> QED
        BY <2>2 DEF Rep!Pruned
<1> QED
    BY <1>1, SnapInvariant, PTL

LEMMA ReplicaStep ==
    ASSUME Rep!IInv, [Rep!Next]_(Rep!vars)
    PROVE  Rep!ReplicaGrows
<1> SUFFICES ASSUME remote # Absent, remote' # Absent, ~crossed
             PROVE  remote \cap Rep!LocalIds \subseteq remote'
    BY DEF Rep!ReplicaGrows
<1>1. CASE remote' = remote
    BY <1>1
<1>2. ASSUME NEW p \in Rep!Procs, Rep!Transfer(p), remote' # remote
      PROVE  remote \cap Rep!LocalIds \subseteq remote'
    <2>1. /\ pr[p].pc = "answered" /\ (Rep!Full(p) \/ Rep!Increment(p))
          /\ Rep!Kept(p) \subseteq remote'
        BY <1>2 DEF Rep!Transfer
    <2>2. remote \cap Rep!LocalIds \subseteq Rep!Kept(p)
        BY <2>1, TransferKeeps
    <2> QED
        BY <2>1, <2>2
<1>3. (\E p \in Rep!Procs : Rep!Transfer(p)) \/ remote' = remote \/ remote' = Absent
    <2>1. CASE Rep!SchedSave \/ Rep!SchedDelete \/ Rep!SchedWrite \/ Rep!AutosnapTick \/ Rep!SchedRun
        BY <2>1 DEF Rep!SchedSave, Rep!SchedDelete, Rep!SchedWrite, Rep!AutosnapTick, Rep!SchedRun
    <2>2. CASE Rep!JobSave \/ Rep!JobDelete \/ Rep!JobWrite \/ Rep!SyncTimer \/ Rep!Clock \/ Rep!RemoteDestroyed
        BY <2>2 DEF Rep!JobSave, Rep!JobDelete, Rep!JobWrite, Rep!SyncTimer, Rep!Clock, Rep!RemoteDestroyed
    <2>3. ASSUME NEW p \in Rep!Procs,
                 \/ Rep!TakeSnapshot(p) \/ Rep!ListAutosnaps(p) \/ Rep!DestroySnapshot(p)
                 \/ Rep!SaveSchedule(p) \/ Rep!Replicate(p) \/ Rep!RemoteSnaps(p)
                 \/ Rep!SaveJob(p) \/ Rep!Dies(p)
          PROVE  remote' = remote
        BY <2>3 DEF Rep!TakeSnapshot, Rep!ListAutosnaps, Rep!DestroySnapshot, Rep!SaveSchedule,
                    Rep!Replicate, Rep!RemoteSnaps, Rep!SaveJob, Rep!Dies
    <2>4. CASE UNCHANGED Rep!vars
        BY <2>4 DEF Rep!vars
    <2> QED
        BY <2>1, <2>2, <2>3, <2>4 DEF Rep!Next
<1> QED
    BY <1>1, <1>2, <1>3

\* A replica that exists never loses a snapshot the source still has, whatever the other
\* host's listing answered and wherever transfers broke, as long as replications of the
\* job did not overlap (_remote_snaps and replicate_job, replication.py).
THEOREM ReplicaKeepsHistory == Spec => HistoryKept
<1>1. (which = "Rep" => Rep!IInv) /\ [Next]_vars => [which = "Rep" => Rep!ReplicaGrows]_vars
    BY ComponentStep, ReplicaStep
<1> QED
    BY <1>1, SnapInvariant, PTL DEF Spec, HistoryKept
=============================================================================
