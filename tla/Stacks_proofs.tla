---------------------------- MODULE Stacks_proofs ----------------------------
(***************************************************************************)
(* Theorems of MCPlatform about compose stacks and about system containers *)
(* and virtual machines, for all of its constants. A section names the     *)
(* variables it is about as the component does.                            *)
(***************************************************************************)
EXTENDS MCPlatform, TLAPS

\* A behaviour stays with its component and takes the component's steps.
LEMMA ComponentStep ==
    ASSUME [Next]_vars
    PROVE  /\ which' = which
           /\ which = "Stk" => [Stk!Next]_(Stk!vars)
           /\ which = "Lxd" => [Lxd!Next]_(Lxd!vars)
BY DEF Next, vars, Stk!vars, Lxd!vars

----------------------------------------------------------------------------
(* Compose *)

file == s1
up == s2
th == s3
requests == s4
crashes == s5
disturbed == s6
unheard == s7
USE DEF file, up, th, requests, crashes, disturbed, unheard

LEMMA StackBounds ==
    /\ StackRequests \in Nat /\ StackCrashes \in Nat
    /\ Absent \notin Stk!Text
BY BoundsAssumption, AbsentIsNone

\* The states a request can be in, one by one.
LEMMA StackRequestStates ==
    /\ [pc |-> "idle"] \in Stk!Request /\ [pc |-> "remove"] \in Stk!Request
    /\ \A p \in Stk!Text \cup {Absent} : [pc |-> "validate", prev |-> p] \in Stk!Request
    /\ \A x, p \in Stk!Text : [pc |-> "write", text |-> x, prev |-> p] \in Stk!Request
    /\ \A a \in {"up", "down", "stop", "start"} : [pc |-> "act", action |-> a] \in Stk!Request
    /\ \A r \in Stk!Request :
          /\ r.pc \in {"idle", "write", "validate", "remove", "act"}
          /\ r.pc = "idle" => r = [pc |-> "idle"]
          /\ r.pc = "write" => r.text \in Stk!Text /\ r.prev \in Stk!Text
          /\ r.pc = "validate" => r.prev \in Stk!Text \cup {Absent}
BY DEF Stk!Request

LEMMA StackInit ==
    ASSUME Stk!Init
    PROVE  Stk!IInv
<1>1. /\ file \in {Absent, "one"} /\ up \in {"none", "running"} /\ (file = Absent => up = "none")
      /\ th = [t \in Threads |-> [pc |-> "idle"]]
      /\ requests = 0 /\ crashes = 0 /\ disturbed = FALSE /\ unheard = FALSE
    BY DEF Stk!Init, Stk!Idle
<1>2. th \in [Threads -> Stk!Request] /\ \A t \in Threads : th[t] = Stk!Idle /\ th[t].pc = "idle"
    BY <1>1, StackRequestStates DEF Stk!Idle
<1>3. Stk!TypeOK
    BY <1>1, <1>2 DEF Stk!TypeOK, Stk!Text
<1>4. Stk!OneAtATime /\ Stk!Granted
    BY <1>2 DEF Stk!OneAtATime, Stk!Granted
<1>5. Stk!ContainersManaged
    BY <1>1 DEF Stk!ContainersManaged, Stk!ContainersHaveFile
<1> QED
    BY <1>3, <1>4, <1>5 DEF Stk!IInv

LEMMA StackStep ==
    ASSUME Stk!IInv, [Stk!Next]_(Stk!vars)
    PROVE  Stk!IInv'
<1> USE StackBounds, StackRequestStates
<1>0. /\ file \in Stk!Text \cup {Absent}
      /\ up \in {"none", "stopped", "running"}
      /\ th \in [Threads -> Stk!Request]
      /\ requests \in Nat /\ crashes \in Nat
      /\ disturbed \in BOOLEAN /\ unheard \in BOOLEAN
      /\ Stk!OneAtATime /\ Stk!Granted /\ Stk!ContainersManaged
    BY DEF Stk!IInv, Stk!TypeOK
<1> HIDE DEF file, up, th, requests, crashes, disturbed, unheard
\* A request begins, at a step that asks of the stack what Granted says of it.
<1>1. ASSUME NEW t \in Threads, NEW r \in Stk!Request, Stk!Begin(t, r),
             file' = file \/ (file = Absent /\ file' \in Stk!Text),
             unheard' \in BOOLEAN, unheard => unheard',
             ~disturbed /\ ~unheard' =>
                 /\ r.pc = "remove" => up = "none"
                 /\ r.pc \in {"write", "validate"} => file' # Absent
                 /\ r.pc = "validate" /\ r.prev = Absent => up = "none"
      PROVE  Stk!IInv'
    <2>1. /\ th' = [th EXCEPT ![t] = r] /\ th[t] = Stk!Idle /\ UNCHANGED <<up, crashes>>
          /\ requests' = requests + 1
          /\ disturbed' = (disturbed \/ \E o \in Threads \ {t} : th[o] # Stk!Idle)
        BY <1>1 DEF Stk!Begin, Stk!Goto, file, up, th, requests, crashes, disturbed
    <2>2. Stk!TypeOK'
        BY <1>0, <1>1, <2>1 DEF Stk!TypeOK, file, up, th, requests, crashes, disturbed, unheard
    <2>3. ASSUME ~disturbed'
          PROVE  ~disturbed /\ \A o \in Threads \ {t} : th'[o] = Stk!Idle /\ th'[o].pc = "idle"
        BY <1>0, <2>1, <2>3 DEF Stk!Idle
    <2>4. th'[t] = r
        BY <1>0, <2>1
    <2>5. Stk!OneAtATime'
        BY <2>3 DEF Stk!OneAtATime, th, disturbed
    <2>6. Stk!Granted'
        BY <1>1, <2>1, <2>3, <2>4 DEF Stk!Granted, file, up, th, disturbed, unheard
    <2>7. Stk!ContainersManaged'
        BY <1>0, <1>1, <2>1, <2>3 DEF Stk!ContainersManaged, Stk!ContainersHaveFile, file, up, disturbed, unheard
    <2> QED
        BY <2>2, <2>5, <2>6, <2>7 DEF Stk!IInv
\* A request that runs takes a step that leaves the stack with its file.
<1>2. ASSUME NEW t \in Threads, NEW r \in Stk!Request, th[t] # Stk!Idle,
             th' = [th EXCEPT ![t] = r], UNCHANGED <<requests, crashes, disturbed, unheard>>,
             file' \in Stk!Text \cup {Absent}, up' \in {"none", "stopped", "running"},
             ~disturbed /\ ~unheard => (up' # "none" => file' # Absent),
             r.pc # "remove", r.pc # "write",
             ~disturbed /\ ~unheard /\ r.pc = "validate" => file' # Absent /\ (r.prev = Absent => up' = "none")
      PROVE  Stk!IInv'
    <2>1. Stk!TypeOK'
        BY <1>0, <1>2 DEF Stk!TypeOK, file, up, th, requests, crashes, disturbed, unheard
    <2>2. th'[t] = r
        BY <1>0, <1>2
    <2>3. ASSUME ~disturbed'
          PROVE  ~disturbed /\ \A o \in Threads \ {t} : th'[o] = Stk!Idle /\ th'[o].pc = "idle"
        BY <1>0, <1>2, <2>3 DEF Stk!OneAtATime, Stk!Idle, th, disturbed
    <2>4. Stk!OneAtATime'
        BY <2>3 DEF Stk!OneAtATime, th, disturbed
    <2>5. Stk!Granted'
        BY <1>2, <2>2, <2>3 DEF Stk!Granted, file, up, th, disturbed, unheard
    <2>6. Stk!ContainersManaged'
        BY <1>2, <2>3 DEF Stk!ContainersManaged, Stk!ContainersHaveFile, file, up, disturbed, unheard
    <2> QED
        BY <2>1, <2>4, <2>5, <2>6 DEF Stk!IInv
<1>3. ASSUME NEW t \in Threads, Stk!CreateStack(t)
      PROVE  Stk!IInv'
    <2>1. PICK text \in Stk!Text :
             /\ file = Absent /\ file' = text /\ unheard' = unheard
             /\ Stk!Begin(t, [pc |-> "validate", prev |-> Absent])
        BY <1>3 DEF Stk!CreateStack, file, unheard
    <2>2. up = "none" \/ disturbed \/ unheard
        BY <1>0, <2>1 DEF Stk!ContainersManaged, Stk!ContainersHaveFile, file, up, disturbed, unheard
    <2> QED
        BY <1>0, <1>1, <2>1, <2>2
<1>4. ASSUME NEW t \in Threads, Stk!SaveFile(t)
      PROVE  Stk!IInv'
    <2>1. PICK text \in Stk!Text :
             /\ file # Absent /\ file' = file /\ unheard' = unheard
             /\ Stk!Begin(t, [pc |-> "write", text |-> text, prev |-> file])
        BY <1>4 DEF Stk!SaveFile, file, unheard
    <2> QED
        BY <1>0, <1>1, <2>1
<1>5. ASSUME NEW t \in Threads, Stk!Write(t)
      PROVE  Stk!IInv'
    <2>1. th[t].pc = "write" /\ th[t] # Stk!Idle /\ UNCHANGED <<up, requests, crashes, disturbed, unheard>>
        BY <1>5 DEF Stk!Write, Stk!Idle, up, th, requests, crashes, disturbed, unheard
    <2>2. th[t].text \in Stk!Text /\ th[t].prev \in Stk!Text
        BY <1>0, <2>1
    <2>3. ~disturbed /\ ~unheard => file # Absent
        BY <1>0, <2>1 DEF Stk!Granted, file, th, disturbed, unheard
    <2>4. CASE file = Absent
        <3>1. th' = [th EXCEPT ![t] = Stk!Idle] /\ file' = file
            BY <1>5, <2>4 DEF Stk!Write, Stk!Goto, file, th
        <3> QED
            BY <1>0, <1>2, <2>1, <2>3, <2>4, <3>1 DEF Stk!Idle
    <2>5. CASE file # Absent
        <3>1. /\ th' = [th EXCEPT ![t] = [pc |-> "validate", prev |-> th[t].prev]]
              /\ file' = th[t].text
            BY <1>5, <2>5 DEF Stk!Write, Stk!Goto, file, th
        <3>2. th[t].prev # Absent /\ th[t].text # Absent
            BY <2>2
        <3> QED
            BY <1>0, <1>2, <2>1, <2>2, <3>1, <3>2
    <2> QED
        BY <2>4, <2>5
<1>6. ASSUME NEW t \in Threads, Stk!Validate(t)
      PROVE  Stk!IInv'
    <2>1. /\ th[t].pc = "validate" /\ th[t] # Stk!Idle /\ th' = [th EXCEPT ![t] = Stk!Idle]
          /\ UNCHANGED <<up, requests, crashes, disturbed, unheard>>
          /\ file' \in {file, th[t].prev}
        BY <1>6 DEF Stk!Validate, Stk!Goto, Stk!Idle, file, up, th, requests, crashes, disturbed, unheard
    <2>2. th[t].prev \in Stk!Text \cup {Absent}
        BY <1>0, <2>1
    <2>3. ~disturbed /\ ~unheard => file # Absent /\ (th[t].prev = Absent => up = "none")
        BY <1>0, <2>1 DEF Stk!Granted, file, up, th, disturbed, unheard
    <2> QED
        BY <1>0, <1>2, <2>1, <2>2, <2>3 DEF Stk!Idle
<1>7. ASSUME NEW t \in Threads, Stk!DeleteStack(t)
      PROVE  Stk!IInv'
    <2>1. PICK seen \in {up, "none"} :
             /\ Stk!Begin(t, IF seen = "none" THEN [pc |-> "remove"] ELSE Stk!Idle)
             /\ file' = file /\ unheard' = (unheard \/ seen # up)
        BY <1>7 DEF Stk!DeleteStack, Stk!Listed, Stk!Deletable, file, up, unheard
    <2>2. unheard' \in BOOLEAN /\ (unheard => unheard') /\ (~unheard' => seen = up)
        BY <1>0, <2>1
    <2>3. CASE seen = "none"
        <3>1. Stk!Begin(t, [pc |-> "remove"])
            BY <2>1, <2>3
        <3> QED
            BY <1>1, <2>1, <2>2, <2>3, <3>1
    <2>4. CASE seen # "none"
        <3>1. Stk!Begin(t, [pc |-> "idle"])
            BY <2>1, <2>4 DEF Stk!Idle
        <3> QED
            BY <1>1, <2>1, <2>2, <3>1
    <2> QED
        BY <2>3, <2>4
<1>8. ASSUME NEW t \in Threads, Stk!Remove(t)
      PROVE  Stk!IInv'
    <2>1. /\ th[t].pc = "remove" /\ th[t] # Stk!Idle /\ th' = [th EXCEPT ![t] = Stk!Idle]
          /\ UNCHANGED <<up, requests, crashes, disturbed, unheard>>
          /\ file' = Absent
        BY <1>8 DEF Stk!Remove, Stk!Goto, Stk!Idle, file, up, th, requests, crashes, disturbed, unheard
    <2>2. ~disturbed /\ ~unheard => up = "none"
        BY <1>0, <2>1 DEF Stk!Granted, up, th, disturbed, unheard
    <2> QED
        BY <1>0, <1>2, <2>1, <2>2 DEF Stk!Idle
<1>9. ASSUME NEW t \in Threads, Stk!Action(t)
      PROVE  Stk!IInv'
    <2>1. PICK a \in {"up", "down", "stop", "start"} :
             Stk!Begin(t, [pc |-> "act", action |-> a]) /\ file' = file /\ unheard' = unheard
        BY <1>9 DEF Stk!Action, file, unheard
    <2> QED
        BY <1>0, <1>1, <2>1
<1>10. ASSUME NEW t \in Threads, Stk!Act(t)
       PROVE  Stk!IInv'
    <2>1. /\ th[t].pc = "act" /\ th[t] # Stk!Idle /\ th' = [th EXCEPT ![t] = Stk!Idle]
          /\ UNCHANGED <<file, requests, crashes, disturbed, unheard>>
        BY <1>10 DEF Stk!Act, Stk!Goto, Stk!Idle, file, th, requests, crashes, disturbed, unheard
    <2>2. CASE file \in {Absent, "bad"}
        <3>1. up' = up
            BY <1>10, <2>2 DEF Stk!Act, file, up
        <3> QED
            BY <1>0, <1>2, <2>1, <3>1 DEF Stk!Idle, Stk!ContainersManaged, Stk!ContainersHaveFile, file, up,
                                                   disturbed, unheard
    <2>3. CASE file \notin {Absent, "bad"}
        <3>1. th[t].action \in {"up", "down", "stop", "start"}
            BY <1>0, <2>1 DEF Stk!Request
        <3>2. up' \in {"none", "stopped", "running"}
            BY <1>0, <1>10, <2>3, <3>1 DEF Stk!Act, file, up, th
        <3> QED
            BY <1>0, <1>2, <2>1, <2>3, <3>2 DEF Stk!Idle
    <2> QED
        BY <2>2, <2>3
<1>11. ASSUME Stk!Crash
       PROVE  Stk!IInv'
    <2>1. /\ th' = [t \in Threads |-> Stk!Idle] /\ disturbed' = TRUE /\ crashes' = crashes + 1
          /\ UNCHANGED <<file, up, requests, unheard>>
        BY <1>11 DEF Stk!Crash, file, up, th, requests, crashes, disturbed, unheard
    <2>2. Stk!TypeOK'
        BY <1>0, <2>1 DEF Stk!TypeOK, Stk!Idle, file, up, th, requests, crashes, disturbed, unheard
    <2> QED
        BY <2>1, <2>2 DEF Stk!IInv, Stk!OneAtATime, Stk!Granted, Stk!ContainersManaged,
                           Stk!ContainersHaveFile, disturbed, unheard
<1>12. CASE UNCHANGED Stk!vars
    BY <1>12 DEF Stk!vars, Stk!IInv, Stk!TypeOK, Stk!OneAtATime, Stk!Granted, Stk!ContainersManaged,
                 Stk!ContainersHaveFile
<1> QED
    BY <1>3, <1>4, <1>5, <1>6, <1>7, <1>8, <1>9, <1>10, <1>11, <1>12 DEF Stk!Next

\* ContainersManaged: a stack with containers keeps the file they are managed by, when
\* each request is answered before the next and no deletion went by the empty list that
\* a daemon in trouble counts as (compose_delete, compose_up). Whether the daemon may
\* fail to list is open: what happens then is the exception.
THEOREM StackKeepsItsFile == Spec => []ContainersManaged
<1>1. (which = "Stk" => Stk!IInv) => ContainersManaged
    BY DEF ContainersManaged, Stk!IInv
<1>2. Init => (which = "Stk" => Stk!IInv)
    BY StackInit DEF Init
<1>3. (which = "Stk" => Stk!IInv) /\ [Next]_vars => (which = "Stk" => Stk!IInv)'
    BY StackStep, ComponentStep
<1> QED
    BY <1>1, <1>2, <1>3, PTL DEF Spec

----------------------------------------------------------------------------
(* Instances *)

inst == s1
wire == s2
req == s3
macs == s4
asked == s5
shared == s6
USE DEF inst, wire, req, macs, asked, shared

LEMMA MacBounds == MaxMacs \in Nat /\ InstanceRequests \in Nat /\ Absent \notin Lxd!Object
BY BoundsAssumption, AbsentIsNone

\* The daemon's side of the invariant, and the side of the requests.
Daemon ==
    /\ inst \in [Names -> {Absent} \cup Lxd!Object]
    /\ wire \in [Names -> 0..MaxMacs]
    /\ macs \in 0..MaxMacs
    /\ shared \subseteq Names
    /\ Lxd!GoneIsOff /\ Lxd!Disjoint
    /\ \A n \in Names : \A mac \in Lxd!Held(n) : mac <= macs

Requesters ==
    /\ req \in [Threads -> Lxd!Request] /\ asked \in Nat
    /\ \A t \in Threads : req[t].pc \in {"strip", "remove"} => req[t].object.mac <= macs

LEMMA TwoSides == Lxd!IInv <=> Daemon /\ Requesters
BY DEF Lxd!IInv, Lxd!TypeOK, Lxd!HandedOut, Daemon, Requesters

LEMMA InstanceRequestStates ==
    /\ [pc |-> "idle"] \in Lxd!Request
    /\ \A p \in {"start", "delete", "copied"}, n \in Names : [pc |-> p, name |-> n] \in Lxd!Request
    /\ \A p \in {"strip", "remove"}, n \in Names, o \in Lxd!Object :
          [pc |-> p, name |-> n, object |-> o] \in Lxd!Request
    /\ \A r \in Lxd!Request :
          /\ r.pc \in {"start", "delete", "copied", "strip", "remove"} => r.name \in Names
          /\ r.pc \in {"strip", "remove"} => r.object \in Lxd!Object
BY DEF Lxd!Request

LEMMA InstanceInit ==
    ASSUME Lxd!Init
    PROVE  Lxd!IInv
<1>1. /\ inst = [n \in Names |-> Absent] /\ wire = [n \in Names |-> 0]
      /\ req = [t \in Threads |-> [pc |-> "idle"]]
      /\ macs = 0 /\ asked = 0 /\ shared = {}
    BY DEF Lxd!Init, Lxd!Idle
<1>2. \A n \in Names : Lxd!Held(n) = {}
    BY <1>1 DEF Lxd!Held
<1>3. Daemon
    BY <1>1, <1>2, MacBounds DEF Daemon, Lxd!GoneIsOff, Lxd!Running, Lxd!Disjoint
<1>4. Requesters
    BY <1>1, InstanceRequestStates DEF Requesters
<1> QED
    BY <1>3, <1>4, TwoSides

\* What a change of one instance has to keep.
LEMMA OneChanges ==
    ASSUME Daemon, NEW n \in Names,
           inst' \in [Names -> {Absent} \cup Lxd!Object], wire' \in [Names -> 0..MaxMacs],
           macs' \in 0..MaxMacs, macs <= macs', shared' \subseteq Names,
           \A k \in Names \ {n} : inst'[k] = inst[k] /\ wire'[k] = wire[k] /\ (k \in shared' <=> k \in shared),
           inst'[n] = Absent => wire'[n] = 0,
           \A mac \in Lxd!Held(n)' : mac <= macs',
           n \notin shared' => \A mac \in Lxd!Held(n)' :
               (mac \in Lxd!Held(n) /\ n \notin shared) \/ mac > macs
    PROVE  Daemon'
<1>1. \A k \in Names \ {n} : Lxd!Held(k)' = Lxd!Held(k)
    BY DEF Lxd!Held
<1>2. macs \in Nat /\ macs' \in Nat
    BY MacBounds DEF Daemon
<1>3. Lxd!GoneIsOff'
    BY DEF Daemon, Lxd!GoneIsOff, Lxd!Running
<1>4. \A k \in Names : \A mac \in Lxd!Held(k) : mac \in Nat /\ mac <= macs
    <2>1. \A k \in Names : \A mac \in Lxd!Held(k) : mac \in Nat
        BY MacBounds DEF Lxd!Held, Lxd!Object, Daemon
    <2> QED
        BY <2>1 DEF Daemon
<1>5. \A k \in Names : \A mac \in Lxd!Held(k)' : mac <= macs'
    <2> SUFFICES ASSUME NEW k \in Names, k # n, NEW mac \in Lxd!Held(k)' PROVE mac <= macs'
        OBVIOUS
    <2>1. mac \in Nat /\ mac <= macs
        BY <1>1, <1>4
    <2> QED
        BY <1>2, <2>1
<1>6. Lxd!Disjoint'
    <2>1. ASSUME NEW k \in Names \ {n}, n \notin shared', k \notin shared', NEW mac \in Lxd!Held(n)'
          PROVE  mac \notin Lxd!Held(k)'
        <3>1. CASE mac \in Lxd!Held(n) /\ n \notin shared
            <4>1. {n, k} \cap shared = {} /\ n # k
                BY <2>1, <3>1
            <4>2. Lxd!Held(n) \cap Lxd!Held(k) = {}
                BY <4>1 DEF Daemon, Lxd!Disjoint
            <4> QED
                BY <1>1, <2>1, <3>1, <4>2
        <3>2. CASE mac > macs
            BY <1>1, <1>2, <1>4, <2>1, <3>2
        <3> QED
            BY <2>1, <3>1, <3>2
    <2>2. ASSUME NEW k \in Names \ {n}, NEW m \in Names \ {n}, k # m, {k, m} \cap shared' = {}
          PROVE  Lxd!Held(k)' \cap Lxd!Held(m)' = {}
        <3>1. {k, m} \cap shared = {}
            BY <2>2
        <3>2. Lxd!Held(k) \cap Lxd!Held(m) = {}
            BY <2>2, <3>1 DEF Daemon, Lxd!Disjoint
        <3> QED
            BY <1>1, <3>2
    <2> SUFFICES ASSUME NEW k \in Names, NEW m \in Names, k # m, {k, m} \cap shared' = {}
                 PROVE  Lxd!Held(k)' \cap Lxd!Held(m)' = {}
        BY DEF Lxd!Disjoint
    <2>3. CASE k = n
        BY <2>1, <2>3
    <2>4. CASE m = n
        BY <2>1, <2>4
    <2>5. CASE k # n /\ m # n
        BY <2>2, <2>5
    <2> QED
        BY <2>3, <2>4, <2>5
<1> QED
    BY <1>3, <1>5, <1>6 DEF Daemon

LEMMA NothingChanges ==
    ASSUME Daemon, UNCHANGED <<inst, wire, macs, shared>>
    PROVE  Daemon'
BY DEF Daemon, Lxd!GoneIsOff, Lxd!Running, Lxd!Disjoint, Lxd!Held

LEMMA StartKeeps ==
    ASSUME Daemon, NEW n \in Names, Lxd!Start(n)
    PROVE  Daemon' /\ macs <= macs'
<1> DEFINE mac == IF inst[n].mac = 0 THEN macs + 1 ELSE inst[n].mac
<1>1. /\ inst[n] # Absent /\ wire[n] = 0 /\ mac <= MaxMacs
      /\ macs' = (IF mac > macs THEN mac ELSE macs)
      /\ inst' = [inst EXCEPT ![n].mac = mac]
      /\ wire' = [wire EXCEPT ![n] = mac]
      /\ shared' = (IF mac > macs THEN shared \ {n} ELSE shared)
    BY DEF Lxd!Start, Lxd!Running
<1>2. inst[n] \in Lxd!Object /\ inst[n].mac \in 0..MaxMacs /\ macs \in 0..MaxMacs
    BY <1>1 DEF Daemon, Lxd!Object
<1>3. mac \in 1..MaxMacs
    BY <1>1, <1>2, MacBounds
<1>4. Lxd!Held(n) = {inst[n].mac} \ {0}
    BY <1>1, <1>2, MacBounds DEF Lxd!Held
<1>5. inst[n].mac <= macs
    BY <1>2, <1>4 DEF Daemon
<1> HIDE DEF mac
<1>6. inst'[n] = [inst[n] EXCEPT !.mac = mac] /\ inst'[n] \in Lxd!Object
    BY <1>1, <1>2, <1>3 DEF Daemon, Lxd!Object
<1>7. inst' \in [Names -> {Absent} \cup Lxd!Object] /\ wire' \in [Names -> 0..MaxMacs]
    BY <1>1, <1>3, <1>6 DEF Daemon
<1>8. inst'[n].mac = mac /\ wire'[n] = mac
    BY <1>1, <1>2, <1>6 DEF Daemon, Lxd!Object
<1>9. Lxd!Held(n)' = {mac}
    BY <1>3, <1>6, <1>8, MacBounds DEF Lxd!Held
<1>10. macs' \in 0..MaxMacs /\ macs <= macs' /\ mac <= macs'
    BY <1>1, <1>2, <1>3, MacBounds
<1>11. n \notin shared' => (mac \in Lxd!Held(n) /\ n \notin shared) \/ mac > macs
    BY <1>1, <1>2, <1>3, <1>4, MacBounds DEF mac
<1>12. \A k \in Names \ {n} : inst'[k] = inst[k] /\ wire'[k] = wire[k] /\ (k \in shared' <=> k \in shared)
    BY <1>1 DEF Daemon
<1>13. shared' \subseteq Names /\ inst'[n] # Absent
    BY <1>1, <1>6, MacBounds DEF Daemon
<1> QED
    BY <1>7, <1>9, <1>10, <1>11, <1>12, <1>13, OneChanges

LEMMA StopKeeps ==
    ASSUME Daemon, NEW n \in Names, Lxd!StopIt(n)
    PROVE  Daemon' /\ macs' = macs
<1>1. wire' = [wire EXCEPT ![n] = 0] /\ UNCHANGED <<inst, macs, shared>>
    BY DEF Lxd!StopIt
<1>2. Lxd!Held(n)' \subseteq Lxd!Held(n) /\ macs \in Nat
    BY <1>1, MacBounds DEF Daemon, Lxd!Held
<1>3. \A k \in Names \ {n} : inst'[k] = inst[k] /\ wire'[k] = wire[k] /\ (k \in shared' <=> k \in shared)
    BY <1>1 DEF Daemon
<1>4. wire' \in [Names -> 0..MaxMacs] /\ wire'[n] = 0
    BY <1>1, MacBounds DEF Daemon
<1>5. Daemon'
    BY <1>1, <1>2, <1>3, <1>4, OneChanges DEF Daemon
<1> QED
    BY <1>1, <1>5

\* An instance gets an object whose address it has, or is shared.
LEMMA PutKeeps ==
    ASSUME Daemon, NEW n \in Names, NEW o \in Lxd!Object, o.mac <= macs,
           inst' = [inst EXCEPT ![n] = o], UNCHANGED <<wire, macs>>, shared' \subseteq Names,
           \A k \in Names \ {n} : k \in shared' <=> k \in shared,
           n \notin shared' =>
               IF n \in shared THEN wire[n] = 0 /\ o.mac = 0
               ELSE o.mac = 0 \/ (inst[n] # Absent /\ inst[n].mac = o.mac)
    PROVE  Daemon'
<1>1. inst' \in [Names -> {Absent} \cup Lxd!Object] /\ inst'[n] = o /\ o # Absent
    BY MacBounds DEF Daemon
<1>2. Lxd!Held(n)' = {wire[n], o.mac} \ {0}
    BY <1>1 DEF Lxd!Held
<1>3. macs \in Nat /\ o.mac \in Nat /\ wire[n] \in Nat
    BY MacBounds DEF Daemon, Lxd!Object
<1>4. wire[n] # 0 => wire[n] \in Lxd!Held(n) /\ wire[n] <= macs
    BY DEF Daemon, Lxd!Held
<1>5. \A mac \in Lxd!Held(n)' : mac <= macs'
    BY <1>2, <1>3, <1>4
<1>6. n \notin shared' => \A mac \in Lxd!Held(n)' : mac \in Lxd!Held(n) /\ n \notin shared
    BY <1>2, <1>4 DEF Lxd!Held
<1>7. \A k \in Names \ {n} : inst'[k] = inst[k] /\ wire'[k] = wire[k] /\ (k \in shared' <=> k \in shared)
    BY DEF Daemon
<1> QED
    BY <1>1, <1>3, <1>5, <1>6, <1>7, OneChanges DEF Daemon

\* An instance goes that does not run.
LEMMA GoneKeeps ==
    ASSUME Daemon, NEW n \in Names, wire[n] = 0,
           inst' = [inst EXCEPT ![n] = Absent], UNCHANGED <<wire, macs>>, shared' = shared \ {n}
    PROVE  Daemon'
<1>1. inst' \in [Names -> {Absent} \cup Lxd!Object] /\ inst'[n] = Absent /\ macs \in Nat
    BY MacBounds DEF Daemon
<1>2. Lxd!Held(n)' = {}
    BY <1>1 DEF Lxd!Held
<1>3. \A k \in Names \ {n} : inst'[k] = inst[k] /\ wire'[k] = wire[k] /\ (k \in shared' <=> k \in shared)
    BY DEF Daemon
<1> QED
    BY <1>1, <1>2, <1>3, OneChanges DEF Daemon

\* The new name takes over what the old one held.
LEMMA RenameKeeps ==
    ASSUME Daemon, NEW n \in Names, NEW m \in Names,
           inst[n] # Absent, inst[m] = Absent, wire[n] = 0,
           inst' = [inst EXCEPT ![n] = Absent, ![m] = inst[n]], UNCHANGED <<wire, macs>>,
           shared' = IF n \in shared THEN (shared \ {n}) \cup {m} ELSE shared
    PROVE  Daemon'
<1>1. n # m /\ wire[m] = 0 /\ inst[n] \in Lxd!Object
    BY DEF Daemon, Lxd!GoneIsOff, Lxd!Running
<1>2. /\ inst' \in [Names -> {Absent} \cup Lxd!Object]
      /\ inst'[n] = Absent /\ inst'[m] = inst[n]
      /\ \A k \in Names \ {n, m} : inst'[k] = inst[k]
    BY <1>1 DEF Daemon
<1>3. /\ Lxd!Held(n)' = {} /\ Lxd!Held(m)' = Lxd!Held(n)
      /\ \A k \in Names \ {n, m} : Lxd!Held(k)' = Lxd!Held(k)
    BY <1>1, <1>2, MacBounds DEF Lxd!Held
<1>4. Lxd!GoneIsOff'
    BY <1>1, <1>2 DEF Daemon, Lxd!GoneIsOff, Lxd!Running
<1>5. \A k \in Names : \A mac \in Lxd!Held(k)' : mac <= macs'
    BY <1>3 DEF Daemon
<1>6. ASSUME NEW k \in Names, NEW l \in Names, k # l, {k, l} \cap shared' = {}
      PROVE  Lxd!Held(k)' \cap Lxd!Held(l)' = {}
    <2>1. CASE k = n \/ l = n
        BY <1>3, <2>1
    <2>2. CASE k = m /\ l # n
        <3>1. l # m /\ {n, l} \cap shared = {} /\ n # l
            BY <1>1, <1>6, <2>2
        <3>2. Lxd!Held(n) \cap Lxd!Held(l) = {}
            BY <3>1 DEF Daemon, Lxd!Disjoint
        <3> QED
            BY <1>3, <2>2, <3>1, <3>2
    <2>3. CASE l = m /\ k # n
        <3>1. k # m /\ {n, k} \cap shared = {} /\ n # k
            BY <1>1, <1>6, <2>3
        <3>2. Lxd!Held(n) \cap Lxd!Held(k) = {}
            BY <3>1 DEF Daemon, Lxd!Disjoint
        <3> QED
            BY <1>3, <2>3, <3>1, <3>2
    <2>4. CASE {k, l} \cap {n, m} = {}
        <3>1. {k, l} \cap shared = {}
            BY <1>6, <2>4
        <3>2. Lxd!Held(k) \cap Lxd!Held(l) = {}
            BY <1>6, <3>1 DEF Daemon, Lxd!Disjoint
        <3> QED
            BY <1>3, <2>4, <3>2
    <2> QED
        BY <2>1, <2>2, <2>3, <2>4
<1>7. Lxd!Disjoint'
    BY <1>6 DEF Lxd!Disjoint
<1> QED
    BY <1>2, <1>4, <1>5, <1>7 DEF Daemon

\* The requests' side of a step in which one request moves on.
LEMMA OneMoves ==
    ASSUME Requesters, Daemon, Daemon', macs <= macs', NEW t \in Threads, NEW r \in Lxd!Request,
           r.pc \in {"strip", "remove"} => r.object.mac <= macs,
           req' = [req EXCEPT ![t] = r] \/ req' = req,
           asked' = asked \/ asked' = asked + 1
    PROVE  Requesters'
<1>1. macs \in Nat /\ macs' \in Nat
    BY MacBounds DEF Daemon
<1>2. \A o \in Threads : req[o].pc \in {"strip", "remove"} => req[o].object.mac \in Nat
    BY InstanceRequestStates DEF Requesters, Lxd!Object
<1>3. r.pc \in {"strip", "remove"} => r.object.mac \in Nat
    BY InstanceRequestStates DEF Lxd!Object
<1>4. req' \in [Threads -> Lxd!Request] /\ asked' \in Nat
    BY DEF Requesters
<1>5. \A o \in Threads : req'[o] = r \/ req'[o] = req[o]
    BY DEF Requesters
<1>6. ASSUME NEW o \in Threads, req'[o].pc \in {"strip", "remove"}
      PROVE  req'[o].object.mac <= macs'
    BY <1>1, <1>2, <1>3, <1>5, <1>6 DEF Requesters
<1> QED
    BY <1>4, <1>6 DEF Requesters

LEMMA InstanceStep ==
    ASSUME Lxd!IInv, [Lxd!Next]_(Lxd!vars)
    PROVE  Lxd!IInv'
<1> USE MacBounds, InstanceRequestStates
<1>0. Daemon /\ Requesters
    BY TwoSides
<1>1. /\ inst \in [Names -> {Absent} \cup Lxd!Object] /\ req \in [Threads -> Lxd!Request]
      /\ macs \in Nat /\ shared \subseteq Names
    BY <1>0 DEF Daemon, Requesters
<1>2. \A n \in Names : inst[n] # Absent =>
          inst[n] \in Lxd!Object /\ inst[n].mac \in Nat /\ inst[n].mac <= macs
    <2> SUFFICES ASSUME NEW n \in Names, inst[n] # Absent
                 PROVE  inst[n] \in Lxd!Object /\ inst[n].mac \in Nat /\ inst[n].mac <= macs
        OBVIOUS
    <2>1. inst[n] \in Lxd!Object /\ inst[n].mac \in Nat
        BY <1>1 DEF Lxd!Object
    <2>2. inst[n].mac # 0 => inst[n].mac \in Lxd!Held(n)
        BY DEF Lxd!Held
    <2> QED
        BY <1>0, <1>1, <2>1, <2>2 DEF Daemon
<1>3. [pc |-> "idle"].pc \notin {"strip", "remove"}
    OBVIOUS
<1>1a. Daemon' /\ Requesters' => Lxd!IInv'
    BY DEF Lxd!IInv, Lxd!TypeOK, Lxd!HandedOut, Daemon, Requesters
<1> HIDE DEF inst, wire, req, macs, asked, shared
\* Every request moves on in one of these ways.
<1>4. ASSUME NEW t \in Threads, Daemon', macs <= macs',
             \/ Lxd!Answer(t)
             \/ asked' = asked + 1 /\ req' = req
      PROVE  Lxd!IInv'
    <2>1. asked' = asked \/ asked' = asked + 1
        BY <1>4 DEF Lxd!Answer, asked
    <2>2. req' = [req EXCEPT ![t] = [pc |-> "idle"]] \/ req' = req
        BY <1>4 DEF Lxd!Answer, Lxd!Idle, req
    <2> QED
        BY <1>0, <1>1a, <1>3, <1>4, <2>1, <2>2, OneMoves
<1>5. ASSUME NEW t \in Threads, Daemon', macs <= macs', NEW r \in Lxd!Request, Lxd!Then(t, r),
             r.pc \in {"strip", "remove"} => r.object.mac <= macs,
             asked' = asked \/ asked' = asked + 1
      PROVE  Lxd!IInv'
    <2>1. req' = [req EXCEPT ![t] = r]
        BY <1>5 DEF Lxd!Then, req
    <2> QED
        BY <1>0, <1>1a, <1>5, <2>1, OneMoves
<1>6. ASSUME NEW t \in Threads, NEW n \in Names, Lxd!SetState(t, n)
      PROVE  Lxd!IInv'
    <2>1. asked' = asked + 1 /\ req' = req /\ (Lxd!StopIt(n) \/ Lxd!Start(n))
        BY <1>6 DEF Lxd!SetState, Lxd!Begin, asked, req
    <2>2. Daemon' /\ macs <= macs'
        BY <1>0, <1>1, <2>1, StopKeeps, StartKeeps
    <2> QED
        BY <1>4, <2>1, <2>2
<1>7. ASSUME NEW t \in Threads, NEW n \in Names, Lxd!AddForward(t, n)
      PROVE  Lxd!IInv'
    <2>1. /\ asked' = asked + 1 /\ req' = req /\ inst[n] # Absent
          /\ inst' = [inst EXCEPT ![n].forward = TRUE] /\ UNCHANGED <<wire, macs, shared>>
        BY <1>7 DEF Lxd!AddForward, Lxd!Begin, asked, req, inst, wire, macs, shared
    <2> DEFINE o == [inst[n] EXCEPT !.forward = TRUE]
    <2>2. o \in Lxd!Object /\ o.mac = inst[n].mac
        BY <1>2, <2>1 DEF Lxd!Object
    <2>3. inst' = [inst EXCEPT ![n] = o]
        BY <1>1, <2>1
    <2> HIDE DEF o
    <2>4. Daemon'
        BY <1>0, <1>1, <1>2, <2>1, <2>2, <2>3, PutKeeps
    <2> QED
        BY <1>1, <1>4, <2>1, <2>4
<1>8. ASSUME NEW t \in Threads, NEW n \in Names, NEW new \in Names, Lxd!Rename(t, n, new)
      PROVE  Lxd!IInv'
    <2>1. /\ asked' = asked + 1 /\ req' = req
          /\ inst[n] # Absent /\ inst[new] = Absent /\ wire[n] = 0
          /\ inst' = [inst EXCEPT ![n] = Absent, ![new] = inst[n]] /\ UNCHANGED <<wire, macs>>
          /\ shared' = IF n \in shared THEN (shared \ {n}) \cup {new} ELSE shared
        BY <1>8 DEF Lxd!Rename, Lxd!Begin, Lxd!Running, asked, req, inst, wire, macs, shared
    <2>2. Daemon'
        BY <1>0, <2>1, RenameKeeps
    <2> QED
        BY <1>1, <1>4, <2>1, <2>2
<1>9. ASSUME NEW t \in Threads, NEW n \in Names, Lxd!Create(t, n)
      PROVE  Lxd!IInv'
    <2>1. /\ asked' = asked + 1 /\ inst[n] = Absent
          /\ inst' = [inst EXCEPT ![n] = Lxd!New] /\ UNCHANGED <<wire, macs, shared>>
          /\ req' = req \/ Lxd!Then(t, [pc |-> "start", name |-> n])
        BY <1>9 DEF Lxd!Create, Lxd!Begin, asked, req, inst, wire, macs, shared
    <2>2. Lxd!New \in Lxd!Object /\ Lxd!New.mac = 0
        BY DEF Lxd!New, Lxd!Object
    <2>3. Daemon'
        <3> DEFINE o == Lxd!New
        <3>1. o \in Lxd!Object /\ o.mac = 0 /\ o.mac <= macs /\ inst' = [inst EXCEPT ![n] = o]
            BY <1>1, <2>1, <2>2
        <3> HIDE DEF o
        <3> QED
            BY <1>0, <1>1, <2>1, <3>1, PutKeeps
    <2>4. [pc |-> "start", name |-> n] \in Lxd!Request
        OBVIOUS
    <2> QED
        BY <1>1, <1>4, <1>5, <2>1, <2>3, <2>4
<1>10. ASSUME NEW t \in Threads, Lxd!StartCreated(t)
       PROVE  Lxd!IInv'
    <2>1. req[t].name \in Names
        BY <1>1, <1>10 DEF Lxd!StartCreated, req
    <2>2. Lxd!Answer(t) /\ (Lxd!Start(req[t].name) \/ Lxd!Refused)
        BY <1>10 DEF Lxd!StartCreated, req
    <2>3. Daemon' /\ macs <= macs'
        BY <1>0, <1>1, <2>1, <2>2, StartKeeps, NothingChanges
           DEF Lxd!Refused, inst, wire, macs, shared
    <2> QED
        BY <1>4, <2>2, <2>3
<1>11. ASSUME NEW t \in Threads, NEW n \in Names, Lxd!Delete(t, n)
       PROVE  Lxd!IInv'
    <2>1. /\ asked' = asked + 1 /\ Lxd!Then(t, [pc |-> "delete", name |-> n])
          /\ Lxd!StopIt(n) \/ Lxd!Refused
        BY <1>11 DEF Lxd!Delete, Lxd!Begin, asked
    <2>2. Daemon' /\ macs <= macs'
        BY <1>0, <1>1, <2>1, StopKeeps, NothingChanges DEF Lxd!Refused, inst, wire, macs, shared
    <2>3. [pc |-> "delete", name |-> n] \in Lxd!Request
        OBVIOUS
    <2> QED
        BY <1>5, <2>1, <2>2, <2>3
<1>12. ASSUME NEW t \in Threads, Lxd!DeleteNow(t)
       PROVE  Lxd!IInv'
    <2> DEFINE n == req[t].name
    <2>1. n \in Names
        BY <1>1, <1>12 DEF Lxd!DeleteNow, req
    <2>2. /\ Lxd!Answer(t)
          /\ \/ UNCHANGED <<inst, wire, macs, shared>>
             \/ /\ wire[n] = 0 /\ inst' = [inst EXCEPT ![n] = Absent]
                /\ UNCHANGED <<wire, macs>> /\ shared' = shared \ {n}
        BY <1>12 DEF Lxd!DeleteNow, Lxd!Refused, Lxd!Running, req, inst, wire, macs, shared
    <2> HIDE DEF n
    <2>3. Daemon' /\ macs <= macs'
        BY <1>0, <1>1, <2>1, <2>2, GoneKeeps, NothingChanges
    <2> QED
        BY <1>4, <2>2, <2>3
<1>13. ASSUME NEW t \in Threads, NEW n \in Names, NEW new \in Names, Lxd!Copy(t, n, new)
       PROVE  Lxd!IInv'
    <2>1. /\ asked' = asked + 1 /\ Lxd!Then(t, [pc |-> "copied", name |-> new])
          /\ inst[n] # Absent
          /\ inst' = [inst EXCEPT ![new] = inst[n]] /\ UNCHANGED <<wire, macs>>
          /\ shared' = shared \cup {new}
        BY <1>13 DEF Lxd!Copy, Lxd!Begin, asked, req, inst, wire, macs, shared
    <2>2. Daemon'
        BY <1>0, <1>1, <1>2, <2>1, PutKeeps
    <2>3. [pc |-> "copied", name |-> new] \in Lxd!Request
        OBVIOUS
    <2> QED
        BY <1>1, <1>5, <2>1, <2>2, <2>3
<1>14. ASSUME NEW t \in Threads, Lxd!CopyRead(t)
       PROVE  Lxd!IInv'
    <2> DEFINE n == req[t].name
    <2>1. n \in Names
        BY <1>1, <1>14 DEF Lxd!CopyRead, req
    <2>2. /\ UNCHANGED <<inst, wire, macs, shared>>
          /\ \/ Lxd!Answer(t)
             \/ /\ inst[n] # Absent /\ asked' = asked
                /\ Lxd!Then(t, [pc |-> "strip", name |-> n, object |-> inst[n]])
        BY <1>14 DEF Lxd!CopyRead, req, inst, wire, macs, shared, asked
    <2> HIDE DEF n
    <2>3. Daemon' /\ macs <= macs'
        BY <1>0, <1>1, <2>2, NothingChanges
    <2>4. inst[n] # Absent =>
             /\ [pc |-> "strip", name |-> n, object |-> inst[n]] \in Lxd!Request
             /\ [pc |-> "strip", name |-> n, object |-> inst[n]].object.mac <= macs
        BY <1>2, <2>1
    <2> QED
        BY <1>4, <1>5, <2>2, <2>3, <2>4
<1>15. ASSUME NEW t \in Threads, Lxd!CopyStrip(t)
       PROVE  Lxd!IInv'
    <2>1. req[t].name \in Names /\ req[t].object \in Lxd!Object
        BY <1>1, <1>15 DEF Lxd!CopyStrip, req
    <2>2. Lxd!Stripped(req[t].object) \in Lxd!Object /\ Lxd!Stripped(req[t].object).mac = 0
        BY <2>1 DEF Lxd!Stripped, Lxd!Object
    <2> PICK n \in Names, o \in Lxd!Object : n = req[t].name /\ o = Lxd!Stripped(req[t].object)
        BY <2>1, <2>2
    <2>3. /\ Lxd!Answer(t)
          /\ \/ UNCHANGED <<inst, wire, macs, shared>>
             \/ /\ inst' = [inst EXCEPT ![n] = o] /\ UNCHANGED <<wire, macs>>
                /\ shared' = IF wire[n] # 0 THEN shared ELSE shared \ {n}
        BY <1>15 DEF Lxd!CopyStrip, Lxd!Refused, Lxd!Put, Lxd!Running, req, inst, wire, macs, shared
    <2>4. Daemon' /\ macs <= macs'
        <3>1. CASE UNCHANGED <<inst, wire, macs, shared>>
            BY <1>0, <1>1, <3>1, NothingChanges
        <3>2. CASE /\ inst' = [inst EXCEPT ![n] = o] /\ UNCHANGED <<wire, macs>>
                   /\ shared' = IF wire[n] # 0 THEN shared ELSE shared \ {n}
            <4>1. shared' \subseteq Names /\ (\A k \in Names \ {n} : k \in shared' <=> k \in shared)
                BY <1>1, <3>2
            <4>2. n \notin shared' =>
                     IF n \in shared THEN wire[n] = 0 /\ o.mac = 0
                     ELSE o.mac = 0 \/ (inst[n] # Absent /\ inst[n].mac = o.mac)
                BY <2>2, <3>2
            <4>3. o.mac <= macs
                BY <1>1, <2>1, <2>2
            <4>4. inst' = [inst EXCEPT ![n] = o] /\ UNCHANGED <<wire, macs>>
                BY <3>2
            <4>5. Daemon'
                BY ONLY <1>0, <4>1, <4>2, <4>3, <4>4, PutKeeps
            <4> QED
                BY <1>1, <4>4, <4>5
        <3> QED
            BY <2>3, <3>1, <3>2
    <2> QED
        BY <1>4, <2>3, <2>4
<1>16. ASSUME NEW t \in Threads, Lxd!CopyFails(t)
       PROVE  Lxd!IInv'
    <2>1. Lxd!Answer(t) /\ UNCHANGED <<inst, wire, macs, shared>>
        BY <1>16 DEF Lxd!CopyFails, Lxd!Refused, inst, wire, macs, shared
    <2>2. Daemon' /\ macs <= macs'
        BY <1>0, <1>1, <2>1, NothingChanges
    <2> QED
        BY <1>4, <2>1, <2>2
<1>17. ASSUME NEW t \in Threads, NEW n \in Names, Lxd!RemoveRead(t, n)
       PROVE  Lxd!IInv'
    <2>1. /\ inst[n] # Absent /\ asked' = asked + 1 /\ UNCHANGED <<inst, wire, macs, shared>>
          /\ Lxd!Then(t, [pc |-> "remove", name |-> n, object |-> inst[n]])
        BY <1>17 DEF Lxd!RemoveRead, Lxd!Begin, inst, wire, macs, shared, asked
    <2>2. Daemon' /\ macs <= macs'
        BY <1>0, <1>1, <2>1, NothingChanges
    <2>3. /\ [pc |-> "remove", name |-> n, object |-> inst[n]] \in Lxd!Request
          /\ [pc |-> "remove", name |-> n, object |-> inst[n]].object.mac <= macs
        BY <1>2, <2>1
    <2> QED
        BY <1>5, <2>1, <2>2, <2>3
<1>18. ASSUME NEW t \in Threads, Lxd!RemovePut(t)
       PROVE  Lxd!IInv'
    <2> DEFINE kept == [req[t].object EXCEPT !.forward = FALSE]
    <2>1. req[t].name \in Names /\ req[t].object \in Lxd!Object /\ req[t].object.mac <= macs
        BY <1>0, <1>1, <1>18 DEF Lxd!RemovePut, Requesters, req, macs
    <2>2. kept \in Lxd!Object /\ kept.mac = req[t].object.mac
        BY <2>1 DEF Lxd!Object
    <2> PICK n \in Names, o \in Lxd!Object : n = req[t].name /\ o = kept
        BY <2>1, <2>2
    <2>3. /\ Lxd!Answer(t)
          /\ \/ UNCHANGED <<inst, wire, macs, shared>>
             \/ /\ inst[n] # Absent /\ inst' = [inst EXCEPT ![n] = o] /\ UNCHANGED <<wire, macs>>
                /\ shared' = IF inst[n].mac # req[t].object.mac THEN shared \cup {n} ELSE shared
        BY <1>18 DEF Lxd!RemovePut, Lxd!Refused, Lxd!Put, req, inst, wire, macs, shared
    <2>4. Daemon' /\ macs <= macs'
        <3>1. CASE UNCHANGED <<inst, wire, macs, shared>>
            BY <1>0, <1>1, <3>1, NothingChanges
        <3>2. CASE /\ inst[n] # Absent /\ inst' = [inst EXCEPT ![n] = o] /\ UNCHANGED <<wire, macs>>
                   /\ shared' = IF inst[n].mac # req[t].object.mac THEN shared \cup {n} ELSE shared
            <4>1. shared' \subseteq Names /\ (\A k \in Names \ {n} : k \in shared' <=> k \in shared)
                BY <1>1, <2>1, <3>2
            <4>2. n \notin shared' =>
                     IF n \in shared THEN wire[n] = 0 /\ o.mac = 0
                     ELSE o.mac = 0 \/ (inst[n] # Absent /\ inst[n].mac = o.mac)
                BY <2>2, <3>2
            <4>3. o.mac <= macs
                BY <1>1, <2>1, <2>2
            <4>4. inst' = [inst EXCEPT ![n] = o] /\ UNCHANGED <<wire, macs>>
                BY <3>2
            <4>5. Daemon'
                BY ONLY <1>0, <4>1, <4>2, <4>3, <4>4, PutKeeps
            <4> QED
                BY <1>1, <4>4, <4>5
        <3> QED
            BY <2>3, <3>1, <3>2
    <2> QED
        BY <1>4, <2>3, <2>4
<1>19. CASE UNCHANGED Lxd!vars
    BY <1>19 DEF Lxd!vars, Lxd!IInv, Lxd!TypeOK, Lxd!GoneIsOff, Lxd!Running, Lxd!HandedOut,
                 Lxd!Disjoint, Lxd!Held
<1> QED
    BY <1>6, <1>7, <1>8, <1>9, <1>10, <1>11, <1>12, <1>13, <1>14, <1>15, <1>16, <1>17, <1>18, <1>19
       DEF Lxd!Next

\* MacsDiffer: two running instances do not use one address, however copies, renames,
\* starts and device removals of several threads interleave, except for the copies that
\* MacsDiffer of Instances names (instance_copy, instance_device_remove).
THEOREM AddressesApart == Spec => []MacsDiffer
<1>1. (which = "Lxd" => Lxd!IInv) => MacsDiffer
    <2> SUFFICES ASSUME Lxd!IInv, NEW n \in Names, NEW m \in Names, n # m, wire[n] # 0, wire[n] = wire[m],
                        {n, m} \cap shared = {}
                 PROVE  FALSE
        BY DEF MacsDiffer, Lxd!MacsDiffer, Lxd!Running
    <2>1. wire[n] \in Lxd!Held(n) /\ wire[n] \in Lxd!Held(m)
        BY DEF Lxd!Held
    <2> QED
        BY <2>1 DEF Lxd!IInv, Lxd!Disjoint
<1>2. Init => (which = "Lxd" => Lxd!IInv)
    BY InstanceInit DEF Init
<1>3. (which = "Lxd" => Lxd!IInv) /\ [Next]_vars => (which = "Lxd" => Lxd!IInv)'
    BY InstanceStep, ComponentStep
<1> QED
    BY <1>1, <1>2, <1>3, PTL DEF Spec
=============================================================================
