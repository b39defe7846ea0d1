---------------------------- MODULE Docker_proofs ----------------------------
(***************************************************************************)
(* Theorems of MCPlatform about the containers page, for all of its        *)
(* constants. The variables are named as Docker names them.                *)
(***************************************************************************)
EXTENDS MCPlatform, TLAPS

cts == s1
tag == s2
registry == s3
th == s4
made == s5
requests == s6
faults == s7
want == s8
data == s9
mixed == s10
USE DEF cts, tag, registry, th, made, requests, faults, want, data, mixed

\* A behaviour stays with its component and takes the component's steps.
LEMMA ComponentStep ==
    ASSUME [Next]_vars
    PROVE  which' = which /\ (which = "Doc" => [Doc!Next]_(Doc!vars))
BY DEF Next, vars, Doc!vars

LEMMA DockerBounds ==
    /\ MaxContainers \in Nat /\ MaxContainers > 0 /\ DockerRequests \in Nat /\ DockerFaults \in Nat
    /\ Absent \notin Doc!Container /\ Absent \notin Nat
BY BoundsAssumption, PositiveAssumption, AbsentAssumption, AbsentIsNone

----------------------------------------------------------------------------
(* The states of a request, and what a container keeps *)

Calls == {"compose", "stop", "park", "restart", "replace", "start", "settle", "drop",
          "unpark", "remove"}

\* What Replacement asks of the new container at a call.
Allows(r, p) ==
    /\ p \in {"compose", "stop", "park", "replace"} => r.new = Absent
    /\ p \in {"start", "settle", "remove"} => r.new # Absent
Shape ==
    [pc : Calls, id : Doc!Ids, new : Doc!Ids \cup {Absent}, name : {"app", "parked"},
     up : BOOLEAN, rm : BOOLEAN, vol : Doc!Ids]

LEMMA DockerRequestStates ==
    /\ Doc!Idle \in Doc!Request /\ Doc!Idle.pc = "idle" /\ Doc!Replacement \subseteq Doc!Request
    /\ \A b \in BOOLEAN : [pc |-> "pull", create |-> b] \in Doc!Request
    /\ \A b \in BOOLEAN : [pc |-> "create", retry |-> b] \in Doc!Request
    /\ \A c \in Doc!Ids : [pc |-> "startnew", id |-> c] \in Doc!Request
    /\ \A r \in Doc!Request :
          /\ r.pc \in {"idle", "pull", "create", "startnew"} \cup Calls
          /\ r.pc = "idle" => r = Doc!Idle
          /\ r.pc = "pull" => r.create \in BOOLEAN
          /\ r.pc = "create" => r.retry \in BOOLEAN
          /\ r.pc = "startnew" => r.id \in Doc!Ids
          /\ r.pc \in Calls <=> r \in Doc!Replacement
BY DEF Doc!Request, Doc!Replacement, Doc!Idle, Calls

LEMMA ReplacementStates ==
    ASSUME NEW r \in Doc!Replacement
    PROVE  /\ r.pc \in Calls /\ r.id \in Doc!Ids /\ r.new \in Doc!Ids \cup {Absent}
           /\ r.name \in {"app", "parked"} /\ r.up \in BOOLEAN /\ r.rm \in BOOLEAN /\ r.vol \in Doc!Ids
           /\ r.pc \in {"compose", "stop", "park", "replace"} => r.new = Absent
           /\ r.pc \in {"start", "settle", "remove"} => r.new # Absent
           /\ \A p \in Calls :
                 /\ Allows(r, p) => [r EXCEPT !.pc = p] \in Doc!Replacement
                 /\ [r EXCEPT !.pc = p].pc = p
                 /\ [r EXCEPT !.pc = p].id = r.id /\ [r EXCEPT !.pc = p].new = r.new
                 /\ [r EXCEPT !.pc = p].name = r.name /\ [r EXCEPT !.pc = p].up = r.up
                 /\ [r EXCEPT !.pc = p].rm = r.rm /\ [r EXCEPT !.pc = p].vol = r.vol
<1>1. r \in Shape /\ Allows(r, r.pc)
    BY DEF Doc!Replacement, Shape, Allows, Calls
<1>2. /\ r.pc \in Calls /\ r.id \in Doc!Ids /\ r.new \in Doc!Ids \cup {Absent}
      /\ r.name \in {"app", "parked"} /\ r.up \in BOOLEAN /\ r.rm \in BOOLEAN /\ r.vol \in Doc!Ids
    BY <1>1 DEF Shape
<1>3. ASSUME NEW p \in Calls
      PROVE  /\ [r EXCEPT !.pc = p] \in Shape
             /\ [r EXCEPT !.pc = p].pc = p
             /\ [r EXCEPT !.pc = p].id = r.id /\ [r EXCEPT !.pc = p].new = r.new
             /\ [r EXCEPT !.pc = p].name = r.name /\ [r EXCEPT !.pc = p].up = r.up
             /\ [r EXCEPT !.pc = p].rm = r.rm /\ [r EXCEPT !.pc = p].vol = r.vol
    BY <1>1 DEF Shape
<1>4. \A x \in Shape : Allows(x, x.pc) => x \in Doc!Replacement
    BY DEF Doc!Replacement, Shape, Allows, Calls
<1>5. ASSUME NEW p \in Calls, Allows(r, p)
      PROVE  [r EXCEPT !.pc = p] \in Doc!Replacement
    <2> DEFINE x == [r EXCEPT !.pc = p]
    <2>1. x \in Shape /\ x.pc = p /\ x.new = r.new
        BY <1>3
    <2> HIDE DEF x
    <2>2. Allows(x, x.pc)
        BY <1>5, <2>1 DEF Allows
    <2>3. x \in Doc!Replacement
        BY <1>4, <2>1, <2>2
    <2> QED
        BY <2>3 DEF x
<1>6. /\ r.pc \in {"compose", "stop", "park", "replace"} => r.new = Absent
      /\ r.pc \in {"start", "settle", "remove"} => r.new # Absent
    BY <1>1 DEF Allows
<1> QED
    BY <1>2, <1>3, <1>5, <1>6

LEMMA IdsType == Doc!Ids = 1..MaxContainers /\ 1 \in Doc!Ids /\ Absent \notin Doc!Ids
BY DockerBounds DEF Doc!Ids

\* The same containers, whatever they are called and whether they run.
Same ==
    /\ cts' \in [Doc!Ids -> {Absent} \cup Doc!Container]
    /\ \A c \in Doc!Ids :
          /\ cts'[c] # Absent <=> cts[c] # Absent
          /\ cts[c] # Absent =>
                cts'[c].vol = cts[c].vol /\ cts'[c].image = cts[c].image /\ cts'[c].rm = cts[c].rm

LEMMA SameContainers ==
    ASSUME Doc!IInv, NEW c \in Doc!Ids, cts[c] # Absent
    PROVE  /\ cts' = cts => Same
           /\ \A b \in BOOLEAN : cts' = [cts EXCEPT ![c].up = b] => Same
           /\ \A n \in {"app", "parked"} : cts' = [cts EXCEPT ![c].name = n] => Same
           /\ cts' = Doc!Stopped(c) => cts' = [cts EXCEPT ![c].up = FALSE]
<1> USE DockerBounds
<1>1. cts \in [Doc!Ids -> {Absent} \cup Doc!Container] /\ cts[c] \in Doc!Container /\ ~cts[c].rm
    BY DEF Doc!IInv, Doc!TypeOK, Doc!NoneAutoRemoved, Doc!Here
<1>2. cts' = cts => Same
    BY <1>1 DEF Same
<1>3. ASSUME NEW b \in BOOLEAN, cts' = [cts EXCEPT ![c].up = b]
      PROVE  Same
    <2> DEFINE new == [cts[c] EXCEPT !.up = b]
    <2>1. new \in Doc!Container /\ new.vol = cts[c].vol /\ new.image = cts[c].image /\ new.rm = cts[c].rm
        BY <1>1 DEF Doc!Container
    <2>2. cts' = [cts EXCEPT ![c] = new]
        BY <1>3
    <2> HIDE DEF new
    <2> QED
        BY <1>1, <2>1, <2>2 DEF Same
<1>4. ASSUME NEW n \in {"app", "parked"}, cts' = [cts EXCEPT ![c].name = n]
      PROVE  Same
    <2> DEFINE new == [cts[c] EXCEPT !.name = n]
    <2>1. new \in Doc!Container /\ new.vol = cts[c].vol /\ new.image = cts[c].image /\ new.rm = cts[c].rm
        BY <1>1 DEF Doc!Container
    <2>2. cts' = [cts EXCEPT ![c] = new]
        BY <1>4
    <2> HIDE DEF new
    <2> QED
        BY <1>1, <2>1, <2>2 DEF Same
<1>5. cts' = Doc!Stopped(c) => cts' = [cts EXCEPT ![c].up = FALSE]
    BY <1>1 DEF Doc!Stopped
<1> QED
    BY <1>2, <1>3, <1>4, <1>5

----------------------------------------------------------------------------
(* The invariant of DataKept *)

LEMMA DockerInit ==
    ASSUME Doc!Init
    PROVE  Doc!IInv
<1> USE DockerBounds, IdsType, DockerRequestStates
<1>1. PICK up, rm \in BOOLEAN :
         /\ ~rm /\ want = up
         /\ cts = [c \in Doc!Ids |->
                     IF c = 1 THEN [name |-> "app", image |-> 1, up |-> up, rm |-> rm, vol |-> 1]
                     ELSE Absent]
    BY DEF Doc!Init
<1>2. /\ tag = 1 /\ registry = 1 /\ th = [t \in Threads |-> Doc!Idle]
      /\ made = 1 /\ requests = 0 /\ faults = 0 /\ data = 1 /\ mixed = "none"
    BY DEF Doc!Init
<1> DEFINE first == [name |-> "app", image |-> 1, up |-> up, rm |-> rm, vol |-> 1]
<1>3. first \in Doc!Container /\ first.vol = 1 /\ first.rm = FALSE
    BY <1>1 DEF Doc!Container, Doc!Image
<1>4. cts = [c \in Doc!Ids |-> IF c = 1 THEN first ELSE Absent]
    BY <1>1
<1> HIDE DEF first
<1>5. cts \in [Doc!Ids -> {Absent} \cup Doc!Container] /\ cts[1] = first /\ \A c \in Doc!Ids : c # 1 => cts[c] = Absent
    BY <1>3, <1>4
<1>6. \A t \in Threads : th[t] = Doc!Idle /\ th[t] \notin Doc!Replacement
    BY <1>2 DEF Calls
<1>7. Doc!TypeOK
    BY <1>1, <1>2, <1>5 DEF Doc!TypeOK, Doc!Image
<1>8. Doc!NoneAutoRemoved /\ Doc!IdsAreMade
    BY <1>2, <1>3, <1>5, <1>6 DEF Doc!NoneAutoRemoved, Doc!IdsAreMade, Doc!Here
<1>9. Doc!OnlyClones /\ Doc!Faithfully
    BY <1>6 DEF Doc!OnlyClones, Doc!Faithfully, Doc!Faithful, Doc!HasNew
<1>10. Doc!Settled(1) /\ cts[1].vol = data
    BY <1>2, <1>3, <1>5, <1>6 DEF Doc!Settled, Doc!Here, Doc!HasNew
<1>11. Doc!DataSettled
    BY <1>10 DEF Doc!DataSettled
<1> QED
    BY <1>7, <1>8, <1>9, <1>11 DEF Doc!IInv

\* A step after which no replacement is under way, unless requests overlapped.
LEMMA Quiet ==
    ASSUME Doc!TypeOK', Doc!NoneAutoRemoved', Doc!IdsAreMade',
           mixed' # "other" =>
               /\ \A o \in Threads : th'[o] \notin Doc!Replacement
               /\ \A o, p \in Threads : o # p => th'[o] = Doc!Idle \/ th'[p] = Doc!Idle
               /\ data' # 0 => \E c \in Doc!Ids : cts'[c] # Absent /\ cts'[c].vol = data'
    PROVE  Doc!IInv'
<1>1. Doc!OnlyClones'
    BY DEF Doc!OnlyClones
<1>2. Doc!Faithfully'
    BY DEF Doc!Faithfully, Doc!Faithful, Doc!HasNew
<1>3. Doc!DataSettled'
    BY DEF Doc!DataSettled, Doc!Settled, Doc!Here, Doc!HasNew
<1> QED
    BY <1>1, <1>2, <1>3 DEF Doc!IInv

\* What the start of a request says of the others.
LEMMA Begins ==
    ASSUME Doc!IInv, NEW t \in Threads, NEW r \in Doc!Request, NEW kind, Doc!Begin(t, r, kind)
    PROVE  /\ th[t] = Doc!Idle /\ th' = [th EXCEPT ![t] = r] /\ th' \in [Threads -> Doc!Request]
           /\ requests' \in Nat /\ mixed' \in {"none", "blurred", "other"}
           /\ mixed' # "other" => mixed # "other"
           /\ mixed' # "other" /\ kind # "recreate" =>
                 \A o \in Threads \ {t} : th[o] = Doc!Idle /\ th'[o] = Doc!Idle
           /\ mixed' # "other" => \A o \in Threads \ {t} : th[o] = Doc!Idle \/ Doc!Recreating(o)
<1> DEFINE others == {o \in Threads \ {t} : th[o] # Doc!Idle}
<1>1. /\ th[t] = Doc!Idle /\ th' = [th EXCEPT ![t] = r] /\ requests' = requests + 1
      /\ mixed' = IF others = {} THEN mixed
                  ELSE IF kind = "recreate" /\ mixed # "other" /\ \A o \in others : Doc!Recreating(o)
                  THEN "blurred" ELSE "other"
    BY DEF Doc!Begin, Doc!Goto
<1>2. /\ th \in [Threads -> Doc!Request] /\ requests \in Nat /\ mixed \in {"none", "blurred", "other"}
    BY DEF Doc!IInv, Doc!TypeOK
<1>2a. th' \in [Threads -> Doc!Request] /\ requests' \in Nat
    BY <1>1, <1>2
<1>3. CASE others = {}
    <2>1. mixed' = mixed
        BY <1>1, <1>3
    <2>2. \A o \in Threads \ {t} : th[o] = Doc!Idle /\ th'[o] = Doc!Idle
        BY <1>1, <1>2, <1>3
    <2> QED
        BY <1>1, <1>2, <2>1, <2>2
<1>4. CASE others # {} /\ kind = "recreate" /\ (\A o \in others : Doc!Recreating(o)) /\ mixed # "other"
    <2>1. mixed' = "blurred"
        BY <1>1, <1>4
    <2> QED
        BY <1>1, <1>2, <1>4, <2>1
<1>5. CASE others # {} /\ ~(kind = "recreate" /\ (\A o \in others : Doc!Recreating(o)) /\ mixed # "other")
    <2>1. mixed' = "other"
        BY <1>1, <1>5
    <2>2. th[t] = Doc!Idle /\ th' = [th EXCEPT ![t] = r]
        BY <1>1
    <2> QED
        BY ONLY <1>2a, <2>1, <2>2
<1> QED
    BY <1>3, <1>4, <1>5

\* The parts of the invariant, named for the steps below.
LEMMA DockerParts ==
    ASSUME Doc!IInv
    PROVE  /\ cts \in [Doc!Ids -> {Absent} \cup Doc!Container]
           /\ tag \in {1, 2, Absent} /\ registry \in {1, 2}
           /\ th \in [Threads -> Doc!Request]
           /\ made \in Doc!Ids /\ made \in Nat /\ requests \in Nat /\ faults \in Nat
           /\ want \in BOOLEAN /\ mixed \in {"none", "blurred", "other"}
           /\ data \in 0..MaxContainers
           /\ \A c \in Doc!Ids : cts[c] # Absent => cts[c] \in Doc!Container /\ ~cts[c].rm /\ c <= made
           /\ \A t \in Threads : th[t] \in Doc!Replacement => ~th[t].rm
BY DockerBounds, IdsType
   DEF Doc!IInv, Doc!TypeOK, Doc!Image, Doc!NoneAutoRemoved, Doc!IdsAreMade, Doc!Here

\* The history is blurred at most.
Alike == mixed' \in {"none", "blurred", "other"} /\ (mixed' = "other" <=> mixed = "other")

LEMMA Blurs ==
    ASSUME Doc!IInv
    PROVE  /\ mixed' = mixed => Alike
           /\ Doc!Blur => Alike /\ mixed' # "none"
BY DockerParts DEF Alike, Doc!Blur

\* A request of one call, and one that is not a replacement by clone, while nothing overlaps.
LEMMA OneCall ==
    ASSUME Doc!IInv, NEW t \in Threads, NEW r \in Doc!Request, r \notin Doc!Replacement,
           NEW kind, kind # "recreate", Doc!Begin(t, r, kind),
           Same, tag' \in {1, 2, Absent}, UNCHANGED <<registry, made, faults, data>>, want' \in BOOLEAN
    PROVE  Doc!IInv'
<1> USE DockerParts
<1>1. th' \in [Threads -> Doc!Request] /\ requests' \in Nat /\ mixed' \in {"none", "blurred", "other"}
    BY Begins
<1>2. Doc!TypeOK'
    BY <1>1 DEF Doc!TypeOK, Same, Doc!Image
<1>3. Doc!NoneAutoRemoved' /\ Doc!IdsAreMade'
    BY Begins DEF Doc!NoneAutoRemoved, Doc!IdsAreMade, Doc!Here, Same
<1>4. ASSUME mixed' # "other"
      PROVE  /\ \A o \in Threads : th'[o] \notin Doc!Replacement
             /\ \A o, p \in Threads : o # p => th'[o] = Doc!Idle \/ th'[p] = Doc!Idle
             /\ data' # 0 => \E c \in Doc!Ids : cts'[c] # Absent /\ cts'[c].vol = data'
    <2>1. /\ mixed # "other" /\ th'[t] = r
          /\ \A o \in Threads \ {t} : th'[o] = Doc!Idle
        BY <1>4, Begins
    <2>2. Doc!Idle \notin Doc!Replacement
        BY DockerRequestStates DEF Calls
    <2>3. data # 0 => \E c \in Doc!Ids : cts[c] # Absent /\ cts[c].vol = data
        BY <2>1 DEF Doc!IInv, Doc!DataSettled, Doc!Settled, Doc!Here
    <2>4. data' # 0 => \E c \in Doc!Ids : cts'[c] # Absent /\ cts'[c].vol = data'
        BY <2>3 DEF Same
    <2> QED
        BY <2>1, <2>2, <2>4
<1> QED
    BY <1>2, <1>3, <1>4, Quiet

\* While nothing overlaps, a request that is not a replacement by clone is the only one.
LEMMA Alone ==
    ASSUME Doc!IInv, NEW t \in Threads, th[t].pc \in {"pull", "create", "startnew", "compose"},
           mixed # "other"
    PROVE  \A o \in Threads \ {t} : th[o] = Doc!Idle
<1>1. th[t] # Doc!Idle /\ ~Doc!Recreating(t)
    BY DockerRequestStates DEF Doc!Recreating
<1> QED
    BY <1>1 DEF Doc!IInv, Doc!OnlyClones

\* Such a request moves on.
LEMMA AloneMoves ==
    ASSUME Doc!IInv, NEW t \in Threads, th[t].pc \in {"pull", "create", "startnew", "compose"},
           NEW r \in Doc!Request, r \notin Doc!Replacement, th' = [th EXCEPT ![t] = r],
           Doc!TypeOK', Doc!NoneAutoRemoved', Doc!IdsAreMade', Alike,
           mixed # "other" /\ data' # 0 => \E c \in Doc!Ids : cts'[c] # Absent /\ cts'[c].vol = data'
    PROVE  Doc!IInv'
<1>1. ASSUME mixed' # "other"
      PROVE  /\ \A o \in Threads : th'[o] \notin Doc!Replacement
             /\ \A o, p \in Threads : o # p => th'[o] = Doc!Idle \/ th'[p] = Doc!Idle
    <2>1. th'[t] = r /\ \A o \in Threads \ {t} : th'[o] = Doc!Idle
        BY <1>1, Alone, DockerParts DEF Alike
    <2>2. Doc!Idle \notin Doc!Replacement
        BY DockerRequestStates DEF Calls
    <2> QED
        BY <2>1, <2>2
<1> QED
    BY <1>1, Quiet DEF Alike

LEMMA AloneKeepsData ==
    ASSUME Doc!IInv, Same, data' = data, mixed # "other", data' # 0
    PROVE  \E c \in Doc!Ids : cts'[c] # Absent /\ cts'[c].vol = data'
<1>1. \E c \in Doc!Ids : cts[c] # Absent /\ cts[c].vol = data
    BY DEF Doc!IInv, Doc!DataSettled, Doc!Settled, Doc!Here
<1> QED
    BY <1>1 DEF Same

----------------------------------------------------------------------------
(* The steps of a replacement by clone *)

\* No container more, and those that stay keep their volume and image.
Fewer ==
    /\ cts' \in [Doc!Ids -> {Absent} \cup Doc!Container]
    /\ \A c \in Doc!Ids : cts'[c] # Absent =>
          /\ cts[c] # Absent
          /\ cts'[c].vol = cts[c].vol /\ cts'[c].image = cts[c].image /\ cts'[c].rm = cts[c].rm

\* Where a replacement may go next: its container is known from the moment it is made,
\* and what it may still drop was not in service before.
Onward(s, r) ==
    \/ r = Doc!Idle
    \/ \E p \in Calls \ {"compose"} :
          /\ r = [s EXCEPT !.pc = p] /\ Allows(s, p)
          /\ p \in {"start", "settle", "drop"} => s.pc \in {"start", "settle", "drop"} \/ s.new = Absent

LEMMA Onwards ==
    ASSUME NEW s \in Doc!Replacement, s.pc # "compose", NEW r, Onward(s, r)
    PROVE  /\ r \in Doc!Request
           /\ r = Doc!Idle \/ (r \in Doc!Replacement /\ r.new = s.new)
           /\ r \in Doc!Replacement =>
                 /\ r.pc \in Calls \ {"compose"}
                 /\ r.id = s.id /\ r.new = s.new /\ r.vol = s.vol /\ r.rm = s.rm
                 /\ r.pc \in {"stop", "park", "replace"} => r.new = Absent
                 /\ r.pc \in {"start", "settle", "remove"} => r.new # Absent
                 /\ r.pc \in {"start", "settle", "drop"} => s.pc \in {"start", "settle", "drop"} \/ r.new = Absent
           /\ r.pc \in {"start", "settle", "remove"} => r \in Doc!Replacement /\ r.new \in Doc!Ids
<1> USE DockerRequestStates
<1>0. s.new \in Doc!Ids \cup {Absent} /\ Doc!Idle \notin Doc!Replacement
    BY ReplacementStates DEF Calls
<1>1. CASE r = Doc!Idle
    BY <1>0, <1>1
<1>2. ASSUME NEW p \in Calls \ {"compose"}, r = [s EXCEPT !.pc = p], Allows(s, p),
             p \in {"start", "settle", "drop"} => s.pc \in {"start", "settle", "drop"} \/ s.new = Absent
      PROVE  /\ r \in Doc!Replacement /\ r.pc = p
             /\ r.id = s.id /\ r.new = s.new /\ r.vol = s.vol /\ r.rm = s.rm
    BY <1>2, ReplacementStates
<1> QED
    BY <1>0, <1>1, <1>2, ReplacementStates DEF Onward

LEMMA CloneStep ==
    ASSUME Doc!IInv, NEW t \in Threads, th[t] \in Doc!Replacement, th[t].pc # "compose", Fewer,
           NEW r, Onward(th[t], r), th' = [th EXCEPT ![t] = r], faults' \in Nat,
           UNCHANGED <<tag, registry, made, requests, want, data>>, Alike,
           r.pc = "remove" => cts'[r.new] # Absent,
           mixed # "other" =>
               \A o \in Threads \ {t} : th[o] \in Doc!Replacement /\ th[o].pc = "remove" => cts'[th[o].new] # Absent,
           mixed # "other" /\ data # 0 =>
               \E c \in Doc!Ids : Doc!Settled(c) /\ cts[c].vol = data /\ cts'[c] # Absent
    PROVE  Doc!IInv'
<1> USE DockerParts, IdsType
<1>1. /\ r \in Doc!Request
      /\ r \in Doc!Replacement =>
            /\ r.pc \in Calls \ {"compose"}
            /\ r.id = th[t].id /\ r.new = th[t].new /\ r.vol = th[t].vol /\ r.rm = th[t].rm
            /\ r.pc \in {"stop", "park", "replace"} => r.new = Absent
            /\ r.pc \in {"start", "settle", "remove"} => r.new # Absent
            /\ r.pc \in {"start", "settle", "drop"} => th[t].pc \in {"start", "settle", "drop"} \/ r.new = Absent
      /\ r \notin Doc!Replacement => r = Doc!Idle
    BY Onwards
<1>2. th' \in [Threads -> Doc!Request] /\ th'[t] = r /\ \A o \in Threads \ {t} : th'[o] = th[o]
    BY <1>1
<1>3. Doc!TypeOK'
    BY <1>2 DEF Doc!TypeOK, Fewer, Doc!Image, Alike
<1>4. Doc!NoneAutoRemoved' /\ Doc!IdsAreMade'
    BY <1>1, <1>2 DEF Doc!NoneAutoRemoved, Doc!IdsAreMade, Doc!Here, Fewer
<1>5. Doc!OnlyClones'
    <2>1. \A o \in Threads : th'[o] # Doc!Idle => th[o] # Doc!Idle
        BY <1>2, DockerRequestStates DEF Calls
    <2>2. \A o \in Threads : Doc!Recreating(o) => th'[o] = Doc!Idle \/ Doc!Recreating(o)'
        BY <1>1, <1>2 DEF Doc!Recreating, Calls
    <2> QED
        BY <2>1, <2>2 DEF Doc!IInv, Doc!OnlyClones, Alike
<1>6. Doc!Faithfully'
    <2> SUFFICES ASSUME mixed # "other"
                 PROVE  /\ \A o \in Threads : Doc!Faithful(o)'
                        /\ \A o, p \in Threads :
                              o # p /\ Doc!HasNew(o)' /\ th'[p] \in Doc!Replacement =>
                                  th'[o].new # th'[p].id /\ th'[o].new # th'[p].new
        BY DEF Doc!Faithfully, Doc!Old, Alike
    <2>1. /\ \A o \in Threads : Doc!Faithful(o)
          /\ \A o, p \in Threads :
                o # p /\ Doc!HasNew(o) /\ th[p] \in Doc!Replacement =>
                    th[o].new # th[p].id /\ th[o].new # th[p].new
        BY DEF Doc!IInv, Doc!Faithfully, Doc!Old
    <2>2. \A o \in Threads : th'[o] \in Doc!Replacement =>
              th[o] \in Doc!Replacement /\ th'[o].id = th[o].id /\ th'[o].new = th[o].new
        BY <1>1, <1>2
    <2>3. Doc!Faithful(t)'
        <3> SUFFICES ASSUME r \in Doc!Replacement
                     PROVE  Doc!Faithful(t)'
            BY <1>2 DEF Doc!Faithful, Doc!HasNew
        <3>1. th[t].id \in Doc!Ids /\ th[t].new \in Doc!Ids \cup {Absent}
            BY ReplacementStates
        <3> QED
            BY <1>1, <1>2, <2>1, <3>1 DEF Doc!Faithful, Doc!HasNew, Doc!Here, Doc!Old, Fewer
    <2>4. ASSUME NEW o \in Threads \ {t}
          PROVE  Doc!Faithful(o)'
        <3>1. th[o] \in Doc!Replacement => th[o].id \in Doc!Ids /\ th[o].new \in Doc!Ids \cup {Absent}
            BY ReplacementStates
        <3> QED
            BY <1>2, <2>1, <2>4, <3>1 DEF Doc!Faithful, Doc!HasNew, Doc!Here, Doc!Old, Fewer
    <2>5. \A o \in Threads : Doc!Faithful(o)'
        BY <2>3, <2>4
    <2> QED
        BY <2>1, <2>2, <2>5 DEF Doc!HasNew
<1>7. Doc!DataSettled'
    <2> SUFFICES ASSUME mixed # "other", data # 0
                 PROVE  \E c \in Doc!Ids : Doc!Settled(c)' /\ cts'[c].vol = data
        BY DEF Doc!DataSettled, Alike
    <2>1. PICK c \in Doc!Ids : Doc!Settled(c) /\ cts[c].vol = data /\ cts'[c] # Absent
        OBVIOUS
    <2>2. cts'[c].vol = data
        BY <2>1 DEF Fewer
    <2>3. ASSUME NEW o \in Threads, Doc!HasNew(o)', th'[o].pc \in {"start", "settle", "drop"}
          PROVE  th'[o].new # c
        <3>1. CASE o = t
            BY <1>1, <1>2, <2>1, <2>3, <3>1 DEF Doc!Settled, Doc!HasNew
        <3>2. CASE o # t
            BY <1>2, <2>1, <2>3, <3>2 DEF Doc!Settled, Doc!HasNew
        <3> QED
            BY <3>1, <3>2
    <2> QED
        BY <2>1, <2>2, <2>3 DEF Doc!Settled, Doc!Here
<1> QED
    BY <1>3, <1>4, <1>5, <1>6, <1>7 DEF Doc!IInv

\* A step that leaves every container.
LEMMA CloneKeeps ==
    ASSUME Doc!IInv, NEW t \in Threads, th[t] \in Doc!Replacement, th[t].pc # "compose", Same,
           NEW r, Onward(th[t], r), th' = [th EXCEPT ![t] = r], faults' \in Nat,
           UNCHANGED <<tag, registry, made, requests, want, data>>, Alike,
           r.pc = "remove" => cts[r.new] # Absent
    PROVE  Doc!IInv'
<1>0. /\ r = Doc!Idle \/ (r \in Doc!Replacement /\ r.new = th[t].new)
      /\ r.pc \in {"start", "settle", "remove"} => r \in Doc!Replacement /\ r.new \in Doc!Ids
    BY Onwards
<1>1. Fewer
    BY DEF Fewer, Same
<1>3. ASSUME r.pc = "remove"
      PROVE  cts'[r.new] # Absent
    <2>1. r \in Doc!Replacement /\ r.new \in Doc!Ids
        BY <1>0, <1>3
    <2> QED
        BY <1>3, <2>1 DEF Same
<1>4. ASSUME mixed # "other", NEW o \in Threads \ {t}, th[o] \in Doc!Replacement, th[o].pc = "remove"
      PROVE  cts'[th[o].new] # Absent
    <2>1. Doc!Faithful(o)
        BY <1>4 DEF Doc!IInv, Doc!Faithfully
    <2>2. th[o].new \in Doc!Ids /\ cts[th[o].new] # Absent
        BY <1>4, <2>1, ReplacementStates DEF Doc!Faithful, Doc!Here
    <2> QED
        BY <2>2 DEF Same
<1>5. ASSUME mixed # "other", data # 0
      PROVE  \E c \in Doc!Ids : Doc!Settled(c) /\ cts[c].vol = data /\ cts'[c] # Absent
    BY <1>5 DEF Doc!IInv, Doc!DataSettled, Doc!Settled, Doc!Here, Same
<1> QED
    BY <1>1, <1>3, <1>4, <1>5, CloneStep

\* The ways from one call of a replacement to the next.
Paths ==
    {<<"stop", "park">>, <<"park", "replace">>, <<"park", "restart">>, <<"replace", "drop">>,
     <<"start", "settle">>, <<"start", "drop">>, <<"settle", "settle">>, <<"settle", "remove">>,
     <<"settle", "drop">>, <<"drop", "unpark">>, <<"unpark", "restart">>}
Moves(s, r) ==
    \/ r = Doc!Idle
    \/ \E p \in Calls \ {"compose"} : <<s.pc, p>> \in Paths /\ r = [s EXCEPT !.pc = p]

LEMMA MovesOnward ==
    ASSUME NEW s \in Doc!Replacement, NEW r, Moves(s, r)
    PROVE  Onward(s, r)
<1>1. ASSUME NEW p \in Calls \ {"compose"}, <<s.pc, p>> \in Paths, r = [s EXCEPT !.pc = p]
      PROVE  Onward(s, r)
    <2>1. /\ p \in {"compose", "stop", "park", "replace"} => s.pc \in {"stop", "park", "replace"}
          /\ p \in {"start", "settle", "remove"} => s.pc \in {"start", "settle", "remove"}
          /\ p \in {"start", "settle", "drop"} => s.pc \in {"start", "settle", "drop", "replace"}
        BY <1>1 DEF Paths
    <2>2. /\ s.pc \in {"compose", "stop", "park", "replace"} => s.new = Absent
          /\ s.pc \in {"start", "settle", "remove"} => s.new # Absent
        BY ReplacementStates
    <2> QED
        BY <1>1, <2>1, <2>2 DEF Onward, Allows
<1> QED
    BY <1>1 DEF Moves, Onward

\* Once other requests got in between, only the types are left to keep.
LEMMA Blurred ==
    ASSUME Doc!IInv, mixed = "other", NEW t \in Threads, th[t] \in Doc!Replacement,
           th[t].pc # "compose", Fewer,
           NEW r, Moves(th[t], r), th' = [th EXCEPT ![t] = r], faults' \in Nat,
           UNCHANGED <<tag, registry, made, requests, want, data>>, Alike
    PROVE  Doc!IInv'
<1>1. r \in Doc!Request /\ (r \in Doc!Replacement => r.rm = th[t].rm)
    BY MovesOnward, Onwards
<1>2. th' \in [Threads -> Doc!Request] /\ (\A o \in Threads : th'[o] \in Doc!Replacement => ~th'[o].rm)
    BY <1>1, DockerParts
<1>3. Doc!TypeOK'
    BY <1>2, DockerParts DEF Doc!TypeOK, Doc!Image, Fewer, Alike
<1>4. Doc!NoneAutoRemoved' /\ Doc!IdsAreMade'
    BY <1>2, DockerParts DEF Doc!NoneAutoRemoved, Doc!IdsAreMade, Doc!Here, Fewer
<1> QED
    BY <1>3, <1>4, Quiet DEF Alike

\* A step that leaves every container,
LEMMA CloneMoves ==
    ASSUME Doc!IInv, NEW t \in Threads, th[t] \in Doc!Replacement, th[t].pc # "compose", Same,
           NEW r, Moves(th[t], r), th' = [th EXCEPT ![t] = r], faults' \in Nat,
           UNCHANGED <<tag, registry, made, requests, want, data>>, Alike,
           r.pc = "remove" => cts[r.new] # Absent
    PROVE  Doc!IInv'
<1>1. Fewer
    BY DEF Fewer, Same
<1>2. CASE mixed = "other"
    BY <1>1, <1>2, Blurred
<1>3. CASE mixed # "other"
    BY <1>3, MovesOnward, CloneKeeps
<1> QED
    BY <1>2, <1>3

\* and one that deletes a container, which none that is about to remove relies on.
LEMMA CloneDeletes ==
    ASSUME Doc!IInv, NEW t \in Threads, th[t] \in Doc!Replacement, th[t].pc # "compose",
           NEW c \in Doc!Ids, cts' = [cts EXCEPT ![c] = Absent],
           NEW r, Moves(th[t], r), th' = [th EXCEPT ![t] = r], faults' \in Nat,
           UNCHANGED <<tag, registry, made, requests, want, data>>, Alike,
           r.pc # "remove",
           mixed # "other" =>
               \A o \in Threads \ {t} : th[o] \in Doc!Replacement /\ th[o].pc = "remove" => th[o].new # c,
           mixed # "other" /\ data # 0 =>
               \E k \in Doc!Ids : Doc!Settled(k) /\ cts[k].vol = data /\ k # c
    PROVE  Doc!IInv'
<1>1. Fewer /\ \A k \in Doc!Ids : k # c => cts'[k] = cts[k]
    BY DockerParts DEF Fewer
<1>2. CASE mixed = "other"
    BY <1>1, <1>2, Blurred
<1>3. CASE mixed # "other"
    <2>1. ASSUME NEW o \in Threads \ {t}, th[o] \in Doc!Replacement, th[o].pc = "remove"
          PROVE  cts'[th[o].new] # Absent
        <3>1. th[o].new \in Doc!Ids /\ cts[th[o].new] # Absent
            BY <1>3, <2>1, ReplacementStates DEF Doc!IInv, Doc!Faithfully, Doc!Faithful, Doc!Here
        <3> QED
            BY <1>1, <1>3, <2>1, <3>1
    <2>2. data # 0 => \E k \in Doc!Ids : Doc!Settled(k) /\ cts[k].vol = data /\ cts'[k] # Absent
        BY <1>1, <1>3 DEF Doc!Settled, Doc!Here
    <2>3. Onward(th[t], r)
        BY <1>3, MovesOnward
    <2> QED
        BY <1>1, <2>1, <2>2, <2>3, CloneStep
<1> QED
    BY <1>2, <1>3

\* The replacement is made: a new container with the volume of the old one. The request
\* knows it, or it was given up on.
LEMMA NewContainer ==
    ASSUME Doc!IInv, NEW t \in Threads, th[t] \in Doc!Replacement, th[t].pc = "replace",
           tag # Absent, made < MaxContainers, made' = made + 1, faults' \in Nat, Alike,
           UNCHANGED <<tag, registry, requests, want, data>>,
           cts' = [cts EXCEPT ![made + 1] = [name |-> th[t].name, image |-> tag, up |-> FALSE,
                                             rm |-> th[t].rm, vol |-> th[t].vol]],
           NEW r \in Doc!Replacement, th' = [th EXCEPT ![t] = r],
           r.id = th[t].id, r.vol = th[t].vol, r.rm = th[t].rm,
           \/ r.pc \in {"start", "remove"} /\ r.new = made + 1
           \/ r.pc = "drop" /\ r.new = Absent
    PROVE  Doc!IInv'
<1> USE DockerParts, IdsType, DockerBounds
<1> DEFINE new == [name |-> th[t].name, image |-> tag, up |-> FALSE,
                   rm |-> th[t].rm, vol |-> th[t].vol]
<1>0. /\ th[t].id \in Doc!Ids /\ th[t].name \in {"app", "parked"} /\ th[t].vol \in Doc!Ids
      /\ th[t].rm = FALSE /\ th[t].rm \in BOOLEAN /\ tag \in {1, 2}
    BY ReplacementStates
<1>1. /\ new \in Doc!Container /\ new # Absent
      /\ new.image = tag /\ new.vol = th[t].vol /\ new.rm = FALSE
    <2>1. new \in Doc!Container
        BY ONLY <1>0 DEF Doc!Container, Doc!Image
    <2>2. new # Absent
        BY <2>1
    <2>3. new.image = tag /\ new.vol = th[t].vol /\ new.rm = th[t].rm
        BY ONLY TRUE
    <2> QED
        BY <1>0, <2>1, <2>2, <2>3
<1>2. made + 1 \in Doc!Ids /\ cts[made + 1] = Absent /\ cts' = [cts EXCEPT ![made + 1] = new]
    OBVIOUS
<1>3. /\ r \in Doc!Replacement /\ r.pc \in {"start", "remove", "drop"}
      /\ r.id = th[t].id /\ r.vol = th[t].vol /\ r.rm = FALSE
      /\ (r.pc = "drop" /\ r.new = Absent) \/ r.new = made + 1
    BY <1>0
<1>4. th' = [th EXCEPT ![t] = r]
    OBVIOUS
<1> HIDE DEF new
<1>5. /\ cts' \in [Doc!Ids -> {Absent} \cup Doc!Container]
      /\ cts'[made + 1] = new /\ \A c \in Doc!Ids : c # made + 1 => cts'[c] = cts[c]
    BY <1>1, <1>2
<1>6. /\ th' \in [Threads -> Doc!Request] /\ th'[t] = r
      /\ \A o \in Threads \ {t} : th'[o] = th[o]
    BY <1>3, <1>4, DockerRequestStates
<1>7. Doc!TypeOK'
    BY <1>2, <1>5, <1>6 DEF Doc!TypeOK, Doc!Image, Alike
<1>8. Doc!NoneAutoRemoved' /\ Doc!IdsAreMade'
    BY <1>1, <1>3, <1>5, <1>6 DEF Doc!NoneAutoRemoved, Doc!IdsAreMade, Doc!Here
<1>9. Doc!OnlyClones'
    <2>1. th[t] # Doc!Idle /\ Doc!Recreating(t)'
        BY <1>3, <1>6, DockerRequestStates DEF Doc!Recreating
    <2> QED
        BY <1>6, <2>1 DEF Doc!IInv, Doc!OnlyClones, Doc!Recreating, Alike
<1>10. ASSUME mixed # "other", NEW o \in Threads
       PROVE  /\ Doc!Faithful(o)
              /\ th[o] \in Doc!Replacement => th[o].id \in Doc!Ids /\ th[o].id <= made /\ th[o].id # made + 1
              /\ Doc!HasNew(o) => th[o].new \in Doc!Ids /\ th[o].new <= made /\ th[o].new # made + 1
    <2>1. Doc!Faithful(o)
        BY <1>10 DEF Doc!IInv, Doc!Faithfully
    <2> QED
        BY <2>1, ReplacementStates DEF Doc!Faithful, Doc!HasNew, Doc!Old
<1>11. Doc!Faithfully'
    <2> SUFFICES ASSUME mixed # "other"
                 PROVE  /\ \A o \in Threads : Doc!Faithful(o)'
                        /\ \A o, p \in Threads :
                              o # p /\ Doc!HasNew(o)' /\ th'[p] \in Doc!Replacement =>
                                  th'[o].new # th'[p].id /\ th'[o].new # th'[p].new
        BY DEF Doc!Faithfully, Doc!Old, Alike
    <2>1. Doc!Faithful(t)'
        <3>1. /\ th[t].id \in Doc!Ids /\ th[t].id <= made /\ th[t].id # made + 1
              /\ cts[th[t].id] # Absent => cts[th[t].id].vol = th[t].vol
            BY <1>10 DEF Doc!Faithful, Doc!Here, Doc!Old
        <3>2. /\ cts'[r.id] = cts[th[t].id] /\ r.id <= made'
              /\ cts'[r.id] # Absent => cts'[r.id].vol = r.vol
            BY <1>3, <1>5, <3>1
        <3>3. CASE r.pc = "drop" /\ r.new = Absent
            BY ONLY <1>3, <1>6, <3>2, <3>3 DEF Doc!Faithful, Doc!HasNew, Doc!Here, Doc!Old
        <3>4. CASE r.new = made + 1
            <4>1. r.new <= made' /\ r.new # r.id /\ r.new # Absent
                BY <1>2, <1>3, <3>1, <3>4
            <4>2. cts'[r.new] # Absent /\ cts'[r.new].vol = r.vol /\ cts'[r.new].image = tag'
                BY <1>1, <1>3, <1>5, <3>4
            <4> QED
                BY ONLY <1>3, <1>6, <3>2, <4>1, <4>2 DEF Doc!Faithful, Doc!HasNew, Doc!Here, Doc!Old
        <3> QED
            BY <1>3, <3>3, <3>4
    <2>2. ASSUME NEW o \in Threads \ {t}
          PROVE  Doc!Faithful(o)'
        BY <1>5, <1>6, <1>10 DEF Doc!Faithful, Doc!HasNew, Doc!Here, Doc!Old
    <2>3. ASSUME NEW o \in Threads, NEW p \in Threads, o # p, Doc!HasNew(o)', th'[p] \in Doc!Replacement
          PROVE  th'[o].new # th'[p].id /\ th'[o].new # th'[p].new
        <3>1. CASE o = t
            BY <1>3, <1>6, <1>10, <2>3, <3>1 DEF Doc!HasNew
        <3>2. CASE p = t
            BY <1>3, <1>6, <1>10, <2>3, <3>2 DEF Doc!HasNew, Doc!IInv, Doc!Faithfully, Doc!Old
        <3>3. CASE o # t /\ p # t
            BY <1>6, <2>3, <3>3 DEF Doc!HasNew, Doc!IInv, Doc!Faithfully, Doc!Old
        <3> QED
            BY <3>1, <3>2, <3>3
    <2> QED
        BY <2>1, <2>2, <2>3
<1>12. Doc!DataSettled'
    <2> SUFFICES ASSUME mixed # "other", data # 0
                 PROVE  \E c \in Doc!Ids : Doc!Settled(c)' /\ cts'[c].vol = data
        BY DEF Doc!DataSettled, Alike
    <2>1. PICK c \in Doc!Ids : Doc!Settled(c) /\ cts[c].vol = data
        BY DEF Doc!IInv, Doc!DataSettled
    <2>2. c # made + 1 /\ cts'[c] = cts[c] /\ cts[c] # Absent
        BY <1>2, <1>5, <2>1 DEF Doc!Settled, Doc!Here
    <2> QED
        BY <1>3, <1>6, <2>1, <2>2 DEF Doc!Settled, Doc!Here, Doc!HasNew
<1> QED
    BY <1>7, <1>8, <1>9, <1>11, <1>12 DEF Doc!IInv

LEMMA ReplaceKeeps ==
    ASSUME Doc!IInv, NEW t \in Threads, Doc!Replace(t)
    PROVE  Doc!IInv'
<1> USE DockerParts, IdsType, DockerBounds
<1>1. /\ th[t].pc = "replace" /\ th[t] \in Doc!Replacement
      /\ UNCHANGED <<tag, registry, requests, want, data, mixed>>
    BY DockerRequestStates DEF Doc!Replace, Doc!Unhindered, Calls
<1>2. /\ th[t].id \in Doc!Ids /\ th[t].name \in {"app", "parked"} /\ th[t].vol \in Doc!Ids
      /\ th[t].rm = FALSE /\ th[t].up \in BOOLEAN
    BY <1>1, ReplacementStates
<1>3. ASSUME cts' = cts, made' = made, Doc!Proceed(t, "drop"), faults' \in Nat
      PROVE  Doc!IInv'
    <2> DEFINE r == [th[t] EXCEPT !.pc = "drop"]
    <2>1. th' = [th EXCEPT ![t] = r] /\ r.pc = "drop"
        BY <1>1, <1>3, ReplacementStates DEF Doc!Proceed, Doc!Goto, Calls
    <2>2. Moves(th[t], r)
        BY <1>1 DEF Moves, Paths, Calls
    <2>3. Same
        BY <1>3 DEF Same
    <2> HIDE DEF r
    <2> QED
        BY <1>1, <1>3, <2>1, <2>2, <2>3, Blurs, CloneMoves
<1>4. ASSUME tag # Absent, made < MaxContainers, made' = made + 1, faults' = faults,
             cts' = [cts EXCEPT ![made + 1] = [name |-> th[t].name, image |-> tag, up |-> FALSE,
                                               rm |-> th[t].rm, vol |-> th[t].vol]],
             th' = [th EXCEPT ![t] = [th[t] EXCEPT !.pc = IF th[t].up THEN "start" ELSE "remove",
                                                   !.new = made + 1]]
      PROVE  Doc!IInv'
    <2> DEFINE r == [th[t] EXCEPT !.pc = IF th[t].up THEN "start" ELSE "remove", !.new = made + 1]
    <2>2. made + 1 \in Doc!Ids
        BY <1>4
    <2>3. /\ r \in Doc!Replacement /\ r.pc \in {"start", "remove"} /\ r.new = made + 1
          /\ r.id = th[t].id /\ r.vol = th[t].vol /\ r.rm = th[t].rm
        <3>0. th[t] \in Shape /\ made + 1 # Absent
            BY <1>1, <2>2 DEF Doc!Replacement, Shape, Calls
        <3>1. ASSUME NEW p \in {"start", "remove"}, r = [th[t] EXCEPT !.pc = p, !.new = made + 1]
              PROVE  /\ r \in Shape /\ r.pc = p /\ r.new = made + 1
                     /\ r.id = th[t].id /\ r.vol = th[t].vol /\ r.rm = th[t].rm
            BY ONLY <3>0, <2>2, <3>1 DEF Shape, Calls
        <3>2. PICK p \in {"start", "remove"} : r = [th[t] EXCEPT !.pc = p, !.new = made + 1]
            OBVIOUS
        <3> HIDE DEF r
        <3>3. /\ r \in Shape /\ r.pc = p /\ r.new = made + 1
              /\ r.id = th[t].id /\ r.vol = th[t].vol /\ r.rm = th[t].rm
            BY <3>1, <3>2
        <3>4. r \in Doc!Replacement
            BY <3>0, <3>3 DEF Doc!Replacement, Shape, Calls
        <3> QED
            BY <1>2, <3>3, <3>4
    <2>4. th' = [th EXCEPT ![t] = r]
        BY <1>4
    <2> HIDE DEF r
    <2>5. faults' \in Nat /\ Alike
        BY <1>1, <1>4, Blurs
    <2> QED
        BY <1>1, <1>4, <2>3, <2>4, <2>5, NewContainer
<1>5. CASE tag # Absent /\ Doc!Named(th[t].name) = {} /\ made < MaxContainers /\ made' = made + 1
    BY <1>4, <1>5 DEF Doc!Replace, Doc!Carried, Doc!Goto
<1>6. CASE ~(tag # Absent /\ Doc!Named(th[t].name) = {} /\ made < MaxContainers /\ made' = made + 1)
    <2>1. cts' = cts /\ made' = made /\ Doc!Proceed(t, "drop")
        BY <1>6 DEF Doc!Replace
    <2>2. faults' = faults \/ faults' = faults + 1
        BY <1>6 DEF Doc!Replace, Doc!Fault
    <2> QED
        BY <1>3, <2>1, <2>2
<1> QED
    BY <1>5, <1>6

\* The creation that was given up on.
LEMMA CreationGivenUp ==
    ASSUME Doc!IInv, NEW t \in Threads, Doc!ReplaceGivenUp(t)
    PROVE  Doc!IInv'
<1> USE IdsType, DockerBounds
<1> DEFINE r == [th[t] EXCEPT !.pc = "drop"]
<1>1. /\ th[t].pc = "replace" /\ tag # Absent /\ made < MaxContainers /\ made' = made + 1
      /\ cts' = [cts EXCEPT ![made + 1] = [name |-> th[t].name, image |-> tag, up |-> FALSE,
                                           rm |-> th[t].rm, vol |-> th[t].vol]]
      /\ th' = [th EXCEPT ![t] = r] /\ faults' = faults + 1 /\ Doc!Blur
      /\ UNCHANGED <<tag, registry, requests, want, data>>
    BY DEF Doc!ReplaceGivenUp, Doc!Carried, Doc!Proceed, Doc!Goto, Doc!Fault
<1>2. th[t] \in Doc!Replacement /\ th[t].new = Absent
    <2>1. th[t] \in Doc!Replacement
        BY <1>1, DockerParts, DockerRequestStates DEF Calls
    <2> QED
        BY <1>1, <2>1, ReplacementStates
<1>3. /\ r.pc = "drop" /\ r.new = Absent
      /\ r.id = th[t].id /\ r.vol = th[t].vol /\ r.rm = th[t].rm
    BY <1>2, ReplacementStates DEF Calls
<1>4. Moves(th[t], r)
    BY <1>1 DEF Moves, Paths, Calls
<1> HIDE DEF r
<1>5. r \in Doc!Replacement
    <2>1. r = Doc!Idle \/ r \in Doc!Replacement
        BY <1>1, <1>2, <1>4, MovesOnward, Onwards
    <2> QED
        BY <1>3, <2>1, DockerRequestStates
<1>6. faults' \in Nat /\ Alike
    BY <1>1, DockerParts, Blurs
<1> QED
    BY <1>1, <1>2, <1>3, <1>5, <1>6, NewContainer

\* A replacement begins: no other one has made the container it takes for the old one.
LEMMA RecreateKeeps ==
    ASSUME Doc!IInv, NEW t \in Threads, Doc!RecreateRequest(t)
    PROVE  Doc!IInv'
<1> USE IdsType, DockerBounds
<1>1. PICK c \in Doc!Ids, compose \in BOOLEAN :
         /\ cts[c] # Absent /\ cts[c].name = "app" /\ tag # Absent /\ tag # cts[c].image
         /\ Doc!Begin(t, [pc |-> IF compose THEN "compose" ELSE IF cts[c].up THEN "stop" ELSE "park",
                          id |-> c, new |-> Absent, name |-> cts[c].name,
                          up |-> cts[c].up, rm |-> cts[c].rm, vol |-> cts[c].vol],
                      IF compose THEN "compose" ELSE "recreate")
         /\ UNCHANGED <<cts, tag, registry, made, faults, want, data>>
    BY DEF Doc!RecreateRequest, Doc!Named, Doc!Here
<1>2. PICK pc \in {"compose", "stop", "park"}, kind \in {"compose", "recreate"} :
         /\ pc = IF compose THEN "compose" ELSE IF cts[c].up THEN "stop" ELSE "park"
         /\ kind = IF compose THEN "compose" ELSE "recreate"
    OBVIOUS
<1>3. cts[c] \in Doc!Container /\ cts[c].rm = FALSE /\ c <= made
    BY <1>1, DockerParts DEF Doc!Container
<1>4. cts[c].up \in BOOLEAN /\ cts[c].vol \in Doc!Ids /\ cts[c].name \in {"app", "parked"} /\ cts[c].rm \in BOOLEAN
    BY <1>3 DEF Doc!Container
<1> DEFINE r == [pc |-> pc, id |-> c, new |-> Absent, name |-> cts[c].name,
                 up |-> cts[c].up, rm |-> cts[c].rm, vol |-> cts[c].vol]
<1>5. r \in Doc!Replacement
    <2>1. r \in Shape
        BY ONLY <1>4 DEF Shape, Calls
    <2>2. r.pc \notin {"start", "settle", "remove"} /\ r.new = Absent
        OBVIOUS
    <2> HIDE DEF r
    <2> QED
        BY <2>1, <2>2 DEF Doc!Replacement, Shape, Calls
<1>6. r.pc = pc /\ r.id = c /\ r.new = Absent /\ r.rm = FALSE /\ r.vol = cts[c].vol
    BY <1>3
<1>7. Doc!Begin(t, r, kind)
    BY <1>1, <1>2
<1> HIDE DEF r
<1>8. r \in Doc!Request
    BY <1>5, DockerRequestStates
<1>9. /\ th[t] = Doc!Idle /\ th' \in [Threads -> Doc!Request] /\ th'[t] = r
      /\ \A o \in Threads \ {t} : th'[o] = th[o]
      /\ requests' \in Nat /\ mixed' \in {"none", "blurred", "other"}
      /\ mixed' # "other" => mixed # "other"
      /\ mixed' # "other" => \A o \in Threads \ {t} : th[o] = Doc!Idle \/ Doc!Recreating(o)
      /\ mixed' # "other" /\ kind # "recreate" => \A o \in Threads \ {t} : th[o] = Doc!Idle
    BY <1>7, <1>8, Begins, DockerParts
<1>10. Doc!TypeOK'
    BY <1>1, <1>9, DockerParts DEF Doc!TypeOK, Doc!Image
<1>11. Doc!NoneAutoRemoved' /\ Doc!IdsAreMade'
    BY <1>1, <1>6, <1>9, DockerParts DEF Doc!NoneAutoRemoved, Doc!IdsAreMade, Doc!Here
<1>12. Doc!OnlyClones'
    <2> SUFFICES ASSUME mixed' # "other", NEW o \in Threads, NEW p \in Threads, o # p,
                        th'[o] # Doc!Idle, th'[p] # Doc!Idle
                 PROVE  Doc!Recreating(o)' /\ Doc!Recreating(p)'
        BY DEF Doc!OnlyClones
    <2>1. CASE kind = "compose"
        BY <1>9, <2>1
    <2>2. CASE kind = "recreate"
        <3>1. pc \in {"stop", "park"}
            BY <1>2, <2>2
        <3> QED
            BY <1>6, <1>9, <3>1 DEF Doc!Recreating
    <2> QED
        BY <2>1, <2>2
<1>13. Doc!Faithfully'
    <2> SUFFICES ASSUME mixed' # "other"
                 PROVE  /\ \A o \in Threads : Doc!Faithful(o)'
                        /\ \A o, p \in Threads :
                              o # p /\ Doc!HasNew(o)' /\ th'[p] \in Doc!Replacement =>
                                  th'[o].new # th'[p].id /\ th'[o].new # th'[p].new
        BY DEF Doc!Faithfully, Doc!Old
    <2>1. /\ \A o \in Threads : Doc!Faithful(o)
          /\ \A o, p \in Threads :
                o # p /\ Doc!HasNew(o) /\ th[p] \in Doc!Replacement =>
                    th[o].new # th[p].id /\ th[o].new # th[p].new
        BY <1>9 DEF Doc!IInv, Doc!Faithfully, Doc!Old
    <2>2. Doc!Faithful(t)'
        BY <1>1, <1>3, <1>6, <1>9 DEF Doc!Faithful, Doc!HasNew, Doc!Here, Doc!Old
    <2>3. \A o \in Threads \ {t} : Doc!Faithful(o)'
        BY <1>1, <1>9, <2>1 DEF Doc!Faithful, Doc!HasNew, Doc!Here, Doc!Old
    <2>4. ASSUME NEW o \in Threads, NEW p \in Threads, o # p, Doc!HasNew(o)', th'[p] \in Doc!Replacement
          PROVE  th'[o].new # th'[p].id /\ th'[o].new # th'[p].new
        <3>1. o # t /\ Doc!HasNew(o)
            BY <1>6, <1>9, <2>4 DEF Doc!HasNew
        <3>2. CASE p = t
            <4>1. th[o].new # c
                BY <1>1, <2>1, <3>1 DEF Doc!Faithful, Doc!Here
            <4> QED
                BY <1>6, <1>9, <3>1, <3>2, <4>1 DEF Doc!HasNew
        <3>3. CASE p # t
            BY <1>9, <2>1, <2>4, <3>1, <3>3
        <3> QED
            BY <3>2, <3>3
    <2> QED
        BY <2>2, <2>3, <2>4
<1>14. Doc!DataSettled'
    <2> SUFFICES ASSUME mixed' # "other", data' # 0
                 PROVE  \E k \in Doc!Ids : Doc!Settled(k)' /\ cts'[k].vol = data'
        BY DEF Doc!DataSettled
    <2>1. PICK k \in Doc!Ids : Doc!Settled(k) /\ cts[k].vol = data
        BY <1>1, <1>9 DEF Doc!IInv, Doc!DataSettled
    <2> QED
        BY <1>1, <1>6, <1>9, <2>1 DEF Doc!Settled, Doc!Here, Doc!HasNew
<1> QED
    BY <1>10, <1>11, <1>12, <1>13, <1>14 DEF Doc!IInv

LEMMA DockerStep ==
    ASSUME Doc!IInv, [Doc!Next]_(Doc!vars)
    PROVE  Doc!IInv'
<1> USE DockerBounds, IdsType, DockerRequestStates
<1>1. Doc!Idle \notin Doc!Replacement
    BY DEF Calls
<1>2. ASSUME NEW t \in Threads, Doc!Action(t)
      PROVE  Doc!IInv'
    <2>1. PICK c \in Doc!Ids :
             /\ cts[c] # Absent /\ Doc!Begin(t, Doc!Idle, "action")
             /\ UNCHANGED <<tag, registry, made, faults, data>>
             /\ \/ cts' = Doc!Started(c) /\ want' = (IF cts[c].name = "app" THEN TRUE ELSE want)
                \/ cts[c].up /\ cts' = Doc!Stopped(c) /\ want' = (IF cts[c].name = "app" THEN FALSE ELSE want)
        BY <1>2 DEF Doc!Action, Doc!Here
    <2>2. want' \in BOOLEAN
        BY <2>1, DockerParts
    <2>3. Same
        BY <2>1, SameContainers DEF Doc!Started
    <2> QED
        BY <1>1, <2>1, <2>2, <2>3, OneCall, DockerParts
<1>3. ASSUME NEW t \in Threads, Doc!Delete(t)
      PROVE  Doc!IInv'
    <2>1. PICK c \in Doc!Ids :
             /\ cts[c] # Absent /\ Doc!Begin(t, Doc!Idle, "delete")
             /\ cts' = [cts EXCEPT ![c] = Absent] /\ want' = (want /\ cts[c].name # "app")
             /\ data' = IF \E o \in Doc!Ids \ {c} : cts[o] # Absent /\ cts[o].vol = data THEN data ELSE 0
             /\ UNCHANGED <<tag, registry, made, faults>>
        BY <1>3 DEF Doc!Delete, Doc!Here
    <2>2. /\ cts' \in [Doc!Ids -> {Absent} \cup Doc!Container]
          /\ \A k \in Doc!Ids : k # c => cts'[k] = cts[k]
          /\ \A k \in Doc!Ids : cts'[k] # Absent => cts[k] # Absent /\ cts'[k] = cts[k]
        BY <2>1, DockerParts
    <2>3. /\ th' \in [Threads -> Doc!Request] /\ requests' \in Nat /\ mixed' \in {"none", "blurred", "other"}
          /\ th'[t] = Doc!Idle
          /\ \A o \in Threads : th'[o] = Doc!Idle \/ th'[o] = th[o]
          /\ mixed' # "other" => \A o \in Threads : th'[o] = Doc!Idle
        BY <2>1, Begins, DockerParts
    <2>4. want' \in BOOLEAN /\ data' \in 0..MaxContainers
        BY <2>1, DockerParts
    <2>5. Doc!TypeOK'
        BY <2>1, <2>2, <2>3, <2>4, DockerParts DEF Doc!TypeOK, Doc!Image
    <2>6. Doc!NoneAutoRemoved' /\ Doc!IdsAreMade'
        BY <1>1, <2>1, <2>2, <2>3, DockerParts DEF Doc!NoneAutoRemoved, Doc!IdsAreMade, Doc!Here
    <2>7. data' # 0 => \E k \in Doc!Ids : cts'[k] # Absent /\ cts'[k].vol = data'
        BY <2>1, <2>2
    <2> QED
        BY <1>1, <2>3, <2>5, <2>6, <2>7, Quiet
<1>4. ASSUME NEW t \in Threads, Doc!ImageDelete(t) \/ Doc!PullRequest(t) \/ Doc!CreateRequest(t)
      PROVE  Doc!IInv'
    <2>1. PICK r \in Doc!Request, kind \in {"image", "pull", "create"} :
             /\ r \notin Doc!Replacement /\ Doc!Begin(t, r, kind)
             /\ tag' = tag \/ tag' = Absent
             /\ UNCHANGED <<cts, registry, made, faults, want, data>>
        <3>1. CASE Doc!ImageDelete(t)
            BY <1>1, <3>1 DEF Doc!ImageDelete
        <3>2. CASE Doc!PullRequest(t)
            <4>1. /\ [pc |-> "pull", create |-> FALSE] \in Doc!Request
                  /\ [pc |-> "pull", create |-> FALSE] \notin Doc!Replacement
                BY DEF Calls
            <4> QED
                BY <3>2, <4>1 DEF Doc!PullRequest
        <3>3. CASE Doc!CreateRequest(t)
            <4>1. /\ [pc |-> "create", retry |-> TRUE] \in Doc!Request
                  /\ [pc |-> "create", retry |-> TRUE] \notin Doc!Replacement
                BY DEF Calls
            <4> QED
                BY <3>3, <4>1 DEF Doc!CreateRequest
        <3> QED
            BY <1>4, <3>1, <3>2, <3>3
    <2>2. Same /\ tag' \in {1, 2, Absent} /\ want' \in BOOLEAN
        BY <2>1, DockerParts DEF Same
    <2> QED
        BY <2>1, <2>2, OneCall
<1>5. ASSUME NEW t \in Threads, Doc!RecreateRequest(t) \/ Doc!Replace(t)
      PROVE  Doc!IInv'
    BY <1>5, RecreateKeeps, ReplaceKeeps
\* A request that is not a replacement by clone, and leaves the containers.
<1>6. ASSUME NEW t \in Threads, th[t].pc \in {"pull", "create", "startnew", "compose"}, Same,
             NEW r \in Doc!Request, r \notin Doc!Replacement, th' = [th EXCEPT ![t] = r],
             tag' \in {1, 2, Absent}, faults' \in Nat, want' \in BOOLEAN,
             UNCHANGED <<registry, made, requests, data, mixed>>
      PROVE  Doc!IInv'
    <2>1. th' \in [Threads -> Doc!Request] /\ \A o \in Threads : th'[o] = r \/ th'[o] = th[o]
        BY <1>6, DockerParts
    <2>2. Doc!TypeOK'
        BY <1>6, <2>1, DockerParts DEF Doc!TypeOK, Doc!Image, Same
    <2>3. Doc!NoneAutoRemoved' /\ Doc!IdsAreMade'
        BY <1>6, <2>1, DockerParts DEF Doc!NoneAutoRemoved, Doc!IdsAreMade, Doc!Here, Same
    <2> QED
        BY <1>6, <2>2, <2>3, Blurs, AloneMoves, AloneKeepsData
<1>7. ASSUME NEW t \in Threads, Doc!Pull(t)
      PROVE  Doc!IInv'
    <2>1. /\ th[t].pc = "pull" /\ UNCHANGED <<cts, registry, made, requests, want, data, mixed>>
          /\ tag' = registry \/ tag' = tag
          /\ faults' = faults \/ faults' = faults + 1
        BY <1>7 DEF Doc!Pull, Doc!Fault
    <2>2. PICK r \in {[pc |-> "create", retry |-> FALSE], Doc!Idle} : th' = [th EXCEPT ![t] = r]
        BY <1>7 DEF Doc!Pull, Doc!Done, Doc!Goto
    <2>3. r \in Doc!Request /\ r \notin Doc!Replacement
        BY <1>1 DEF Calls
    <2>4. Same
        BY <2>1, DockerParts DEF Same
    <2>5. tag' \in {1, 2, Absent} /\ faults' \in Nat
        BY <2>1, DockerParts
    <2>6. want' \in BOOLEAN
        BY <2>1, DockerParts
    <2> QED
        BY <1>6, <2>1, <2>2, <2>3, <2>4, <2>5, <2>6
<1>8. ASSUME NEW t \in Threads, Doc!StartNew(t)
      PROVE  Doc!IInv'
    <2>1. /\ th[t].pc = "startnew" /\ UNCHANGED <<tag, registry, made, requests, data, mixed>>
          /\ cts' = cts \/ (cts[th[t].id] # Absent /\ cts' = [cts EXCEPT ![th[t].id].up = TRUE])
          /\ want' = want \/ want' = TRUE
          /\ faults' = faults \/ faults' = faults + 1
          /\ th' = [th EXCEPT ![t] = Doc!Idle]
        BY <1>8 DEF Doc!StartNew, Doc!Fault, Doc!Started, Doc!Here, Doc!Done, Doc!Goto
    <2>2. th[t].id \in Doc!Ids
        BY <2>1, DockerParts
    <2>3. Same
        <3>1. CASE cts' = cts
            BY <3>1, DockerParts DEF Same
        <3>2. CASE cts[th[t].id] # Absent /\ cts' = [cts EXCEPT ![th[t].id].up = TRUE]
            BY <2>2, <3>2, SameContainers
        <3> QED
            BY <2>1, <3>1, <3>2
    <2>4. tag' \in {1, 2, Absent} /\ faults' \in Nat
        BY <2>1, DockerParts
    <2>5. want' \in BOOLEAN
        BY <2>1, DockerParts
    <2> QED
        BY <1>1, <1>6, <2>1, <2>3, <2>4, <2>5
<1>9. ASSUME NEW t \in Threads, Doc!ComposeUp(t)
      PROVE  Doc!IInv'
    <2>1. /\ th[t].pc = "compose" /\ UNCHANGED <<tag, registry, made, requests, data>>
          /\ mixed' = mixed \/ Doc!Blur
          /\ \/ /\ cts[th[t].id] # Absent /\ tag # Absent
                /\ \E up \in BOOLEAN :
                      cts' = [cts EXCEPT ![th[t].id].image = tag, ![th[t].id].up = up]
             \/ cts' = cts
          /\ want' = want \/ want' = TRUE
          /\ faults' = faults \/ faults' = faults + 1
          /\ th' = [th EXCEPT ![t] = Doc!Idle]
        BY <1>9 DEF Doc!ComposeUp, Doc!Fault, Doc!Here, Doc!Done, Doc!Goto
    <2>2. th[t].id \in Doc!Ids
        <3>1. th[t] \in Doc!Replacement
            BY <2>1, DockerParts DEF Calls
        <3> QED
            BY <3>1, ReplacementStates
    <2>3. tag' \in {1, 2, Absent} /\ faults' \in Nat
        BY <2>1, DockerParts
    <2>4. want' \in BOOLEAN
        BY <2>1, DockerParts
    <2>5. /\ cts' \in [Doc!Ids -> {Absent} \cup Doc!Container]
          /\ \A c \in Doc!Ids :
                /\ cts'[c] # Absent <=> cts[c] # Absent
                /\ cts[c] # Absent => cts'[c].vol = cts[c].vol /\ cts'[c].rm = cts[c].rm
        <3>1. CASE cts' = cts
            BY <3>1, DockerParts
        <3>2. ASSUME cts[th[t].id] # Absent, tag # Absent, NEW up \in BOOLEAN,
                     cts' = [cts EXCEPT ![th[t].id].image = tag, ![th[t].id].up = up]
              PROVE  /\ cts' \in [Doc!Ids -> {Absent} \cup Doc!Container]
                     /\ \A c \in Doc!Ids :
                           /\ cts'[c] # Absent <=> cts[c] # Absent
                           /\ cts[c] # Absent => cts'[c].vol = cts[c].vol /\ cts'[c].rm = cts[c].rm
            <4> PICK c \in Doc!Ids : c = th[t].id
                BY <2>2
            <4> DEFINE new == [[cts[c] EXCEPT !.image = tag] EXCEPT !.up = up]
            <4>1. cts[c] \in Doc!Container /\ tag \in {1, 2}
                BY <3>2, DockerParts
            <4>2. new \in Doc!Container /\ new.vol = cts[c].vol /\ new.rm = cts[c].rm
                BY ONLY <4>1 DEF Doc!Container, Doc!Image
            <4>3. cts' = [cts EXCEPT ![c] = new]
                BY <3>2, <4>1, DockerParts
            <4>4. new # Absent
                BY <4>2
            <4> HIDE DEF new
            <4>5. cts' \in [Doc!Ids -> {Absent} \cup Doc!Container]
                BY <4>2, <4>3, DockerParts
            <4>6. cts'[c] = new /\ \A k \in Doc!Ids : k # c => cts'[k] = cts[k]
                BY <4>3, DockerParts
            <4> QED
                BY <4>1, <4>2, <4>4, <4>5, <4>6, DockerBounds
        <3> QED
            BY <2>1, <3>1, <3>2
    <2>6. th' \in [Threads -> Doc!Request] /\ \A o \in Threads : th'[o] = Doc!Idle \/ th'[o] = th[o]
        BY <2>1, DockerParts
    <2>10. Alike
        BY <2>1, Blurs
    <2>7. Doc!TypeOK'
        BY <2>1, <2>3, <2>4, <2>5, <2>6, <2>10, DockerParts DEF Doc!TypeOK, Doc!Image, Alike
    <2>8. Doc!NoneAutoRemoved' /\ Doc!IdsAreMade'
        BY <1>1, <2>1, <2>5, <2>6, DockerParts DEF Doc!NoneAutoRemoved, Doc!IdsAreMade, Doc!Here
    <2>9. mixed # "other" /\ data' # 0 => \E c \in Doc!Ids : cts'[c] # Absent /\ cts'[c].vol = data'
        BY <2>1, <2>5 DEF Doc!IInv, Doc!DataSettled, Doc!Settled, Doc!Here
    <2> QED
        BY <1>1, <2>1, <2>7, <2>8, <2>9, <2>10, AloneMoves
<1>10. ASSUME NEW t \in Threads, Doc!Create(t)
       PROVE  Doc!IInv'
    <2>1. th[t].pc = "create" /\ UNCHANGED <<tag, registry, requests, faults, mixed>>
        BY <1>10 DEF Doc!Create
    <2>2. CASE tag # Absent /\ Doc!Named("app") = {}
        <3> DEFINE new == [name |-> "app", image |-> tag, up |-> FALSE, rm |-> FALSE, vol |-> made + 1]
                   r == [pc |-> "startnew", id |-> made + 1]
        <3>1. /\ made < MaxContainers /\ made' = made + 1 /\ cts' = [cts EXCEPT ![made + 1] = new]
              /\ data' = made + 1 /\ want' = FALSE /\ th' = [th EXCEPT ![t] = r]
            BY <1>10, <2>2 DEF Doc!Create, Doc!Goto
        <3>2. made + 1 \in Doc!Ids /\ tag \in {1, 2} /\ made' \in Doc!Ids
            BY <2>2, <3>1, DockerParts
        <3>3. new \in Doc!Container
            BY ONLY <3>2 DEF Doc!Container, Doc!Image
        <3>4. new.rm = FALSE /\ new.vol = made + 1 /\ new # Absent
            BY <3>3
        <3>5. r \in Doc!Request /\ r.pc = "startnew"
            BY <3>2
        <3> HIDE DEF new, r
        <3>6. r \notin Doc!Replacement
            BY <3>5 DEF Calls
        <3>7. /\ cts' \in [Doc!Ids -> {Absent} \cup Doc!Container]
              /\ cts'[made + 1] = new /\ \A c \in Doc!Ids : c # made + 1 => cts'[c] = cts[c]
            BY <3>1, <3>2, <3>3, DockerParts
        <3>8. th' \in [Threads -> Doc!Request] /\ \A o \in Threads : th'[o] = r \/ th'[o] = th[o]
            BY <3>1, <3>5, DockerParts
        <3>9. Doc!TypeOK'
            <4>1. data' \in 0..MaxContainers
                BY <3>1, <3>2
            <4>2. want' \in BOOLEAN
                BY <3>1
            <4> QED
                BY <2>1, <3>2, <3>7, <3>8, <4>1, <4>2, DockerParts DEF Doc!TypeOK, Doc!Image
        <3>10. Doc!NoneAutoRemoved' /\ Doc!IdsAreMade'
            BY <3>1, <3>2, <3>4, <3>6, <3>7, <3>8, DockerParts DEF Doc!NoneAutoRemoved, Doc!IdsAreMade, Doc!Here
        <3>11. \E c \in Doc!Ids : cts'[c] # Absent /\ cts'[c].vol = data'
            BY <3>1, <3>2, <3>4, <3>7
        <3> QED
            BY <2>1, <3>1, <3>5, <3>6, <3>9, <3>10, <3>11, Blurs, AloneMoves
    <2>3. CASE ~(tag # Absent /\ Doc!Named("app") = {})
        <3>1. UNCHANGED <<made, cts, data, want>>
            BY <1>10, <2>3 DEF Doc!Create
        <3>2. PICK r \in {[pc |-> "pull", create |-> TRUE], Doc!Idle} : th' = [th EXCEPT ![t] = r]
            BY <1>10, <2>3 DEF Doc!Create, Doc!Goto
        <3>3. r \in Doc!Request /\ r \notin Doc!Replacement
            BY <1>1 DEF Calls
        <3>4. Same
            BY <3>1, DockerParts DEF Same
        <3> QED
            <4>1. tag' \in {1, 2, Absent} /\ faults' \in Nat
                BY <2>1, DockerParts
            <4>2. want' \in BOOLEAN
                BY <3>1, DockerParts
            <4> QED
                BY <1>6, <2>1, <3>1, <3>2, <3>3, <3>4, <4>1, <4>2
    <2> QED
        BY <2>2, <2>3
\* A call of a replacement by clone that leaves every container.
<1>11. ASSUME NEW t \in Threads, th[t] \in Doc!Replacement, th[t].pc # "compose",
              \/ cts' = cts
              \/ \E c \in Doc!Ids :
                    /\ cts[c] # Absent
                    /\ \/ cts' = Doc!Started(c) \/ cts' = Doc!Stopped(c)
                       \/ \E n \in {"app", "parked"} : cts' = Doc!Renamed(c, n),
              NEW r, Moves(th[t], r), th' = [th EXCEPT ![t] = r],
              faults' = faults \/ faults' = faults + 1, made' = made,
              Doc!Unhindered \/ (UNCHANGED <<tag, registry, requests, want, data>> /\ Alike),
              r.pc = "remove" => cts[r.new] # Absent
       PROVE  Doc!IInv'
    <2>1. Same
        <3>1. CASE cts' = cts
            BY <3>1, DockerParts DEF Same
        <3>2. ASSUME NEW c \in Doc!Ids, cts[c] # Absent,
                     \/ cts' = Doc!Started(c) \/ cts' = Doc!Stopped(c)
                     \/ \E n \in {"app", "parked"} : cts' = Doc!Renamed(c, n)
              PROVE  Same
            BY <3>2, SameContainers DEF Doc!Started, Doc!Renamed
        <3> QED
            BY <1>11, <3>1, <3>2
    <2>2. faults' \in Nat
        BY <1>11, DockerParts
    <2>3. UNCHANGED <<tag, registry, requests, want, data>> /\ Alike
        BY <1>11, Blurs DEF Doc!Unhindered
    <2> QED
        BY <1>11, <2>1, <2>2, <2>3, CloneMoves
\* The replacement of a thread at a call, and where the call may take it.
<1>12. ASSUME NEW t \in Threads, th[t].pc \in Calls
       PROVE  /\ th[t] \in Doc!Replacement /\ th[t].id \in Doc!Ids /\ th[t].new \in Doc!Ids \cup {Absent}
              /\ th[t].name \in {"app", "parked"}
              /\ \A r : r = Doc!Idle => Moves(th[t], r) /\ r.pc = "idle"
              /\ \A r : \A p \in Calls \ {"compose"} :
                    r = [th[t] EXCEPT !.pc = p] /\ <<th[t].pc, p>> \in Paths =>
                        Moves(th[t], r) /\ r.pc = p /\ r.new = th[t].new
    <2>1. th[t] \in Doc!Replacement
        BY <1>12, DockerParts
    <2>2. \A r : \A p \in Calls \ {"compose"} :
              r = [th[t] EXCEPT !.pc = p] /\ <<th[t].pc, p>> \in Paths => Moves(th[t], r)
        BY DEF Moves
    <2>3. \A r : \A p \in Calls : r = [th[t] EXCEPT !.pc = p] => r.pc = p /\ r.new = th[t].new
        BY <2>1, ReplacementStates
    <2>4. \A r : r = Doc!Idle => Moves(th[t], r) /\ r.pc = "idle"
        BY DEF Moves
    <2>5. /\ th[t].id \in Doc!Ids /\ th[t].new \in Doc!Ids \cup {Absent}
          /\ th[t].name \in {"app", "parked"}
        BY <2>1, ReplacementStates
    <2> QED
        BY <2>1, <2>2, <2>3, <2>4, <2>5
<1>13. ASSUME NEW t \in Threads, Doc!Stop(t)
       PROVE  Doc!IInv'
    <2>1. PICK r \in {Doc!Idle, [th[t] EXCEPT !.pc = "park"]} :
             /\ th[t].pc = "stop" /\ th' = [th EXCEPT ![t] = r]
             /\ faults' = faults \/ faults' = faults + 1
             /\ made' = made /\ Doc!Unhindered
             /\ cts' = cts \/ (cts[th[t].id] # Absent /\ cts' = Doc!Stopped(th[t].id))
        BY <1>13 DEF Doc!Stop, Doc!Old, Doc!Here, Doc!Fault, Doc!Proceed, Doc!Done, Doc!Goto
    <2>2. th[t].pc \in Calls /\ <<th[t].pc, "park">> \in Paths /\ "park" \in Calls \ {"compose"}
        BY <2>1 DEF Calls, Paths
    <2>3. th[t] \in Doc!Replacement /\ th[t].id \in Doc!Ids
        BY <1>12, <2>2
    <2>4. Moves(th[t], r) /\ r.pc # "remove"
        <3>1. CASE r = Doc!Idle
            BY <1>12, <2>2, <3>1
        <3>2. CASE r = [th[t] EXCEPT !.pc = "park"]
            BY <1>12, <2>2, <3>2
        <3> QED
            BY <2>1, <3>1, <3>2
    <2> QED
        BY <1>11, <2>1, <2>3, <2>4
<1>14. ASSUME NEW t \in Threads, Doc!Park(t)
       PROVE  Doc!IInv'
    <2>1. PICK p \in {"restart", "replace"} :
             /\ th[t].pc = "park" /\ th' = [th EXCEPT ![t] = [th[t] EXCEPT !.pc = p]]
             /\ faults' = faults \/ faults' = faults + 1
             /\ made' = made /\ Doc!Unhindered
             /\ cts' = cts \/ (cts[th[t].id] # Absent /\ cts' = Doc!Renamed(th[t].id, "parked"))
        BY <1>14 DEF Doc!Park, Doc!Old, Doc!Here, Doc!Fault, Doc!Proceed, Doc!Done, Doc!Goto
    <2> DEFINE r == [th[t] EXCEPT !.pc = p]
    <2>2. /\ th[t].pc \in Calls /\ <<th[t].pc, p>> \in Paths /\ p \in Calls \ {"compose"} /\ p # "remove"
        BY <2>1 DEF Calls, Paths
    <2>3. th[t] \in Doc!Replacement /\ th[t].id \in Doc!Ids /\ Moves(th[t], r) /\ r.pc # "remove"
        BY <1>12, <2>1, <2>2
    <2>5. th' = [th EXCEPT ![t] = r]
        BY <2>1
    <2> HIDE DEF r
    <2> QED
        BY <1>11, <2>1, <2>3, <2>5
<1>15. ASSUME NEW t \in Threads, Doc!Restart(t)
       PROVE  Doc!IInv'
    <2>1. /\ th[t].pc = "restart" /\ th' = [th EXCEPT ![t] = Doc!Idle]
          /\ faults' = faults \/ faults' = faults + 1
          /\ made' = made /\ Doc!Unhindered
          /\ cts' = cts \/ (cts[th[t].id] # Absent /\ cts' = Doc!Started(th[t].id))
        BY <1>15 DEF Doc!Restart, Doc!Old, Doc!Here, Doc!Fault, Doc!Proceed, Doc!Done, Doc!Goto
    <2>2. /\ th[t] \in Doc!Replacement /\ th[t].id \in Doc!Ids /\ Moves(th[t], Doc!Idle)
          /\ Doc!Idle.pc # "remove"
        BY <1>12, <2>1 DEF Calls
    <2> QED
        BY <1>11, <2>1, <2>2
<1>16. ASSUME NEW t \in Threads, Doc!Start(t)
       PROVE  Doc!IInv'
    <2>1. PICK p \in {"settle", "drop"} :
             /\ th[t].pc = "start" /\ th' = [th EXCEPT ![t] = [th[t] EXCEPT !.pc = p]]
             /\ faults' = faults \/ faults' = faults + 1
             /\ made' = made /\ Doc!Unhindered
             /\ cts' = cts \/ (cts[th[t].new] # Absent /\ cts' = Doc!Started(th[t].new))
        BY <1>16 DEF Doc!Start, Doc!Here, Doc!Fault, Doc!Proceed, Doc!Done, Doc!Goto
    <2> DEFINE r == [th[t] EXCEPT !.pc = p]
    <2>2. /\ th[t].pc \in Calls /\ <<th[t].pc, p>> \in Paths /\ p \in Calls \ {"compose"} /\ p # "remove"
        BY <2>1 DEF Calls, Paths
    <2>3. th[t] \in Doc!Replacement /\ Moves(th[t], r) /\ r.pc # "remove"
        BY <1>12, <2>1, <2>2
    <2>4. th[t].new \in Doc!Ids
        BY <2>1, <2>3, ReplacementStates
    <2>5. th' = [th EXCEPT ![t] = r]
        BY <2>1
    <2> HIDE DEF r
    <2> QED
        BY <1>11, <2>1, <2>3, <2>4, <2>5
\* The new container stops by itself.
<1>17. ASSUME NEW t \in Threads, Doc!Exits(t)
       PROVE  Doc!IInv'
    <2> DEFINE r == [th[t] EXCEPT !.pc = "settle"]
    <2>1. /\ th[t].pc = "settle" /\ th' = th /\ faults' = faults + 1
          /\ made' = made /\ Doc!Unhindered
          /\ cts[th[t].new] # Absent /\ cts' = Doc!Stopped(th[t].new)
        BY <1>17 DEF Doc!Exits, Doc!Here, Doc!Fault
    <2>2. /\ th[t].pc \in Calls /\ <<th[t].pc, "settle">> \in Paths /\ "settle" \in Calls \ {"compose"}
        BY <2>1 DEF Calls, Paths
    <2>3. th[t] \in Doc!Replacement /\ Moves(th[t], r) /\ r.pc # "remove"
        BY <1>12, <2>2
    <2>4. th[t].new \in Doc!Ids
        BY <2>1, <2>3, ReplacementStates
    <2>5. r = th[t]
        BY <2>1, <2>3 DEF Doc!Replacement
    <2> HIDE DEF r
    <2>6. th' = [th EXCEPT ![t] = r]
        BY <2>1, <2>5, DockerParts
    <2> QED
        BY <1>11, <2>1, <2>3, <2>4, <2>6
<1>18. ASSUME NEW t \in Threads, Doc!Settle(t)
       PROVE  Doc!IInv'
    <2>1. PICK p \in {"remove", "drop"} :
             /\ th[t].pc = "settle" /\ th' = [th EXCEPT ![t] = [th[t] EXCEPT !.pc = p]]
             /\ faults' = faults \/ faults' = faults + 1
             /\ cts' = cts /\ made' = made /\ Doc!Unhindered
             /\ p = "remove" => cts[th[t].new] # Absent
        BY <1>18 DEF Doc!Settle, Doc!Here, Doc!Fault, Doc!Proceed, Doc!Goto
    <2> DEFINE r == [th[t] EXCEPT !.pc = p]
    <2>2. th[t].pc \in Calls /\ <<th[t].pc, p>> \in Paths /\ p \in Calls \ {"compose"}
        BY <2>1 DEF Calls, Paths
    <2>3. th[t] \in Doc!Replacement /\ Moves(th[t], r) /\ r.pc = p /\ r.new = th[t].new
        BY <1>12, <2>1, <2>2
    <2>5. th' = [th EXCEPT ![t] = r]
        BY <2>1
    <2> HIDE DEF r
    <2> QED
        BY <1>11, <2>1, <2>3, <2>5
\* The replacement is dropped: nobody counts on it.
<1>19. ASSUME NEW t \in Threads, Doc!Drop(t)
       PROVE  Doc!IInv'
    <2>1. /\ th[t].pc = "drop" /\ made' = made /\ Doc!Unhindered
          /\ faults' = faults \/ faults' = faults + 1
        BY <1>19 DEF Doc!Drop, Doc!Fault
    <2>2. /\ th[t].pc \in Calls /\ <<th[t].pc, "unpark">> \in Paths /\ "unpark" \in Calls \ {"compose"}
        BY <2>1 DEF Calls, Paths
    <2>3. th[t] \in Doc!Replacement /\ th[t].new \in Doc!Ids \cup {Absent}
        BY <1>12, <2>2
    <2>4. CASE cts' = cts
        <3>1. PICK r \in {Doc!Idle, [th[t] EXCEPT !.pc = "unpark"]} : th' = [th EXCEPT ![t] = r]
            BY <1>19, <2>4 DEF Doc!Drop, Doc!Proceed, Doc!Done, Doc!Goto
        <3>2. Moves(th[t], r) /\ r.pc # "remove"
            <4>1. CASE r = Doc!Idle
                BY <1>12, <2>2, <4>1
            <4>2. CASE r = [th[t] EXCEPT !.pc = "unpark"]
                BY <1>12, <2>2, <4>2
            <4> QED
                BY <3>1, <4>1, <4>2
        <3> QED
            BY <1>11, <2>1, <2>3, <2>4, <3>1, <3>2
    <2>5. CASE cts' # cts
        <3> DEFINE r == [th[t] EXCEPT !.pc = "unpark"]
        <3>1. /\ th[t].new # Absent /\ cts' = [cts EXCEPT ![th[t].new] = Absent]
              /\ th' = [th EXCEPT ![t] = r]
            BY <1>19, <2>5 DEF Doc!Drop, Doc!Proceed, Doc!Goto
        <3>2. Moves(th[t], r) /\ r.pc # "remove"
            BY <1>12, <2>2
        <3> HIDE DEF r
        <3>3. ASSUME mixed # "other", NEW o \in Threads \ {t}, th[o] \in Doc!Replacement
              PROVE  th[o].new # th[t].new
            BY <2>3, <3>1, <3>3 DEF Doc!IInv, Doc!Faithfully, Doc!HasNew
        <3>4. ASSUME mixed # "other", data # 0
              PROVE  \E k \in Doc!Ids : Doc!Settled(k) /\ cts[k].vol = data /\ k # th[t].new
            BY <2>1, <2>3, <3>1, <3>4 DEF Doc!IInv, Doc!DataSettled, Doc!Settled, Doc!HasNew
        <3>5. /\ faults' \in Nat /\ th[t].new \in Doc!Ids
              /\ UNCHANGED <<tag, registry, made, requests, want, data, mixed>>
            BY <2>1, <2>3, <3>1, DockerParts DEF Doc!Unhindered
        <3> QED
            BY <2>1, <2>3, <3>1, <3>2, <3>3, <3>4, <3>5, Blurs, CloneDeletes
    <2> QED
        BY <2>4, <2>5
<1>20. ASSUME NEW t \in Threads, Doc!Unpark(t)
       PROVE  Doc!IInv'
    <2>1. PICK r \in {Doc!Idle, [th[t] EXCEPT !.pc = "restart"]} :
             /\ th[t].pc = "unpark" /\ th' = [th EXCEPT ![t] = r]
             /\ faults' = faults \/ faults' = faults + 1
             /\ made' = made /\ Doc!Unhindered
             /\ cts' = cts \/ (cts[th[t].id] # Absent /\ cts' = Doc!Renamed(th[t].id, th[t].name))
        BY <1>20 DEF Doc!Unpark, Doc!Old, Doc!Here, Doc!Fault, Doc!Proceed, Doc!Done, Doc!Goto
    <2>2. th[t].pc \in Calls /\ <<th[t].pc, "restart">> \in Paths /\ "restart" \in Calls \ {"compose"}
        BY <2>1 DEF Calls, Paths
    <2>3. th[t] \in Doc!Replacement /\ th[t].id \in Doc!Ids /\ th[t].name \in {"app", "parked"}
        BY <1>12, <2>2
    <2>4. Moves(th[t], r) /\ r.pc # "remove"
        <3>1. CASE r = Doc!Idle
            BY <1>12, <2>2, <3>1
        <3>2. CASE r = [th[t] EXCEPT !.pc = "restart"]
            BY <1>12, <2>2, <3>2
        <3> QED
            BY <2>1, <3>1, <3>2
    <2> QED
        BY <1>11, <2>1, <2>3, <2>4
\* The old container goes: the new one has its volume, and stays.
<1>21. ASSUME NEW t \in Threads, Doc!Remove(t)
       PROVE  Doc!IInv'
    <2>1. /\ th[t].pc = "remove" /\ made' = made /\ Doc!Unhindered
          /\ faults' = faults \/ faults' = faults + 1
          /\ th' = [th EXCEPT ![t] = Doc!Idle]
          /\ cts' = cts \/ cts' = [cts EXCEPT ![th[t].id] = Absent]
        BY <1>21 DEF Doc!Remove, Doc!Fault, Doc!Done, Doc!Goto, Doc!Old
    <2>2. th[t].pc \in Calls
        BY <2>1 DEF Calls
    <2>3. /\ th[t] \in Doc!Replacement /\ th[t].id \in Doc!Ids
          /\ Moves(th[t], Doc!Idle) /\ Doc!Idle.pc # "remove"
        BY <1>12, <2>2
    <2>4. CASE cts' = cts
        BY <1>11, <2>1, <2>3, <2>4
    <2>5. CASE cts' = [cts EXCEPT ![th[t].id] = Absent]
        <3>1. th[t].new \in Doc!Ids /\ th[t].new # Absent /\ Doc!HasNew(t)
            BY <2>1, <2>3, ReplacementStates DEF Doc!HasNew
        <3>2. ASSUME mixed # "other", NEW o \in Threads \ {t}, th[o] \in Doc!Replacement, th[o].pc = "remove"
              PROVE  th[o].new # th[t].id
            <4>1. Doc!HasNew(o)
                BY <3>2, ReplacementStates DEF Doc!HasNew
            <4> QED
                BY <2>3, <3>2, <4>1 DEF Doc!IInv, Doc!Faithfully, Doc!Old
        <3>3. ASSUME mixed # "other", data # 0
              PROVE  \E k \in Doc!Ids : Doc!Settled(k) /\ cts[k].vol = data /\ k # th[t].id
            <4>1. PICK c \in Doc!Ids : Doc!Settled(c) /\ cts[c].vol = data
                BY <3>3 DEF Doc!IInv, Doc!DataSettled
            <4>2. CASE c # th[t].id
                BY <4>1, <4>2
            <4>3. CASE c = th[t].id
                <5>1. Doc!Faithful(t)
                    BY <3>3 DEF Doc!IInv, Doc!Faithfully
                <5>2. /\ cts[th[t].new] # Absent /\ cts[th[t].new].vol = data /\ th[t].new # th[t].id
                    BY <2>1, <2>3, <3>1, <4>1, <4>3, <5>1 DEF Doc!Faithful, Doc!Here, Doc!Old, Doc!Settled
                <5>3. ASSUME NEW o \in Threads, Doc!HasNew(o), th[o].pc \in {"start", "settle", "drop"}
                      PROVE  th[o].new # th[t].new
                    <6>1. o # t
                        BY <2>1, <5>3
                    <6> QED
                        BY <2>3, <3>3, <5>3, <6>1 DEF Doc!IInv, Doc!Faithfully
                <5>4. Doc!Settled(th[t].new)
                    BY <5>2, <5>3 DEF Doc!Settled, Doc!Here
                <5> QED
                    BY <3>1, <5>2, <5>4
            <4> QED
                BY <4>2, <4>3
        <3>4. /\ faults' \in Nat
              /\ UNCHANGED <<tag, registry, made, requests, want, data, mixed>>
            BY <2>1, DockerParts DEF Doc!Unhindered
        <3> QED
            BY <2>1, <2>3, <2>5, <3>2, <3>3, <3>4, Blurs, CloneDeletes
    <2> QED
        BY <2>1, <2>4, <2>5
<1>22. ASSUME UNCHANGED <<cts, tag, th, made, requests, faults, want, data, mixed>>, registry' \in {1, 2}
       PROVE  Doc!IInv'
    BY <1>22 DEF Doc!IInv, Doc!TypeOK, Doc!Image, Doc!NoneAutoRemoved, Doc!OnlyClones, Doc!Recreating,
          Doc!IdsAreMade, Doc!Faithfully, Doc!Faithful, Doc!HasNew, Doc!Here, Doc!Old,
          Doc!DataSettled, Doc!Settled
<1>23. CASE Doc!Publish
    BY <1>22, <1>23 DEF Doc!Publish
\* A call that was given up on does what it would have done.
<1>25. ASSUME NEW t \in Threads, Doc!GivenUp(t)
       PROVE  Doc!IInv'
    <2>1. /\ th[t].pc \in {"stop", "park", "start", "drop", "unpark"}
          /\ faults' = faults + 1 /\ made' = made
          /\ UNCHANGED <<tag, registry, requests, want, data>> /\ Doc!Blur
        BY <1>25 DEF Doc!GivenUp, Doc!Fault
    <2>2. Alike /\ faults' \in Nat
        BY <2>1, DockerParts, Blurs
    <2>3. th[t].pc \in Calls /\ th[t].pc # "compose"
        BY <2>1 DEF Calls
    <2>4. /\ th[t] \in Doc!Replacement /\ th[t].id \in Doc!Ids /\ th[t].new \in Doc!Ids \cup {Absent}
          /\ th[t].name \in {"app", "parked"}
          /\ Moves(th[t], Doc!Idle) /\ Doc!Idle.pc # "remove"
        BY <1>12, <2>3
    \* One that leaves every container,
    <2>5. ASSUME NEW c \in Doc!Ids, cts[c] # Absent, NEW r, Moves(th[t], r), r.pc # "remove",
                 th' = [th EXCEPT ![t] = r],
                 \/ cts' = Doc!Started(c) \/ cts' = Doc!Stopped(c)
                 \/ \E n \in {"app", "parked"} : cts' = Doc!Renamed(c, n)
          PROVE  Doc!IInv'
        BY <1>11, <2>1, <2>2, <2>3, <2>4, <2>5
    \* going on to another call,
    <2>6. ASSUME NEW p \in {"restart", "drop"}, <<th[t].pc, p>> \in Paths
          PROVE  Moves(th[t], [th[t] EXCEPT !.pc = p]) /\ [th[t] EXCEPT !.pc = p].pc # "remove"
        BY <1>12, <2>3, <2>6 DEF Calls
    <2>7. CASE th[t].pc = "stop"
        <3>1. /\ cts[th[t].id] # Absent /\ cts' = Doc!Stopped(th[t].id)
              /\ th' = [th EXCEPT ![t] = Doc!Idle]
            BY <1>25, <2>7 DEF Doc!GivenUp, Doc!Old, Doc!Here, Doc!Done, Doc!Goto
        <3> QED
            BY <2>4, <2>5, <3>1
    <2>8. CASE th[t].pc = "park"
        <3>1. /\ cts[th[t].id] # Absent /\ cts' = Doc!Renamed(th[t].id, "parked")
              /\ th' = [th EXCEPT ![t] = [th[t] EXCEPT !.pc = "restart"]]
            BY <1>25, <2>8 DEF Doc!GivenUp, Doc!Old, Doc!Here, Doc!Proceed, Doc!Goto
        <3>2. <<th[t].pc, "restart">> \in Paths
            BY <2>8 DEF Paths
        <3> DEFINE r == [th[t] EXCEPT !.pc = "restart"]
        <3>3. Moves(th[t], r) /\ r.pc # "remove" /\ th' = [th EXCEPT ![t] = r]
            BY <2>6, <3>1, <3>2
        <3> HIDE DEF r
        <3> QED
            BY <2>4, <2>5, <3>1, <3>3
    <2>9. CASE th[t].pc = "start"
        <3>1. /\ cts[th[t].new] # Absent /\ cts' = Doc!Started(th[t].new)
              /\ th' = [th EXCEPT ![t] = [th[t] EXCEPT !.pc = "drop"]]
            BY <1>25, <2>9 DEF Doc!GivenUp, Doc!Here, Doc!Proceed, Doc!Goto
        <3>2. <<th[t].pc, "drop">> \in Paths /\ th[t].new \in Doc!Ids
            BY <2>4, <2>9, ReplacementStates DEF Paths
        <3> DEFINE r == [th[t] EXCEPT !.pc = "drop"]
        <3>3. Moves(th[t], r) /\ r.pc # "remove" /\ th' = [th EXCEPT ![t] = r]
            BY <2>6, <3>1, <3>2
        <3> HIDE DEF r
        <3> QED
            BY <2>5, <3>1, <3>2, <3>3
    <2>10. CASE th[t].pc = "unpark"
        <3>1. /\ cts[th[t].id] # Absent /\ cts' = Doc!Renamed(th[t].id, th[t].name)
              /\ th' = [th EXCEPT ![t] = Doc!Idle]
            BY <1>25, <2>10 DEF Doc!GivenUp, Doc!Old, Doc!Here, Doc!Done, Doc!Goto
        <3> QED
            BY <2>4, <2>5, <3>1
    \* and one that deletes the replacement.
    <2>11. CASE th[t].pc = "drop"
        <3>1. /\ th[t].new \in Doc!Ids /\ cts' = [cts EXCEPT ![th[t].new] = Absent]
              /\ th' = [th EXCEPT ![t] = Doc!Idle]
            BY <1>25, <2>4, <2>11 DEF Doc!GivenUp, Doc!Done, Doc!Goto
        <3>2. ASSUME mixed # "other", NEW o \in Threads \ {t}, th[o] \in Doc!Replacement
              PROVE  th[o].new # th[t].new
            BY <2>4, <3>1, <3>2 DEF Doc!IInv, Doc!Faithfully, Doc!HasNew
        <3>3. ASSUME mixed # "other", data # 0
              PROVE  \E k \in Doc!Ids : Doc!Settled(k) /\ cts[k].vol = data /\ k # th[t].new
            BY <2>4, <2>11, <3>1, <3>3 DEF Doc!IInv, Doc!DataSettled, Doc!Settled, Doc!HasNew
        <3>4. UNCHANGED <<tag, registry, made, requests, want, data>> /\ Alike /\ faults' \in Nat
            BY <2>1, <2>2
        <3> QED
            BY <2>3, <2>4, <3>1, <3>2, <3>3, <3>4, CloneDeletes
    <2> QED
        BY <2>1, <2>7, <2>8, <2>9, <2>10, <2>11
<1>24. CASE UNCHANGED Doc!vars
    BY <1>22, <1>24, DockerParts DEF Doc!vars
<1> QED
    BY <1>2, <1>3, <1>4, <1>5, <1>7, <1>8, <1>9, <1>10, <1>13, <1>14, <1>15, <1>16, <1>17, <1>18,
       <1>19, <1>20, <1>21, <1>23, <1>24, <1>25, CreationGivenUp DEF Doc!Next

\* "No v=1: named AND anonymous volumes stay": some container holds the service's data
\* until the admin deletes it, whichever calls of a replacement fail and however
\* replacements overlap, for any number of request threads (_dk_recreate_body,
\* _dk_recreate_clone).
THEOREM DataSurvives == Spec => []DataKept
<1>1. Init => (which = "Doc" => Doc!IInv)
    BY DockerInit DEF Init
<1>2. (which = "Doc" => Doc!IInv) /\ [Next]_vars => (which = "Doc" => Doc!IInv)'
    BY ComponentStep, DockerStep
<1>3. (which = "Doc" => Doc!IInv) => DataKept
    BY DEF DataKept, Doc!DataKept, Doc!IInv, Doc!DataSettled, Doc!Settled
<1> QED
    BY <1>1, <1>2, <1>3, PTL DEF Spec

----------------------------------------------------------------------------
(* The invariant of ServiceBack *)

LEMMA ServiceInit ==
    ASSUME Doc!Init
    PROVE  Doc!ServiceKept
<1> USE DockerBounds, IdsType, DockerRequestStates
<1>1. /\ th = [t \in Threads |-> Doc!Idle] /\ mixed = "none"
      /\ \A c \in Doc!Ids : c # 1 => cts[c] = Absent
    BY DEF Doc!Init
<1>2. want => Doc!Serving # {}
    <2>1. PICK up, rm \in BOOLEAN :
             /\ want = up
             /\ cts = [c \in Doc!Ids |->
                         IF c = 1 THEN [name |-> "app", image |-> 1, up |-> up, rm |-> rm, vol |-> 1]
                         ELSE Absent]
        BY DEF Doc!Init
    <2> DEFINE first == [name |-> "app", image |-> 1, up |-> up, rm |-> rm, vol |-> 1]
    <2>2. first \in Doc!Container /\ first.name = "app" /\ first.up = up
        BY DEF Doc!Container, Doc!Image
    <2>3. cts[1] = first
        BY <2>1
    <2> HIDE DEF first
    <2> QED
        BY <2>1, <2>2, <2>3 DEF Doc!Serving, Doc!Named, Doc!Here
<1>3. \A t \in Threads : th[t] = Doc!Idle /\ th[t].pc = "idle" /\ th[t] \notin Doc!Replacement
    BY <1>1 DEF Calls
<1>4. \A c, d \in Doc!Named("app") : c = d
    BY <1>1 DEF Doc!Named, Doc!Here
<1> QED
    BY <1>2, <1>3, <1>4 DEF Doc!ServiceKept, Doc!Placed

\* What is known of the only request there is.
LEMMA Sole ==
    ASSUME Doc!IInv, Doc!ServiceKept, mixed = "none", NEW t \in Threads,
           th[t].pc # "idle" \/ \A o \in Threads \ {t} : th[o] = Doc!Idle
    PROVE  /\ \A o \in Threads \ {t} : th[o] = Doc!Idle
           /\ \A c, d \in Doc!Named("app") : c = d
           /\ Doc!Placed(t)
           /\ want /\ faults <= 1 =>
                 /\ th[t] \in Doc!Replacement => th[t].up
                 /\ Doc!Untouched(t) => Doc!Serving # {}
<1>1. \A o \in Threads \ {t} : th[o] = Doc!Idle
    <2>1. th[t].pc # "idle" => th[t] # Doc!Idle
        BY DockerRequestStates
    <2> QED
        BY <2>1 DEF Doc!ServiceKept
<1>2. \A o \in Threads \ {t} : Doc!Untouched(o)
    BY <1>1, DockerRequestStates DEF Doc!Untouched
<1> QED
    BY <1>1, <1>2 DEF Doc!ServiceKept

LEMMA SoleMoves ==
    ASSUME NEW t \in Threads, NEW r \in Doc!Request, th' = [th EXCEPT ![t] = r],
           Doc!IInv, Doc!ServiceKept,
           mixed' = "none" =>
               /\ \A o \in Threads \ {t} : th[o] = Doc!Idle
               /\ \A c, d \in Doc!Named("app")' : c = d
               /\ Doc!Placed(t)'
               /\ want' /\ faults' <= 1 =>
                     /\ r \in Doc!Replacement => r.up
                     /\ Doc!Untouched(t)' => Doc!Serving' # {}
    PROVE  Doc!ServiceKept'
<1> SUFFICES ASSUME mixed' = "none"
             PROVE  Doc!ServiceKept'
    BY DEF Doc!ServiceKept
<1>1. th'[t] = r /\ \A o \in Threads \ {t} : th'[o] = Doc!Idle
    BY DockerParts
<1>2. Doc!Idle \notin Doc!Replacement /\ Doc!Idle.pc = "idle"
    BY DockerRequestStates DEF Calls
<1>3. \A o \in Threads \ {t} : Doc!Placed(o)'
    BY <1>1, <1>2 DEF Doc!Placed
<1>4. \A p, o \in Threads : p # o => th'[p] = Doc!Idle \/ th'[o] = Doc!Idle
    BY <1>1
<1>5. \A o \in Threads : th'[o] \in Doc!Replacement => o = t
    BY <1>1, <1>2
<1> QED
    BY <1>1, <1>3, <1>4, <1>5 DEF Doc!ServiceKept

LEMMA SoleBegins ==
    ASSUME NEW t \in Threads, NEW r, NEW kind, Doc!Begin(t, r, kind), mixed' = "none"
    PROVE  mixed = "none" /\ \A o \in Threads \ {t} : th[o] = Doc!Idle
BY DEF Doc!Begin

\* What a call does to the containers.
LEMMA ContainerSteps ==
    ASSUME Doc!IInv, NEW c \in Doc!Ids, cts[c] # Absent
    PROVE  /\ \A b \in BOOLEAN : cts' = [cts EXCEPT ![c].up = b] =>
                 /\ cts'[c] # Absent /\ cts'[c].name = cts[c].name /\ cts'[c].up = b
                 /\ \A k \in Doc!Ids \ {c} : cts'[k] = cts[k]
           /\ \A n \in {"app", "parked"} : cts' = [cts EXCEPT ![c].name = n] =>
                 /\ cts'[c] # Absent /\ cts'[c].name = n /\ cts'[c].up = cts[c].up
                 /\ \A k \in Doc!Ids \ {c} : cts'[k] = cts[k]
           /\ cts' = [cts EXCEPT ![c] = Absent] =>
                 /\ cts'[c] = Absent
                 /\ \A k \in Doc!Ids \ {c} : cts'[k] = cts[k]
<1>1. cts \in [Doc!Ids -> {Absent} \cup Doc!Container] /\ cts[c] \in Doc!Container
    BY DockerParts
<1>2. ASSUME NEW b \in BOOLEAN, cts' = [cts EXCEPT ![c].up = b]
      PROVE  /\ cts'[c] # Absent /\ cts'[c].name = cts[c].name /\ cts'[c].up = b
             /\ \A k \in Doc!Ids \ {c} : cts'[k] = cts[k]
    <2> DEFINE new == [cts[c] EXCEPT !.up = b]
    <2>1. new \in Doc!Container /\ new.name = cts[c].name /\ new.up = b
        BY <1>1 DEF Doc!Container
    <2>2. cts' = [cts EXCEPT ![c] = new]
        BY <1>2
    <2> HIDE DEF new
    <2> QED
        BY <1>1, <2>1, <2>2, DockerBounds
<1>3. ASSUME NEW n \in {"app", "parked"}, cts' = [cts EXCEPT ![c].name = n]
      PROVE  /\ cts'[c] # Absent /\ cts'[c].name = n /\ cts'[c].up = cts[c].up
             /\ \A k \in Doc!Ids \ {c} : cts'[k] = cts[k]
    <2> DEFINE new == [cts[c] EXCEPT !.name = n]
    <2>1. new \in Doc!Container /\ new.name = n /\ new.up = cts[c].up
        BY <1>1 DEF Doc!Container
    <2>2. cts' = [cts EXCEPT ![c] = new]
        BY <1>3
    <2> HIDE DEF new
    <2> QED
        BY <1>1, <2>1, <2>2, DockerBounds
<1>4. cts' = [cts EXCEPT ![c] = Absent] => cts'[c] = Absent /\ \A k \in Doc!Ids \ {c} : cts'[k] = cts[k]
    BY <1>1
<1> QED
    BY <1>2, <1>3, <1>4

\* A step of the only request that leaves the containers.
LEMMA SoleWaits ==
    ASSUME NEW t \in Threads, NEW r \in Doc!Request, th' = [th EXCEPT ![t] = r],
           Doc!IInv, Doc!ServiceKept, cts' = cts, faults' >= faults, want' = want, faults' \in Nat,
           mixed' = "none" => mixed = "none" /\ \A o \in Threads \ {t} : th[o] = Doc!Idle,
           Doc!Untouched(t), r \notin Doc!Replacement, r.pc # "startnew"
    PROVE  Doc!ServiceKept'
<1> SUFFICES ASSUME mixed' = "none"
             PROVE  /\ \A c, d \in Doc!Named("app")' : c = d
                    /\ Doc!Placed(t)'
                    /\ want' /\ faults' <= 1 => Doc!Serving' # {}
    BY SoleMoves
<1>1. /\ \A c, d \in Doc!Named("app") : c = d
      /\ want /\ faults <= 1 => Doc!Serving # {}
    BY Sole
<1>2. th'[t] = r /\ r.pc \notin Calls
    BY DockerParts, DockerRequestStates
<1>3. Doc!Placed(t)'
    BY <1>2, DockerRequestStates DEF Doc!Placed, Calls
<1>4. \A c, d \in Doc!Named("app")' : c = d
    BY <1>1 DEF Doc!Named, Doc!Here
<1>5. want' /\ faults' <= 1 => Doc!Serving' # {}
    BY <1>1, DockerParts DEF Doc!Serving, Doc!Named, Doc!Here
<1> QED
    BY <1>3, <1>4, <1>5

LEMMA ServiceRequests ==
    ASSUME Doc!IInv, Doc!ServiceKept, NEW t \in Threads,
           \/ Doc!Action(t) \/ Doc!Delete(t) \/ Doc!ImageDelete(t) \/ Doc!PullRequest(t)
           \/ Doc!CreateRequest(t) \/ Doc!RecreateRequest(t)
    PROVE  Doc!ServiceKept'
<1> USE DockerBounds, IdsType, DockerRequestStates
<1>1. Doc!Idle \notin Doc!Replacement
    BY DEF Calls
<1>2. ASSUME th[t] = Doc!Idle, mixed = "none", \A o \in Threads \ {t} : th[o] = Doc!Idle
      PROVE  /\ \A c, d \in Doc!Named("app") : c = d
             /\ want /\ faults <= 1 => Doc!Serving # {}
    BY <1>2, Sole DEF Doc!Untouched
\* A request of one call.
<1>3. ASSUME Doc!Begin(t, Doc!Idle, "action") \/ Doc!Begin(t, Doc!Idle, "delete"), faults' = faults,
             mixed' = "none" =>
                 /\ \A c \in Doc!Named("app")' : c \in Doc!Named("app")
                 /\ want' => (want /\ \E c \in Doc!Ids : cts'[c] = cts[c] /\ c \in Doc!Serving)
                          \/ (\E c \in Doc!Ids : c \in Doc!Serving') \/ faults > 1
      PROVE  Doc!ServiceKept'
    <2>1. th' = [th EXCEPT ![t] = Doc!Idle] /\ th[t] = Doc!Idle
        BY <1>3 DEF Doc!Begin, Doc!Goto
    <2> SUFFICES ASSUME mixed' = "none"
                 PROVE  /\ \A o \in Threads \ {t} : th[o] = Doc!Idle
                        /\ \A c, d \in Doc!Named("app")' : c = d
                        /\ Doc!Placed(t)'
                        /\ want' /\ faults' <= 1 => Doc!Serving' # {}
        BY <1>1, <2>1, SoleMoves
    <2>2. mixed = "none" /\ \A o \in Threads \ {t} : th[o] = Doc!Idle
        BY <1>3, SoleBegins
    <2>3. \A c, d \in Doc!Named("app")' : c = d
        BY <1>2, <1>3, <2>1, <2>2
    <2>4. th'[t] = Doc!Idle
        BY <2>1, DockerParts
    <2>5. Doc!Placed(t)'
        BY <1>1, <2>4 DEF Doc!Placed
    <2>6. want' /\ faults' <= 1 => Doc!Serving' # {}
        BY <1>3, DockerParts DEF Doc!Serving, Doc!Named, Doc!Here
    <2> QED
        BY <2>2, <2>3, <2>5, <2>6
<1>4. CASE Doc!Action(t)
    <2>1. PICK c \in Doc!Ids, b \in BOOLEAN :
             /\ cts[c] # Absent /\ Doc!Begin(t, Doc!Idle, "action") /\ faults' = faults
             /\ cts' = [cts EXCEPT ![c].up = b]
             /\ want' = IF cts[c].name = "app" THEN b ELSE want
        BY <1>4, SameContainers DEF Doc!Action, Doc!Here, Doc!Started
    <2>2. /\ cts'[c] # Absent /\ cts'[c].name = cts[c].name /\ cts'[c].up = b
          /\ \A k \in Doc!Ids \ {c} : cts'[k] = cts[k]
        BY <2>1, ContainerSteps
    <2>3. \A k \in Doc!Named("app")' : k \in Doc!Named("app")
        BY <2>1, <2>2 DEF Doc!Named, Doc!Here
    <2>4. ASSUME mixed' = "none", want', ~ faults > 1
          PROVE  \E k \in Doc!Ids : k \in Doc!Serving'
        <3>1. CASE cts[c].name = "app"
            BY <2>1, <2>2, <2>4, <3>1 DEF Doc!Serving, Doc!Named, Doc!Here
        <3>2. CASE cts[c].name # "app"
            <4>1. mixed = "none" /\ th[t] = Doc!Idle /\ \A o \in Threads \ {t} : th[o] = Doc!Idle
                BY <2>1, <2>4, SoleBegins DEF Doc!Begin
            <4>2. want /\ faults <= 1
                BY <2>1, <2>4, <3>2, DockerParts
            <4>3. PICK k \in Doc!Serving : TRUE
                BY <1>2, <4>1, <4>2
            <4>4. k \in Doc!Ids /\ k # c
                BY <3>2 DEF Doc!Serving, Doc!Named
            <4> QED
                BY <2>2, <4>3, <4>4 DEF Doc!Serving, Doc!Named, Doc!Here
        <3> QED
            BY <3>1, <3>2
    <2> QED
        BY <1>3, <2>1, <2>3, <2>4
<1>5. CASE Doc!Delete(t)
    <2>1. PICK c \in Doc!Ids :
             /\ cts[c] # Absent /\ Doc!Begin(t, Doc!Idle, "delete") /\ faults' = faults
             /\ cts' = [cts EXCEPT ![c] = Absent]
             /\ want' = (want /\ cts[c].name # "app")
        BY <1>5 DEF Doc!Delete, Doc!Here
    <2>2. cts'[c] = Absent /\ \A k \in Doc!Ids \ {c} : cts'[k] = cts[k]
        BY <2>1, ContainerSteps
    <2>3. \A k \in Doc!Named("app")' : k \in Doc!Named("app")
        BY <2>1, <2>2 DEF Doc!Named, Doc!Here
    <2>4. ASSUME mixed' = "none", want', ~ faults > 1
          PROVE  \E k \in Doc!Ids : k \in Doc!Serving'
        <3>1. mixed = "none" /\ th[t] = Doc!Idle /\ \A o \in Threads \ {t} : th[o] = Doc!Idle
            BY <2>1, <2>4, SoleBegins DEF Doc!Begin
        <3>2. want
            BY <2>1, <2>4
        <3>3. cts[c].name # "app"
            BY <2>1, <2>4
        <3>4. PICK k \in Doc!Serving : TRUE
            BY <1>2, <2>4, <3>1, <3>2, DockerParts
        <3>5. k \in Doc!Ids /\ k # c
            BY <3>3 DEF Doc!Serving, Doc!Named
        <3> QED
            BY <2>2, <3>4, <3>5 DEF Doc!Serving, Doc!Named, Doc!Here
    <2> QED
        BY <1>3, <2>1, <2>3, <2>4
<1>6. CASE Doc!ImageDelete(t) \/ Doc!PullRequest(t) \/ Doc!CreateRequest(t)
    <2>1. PICK r \in {Doc!Idle, [pc |-> "pull", create |-> FALSE], [pc |-> "create", retry |-> TRUE]},
               kind \in {"image", "pull", "create"} :
             Doc!Begin(t, r, kind) /\ UNCHANGED <<cts, faults, want>>
        BY <1>6 DEF Doc!ImageDelete, Doc!PullRequest, Doc!CreateRequest
    <2>2. r \in Doc!Request /\ r \notin Doc!Replacement /\ r.pc # "startnew"
        BY <1>1 DEF Calls
    <2>3. th' = [th EXCEPT ![t] = r] /\ th[t] = Doc!Idle
        BY <2>1 DEF Doc!Begin, Doc!Goto
    <2>4. mixed' = "none" => mixed = "none" /\ \A o \in Threads \ {t} : th[o] = Doc!Idle
        BY <2>1, SoleBegins
    <2>5. cts' = cts /\ faults' >= faults /\ faults' \in Nat /\ Doc!Untouched(t)
        BY <2>1, <2>3, DockerParts DEF Doc!Untouched
    <2>6. want' = want
        BY <2>1
    <2> QED
        BY <2>2, <2>3, <2>4, <2>5, <2>6, SoleWaits
<1>7. CASE Doc!RecreateRequest(t)
    <2>1. PICK c \in Doc!Ids, compose \in BOOLEAN :
             /\ c \in Doc!Named("app") /\ tag # Absent
             /\ Doc!Begin(t, [pc |-> IF compose THEN "compose" ELSE IF cts[c].up THEN "stop" ELSE "park",
                              id |-> c, new |-> Absent, name |-> cts[c].name,
                              up |-> cts[c].up, rm |-> cts[c].rm, vol |-> cts[c].vol],
                          IF compose THEN "compose" ELSE "recreate")
             /\ UNCHANGED <<cts, tag, registry, made, faults, want, data>>
        BY <1>7 DEF Doc!RecreateRequest, Doc!Named
    <2> DEFINE r == [pc |-> IF compose THEN "compose" ELSE IF cts[c].up THEN "stop" ELSE "park",
                     id |-> c, new |-> Absent, name |-> cts[c].name,
                     up |-> cts[c].up, rm |-> cts[c].rm, vol |-> cts[c].vol]
    <2>2. cts[c] # Absent /\ cts[c].name = "app" /\ cts[c] \in Doc!Container
        BY <2>1, DockerParts DEF Doc!Named, Doc!Here
    <2>3. /\ r.pc \in {"compose", "stop", "park"}
          /\ r.id = c /\ r.new = Absent /\ r.name = "app" /\ r.up = cts[c].up
        BY <2>2
    <2>4. r \in Doc!Replacement
        <3>1. r \in Shape
            BY <2>2 DEF Shape, Calls, Doc!Container
        <3> HIDE DEF r
        <3> QED
            BY <2>3, <3>1 DEF Doc!Replacement, Shape, Calls
    <2>5. th' = [th EXCEPT ![t] = r] /\ th[t] = Doc!Idle
        BY <2>1 DEF Doc!Begin, Doc!Goto
    <2>6. mixed' = "none" => mixed = "none" /\ \A o \in Threads \ {t} : th[o] = Doc!Idle
        BY <2>1, SoleBegins
    <2> HIDE DEF r
    <2> SUFFICES ASSUME mixed' = "none"
                 PROVE  /\ \A o \in Threads \ {t} : th[o] = Doc!Idle
                        /\ \A k, d \in Doc!Named("app")' : k = d
                        /\ Doc!Placed(t)'
                        /\ want' /\ faults' <= 1 => r.up /\ (Doc!Untouched(t)' => Doc!Serving' # {})
        BY <2>4, <2>5, SoleMoves
    <2>7. /\ \A k, d \in Doc!Named("app") : k = d
          /\ want /\ faults <= 1 => Doc!Serving # {}
        BY <1>2, <2>5, <2>6
    <2>8. \A k, d \in Doc!Named("app")' : k = d
        BY <2>1, <2>7 DEF Doc!Named, Doc!Here
    <2>9. th'[t] = r /\ cts' = cts /\ tag' = tag
        BY <2>1, <2>4, <2>5, DockerParts
    <2>10. Doc!Placed(t)'
        BY <2>1, <2>2, <2>3, <2>9 DEF Doc!Placed, Doc!Called, Doc!Here, Doc!HasNew, Doc!Old
    <2>11. ASSUME want', faults' <= 1
           PROVE  r.up /\ Doc!Serving' # {}
        <3>1. want /\ faults <= 1
            BY <2>1, <2>11
        <3>2. PICK k \in Doc!Serving : TRUE
            BY <2>7, <3>1
        <3>3. k = c /\ cts[k].up
            BY <2>1, <2>7, <3>2 DEF Doc!Serving
        <3>4. k \in Doc!Serving'
            BY <2>9, <3>2 DEF Doc!Serving, Doc!Named, Doc!Here
        <3> QED
            BY <2>3, <3>3, <3>4
    <2> QED
        BY <2>6, <2>8, <2>10, <2>11
<1> QED
    BY <1>4, <1>5, <1>6, <1>7

\* What is known of a replacement by clone that no other request overlapped.
App(c) == cts[c] # Absent /\ cts[c].name = "app"
Parked(c) == cts[c] # Absent /\ cts[c].name = "parked"

LEMMA Known ==
    ASSUME Doc!IInv, Doc!ServiceKept, mixed = "none", NEW t \in Threads, th[t] \in Doc!Replacement
    PROVE  /\ th[t].id \in Doc!Ids /\ th[t].new \in Doc!Ids \cup {Absent} /\ th[t].name = "app"
           /\ th[t].up \in BOOLEAN /\ tag # Absent /\ faults \in Nat
           /\ \A c, d \in Doc!Ids : App(c) /\ App(d) => c = d
           /\ want /\ faults <= 1 => th[t].up
           /\ want /\ faults <= 1 /\ th[t].pc = "stop" => \E c \in Doc!Ids : App(c) /\ cts[c].up
           /\ th[t].pc \in {"compose", "stop", "park", "restart"} => App(th[t].id)
           /\ th[t].pc \in {"replace", "start", "settle", "drop", "unpark", "remove"} => Parked(th[t].id)
           /\ th[t].pc \in {"start", "settle", "drop", "remove"} /\ th[t].new # Absent => App(th[t].new)
           /\ th[t].pc \in {"replace", "unpark"} \/ (th[t].pc = "drop" /\ th[t].new = Absent) =>
                 \A c \in Doc!Ids : ~App(c)
           /\ th[t].pc \in {"restart", "drop", "unpark"} => faults > 0
           /\ th[t].pc = "settle" => cts[th[t].new].up \/ faults > 0
           /\ th[t].pc = "remove" /\ th[t].up => cts[th[t].new].up
<1>1. /\ \A c, d \in Doc!Named("app") : c = d
      /\ Doc!Placed(t)
      /\ want /\ faults <= 1 =>
            /\ th[t] \in Doc!Replacement => th[t].up
            /\ Doc!Untouched(t) => Doc!Serving # {}
    BY Sole, DockerRequestStates DEF Calls
<1>2. \A c \in Doc!Ids : App(c) <=> c \in Doc!Named("app")
    BY DEF App, Doc!Named, Doc!Here
<1>3. want /\ faults <= 1 /\ th[t].pc = "stop" => \E c \in Doc!Ids : App(c) /\ cts[c].up
    BY <1>1 DEF Doc!Untouched, Doc!Serving, App, Doc!Named, Doc!Here
<1>4. /\ th[t].id \in Doc!Ids /\ th[t].new \in Doc!Ids \cup {Absent} /\ th[t].up \in BOOLEAN /\ faults \in Nat
    BY ReplacementStates, DockerParts
<1>5. \A c, d \in Doc!Ids : App(c) /\ App(d) => c = d
    BY <1>1, <1>2
<1>6. /\ th[t].name = "app" /\ tag # Absent
      /\ th[t].pc \in {"compose", "stop", "park", "restart"} => App(th[t].id)
      /\ th[t].pc \in {"replace", "start", "settle", "drop", "unpark", "remove"} => Parked(th[t].id)
      /\ th[t].pc \in {"start", "settle", "drop", "remove"} /\ th[t].new # Absent => App(th[t].new)
      /\ th[t].pc \in {"restart", "drop", "unpark"} => faults > 0
      /\ th[t].pc = "settle" => cts[th[t].new].up \/ faults > 0
      /\ th[t].pc = "remove" /\ th[t].up => cts[th[t].new].up
    BY <1>1 DEF Doc!Placed, Doc!Called, Doc!Here, Doc!HasNew, Doc!Old, App, Parked
<1>7. th[t].pc \in {"replace", "unpark"} \/ (th[t].pc = "drop" /\ th[t].new = Absent) =>
          \A c \in Doc!Ids : ~App(c)
    BY <1>1, <1>2 DEF Doc!Placed, Doc!HasNew
<1> QED
    BY <1>1, <1>3, <1>4, <1>5, <1>6, <1>7

\* Its call, to the next one or to its end.
LEMMA ServiceCall ==
    ASSUME Doc!IInv, Doc!ServiceKept, NEW t \in Threads, th[t] \in Doc!Replacement, th[t].pc # "compose",
           faults' = faults \/ faults' = faults + 1, UNCHANGED <<tag, want, mixed>>,
           NEW r, r = Doc!Idle \/ (r \in Doc!Replacement /\ r.pc \notin {"compose", "stop"} /\ r.up = th[t].up),
           th' = [th EXCEPT ![t] = r],
           mixed = "none" =>
               /\ \A c, d \in Doc!Ids : App(c)' /\ App(d)' => c = d
               /\ r # Doc!Idle => Doc!Placed(t)'
               /\ r = Doc!Idle /\ want /\ faults' <= 1 /\ th[t].up =>
                     \E c \in Doc!Ids : App(c)' /\ cts'[c].up
    PROVE  Doc!ServiceKept'
<1> USE DockerRequestStates
<1>1. r \in Doc!Request /\ th'[t] = r /\ Doc!Idle \notin Doc!Replacement
    BY DockerParts DEF Calls
<1> SUFFICES ASSUME mixed = "none"
             PROVE  /\ \A o \in Threads \ {t} : th[o] = Doc!Idle
                    /\ \A c, d \in Doc!Named("app")' : c = d
                    /\ Doc!Placed(t)'
                    /\ want' /\ faults' <= 1 =>
                          /\ r \in Doc!Replacement => r.up
                          /\ Doc!Untouched(t)' => Doc!Serving' # {}
    BY <1>1, SoleMoves
<1>2. \A o \in Threads \ {t} : th[o] = Doc!Idle
    BY Sole DEF Calls
<1>3. \A c, d \in Doc!Named("app")' : c = d
    BY DEF App, Doc!Named, Doc!Here
<1>4. Doc!Placed(t)'
    <2>1. CASE r = Doc!Idle
        BY <1>1, <2>1 DEF Doc!Placed
    <2> QED
        BY <2>1
<1>5. ASSUME want', faults' <= 1
      PROVE  /\ r \in Doc!Replacement => r.up
             /\ Doc!Untouched(t)' => Doc!Serving' # {}
    <2>1. want /\ faults <= 1
        BY <1>5, DockerParts
    <2>2. th[t].up
        BY <2>1, Known
    <2>3. Doc!Untouched(t)' => r = Doc!Idle
        BY <1>1 DEF Doc!Untouched, Calls
    <2>4. r = Doc!Idle => \E c \in Doc!Ids : App(c)' /\ cts'[c].up
        BY <1>5, <2>1, <2>2
    <2>5. (\E c \in Doc!Ids : App(c)' /\ cts'[c].up) => Doc!Serving' # {}
        BY DEF App, Doc!Serving, Doc!Named, Doc!Here
    <2>6. r \in Doc!Replacement => r.up
        BY <1>1, <2>2
    <2> QED
        BY <2>3, <2>4, <2>5, <2>6
<1> QED
    BY <1>2, <1>3, <1>4, <1>5

\* What a call leaves in place, in terms of the next one.
LEMMA PlacedNext ==
    ASSUME NEW t \in Threads, NEW r, th'[t] = r, r \in Doc!Replacement, tag' # Absent, r.name = "app",
           r.pc # "compose",
           r.pc \in {"stop", "park", "restart"} => App(r.id)',
           r.pc \in {"replace", "start", "settle", "drop", "unpark", "remove"} => Parked(r.id)',
           r.pc \in {"start", "settle", "drop", "remove"} /\ r.new # Absent => App(r.new)',
           r.pc \in {"replace", "unpark"} \/ (r.pc = "drop" /\ r.new = Absent) => \A c \in Doc!Ids : ~App(c)',
           r.pc \in {"restart", "drop", "unpark"} => faults' > 0,
           r.pc = "settle" => cts'[r.new].up \/ faults' > 0,
           r.pc = "remove" /\ r.up => cts'[r.new].up
    PROVE  Doc!Placed(t)'
<1>1. (\A c \in Doc!Ids : ~App(c)') => Doc!Named("app")' = {}
    BY DEF App, Doc!Named, Doc!Here
<1>2. r.pc \in Calls
    BY ReplacementStates
<1> QED
    BY <1>1, <1>2 DEF Doc!Placed, Doc!Called, Doc!Here, Doc!HasNew, Doc!Old, App, Parked, Calls

\* The calls of a replacement by clone, one by one.
LEMMA ServiceCalls ==
    ASSUME Doc!IInv, Doc!ServiceKept, NEW t \in Threads,
           \/ Doc!Stop(t) \/ Doc!Park(t) \/ Doc!Restart(t) \/ Doc!Replace(t) \/ Doc!Start(t)
           \/ Doc!Exits(t) \/ Doc!Settle(t) \/ Doc!Drop(t) \/ Doc!Unpark(t) \/ Doc!Remove(t)
    PROVE  Doc!ServiceKept'
<1> USE DockerBounds, IdsType
<1>1. th[t].pc \in Calls \ {"compose"}
    BY DEF Doc!Stop, Doc!Park, Doc!Restart, Doc!Replace, Doc!Start, Doc!Exits, Doc!Settle,
           Doc!Drop, Doc!Unpark, Doc!Remove, Calls
<1>2. /\ th[t] \in Doc!Replacement /\ th[t].pc # "compose"
      /\ th[t].id \in Doc!Ids /\ th[t].new \in Doc!Ids \cup {Absent} /\ th[t].up \in BOOLEAN
    BY <1>1, DockerParts, DockerRequestStates, ReplacementStates
<1>3. /\ faults' = faults \/ faults' = faults + 1
      /\ UNCHANGED <<tag, want, mixed>> /\ faults \in Nat
    BY DockerParts DEF Doc!Stop, Doc!Park, Doc!Restart, Doc!Replace, Doc!Start, Doc!Exits, Doc!Settle,
           Doc!Drop, Doc!Unpark, Doc!Remove, Doc!Fault, Doc!Unhindered
<1> PICK old \in Doc!Ids, next \in Doc!Ids \cup {Absent} : old = th[t].id /\ next = th[t].new
    BY <1>2
\* The containers that a call leaves, and those it changes.
<1>4. ASSUME cts' = cts
      PROVE  \A c \in Doc!Ids : (App(c)' <=> App(c)) /\ (Parked(c)' <=> Parked(c)) /\ cts'[c].up = cts[c].up
    BY <1>4 DEF App, Parked
<1>5. ASSUME NEW c \in Doc!Ids, cts[c] # Absent, NEW b \in BOOLEAN, cts' = [cts EXCEPT ![c].up = b]
      PROVE  /\ \A k \in Doc!Ids : (App(k)' <=> App(k)) /\ (Parked(k)' <=> Parked(k))
             /\ cts'[c].up = b
    <2>1. /\ cts'[c] # Absent /\ cts'[c].name = cts[c].name /\ cts'[c].up = b
          /\ \A k \in Doc!Ids \ {c} : cts'[k] = cts[k]
        BY <1>5, ContainerSteps
    <2> QED
        BY <1>5, <2>1 DEF App, Parked
<1>6. ASSUME NEW c \in Doc!Ids, cts[c] # Absent, NEW n \in {"app", "parked"}, cts' = Doc!Renamed(c, n)
      PROVE  /\ \A k \in Doc!Ids \ {c} : (App(k)' <=> App(k)) /\ (Parked(k)' <=> Parked(k))
             /\ (App(c)' <=> n = "app") /\ (Parked(c)' <=> n = "parked")
             /\ cts'[c].up = cts[c].up
    <2>1. /\ cts'[c] # Absent /\ cts'[c].name = n /\ cts'[c].up = cts[c].up
          /\ \A k \in Doc!Ids \ {c} : cts'[k] = cts[k]
        BY <1>6, ContainerSteps DEF Doc!Renamed
    <2> QED
        BY <1>6, <2>1 DEF App, Parked
<1>7. ASSUME NEW c \in Doc!Ids, cts[c] # Absent, cts' = [cts EXCEPT ![c] = Absent]
      PROVE  /\ \A k \in Doc!Ids \ {c} : /\ App(k)' <=> App(k)
                                         /\ Parked(k)' <=> Parked(k)
                                         /\ cts'[k].up = cts[k].up
             /\ ~App(c)' /\ ~Parked(c)'
    BY <1>7, ContainerSteps DEF App, Parked
\* The request ends,
<1>8. ASSUME th' = [th EXCEPT ![t] = Doc!Idle],
             mixed = "none" =>
                 /\ \A c, d \in Doc!Ids : App(c)' /\ App(d)' => c = d
                 /\ want /\ faults' <= 1 /\ th[t].up => \E c \in Doc!Ids : App(c)' /\ cts'[c].up
      PROVE  Doc!ServiceKept'
    BY <1>2, <1>3, <1>8, ServiceCall
\* or goes on.
<1>9. ASSUME NEW p \in Calls \ {"compose", "stop"}, <<th[t].pc, p>> \in Paths,
             th' = [th EXCEPT ![t] = [th[t] EXCEPT !.pc = p]],
             mixed = "none" =>
                 /\ \A c, d \in Doc!Ids : App(c)' /\ App(d)' => c = d
                 /\ p \in {"park", "restart"} => App(old)'
                 /\ p \in {"replace", "start", "settle", "drop", "unpark", "remove"} => Parked(old)'
                 /\ p \in {"start", "settle", "drop", "remove"} /\ th[t].new # Absent => App(next)'
                 /\ p \in {"replace", "unpark"} \/ (p = "drop" /\ th[t].new = Absent) =>
                       \A c \in Doc!Ids : ~App(c)'
                 /\ p \in {"restart", "drop", "unpark"} => faults' > 0
                 /\ p = "settle" => cts'[th[t].new].up \/ faults' > 0
                 /\ p = "remove" /\ th[t].up => cts'[th[t].new].up
      PROVE  Doc!ServiceKept'
    <2> DEFINE r == [th[t] EXCEPT !.pc = p]
    <2>1. Moves(th[t], r)
        BY <1>9 DEF Moves
    <2>2. /\ r.pc = p /\ r.id = th[t].id /\ r.new = th[t].new /\ r.name = th[t].name /\ r.up = th[t].up
        BY <1>2, <1>9, ReplacementStates
    <2>3. th' = [th EXCEPT ![t] = r]
        BY <1>9
    <2> HIDE DEF r
    <2>4. r \in Doc!Replacement
        <3>1. r = Doc!Idle \/ r \in Doc!Replacement
            BY <1>2, <2>1, MovesOnward, Onwards
        <3> QED
            BY <1>9, <2>2, <3>1, DockerRequestStates DEF Calls
    <2>5. th'[t] = r
        BY <2>3, DockerParts
    <2>6. ASSUME mixed = "none"
          PROVE  Doc!Placed(t)'
        <3>1. r.name = "app" /\ tag' # Absent
            BY <1>2, <1>3, <2>2, <2>6, Known
        <3> QED
            BY <1>9, <2>2, <2>4, <2>5, <2>6, <3>1, PlacedNext
    <2>7. r # Doc!Idle /\ r.pc \notin {"compose", "stop"} /\ r.up = th[t].up
        BY <1>9, <2>2, DockerRequestStates DEF Calls
    <2> QED
        BY <1>2, <1>3, <1>9, <2>3, <2>4, <2>6, <2>7, ServiceCall
<1>20. ASSUME mixed = "none"
       PROVE  /\ th[t].name = "app" /\ tag # Absent
              /\ \A c, d \in Doc!Ids : App(c) /\ App(d) => c = d
              /\ want /\ faults <= 1 => th[t].up
              /\ want /\ faults <= 1 /\ th[t].pc = "stop" => \E c \in Doc!Ids : App(c) /\ cts[c].up
              /\ th[t].pc \in {"stop", "park", "restart"} => App(old)
              /\ th[t].pc \in {"replace", "start", "settle", "drop", "unpark", "remove"} => Parked(old)
              /\ th[t].pc \in {"start", "settle", "drop", "remove"} /\ next # Absent => App(next)
              /\ th[t].pc \in {"replace", "unpark"} \/ (th[t].pc = "drop" /\ next = Absent) =>
                    \A c \in Doc!Ids : ~App(c)
              /\ th[t].pc \in {"restart", "drop", "unpark"} => faults > 0
              /\ th[t].pc = "settle" => cts[next].up \/ faults > 0
              /\ th[t].pc = "remove" /\ th[t].up => cts[next].up
    BY <1>2, <1>20, Known
<1> USE <1>2, <1>3
<1>10. CASE Doc!Stop(t)
    <2>1. th[t].pc = "stop"
        BY <1>10 DEF Doc!Stop
    <2>2. CASE th' = [th EXCEPT ![t] = Doc!Idle] /\ cts' = cts
        <3>1. mixed = "none" =>
                 /\ \A c, d \in Doc!Ids : App(c)' /\ App(d)' => c = d
                 /\ want /\ faults' <= 1 => \E c \in Doc!Ids : App(c)' /\ cts'[c].up
            BY <1>4, <2>1, <2>2, <1>20
        <3> QED
            BY <1>8, <2>2, <3>1
    <2>3. CASE ~(th' = [th EXCEPT ![t] = Doc!Idle] /\ cts' = cts)
        <3>1. /\ cts[old] # Absent /\ cts' = Doc!Stopped(old)
              /\ th' = [th EXCEPT ![t] = [th[t] EXCEPT !.pc = "park"]]
            BY <1>10, <2>3 DEF Doc!Stop, Doc!Old, Doc!Here, Doc!Proceed, Doc!Done, Doc!Goto
        <3>2. cts' = [cts EXCEPT ![old].up = FALSE]
            BY <3>1, SameContainers
        <3>3. mixed = "none" =>
                 /\ \A c, d \in Doc!Ids : App(c)' /\ App(d)' => c = d
                 /\ App(old)'
            BY <1>5, <2>1, <3>1, <3>2, <1>20
        <3> QED
            BY <1>9, <2>1, <3>1, <3>3 DEF Paths, Calls
    <2> QED
        BY <2>2, <2>3
<1>11. CASE Doc!Park(t)
    <2>1. th[t].pc = "park"
        BY <1>11 DEF Doc!Park
    <2>2. CASE cts[old] # Absent /\ cts' = Doc!Renamed(old, "parked")
               /\ th' = [th EXCEPT ![t] = [th[t] EXCEPT !.pc = "replace"]]
        <3>1. mixed = "none" => Parked(old)' /\ \A c \in Doc!Ids : ~App(c)'
            BY <1>6, <2>1, <2>2, <1>20
        <3> QED
            BY <1>9, <2>1, <2>2, <3>1 DEF Paths, Calls
    <2>3. CASE ~(cts[old] # Absent /\ cts' = Doc!Renamed(old, "parked")
                 /\ th' = [th EXCEPT ![t] = [th[t] EXCEPT !.pc = "replace"]])
        <3>1. /\ cts[old] = Absent \/ faults' = faults + 1
              /\ cts' = cts
              /\ th' = [th EXCEPT ![t] = [th[t] EXCEPT !.pc = "restart"]]
            BY <1>11, <2>3 DEF Doc!Park, Doc!Old, Doc!Here, Doc!Fault, Doc!Proceed, Doc!Goto
        <3>2. mixed = "none" =>
                 /\ \A c, d \in Doc!Ids : App(c)' /\ App(d)' => c = d
                 /\ App(old)' /\ faults' > 0
            <4> SUFFICES ASSUME mixed = "none"
                         PROVE  /\ \A c, d \in Doc!Ids : App(c)' /\ App(d)' => c = d
                                /\ App(old)' /\ faults' > 0
                OBVIOUS
            <4>1. /\ App(old)
                  /\ \A c, d \in Doc!Ids : App(c) /\ App(d) => c = d
                BY <2>1, <1>20
            <4>2. faults' = faults + 1
                BY <3>1, <4>1 DEF App
            <4> QED
                BY <1>4, <3>1, <4>1, <4>2
        <3> QED
            BY <1>9, <2>1, <3>1, <3>2 DEF Paths, Calls
    <2> QED
        BY <2>2, <2>3
<1>12. CASE Doc!Restart(t)
    <2>1. /\ th[t].pc = "restart" /\ th' = [th EXCEPT ![t] = Doc!Idle]
          /\ \/ cts[old] # Absent /\ cts' = Doc!Started(old)
             \/ ~(th[t].up /\ cts[old] # Absent) /\ cts' = cts
             \/ faults' = faults + 1 /\ cts' = cts
        BY <1>12 DEF Doc!Restart, Doc!Old, Doc!Here, Doc!Fault, Doc!Done, Doc!Goto
    <2>2. ASSUME mixed = "none"
          PROVE  /\ \A c, d \in Doc!Ids : App(c)' /\ App(d)' => c = d
                 /\ want /\ faults' <= 1 /\ th[t].up => \E c \in Doc!Ids : App(c)' /\ cts'[c].up
        <3>1. /\ App(old) /\ faults > 0
              /\ \A c, d \in Doc!Ids : App(c) /\ App(d) => c = d
            BY <2>1, <2>2, <1>20
        <3>2. CASE cts[old] # Absent /\ cts' = [cts EXCEPT ![old].up = TRUE]
            BY <1>5, <3>1, <3>2
        <3>3. CASE cts' = cts /\ (~th[t].up \/ faults' = faults + 1)
            BY <1>4, <3>1, <3>3
        <3> QED
            BY <2>1, <3>1, <3>2, <3>3 DEF Doc!Started, App
    <2> QED
        BY <1>8, <2>1, <2>2
<1>14. CASE Doc!Start(t)
    <2>1. /\ th[t].pc = "start" /\ next # Absent
        BY <1>14, ReplacementStates DEF Doc!Start
    <2>2. CASE cts[next] # Absent /\ cts' = Doc!Started(next)
               /\ th' = [th EXCEPT ![t] = [th[t] EXCEPT !.pc = "settle"]]
        <3>1. cts' = [cts EXCEPT ![next].up = TRUE]
            BY <2>2 DEF Doc!Started
        <3>2. mixed = "none" =>
                 /\ \A c, d \in Doc!Ids : App(c)' /\ App(d)' => c = d
                 /\ Parked(old)' /\ App(next)' /\ cts'[next].up
            BY <1>5, <2>1, <2>2, <3>1, <1>20
        <3> QED
            BY <1>9, <2>1, <2>2, <3>2 DEF Paths, Calls
    <2>3. CASE ~(cts[next] # Absent /\ cts' = Doc!Started(next)
                 /\ th' = [th EXCEPT ![t] = [th[t] EXCEPT !.pc = "settle"]])
        <3>1. /\ cts[next] = Absent \/ faults' = faults + 1
              /\ cts' = cts
              /\ th' = [th EXCEPT ![t] = [th[t] EXCEPT !.pc = "drop"]]
            BY <1>14, <2>3 DEF Doc!Start, Doc!Here, Doc!Fault, Doc!Proceed, Doc!Goto
        <3>2. ASSUME mixed = "none"
              PROVE  /\ \A c, d \in Doc!Ids : App(c)' /\ App(d)' => c = d
                     /\ Parked(old)' /\ App(next)' /\ faults' > 0
            <4>1. /\ App(next) /\ Parked(old)
                  /\ \A c, d \in Doc!Ids : App(c) /\ App(d) => c = d
                BY <2>1, <3>2, <1>20
            <4>2. faults' = faults + 1
                BY <3>1, <4>1 DEF App
            <4> QED
                BY <1>4, <2>1, <3>1, <4>1, <4>2
        <3> QED
            BY <1>9, <2>1, <3>1, <3>2 DEF Paths, Calls
    <2> QED
        BY <2>2, <2>3
<1>15. CASE Doc!Exits(t)
    <2>1. /\ th[t].pc = "settle" /\ th' = th /\ faults' = faults + 1 /\ next # Absent
          /\ cts[next] # Absent /\ cts' = Doc!Stopped(next)
        BY <1>15, ReplacementStates DEF Doc!Exits, Doc!Here, Doc!Fault
    <2>2. cts' = [cts EXCEPT ![next].up = FALSE]
        BY <2>1, SameContainers
    <2>3. [th[t] EXCEPT !.pc = "settle"] = th[t]
        BY <2>1 DEF Doc!Replacement
    <2>4. th' = [th EXCEPT ![t] = [th[t] EXCEPT !.pc = "settle"]]
        BY <2>1, <2>3, DockerParts
    <2>5. ASSUME mixed = "none"
          PROVE  /\ \A c, d \in Doc!Ids : App(c)' /\ App(d)' => c = d
                 /\ Parked(old)' /\ App(next)' /\ faults' > 0
        <3>1. /\ App(next) /\ Parked(old)
              /\ \A c, d \in Doc!Ids : App(c) /\ App(d) => c = d
            BY <1>20, <2>1, <2>5
        <3>2. \A k \in Doc!Ids : (App(k)' <=> App(k)) /\ (Parked(k)' <=> Parked(k))
            BY <1>5, <2>1, <2>2
        <3> QED
            BY <2>1, <3>1, <3>2
    <2> QED
        BY <1>9, <2>1, <2>4, <2>5 DEF Paths, Calls
<1>16. CASE Doc!Settle(t)
    <2>1. th[t].pc = "settle" /\ next # Absent /\ cts' = cts
        BY <1>16, ReplacementStates DEF Doc!Settle
    <2>2. PICK p \in {"remove", "drop"} :
             /\ th' = [th EXCEPT ![t] = [th[t] EXCEPT !.pc = p]]
             /\ p = "remove" => cts[next].up
             /\ p = "drop" => faults' = faults + 1 \/ ~(cts[next] # Absent /\ cts[next].up)
        BY <1>16 DEF Doc!Settle, Doc!Here, Doc!Fault, Doc!Proceed, Doc!Goto
    <2>3. ASSUME mixed = "none"
          PROVE  /\ \A c, d \in Doc!Ids : App(c)' /\ App(d)' => c = d
                 /\ Parked(old)' /\ App(next)'
                 /\ p = "remove" => cts'[next].up
                 /\ p = "drop" => faults' > 0
        <3>1. /\ App(next) /\ Parked(old)
              /\ \A c, d \in Doc!Ids : App(c) /\ App(d) => c = d
              /\ cts[next].up \/ faults > 0
            BY <2>1, <2>3, <1>20
        <3>2. p = "drop" => faults' > 0
            BY <2>2, <3>1 DEF App
        <3>3. p = "remove" => cts'[next].up
            BY <2>1, <2>2
        <3> QED
            BY <1>4, <2>1, <3>1, <3>2, <3>3
    <2> QED
        BY <1>9, <2>1, <2>2, <2>3 DEF Paths, Calls
<1>17. CASE Doc!Drop(t)
    <2>1. th[t].pc = "drop"
        BY <1>17 DEF Doc!Drop
    <2>2. CASE next = Absent
        <3>1. /\ cts' = cts
              /\ th' = [th EXCEPT ![t] = [th[t] EXCEPT !.pc = "unpark"]]
            BY <1>17, <2>2 DEF Doc!Drop, Doc!Proceed, Doc!Goto
        <3>2. mixed = "none" => Parked(old)' /\ (\A c \in Doc!Ids : ~App(c)') /\ faults' > 0
            BY <1>4, <2>1, <2>2, <3>1, <1>20
        <3> QED
            BY <1>9, <2>1, <3>1, <3>2 DEF Paths, Calls
    <2>3. CASE next # Absent /\ cts[next] # Absent /\ faults' = faults /\ cts' # cts
        <3>1. /\ cts' = [cts EXCEPT ![next] = Absent]
              /\ th' = [th EXCEPT ![t] = [th[t] EXCEPT !.pc = "unpark"]]
            BY <1>17, <2>3 DEF Doc!Drop, Doc!Here, Doc!Proceed, Doc!Goto
        <3>2. ASSUME mixed = "none"
              PROVE  Parked(old)' /\ (\A c \in Doc!Ids : ~App(c)') /\ faults' > 0
            <4>1. /\ App(next) /\ Parked(old) /\ faults > 0
                  /\ \A c, d \in Doc!Ids : App(c) /\ App(d) => c = d
                BY <2>1, <2>3, <3>2, <1>20
            <4>2. next # old
                BY <4>1 DEF App, Parked
            <4>3. /\ \A k \in Doc!Ids \ {next} : (App(k)' <=> App(k)) /\ (Parked(k)' <=> Parked(k))
                  /\ ~App(next)'
                BY <1>7, <2>3, <3>1
            <4> QED
                BY <2>3, <4>1, <4>2, <4>3
        <3> QED
            BY <1>9, <2>1, <3>1, <3>2 DEF Paths, Calls
    <2>4. CASE next # Absent /\ ~(cts[next] # Absent /\ faults' = faults /\ cts' # cts)
        <3>1. /\ cts' = cts /\ (cts[next] = Absent \/ faults' = faults + 1)
              /\ th' = [th EXCEPT ![t] = Doc!Idle]
            <4>1. CASE faults' = faults /\ cts[next] # Absent
                <5>1. cts' = [cts EXCEPT ![next] = Absent]
                    BY <1>17, <2>4, <4>1 DEF Doc!Drop, Doc!Here, Doc!Fault
                <5>2. cts'[next] = Absent
                    BY <2>4, <4>1, <5>1, ContainerSteps
                <5> QED
                    BY <2>4, <4>1, <5>2
            <4>2. CASE ~(faults' = faults /\ cts[next] # Absent)
                BY <1>17, <2>4, <4>2 DEF Doc!Drop, Doc!Here, Doc!Fault, Doc!Done, Doc!Goto
            <4> QED
                BY <4>1, <4>2
        <3>2. ASSUME mixed = "none"
              PROVE  /\ \A c, d \in Doc!Ids : App(c)' /\ App(d)' => c = d
                     /\ faults' > 1
            <4>1. /\ App(next) /\ faults > 0
                  /\ \A c, d \in Doc!Ids : App(c) /\ App(d) => c = d
                BY <2>1, <2>4, <3>2, <1>20
            <4>2. faults' = faults + 1
                BY <3>1, <4>1 DEF App
            <4> QED
                BY <1>4, <3>1, <4>1, <4>2
        <3> QED
            BY <1>8, <3>1, <3>2
    <2> QED
        BY <2>2, <2>3, <2>4
<1>18. CASE Doc!Unpark(t)
    <2>1. th[t].pc = "unpark" /\ th[t].name \in {"app", "parked"}
        BY <1>18, ReplacementStates DEF Doc!Unpark
    <2>2. CASE cts[old] # Absent /\ cts' = Doc!Renamed(old, th[t].name)
               /\ th' = [th EXCEPT ![t] = [th[t] EXCEPT !.pc = "restart"]]
        <3>1. ASSUME mixed = "none"
              PROVE  /\ App(old)' /\ faults' > 0
                     /\ \A c, d \in Doc!Ids : App(c)' /\ App(d)' => c = d
            <4>1. (\A c \in Doc!Ids : ~App(c)) /\ faults > 0 /\ th[t].name = "app"
                BY <2>1, <3>1, <1>20
            <4> QED
                BY <1>6, <2>1, <2>2, <4>1
        <3> QED
            BY <1>9, <2>1, <2>2, <3>1 DEF Paths, Calls
    <2>3. CASE ~(cts[old] # Absent /\ cts' = Doc!Renamed(old, th[t].name)
                 /\ th' = [th EXCEPT ![t] = [th[t] EXCEPT !.pc = "restart"]])
        <3>1. /\ cts' = cts /\ th' = [th EXCEPT ![t] = Doc!Idle]
              /\ \/ ~(cts[old] # Absent /\ Doc!Named(th[t].name) = {})
                 \/ faults' = faults + 1
            BY <1>18, <2>3 DEF Doc!Unpark, Doc!Old, Doc!Here, Doc!Fault, Doc!Proceed, Doc!Done, Doc!Goto
        <3>2. ASSUME mixed = "none"
              PROVE  /\ \A c, d \in Doc!Ids : App(c)' /\ App(d)' => c = d
                     /\ faults' > 1
            <4>1. /\ Parked(old) /\ faults > 0 /\ th[t].name = "app"
                  /\ \A c \in Doc!Ids : ~App(c)
                BY <2>1, <3>2, <1>20
            <4>2. cts[old] # Absent /\ Doc!Named(th[t].name) = {}
                BY <4>1 DEF App, Parked, Doc!Named, Doc!Here
            <4> QED
                BY <1>4, <3>1, <4>1, <4>2
        <3> QED
            BY <1>8, <3>1, <3>2
    <2> QED
        BY <2>2, <2>3
<1>19. CASE Doc!Remove(t)
    <2>1. /\ th[t].pc = "remove" /\ next # Absent /\ th' = [th EXCEPT ![t] = Doc!Idle]
          /\ cts' = cts \/ (cts[old] # Absent /\ cts' = [cts EXCEPT ![old] = Absent])
        BY <1>19, ReplacementStates DEF Doc!Remove, Doc!Old, Doc!Here, Doc!Done, Doc!Goto
    <2>2. ASSUME mixed = "none"
          PROVE  /\ \A c, d \in Doc!Ids : App(c)' /\ App(d)' => c = d
                 /\ th[t].up => \E c \in Doc!Ids : App(c)' /\ cts'[c].up
        <3>1. /\ App(next) /\ Parked(old) /\ (th[t].up => cts[next].up)
              /\ \A c, d \in Doc!Ids : App(c) /\ App(d) => c = d
            BY <2>1, <2>2, <1>20
        <3>2. next # old
            BY <3>1 DEF App, Parked
        <3>3. CASE cts' = cts
            BY <1>4, <2>1, <3>1, <3>3
        <3>4. CASE cts[old] # Absent /\ cts' = [cts EXCEPT ![old] = Absent]
            <4>1. /\ \A k \in Doc!Ids \ {old} : (App(k)' <=> App(k)) /\ cts'[k].up = cts[k].up
                  /\ ~App(old)'
                BY <1>7, <3>4
            <4>2. App(next)' /\ cts'[next].up = cts[next].up
                BY <2>1, <3>1, <3>2, <4>1
            <4> QED
                BY <2>1, <3>1, <4>1, <4>2
        <3> QED
            BY <2>1, <3>3, <3>4
    <2> QED
        BY <1>8, <2>1, <2>2
<1>13. CASE Doc!Replace(t)
    <2>1. th[t].pc = "replace" /\ next = Absent
        BY <1>13, ReplacementStates DEF Doc!Replace
    <2>2. CASE tag # Absent /\ Doc!Named(th[t].name) = {} /\ made < MaxContainers /\ made' = made + 1
        <3> DEFINE new == [name |-> th[t].name, image |-> tag, up |-> FALSE,
                           rm |-> th[t].rm, vol |-> th[t].vol]
                   r == [th[t] EXCEPT !.pc = IF th[t].up THEN "start" ELSE "remove", !.new = made + 1]
        <3>1. cts' = [cts EXCEPT ![made + 1] = new] /\ th' = [th EXCEPT ![t] = r]
            <4>1. CASE faults' = faults
                BY <1>13, <2>2, <4>1 DEF Doc!Replace, Doc!Carried, Doc!Goto, Doc!Fault
            <4>2. CASE faults' # faults
                BY <1>13, <2>2, <4>2, DockerParts DEF Doc!Replace
            <4> QED
                BY <4>1, <4>2
        <3>2. made + 1 \in Doc!Ids /\ cts[made + 1] = Absent
            BY <2>2, DockerParts
        <3>3. new # Absent /\ new.name = th[t].name
            <4>1. /\ th[t].name \in {"app", "parked"} /\ th[t].vol \in Doc!Ids /\ th[t].rm \in BOOLEAN
                  /\ tag \in {1, 2}
                BY <2>2, ReplacementStates, DockerParts
            <4>2. new \in Doc!Container
                BY ONLY <4>1 DEF Doc!Container, Doc!Image
            <4> QED
                BY <4>2
        <3>4. /\ r \in Doc!Replacement /\ r.pc = (IF th[t].up THEN "start" ELSE "remove")
              /\ r.new = made + 1 /\ r.id = old /\ r.up = th[t].up /\ r.name = th[t].name
            <4>1. th[t] \in Shape /\ made + 1 # Absent
                BY <3>2 DEF Doc!Replacement, Shape, Calls
            <4>2. ASSUME NEW p \in {"start", "remove"}, r = [th[t] EXCEPT !.pc = p, !.new = made + 1]
                  PROVE  /\ r \in Shape /\ r.pc = p /\ r.new = made + 1
                         /\ r.id = th[t].id /\ r.up = th[t].up /\ r.name = th[t].name
                BY ONLY <3>2, <4>1, <4>2 DEF Shape, Calls
            <4>3. PICK p \in {"start", "remove"} :
                     /\ r = [th[t] EXCEPT !.pc = p, !.new = made + 1]
                     /\ p = IF th[t].up THEN "start" ELSE "remove"
                OBVIOUS
            <4> HIDE DEF r
            <4>4. /\ r \in Shape /\ r.pc = p /\ r.new = made + 1
                  /\ r.id = th[t].id /\ r.up = th[t].up /\ r.name = th[t].name
                BY <4>2, <4>3
            <4>5. r \in Doc!Replacement
                BY <4>1, <4>4 DEF Doc!Replacement, Shape, Calls
            <4> QED
                BY <4>3, <4>4, <4>5
        <3> HIDE DEF new, r
        <3>5. /\ cts'[made + 1] = new /\ \A c \in Doc!Ids \ {made + 1} : cts'[c] = cts[c]
            BY <3>1, <3>2, DockerParts
        <3>6. ASSUME mixed = "none"
              PROVE  /\ \A c, d \in Doc!Ids : App(c)' /\ App(d)' => c = d
                     /\ Doc!Placed(t)'
            <4>1. /\ Parked(old) /\ th[t].name = "app" /\ tag # Absent
                  /\ \A c \in Doc!Ids : ~App(c)
                BY <2>1, <3>6, <1>20
            <4>2. old # made + 1
                BY <3>2, <4>1 DEF Parked
            <4> PICK k \in Doc!Ids : k = made + 1
                BY <3>2
            <4>3. /\ cts'[k] # Absent /\ cts'[k].name = "app"
                  /\ \A c \in Doc!Ids \ {k} : cts'[c] = cts[c]
                BY <3>3, <3>5, <4>1
            <4>4. App(k)' /\ (\A c \in Doc!Ids \ {k} : ~App(c)') /\ Parked(old)'
                BY <4>1, <4>2, <4>3 DEF App, Parked
            <4>5. th'[t] = r /\ tag' # Absent
                BY <3>1, <4>1, DockerParts
            <4> PICK q \in Doc!Replacement : q = r
                BY <3>4
            <4>6. /\ q.pc \in {"start", "remove"} /\ (q.pc = "remove" => ~q.up)
                  /\ q.new = k /\ q.id = old /\ q.name = "app"
                BY <3>4, <4>1
            <4>7. Doc!Placed(t)'
                <5>1. th'[t] = q /\ App(q.id)' = App(old)' /\ App(q.new)' /\ Parked(q.id)'
                    BY <4>4, <4>5, <4>6
                <5> QED
                    BY <4>5, <4>6, <5>1, PlacedNext
            <4> QED
                BY <4>4, <4>7
        <3>7. r # Doc!Idle /\ r.pc \notin {"compose", "stop"}
            BY <3>4, DockerRequestStates DEF Calls
        <3> QED
            BY <3>1, <3>4, <3>6, <3>7, ServiceCall
    <2>3. CASE ~(tag # Absent /\ Doc!Named(th[t].name) = {} /\ made < MaxContainers /\ made' = made + 1)
        <3>1. /\ cts' = cts /\ th' = [th EXCEPT ![t] = [th[t] EXCEPT !.pc = "drop"]]
              /\ ~(tag # Absent /\ Doc!Named(th[t].name) = {}) \/ faults' = faults + 1
            BY <1>13, <2>3 DEF Doc!Replace, Doc!Fault, Doc!Proceed, Doc!Goto
        <3>2. ASSUME mixed = "none"
              PROVE  Parked(old)' /\ (\A c \in Doc!Ids : ~App(c)') /\ faults' > 0
            <4>1. /\ Parked(old) /\ th[t].name = "app" /\ tag # Absent
                  /\ \A c \in Doc!Ids : ~App(c)
                BY <2>1, <3>2, <1>20
            <4>2. Doc!Named(th[t].name) = {}
                BY <4>1 DEF App, Doc!Named, Doc!Here
            <4>3. faults' > 0
                BY <3>1, <4>1, <4>2
            <4> QED
                BY <1>4, <3>1, <4>1, <4>3
        <3> QED
            BY <1>9, <2>1, <3>1, <3>2 DEF Paths, Calls
    <2> QED
        BY <2>2, <2>3
<1> QED
    BY <1>10, <1>11, <1>12, <1>13, <1>14, <1>15, <1>16, <1>17, <1>18, <1>19

LEMMA ServiceStep ==
    ASSUME Doc!IInv, Doc!ServiceKept, [Doc!Next]_(Doc!vars)
    PROVE  Doc!ServiceKept'
<1> USE DockerBounds, IdsType, DockerRequestStates
<1>1. Doc!Idle \notin Doc!Replacement
    BY DEF Calls
<1>2. ASSUME NEW t \in Threads, th[t].pc # "idle", mixed = "none"
      PROVE  /\ \A o \in Threads \ {t} : th[o] = Doc!Idle
             /\ \A c, d \in Doc!Named("app") : c = d
             /\ Doc!Placed(t)
             /\ want /\ faults <= 1 /\ Doc!Untouched(t) => Doc!Serving # {}
    BY <1>2, Sole
<1>3. ASSUME NEW t \in Threads, Doc!Pull(t)
      PROVE  Doc!ServiceKept'
    <2>1. /\ th[t].pc = "pull" /\ cts' = cts /\ want' = want /\ mixed' = mixed
          /\ faults' = faults \/ faults' = faults + 1
        BY <1>3 DEF Doc!Pull, Doc!Fault
    <2>2. PICK r \in {Doc!Idle, [pc |-> "create", retry |-> FALSE]} : th' = [th EXCEPT ![t] = r]
        BY <1>3 DEF Doc!Pull, Doc!Done, Doc!Goto
    <2>3. r \in Doc!Request /\ r \notin Doc!Replacement /\ r.pc # "startnew"
        BY <1>1 DEF Calls
    <2>4. mixed' = "none" => mixed = "none" /\ \A o \in Threads \ {t} : th[o] = Doc!Idle
        BY <1>2, <2>1
    <2>5. faults' >= faults /\ faults' \in Nat /\ Doc!Untouched(t)
        BY <2>1, DockerParts DEF Doc!Untouched
    <2> QED
        BY <2>1, <2>2, <2>3, <2>4, <2>5, SoleWaits
<1>4. ASSUME NEW t \in Threads, Doc!Create(t)
      PROVE  Doc!ServiceKept'
    <2>1. th[t].pc = "create" /\ UNCHANGED <<faults, mixed>>
        BY <1>4 DEF Doc!Create
    <2>2. CASE tag # Absent /\ Doc!Named("app") = {}
        <3> DEFINE new == [name |-> "app", image |-> tag, up |-> FALSE, rm |-> FALSE, vol |-> made + 1]
                   r == [pc |-> "startnew", id |-> made + 1]
        <3>1. /\ made < MaxContainers /\ cts' = [cts EXCEPT ![made + 1] = new]
              /\ want' = FALSE /\ th' = [th EXCEPT ![t] = r]
            BY <1>4, <2>2 DEF Doc!Create, Doc!Goto
        <3>2. made + 1 \in Doc!Ids /\ tag \in {1, 2}
            BY <2>2, <3>1, DockerParts
        <3>3. new \in Doc!Container
            BY ONLY <3>2 DEF Doc!Container, Doc!Image
        <3>4. new # Absent /\ new.name = "app"
            BY <3>3
        <3>5. r \in Doc!Request /\ r.pc = "startnew" /\ r.id = made + 1
            BY <3>2
        <3> HIDE DEF new, r
        <3>6. /\ cts'[made + 1] = new /\ \A c \in Doc!Ids : c # made + 1 => cts'[c] = cts[c]
              /\ th'[t] = r
            BY <3>1, <3>2, DockerParts
        <3>7. \A c, d \in Doc!Named("app")' : c = d
            BY <2>2, <3>2, <3>6 DEF Doc!Named, Doc!Here
        <3>8. Doc!Placed(t)'
            <4>1. r \notin Doc!Replacement
                BY <3>5 DEF Calls
            <4> QED
                BY <3>2, <3>4, <3>5, <3>6, <4>1 DEF Doc!Placed, Doc!Called, Doc!Here, Doc!HasNew
        <3>9. r \notin Doc!Replacement
            BY <3>5 DEF Calls
        <3>10. mixed' = "none" => \A o \in Threads \ {t} : th[o] = Doc!Idle
            BY <1>2, <2>1
        <3> QED
            BY <3>1, <3>5, <3>7, <3>8, <3>9, <3>10, SoleMoves
    <2>3. CASE ~(tag # Absent /\ Doc!Named("app") = {})
        <3>1. UNCHANGED <<cts, want>>
            BY <1>4, <2>3 DEF Doc!Create
        <3>2. PICK r \in {Doc!Idle, [pc |-> "pull", create |-> TRUE]} : th' = [th EXCEPT ![t] = r]
            BY <1>4, <2>3 DEF Doc!Create, Doc!Goto
        <3>3. r \in Doc!Request /\ r \notin Doc!Replacement /\ r.pc # "startnew"
            BY <1>1 DEF Calls
        <3>4. mixed' = "none" => mixed = "none" /\ \A o \in Threads \ {t} : th[o] = Doc!Idle
            BY <1>2, <2>1
        <3>5. faults' >= faults /\ faults' \in Nat /\ Doc!Untouched(t)
            BY <2>1, DockerParts DEF Doc!Untouched
        <3>6. want' = want /\ cts' = cts
            BY <3>1
        <3> QED
            BY <3>2, <3>3, <3>4, <3>5, <3>6, SoleWaits
    <2> QED
        BY <2>2, <2>3
\* The last call of a creation, and of a replacement by Compose.
<1>5. ASSUME NEW t \in Threads, th[t].pc \in {"startnew", "compose"}, th' = [th EXCEPT ![t] = Doc!Idle],
             faults' = faults \/ faults' = faults + 1, mixed' = mixed,
             \/ cts' = cts /\ want' = want
             \/ /\ th[t].id \in Doc!Ids /\ cts[th[t].id] # Absent
                /\ cts'[th[t].id] # Absent /\ cts'[th[t].id].name = cts[th[t].id].name /\ cts'[th[t].id].up
                /\ \A k \in Doc!Ids \ {th[t].id} : cts'[k] = cts[k]
      PROVE  Doc!ServiceKept'
    <2>1. CASE cts' = cts /\ want' = want
        <3>1. mixed' = "none" => mixed = "none" /\ \A o \in Threads \ {t} : th[o] = Doc!Idle
            BY <1>2, <1>5
        <3>2. faults' >= faults /\ faults' \in Nat /\ Doc!Untouched(t)
            BY <1>5, DockerParts DEF Doc!Untouched
        <3> QED
            BY <1>1, <1>5, <2>1, <3>1, <3>2, SoleWaits
    <2>2. CASE ~(cts' = cts /\ want' = want)
        <3> PICK c \in Doc!Ids : c = th[t].id
            BY <1>5, <2>2
        <3>1. /\ cts[c] # Absent /\ cts'[c] # Absent /\ cts'[c].name = cts[c].name /\ cts'[c].up
              /\ \A k \in Doc!Ids \ {c} : cts'[k] = cts[k]
            BY <1>5, <2>2
        <3> SUFFICES ASSUME mixed' = "none"
                     PROVE  /\ \A o \in Threads \ {t} : th[o] = Doc!Idle
                            /\ \A k, d \in Doc!Named("app")' : k = d
                            /\ Doc!Placed(t)'
                            /\ want' /\ faults' <= 1 => Doc!Serving' # {}
            BY <1>1, <1>5, SoleMoves
        <3>2. /\ \A o \in Threads \ {t} : th[o] = Doc!Idle
              /\ \A k, d \in Doc!Named("app") : k = d
              /\ Doc!Placed(t)
            BY <1>2, <1>5
        <3>3. cts[c].name = "app"
            BY <1>5, <3>2 DEF Doc!Placed, Doc!Called
        <3>4. Doc!Named("app")' = Doc!Named("app")
            BY <3>1 DEF Doc!Named, Doc!Here
        <3>5. c \in Doc!Serving'
            BY <3>1, <3>3 DEF Doc!Serving, Doc!Named, Doc!Here
        <3>6. Doc!Placed(t)'
            <4>1. th'[t] = Doc!Idle
                BY <1>5, DockerParts
            <4> QED
                BY <1>1, <4>1 DEF Doc!Placed
        <3> QED
            BY <3>2, <3>4, <3>5, <3>6
    <2> QED
        BY <2>1, <2>2
<1>6. ASSUME NEW t \in Threads, Doc!StartNew(t)
      PROVE  Doc!ServiceKept'
    <2>1. /\ th[t].pc = "startnew" /\ mixed' = mixed
          /\ faults' = faults \/ faults' = faults + 1
          /\ th' = [th EXCEPT ![t] = Doc!Idle]
          /\ \/ cts' = cts /\ want' = want
             \/ cts[th[t].id] # Absent /\ cts' = [cts EXCEPT ![th[t].id].up = TRUE]
        BY <1>6 DEF Doc!StartNew, Doc!Fault, Doc!Started, Doc!Here, Doc!Done, Doc!Goto
    <2>2. th[t].id \in Doc!Ids
        BY <2>1, DockerParts
    <2>3. CASE cts' = cts /\ want' = want
        BY <1>5, <2>1, <2>3
    <2>4. CASE cts[th[t].id] # Absent /\ cts' = [cts EXCEPT ![th[t].id].up = TRUE]
        <3>1. /\ cts'[th[t].id] # Absent /\ cts'[th[t].id].name = cts[th[t].id].name /\ cts'[th[t].id].up
              /\ \A k \in Doc!Ids \ {th[t].id} : cts'[k] = cts[k]
            BY <2>2, <2>4, ContainerSteps
        <3> QED
            BY <1>5, <2>1, <2>2, <2>4, <3>1
    <2> QED
        BY <2>1, <2>3, <2>4
<1>7. ASSUME NEW t \in Threads, Doc!ComposeUp(t)
      PROVE  Doc!ServiceKept'
    <2> SUFFICES ASSUME ~Doc!Blur PROVE Doc!ServiceKept'
        BY Blurs DEF Doc!ServiceKept
    <2>1. /\ th[t].pc = "compose" /\ mixed' = mixed
          /\ faults' = faults \/ faults' = faults + 1
          /\ th' = [th EXCEPT ![t] = Doc!Idle]
          /\ \/ cts' = cts /\ want' = want
             \/ /\ cts[th[t].id] # Absent /\ tag # Absent
                /\ cts' = [cts EXCEPT ![th[t].id].image = tag, ![th[t].id].up = TRUE]
        BY <1>7 DEF Doc!ComposeUp, Doc!Fault, Doc!Here, Doc!Done, Doc!Goto
    <2>2. th[t].id \in Doc!Ids
        <3>1. th[t] \in Doc!Replacement
            BY <2>1, DockerParts DEF Calls
        <3> QED
            BY <3>1, ReplacementStates
    <2>3. CASE cts' = cts /\ want' = want
        BY <1>5, <2>1, <2>3
    <2>4. CASE /\ cts[th[t].id] # Absent /\ tag # Absent
               /\ cts' = [cts EXCEPT ![th[t].id].image = tag, ![th[t].id].up = TRUE]
        <3> PICK c \in Doc!Ids : c = th[t].id
            BY <2>2
        <3> DEFINE new == [[cts[c] EXCEPT !.image = tag] EXCEPT !.up = TRUE]
        <3>1. cts[c] \in Doc!Container /\ tag \in {1, 2}
            BY <2>4, DockerParts
        <3>2. new \in Doc!Container /\ new.name = cts[c].name /\ new.up
            BY ONLY <3>1 DEF Doc!Container, Doc!Image
        <3>3. cts' = [cts EXCEPT ![c] = new] /\ new # Absent
            BY <2>4, <3>1, <3>2, DockerParts
        <3> HIDE DEF new
        <3>4. /\ cts'[c] # Absent /\ cts'[c].name = cts[c].name /\ cts'[c].up
              /\ \A k \in Doc!Ids \ {c} : cts'[k] = cts[k]
            BY <3>2, <3>3, DockerParts
        <3> QED
            BY <1>5, <2>1, <2>2, <2>4, <3>4
    <2> QED
        BY <2>1, <2>3, <2>4
<1>8. CASE Doc!Publish \/ UNCHANGED Doc!vars
    <2>1. UNCHANGED <<cts, tag, th, faults, want, mixed>>
        BY <1>8 DEF Doc!Publish, Doc!vars
    <2> QED
        BY <2>1 DEF Doc!ServiceKept, Doc!Placed, Doc!Called, Doc!Here, Doc!HasNew, Doc!Old, Doc!Named,
              Doc!Serving, Doc!Untouched
<1>9. ASSUME NEW t \in Threads, Doc!GivenUp(t) \/ Doc!ReplaceGivenUp(t)
      PROVE  Doc!ServiceKept'
    BY <1>9, Blurs DEF Doc!GivenUp, Doc!ReplaceGivenUp, Doc!ServiceKept
<1> QED
    BY <1>3, <1>4, <1>6, <1>7, <1>8, <1>9, ServiceRequests, ServiceCalls DEF Doc!Next

\* "The old one parked under another name until the new one is seen running, put back if it
\* is not": with one failure at most, a service the admin left running runs when each
\* request is answered before the next, for any bound on requests and containers. A call
\* given up on and still carried out, and an image that compose could not keep up, are
\* excepted: `mixed` tells of them (_dk_recreate_clone, dk_container_recreate).
THEOREM ServiceComesBack == Spec => []ServiceBack
<1> DEFINE Inv == which = "Doc" => Doc!IInv /\ Doc!ServiceKept
<1>1. Init => Inv
    BY DockerInit, ServiceInit DEF Init
<1>2. Inv /\ [Next]_vars => Inv'
    BY ComponentStep, DockerStep, ServiceStep
<1>3. Inv => ServiceBack
    <2> SUFFICES ASSUME Doc!IInv, Doc!ServiceKept, \A t \in Threads : th[t] = Doc!Idle,
                        want, mixed = "none", faults <= 1
                 PROVE  Doc!Serving # {}
        BY DEF ServiceBack, Doc!ServiceBack, Doc!AtRest
    <2>1. \A t \in Threads : Doc!Untouched(t)
        BY DockerRequestStates DEF Doc!Untouched
    <2> QED
        BY <2>1 DEF Doc!ServiceKept
<1> QED
    BY <1>1, <1>2, <1>3, PTL DEF Spec
=============================================================================
