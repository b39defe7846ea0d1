---------------------------- MODULE Files_proofs ----------------------------
(***************************************************************************)
(* Theorems of MCPlatform about the files the dashboard keeps, for all of  *)
(* its constants: the atomic JSON writer, the backups of models and the    *)
(* store of accounts. A section names the variables it is about as the     *)
(* component does.                                                         *)
(***************************************************************************)
EXTENDS MCPlatform, FiniteSetTheorems, TLAPS

\* A behaviour stays with its component and takes the component's steps.
LEMMA ComponentStep ==
    ASSUME [Next]_vars
    PROVE  /\ which' = which
           /\ which = "Fil" => [Fil!Next]_(Fil!vars)
           /\ which = "Bak" => [Bak!Next]_(Bak!vars)
           /\ which = "Acc" => [Acc!Next]_(Acc!vars)
BY DEF Next, vars, Fil!vars, Bak!vars, Acc!vars

----------------------------------------------------------------------------
(* AtomicJson *)

target == s1
durable == s2
tmp == s3
data == s4
synced == s5
opens == s6
call == s7
lock == s8
crashes == s9
USE DEF target, durable, tmp, data, synced, opens, call, lock, crashes

LEMMA FileBounds ==
    /\ MaxOpens \in Nat /\ Chunks \in Nat /\ FileCrashes \in Nat
    /\ Absent \notin Writers /\ Absent \notin Fil!Inodes /\ Nil # Absent
    /\ 0 \in Fil!Inodes
BY BoundsAssumption, AbsentAssumption DEF Writers, Fil!Inodes

LEMMA ProcessType == ProcessOf \in [Writers -> Processes]
BY DEF ProcessOf, Writers, Processes

\* What a call may become.
LEMMA CallStates ==
    /\ Fil!Idle \in Fil!CallType /\ Fil!Idle.pc = "idle"
    /\ [Fil!Idle EXCEPT !.pc = "raised"] \in Fil!CallType
    /\ [Fil!Idle EXCEPT !.pc = "raised"].pc = "raised"
BY FileBounds DEF Fil!Idle, Fil!CallType

LEMMA FileInit ==
    ASSUME Fil!Init
    PROVE  Fil!IInv
<1> USE FileBounds DEF Fil!Init
<1>1. data \in [Fil!Inodes -> Fil!Content]
    BY DEF Fil!DocumentOf, Fil!Empty, Fil!Content
<1>2. call \in [Writers -> Fil!CallType] /\ \A w \in Writers : call[w].pc = "idle"
    BY CallStates
<1>3. Fil!TypeOK
    BY <1>1, <1>2 DEF Fil!TypeOK
<1>4. Fil!LockInv /\ Fil!NamesApart /\ Fil!TmpIsHeld
    BY <1>2, ProcessType DEF Fil!LockInv, Fil!InCall, Fil!NamesApart, Fil!TmpIsHeld
<1>5. Fil!InService
    BY DEF Fil!InService, Fil!Whole
<1>6. Fil!Written
    BY <1>2 DEF Fil!Written
<1> QED
    BY <1>3, <1>4, <1>5, <1>6 DEF Fil!IInv

\* Only the caller inside has the file its process's name leads to.
LEMMA OwnFile ==
    ASSUME Fil!IInv, NEW w \in Writers, call[w].pc \in {"writing", "synced", "moded"}
    PROVE  /\ call[w].fd = Fil!Tmp(w) /\ call[w].fd \in 1..opens
           /\ call[w].fd # target /\ call[w].fd # durable
           /\ \A v \in Writers \ {w} :
                 call[v].pc \in {"writing", "synced", "moded"} => call[v].fd # call[w].fd
<1>1. call[w].fd = Fil!Tmp(w) /\ Fil!Tmp(w) = tmp[ProcessOf[w]] /\ ProcessOf[w] \in Processes
    BY ProcessType DEF Fil!IInv, Fil!Written, Fil!Tmp
<1>2. /\ call[w].fd \in 1..opens /\ call[w].fd # target /\ call[w].fd # durable
      /\ \A o \in Processes \ {ProcessOf[w]} : tmp[o] # call[w].fd
    <2>1. call[w].fd \in Fil!Inodes /\ tmp[ProcessOf[w]] # Absent
        BY <1>1, FileBounds DEF Fil!IInv, Fil!TypeOK, Fil!CallType
    <2> QED
        BY <1>1, <2>1 DEF Fil!IInv, Fil!NamesApart
<1>3. ASSUME NEW v \in Writers \ {w}, call[v].pc \in {"writing", "synced", "moded"}
      PROVE  call[v].fd # call[w].fd
    <2>1. lock[ProcessOf[w]] = w /\ lock[ProcessOf[v]] = v
        BY <1>3 DEF Fil!IInv, Fil!LockInv, Fil!InCall
    <2>2. ProcessOf[v] # ProcessOf[w] /\ ProcessOf[v] \in Processes
        BY <2>1, ProcessType
    <2>3. call[v].fd = tmp[ProcessOf[v]]
        BY <1>3 DEF Fil!IInv, Fil!Written, Fil!Tmp
    <2> QED
        BY <1>2, <2>2, <2>3
<1> QED
    BY <1>1, <1>2, <1>3

LEMMA FileStep ==
    ASSUME Fil!IInv, [Fil!Next]_(Fil!vars)
    PROVE  Fil!IInv'
<1> USE FileBounds, ProcessType, CallStates
<1>0. /\ target \in Fil!Inodes /\ durable \in Fil!Inodes
      /\ tmp \in [Processes -> Fil!Inodes \cup {Absent}]
      /\ data \in [Fil!Inodes -> Fil!Content]
      /\ synced \subseteq Fil!Inodes
      /\ opens \in 0..MaxOpens
      /\ call \in [Writers -> Fil!CallType]
      /\ lock \in [Processes -> Writers \cup {Absent}]
      /\ crashes \in 0..FileCrashes
      /\ Fil!TypeOK /\ Fil!LockInv /\ Fil!NamesApart /\ Fil!InService /\ Fil!Written
      /\ Fil!TmpIsHeld
    BY DEF Fil!IInv, Fil!TypeOK
\* A step of a caller inside that leaves the names and their locks alone, and
\* touches no file but its own.
<1>1. ASSUME NEW w \in Writers, call[w].pc \in {"writing", "synced", "moded"},
             NEW c \in Fil!CallType, call' = [call EXCEPT ![w] = c],
             c.pc \in {"writing", "synced", "moded", "failed"}, c.fd = call[w].fd,
             UNCHANGED <<target, durable, tmp, opens, lock, crashes>>,
             data' \in [Fil!Inodes -> Fil!Content], synced' \subseteq Fil!Inodes,
             \A i \in Fil!Inodes \ {c.fd} : data'[i] = data[i] /\ (i \in synced' <=> i \in synced),
             c.pc = "writing" => \A p \in 1..c.offset : data'[c.fd][p] = w,
             c.pc \in {"synced", "moded"} => data'[c.fd] = Fil!DocumentOf(w) /\ c.fd \in synced'
      PROVE  Fil!IInv'
    <2>1. Fil!TypeOK'
        BY <1>0, <1>1 DEF Fil!TypeOK
    <2>2. Fil!LockInv'
        BY <1>0, <1>1 DEF Fil!LockInv, Fil!InCall
    <2>3. Fil!NamesApart' /\ Fil!TmpIsHeld'
        BY <1>0, <1>1 DEF Fil!NamesApart, Fil!TmpIsHeld
    <2>4. Fil!InService'
        BY <1>0, <1>1, OwnFile DEF Fil!InService, Fil!Whole
    <2>5. Fil!Written'
        <3> SUFFICES ASSUME NEW v \in Writers
                     PROVE  /\ call'[v].pc \in {"writing", "synced", "moded"} => call'[v].fd = Fil!Tmp(v)'
                            /\ call'[v].pc = "writing" =>
                                 \A p \in 1..call'[v].offset : data'[call'[v].fd][p] = v
                            /\ call'[v].pc \in {"synced", "moded"} =>
                                 data'[call'[v].fd] = Fil!DocumentOf(v) /\ call'[v].fd \in synced'
            BY DEF Fil!Written, Fil!DocumentOf
        <3>1. CASE v = w
            BY <1>0, <1>1, <3>1 DEF Fil!Written, Fil!Tmp
        <3>2. CASE v # w
            <4>1. call'[v] = call[v] /\ call[v] \in Fil!CallType
                BY <1>0, <1>1, <3>2
            <4>2. call[v].fd \in Fil!Inodes
                BY <4>1 DEF Fil!CallType
            <4>3. call[v].pc \in {"writing", "synced", "moded"} => call[v].fd # c.fd
                BY <1>0, <1>1, <3>2, OwnFile
            <4> QED
                BY <1>0, <1>1, <4>1, <4>2, <4>3 DEF Fil!Written, Fil!Tmp
        <3> QED
            BY <3>1, <3>2
    <2> QED
        BY <2>1, <2>2, <2>3, <2>4, <2>5 DEF Fil!IInv
<1>2. ASSUME NEW w \in Writers, Fil!Write(w)
      PROVE  Fil!IInv'
    <2> DEFINE c == [call[w] EXCEPT !.offset = @ + 1]
               i == call[w].fd
               n == call[w].offset + 1
    <2>1. /\ call[w] \in Fil!CallType /\ call[w].pc = "writing"
          /\ i \in Fil!Inodes /\ n \in Fil!Position /\ call[w].offset \in 0..Chunks
        BY <1>0, <1>2 DEF Fil!Write, Fil!CallType, Fil!Position
    <2>2. c \in Fil!CallType /\ c.pc = "writing" /\ c.fd = i /\ c.offset = n
        BY <2>1 DEF Fil!CallType, Fil!Position
    <2>3. /\ data' = [data EXCEPT ![i][n] = w] /\ call' = [call EXCEPT ![w] = c]
          /\ synced' = synced \ {i}
          /\ UNCHANGED <<target, durable, tmp, opens, lock, crashes>>
        BY <1>2 DEF Fil!Write
    <2>4. data[i] \in Fil!Content
        BY <1>0, <2>1
    <2>5. [data[i] EXCEPT ![n] = w] \in Fil!Content
        BY <2>1, <2>4 DEF Fil!Content
    <2>6. /\ data' \in [Fil!Inodes -> Fil!Content]
          /\ data'[i] = [data[i] EXCEPT ![n] = w]
          /\ \A j \in Fil!Inodes \ {i} : data'[j] = data[j]
        BY <1>0, <2>1, <2>3, <2>5
    <2>7. \A p \in 1..n : data'[i][p] = w
        <3>1. \A p \in 1..call[w].offset : data[i][p] = w
            BY <1>0, <2>1 DEF Fil!Written
        <3> QED
            BY <2>1, <2>4, <2>6, <3>1 DEF Fil!Content, Fil!Position
    <2> HIDE DEF c, i, n
    <2>8. i = call[w].fd
        BY DEF i
    <2> QED
        BY <1>0, <1>1, <2>1, <2>2, <2>3, <2>6, <2>7, <2>8
<1>3. ASSUME NEW w \in Writers, Fil!WriteFails(w)
      PROVE  Fil!IInv'
    <2> DEFINE c == [call[w] EXCEPT !.pc = "failed"]
    <2>1. call[w] \in Fil!CallType /\ call[w].pc = "writing"
        BY <1>0, <1>3 DEF Fil!WriteFails
    <2>2. c \in Fil!CallType /\ c.pc = "failed" /\ c.fd = call[w].fd
        BY <2>1 DEF Fil!CallType
    <2>3. /\ call' = [call EXCEPT ![w] = c]
          /\ UNCHANGED <<target, durable, tmp, data, synced, opens, lock, crashes>>
        BY <1>3 DEF Fil!WriteFails
    <2> HIDE DEF c
    <2> QED
        BY <1>0, <1>1, <2>1, <2>2, <2>3
<1>4. ASSUME NEW w \in Writers, Fil!Sync(w)
      PROVE  Fil!IInv'
    <2> DEFINE c == [call[w] EXCEPT !.pc = "synced"]
    <2>1. /\ call[w] \in Fil!CallType /\ call[w].pc = "writing" /\ call[w].fd \in Fil!Inodes
          /\ call[w].offset = Chunks
        BY <1>0, <1>4 DEF Fil!Sync, Fil!CallType
    <2>2. c \in Fil!CallType /\ c.pc = "synced" /\ c.fd = call[w].fd
        BY <2>1 DEF Fil!CallType
    <2>3. /\ call' = [call EXCEPT ![w] = c] /\ synced' = synced \cup {call[w].fd}
          /\ UNCHANGED <<target, durable, tmp, data, opens, lock, crashes>>
        BY <1>4 DEF Fil!Sync
    <2>4. data[call[w].fd] = Fil!DocumentOf(w)
        <3>1. data[call[w].fd] \in Fil!Content /\ \A p \in Fil!Position : data[call[w].fd][p] = w
            BY <1>0, <2>1 DEF Fil!Written, Fil!Position
        <3> QED
            BY <3>1 DEF Fil!Content, Fil!DocumentOf
    <2> HIDE DEF c
    <2> QED
        BY <1>0, <1>1, <2>1, <2>2, <2>3, <2>4
<1>5. ASSUME NEW w \in Writers, Fil!Chmod(w)
      PROVE  Fil!IInv'
    <2> DEFINE c == [call[w] EXCEPT !.pc = IF Fil!Tmp(w) = Absent THEN "failed" ELSE "moded"]
    <2>1. call[w] \in Fil!CallType /\ call[w].pc = "synced"
        BY <1>0, <1>5 DEF Fil!Chmod
    <2>2. c \in Fil!CallType /\ c.pc \in {"failed", "moded"} /\ c.fd = call[w].fd
        BY <2>1 DEF Fil!CallType
    <2>3. /\ call' = [call EXCEPT ![w] = c]
          /\ UNCHANGED <<target, durable, tmp, data, synced, opens, lock, crashes>>
        BY <1>5 DEF Fil!Chmod
    <2>4. data[call[w].fd] = Fil!DocumentOf(w) /\ call[w].fd \in synced
        BY <1>0, <2>1 DEF Fil!Written
    <2> HIDE DEF c
    <2> QED
        BY <1>0, <1>1, <2>1, <2>2, <2>3, <2>4
<1>6. ASSUME NEW w \in Writers, Fil!Open(w)
      PROVE  Fil!IInv'
    <2> DEFINE q == ProcessOf[w]
               i == tmp'[q]
               c == [pc |-> "writing", fd |-> i, offset |-> 0]
    <2>1. /\ q \in Processes /\ lock[q] = Absent /\ lock' = [lock EXCEPT ![q] = w]
          /\ call[w].pc = "idle" /\ call' = [call EXCEPT ![w] = c]
          /\ UNCHANGED <<target, durable, crashes>>
        BY <1>6 DEF Fil!Open, Fil!Enter
    <2>2. \A v \in Writers : Fil!InCall(v) => ProcessOf[v] # q
        BY <1>0, <2>1 DEF Fil!LockInv
    <2>3. /\ i \in 1..opens' /\ i # target /\ i # durable
          /\ \A o \in Processes \ {q} : tmp'[o] = tmp[o] /\ tmp'[o] # i
          /\ tmp' \in [Processes -> Fil!Inodes \cup {Absent}]
          /\ opens' \in 0..MaxOpens /\ opens <= opens'
        <3>1. CASE tmp[q] = Absent
            <4>1. opens < MaxOpens /\ opens' = opens + 1 /\ tmp' = [tmp EXCEPT ![q] = opens']
                BY <1>6, <3>1 DEF Fil!Open, Fil!Tmp
            <4> QED
                BY <1>0, <2>1, <4>1 DEF Fil!NamesApart, Fil!Inodes
        <3>2. CASE tmp[q] # Absent
            BY <1>0, <1>6, <2>1, <3>2 DEF Fil!Open, Fil!Tmp, Fil!NamesApart
        <3> QED
            BY <3>1, <3>2
    <2>4. /\ data' \in [Fil!Inodes -> Fil!Content] /\ synced' \subseteq Fil!Inodes
          /\ \A j \in Fil!Inodes \ {i} : data'[j] = data[j] /\ (j \in synced' <=> j \in synced)
        <3>1. CASE tmp[q] = Absent
            BY <1>0, <1>6, <3>1 DEF Fil!Open, Fil!Tmp
        <3>2. CASE tmp[q] # Absent
            <4>1. Fil!Empty \in Fil!Content
                BY DEF Fil!Empty, Fil!Content
            <4>2. /\ data' = [data EXCEPT ![i] = Fil!Empty] /\ synced' = synced \ {i}
                BY <1>6, <3>2 DEF Fil!Open, Fil!Tmp
            <4> QED
                BY <1>0, <4>1, <4>2
        <3> QED
            BY <3>1, <3>2
    <2>5. c \in Fil!CallType /\ c.pc = "writing" /\ c.fd = i /\ c.offset = 0
        BY <1>0, <2>3 DEF Fil!CallType, Fil!Inodes
    <2> HIDE DEF c, i
    <2>6. Fil!TypeOK'
        BY <1>0, <2>1, <2>3, <2>4, <2>5 DEF Fil!TypeOK
    <2>7. Fil!LockInv'
        BY <1>0, <2>1, <2>2, <2>5 DEF Fil!LockInv, Fil!InCall
    <2>8. Fil!NamesApart' /\ Fil!TmpIsHeld'
        <3>1. i = tmp'[q]
            BY DEF i
        <3>2. Fil!TmpIsHeld'
            BY <1>0, <2>1, <2>3 DEF Fil!TmpIsHeld
        <3>3. target' <= opens' /\ durable' <= opens'
            BY <1>0, <2>1, <2>3 DEF Fil!NamesApart, Fil!Inodes
        <3>4. ASSUME NEW o \in Processes, tmp'[o] # Absent
              PROVE  /\ tmp'[o] \in 1..opens' /\ tmp'[o] # target' /\ tmp'[o] # durable'
                     /\ \A z \in Processes \ {o} : tmp'[z] # tmp'[o]
            <4>1. CASE o = q
                BY <2>1, <2>3, <3>1, <4>1
            <4>2. CASE o # q
                <5>1. /\ tmp'[o] = tmp[o] /\ tmp[o] \in 1..opens
                      /\ tmp[o] # target /\ tmp[o] # durable
                      /\ \A z \in Processes \ {o} : tmp[z] # tmp[o]
                    BY <1>0, <2>3, <3>4, <4>2 DEF Fil!NamesApart
                <5>2. tmp'[o] \in 1..opens'
                    BY <1>0, <2>3, <5>1
                <5>3. ASSUME NEW z \in Processes \ {o}
                      PROVE  tmp'[z] # tmp'[o]
                    BY <2>3, <3>1, <4>2, <5>1
                <5> QED
                    BY <2>1, <5>1, <5>2, <5>3
            <4> QED
                BY <4>1, <4>2
        <3> QED
            BY <3>2, <3>3, <3>4 DEF Fil!NamesApart
    <2>9. Fil!InService'
        BY <1>0, <2>1, <2>3, <2>4 DEF Fil!InService, Fil!Whole
    <2>10. Fil!Written'
        <3> SUFFICES ASSUME NEW v \in Writers, call'[v].pc \in {"writing", "synced", "moded"}
                     PROVE  /\ call'[v].fd = Fil!Tmp(v)'
                            /\ call'[v].pc = "writing" =>
                                 \A p \in 1..call'[v].offset : data'[call'[v].fd][p] = v
                            /\ call'[v].pc \in {"synced", "moded"} =>
                                 data'[call'[v].fd] = Fil!DocumentOf(v) /\ call'[v].fd \in synced'
            BY DEF Fil!Written, Fil!DocumentOf
        <3>1. CASE v = w
            <4>1. call'[v] = c /\ 1..call'[v].offset = {}
                BY <1>0, <2>1, <2>5, <3>1
            <4>2. Fil!Tmp(v)' = i
                BY <3>1 DEF Fil!Tmp, i
            <4> QED
                BY <2>5, <4>1, <4>2
        <3>2. CASE v # w
            <4>1. call'[v] = call[v] /\ call[v].fd \in Fil!Inodes /\ Fil!InCall(v)
                BY <1>0, <2>1, <3>2 DEF Fil!CallType, Fil!InCall
            <4>2. ProcessOf[v] \in Processes \ {q}
                BY <2>2, <4>1
            <4>3. call[v].fd = tmp[ProcessOf[v]]
                BY <1>0, <4>1 DEF Fil!Written, Fil!Tmp
            <4>4. Fil!Tmp(v)' = tmp[ProcessOf[v]] /\ call[v].fd # i
                BY <2>3, <4>2, <4>3 DEF Fil!Tmp
            <4> QED
                BY <1>0, <2>4, <4>1, <4>3, <4>4 DEF Fil!Written
        <3> QED
            BY <3>1, <3>2
    <2> QED
        BY <2>6, <2>7, <2>8, <2>9, <2>10 DEF Fil!IInv
\* A step after which the caller w no longer writes, and its process's name may be gone.
<1>7. ASSUME NEW w \in Writers, Fil!InCall(w), NEW c \in Fil!CallType,
             call' = [call EXCEPT ![w] = c],
             \/ c.pc \in {"replaced", "failed"} /\ lock' = lock
             \/ c.pc \in {"idle", "raised"} /\ lock' = [lock EXCEPT ![ProcessOf[w]] = Absent]
                /\ tmp' = [tmp EXCEPT ![ProcessOf[w]] = Absent],
             \/ target' = target
             \/ /\ target' = tmp[ProcessOf[w]] /\ tmp[ProcessOf[w]] # Absent
                /\ tmp' = [tmp EXCEPT ![ProcessOf[w]] = Absent]
                /\ data[target'] = Fil!DocumentOf(w) /\ target' \in synced,
             tmp' \in {tmp, [tmp EXCEPT ![ProcessOf[w]] = Absent]},
             UNCHANGED <<durable, data, synced, opens, crashes>>
      PROVE  Fil!IInv'
    <2> DEFINE q == ProcessOf[w]
    <2>1. q \in Processes /\ lock[q] = w
        BY <1>0, <1>7 DEF Fil!LockInv
    <2>2. \A v \in Writers \ {w} : Fil!InCall(v) => ProcessOf[v] # q
        BY <1>0, <2>1 DEF Fil!LockInv
    <2> HIDE DEF q
    <2>3. q = ProcessOf[w]
        BY DEF q
    <2>4. target' \in Fil!Inodes /\ target' <= opens
        BY <1>0, <1>7, <2>1, <2>3 DEF Fil!NamesApart, Fil!Inodes
    <2>5. Fil!TypeOK'
        BY <1>0, <1>7, <2>1, <2>3, <2>4 DEF Fil!TypeOK
    <2>6. Fil!LockInv'
        BY <1>0, <1>7, <2>1, <2>2, <2>3 DEF Fil!LockInv, Fil!InCall
    <2>7. Fil!NamesApart'
        BY <1>0, <1>7, <2>1, <2>3, <2>4 DEF Fil!NamesApart
    <2>8. Fil!InService'
        BY <1>0, <1>7, <2>3 DEF Fil!InService, Fil!Whole
    <2>9. Fil!Written'
        <3>1. \A v \in Writers \ {w} : call'[v] = call[v] /\ (Fil!InCall(v) => Fil!Tmp(v)' = Fil!Tmp(v))
            BY <1>0, <1>7, <2>1, <2>2, <2>3 DEF Fil!Tmp
        <3> QED
            BY <1>0, <1>7, <3>1 DEF Fil!Written, Fil!InCall
    <2>10. Fil!TmpIsHeld'
        BY <1>0, <1>7, <2>1, <2>3 DEF Fil!TmpIsHeld
    <2> QED
        BY <2>5, <2>6, <2>7, <2>8, <2>9, <2>10 DEF Fil!IInv
<1>8. ASSUME NEW w \in Writers, Fil!Replace(w)
      PROVE  Fil!IInv'
    <2>1. call[w] \in Fil!CallType /\ call[w].pc = "moded" /\ Fil!InCall(w)
        BY <1>0, <1>8 DEF Fil!Replace, Fil!InCall
    <2>2. /\ call[w].fd = tmp[ProcessOf[w]]
          /\ data[call[w].fd] = Fil!DocumentOf(w) /\ call[w].fd \in synced
        BY <1>0, <2>1 DEF Fil!Written, Fil!Tmp
    <2>3. \A p \in {"failed", "replaced"} : /\ [call[w] EXCEPT !.pc = p] \in Fil!CallType
                                             /\ [call[w] EXCEPT !.pc = p].pc = p
        BY <2>1 DEF Fil!CallType
    <2>4. CASE Fil!Tmp(w) = Absent
        <3>1. call' = [call EXCEPT ![w] = [call[w] EXCEPT !.pc = "failed"]]
            BY <1>8, <2>4 DEF Fil!Replace
        <3>2. UNCHANGED <<target, durable, tmp, data, synced, opens, lock, crashes>>
            BY <1>8, <2>4 DEF Fil!Replace
        <3> QED
            BY <1>7, <2>1, <2>3, <3>1, <3>2
    <2>5. CASE Fil!Tmp(w) # Absent
        <3>1. call' = [call EXCEPT ![w] = [call[w] EXCEPT !.pc = "replaced"]]
            BY <1>8, <2>5 DEF Fil!Replace
        <3>2. /\ target' = tmp[ProcessOf[w]] /\ tmp[ProcessOf[w]] # Absent
              /\ tmp' = [tmp EXCEPT ![ProcessOf[w]] = Absent]
              /\ UNCHANGED <<durable, data, synced, opens, lock, crashes>>
            BY <1>8, <2>5 DEF Fil!Replace, Fil!Tmp
        <3> QED
            BY <1>7, <2>1, <2>2, <2>3, <3>1, <3>2
    <2> QED
        BY <2>4, <2>5
<1>9. ASSUME NEW w \in Writers, Fil!Cleanup(w)
      PROVE  Fil!IInv'
    <2> DEFINE c == IF call[w].pc = "replaced" THEN Fil!Idle ELSE [Fil!Idle EXCEPT !.pc = "raised"]
    <2>1. Fil!InCall(w) /\ c \in Fil!CallType /\ c.pc \in {"idle", "raised"}
        BY <1>9 DEF Fil!Cleanup, Fil!InCall
    <2>2. /\ call' = [call EXCEPT ![w] = c]
          /\ lock' = [lock EXCEPT ![ProcessOf[w]] = Absent]
          /\ tmp' = [tmp EXCEPT ![ProcessOf[w]] = Absent]
          /\ UNCHANGED <<target, durable, data, synced, opens, crashes>>
        BY <1>9 DEF Fil!Cleanup, Fil!Leave
    <2> HIDE DEF c
    <2> QED
        BY <1>7, <2>1, <2>2
<1>10. CASE Fil!Commit
    BY <1>0, <1>10
       DEF Fil!Commit, Fil!IInv, Fil!TypeOK, Fil!LockInv, Fil!InCall, Fil!NamesApart, Fil!InService,
           Fil!Whole, Fil!Written, Fil!Tmp, Fil!TmpIsHeld
\* A crash: some processes lose their calls and their locks.
<1>11. ASSUME NEW gone \in SUBSET Processes,
              call' = [w \in Writers |-> IF ProcessOf[w] \in gone
                                         THEN [Fil!Idle EXCEPT !.pc = "raised"] ELSE call[w]],
              lock' \in [Processes -> Writers \cup {Absent}],
              \A q \in Processes : lock'[q] = IF q \in gone THEN Absent ELSE lock[q],
              crashes < FileCrashes, crashes' = crashes + 1,
              UNCHANGED <<tmp, opens, synced>>, {target', durable'} \subseteq {target, durable},
              data' \in [Fil!Inodes -> Fil!Content],
              \A i \in synced : data'[i] = data[i],
              \/ data' = data
              \/ \A w \in Writers : ProcessOf[w] \in gone
       PROVE  Fil!IInv'
    <2>1. call' \in [Writers -> Fil!CallType] /\ crashes' \in 0..FileCrashes
        BY <1>0, <1>11
    <2>2. Fil!TypeOK'
        BY <1>0, <1>11, <2>1 DEF Fil!TypeOK
    <2>3. Fil!LockInv'
        BY <1>0, <1>11 DEF Fil!LockInv, Fil!InCall
    <2>4. Fil!NamesApart'
        BY <1>0, <1>11 DEF Fil!NamesApart
    <2>5. Fil!InService'
        BY <1>0, <1>11 DEF Fil!InService, Fil!Whole
    <2>6. Fil!Written'
        BY <1>0, <1>11 DEF Fil!Written, Fil!Tmp
    <2>7. Fil!TmpIsHeld'
        BY <1>0, <1>11 DEF Fil!TmpIsHeld
    <2> QED
        BY <2>2, <2>3, <2>4, <2>5, <2>6, <2>7 DEF Fil!IInv
<1>12. ASSUME NEW q \in Processes, Fil!Kill(q)
       PROVE  Fil!IInv'
    <2>1. call' = [w \in Writers |-> IF ProcessOf[w] \in {q}
                                     THEN [Fil!Idle EXCEPT !.pc = "raised"] ELSE call[w]]
        BY <1>12 DEF Fil!Kill
    <2>2. /\ lock' \in [Processes -> Writers \cup {Absent}]
          /\ \A o \in Processes : lock'[o] = IF o \in {q} THEN Absent ELSE lock[o]
        BY <1>0, <1>12 DEF Fil!Kill
    <2>3. /\ crashes < FileCrashes /\ crashes' = crashes + 1
          /\ UNCHANGED <<tmp, opens, synced>> /\ data' = data
          /\ {target', durable'} \subseteq {target, durable}
        BY <1>12 DEF Fil!Kill
    <2>4. {q} \in SUBSET Processes /\ data' \in [Fil!Inodes -> Fil!Content]
        BY <1>0, <2>3
    <2> HIDE <1>12
    <2> QED
        BY <1>11, <2>1, <2>2, <2>3, <2>4
<1>13. CASE Fil!PowerLoss
    <2>1. call' = [w \in Writers |-> IF ProcessOf[w] \in Processes
                                     THEN [Fil!Idle EXCEPT !.pc = "raised"] ELSE call[w]]
        BY <1>13 DEF Fil!PowerLoss
    <2>2. /\ lock' \in [Processes -> Writers \cup {Absent}]
          /\ \A o \in Processes : lock'[o] = IF o \in Processes THEN Absent ELSE lock[o]
        BY <1>0, <1>13 DEF Fil!PowerLoss
    <2>3. PICK lost \in SUBSET (Fil!Inodes \ synced) :
              data' = [i \in Fil!Inodes |-> IF i \in lost THEN Fil!Empty ELSE data[i]]
        BY <1>13 DEF Fil!PowerLoss
    <2>4. Fil!Empty \in Fil!Content
        BY DEF Fil!Empty, Fil!Content
    <2>5. data' \in [Fil!Inodes -> Fil!Content] /\ \A i \in synced : data'[i] = data[i]
        BY <1>0, <2>3, <2>4
    <2> QED
        BY <1>0, <1>11, <1>13, <2>1, <2>2, <2>5 DEF Fil!PowerLoss
<1>14. CASE UNCHANGED Fil!vars
    BY <1>0, <1>14
       DEF Fil!vars, Fil!IInv, Fil!TypeOK, Fil!LockInv, Fil!InCall, Fil!NamesApart, Fil!InService,
           Fil!Whole, Fil!Written, Fil!Tmp, Fil!TmpIsHeld
<1> QED
    BY <1>2, <1>3, <1>4, <1>5, <1>6, <1>8, <1>9, <1>10, <1>12, <1>13, <1>14 DEF Fil!Next

FileInv == which = "Fil" => Fil!IInv

LEMMA FileInvariant == Spec => []FileInv
<1>1. Init => FileInv
    BY FileInit DEF Init, FileInv
<1>2. FileInv /\ [Next]_vars => FileInv'
    BY ComponentStep, FileStep DEF FileInv
<1> QED
    BY <1>1, <1>2, PTL DEF Spec

\* Whoever reads a file finds one whole document, after any crash or power loss, for
\* any number of threads, ticks and documents' lengths, while the threads of the server
\* take turns (write_json_atomic under the stores' locks).
THEOREM ReadersFindWholeFiles == Spec => [](which = "Fil" => Fil!TargetWhole)
<1>1. FileInv => (which = "Fil" => Fil!TargetWhole)
    BY DEF FileInv, Fil!IInv, Fil!InService, Fil!TargetWhole
<1> QED
    BY <1>1, FileInvariant, PTL

\* As long as no process dies, a temporary file is gone when the call that made it
\* returns, whatever failed in it (the finally block of write_json_atomic).
THEOREM NoTemporaryFileStays == Spec => []NoLitter
<1>1. ASSUME Fil!IInv
      PROVE  Fil!NoLitter
    <2> SUFFICES ASSUME crashes = 0, NEW q \in Processes, tmp[q] # Absent
                 PROVE  \E w \in Writers : ProcessOf[w] = q /\ call[w].pc \notin {"idle", "raised"}
        BY DEF Fil!NoLitter
    <2>1. lock[q] # Absent /\ lock[q] \in Writers /\ ProcessOf[lock[q]] = q
        BY <1>1 DEF Fil!IInv, Fil!TmpIsHeld, Fil!TypeOK, Fil!LockInv
    <2> QED
        BY <1>1, <2>1 DEF Fil!IInv, Fil!LockInv, Fil!InCall
<1>2. FileInv => NoLitter
    BY <1>1 DEF FileInv, NoLitter
<1> QED
    BY <1>2, FileInvariant, PTL

----------------------------------------------------------------------------
(* A save is atomic *)

stage == [v \in Writers |-> Fil!StageOf(call[v])]

LEMMA StageMoves ==
    ASSUME Fil!IInv, NEW w \in Writers, NEW c, call' = [call EXCEPT ![w] = c]
    PROVE  stage' = [stage EXCEPT ![w] = Fil!StageOf(c)]
<1>1. call \in [Writers -> Fil!CallType]
    BY DEF Fil!IInv, Fil!TypeOK
<1>2. \A v \in Writers : call'[v] = IF v = w THEN c ELSE call[v]
    BY <1>1
<1>3. stage' = [v \in Writers |-> Fil!StageOf(call'[v])]
    BY DEF stage, Fil!StageOf
<1>4. \A v \in Writers : Fil!StageOf(call'[v]) = IF v = w THEN Fil!StageOf(c) ELSE stage[v]
    <2> SUFFICES ASSUME NEW v \in Writers
                 PROVE  Fil!StageOf(call'[v]) = IF v = w THEN Fil!StageOf(c) ELSE stage[v]
        OBVIOUS
    <2>1. CASE v = w
        BY <1>2, <2>1
    <2>2. CASE v # w
        <3>1. call'[v] = call[v]
            BY <1>2, <2>2
        <3>2. stage[v] = Fil!StageOf(call[v])
            BY DEF stage
        <3> QED
            BY <2>2, <3>1, <3>2
    <2> QED
        BY <2>1, <2>2
<1>5. stage = [v \in Writers |-> stage[v]]
    BY DEF stage
<1> QED
    BY <1>3, <1>4, <1>5

\* What is in service stays as it is while nobody writes into it.
LEMMA ServiceStays ==
    ASSUME Fil!IInv, UNCHANGED <<target, durable>>, NEW w \in Writers,
           Fil!Open(w) \/ Fil!Write(w) \/ UNCHANGED data
    PROVE  UNCHANGED <<data[target], data[durable]>>
<1>1. target \in Fil!Inodes /\ durable \in Fil!Inodes /\ data \in [Fil!Inodes -> Fil!Content]
    BY DEF Fil!IInv, Fil!TypeOK
<1>2. CASE Fil!Open(w)
    <2>1. Fil!Tmp(w) # Absent => Fil!Tmp(w) # target /\ Fil!Tmp(w) # durable
        BY ProcessType DEF Fil!IInv, Fil!NamesApart, Fil!Tmp
    <2> QED
        BY <1>1, <1>2, <2>1 DEF Fil!Open
<1>3. CASE Fil!Write(w)
    <2>1. call[w].fd # target /\ call[w].fd # durable
        BY <1>3, OwnFile DEF Fil!Write
    <2> QED
        BY <1>1, <1>3, <2>1 DEF Fil!Write
<1> QED
    BY <1>2, <1>3

LEMMA PromiseInit ==
    ASSUME Fil!Init
    PROVE  Fil!Promise!AInit
BY FileBounds DEF Fil!Init, Fil!Promise!AInit, Fil!StageOf, Fil!Idle

\* What the steps of a call are for the one who made it.
LEMMA PromiseCall ==
    ASSUME Fil!IInv, NEW w \in Writers,
           \/ Fil!Open(w) \/ Fil!Write(w) \/ Fil!WriteFails(w) \/ Fil!Sync(w)
           \/ Fil!Chmod(w) \/ Fil!Replace(w) \/ Fil!Cleanup(w)
    PROVE  [Fil!Promise!ANext]_(Fil!Promise!vars)
<1> DEFINE found == data[target]  kept == data[durable]
<1>1. call \in [Writers -> Fil!CallType] /\ stage[w] = Fil!StageOf(call[w])
    BY DEF Fil!IInv, Fil!TypeOK, stage
<1>2. SUFFICES \/ stage[w] = "idle" /\ stage' = [stage EXCEPT ![w] = "called"] /\ UNCHANGED <<found, kept>>
               \/ /\ stage[w] = "called" /\ stage' = [stage EXCEPT ![w] = "saved"]
                  /\ found' = Fil!DocumentOf(w) /\ UNCHANGED kept
               \/ stage[w] = "saved" /\ stage' = [stage EXCEPT ![w] = "idle"] /\ UNCHANGED <<found, kept>>
               \/ stage[w] = "called" /\ stage' = [stage EXCEPT ![w] = "raised"] /\ UNCHANGED <<found, kept>>
               \/ UNCHANGED <<found, kept, stage>>
    BY DEF Fil!Promise!ANext, Fil!Promise!Call, Fil!Promise!Save, Fil!Promise!Return,
           Fil!Promise!Raise, Fil!Promise!vars, stage
\* A step that stays inside the call.
<1>3. ASSUME NEW c, call' = [call EXCEPT ![w] = c], Fil!StageOf(c) = "called", stage[w] = "called",
             UNCHANGED <<target, durable>>, Fil!Write(w) \/ UNCHANGED data
      PROVE  UNCHANGED <<found, kept, stage>>
    <2>1. stage' = [stage EXCEPT ![w] = "called"]
        BY <1>3, StageMoves
    <2>2. stage' = stage
        BY <1>3, <2>1 DEF stage
    <2> QED
        BY <1>3, <2>2, ServiceStays
<1>4. CASE Fil!Open(w)
    <2> DEFINE c == [pc |-> "writing", fd |-> tmp'[ProcessOf[w]], offset |-> 0]
    <2>1. call' = [call EXCEPT ![w] = c] /\ UNCHANGED <<target, durable>> /\ call[w].pc = "idle"
        BY <1>4 DEF Fil!Open
    <2>2. Fil!StageOf(c) = "called" /\ stage[w] = "idle"
        BY <1>1, <2>1 DEF Fil!StageOf
    <2> HIDE DEF c
    <2>3. stage' = [stage EXCEPT ![w] = "called"]
        BY <2>1, <2>2, StageMoves
    <2>4. UNCHANGED <<found, kept>>
        BY <1>4, <2>1, ServiceStays
    <2> QED
        BY <2>2, <2>3, <2>4
<1>5. CASE Fil!Write(w)
    <2> DEFINE c == [call[w] EXCEPT !.offset = @ + 1]
    <2>1. call' = [call EXCEPT ![w] = c] /\ UNCHANGED <<target, durable>> /\ call[w].pc = "writing"
        BY <1>5 DEF Fil!Write
    <2>2. c.pc = "writing"
        BY <1>1, <2>1 DEF Fil!CallType
    <2>3. Fil!StageOf(c) = "called" /\ stage[w] = "called"
        BY <1>1, <2>1, <2>2 DEF Fil!StageOf
    <2> HIDE DEF c
    <2> QED
        BY <1>3, <1>5, <2>1, <2>3
<1>6. CASE Fil!WriteFails(w) \/ Fil!Sync(w)
    <2>1. PICK pc \in {"failed", "synced"} : call' = [call EXCEPT ![w] = [call[w] EXCEPT !.pc = pc]]
        BY <1>6 DEF Fil!WriteFails, Fil!Sync
    <2>2. UNCHANGED <<target, durable, data>> /\ call[w].pc = "writing"
        BY <1>6 DEF Fil!WriteFails, Fil!Sync
    <2> DEFINE c == [call[w] EXCEPT !.pc = pc]
    <2>3. c.pc = pc
        BY <1>1 DEF Fil!CallType
    <2>4. Fil!StageOf(c) = "called" /\ stage[w] = "called"
        BY <1>1, <2>2, <2>3 DEF Fil!StageOf
    <2>5. call' = [call EXCEPT ![w] = c]
        BY <2>1
    <2> HIDE DEF c
    <2> QED
        BY <1>3, <2>2, <2>4, <2>5
<1>7. CASE Fil!Chmod(w)
    <2>1. PICK pc \in {"failed", "moded"} : call' = [call EXCEPT ![w] = [call[w] EXCEPT !.pc = pc]]
        BY <1>7 DEF Fil!Chmod
    <2>2. UNCHANGED <<target, durable, data>> /\ call[w].pc = "synced"
        BY <1>7 DEF Fil!Chmod
    <2> DEFINE c == [call[w] EXCEPT !.pc = pc]
    <2>3. c.pc = pc
        BY <1>1 DEF Fil!CallType
    <2>4. Fil!StageOf(c) = "called" /\ stage[w] = "called"
        BY <1>1, <2>2, <2>3 DEF Fil!StageOf
    <2>5. call' = [call EXCEPT ![w] = c]
        BY <2>1
    <2> HIDE DEF c
    <2> QED
        BY <1>3, <2>2, <2>4, <2>5
<1>8. CASE Fil!Replace(w)
    <2>1. call[w].pc = "moded" /\ UNCHANGED <<durable, data>>
        BY <1>8 DEF Fil!Replace
    <2>2. call[w].fd = Fil!Tmp(w) /\ call[w].fd \in Fil!Inodes /\ data[call[w].fd] = Fil!DocumentOf(w)
        BY <1>1, <2>1 DEF Fil!IInv, Fil!Written, Fil!CallType
    <2>3. Fil!Tmp(w) # Absent
        BY <2>2, FileBounds
    <2> DEFINE c == [call[w] EXCEPT !.pc = "replaced"]
    <2>4. call' = [call EXCEPT ![w] = c] /\ target' = Fil!Tmp(w)
        BY <1>8, <2>3 DEF Fil!Replace
    <2>5. c.pc = "replaced"
        BY <1>1 DEF Fil!CallType
    <2>6. Fil!StageOf(c) = "saved" /\ stage[w] = "called"
        BY <1>1, <2>1, <2>5 DEF Fil!StageOf
    <2> HIDE DEF c
    <2>7. stage' = [stage EXCEPT ![w] = "saved"]
        BY <2>4, <2>6, StageMoves
    <2>8. found' = Fil!DocumentOf(w) /\ kept' = kept
        BY <2>1, <2>2, <2>4
    <2> QED
        BY <2>6, <2>7, <2>8
<1>9. CASE Fil!Cleanup(w)
    <2>1. UNCHANGED <<target, durable, data>> /\ call[w].pc \in {"replaced", "failed"}
        BY <1>9 DEF Fil!Cleanup
    <2>2. CASE call[w].pc = "replaced"
        <3>1. call' = [call EXCEPT ![w] = Fil!Idle]
            BY <1>1, <1>9, <2>2 DEF Fil!Cleanup
        <3>2. Fil!StageOf(Fil!Idle) = "idle" /\ stage[w] = "saved"
            BY <1>1, <2>2 DEF Fil!StageOf, Fil!Idle
        <3> QED
            BY <2>1, <3>1, <3>2, StageMoves
    <2>3. CASE call[w].pc = "failed"
        <3> DEFINE c == [Fil!Idle EXCEPT !.pc = "raised"]
        <3>1. call' = [call EXCEPT ![w] = c]
            BY <1>1, <1>9, <2>3 DEF Fil!Cleanup
        <3>2. Fil!StageOf(c) = "raised" /\ stage[w] = "called"
            BY <1>1, <2>3 DEF Fil!StageOf, Fil!Idle
        <3> HIDE DEF c
        <3> QED
            BY <2>1, <3>1, <3>2, StageMoves
    <2> QED
        BY <2>1, <2>2, <2>3
<1> QED
    BY <1>4, <1>5, <1>6, <1>7, <1>8, <1>9

LEMMA PromiseStep ==
    ASSUME Fil!IInv, [Fil!Next]_(Fil!vars)
    PROVE  [Fil!Promise!ANext]_(Fil!Promise!vars)
<1>1. /\ call \in [Writers -> Fil!CallType] /\ data \in [Fil!Inodes -> Fil!Content]
      /\ target \in synced /\ durable \in synced /\ target \in Fil!Inodes /\ durable \in Fil!Inodes
    BY DEF Fil!IInv, Fil!TypeOK, Fil!InService
<1>2. CASE UNCHANGED Fil!vars
    BY <1>2 DEF Fil!vars, Fil!Promise!vars, Fil!StageOf
<1>3. CASE Fil!Commit
    BY <1>3 DEF Fil!Commit, Fil!Promise!ANext, Fil!Promise!Settle, Fil!StageOf
<1>4. ASSUME NEW q \in Processes, Fil!Kill(q)
      PROVE  Fil!Promise!Killed
    <2> DEFINE W == {v \in Writers : ProcessOf[v] = q}
    <2>1. call' = [v \in Writers |-> IF ProcessOf[v] = q THEN [Fil!Idle EXCEPT !.pc = "raised"] ELSE call[v]]
        BY <1>4 DEF Fil!Kill
    <2>2. \A v \in Writers : Fil!StageOf(call'[v]) = IF v \in W THEN "raised" ELSE stage[v]
        <3> SUFFICES ASSUME NEW v \in Writers
                     PROVE  Fil!StageOf(call'[v]) = IF v \in W THEN "raised" ELSE stage[v]
            OBVIOUS
        <3>1. CASE v \in W
            <4>1. call'[v] = [Fil!Idle EXCEPT !.pc = "raised"]
                BY <2>1, <3>1
            <4> QED
                BY <3>1, <4>1 DEF Fil!StageOf, Fil!Idle
        <3>2. CASE v \notin W
            <4>1. call'[v] = call[v] /\ stage[v] = Fil!StageOf(call[v])
                BY <2>1, <3>2 DEF stage
            <4> QED
                BY <3>2, <4>1
        <3> QED
            BY <3>1, <3>2
    <2>3. stage' = [v \in Writers |-> Fil!StageOf(call'[v])]
        BY DEF stage, Fil!StageOf
    <2>4. W \in SUBSET Writers
        OBVIOUS
    <2> HIDE DEF W
    <2>5. stage' = [v \in Writers |-> IF v \in W THEN "raised" ELSE stage[v]]
        BY <2>2, <2>3
    <2>6. UNCHANGED <<data[target], data[durable]>>
        BY <1>4 DEF Fil!Kill
    <2> QED
        BY <2>4, <2>5, <2>6 DEF Fil!Promise!Killed, stage
<1>5. CASE Fil!PowerLoss
    <2>1. call' = [v \in Writers |-> [Fil!Idle EXCEPT !.pc = "raised"]]
        BY <1>5 DEF Fil!PowerLoss
    <2>2. stage' = [v \in Writers |-> "raised"]
        BY <2>1 DEF stage, Fil!StageOf, Fil!Idle
    <2>3. data'[target] = data[target] /\ data'[durable] = data[durable]
        BY <1>1, <1>5 DEF Fil!PowerLoss
    <2>4. target' \in {target, durable} /\ durable' = target'
        BY <1>5 DEF Fil!PowerLoss
    <2>5. data'[target'] \in {data[target], data[durable]} /\ data'[durable'] = data'[target']
        BY <2>3, <2>4
    <2> QED
        BY <2>2, <2>5 DEF Fil!Promise!ANext, Fil!Promise!PowerFails, stage
<1> QED
    BY <1>2, <1>3, <1>4, <1>5, PromiseCall DEF Fil!Next, Fil!Promise!ANext

\* A save whose callers take turns keeps what JsonSpec promises, step by step: it takes
\* effect once, whole, between call and return or not at all, and a power loss brings
\* back at worst what was on disk (write_json_atomic).
THEOREM SavesAreAtomic == Spec => SaveIsAtomic
<1>1. Init => (which = "Fil" => Fil!Promise!AInit)
    BY PromiseInit DEF Init
<1>2. FileInv /\ [Next]_vars => [which = "Fil" => [Fil!Promise!ANext]_(Fil!Promise!vars)]_vars
    BY ComponentStep, PromiseStep DEF FileInv
<1> QED
    BY <1>1, <1>2, FileInvariant, PTL DEF Spec, SaveIsAtomic

----------------------------------------------------------------------------
(* Backup, whose lock is called held here *)

job == s1
held == s2
req == s3
worker == s4
models == s5
copies == s6
manifest == s7
up == s8
count == s9
spoiled == s10
USE DEF job, held, req, worker, models, copies, manifest, up, count, spoiled

LEMMA BackupBounds ==
    /\ BackupWorkers \in Nat /\ BackupFaults \in Nat
    /\ Nil \notin Threads /\ Nil \notin Groups
BY BoundsAssumption, NilAssumption

LEMMA BackupInit ==
    ASSUME Bak!Init
    PROVE  Bak!IInv
<1> USE BackupBounds DEF Bak!Init
<1>1. \A w \in Bak!Worker : worker[w] = Bak!Gone /\ worker[w].pc = "gone" /\ worker[w].rsync = "none"
    BY DEF Bak!Gone
<1>2. \A r \in Threads : req[r] = Bak!Idle /\ req[r].pc = "idle"
    BY DEF Bak!Idle
<1>3. Bak!TypeOK
    <2>1. req \in [Threads -> Bak!ReqType]
        BY DEF Bak!Idle, Bak!ReqType
    <2>2. worker \in [Bak!Worker -> Bak!WorkerType]
        BY DEF Bak!Gone, Bak!WorkerType
    <2>3. count \in [spawned : 0..BackupWorkers, faults : 0..BackupFaults]
        OBVIOUS
    <2> QED
        BY <2>1, <2>2, <2>3 DEF Bak!TypeOK
<1>4. Bak!LockInv
    BY <1>1, <1>2 DEF Bak!LockInv, Bak!Locked
<1>5. Bak!SoleCopier
    BY <1>1, <1>2 DEF Bak!SoleCopier, Bak!Alive
<1>6. Bak!CopiedWhole /\ Bak!ManifestHonest
    BY <1>1 DEF Bak!CopiedWhole, Bak!ManifestHonest
<1> QED
    BY <1>3, <1>4, <1>5, <1>6 DEF Bak!IInv

\* A worker's fields depend on how far it is.
LEMMA WorkerShape ==
    ASSUME NEW x \in Bak!WorkerType
    PROVE  /\ x.pc \in {"gone", "start"} => x.rsync \in {"none", "running"}
           /\ x.pc \in {"start", "claim", "popen"} => x.rsync = "none"
           /\ x.rsync \in {"ok", "failed"} => x.pc \in {"handler", "copying", "ending", "end", "save"}
           /\ x.pc \in {"handler", "copying", "ending", "end", "save"} =>
                x \in [pc : {"handler", "copying", "ending", "end", "save"},
                       rsync : {"running", "ok", "failed"}, stop : BOOLEAN,
                       op : {"backup", "restore"}, group : Groups, copy : Bak!Jobs \cup {Nil}]
           /\ x.pc \in {"claim", "popen"} =>
                x \in [pc : {"claim", "popen"}, rsync : {"none"}, stop : {FALSE},
                       op : {"backup", "restore"}, group : Groups, copy : Bak!Jobs]
           /\ x.rsync = "running" /\ x.pc = "gone" =>
                x \in [pc : {"gone"}, rsync : {"running"}, stop : BOOLEAN,
                       op : {"backup", "restore"}, group : Groups, copy : {Nil}]
           /\ x.pc = "start" => x \in [pc : {"gone", "start"}, rsync : {"none"}, stop : {FALSE}]
           /\ x.pc \in {"gone", "start", "claim", "popen", "handler", "copying", "ending", "end", "save"}
           /\ x.rsync \in {"none", "running", "ok", "failed"}
BY DEF Bak!WorkerType

\* An rsync is a worker's with a job.
LEMMA CopierGroup ==
    ASSUME NEW x \in Bak!WorkerType, x.rsync # "none"
    PROVE  x.group \in Groups /\ x.op \in {"backup", "restore"}
<1>1. x.pc \in {"handler", "copying", "ending", "end", "save"} \/ (x.pc = "gone" /\ x.rsync = "running")
    BY WorkerShape
<1>2. CASE x.pc \in {"handler", "copying", "ending", "end", "save"}
    <2>1. x \in [pc : {"handler", "copying", "ending", "end", "save"},
                 rsync : {"running", "ok", "failed"}, stop : BOOLEAN,
                 op : {"backup", "restore"}, group : Groups, copy : Bak!Jobs \cup {Nil}]
        BY <1>2, WorkerShape
    <2> QED
        BY <2>1
<1>3. CASE x.pc = "gone" /\ x.rsync = "running"
    <2>1. x \in [pc : {"gone"}, rsync : {"running"}, stop : BOOLEAN,
                 op : {"backup", "restore"}, group : Groups, copy : {Nil}]
        BY <1>3, WorkerShape
    <2> QED
        BY <2>1
<1> QED
    BY <1>1, <1>2, <1>3

\* The end of a worker leaves nothing, or the rsync it had.
LEMMA ExitedWorker ==
    ASSUME NEW x \in Bak!WorkerType, x.pc # "gone"
    PROVE  /\ Bak!Exited(x) \in Bak!WorkerType
           /\ Bak!Exited(x).pc = "gone" /\ Bak!Exited(x).rsync # "ok"
           /\ Bak!Exited(x).rsync = "running" =>
                /\ x.rsync = "running"
                /\ Bak!Exited(x).group = x.group /\ Bak!Exited(x).op = x.op
<1>1. CASE x.rsync = "running"
    <2>1. x \in [pc : {"handler", "copying", "ending", "end", "save"},
                 rsync : {"running", "ok", "failed"}, stop : BOOLEAN,
                 op : {"backup", "restore"}, group : Groups, copy : Bak!Jobs \cup {Nil}]
        BY <1>1, WorkerShape
    <2>2. Bak!Exited(x) \in [pc : {"gone"}, rsync : {"running"}, stop : BOOLEAN,
                             op : {"backup", "restore"}, group : Groups, copy : {Nil}]
        BY <1>1, <2>1 DEF Bak!Exited
    <2>3. Bak!Exited(x).group = x.group /\ Bak!Exited(x).op = x.op
        BY <1>1, <2>1 DEF Bak!Exited
    <2> QED
        BY <1>1, <2>2, <2>3 DEF Bak!WorkerType
<1>2. CASE x.rsync # "running"
    BY <1>2 DEF Bak!Exited, Bak!Gone, Bak!WorkerType
<1> QED
    BY <1>1, <1>2

LEMMA BackupTypes ==
    ASSUME Bak!IInv
    PROVE  /\ job \in Bak!Jobs \cup {Bak!NoJob}
           /\ held \in Threads \cup {Nil}
           /\ req \in [Threads -> Bak!ReqType]
           /\ worker \in [Bak!Worker -> Bak!WorkerType]
           /\ models \in [Groups -> {"whole", "part", "none"}]
           /\ copies \in [Groups -> {"whole", "part", "none"}]
           /\ manifest \subseteq Groups /\ spoiled \subseteq Groups
           /\ up \in BOOLEAN
           /\ count \in [spawned : 0..BackupWorkers, faults : 0..BackupFaults]
           /\ Bak!LockInv /\ Bak!SoleCopier /\ Bak!CopiedWhole /\ Bak!ManifestHonest
BY DEF Bak!IInv, Bak!TypeOK

\* Two workers alive are the same.
LEMMA OnlyOneAlive ==
    ASSUME Bak!IInv, NEW v \in Bak!Worker, NEW w \in Bak!Worker,
           worker[v].pc # "gone", worker[w].pc # "gone"
    PROVE  v = w
BY DEF Bak!IInv, Bak!SoleCopier, Bak!Alive

\* What a step of worker w, which becomes x, needs to do and not to do.
LEMMA BackupWorkerStep ==
    ASSUME Bak!IInv, NEW w \in Bak!Worker, worker[w].pc # "gone",
           NEW x \in Bak!WorkerType, worker' = [worker EXCEPT ![w] = x],
           UNCHANGED <<held, req, models, copies, up, spoiled>>,
           count' \in [spawned : 0..BackupWorkers, faults : 0..BackupFaults],
           count'.spawned = count.spawned,
           \/ job' = job
           \/ job' \in Bak!Jobs /\ x.pc = "gone"
           \/ job' \in Bak!Jobs /\ job'.state = "running" /\ job'.pid = w,
           manifest' \subseteq Groups,
           \A g \in manifest' \ manifest : g \in spoiled \/ copies[g] = "whole",
           x.pc \in {"claim", "popen"} => x.copy.state = "running",
           x.pc \in {"handler", "copying"} /\ x.copy # Nil => x.copy.state = "running" /\ x.copy.pid = w,
           x.pc \in {"end", "save"} => x.copy \in Bak!Jobs,
           x.pc \in {"ending", "end", "save"} /\ ~x.stop => x.rsync # "running",
           x.rsync = "running" => \/ worker[w].rsync = "running" /\ x.group = worker[w].group
                                  \/ x.pc # "gone" /\ worker[w].rsync # "ok",
           x.rsync = "ok" => /\ worker[w].rsync = "ok"
                             /\ x.op = worker[w].op /\ x.group = worker[w].group
    PROVE  Bak!IInv'
<1> USE BackupBounds, BackupTypes
<1>1. /\ worker'[w] = x /\ \A v \in Bak!Worker \ {w} : worker'[v] = worker[v]
      /\ worker' \in [Bak!Worker -> Bak!WorkerType]
    OBVIOUS
<1>2. Bak!TypeOK'
    BY <1>1 DEF Bak!TypeOK
<1>3. Bak!LockInv'
    BY <1>1 DEF Bak!LockInv
<1>4. w = count.spawned /\ job.state = "running" /\ job.pid \in {0, w}
    BY DEF Bak!SoleCopier, Bak!Alive
<1>5. \A v \in Bak!Worker : worker'[v].pc # "gone" => v = w
    BY <1>1, OnlyOneAlive
<1>6. \A r \in Threads : req[r].pc # "spawn"
    BY DEF Bak!SoleCopier, Bak!Alive
<1>7. Bak!SoleCopier'
    <2>1. ASSUME NEW v \in Bak!Worker, worker'[v].pc # "gone"
          PROVE  /\ v = count'.spawned
                 /\ job'.state = "running" /\ job'.pid \in {0, v}
                 /\ worker'[v].pc \in {"claim", "popen"} => worker'[v].copy.state = "running"
                 /\ worker'[v].pc \in {"handler", "copying"} /\ worker'[v].copy # Nil =>
                      worker'[v].copy.state = "running" /\ worker'[v].copy.pid = v
                 /\ \A r \in Threads : req'[r].pc = "cancel" =>
                      req'[r].copy.state = "running" /\ req'[r].copy.pid \in {0, v}
        <3>1. v = w /\ worker'[v] = x
            BY <1>1, <1>5, <2>1
        <3>2. job'.state = "running" /\ job'.pid \in {0, v}
            BY <1>4, <2>1, <3>1
        <3>3. \A r \in Threads : req'[r].pc = "cancel" =>
                 req'[r].copy.state = "running" /\ req'[r].copy.pid \in {0, v}
            BY <3>1 DEF Bak!SoleCopier, Bak!Alive
        <3> QED
            BY <1>4, <3>1, <3>2, <3>3
    <2>2. \A r \in Threads : req'[r].pc = "save" =>
              req'[r].copy.state = "running" /\ req'[r].copy.pid = count'.spawned
        BY DEF Bak!SoleCopier
    <2>3. \A v \in Bak!Worker : v > count'.spawned => worker'[v] = Bak!Gone
        BY <1>1, <1>4 DEF Bak!SoleCopier, Bak!Worker
    <2> QED
        BY <1>6, <2>1, <2>2, <2>3 DEF Bak!SoleCopier, Bak!Alive, Bak!Gone
<1>8. Bak!CopiedWhole'
    <2>1. ASSUME NEW v \in Bak!Worker
          PROVE  worker'[v].pc \in {"ending", "end", "save"} /\ ~worker'[v].stop =>
                     worker'[v].rsync # "running"
        BY <1>1 DEF Bak!CopiedWhole
    <2>2. ASSUME NEW v \in Bak!Worker, worker'[v].rsync = "ok", worker'[v].op = "backup",
                 worker'[v].group \notin spoiled
          PROVE  \/ copies[worker'[v].group] = "whole"
                 \/ /\ copies[worker'[v].group] = "none"
                    /\ \A u \in Bak!Worker : worker'[u].rsync = "running" =>
                         worker'[u].group # worker'[v].group
        <3>1. /\ worker[v].rsync = "ok" /\ worker[v].op = "backup"
              /\ worker[v].group = worker'[v].group
            BY <1>1, <2>2
        <3>2. v = w
            <4>1. worker[v].pc # "gone"
                BY <3>1, WorkerShape
            <4> QED
                BY <4>1, OnlyOneAlive
        <3>3. \A u \in Bak!Worker : worker'[u].rsync = "running" =>
                 worker[u].rsync = "running" /\ worker'[u].group = worker[u].group
            BY <1>1, <3>1, <3>2
        <3> QED
            BY <2>2, <3>1, <3>3 DEF Bak!CopiedWhole
    <2> QED
        BY <2>1, <2>2 DEF Bak!CopiedWhole
<1>9. Bak!ManifestHonest'
    BY DEF Bak!ManifestHonest
<1> QED
    BY <1>2, <1>3, <1>7, <1>8, <1>9 DEF Bak!IInv

\* What the edits of a job leave.
LEMMA JobEdits ==
    ASSUME NEW c \in Bak!Jobs
    PROVE  /\ \A w \in 0..BackupWorkers :
                /\ [c EXCEPT !.pid = w] \in Bak!Jobs
                /\ [c EXCEPT !.pid = w].state = c.state /\ [c EXCEPT !.pid = w].pid = w
                /\ [c EXCEPT !.state = "error", !.pid = w] \in Bak!Jobs
           /\ [c EXCEPT !.cancel = TRUE] \in Bak!Jobs
           /\ [c EXCEPT !.cancel = TRUE].state = c.state
           /\ [c EXCEPT !.cancel = TRUE].pid = c.pid
           /\ \A how \in {"done", "error", "cancelled"}, flag \in BOOLEAN :
                [c EXCEPT !.state = how, !.cancel = flag] \in Bak!Jobs
BY DEF Bak!Jobs

\* The actions of cli_llama_backup.
LEMMA BackupWorkers1 ==
    ASSUME Bak!IInv, NEW w \in Bak!Worker,
           \/ Bak!WLoad(w) \/ Bak!WClaim(w) \/ Bak!WPopen(w) \/ Bak!WNoRsync(w) \/ Bak!WHandler(w)
    PROVE  Bak!IInv'
<1> USE BackupBounds, BackupTypes
<1>0. worker[w] \in Bak!WorkerType
    OBVIOUS
<1>1. CASE Bak!WLoad(w)
    <2>1. CASE job.state = "running"
        <3> DEFINE x == [pc |-> "claim", rsync |-> "none", stop |-> FALSE,
                         op |-> job.op, group |-> job.group, copy |-> job]
        <3>1. job \in Bak!Jobs
            BY <2>1 DEF Bak!NoJob
        <3>2. x \in Bak!WorkerType
            BY <3>1 DEF Bak!WorkerType, Bak!Jobs
        <3>3. worker' = [worker EXCEPT ![w] = x] /\ worker[w].pc = "start"
            BY <1>1, <2>1 DEF Bak!WLoad
        <3>4. UNCHANGED <<job, held, req, models, copies, manifest, up, count, spoiled>>
            BY <1>1 DEF Bak!WLoad
        <3>5. x.pc = "claim" /\ x.copy.state = "running" /\ x.rsync = "none"
            BY <2>1
        <3> HIDE DEF x
        <3> QED
            BY <3>2, <3>3, <3>4, <3>5, BackupWorkerStep
    <2>2. CASE job.state # "running"
        <3>1. Bak!Gone \in Bak!WorkerType /\ Bak!Gone.pc = "gone" /\ Bak!Gone.rsync = "none"
            BY DEF Bak!Gone, Bak!WorkerType
        <3>2. worker' = [worker EXCEPT ![w] = Bak!Gone] /\ worker[w].pc = "start"
            BY <1>1, <2>2 DEF Bak!WLoad
        <3>3. UNCHANGED <<job, held, req, models, copies, manifest, up, count, spoiled>>
            BY <1>1 DEF Bak!WLoad
        <3> QED
            BY <3>1, <3>2, <3>3, BackupWorkerStep
    <2> QED
        BY <2>1, <2>2
<1>2. CASE Bak!WClaim(w)
    <2> DEFINE x == [worker[w] EXCEPT !.pc = "popen"]
    <2>1. /\ worker[w].pc = "claim" /\ worker' = [worker EXCEPT ![w] = x]
          /\ job' = [worker[w].copy EXCEPT !.pid = w]
          /\ UNCHANGED <<held, req, models, copies, manifest, up, count, spoiled>>
        BY <1>2 DEF Bak!WClaim
    <2>2. worker[w] \in [pc : {"claim", "popen"}, rsync : {"none"}, stop : {FALSE},
                         op : {"backup", "restore"}, group : Groups, copy : Bak!Jobs]
        BY <2>1, <1>0, WorkerShape
    <2>3. worker[w].copy.state = "running"
        BY <2>1 DEF Bak!SoleCopier, Bak!Alive
    <2>4. job' \in Bak!Jobs /\ job'.state = "running" /\ job'.pid = w
        <3>1. worker[w].copy \in Bak!Jobs /\ w \in 0..BackupWorkers
            BY <2>2 DEF Bak!Worker
        <3> QED
            BY <2>1, <2>3, <3>1, JobEdits
    <2>5. x \in Bak!WorkerType /\ x.pc = "popen" /\ x.rsync = "none" /\ x.copy.state = "running"
        BY <2>2, <2>3 DEF Bak!WorkerType
    <2> HIDE DEF x
    <2> QED
        BY <2>1, <2>4, <2>5, BackupWorkerStep
<1>3. CASE Bak!WPopen(w)
    <2> DEFINE x == [worker[w] EXCEPT !.pc = "handler", !.rsync = "running", !.copy = Nil]
    <2>1. /\ worker[w].pc = "popen" /\ worker' = [worker EXCEPT ![w] = x]
          /\ UNCHANGED <<job, held, req, models, copies, manifest, up, count, spoiled>>
        BY <1>3 DEF Bak!WPopen
    <2>2. worker[w] \in [pc : {"claim", "popen"}, rsync : {"none"}, stop : {FALSE},
                         op : {"backup", "restore"}, group : Groups, copy : Bak!Jobs]
        BY <2>1, <1>0, WorkerShape
    <2>3. /\ x \in Bak!WorkerType /\ x.pc = "handler" /\ x.rsync = "running" /\ x.copy = Nil
          /\ worker[w].rsync # "ok"
        BY <2>2 DEF Bak!WorkerType
    <2> HIDE DEF x
    <2> QED
        BY <2>1, <2>3, BackupWorkerStep
<1>4. CASE Bak!WNoRsync(w)
    <2>1. /\ worker[w].pc = "popen" /\ worker' = [worker EXCEPT ![w] = Bak!Gone]
          /\ job' = [worker[w].copy EXCEPT !.state = "error", !.pid = w]
          /\ UNCHANGED <<held, req, models, copies, manifest, up, count, spoiled>>
        BY <1>4 DEF Bak!WNoRsync
    <2>2. worker[w].copy \in Bak!Jobs
        BY <2>1, <1>0, WorkerShape
    <2>3. job' \in Bak!Jobs
        <3>1. w \in 0..BackupWorkers
            BY DEF Bak!Worker
        <3> QED
            BY <2>1, <2>2, <3>1, JobEdits
    <2>4. Bak!Gone \in Bak!WorkerType /\ Bak!Gone.pc = "gone" /\ Bak!Gone.rsync = "none"
        BY DEF Bak!Gone, Bak!WorkerType
    <2> QED
        BY <2>1, <2>3, <2>4, BackupWorkerStep
<1>5. CASE Bak!WHandler(w)
    <2> DEFINE x == [worker[w] EXCEPT !.pc = "copying"]
    <2>1. /\ worker[w].pc = "handler" /\ worker' = [worker EXCEPT ![w] = x]
          /\ UNCHANGED <<job, held, req, models, copies, manifest, up, count, spoiled>>
        BY <1>5 DEF Bak!WHandler
    <2>2. worker[w] \in [pc : {"handler", "copying", "ending", "end", "save"},
                         rsync : {"running", "ok", "failed"}, stop : BOOLEAN,
                         op : {"backup", "restore"}, group : Groups, copy : Bak!Jobs \cup {Nil}]
        BY <2>1, <1>0, WorkerShape
    <2>3. /\ x \in Bak!WorkerType /\ x.pc = "copying" /\ x.rsync = worker[w].rsync
          /\ x.op = worker[w].op /\ x.group = worker[w].group /\ x.copy = worker[w].copy
        BY <2>2 DEF Bak!WorkerType
    <2>4. x.copy # Nil => x.copy.state = "running" /\ x.copy.pid = w
        BY <2>1, <2>3 DEF Bak!SoleCopier, Bak!Alive
    <2> HIDE DEF x
    <2> QED
        BY <2>1, <2>3, <2>4, BackupWorkerStep
<1> QED
    BY <1>1, <1>2, <1>3, <1>4, <1>5

LEMMA BackupWorkers2 ==
    ASSUME Bak!IInv, NEW w \in Bak!Worker,
           \/ Bak!WPoll(w) \/ Bak!WProgress(w) \/ Bak!WPollsOut(w) \/ Bak!WEndLoad(w)
           \/ Bak!WManifest(w) \/ Bak!WEndSave(w) \/ Bak!Killed(w)
    PROVE  Bak!IInv'
<1> USE BackupBounds, BackupTypes
<1> DEFINE Late == [pc : {"handler", "copying", "ending", "end", "save"},
                    rsync : {"running", "ok", "failed"}, stop : BOOLEAN,
                    op : {"backup", "restore"}, group : Groups, copy : Bak!Jobs \cup {Nil}]
<1>0. /\ worker[w] \in Bak!WorkerType /\ Late \subseteq Bak!WorkerType
      /\ worker[w].pc \in {"copying", "ending", "end", "save"} => worker[w] \in Late
      /\ w \in 0..BackupWorkers
    <2>1. worker[w] \in Bak!WorkerType /\ w \in 0..BackupWorkers
        BY DEF Bak!Worker
    <2>2. Late \subseteq Bak!WorkerType
        BY DEF Bak!WorkerType
    <2>3. worker[w].pc \in {"copying", "ending", "end", "save"} => worker[w] \in Late
        BY <2>1, WorkerShape
    <2> QED
        BY <2>1, <2>2, <2>3
<1>a. worker[w].pc # "gone" => job \in Bak!Jobs /\ job.state = "running"
    BY DEF Bak!SoleCopier, Bak!Alive, Bak!NoJob
<1>1. CASE Bak!WPoll(w)
    <2>0. /\ worker[w].pc = "copying" /\ worker[w].rsync = "running" /\ worker[w] \in Late
          /\ UNCHANGED <<job, held, req, models, copies, manifest, up, count, spoiled>>
        BY <1>0, <1>1 DEF Bak!WPoll
    <2>1. CASE job.group # worker[w].group \/ job.cancel
        <3> DEFINE x == [worker[w] EXCEPT !.stop = TRUE, !.pc = "ending"]
        <3>1. worker' = [worker EXCEPT ![w] = x]
            BY <1>1, <2>1 DEF Bak!WPoll
        <3>2. /\ x \in Late /\ x.pc = "ending" /\ x.stop /\ x.rsync = "running"
              /\ x.group = worker[w].group
            BY <2>0
        <3> HIDE DEF x, Late
        <3> QED
            BY <1>0, <2>0, <3>1, <3>2, BackupWorkerStep
    <2>2. CASE ~(job.group # worker[w].group \/ job.cancel)
        <3> DEFINE c == [job EXCEPT !.pid = w]
                   x == [worker[w] EXCEPT !.copy = c]
        <3>1. worker' = [worker EXCEPT ![w] = x]
            BY <1>1, <2>2 DEF Bak!WPoll
        <3>2. c \in Bak!Jobs /\ c.state = "running" /\ c.pid = w
            BY <1>0, <1>a, <2>0, JobEdits
        <3> HIDE DEF c
        <3>3. /\ x \in Late /\ x.pc = "copying" /\ x.rsync = "running"
              /\ x.group = worker[w].group /\ x.copy = c
            BY <2>0, <3>2
        <3> HIDE DEF x, Late
        <3> QED
            BY <1>0, <2>0, <3>1, <3>2, <3>3, BackupWorkerStep
    <2> QED
        BY <2>1, <2>2
<1>2. CASE Bak!WProgress(w)
    <2> DEFINE x == [worker[w] EXCEPT !.copy = Nil]
    <2>1. /\ worker[w].pc = "copying" /\ worker[w] \in Late /\ worker[w].copy # Nil
          /\ job' = worker[w].copy /\ worker' = [worker EXCEPT ![w] = x]
          /\ UNCHANGED <<held, req, models, copies, manifest, up, count, spoiled>>
        BY <1>0, <1>2 DEF Bak!WProgress
    <2>2. job' \in Bak!Jobs /\ job'.state = "running" /\ job'.pid = w
        BY <2>1 DEF Bak!SoleCopier, Bak!Alive
    <2>3. /\ x \in Late /\ x.pc = "copying" /\ x.rsync = worker[w].rsync /\ x.copy = Nil
          /\ x.op = worker[w].op /\ x.group = worker[w].group
        BY <2>1
    <2> HIDE DEF x, Late
    <2> QED
        BY <1>0, <2>1, <2>2, <2>3, BackupWorkerStep
<1>3. CASE Bak!WPollsOut(w)
    <2> DEFINE x == [worker[w] EXCEPT !.pc = "ending"]
    <2>1. /\ worker[w].pc = "copying" /\ worker[w] \in Late
          /\ worker[w].rsync \in {"ok", "failed"} /\ worker' = [worker EXCEPT ![w] = x]
          /\ UNCHANGED <<job, held, req, models, copies, manifest, up, count, spoiled>>
        BY <1>0, <1>3 DEF Bak!WPollsOut
    <2>2. /\ x \in Late /\ x.pc = "ending" /\ x.rsync = worker[w].rsync
          /\ x.op = worker[w].op /\ x.group = worker[w].group
        BY <2>1
    <2> HIDE DEF x, Late
    <2> QED
        BY <1>0, <2>1, <2>2, BackupWorkerStep
<1>4. ASSUME worker[w].pc # "gone", worker' = [worker EXCEPT ![w] = Bak!Exited(@)],
             UNCHANGED <<held, req, models, copies, manifest, up, spoiled>>,
             job' = job \/ job' \in Bak!Jobs,
             count' \in [spawned : 0..BackupWorkers, faults : 0..BackupFaults],
             count'.spawned = count.spawned
      PROVE  Bak!IInv'
    <2> DEFINE x == Bak!Exited(worker[w])
    <2>1. /\ x \in Bak!WorkerType /\ x.pc = "gone" /\ x.rsync # "ok"
          /\ x.rsync = "running" => worker[w].rsync = "running" /\ x.group = worker[w].group
        BY <1>0, <1>4, ExitedWorker
    <2>2. worker' = [worker EXCEPT ![w] = x]
        BY <1>4
    <2> HIDE DEF x
    <2> QED
        BY <1>4, <2>1, <2>2, BackupWorkerStep
<1>5. CASE Bak!WEndLoad(w)
    <2>0. /\ worker[w].pc = "ending" /\ worker[w] \in Late
          /\ UNCHANGED <<job, held, req, models, copies, manifest, up, count, spoiled>>
        BY <1>0, <1>5 DEF Bak!WEndLoad
    <2>1. CASE job.group = worker[w].group
        <3> DEFINE x == [worker[w] EXCEPT !.pc = "end", !.copy = job]
        <3>1. worker' = [worker EXCEPT ![w] = x]
            BY <1>5, <2>1 DEF Bak!WEndLoad
        <3>2. job \in Bak!Jobs /\ (worker[w].stop \/ worker[w].rsync # "running")
            BY <1>5, <1>a, <2>0 DEF Bak!WEndLoad
        <3>3. /\ x \in Late /\ x.pc = "end" /\ x.rsync = worker[w].rsync
              /\ x.op = worker[w].op /\ x.group = worker[w].group
              /\ x.stop = worker[w].stop /\ x.copy \in Bak!Jobs
            BY <2>0, <3>2
        <3> HIDE DEF x, Late
        <3> QED
            BY <1>0, <2>0, <3>1, <3>2, <3>3, BackupWorkerStep
    <2>2. CASE job.group # worker[w].group
        <3>1. worker' = [worker EXCEPT ![w] = Bak!Exited(@)]
            BY <1>5, <2>2 DEF Bak!WEndLoad
        <3> QED
            BY <1>4, <2>0, <3>1
    <2> QED
        BY <2>1, <2>2
<1>6. CASE Bak!WManifest(w)
    <2> DEFINE x == [worker[w] EXCEPT !.pc = "save"]
    <2>1. /\ worker[w].pc = "end" /\ worker[w] \in Late /\ worker' = [worker EXCEPT ![w] = x]
          /\ UNCHANGED <<job, held, req, models, copies, up, count, spoiled>>
        BY <1>0, <1>6 DEF Bak!WManifest
    <2>2. /\ x \in Late /\ x.pc = "save" /\ x.rsync = worker[w].rsync
          /\ x.op = worker[w].op /\ x.group = worker[w].group
          /\ x.stop = worker[w].stop /\ x.copy = worker[w].copy
        BY <2>1
    <2>3. /\ worker[w].copy \in Bak!Jobs
          /\ ~worker[w].stop => worker[w].rsync # "running"
        BY <2>1 DEF Bak!LockInv, Bak!CopiedWhole
    <2>4. /\ manifest' \subseteq Groups
          /\ \A g \in manifest' \ manifest : g \in spoiled \/ copies[g] = "whole"
        <3>1. CASE /\ worker[w].op = "backup" /\ Bak!Outcome(w) = "done"
                   /\ copies[worker[w].group] # "none"
            <4>1. manifest' = manifest \cup {worker[w].group} /\ worker[w].group \in Groups
                BY <1>6, <2>1, <3>1 DEF Bak!WManifest
            <4>2. worker[w].rsync = "ok"
                BY <2>1, <2>3, <3>1 DEF Bak!Outcome
            <4> QED
                BY <3>1, <4>1, <4>2 DEF Bak!CopiedWhole
        <3>2. CASE ~(/\ worker[w].op = "backup" /\ Bak!Outcome(w) = "done"
                     /\ copies[worker[w].group] # "none")
            BY <1>6, <3>2 DEF Bak!WManifest
        <3> QED
            BY <3>1, <3>2
    <2> HIDE DEF x, Late
    <2> QED
        BY <1>0, <2>1, <2>2, <2>3, <2>4, BackupWorkerStep
<1>7. CASE Bak!WEndSave(w)
    <2>1. /\ worker[w].pc = "save" /\ worker' = [worker EXCEPT ![w] = Bak!Exited(@)]
          /\ UNCHANGED <<held, req, models, copies, manifest, up, count, spoiled>>
        BY <1>7 DEF Bak!WEndSave
    <2>2. job' \in Bak!Jobs
        <3>1. worker[w].copy \in Bak!Jobs /\ worker[w].copy.cancel \in BOOLEAN
            BY <2>1 DEF Bak!LockInv, Bak!Jobs
        <3>2. Bak!Outcome(w) \in {"done", "error", "cancelled"}
            BY DEF Bak!Outcome
        <3>3. (worker[w].copy.cancel /\ ~worker[w].stop) \in BOOLEAN
            OBVIOUS
        <3>4. job' = [worker[w].copy EXCEPT !.state = Bak!Outcome(w),
                                            !.cancel = worker[w].copy.cancel /\ ~worker[w].stop]
            BY <1>7 DEF Bak!WEndSave
        <3> QED
            BY <1>0, <3>1, <3>2, <3>3, <3>4, JobEdits
    <2> QED
        BY <1>4, <2>1, <2>2
<1>8. CASE Bak!Killed(w)
    <2>1. /\ worker[w].pc # "gone" /\ worker' = [worker EXCEPT ![w] = Bak!Exited(@)]
          /\ UNCHANGED <<job, held, req, models, copies, manifest, up, spoiled>>
        BY <1>8 DEF Bak!Killed, Bak!Alive
    <2>2. /\ count' \in [spawned : 0..BackupWorkers, faults : 0..BackupFaults]
          /\ count'.spawned = count.spawned
        BY <1>8 DEF Bak!Killed
    <2> QED
        BY <1>4, <2>1, <2>2
<1> QED
    BY <1>1, <1>2, <1>3, <1>5, <1>6, <1>7, <1>8

\* What a step of request r, which becomes x and spawns nothing, needs to do and not to do.
LEMMA BackupRequestStep ==
    ASSUME Bak!IInv, NEW r \in Threads, NEW x \in Bak!ReqType, req' = [req EXCEPT ![r] = x],
           UNCHANGED <<worker, models, copies, manifest, up, count, spoiled>>,
           \/ job' = job
           \/ /\ job' \in Bak!Jobs /\ held \in {Nil, r}
              /\ \A w \in Bak!Worker : worker[w].pc # "gone" =>
                   job'.state = "running" /\ job'.pid \in {0, w},
           held' = held \/ (held \in {Nil, r} /\ held' \in {Nil, r}),
           x.pc \in {"spawn", "save", "cancel"} <=> held' = r,
           x.pc # "save",
           x.pc = "spawn" => /\ count.spawned < BackupWorkers
                             /\ \A w \in Bak!Worker : worker[w].pc = "gone"
                             /\ job'.state = "running" /\ job'.pid = 0
                             /\ x.copy.state = "running",
           x.pc = "cancel" => /\ x.copy.state = "running"
                              /\ \A w \in Bak!Worker : worker[w].pc # "gone" => x.copy.pid \in {0, w}
    PROVE  Bak!IInv'
<1> USE BackupBounds, BackupTypes
<1>1. /\ req'[r] = x /\ \A o \in Threads \ {r} : req'[o] = req[o]
      /\ req' \in [Threads -> Bak!ReqType]
    OBVIOUS
<1>2. Bak!TypeOK'
    BY <1>1 DEF Bak!TypeOK
<1>3. Bak!LockInv'
    <2>1. ASSUME NEW o \in Threads
          PROVE  req'[o].pc \in Bak!Locked <=> held' = o
        BY <1>1 DEF Bak!LockInv, Bak!Locked
    <2>2. ASSUME NEW o \in Threads, req'[o].pc = "spawn"
          PROVE  count'.spawned < BackupWorkers
        BY <1>1, <2>2 DEF Bak!LockInv
    <2>3. \A w \in Bak!Worker : worker'[w].pc \in {"end", "save"} => worker'[w].copy \in Bak!Jobs
        BY DEF Bak!LockInv
    <2> QED
        BY <2>1, <2>2, <2>3 DEF Bak!LockInv
<1>4. Bak!SoleCopier'
    <2>1. ASSUME NEW w \in Bak!Worker, worker'[w].pc # "gone"
          PROVE  /\ w = count'.spawned
                 /\ job'.state = "running" /\ job'.pid \in {0, w}
                 /\ worker'[w].pc \in {"claim", "popen"} => worker'[w].copy.state = "running"
                 /\ worker'[w].pc \in {"handler", "copying"} /\ worker'[w].copy # Nil =>
                      worker'[w].copy.state = "running" /\ worker'[w].copy.pid = w
        BY <2>1 DEF Bak!SoleCopier, Bak!Alive
    <2>2. ASSUME NEW w \in Bak!Worker, worker'[w].pc # "gone",
                 NEW o \in Threads, req'[o].pc = "cancel"
          PROVE  req'[o].copy.state = "running" /\ req'[o].copy.pid \in {0, w}
        BY <1>1, <2>2 DEF Bak!SoleCopier, Bak!Alive
    <2>3. ASSUME NEW o \in Threads, req'[o].pc = "spawn"
          PROVE  /\ \A w \in Bak!Worker : worker'[w].pc = "gone"
                 /\ job'.state = "running" /\ job'.pid = 0
                 /\ req'[o].copy.state = "running"
        <3>1. CASE o = r
            BY <1>1, <2>3, <3>1
        <3>2. CASE o # r
            <4>1. req'[o] = req[o] /\ held = o
                BY <1>1, <2>3, <3>2 DEF Bak!LockInv, Bak!Locked
            <4>2. job' = job
                BY <3>2, <4>1
            <4> QED
                BY <2>3, <4>1, <4>2 DEF Bak!SoleCopier, Bak!Alive
        <3> QED
            BY <3>1, <3>2
    <2>4. ASSUME NEW o \in Threads, req'[o].pc = "save"
          PROVE  req'[o].copy.state = "running" /\ req'[o].copy.pid = count'.spawned
        BY <1>1, <2>4 DEF Bak!SoleCopier
    <2>5. \A w \in Bak!Worker : w > count'.spawned => worker'[w] = Bak!Gone
        BY DEF Bak!SoleCopier
    <2> QED
        BY <2>1, <2>2, <2>3, <2>4, <2>5 DEF Bak!SoleCopier, Bak!Alive, Bak!Gone
<1>5. Bak!CopiedWhole' /\ Bak!ManifestHonest'
    BY DEF Bak!CopiedWhole, Bak!ManifestHonest
<1> QED
    BY <1>2, <1>3, <1>4, <1>5 DEF Bak!IInv

LEMMA RequestShape ==
    ASSUME NEW x \in Bak!ReqType
    PROVE  /\ x.pc = "checked" => x.op \in {"backup", "restore"} /\ x.group \in Groups
           /\ x.pc \in {"spawn", "save", "cancel"} =>
                x \in [pc : {"spawn", "save", "cancel"}, copy : Bak!Jobs]
           /\ x.pc = "signal" => x.pid \in 0..BackupWorkers
           /\ x.pc = "delete" => x.group \in Groups
BY DEF Bak!ReqType, Bak!Locked

LEMMA IdleRequest == Bak!Idle \in Bak!ReqType /\ Bak!Idle.pc = "idle"
BY DEF Bak!Idle, Bak!ReqType

\* The actions of the requests that neither spawn nor signal nor remove files.
LEMMA BackupRequests1 ==
    ASSUME Bak!IInv, NEW r \in Threads,
           \/ \E g \in Groups : \/ Bak!DeleteCheck(r, g)
                                \/ \E op \in {"backup", "restore"} : Bak!Check(r, op, g)
           \/ Bak!Start(r) \/ Bak!SaveAndLeave(r) \/ Bak!Cancel(r) \/ Bak!CancelSave(r)
    PROVE  Bak!IInv'
<1> USE BackupBounds, BackupTypes
<1>0. /\ req[r] \in Bak!ReqType
      /\ req[r].pc \in {"spawn", "save", "cancel"} <=> held = r
    BY DEF Bak!LockInv, Bak!Locked
<1>1. ASSUME NEW g \in Groups, Bak!DeleteCheck(r, g)
      PROVE  Bak!IInv'
    <2>1. PICK x \in Bak!ReqType : x.pc \notin {"spawn", "save", "cancel"} /\ req' = [req EXCEPT ![r] = x]
        BY <1>1 DEF Bak!DeleteCheck, Bak!ReqType
    <2>2. held' = held /\ held # r /\ job' = job
        BY <1>0, <1>1 DEF Bak!DeleteCheck
    <2>3. UNCHANGED <<worker, models, copies, manifest, up, count, spoiled>>
        BY <1>1 DEF Bak!DeleteCheck
    <2> QED
        BY <2>1, <2>2, <2>3, BackupRequestStep
<1>2. ASSUME NEW g \in Groups, NEW op \in {"backup", "restore"}, Bak!Check(r, op, g)
      PROVE  Bak!IInv'
    <2>1. PICK x \in Bak!ReqType : x.pc \notin {"spawn", "save", "cancel"} /\ req' = [req EXCEPT ![r] = x]
        BY <1>2 DEF Bak!Check, Bak!ReqType
    <2>2. held' = held /\ held # r /\ job' = job
        BY <1>0, <1>2 DEF Bak!Check
    <2>3. UNCHANGED <<worker, models, copies, manifest, up, count, spoiled>>
        BY <1>2 DEF Bak!Check
    <2> QED
        BY <2>1, <2>2, <2>3, BackupRequestStep
<1>3. CASE Bak!Start(r)
    <2>0. /\ req[r].pc = "checked" /\ held = Nil
          /\ UNCHANGED <<worker, models, copies, manifest, up, count, spoiled>>
        BY <1>3 DEF Bak!Start
    <2>1. CASE Bak!View = "running"
        <3>1. req' = [req EXCEPT ![r] = Bak!Idle] /\ UNCHANGED <<job, held>>
            BY <1>3, <2>1 DEF Bak!Start
        <3> QED
            BY <1>0, <2>0, <3>1, IdleRequest, BackupRequestStep
    <2>2. CASE Bak!View # "running"
        <3> DEFINE j == Bak!NewJob(req[r].op, req[r].group)
                   x == [pc |-> "spawn", copy |-> j]
        <3>1. /\ count.spawned < BackupWorkers /\ held' = r
              /\ job' = j /\ req' = [req EXCEPT ![r] = x]
            BY <1>3, <2>2 DEF Bak!Start
        <3>2. j \in Bak!Jobs /\ j.state = "running" /\ j.pid = 0
            BY <1>0, <2>0, RequestShape DEF Bak!NewJob, Bak!Jobs
        <3>3. \A w \in Bak!Worker : worker[w].pc = "gone"
            BY <2>2 DEF Bak!View, Bak!PidAlive, Bak!Alive, Bak!SoleCopier
        <3> HIDE DEF j
        <3>4. x \in Bak!ReqType /\ x.pc = "spawn" /\ x.copy = j
            BY <3>2 DEF Bak!ReqType, Bak!Locked
        <3> HIDE DEF x
        <3> QED
            BY <1>0, <2>0, <3>1, <3>2, <3>3, <3>4, BackupRequestStep
    <2> QED
        BY <2>1, <2>2
<1>4. CASE Bak!SaveAndLeave(r)
    <2>1. /\ req[r].pc = "save" /\ req' = [req EXCEPT ![r] = Bak!Idle]
          /\ job' = req[r].copy /\ held' = Nil
          /\ UNCHANGED <<worker, models, copies, manifest, up, count, spoiled>>
        BY <1>4 DEF Bak!SaveAndLeave
    <2>2. job' \in Bak!Jobs /\ job'.state = "running" /\ job'.pid = count.spawned
        BY <1>0, <2>1, RequestShape DEF Bak!SoleCopier
    <2>3. \A w \in Bak!Worker : worker[w].pc # "gone" => w = count.spawned
        BY DEF Bak!SoleCopier, Bak!Alive
    <2> QED
        BY <1>0, <2>1, <2>2, <2>3, IdleRequest, BackupRequestStep
<1>5. CASE Bak!Cancel(r)
    <2> DEFINE c == [job EXCEPT !.cancel = TRUE]
               x == [pc |-> "cancel", copy |-> c]
    <2>1. /\ req[r].pc = "idle" /\ held = Nil /\ held' = r /\ req' = [req EXCEPT ![r] = x]
          /\ UNCHANGED <<job, worker, models, copies, manifest, up, count, spoiled>>
        BY <1>5 DEF Bak!Cancel
    <2>2. job \in Bak!Jobs /\ job.state = "running"
        BY <1>5 DEF Bak!Cancel, Bak!View, Bak!NoJob
    <2>3. c \in Bak!Jobs /\ c.state = "running" /\ c.pid = job.pid
        BY <2>2, JobEdits
    <2>4. \A w \in Bak!Worker : worker[w].pc # "gone" => job.pid \in {0, w}
        BY DEF Bak!SoleCopier, Bak!Alive
    <2> HIDE DEF c
    <2>5. x \in Bak!ReqType /\ x.pc = "cancel" /\ x.copy = c
        BY <2>3 DEF Bak!ReqType, Bak!Locked
    <2> HIDE DEF x
    <2> QED
        BY <1>0, <2>1, <2>3, <2>4, <2>5, BackupRequestStep
<1>6. CASE Bak!CancelSave(r)
    <2> DEFINE x == [pc |-> "signal", pid |-> req[r].copy.pid]
    <2>1. /\ req[r].pc = "cancel" /\ job' = req[r].copy /\ held' = Nil
          /\ req' = [req EXCEPT ![r] = x]
          /\ UNCHANGED <<worker, models, copies, manifest, up, count, spoiled>>
        BY <1>6 DEF Bak!CancelSave
    <2>2. job' \in Bak!Jobs
        BY <1>0, <2>1, RequestShape
    <2>3. \A w \in Bak!Worker : worker[w].pc # "gone" => job'.state = "running" /\ job'.pid \in {0, w}
        BY <2>1 DEF Bak!SoleCopier, Bak!Alive
    <2>4. x \in Bak!ReqType /\ x.pc = "signal"
        BY <2>1, <2>2 DEF Bak!ReqType, Bak!Jobs
    <2> HIDE DEF x
    <2> QED
        BY <1>0, <2>1, <2>2, <2>3, <2>4, BackupRequestStep
<1> QED
    BY <1>1, <1>2, <1>3, <1>4, <1>5, <1>6

\* The service stops: nobody is left.
LEMMA BackupStops ==
    ASSUME Bak!IInv, Bak!ServiceStops, UNCHANGED <<job, models, copies, manifest, spoiled>>,
           count' \in [spawned : 0..BackupWorkers, faults : 0..BackupFaults]
    PROVE  Bak!IInv'
<1> USE BackupBounds, BackupTypes
<1>1. /\ worker' \in [Bak!Worker -> Bak!WorkerType]
      /\ \A w \in Bak!Worker : worker'[w].pc = "gone" /\ worker'[w].rsync = "none"
    BY DEF Bak!ServiceStops, Bak!Gone, Bak!WorkerType
<1>1a. \A w \in Bak!Worker : worker'[w] = Bak!Gone
    BY DEF Bak!ServiceStops
<1>2. /\ req' \in [Threads -> Bak!ReqType]
      /\ \A r \in Threads : req'[r].pc = "idle"
    BY DEF Bak!ServiceStops, Bak!Idle, Bak!ReqType
<1>3. held' = Nil /\ up' = FALSE
    BY DEF Bak!ServiceStops
<1>4. Bak!TypeOK'
    BY <1>1, <1>2, <1>3 DEF Bak!TypeOK
<1>5. Bak!LockInv'
    BY <1>1, <1>2, <1>3 DEF Bak!LockInv, Bak!Locked
<1>6. Bak!SoleCopier'
    BY <1>1, <1>2, <1>1a DEF Bak!SoleCopier, Bak!Alive
<1>7. Bak!CopiedWhole' /\ Bak!ManifestHonest'
    BY <1>1 DEF Bak!CopiedWhole, Bak!ManifestHonest
<1> QED
    BY <1>4, <1>5, <1>6, <1>7 DEF Bak!IInv

LEMMA NewWorker ==
    /\ [Bak!Gone EXCEPT !.pc = "start"] \in Bak!WorkerType
    /\ [Bak!Gone EXCEPT !.pc = "start"].pc = "start"
    /\ [Bak!Gone EXCEPT !.pc = "start"].rsync = "none"
<1> DEFINE R == [pc : {"gone", "start"}, rsync : {"none"}, stop : {FALSE}]
<1>1. Bak!Gone \in R
    BY DEF Bak!Gone
<1>2. /\ [Bak!Gone EXCEPT !.pc = "start"] \in R
      /\ [Bak!Gone EXCEPT !.pc = "start"].pc = "start"
      /\ [Bak!Gone EXCEPT !.pc = "start"].rsync = "none"
    BY <1>1
<1> QED
    BY <1>2 DEF Bak!WorkerType

LEMMA BackupSpawn ==
    ASSUME Bak!IInv, NEW r \in Threads, Bak!Spawn(r)
    PROVE  Bak!IInv'
<1> USE BackupBounds, BackupTypes
<1> DEFINE w == count.spawned + 1
           n == [worker[w] EXCEPT !.pc = "start"]
           c == [req[r].copy EXCEPT !.pid = w]
           x == [pc |-> "save", copy |-> c]
<1>1. /\ req[r].pc = "spawn"
      /\ count' = [count EXCEPT !.spawned = w]
      /\ worker' = [worker EXCEPT ![w] = n]
      /\ req' = [req EXCEPT ![r] = x]
      /\ UNCHANGED <<job, held, models, copies, manifest, up, spoiled>>
    BY DEF Bak!Spawn
<1>2. /\ held = r /\ w \in Bak!Worker /\ w \in 0..BackupWorkers
      /\ \A v \in Bak!Worker : worker[v].pc = "gone"
      /\ job.state = "running" /\ job.pid = 0 /\ req[r].copy.state = "running"
      /\ \A o \in Threads \ {r} : req[o].pc \notin {"spawn", "save", "cancel"}
      /\ w > count.spawned /\ w # 0 /\ w \in Nat
    BY <1>1 DEF Bak!LockInv, Bak!SoleCopier, Bak!Alive, Bak!Locked, Bak!Worker
<1>2a. \A v \in Bak!Worker : v > w => v > count.spawned
    BY DEF Bak!Worker
<1> HIDE DEF w
<1>3. c \in Bak!Jobs /\ c.state = "running" /\ c.pid = w
    <2>1. req[r].copy \in Bak!Jobs
        BY <1>1, RequestShape
    <2> QED
        BY ONLY <1>2, <2>1, JobEdits
<1>4. n \in Bak!WorkerType /\ n.pc = "start" /\ n.rsync = "none"
    <2>1. worker[w] = Bak!Gone
        BY <1>2 DEF Bak!SoleCopier
    <2> QED
        BY ONLY <2>1, NewWorker
<1>5. x \in Bak!ReqType /\ x.pc = "save" /\ x.copy = c
    BY <1>3 DEF Bak!ReqType, Bak!Locked
<1>6. count' \in [spawned : 0..BackupWorkers, faults : 0..BackupFaults] /\ count'.spawned = w
    BY <1>1, <1>2
<1> HIDE DEF n, c, x
<1>7. /\ worker' \in [Bak!Worker -> Bak!WorkerType]
      /\ worker'[w] = n /\ \A v \in Bak!Worker \ {w} : worker'[v] = worker[v]
    BY <1>1, <1>2, <1>4
<1>8. /\ req' \in [Threads -> Bak!ReqType]
      /\ req'[r] = x /\ \A o \in Threads \ {r} : req'[o] = req[o]
    BY <1>1, <1>5
<1>8a. \A v \in Bak!Worker : v > w => worker'[v] = Bak!Gone
    BY <1>2a, <1>7 DEF Bak!SoleCopier, Bak!Worker
<1>9. Bak!TypeOK'
    BY <1>1, <1>6, <1>7, <1>8 DEF Bak!TypeOK
<1>10. Bak!LockInv'
    BY <1>1, <1>2, <1>4, <1>5, <1>7, <1>8 DEF Bak!LockInv, Bak!Locked
<1>11. Bak!SoleCopier'
    BY <1>1, <1>2, <1>3, <1>4, <1>5, <1>6, <1>7, <1>8, <1>8a DEF Bak!SoleCopier, Bak!Alive
<1>12. Bak!CopiedWhole' /\ Bak!ManifestHonest'
    BY <1>1, <1>4, <1>7 DEF Bak!CopiedWhole, Bak!ManifestHonest
<1> QED
    BY <1>9, <1>10, <1>11, <1>12 DEF Bak!IInv

LEMMA BackupSignal ==
    ASSUME Bak!IInv, NEW r \in Threads, Bak!Signal(r)
    PROVE  Bak!IInv'
<1> USE BackupBounds, BackupTypes
<1> DEFINE p == req[r].pid
<1>0. /\ req[r].pc = "signal" /\ p \in 0..BackupWorkers
      /\ UNCHANGED <<job, models, copies, manifest, count, spoiled>>
    BY RequestShape DEF Bak!Signal
<1>1. CASE p = 0
    BY <1>0, <1>1, BackupStops DEF Bak!Signal
<1>2. CASE p # 0
    <2>1. /\ worker' = [worker EXCEPT ![p] = IF Bak!Alive(p) THEN Bak!Signalled(@) ELSE @]
          /\ req' = [req EXCEPT ![r] = Bak!Idle]
          /\ UNCHANGED <<held, up>>
        BY <1>2 DEF Bak!Signal
    <2>2. p \in Bak!Worker
        BY <1>0, <1>2 DEF Bak!Worker
    <2> HIDE DEF p
    \* It is a step of the request, beside one of the worker.
    <2> DEFINE x == IF Bak!Alive(p) THEN Bak!Signalled(worker[p]) ELSE worker[p]
    <2>3. /\ x \in Bak!WorkerType
          /\ x.pc \in {"gone", worker[p].pc} /\ (worker[p].pc = "gone" => x = worker[p])
          /\ x.pc # "gone" => /\ x.pc \in {"copying", "ending"}
                              /\ x.stop /\ x.rsync = worker[p].rsync /\ x.copy = worker[p].copy
          /\ x.rsync \in {"running", "ok"} =>
                /\ worker[p].rsync = x.rsync
                /\ x.group = worker[p].group /\ x.op = worker[p].op
        <3>1. CASE worker[p].pc = "gone"
            BY <2>2, <3>1 DEF Bak!Alive
        <3>2. CASE worker[p].pc \in {"copying", "ending"}
            <4> DEFINE late == [pc : {"handler", "copying", "ending", "end", "save"},
                                rsync : {"running", "ok", "failed"}, stop : BOOLEAN,
                                op : {"backup", "restore"}, group : Groups,
                                copy : Bak!Jobs \cup {Nil}]
            <4>1. worker[p] \in late /\ late \subseteq Bak!WorkerType
                BY <2>2, <3>2, WorkerShape DEF Bak!WorkerType
            <4>2. x = [worker[p] EXCEPT !.stop = TRUE]
                BY <3>2 DEF Bak!Signalled, Bak!Alive
            <4>3. /\ x \in late /\ x.pc = worker[p].pc /\ x.stop /\ x.rsync = worker[p].rsync
                  /\ x.copy = worker[p].copy /\ x.group = worker[p].group /\ x.op = worker[p].op
                BY <4>1, <4>2
            <4> HIDE DEF late, x
            <4> QED
                BY <3>2, <4>1, <4>3
        <3>3. CASE worker[p].pc \notin {"gone", "copying", "ending"}
            <4>1. x = Bak!Exited(worker[p])
                BY <3>3 DEF Bak!Signalled, Bak!Alive
            <4> HIDE DEF x
            <4> QED
                BY <2>2, <3>3, <4>1, ExitedWorker
        <3> QED
            BY <3>1, <3>2, <3>3
    <2>4. worker' = [worker EXCEPT ![p] = x]
        BY <2>1
    <2> HIDE DEF x
    <2>5. /\ worker' \in [Bak!Worker -> Bak!WorkerType]
          /\ worker'[p] = x /\ \A v \in Bak!Worker \ {p} : worker'[v] = worker[v]
        BY <2>2, <2>3, <2>4
    <2>6. /\ req' \in [Threads -> Bak!ReqType]
          /\ req'[r].pc = "idle" /\ \A o \in Threads \ {r} : req'[o] = req[o]
        BY <2>1, IdleRequest
    <2>7. Bak!TypeOK'
        BY <1>0, <2>1, <2>5, <2>6 DEF Bak!TypeOK
    <2>8. Bak!LockInv'
        <3>1. \A w \in Bak!Worker : worker'[w].pc \in {"end", "save"} => worker'[w].copy \in Bak!Jobs
            BY <2>3, <2>5 DEF Bak!LockInv
        <3>2. \A o \in Threads : req'[o].pc \in Bak!Locked <=> held' = o
            BY <1>0, <2>1, <2>6 DEF Bak!LockInv, Bak!Locked
        <3>3. \A o \in Threads : req'[o].pc = "spawn" => count'.spawned < BackupWorkers
            BY <1>0, <2>6 DEF Bak!LockInv
        <3> QED
            BY <3>1, <3>2, <3>3 DEF Bak!LockInv
    <2>9. Bak!SoleCopier'
        <3>1. ASSUME NEW w \in Bak!Worker, worker'[w].pc # "gone"
              PROVE  /\ worker[w].pc = worker'[w].pc
                     /\ worker'[w] = worker[w] \/ worker'[w].pc \in {"copying", "ending"}
                     /\ worker[w].pc # "gone"
                     /\ worker'[w].pc = "copying" => worker'[w].copy = worker[w].copy
            BY <2>3, <2>5, <3>1
        <3>2. ASSUME NEW w \in Bak!Worker, worker'[w].pc # "gone"
              PROVE  /\ w = count'.spawned
                     /\ job'.state = "running" /\ job'.pid \in {0, w}
                     /\ worker'[w].pc \in {"claim", "popen"} => worker'[w].copy.state = "running"
                     /\ worker'[w].pc \in {"handler", "copying"} /\ worker'[w].copy # Nil =>
                          worker'[w].copy.state = "running" /\ worker'[w].copy.pid = w
            BY <1>0, <3>1, <3>2 DEF Bak!SoleCopier, Bak!Alive
        <3>3. ASSUME NEW w \in Bak!Worker, worker'[w].pc # "gone",
                     NEW o \in Threads, req'[o].pc = "cancel"
              PROVE  req'[o].copy.state = "running" /\ req'[o].copy.pid \in {0, w}
            BY <2>6, <3>1, <3>3 DEF Bak!SoleCopier, Bak!Alive
        <3>4. ASSUME NEW o \in Threads, req'[o].pc = "spawn"
              PROVE  /\ \A w \in Bak!Worker : worker'[w].pc = "gone"
                     /\ job'.state = "running" /\ job'.pid = 0
                     /\ req'[o].copy.state = "running"
            BY <1>0, <2>6, <3>1, <3>4 DEF Bak!SoleCopier, Bak!Alive
        <3>5. ASSUME NEW o \in Threads, req'[o].pc = "save"
              PROVE  req'[o].copy.state = "running" /\ req'[o].copy.pid = count'.spawned
            BY <1>0, <2>6, <3>5 DEF Bak!SoleCopier
        <3>6. \A w \in Bak!Worker : w > count'.spawned => worker'[w] = Bak!Gone
            BY <1>0, <2>3, <2>5 DEF Bak!SoleCopier, Bak!Gone
        <3> QED
            BY <3>2, <3>3, <3>4, <3>5, <3>6 DEF Bak!SoleCopier, Bak!Alive
    <2>10. Bak!CopiedWhole'
        <3>1. ASSUME NEW w \in Bak!Worker
              PROVE  worker'[w].pc \in {"ending", "end", "save"} /\ ~worker'[w].stop =>
                         worker'[w].rsync # "running"
            BY <2>3, <2>5 DEF Bak!CopiedWhole
        <3>2. ASSUME NEW w \in Bak!Worker, worker'[w].rsync \in {"running", "ok"}
              PROVE  /\ worker[w].rsync = worker'[w].rsync
                     /\ worker'[w].group = worker[w].group /\ worker'[w].op = worker[w].op
            BY <2>3, <2>5, <3>2
        <3> QED
            BY <1>0, <3>1, <3>2 DEF Bak!CopiedWhole
    <2>11. Bak!ManifestHonest'
        BY <1>0 DEF Bak!ManifestHonest
    <2> QED
        BY <2>7, <2>8, <2>9, <2>10, <2>11 DEF Bak!IInv
<1> QED
    BY <1>1, <1>2

LEMMA BackupDelete ==
    ASSUME Bak!IInv, NEW r \in Threads, Bak!DeleteTree(r)
    PROVE  Bak!IInv'
<1> USE BackupBounds, BackupTypes
<1> DEFINE g == req[r].group
<1>1. /\ req[r].pc = "delete" /\ g \in Groups
      /\ req' = [req EXCEPT ![r] = Bak!Idle]
      /\ UNCHANGED <<job, held, worker, models, up, count>>
    BY RequestShape DEF Bak!DeleteTree
<1>2. \/ /\ copies' = [copies EXCEPT ![g] = "part"]
         /\ spoiled' = spoiled \cup {g} /\ manifest' = manifest
      \/ /\ copies' = [copies EXCEPT ![g] = "none"]
         /\ manifest' = manifest \ {g} /\ spoiled' = spoiled \ {g}
         /\ \A v \in Bak!Worker : worker[v].rsync = "running" => worker[v].group # g
    BY DEF Bak!DeleteTree, Bak!Writing
<1> HIDE DEF g
<1>3. /\ req' \in [Threads -> Bak!ReqType]
      /\ req'[r].pc = "idle" /\ \A o \in Threads \ {r} : req'[o] = req[o]
    BY <1>1, IdleRequest
<1>4. /\ copies' \in [Groups -> {"whole", "part", "none"}]
      /\ manifest' \subseteq Groups /\ spoiled' \subseteq Groups
    BY <1>1, <1>2
<1>5. Bak!TypeOK'
    BY <1>1, <1>3, <1>4 DEF Bak!TypeOK
<1>6. Bak!LockInv'
    BY <1>1, <1>3 DEF Bak!LockInv, Bak!Locked
<1>7. Bak!SoleCopier'
    BY <1>1, <1>3 DEF Bak!SoleCopier, Bak!Alive, Bak!Gone
<1>8. Bak!CopiedWhole'
    <2>1. ASSUME NEW w \in Bak!Worker, worker[w].rsync = "ok", worker[w].op = "backup",
                 worker[w].group \notin spoiled'
          PROVE  \/ copies'[worker[w].group] = "whole"
                 \/ /\ copies'[worker[w].group] = "none"
                    /\ \A v \in Bak!Worker : worker[v].rsync = "running" =>
                         worker[v].group # worker[w].group
        <3>2. CASE worker[w].group = g
            BY <1>1, <1>2, <2>1, <3>2
        <3>3. CASE worker[w].group # g
            <4>0. worker[w].group \notin spoiled
                BY <1>2, <2>1, <3>3
            <4>1. worker[w].group \in Groups
                BY <2>1, CopierGroup
            <4>2. copies'[worker[w].group] = copies[worker[w].group]
                BY <1>2, <3>3, <4>1
            <4> QED
                BY <2>1, <4>0, <4>2 DEF Bak!CopiedWhole
        <3> QED
            BY <3>2, <3>3
    <2> QED
        BY <1>1, <2>1 DEF Bak!CopiedWhole
<1>9. Bak!ManifestHonest'
    BY <1>1, <1>2 DEF Bak!ManifestHonest
<1> QED
    BY <1>5, <1>6, <1>7, <1>8, <1>9 DEF Bak!IInv

LEMMA BackupRsync ==
    ASSUME Bak!IInv, NEW w \in Bak!Worker, Bak!Rsync(w)
    PROVE  Bak!IInv'
<1> USE BackupBounds, BackupTypes
<1> DEFINE op == worker[w].op
           g == worker[w].group
           from == Bak!Source(op)[g]
           x == worker'[w]
<1>0. /\ worker[w].rsync = "running" /\ op \in {"backup", "restore"} /\ g \in Groups
      /\ UNCHANGED <<job, held, req, manifest, up, count>>
      /\ spoiled' = IF op = "backup" /\ from # "whole" THEN spoiled \cup {g} ELSE spoiled
    <2>1. worker[w].rsync = "running"
        BY DEF Bak!Rsync
    <2>3. op \in {"backup", "restore"} /\ g \in Groups
        BY <2>1, CopierGroup
    <2> QED
        BY <2>1, <2>3 DEF Bak!Rsync
\* The three outcomes: more is copied, all is, or rsync gives up.
<1>1. \/ Bak!Dest(op)[g] # from /\ Bak!Put(op, g, "part") /\ worker' = worker
      \/ /\ \E amount \in {from, "part"} : /\ Bak!Put(op, g, amount)
                                           /\ g \notin spoiled => amount = from
         /\ worker' = [worker EXCEPT ![w] = IF @.pc = "gone" THEN Bak!Gone
                                            ELSE [@ EXCEPT !.rsync = "ok"]]
      \/ /\ models' = models /\ copies' = copies
         /\ worker' = [worker EXCEPT ![w] = IF @.pc = "gone" THEN Bak!Gone
                                            ELSE [@ EXCEPT !.rsync = "failed"]]
    BY DEF Bak!Rsync
<1>2. /\ worker' \in [Bak!Worker -> Bak!WorkerType]
      /\ \A v \in Bak!Worker \ {w} : worker'[v] = worker[v]
      /\ \/ x = worker[w]
         \/ x.pc = "gone" /\ x.rsync = "none"
         \/ /\ x.rsync \in {"ok", "failed"} /\ x.pc = worker[w].pc /\ worker[w].pc # "gone"
            /\ x.stop = worker[w].stop /\ x.copy = worker[w].copy
            /\ x.op = worker[w].op /\ x.group = worker[w].group
    <2>1. CASE worker' = worker
        BY <2>1
    <2>2. CASE worker[w].pc = "gone" /\ worker' # worker
        <3>1. worker' = [worker EXCEPT ![w] = Bak!Gone]
            BY <1>1, <2>2
        <3>2. Bak!Gone \in Bak!WorkerType /\ Bak!Gone.pc = "gone" /\ Bak!Gone.rsync = "none"
            BY DEF Bak!Gone, Bak!WorkerType
        <3> QED
            BY <3>1, <3>2
    <2>3. CASE worker[w].pc # "gone" /\ worker' # worker
        <3> DEFINE late == [pc : {"handler", "copying", "ending", "end", "save"},
                            rsync : {"running", "ok", "failed"}, stop : BOOLEAN,
                            op : {"backup", "restore"}, group : Groups,
                            copy : Bak!Jobs \cup {Nil}]
        <3>1. PICK how \in {"ok", "failed"} :
                  worker' = [worker EXCEPT ![w] = [worker[w] EXCEPT !.rsync = how]]
            BY <1>1, <2>3
        <3>2. worker[w].pc \in {"handler", "copying", "ending", "end", "save"}
            BY <1>0, <2>3, WorkerShape
        <3>3. worker[w] \in late /\ late \subseteq Bak!WorkerType
            BY <3>2, WorkerShape DEF Bak!WorkerType
        <3> DEFINE y == [worker[w] EXCEPT !.rsync = how]
        <3>4. /\ y \in late /\ y.rsync = how /\ y.pc = worker[w].pc
              /\ y.stop = worker[w].stop /\ y.copy = worker[w].copy
              /\ y.op = worker[w].op /\ y.group = worker[w].group
            BY <3>3
        <3>5. worker' = [worker EXCEPT ![w] = y]
            BY <3>1
        <3> HIDE DEF y, late
        <3> QED
            BY <2>3, <3>3, <3>4, <3>5
    <2> QED
        BY <2>1, <2>2, <2>3
<1>2a. worker' = [worker EXCEPT ![w] = IF @.pc = "gone" THEN Bak!Gone
                                       ELSE [@ EXCEPT !.rsync = "failed"]] => x.rsync # "ok"
    <2>1. CASE worker[w].pc = "gone"
        BY <2>1 DEF Bak!Gone
    <2>2. CASE worker[w].pc # "gone"
        <3>1. worker[w].pc \in {"handler", "copying", "ending", "end", "save"}
            BY <1>0, <2>2, WorkerShape
        <3>2. worker[w] \in [pc : {"handler", "copying", "ending", "end", "save"},
                             rsync : {"running", "ok", "failed"}, stop : BOOLEAN,
                             op : {"backup", "restore"}, group : Groups,
                             copy : Bak!Jobs \cup {Nil}]
            BY <3>1, WorkerShape
        <3>3. [worker[w] EXCEPT !.rsync = "failed"].rsync = "failed"
            BY <3>2
        <3> QED
            BY <2>2, <3>3
    <2> QED
        BY <2>1, <2>2
<1>3. /\ op = "restore" => copies' = copies /\ spoiled' = spoiled
      /\ op = "backup" => models' = models /\ from = models[g]
    BY <1>0, <1>1 DEF Bak!Put, Bak!Source
<1>4. /\ models' \in [Groups -> {"whole", "part", "none"}]
      /\ copies' \in [Groups -> {"whole", "part", "none"}]
      /\ \A h \in Groups \ {g} : copies'[h] = copies[h]
    <2>1. CASE op = "backup"
        BY <1>0, <1>1, <1>3, <2>1 DEF Bak!Put
    <2>2. CASE op = "restore"
        <3>1. from = copies[g]
            BY <2>2 DEF Bak!Source
        <3> QED
            BY <1>0, <1>1, <1>3, <2>2, <3>1 DEF Bak!Put
    <2> QED
        BY <1>0, <2>1, <2>2
\* What is not spoiled stays whole, and is whole when a backup is through.
<1>5. g \notin spoiled' => /\ copies[g] = "whole" => copies'[g] = "whole"
                           /\ x.rsync = "ok" /\ op = "backup" => copies'[g] = "whole"
    <2>1. CASE op = "backup"
        <3>1. g \notin spoiled' => from = "whole"
            BY <1>0, <1>3, <2>1
        <3>2. g \notin spoiled' => /\ x.rsync = "ok" => Bak!Put(op, g, from)
                                   /\ g \notin spoiled
            BY <1>0, <1>1, <1>2a
        <3> QED
            BY <1>0, <1>1, <2>1, <3>1, <3>2 DEF Bak!Put, Bak!Dest
    <2>2. CASE op = "restore"
        BY <1>3, <2>2
    <2> QED
        BY <1>0, <2>1, <2>2
<1>6. spoiled \subseteq spoiled' /\ spoiled' \subseteq Groups
    BY <1>0
<1> HIDE DEF op, g, from, x
<1>7. Bak!TypeOK'
    BY <1>0, <1>2, <1>4, <1>6 DEF Bak!TypeOK
<1>8. \A v \in Bak!Worker :
          /\ worker'[v].pc # "gone" => /\ worker[v].pc = worker'[v].pc
                                       /\ worker'[v] = worker[v] \/ worker'[v].copy = worker[v].copy
          /\ worker'[v].rsync = "running" => worker'[v] = worker[v]
          /\ worker'[v].rsync = "running" => worker[v].rsync = "running"
          /\ v # w => worker'[v] = worker[v]
    BY <1>0, <1>2 DEF x
<1>9. Bak!LockInv'
    BY <1>0, <1>8 DEF Bak!LockInv
<1>10. Bak!SoleCopier'
    <2>1. \A v \in Bak!Worker : v > count'.spawned => worker'[v] = Bak!Gone
        <3>1. worker[w] # Bak!Gone
            BY <1>0 DEF Bak!Gone
        <3> QED
            BY <1>0, <1>8, <3>1 DEF Bak!SoleCopier
    <2>2. \A v \in Bak!Worker : worker'[v].pc # "gone" =>
              /\ v = count'.spawned
              /\ job'.state = "running" /\ job'.pid \in {0, v}
              /\ worker'[v].pc \in {"claim", "popen"} => worker'[v].copy.state = "running"
              /\ worker'[v].pc \in {"handler", "copying"} /\ worker'[v].copy # Nil =>
                   worker'[v].copy.state = "running" /\ worker'[v].copy.pid = v
        BY <1>0, <1>8 DEF Bak!SoleCopier, Bak!Alive
    <2>3. \A v \in Bak!Worker : worker'[v].pc # "gone" => \A r \in Threads :
              req'[r].pc = "cancel" => req'[r].copy.state = "running" /\ req'[r].copy.pid \in {0, v}
        BY <1>0, <1>8 DEF Bak!SoleCopier, Bak!Alive
    <2>4. \A r \in Threads :
              /\ req'[r].pc = "spawn" => /\ \A v \in Bak!Worker : worker'[v].pc = "gone"
                                         /\ job'.state = "running" /\ job'.pid = 0
                                         /\ req'[r].copy.state = "running"
              /\ req'[r].pc = "save" =>
                   req'[r].copy.state = "running" /\ req'[r].copy.pid = count'.spawned
        BY <1>0, <1>8 DEF Bak!SoleCopier, Bak!Alive
    <2> QED
        BY <2>1, <2>2, <2>3, <2>4 DEF Bak!SoleCopier, Bak!Alive
<1>11. Bak!CopiedWhole'
    <2>1. ASSUME NEW v \in Bak!Worker
          PROVE  worker'[v].pc \in {"ending", "end", "save"} /\ ~worker'[v].stop =>
                     worker'[v].rsync # "running"
        <3>1. worker'[v].rsync = "running" => worker'[v] = worker[v]
            BY <1>8
        <3> QED
            BY <3>1 DEF Bak!CopiedWhole
    <2>2. ASSUME NEW v \in Bak!Worker, worker'[v].rsync = "ok", worker'[v].op = "backup",
                 worker'[v].group \notin spoiled'
          PROVE  \/ copies'[worker'[v].group] = "whole"
                 \/ /\ copies'[worker'[v].group] = "none"
                    /\ \A u \in Bak!Worker : worker'[u].rsync = "running" =>
                         worker'[u].group # worker'[v].group
        <3>1. CASE v = w
            <4>1. worker'[v].group = g /\ op = "backup" /\ x.rsync = "ok"
                BY <1>0, <1>2, <2>2, <3>1 DEF op, g, x
            <4> QED
                BY <1>5, <2>2, <4>1
        <3>2. CASE v # w
            <4>1. worker'[v] = worker[v]
                BY <1>8, <3>2
            <4>2. \/ copies[worker[v].group] = "whole"
                  \/ /\ copies[worker[v].group] = "none"
                     /\ \A u \in Bak!Worker : worker[u].rsync = "running" =>
                          worker[u].group # worker[v].group
                BY <1>6, <2>2, <4>1 DEF Bak!CopiedWhole
            <4>3. worker[v].group \in Groups
                BY <2>2, <4>1, CopierGroup
            <4>4. CASE copies[worker[v].group] = "whole"
                BY <1>4, <1>5, <2>2, <4>1, <4>3, <4>4
            <4>5. CASE /\ copies[worker[v].group] = "none"
                       /\ \A u \in Bak!Worker : worker[u].rsync = "running" =>
                            worker[u].group # worker[v].group
                <5>1. worker[v].group # g
                    BY <1>0, <4>5 DEF g
                <5>2. copies'[worker[v].group] = "none"
                    BY <1>4, <4>3, <4>5, <5>1
                <5> QED
                    BY <1>8, <4>1, <4>5, <5>2
            <4> QED
                BY <4>2, <4>4, <4>5
        <3> QED
            BY <3>1, <3>2
    <2> QED
        BY <2>1, <2>2 DEF Bak!CopiedWhole
<1>12. Bak!ManifestHonest'
    BY <1>0, <1>4, <1>5, <1>6 DEF Bak!ManifestHonest
<1> QED
    BY <1>7, <1>9, <1>10, <1>11, <1>12 DEF Bak!IInv

\* A download adds to a model; a backup of it that runs is excused.
LEMMA BackupDownload ==
    ASSUME Bak!IInv, NEW g \in Groups, Bak!Download(g)
    PROVE  Bak!IInv'
<1> USE BackupBounds, BackupTypes
<1>1. /\ UNCHANGED <<job, held, req, worker, copies, manifest, up, count>>
      /\ models' \in [Groups -> {"whole", "part", "none"}]
      /\ spoiled \subseteq spoiled' /\ spoiled' \subseteq Groups
    BY DEF Bak!Download
<1>2. Bak!TypeOK'
    BY <1>1 DEF Bak!TypeOK
<1>3. Bak!LockInv' /\ Bak!SoleCopier'
    BY <1>1 DEF Bak!LockInv, Bak!SoleCopier, Bak!Alive
<1>4. Bak!CopiedWhole' /\ Bak!ManifestHonest'
    BY <1>1 DEF Bak!CopiedWhole, Bak!ManifestHonest
<1> QED
    BY <1>2, <1>3, <1>4 DEF Bak!IInv

LEMMA BackupStep ==
    ASSUME Bak!IInv, [Bak!Next]_(Bak!vars)
    PROVE  Bak!IInv'
<1>1. CASE Bak!Stop
    <2>1. count' \in [spawned : 0..BackupWorkers, faults : 0..BackupFaults]
        BY <1>1, BackupTypes, BackupBounds DEF Bak!Stop
    <2> QED
        BY <1>1, <2>1, BackupStops DEF Bak!Stop
<1>2. CASE Bak!Boot \/ UNCHANGED Bak!vars
    <2>1. UNCHANGED <<job, held, req, worker, models, copies, manifest, count, spoiled>>
          /\ up' \in BOOLEAN
        BY <1>2, BackupTypes DEF Bak!Boot, Bak!vars
    <2> QED
        BY <2>1 DEF Bak!IInv, Bak!TypeOK, Bak!LockInv, Bak!SoleCopier, Bak!CopiedWhole,
                    Bak!ManifestHonest, Bak!Alive
<1> QED
    BY <1>1, <1>2, BackupRequests1, BackupSpawn, BackupSignal, BackupDelete, BackupWorkers1,
       BackupWorkers2, BackupRsync, BackupDownload DEF Bak!Next

LEMMA BackupInvariant == Spec => [](which = "Bak" => Bak!IInv)
<1>1. Init => (which = "Bak" => Bak!IInv)
    BY BackupInit DEF Init
<1>2. (which = "Bak" => Bak!IInv) /\ [Next]_vars => (which = "Bak" => Bak!IInv)'
    BY BackupStep, ComponentStep
<1> QED
    BY <1>1, <1>2, PTL DEF Spec

\* OneCopier: whatever requests start and cancel, and whoever dies, at most one worker
\* copies models (_start_backup_job, cli_llama_backup).
THEOREM OneBackupWorker == Spec => []OneCopier
<1>1. (which = "Bak" => Bak!IInv) => OneCopier
    BY DEF Bak!IInv, Bak!SoleCopier, OneCopier, Bak!OneCopier
<1> QED
    BY <1>1, BackupInvariant, PTL

\* ManifestHonest: a backup that has a manifest is the whole model, but for the three
\* ways to spoil one that the code leaves open: a source that is not whole, a download
\* into the source, a delete beside a copy (cli_llama_backup, cli_llama_fetch,
\* llama_backup_delete).
THEOREM ManifestMeansWhole == Spec => []ManifestHonest
<1>1. (which = "Bak" => Bak!IInv) => ManifestHonest
    BY DEF Bak!IInv, ManifestHonest
<1> QED
    BY <1>1, BackupInvariant, PTL

----------------------------------------------------------------------------
(* AuthStore, whose lock is called held here *)

file == s1
thr == s3
process == s4
today == s5
bundle == s6
spoilt == s7
USE DEF file, thr, process, today, bundle, spoilt

\* What a request of the run may be.
LEMMA AccountRequest ==
    ASSUME NEW r \in AccountRequests
    PROVE  /\ r.by \in Accounts /\ r.user \in Accounts
           /\ \/ r.kind = "users_create" /\ r.role \in {"admin", "readonly"} /\ r.password = "p1"
              \/ r.kind = "users_set_role" /\ r.role \in {"admin", "readonly"}
              \/ r.kind = "users_delete"
BY AccountAssumption DEF AccountRequests, Ask, LaterAccounts

\* Nil is no account, so a record there is one.
LEMMA NobodysRecord ==
    /\ Nil \notin Accounts /\ Nil \notin Acc!UserRec /\ Absent \notin Threads /\ Nil # Absent
    /\ "tok" \notin Accounts
BY NobodyAssumption, AbsentAssumption DEF Acc!UserRec, Acc!Roles, Rules!UserRec, Rules!Roles

\* An administrator who is not the last one leaves another behind.
LEMMA AnotherAdmin ==
    ASSUME NEW c \in Acc!Store, NEW u \in Accounts, c.users[u] # Nil,
           Acc!Admins(c) # {}, ~Acc!LastAdmin(c, u)
    PROVE  \E v \in Acc!Admins(c) : v # u
<1>1. IsFiniteSet(Acc!Admins(c))
    BY AccountAssumption, FS_Subset DEF Acc!Admins
<1>2. CASE c.users[u].role # "admin"
    BY <1>2 DEF Acc!Admins
<1>3. CASE c.users[u].role = "admin"
    <2>1. SUFFICES ASSUME \A v \in Acc!Admins(c) : v = u
                   PROVE  FALSE
        OBVIOUS
    <2>2. Acc!Admins(c) = {u}
        BY <1>3, <2>1 DEF Acc!Admins
    <2>3. Cardinality(Acc!Admins(c)) = 1
        BY <2>2, FS_Singleton
    <2>4. Acc!Cardinality(Acc!Admins(c)) = 1
        BY <2>3 DEF Acc!Cardinality, Cardinality
    <2>5. Acc!LastAdmin(c, u)
        BY <1>3, <2>4 DEF Acc!LastAdmin
    <2> QED
        BY <2>5
<1> QED
    BY <1>2, <1>3

\* A store with one more or one changed account, which is an administrator when the
\* account was, keeps an administrator.
LEMMA RecordChange ==
    ASSUME NEW c \in Acc!Store, NEW u \in Accounts, NEW rec \in Acc!UserRec,
           NEW d, d = [c EXCEPT !.users[u] = rec]
    PROVE  /\ d \in Acc!Store
           /\ rec.role = "admin" \/ (\E v \in Acc!Admins(c) : v # u) => Acc!Admins(d) # {}
<1>1. d \in Acc!Store /\ d.users = [c.users EXCEPT ![u] = rec]
    BY DEF Acc!Store
<1>2. ASSUME rec.role = "admin"
      PROVE  Acc!Admins(d) # {}
    <2>1. d.users[u] = rec /\ rec # Nil
        BY <1>1, NobodysRecord DEF Acc!Store
    <2> QED
        BY <1>1, <1>2, <2>1 DEF Acc!Admins
<1>3. ASSUME NEW v \in Acc!Admins(c), v # u
      PROVE  Acc!Admins(d) # {}
    <2>1. v \in Accounts /\ d.users[v] = c.users[v]
        BY <1>1, <1>3 DEF Acc!Admins, Acc!Store
    <2> QED
        BY <1>1, <1>3, <2>1 DEF Acc!Admins
<1> QED
    BY <1>1, <1>2, <1>3

\* No handler removes the last administrator.
LEMMA HandlerKeepsAdmin ==
    ASSUME NEW c \in Acc!Store, NEW r \in AccountRequests, Acc!Allowed(c, r)
    PROVE  /\ Acc!Apply(c, r) \in Acc!Store
           /\ Acc!Admins(c) # {} => Acc!Admins(Acc!Apply(c, r)) # {}
<1>1. r.user \in Accounts
    BY AccountRequest
<1>2. CASE r.kind = "users_create"
    <2> DEFINE rec == [role |-> r.role, password |-> r.password, must_change |-> FALSE]
    <2>1. rec \in Acc!UserRec
        BY <1>2, AccountRequest DEF Acc!UserRec, Acc!Roles
    <2>2. Acc!Apply(c, r) = [c EXCEPT !.users[r.user] = rec]
        BY <1>2 DEF Acc!Apply, Acc!NewUserRec
    <2>3. c.users[r.user] = Nil
        BY <1>2 DEF Acc!Allowed
    <2>4. Acc!Admins(c) # {} => \E v \in Acc!Admins(c) : v # r.user
        BY <2>3 DEF Acc!Admins
    <2> HIDE DEF rec
    <2> QED
        BY <1>1, <2>1, <2>2, <2>4, RecordChange
<1>3. CASE r.kind = "users_set_role"
    <2> DEFINE rec == [c.users[r.user] EXCEPT !.role = r.role]
    <2>1. c.users[r.user] # Nil /\ (r.role = "admin" \/ ~Acc!LastAdmin(c, r.user))
        BY <1>3 DEF Acc!Allowed
    <2>2. rec \in Acc!UserRec /\ rec.role = r.role
        BY <1>1, <1>3, <2>1, AccountRequest DEF Acc!Store, Acc!UserRec, Acc!Roles
    <2>3. Acc!Apply(c, r) = [c EXCEPT !.users[r.user] = rec]
        BY <1>3 DEF Acc!Apply, Acc!NewUserRec
    <2>4. Acc!Admins(c) # {} => rec.role = "admin" \/ \E v \in Acc!Admins(c) : v # r.user
        BY <1>1, <2>1, <2>2, AnotherAdmin
    <2> HIDE DEF rec
    <2> QED
        BY <1>1, <2>2, <2>3, <2>4, RecordChange
<1>4. CASE r.kind = "users_delete"
    <2>1. c.users[r.user] # Nil /\ ~Acc!LastAdmin(c, r.user)
        BY <1>4 DEF Acc!Allowed
    <2>2. Acc!Apply(c, r) = [c EXCEPT !.users[r.user] = Nil]
        BY <1>4 DEF Acc!Apply, Acc!NewUserRec
    <2>3. Acc!Apply(c, r) \in Acc!Store
        BY <1>1, <2>2 DEF Acc!Store
    <2>4. ASSUME Acc!Admins(c) # {}
          PROVE  Acc!Admins(Acc!Apply(c, r)) # {}
        <3>1. PICK v \in Acc!Admins(c) : v # r.user
            BY <1>1, <2>1, <2>4, AnotherAdmin
        <3>2. v \in Accounts /\ Acc!Apply(c, r).users[v] = c.users[v]
            BY <1>1, <2>2, <3>1 DEF Acc!Admins, Acc!Store
        <3> QED
            BY <3>1, <3>2 DEF Acc!Admins
    <2> QED
        BY <2>3, <2>4
<1> QED
    BY <1>2, <1>3, <1>4, AccountRequest

\* set-password keeps the role of an account and makes an administrator of a new one.
LEMMA SetPasswordKeepsAdmin ==
    ASSUME NEW c \in Acc!Store, NEW u \in Accounts, NEW pw \in {"p1"}
    PROVE  /\ Acc!SetPassword(c, u, pw) \in Acc!Store
           /\ Acc!Admins(c) # {} => Acc!Admins(Acc!SetPassword(c, u, pw)) # {}
<1> DEFINE rec == [role |-> IF c.users[u] = Nil THEN "admin" ELSE c.users[u].role,
                   password |-> pw, must_change |-> FALSE]
<1>1. rec \in Acc!UserRec
    BY DEF Acc!Store, Acc!UserRec, Acc!Roles
<1>2. Acc!SetPassword(c, u, pw) = [c EXCEPT !.users[u] = rec]
    BY DEF Acc!SetPassword
<1>3. Acc!Admins(c) # {} => rec.role = "admin" \/ \E v \in Acc!Admins(c) : v # u
    BY DEF Acc!Admins
<1> HIDE DEF rec
<1> QED
    BY <1>1, <1>2, <1>3, RecordChange

\* A store that one account was created in has that administrator.
LEMMA FirstStart ==
    ASSUME NEW u \in Accounts, NEW pw \in {"p1"}
    PROVE  /\ Acc!Bootstrap(u, pw) \in Acc!Store /\ Acc!Admins(Acc!Bootstrap(u, pw)) # {}
           /\ Acc!Bootstrap(u, pw).users[u] \in Acc!UserRec
<1> DEFINE rec == [role |-> "admin", password |-> pw, must_change |-> TRUE]
<1>1. rec \in Acc!UserRec /\ rec.role = "admin"
    BY DEF Acc!UserRec, Acc!Roles
<1>2. rec # Nil
    BY <1>1, NobodysRecord
<1>3. Acc!Bootstrap(u, pw) = [users |-> [v \in Accounts |-> IF v = u THEN rec ELSE Nil],
                              tokens |-> [k \in {"tok"} |-> Nil]]
    BY DEF Acc!Bootstrap
<1> HIDE DEF rec
<1>4. Acc!Bootstrap(u, pw) \in Acc!Store
    BY <1>1, <1>3 DEF Acc!Store
<1>5. Acc!Bootstrap(u, pw).users[u] = rec
    BY <1>3
<1> QED
    BY <1>1, <1>2, <1>4, <1>5 DEF Acc!Admins

\* Starting a process completes a store without users and no other.
LEMMA Completed ==
    ASSUME NEW c \in Acc!Store
    PROVE  /\ Acc!Ensured(c) \in Acc!Store
           /\ Acc!Admins(c) # {} => Acc!Admins(Acc!Ensured(c)) # {}
<1>1. Acc!Bootstrap(FirstAccount, "p1").users \in [Accounts -> Acc!UserRec \cup {Nil}]
    BY FirstStart, AccountAssumption DEF Acc!Store
<1>2. Acc!Ensured(c) \in Acc!Store
    BY <1>1 DEF Acc!Ensured, Acc!Store
<1>3. Acc!Admins(c) # {} => Acc!Ensured(c) = c
    BY DEF Acc!Ensured, Acc!Admins
<1> QED
    BY <1>2, <1>3

\* What a restore may bring, and the store that a file nobody can read is taken for.
LEMMA Brought == AccountBundles \subseteq Acc!Store /\ Acc!Unreadable \in Acc!Store
<1>1. Acc!Unreadable \in Acc!Store
    BY DEF Acc!Unreadable, Acc!Store
<1>2. ASSUME NEW u \in LaterAccounts, NEW role \in {"admin", "readonly"}
      PROVE  Brings(u, role) \in Acc!Store
    <2> DEFINE c == Acc!Bootstrap(u, "p1")
               rec == [c.users[u] EXCEPT !.role = role]
    <2>1. u \in Accounts
        BY DEF LaterAccounts
    <2>2. c \in Acc!Store /\ c.users[u] \in Acc!UserRec
        BY <2>1, FirstStart
    <2>3. rec \in Acc!UserRec
        BY <2>2 DEF Acc!UserRec, Acc!Roles
    <2>4. Rules!Bootstrap(u, "p1") = c
        BY DEF Rules!Bootstrap, Acc!Bootstrap
    <2> HIDE DEF c
    <2>5. [c EXCEPT !.users[u].role = role] = [c EXCEPT !.users[u] = rec]
        OBVIOUS
    <2> HIDE DEF rec
    <2>6. [c EXCEPT !.users[u] = rec] \in Acc!Store
        BY <2>1, <2>2, <2>3 DEF Acc!Store
    <2> QED
        BY <2>4, <2>5, <2>6 DEF Brings
<1> QED
    BY <1>1, <1>2 DEF AccountBundles

\* A store in which somebody administers, unless a restore has seen to that.
Administered(c) == c \in Acc!Store /\ (~spoilt => Acc!Admins(c) # {})

\* Every copy of the store that somebody is about to write back was read from the
\* file, so it too has an administrator. No request of the run uses a token, so none
\* is stamped.
ThreadHolds(t) ==
    /\ thr[t].pc \in {"idle", "authed", "loaded"}
    /\ thr[t].pc # "idle" => thr[t].req \in AccountRequests
    /\ thr[t].pc = "loaded" => Administered(thr[t].cfg)
ProcessHolds ==
    process.pc = "loaded" => /\ process.user \in Accounts /\ process.password \in {"p1"}
                             /\ Administered(process.cfg)
AccountInv ==
    /\ Administered(file)
    /\ spoilt \in BOOLEAN /\ bundle \in AccountBundles \cup {Nil}
    /\ thr \in [Threads -> Acc!ThreadType]
    /\ \A t \in Threads : ThreadHolds(t)
    /\ ProcessHolds

\* What a save leaves is a store, the intended one when no restore is writing.
LEMMA SaveLeaves ==
    ASSUME AccountInv, NEW c \in Acc!Store, ~spoilt => Acc!Admins(c) # {},
           file' \in Acc!Written(c), spoilt' = (spoilt \/ bundle # Nil)
    PROVE  /\ file' \in Acc!Store /\ spoilt' \in BOOLEAN
           /\ ~spoilt' => ~spoilt /\ Acc!Admins(file') # {}
<1>1. file \in Acc!Store /\ (bundle # Nil => bundle \in Acc!Store)
    BY Brought DEF AccountInv, Administered
<1>2. CASE bundle = Nil
    BY <1>2 DEF Acc!Written
<1>3. CASE bundle # Nil
    <2>1. file' \in Acc!Store
        BY <1>1, Brought DEF Acc!Written
    <2>2. spoilt' = TRUE
        BY <1>3
    <2> QED
        BY <2>1, <2>2
<1> QED
    BY <1>2, <1>3

LEMMA AccountInit ==
    ASSUME Acc!Init
    PROVE  AccountInv
<1>1. Administered(file) /\ spoilt \in BOOLEAN /\ bundle = Nil
    BY FirstStart, AccountAssumption DEF Acc!Init, Administered
<1>2. Acc!Idle \in Acc!ThreadType /\ Acc!Idle.pc = "idle"
    BY DEF Acc!Idle, Acc!ThreadType
<1>3. thr \in [Threads -> Acc!ThreadType] /\ \A t \in Threads : ThreadHolds(t)
    BY <1>2 DEF Acc!Init, ThreadHolds
<1>4. ProcessHolds
    BY DEF Acc!Init, Acc!CliIdle, ProcessHolds
<1> QED
    BY <1>1, <1>3, <1>4 DEF AccountInv

\* What a thread does to its own record is all that the invariant of the threads needs.
LEMMA OneThreadMoves ==
    ASSUME AccountInv, NEW t \in Threads, NEW x \in Acc!ThreadType,
           thr' = [thr EXCEPT ![t] = x], ~spoilt' => ~spoilt,
           x.pc \in {"idle", "authed", "loaded"},
           x.pc # "idle" => x.req \in AccountRequests,
           x.pc = "loaded" => Administered(x.cfg)
    PROVE  thr' \in [Threads -> Acc!ThreadType] /\ \A s \in Threads : ThreadHolds(s)'
<1>1. thr' \in [Threads -> Acc!ThreadType]
    BY DEF AccountInv
<1>2. ASSUME NEW s \in Threads
      PROVE  ThreadHolds(s)'
    <2>1. thr'[s] = IF s = t THEN x ELSE thr[s]
        BY DEF AccountInv
    <2>2. CASE s = t
        BY <2>1, <2>2 DEF ThreadHolds, Administered
    <2>3. CASE s # t
        <3>1. ThreadHolds(s) /\ thr'[s] = thr[s]
            BY <2>1, <2>3 DEF AccountInv
        <3> QED
            BY <3>1 DEF ThreadHolds, Administered
    <2> QED
        BY <2>2, <2>3
<1> QED
    BY <1>1, <1>2

\* A request thread: it reads the store it writes under the lock.
LEMMA AccountThreadStep ==
    ASSUME AccountInv, NEW t \in Threads,
           \/ \E r \in AccountRequests : Acc!Authenticate(t, r)
           \/ Acc!Load(t) \/ Acc!SaveStamp(t) \/ Acc!Save(t) \/ Acc!SaveRaises(t)
    PROVE  AccountInv'
<1>0. /\ thr \in [Threads -> Acc!ThreadType] /\ thr[t] \in Acc!ThreadType /\ ThreadHolds(t)
      /\ Administered(file) /\ file \in Acc!Store
    BY DEF AccountInv, Administered
<1>i. Acc!Idle \in Acc!ThreadType /\ Acc!Idle.pc = "idle"
    BY DEF Acc!Idle, Acc!ThreadType
<1>1. ASSUME NEW r \in AccountRequests, Acc!Authenticate(t, r)
      PROVE  AccountInv'
    <2> DEFINE x == [pc |-> "authed", req |-> r, admit |-> Acc!Permitted(file, r), cfg |-> Nil]
    <2>1. r.by \in Accounts /\ r.by \notin {"tok"}
        BY AccountRequest, NobodysRecord
    <2>2. ~Acc!NeedsStamp(r)
        BY <2>1 DEF Acc!NeedsStamp
    <2>3. thr' = [thr EXCEPT ![t] = x]
        BY <1>1, <2>2 DEF Acc!Authenticate
    <2>4. Acc!Permitted(file, r) \in BOOLEAN
        BY DEF Acc!Permitted, Acc!Known, Acc!RoleOf
    <2>5. x \in Acc!ThreadType /\ x.pc = "authed" /\ x.req = r
        BY <2>4 DEF Acc!ThreadType
    <2> HIDE DEF x
    <2>6. thr' \in [Threads -> Acc!ThreadType] /\ \A s \in Threads : ThreadHolds(s)'
        BY <1>1, <2>3, <2>5, OneThreadMoves DEF Acc!Authenticate
    <2> QED
        BY <1>1, <2>6 DEF Acc!Authenticate, AccountInv, ProcessHolds, Administered
<1>2. ASSUME Acc!Load(t)
      PROVE  AccountInv'
    <2> DEFINE x == [thr[t] EXCEPT !.pc = "loaded", !.cfg = file]
    <2>1. thr[t].pc = "authed"
        BY <1>0, <1>2 DEF Acc!Load, ThreadHolds
    <2>2. thr' = [thr EXCEPT ![t] = x]
        BY <1>0, <1>2, <2>1 DEF Acc!Load
    <2>3. x \in Acc!ThreadType /\ x.pc = "loaded" /\ x.req = thr[t].req /\ x.cfg = file
        BY <1>0 DEF Acc!ThreadType
    <2>4. x.req \in AccountRequests
        BY <1>0, <2>1, <2>3 DEF ThreadHolds
    <2> HIDE DEF x
    <2>5. thr' \in [Threads -> Acc!ThreadType] /\ \A s \in Threads : ThreadHolds(s)'
        BY <1>0, <1>2, <2>2, <2>3, <2>4, OneThreadMoves DEF Acc!Load
    <2> QED
        BY <1>2, <2>5 DEF Acc!Load, AccountInv, ProcessHolds, Administered
<1>3. ~Acc!SaveStamp(t)
    BY <1>0 DEF Acc!SaveStamp, ThreadHolds
<1>4. ASSUME Acc!Save(t)
      PROVE  AccountInv'
    <2>1. thr[t].req \in AccountRequests /\ Administered(thr[t].cfg)
        BY <1>0, <1>4 DEF Acc!Save, ThreadHolds
    <2>2. /\ file' \in Acc!Store /\ spoilt' \in BOOLEAN
          /\ ~spoilt' => ~spoilt /\ Acc!Admins(file') # {}
        <3>1. CASE Acc!Allowed(thr[t].cfg, thr[t].req)
            <4> DEFINE c == Acc!Apply(thr[t].cfg, thr[t].req)
            <4>1. c \in Acc!Store /\ (~spoilt => Acc!Admins(c) # {})
                BY <2>1, <3>1, HandlerKeepsAdmin DEF Administered
            <4>2. file' \in Acc!Written(c) /\ spoilt' = (spoilt \/ bundle # Nil)
                BY <1>4, <3>1 DEF Acc!Save
            <4> HIDE DEF c
            <4> QED
                BY <4>1, <4>2, SaveLeaves
        <3>2. CASE ~Acc!Allowed(thr[t].cfg, thr[t].req)
            <4>1. UNCHANGED <<file, spoilt>>
                BY <1>4, <3>2 DEF Acc!Save
            <4> QED
                BY <4>1 DEF AccountInv, Administered
        <3> QED
            BY <3>1, <3>2
    <2>3. thr' = [thr EXCEPT ![t] = Acc!Idle]
        BY <1>4 DEF Acc!Save
    <2>4. thr' \in [Threads -> Acc!ThreadType] /\ \A s \in Threads : ThreadHolds(s)'
        BY <1>i, <2>2, <2>3, OneThreadMoves
    <2> QED
        BY <1>4, <2>2, <2>4 DEF Acc!Save, AccountInv, ProcessHolds, Administered
<1>5. ASSUME Acc!SaveRaises(t)
      PROVE  AccountInv'
    <2>1. thr' = [thr EXCEPT ![t] = Acc!Idle] /\ UNCHANGED spoilt
        BY <1>5 DEF Acc!SaveRaises
    <2>2. thr' \in [Threads -> Acc!ThreadType] /\ \A s \in Threads : ThreadHolds(s)'
        BY <1>i, <2>1, OneThreadMoves
    <2> QED
        BY <1>5, <2>2 DEF Acc!SaveRaises, AccountInv, ProcessHolds, Administered
<1> QED
    BY <1>1, <1>2, <1>3, <1>4, <1>5

\* The other writers, of which set-password writes back what it read.
LEMMA AccountStep ==
    ASSUME AccountInv, [Acc!Next]_(Acc!vars)
    PROVE  AccountInv'
<1>1. ASSUME NEW u \in LaterAccounts, NEW pw \in {"p1"}, Acc!CliLoad(u, pw)
      PROVE  AccountInv'
    <2>1. u \in Accounts
        BY DEF LaterAccounts
    <2>2. Administered(file)' /\ UNCHANGED spoilt
        BY <1>1, Completed DEF Acc!CliLoad, AccountInv, Administered
    <2>3. process' = [pc |-> "loaded", user |-> u, password |-> pw, cfg |-> file']
        BY <1>1 DEF Acc!CliLoad
    <2> QED
        BY <1>1, <2>1, <2>2, <2>3
        DEF Acc!CliLoad, AccountInv, ThreadHolds, ProcessHolds, Administered
<1>2. ASSUME NEW u \in LaterAccounts, Acc!CliSave(u)
      PROVE  AccountInv'
    <2>1. Administered(process.cfg) /\ u \in Accounts /\ process.password \in {"p1"}
        BY <1>2 DEF Acc!CliSave, AccountInv, ProcessHolds
    <2>2. Administered(file)' /\ UNCHANGED spoilt
        BY <1>2, <2>1, SetPasswordKeepsAdmin DEF Acc!CliSave, Administered
    <2> QED
        BY <1>2, <2>2
        DEF Acc!CliSave, Acc!CliIdle, AccountInv, ThreadHolds, ProcessHolds, Administered
<1>3. ASSUME NEW b \in AccountBundles, Acc!Restore(b) \/ Acc!RestoreBegin(b)
      PROVE  AccountInv'
    <2>1. b \in Acc!Store
        BY Brought
    <2>2. /\ file' \in Acc!Store /\ spoilt' \in BOOLEAN
          /\ ~spoilt' => ~spoilt /\ Acc!Admins(file') # {}
        BY <1>3, <2>1 DEF Acc!Restore, Acc!RestoreBegin, AccountInv, Administered
    <2> QED
        BY <1>3, <2>2 DEF Acc!Restore, Acc!RestoreBegin, AccountInv, ThreadHolds,
                          ProcessHolds, Administered
<1>7. ASSUME NEW b \in AccountBundles, Acc!RestoreEnd(b)
      PROVE  AccountInv'
    <2>1. b \in Acc!Store /\ Administered(file) /\ spoilt \in BOOLEAN
        BY <1>7, Brought DEF AccountInv
    <2>2. /\ file' \in Acc!Store /\ spoilt' \in BOOLEAN
          /\ ~spoilt' => ~spoilt /\ Acc!Admins(file') # {}
        <3>1. CASE file' = b /\ spoilt' = (spoilt \/ Acc!Admins(b) = {})
            BY <2>1, <3>1
        <3>2. CASE UNCHANGED <<file, spoilt>>
            BY <2>1, <3>2 DEF Administered
        <3>3. CASE file' = Acc!Unreadable /\ spoilt' = TRUE
            BY <3>3, Brought
        <3> QED
            BY <1>7, <3>1, <3>2, <3>3 DEF Acc!RestoreEnd
    <2> QED
        BY <1>7, <2>2 DEF Acc!RestoreEnd, AccountInv, ThreadHolds, ProcessHolds, Administered
<1>4. ASSUME Acc!Restart
      PROVE  AccountInv'
    <2>1. Acc!Idle \in Acc!ThreadType /\ Acc!Idle.pc = "idle"
        BY DEF Acc!Idle, Acc!ThreadType
    <2>2. Administered(file)' /\ UNCHANGED spoilt
        BY <1>4, Completed DEF Acc!Restart, AccountInv, Administered
    <2> QED
        BY <1>4, <2>1, <2>2
        DEF Acc!Restart, AccountInv, ThreadHolds, ProcessHolds, Administered
<1>5. ASSUME Acc!Midnight \/ UNCHANGED Acc!vars
      PROVE  AccountInv'
    BY <1>5 DEF Acc!Midnight, Acc!vars, AccountInv, ThreadHolds, ProcessHolds, Administered
<1>6. ASSUME NEW t \in Threads,
             \/ \E r \in AccountRequests : Acc!Authenticate(t, r)
             \/ Acc!Load(t) \/ Acc!SaveStamp(t) \/ Acc!Save(t) \/ Acc!SaveRaises(t)
      PROVE  AccountInv'
    BY <1>6, AccountThreadStep
<1> QED
    BY <1>1, <1>2, <1>3, <1>4, <1>5, <1>6, <1>7 DEF Acc!Next

\* However demotions, deletions, set-password runs and restores race, some account can
\* still administer the node, for any number of accounts and request threads, unless a
\* restore brought contents without an administrator or a save overlapped one in the
\* server.
THEOREM AnAdministratorRemains == Spec => []AdminRemains
<1> DEFINE Inv == which = "Acc" => AccountInv
<1>1. Init => Inv
    BY AccountInit DEF Init
<1>2. Inv /\ [Next]_vars => Inv'
    BY ComponentStep, AccountStep
<1>3. Inv => AdminRemains
    BY DEF AccountInv, Administered, AdminRemains, Acc!AdminRemains
<1> QED
    BY <1>1, <1>2, <1>3, PTL DEF Spec
=============================================================================
