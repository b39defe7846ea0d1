----------------------------- MODULE AtomicJson -----------------------------
(***************************************************************************)
(* write_json_atomic of nexusdash/core/config.py: serialize into a         *)
(* temporary file named after the process, fsync it, rename it over the    *)
(* target. The threads of one process share that name. The target's        *)
(* directory is not synced, so after a power loss the rename may be undone.*)
(* A document is Chunks writes long; a file is the writes it received.     *)
(***************************************************************************)
EXTENDS Naturals, FiniteSets

CONSTANTS
    Writers,     \* calls in progress: threads of the server, a CLI or tick process
    Pids,        \* processes
    PidOf,       \* the process of a writer
    Chunks,      \* writes a document takes
    Serialised,  \* whether the callers of one process hold a lock (as auth.py does)
    Original,    \* author of the document that is there at the start
    Absent,      \* no such file, nothing written
    MaxOpens,    \* bound: temporary files created
    MaxCrashes   \* bound: processes killed and power losses

Inodes == 0..MaxOpens
Position == 1..Chunks
Content == [Position -> Writers \cup {Original, Absent}]

VARIABLES
    target,   \* inode the target name points to
    durable,  \* inode it points to on disk
    tmp,      \* inode of each process's temporary name, or Absent
    data,     \* what each inode holds
    synced,   \* inodes whose contents are on disk
    opens,    \* temporary files created so far
    call,     \* each writer's call: where it is, its descriptor and offset
    lock,     \* per process: the writer in the critical section, or Absent
    crashes

vars == <<target, durable, tmp, data, synced, opens, call, lock, crashes>>

Empty == [p \in Position |-> Absent]
DocumentOf(w) == [p \in Position |-> w]

Idle == [pc |-> "idle", fd |-> 0, offset |-> 0]
CallType == [pc : {"idle", "writing", "synced", "moded", "replaced", "failed", "raised"},
             fd : Inodes, offset : 0..Chunks]

Init ==
    /\ target = 0
    /\ durable = 0
    /\ tmp = [q \in Pids |-> Absent]
    /\ data = [i \in Inodes |-> IF i = 0 THEN DocumentOf(Original) ELSE Empty]
    /\ synced = {0}
    /\ opens = 0
    /\ call = [w \in Writers |-> Idle]
    /\ lock = [q \in Pids |-> Absent]
    /\ crashes = 0

----------------------------------------------------------------------------
(* The call, one system call at a time *)

Tmp(w) == tmp[PidOf[w]]

\* The callers of one process, when they are serialised, enter one at a time.
Enter(w) ==
    /\ Serialised => lock[PidOf[w]] = Absent
    /\ lock' = IF Serialised THEN [lock EXCEPT ![PidOf[w]] = w] ELSE lock

Leave(w) == lock' = IF Serialised THEN [lock EXCEPT ![PidOf[w]] = Absent] ELSE lock

\* open(tmp, O_CREAT | O_TRUNC): a new inode, or the existing one emptied.
Open(w) ==
    /\ call[w].pc = "idle"
    /\ Enter(w)
    /\ IF Tmp(w) = Absent
       THEN /\ opens < MaxOpens
            /\ opens' = opens + 1
            /\ tmp' = [tmp EXCEPT ![PidOf[w]] = opens']
            /\ UNCHANGED <<data, synced>>
       ELSE /\ data' = [data EXCEPT ![Tmp(w)] = Empty]
            /\ synced' = synced \ {Tmp(w)}
            /\ UNCHANGED <<tmp, opens>>
    /\ call' = [call EXCEPT ![w] = [pc |-> "writing", fd |-> tmp'[PidOf[w]], offset |-> 0]]
    /\ UNCHANGED <<target, durable, crashes>>

\* Each write goes to the inode that was opened, at the descriptor's own offset.
Write(w) ==
    /\ call[w].pc = "writing"
    /\ call[w].offset < Chunks
    /\ data' = [data EXCEPT ![call[w].fd][call[w].offset + 1] = w]
    /\ synced' = synced \ {call[w].fd}
    /\ call' = [call EXCEPT ![w].offset = @ + 1]
    /\ UNCHANGED <<target, durable, tmp, opens, lock, crashes>>

\* The disk is full, or serialising the data raises: on to the cleanup.
WriteFails(w) ==
    /\ call[w].pc = "writing"
    /\ call[w].offset < Chunks
    /\ call' = [call EXCEPT ![w].pc = "failed"]
    /\ UNCHANGED <<target, durable, tmp, data, synced, opens, lock, crashes>>

\* Mutant of Sync: the document is renamed before it is on disk.
SyncSkipped(w) ==
    /\ call[w].pc = "writing"
    /\ call[w].offset = Chunks
    /\ call' = [call EXCEPT ![w].pc = "synced"]
    /\ UNCHANGED <<target, durable, tmp, data, synced, opens, lock, crashes>>

Sync(w) ==
    /\ call[w].pc = "writing"
    /\ call[w].offset = Chunks
    /\ synced' = synced \cup {call[w].fd}
    /\ call' = [call EXCEPT ![w].pc = "synced"]
    /\ UNCHANGED <<target, durable, tmp, data, opens, lock, crashes>>

\* chmod works on the name, and raises when another thread took it away.
Chmod(w) ==
    /\ call[w].pc = "synced"
    /\ call' = [call EXCEPT ![w].pc = IF Tmp(w) = Absent THEN "failed" ELSE "moded"]
    /\ UNCHANGED <<target, durable, tmp, data, synced, opens, lock, crashes>>

\* rename(tmp, path) moves whatever inode the name now points to.
Replace(w) ==
    /\ call[w].pc = "moded"
    /\ IF Tmp(w) = Absent
       THEN /\ call' = [call EXCEPT ![w].pc = "failed"]
            /\ UNCHANGED <<target, tmp>>
       ELSE /\ call' = [call EXCEPT ![w].pc = "replaced"]
            /\ target' = Tmp(w)
            /\ tmp' = [tmp EXCEPT ![PidOf[w]] = Absent]
    /\ UNCHANGED <<durable, data, synced, opens, lock, crashes>>

\* Mutant of Cleanup: the temporary file of a failed write stays.
CleanupMissing(w) ==
    /\ call[w].pc \in {"replaced", "failed"}
    /\ call' = [call EXCEPT ![w] = IF @.pc = "replaced" THEN Idle ELSE [Idle EXCEPT !.pc = "raised"]]
    /\ Leave(w)
    /\ UNCHANGED <<target, durable, tmp, data, synced, opens, crashes>>

\* finally: remove the temporary name if it exists, whoever created it.
Cleanup(w) ==
    /\ call[w].pc \in {"replaced", "failed"}
    /\ tmp' = [tmp EXCEPT ![PidOf[w]] = Absent]
    /\ call' = [call EXCEPT ![w] = IF @.pc = "replaced" THEN Idle ELSE [Idle EXCEPT !.pc = "raised"]]
    /\ Leave(w)
    /\ UNCHANGED <<target, durable, data, synced, opens, crashes>>

----------------------------------------------------------------------------
(* The environment *)

\* The file system commits the rename at some time of its own.
Commit ==
    /\ durable # target
    /\ durable' = target
    /\ UNCHANGED <<target, tmp, data, synced, opens, call, lock, crashes>>

\* A process dies with its calls; what it wrote stays. Its pid is not reused.
Kill(q) ==
    /\ crashes < MaxCrashes
    /\ crashes' = crashes + 1
    /\ call' = [w \in Writers |-> IF PidOf[w] = q THEN [Idle EXCEPT !.pc = "raised"] ELSE call[w]]
    /\ lock' = [lock EXCEPT ![q] = Absent]
    /\ UNCHANGED <<target, durable, tmp, data, synced, opens>>

\* Power loss: contents that were not synced may be lost, and so may a rename
\* that was not committed.
PowerLoss ==
    /\ crashes < MaxCrashes
    /\ crashes' = crashes + 1
    /\ \E lost \in SUBSET (Inodes \ synced) :
         data' = [i \in Inodes |-> IF i \in lost THEN Empty ELSE data[i]]
    /\ target' \in {target, durable}
    /\ durable' = target'
    /\ call' = [w \in Writers |-> [Idle EXCEPT !.pc = "raised"]]
    /\ lock' = [q \in Pids |-> Absent]
    /\ UNCHANGED <<tmp, synced, opens>>

Next ==
    \/ \E w \in Writers : \/ Open(w) \/ Write(w) \/ WriteFails(w) \/ Sync(w)
                          \/ Chmod(w) \/ Replace(w) \/ Cleanup(w)
    \/ Commit
    \/ \E q \in Pids : Kill(q)
    \/ PowerLoss

Spec == Init /\ [][Next]_vars

----------------------------------------------------------------------------
(* Properties *)

\* Type invariant of every variable.
TypeOK ==
    /\ target \in Inodes
    /\ durable \in Inodes
    /\ tmp \in [Pids -> Inodes \cup {Absent}]
    /\ data \in [Inodes -> Content]
    /\ synced \subseteq Inodes
    /\ opens \in 0..MaxOpens
    /\ call \in [Writers -> CallType]
    /\ lock \in [Pids -> Writers \cup {Absent}]
    /\ crashes \in 0..MaxCrashes

Whole(i) == \E w \in Writers \cup {Original} : data[i] = DocumentOf(w)

\* What a reader of the target finds, at any moment and after any crash, is one
\* complete document: never a truncated, empty or mixed one.
TargetWhole == Whole(target)

\* The temporary file, which may hold credentials, does not outlive the call
\* that made it unless the process was killed.
NoLitter ==
    crashes = 0 =>
      \A q \in Pids : tmp[q] # Absent =>
        \E w \in Writers : PidOf[w] = q /\ call[w].pc \notin {"idle", "raised"}

\* How far a call is, for the one who made it.
StageOf(c) == CASE c.pc \in {"writing", "synced", "moded", "failed"} -> "called"
                [] c.pc = "replaced" -> "saved"
                [] c.pc \in {"idle", "raised"} -> c.pc

Promise == INSTANCE JsonSpec WITH Document <- DocumentOf, found <- data[target],
    kept <- data[durable], stage <- [w \in Writers |-> StageOf(call[w])]

----------------------------------------------------------------------------
(* What makes TargetWhole and NoLitter inductive, for serialised callers *)

InCall(w) == call[w].pc \notin {"idle", "raised"}

\* The lock of a process is held by its one caller that is inside.
LockInv ==
    /\ \A w \in Writers : InCall(w) <=> lock[PidOf[w]] = w
    /\ \A q \in Pids : lock[q] # Absent => PidOf[lock[q]] = q

\* A temporary name never leads to a file in service, or to another process's.
NamesApart ==
    /\ target <= opens /\ durable <= opens
    /\ \A q \in Pids : tmp[q] # Absent =>
         /\ tmp[q] \in 1..opens
         /\ tmp[q] # target /\ tmp[q] # durable
         /\ \A o \in Pids \ {q} : tmp[o] # tmp[q]

\* What is in service is whole, and on disk.
InService == \A i \in {target, durable} : Whole(i) /\ i \in synced

\* A caller writes the file that the name leads to, and what it wrote is there.
Written ==
    \A w \in Writers :
        /\ call[w].pc \in {"writing", "synced", "moded"} => call[w].fd = Tmp(w)
        /\ call[w].pc = "writing" => \A p \in 1..call[w].offset : data[call[w].fd][p] = w
        /\ call[w].pc \in {"synced", "moded"} => /\ data[call[w].fd] = DocumentOf(w)
                                                 /\ call[w].fd \in synced

\* Without a crash, a temporary file is there only while somebody is inside.
TmpIsHeld == crashes = 0 => \A q \in Pids : tmp[q] # Absent => lock[q] # Absent

IInv == TypeOK /\ LockInv /\ NamesApart /\ InService /\ Written /\ TmpIsHeld

=============================================================================
