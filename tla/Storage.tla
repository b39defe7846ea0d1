------------------------------ MODULE Storage ------------------------------
(***************************************************************************)
(* The storage pages: disks and file systems (nexusdash/modules/disks.py), *)
(* ZFS pools (zfs.py), LVM (lvm.py) and md arrays (mdraid.py). They share  *)
(* the disks and nothing else: each route asks the system what a disk      *)
(* holds, decides, and then runs commands; nothing is locked in between.   *)
(*                                                                         *)
(* One pool, one volume group and one array are enough for every pair of   *)
(* pages to meet on a disk. A disk stands for the disk and its partitions. *)
(***************************************************************************)
EXTENDS Naturals, FiniteSets

CONSTANTS
    Threads,      \* request threads
    Disks,        \* data disks
    Absent,       \* a pool, volume group or array that does not exist
    MaxRequests   \* bound: requests

VARIABLES
    holds,     \* the signature lsblk shows for a disk
    mounted,   \* disks whose file system is mounted
    fstab,     \* disks whose file system is in the managed part of fstab
    pool, vg,
    md,        \* the array, assembled ("up") or only its superblocks
    conf,      \* the line of mdadm.conf for the array: ARRAY /dev/md127 ("kernel"),
               \* ARRAY /dev/md/<name> ("name"), or "none"
    th, requests,
    cleared,   \* history: disks cleared while something used them
    excused    \* history: a request began while another was unfinished, or a wipe while
               \* zpool status gave nothing

system == <<holds, mounted, fstab, pool, vg, md, conf>>
vars == <<system, th, requests, cleared, excused>>

Signature == {"blank", "fs", "zfs_member", "LVM2_member", "linux_raid_member"}
Spelling == {"kernel", "name"}
Idle == [op |-> "idle", disks |-> {}]

PoolDisks == IF pool = Absent THEN {} ELSE pool.disks
LivePool == IF pool # Absent /\ pool.imported THEN pool.disks ELSE {}
VgDisks == IF vg = Absent THEN {} ELSE vg.disks
MdDisks == IF md = Absent THEN {} ELSE md.disks
MdUp == IF md # Absent /\ md.up THEN md.disks ELSE {}
Pvs == {d \in Disks : holds[d] = "LVM2_member"}

\* What the kernel refuses to open exclusively; of that, an array nobody uses is stale
\* unless mdadm.conf has it. lsblk knows the array by its kernel name, so a line with
\* the name it was created under does not count.
Busy == mounted \cup LivePool \cup VgDisks \cup MdUp
InUse == mounted \cup LivePool \cup VgDisks
         \cup (IF md # Absent /\ (md.used \/ conf = "kernel") THEN MdUp ELSE {})

Init ==
    /\ mounted = {} /\ fstab = {}
    /\ \/ /\ holds = [d \in Disks |-> "blank"]
          /\ vg = Absent /\ pool = Absent /\ md = Absent /\ conf = "none"
       \/ \E D \in (SUBSET Disks) \ {{}}, lv \in {"none", "plain", "mounted"} :   \* a volume group
            /\ holds = [x \in Disks |-> IF x \in D THEN "LVM2_member" ELSE "blank"]
            /\ vg = [disks |-> D, lv |-> lv, on |-> IF lv = "none" THEN {} ELSE D]
            /\ pool = Absent /\ md = Absent /\ conf = "none"
       \/ \E d \in Disks :   \* a pool in service
            /\ holds = [x \in Disks |-> IF x = d THEN "zfs_member" ELSE "fs"]
            /\ pool = [disks |-> {d}, imported |-> TRUE, stable |-> FALSE]
            /\ vg = Absent /\ md = Absent /\ conf = "none"
       \/ /\ holds = [d \in Disks |-> "linux_raid_member"]   \* auto-assembled at boot
          /\ \E spelled \in Spelling :
                md = [disks |-> Disks, up |-> TRUE, used |-> FALSE, spelled |-> spelled]
          /\ vg = Absent /\ pool = Absent /\ conf \in {"none"} \cup Spelling
    /\ th = [t \in Threads |-> Idle]
    /\ requests = 0 /\ cleared = {} /\ excused = FALSE

----------------------------------------------------------------------------
(* The checks *)

\* Mutant of Wipeable: takes any array for stale.
WipeableUsedArrays(d) ==
    /\ d \notin mounted
    /\ ~(holds[d] = "zfs_member" /\ d \in LivePool)
    /\ holds[d] # "LVM2_member"

\* disk_wipe_status, given the disks that zpool status lists.
Stale(d, listed) ==
    /\ d \notin mounted
    /\ ~(holds[d] = "zfs_member" /\ d \in listed)
    /\ holds[d] # "LVM2_member"
    /\ d \in MdUp => ~md.used /\ conf # "kernel"

Wipeable(d) == Stale(d, LivePool)

\* _device_free_for_pv and _zfs_disk_usable.
Free(d) == d \notin mounted /\ holds[d] \in {"blank", "fs"}
Standalone(d) == d \in Pvs \ VgDisks
VgMounted == vg # Absent /\ vg.lv = "mounted"

\* What a route asks for, and the condition under which it goes ahead.
Request ==
    {[op |-> o, disks |-> {d}] : o \in {"wipe", "format", "mount", "unmount", "replace",
         "detach", "pvcreate", "pvremove", "vgextend", "vgreduce", "pvmove", "mdadd", "mdremove"}, d \in Disks}
    \cup {[op |-> o, disks |-> D] : o \in {"zpoolcreate", "zpooladd", "vgcreate", "mdcreate"},
                                    D \in (SUBSET Disks) \ {{}}}
    \cup {[op |-> o, disks |-> {}] : o \in {"zpooldestroy", "export", "import", "stabilize",
         "vgremove", "lvcreate", "lvremove", "mdstop", "mdassemble", "mddelete"}}

Admitted(r) ==
    CASE r.op \in {"wipe", "format"} -> \A d \in r.disks : Wipeable(d)
      [] r.op = "mount" -> \A d \in r.disks : holds[d] = "fs" /\ d \notin mounted
      [] r.op = "unmount" -> r.disks \subseteq mounted
      [] r.op \in {"zpoolcreate", "zpooladd", "pvcreate", "mdadd"} -> \A d \in r.disks : Free(d)
      [] r.op = "mdcreate" -> Cardinality(r.disks) >= 2 /\ \A d \in r.disks : Free(d)
      [] r.op = "pvremove" -> r.disks \cap VgDisks = {}
      [] r.op \in {"vgcreate", "vgextend"} -> \A d \in r.disks : Standalone(d)
      [] r.op \in {"vgreduce", "vgremove"} -> ~VgMounted
      [] r.op = "pvmove" -> r.disks \subseteq VgDisks => ~VgMounted
      [] r.op = "lvremove" -> ~VgMounted
      [] r.op \in {"mdstop", "mddelete"} -> md # Absent /\ ~md.used
      [] OTHER -> TRUE

\* _zpool_disk_map takes a zpool status that fails for one without pools.
Blindly(r) == r.op \in {"wipe", "format"} /\ \A d \in r.disks : Stale(d, {})

Begin(t) ==
    /\ th[t] = Idle /\ requests < MaxRequests
    /\ requests' = requests + 1
    /\ \E r \in Request :
          /\ Admitted(r) \/ Blindly(r)
          /\ th' = [th EXCEPT ![t] = r]
          /\ excused' = (excused \/ ~Admitted(r) \/ \E o \in Threads \ {t} : th[o] # Idle)
    /\ UNCHANGED <<system, cleared>>

----------------------------------------------------------------------------
(* The commands. A command the system refuses leaves everything as it was. *)

Goto(t, state) == th' = [th EXCEPT ![t] = state]
Done(t) == Goto(t, Idle)
Is(t, op) == th[t].op = op
The(t) == CHOOSE d \in th[t].disks : TRUE
Become(D, sig) == holds' = [d \in Disks |-> IF d \in D THEN sig ELSE holds[d]]

Refused(t) ==
    /\ th[t].op \notin {"idle", "wipe", "format", "clear", "zap", "mkfs", "reimport", "recover", "zero"}
    /\ Done(t)
    /\ UNCHANGED <<system, requests, cleared, excused>>

\* Wipe and format go through every step whatever the one before answered.
StopStale(t) ==
    /\ Is(t, "wipe") \/ Is(t, "format")
    /\ md' = IF Is(t, "wipe") /\ The(t) \in MdUp /\ ~md.used THEN [md EXCEPT !.up = FALSE] ELSE md
    /\ cleared' = cleared \cup ({The(t)} \cap InUse)
    /\ Goto(t, [op |-> "clear", disks |-> th[t].disks, format |-> Is(t, "format")])
    /\ UNCHANGED <<holds, mounted, fstab, pool, vg, conf, requests, excused>>

\* wipefs, labelclear and zero-superblock need the disk for themselves.
Clear(t) ==
    /\ Is(t, "clear")
    /\ IF The(t) \in Busy THEN UNCHANGED holds ELSE Become({The(t)}, "blank")
    /\ Goto(t, [th[t] EXCEPT !.op = "zap"])
    /\ UNCHANGED <<mounted, fstab, pool, vg, md, conf, requests, cleared, excused>>

\* sgdisk does not: the partition table goes, and with it what the disk held.
Forget(D) ==
    /\ pool' = IF pool = Absent \/ pool.imported THEN pool
               ELSE IF pool.disks \subseteq D THEN Absent ELSE [pool EXCEPT !.disks = @ \ D]
    /\ md' = IF md = Absent \/ md.up THEN md
             ELSE IF md.disks \subseteq D THEN Absent ELSE [md EXCEPT !.disks = @ \ D]

Zap(t) ==
    /\ Is(t, "zap")
    /\ Become({The(t)}, "blank")
    /\ cleared' = cleared \cup ({The(t)} \cap InUse)
    /\ fstab' = fstab \ {The(t)}
    /\ Forget({The(t)})
    /\ IF th[t].format THEN Goto(t, [th[t] EXCEPT !.op = "mkfs"]) ELSE Done(t)
    /\ UNCHANGED <<mounted, vg, conf, requests, excused>>

\* A partition that does not appear ends the request without a file system.
Mkfs(t) ==
    /\ Is(t, "mkfs")
    /\ \/ The(t) \notin Busy /\ Become({The(t)}, "fs")
       \/ UNCHANGED holds
    /\ Done(t)
    /\ UNCHANGED <<mounted, fstab, pool, vg, md, conf, requests, cleared, excused>>

Mount(t) ==
    /\ \/ Is(t, "mount") /\ holds[The(t)] = "fs" /\ The(t) \notin Busy
          /\ mounted' = mounted \cup th[t].disks
          /\ fstab' \in {fstab, fstab \cup th[t].disks}
       \/ Is(t, "unmount") /\ mounted' = mounted \ th[t].disks
          /\ fstab' \in {fstab, fstab \ th[t].disks}
    /\ Done(t)
    /\ UNCHANGED <<holds, pool, vg, md, conf, requests, cleared, excused>>

\* -f makes ZFS take a disk that holds something, not one that is busy.
PoolGrow(t) ==
    /\ th[t].disks \cap Busy = {}
    /\ \/ Is(t, "zpoolcreate") /\ pool = Absent
          /\ pool' = [disks |-> th[t].disks, imported |-> TRUE, stable |-> TRUE]
       \/ Is(t, "zpooladd") /\ pool # Absent /\ pool.imported
          /\ pool' = [pool EXCEPT !.disks = @ \cup th[t].disks]
    /\ Become(th[t].disks, "zfs_member")
    /\ Done(t)
    /\ UNCHANGED <<mounted, fstab, vg, md, conf, requests, cleared, excused>>

\* Nothing is checked here. Without -f, zpool replace wants a blank disk; what
\* leaves a pool by replace, detach or remove loses its label.
Replace(t) ==
    /\ pool # Absent /\ pool.imported
    /\ \/ Is(t, "replace") /\ The(t) \notin Busy /\ holds[The(t)] = "blank"
          /\ \E old \in pool.disks :
                /\ pool' = [pool EXCEPT !.disks = (@ \ {old}) \cup th[t].disks]
                /\ holds' = [holds EXCEPT ![old] = "blank", ![The(t)] = "zfs_member"]
       \/ Is(t, "detach") /\ The(t) \in pool.disks /\ Cardinality(pool.disks) > 1
          /\ pool' = [pool EXCEPT !.disks = @ \ th[t].disks]
          /\ Become(th[t].disks, "blank")
    /\ Done(t)
    /\ UNCHANGED <<mounted, fstab, vg, md, conf, requests, cleared, excused>>

Importable == /\ pool # Absent
              /\ pool.disks \cap (Busy \ LivePool) = {}
              /\ \A d \in pool.disks : holds[d] = "zfs_member"

\* Labels stay behind when a pool is destroyed.
PoolLeave(t) ==
    /\ pool # Absent
    /\ \/ Is(t, "zpooldestroy") /\ pool.imported /\ pool' = Absent /\ Done(t)
       \/ Is(t, "export") /\ pool' = [pool EXCEPT !.imported = FALSE] /\ Done(t)
       \/ Is(t, "import") /\ Importable /\ pool' = [pool EXCEPT !.imported = TRUE] /\ Done(t)
       \/ Is(t, "stabilize") /\ pool.imported
          /\ pool' = [pool EXCEPT !.imported = FALSE]
          /\ Goto(t, [op |-> "reimport", disks |-> {}])
    /\ UNCHANGED <<holds, mounted, fstab, vg, md, conf, requests, cleared, excused>>

\* Stabilize: import by id, and by the old names when that fails.
Reimport(t) ==
    /\ \/ Is(t, "reimport")
          /\ \/ Importable /\ Done(t) /\ pool' = [pool EXCEPT !.imported = TRUE, !.stable = TRUE]
             \/ UNCHANGED pool /\ Goto(t, [th[t] EXCEPT !.op = "recover"])
       \/ Is(t, "recover") /\ Done(t)
          /\ pool' \in {pool} \cup (IF Importable THEN {[pool EXCEPT !.imported = TRUE]} ELSE {})
    /\ UNCHANGED <<holds, mounted, fstab, vg, md, conf, requests, cleared, excused>>

Lvm(t) ==
    /\ \/ Is(t, "pvcreate") /\ The(t) \notin Busy /\ holds[The(t)] = "blank"
          /\ Become(th[t].disks, "LVM2_member") /\ UNCHANGED vg
       \/ Is(t, "pvremove") /\ Standalone(The(t))
          /\ Become(th[t].disks, "blank") /\ UNCHANGED vg
       \/ Is(t, "vgcreate") /\ vg = Absent /\ (\A d \in th[t].disks : Standalone(d))
          /\ vg' = [disks |-> th[t].disks, lv |-> "none", on |-> {}] /\ UNCHANGED holds
       \/ Is(t, "vgextend") /\ vg # Absent /\ Standalone(The(t))
          /\ vg' = [vg EXCEPT !.disks = @ \cup th[t].disks] /\ UNCHANGED holds
       \/ Is(t, "vgreduce") /\ vg # Absent /\ The(t) \in vg.disks \ vg.on
          /\ Cardinality(vg.disks) > 1
          /\ vg' = [vg EXCEPT !.disks = @ \ th[t].disks] /\ UNCHANGED holds
       \/ Is(t, "pvmove") /\ vg # Absent /\ The(t) \in vg.on
          /\ (\E d \in vg.disks \ th[t].disks :
                 vg' = [vg EXCEPT !.on = (@ \ th[t].disks) \cup {d}]) /\ UNCHANGED holds
       \/ Is(t, "vgremove") /\ vg # Absent /\ vg.lv = "none" /\ vg' = Absent /\ UNCHANGED holds
       \/ Is(t, "lvcreate") /\ vg # Absent /\ vg.lv = "none"
          /\ (\E D \in SUBSET vg.disks \ {{}} :
                 vg' = [vg EXCEPT !.lv = "plain", !.on = D]) /\ UNCHANGED holds
       \/ Is(t, "lvremove") /\ vg # Absent /\ vg.lv = "plain"
          /\ vg' = [vg EXCEPT !.lv = "none", !.on = {}] /\ UNCHANGED holds
    /\ Done(t)
    /\ UNCHANGED <<mounted, fstab, pool, md, conf, requests, cleared, excused>>

\* _md_sync_conf: the arrays of mdadm.conf become the assembled ones, as mdadm spells
\* them. A scan that gives nothing leaves none, and the write may fail.
Synced(array) ==
    {conf, "none"} \cup (IF array # Absent /\ array.up THEN {array.spelled} ELSE {})

MdChange(t) ==
    /\ \/ Is(t, "mdcreate") /\ md = Absent /\ th[t].disks \cap Busy = {}
          /\ md' = [disks |-> th[t].disks, up |-> TRUE, used |-> FALSE, spelled |-> "name"]
          /\ Become(th[t].disks, "linux_raid_member")
          /\ conf' \in Synced(md') /\ Done(t)
       \/ Is(t, "mdadd") /\ md # Absent /\ md.up /\ The(t) \notin Busy
          /\ md' = [md EXCEPT !.disks = @ \cup th[t].disks]
          /\ Become(th[t].disks, "linux_raid_member")
          /\ conf' \in Synced(md') /\ Done(t)
       \/ Is(t, "mdremove") /\ md # Absent /\ md.up /\ Cardinality(md.disks) > 1
          /\ th[t].disks \subseteq md.disks
          /\ md' = [md EXCEPT !.disks = @ \ th[t].disks]
          /\ conf' \in Synced(md') /\ Done(t) /\ UNCHANGED holds
       \/ Is(t, "mdstop") /\ md # Absent /\ ~md.used
          /\ md' = [md EXCEPT !.up = FALSE] /\ Done(t) /\ UNCHANGED <<holds, conf>>
       \/ Is(t, "mdassemble") /\ md # Absent /\ ~md.up
          /\ (\E d \in md.disks : holds[d] = "linux_raid_member")
          /\ md' = [md EXCEPT !.disks = {d \in @ : holds[d] = "linux_raid_member"}, !.up = TRUE]
          /\ Done(t) /\ UNCHANGED <<holds, conf>>
       \/ Is(t, "mddelete") /\ md # Absent
          /\ md' = (IF md.used THEN md ELSE [md EXCEPT !.up = FALSE])
          /\ Goto(t, [op |-> "zero", disks |-> MdUp]) /\ UNCHANGED <<holds, conf>>
    /\ UNCHANGED <<mounted, fstab, pool, vg, requests, cleared, excused>>

\* mdadm_delete zeroes the superblocks of the members it listed, then syncs.
ZeroMembers(t) ==
    /\ Is(t, "zero")
    /\ LET freed == {d \in th[t].disks : holds[d] = "linux_raid_member"} \ Busy IN
       /\ Become(freed, "blank")
       /\ md' = IF md # Absent /\ md.disks \subseteq freed THEN Absent ELSE md
       /\ conf' \in Synced(md')
    /\ Done(t)
    /\ UNCHANGED <<mounted, fstab, pool, vg, requests, cleared, excused>>

\* Elsewhere on the host: the array and the volume come into use or out of it.
Use ==
    /\ \/ md # Absent /\ md.up /\ md' = [md EXCEPT !.used = ~@] /\ UNCHANGED vg
       \/ vg # Absent /\ vg.lv # "none" /\ UNCHANGED md
          /\ vg' = [vg EXCEPT !.lv = IF @ = "plain" THEN "mounted" ELSE "plain"]
    /\ requests < MaxRequests /\ requests' = requests + 1
    /\ excused' = (excused \/ \E o \in Threads : th[o] # Idle)
    /\ UNCHANGED <<holds, mounted, fstab, pool, conf, th, cleared>>

Next ==
    \/ \E t \in Threads :
          \/ Begin(t) \/ Refused(t) \/ StopStale(t) \/ Clear(t) \/ Zap(t) \/ Mkfs(t) \/ Mount(t)
          \/ PoolGrow(t) \/ Replace(t) \/ PoolLeave(t) \/ Reimport(t)
          \/ Lvm(t) \/ MdChange(t) \/ ZeroMembers(t)
    \/ Use

Spec == Init /\ [][Next]_vars

----------------------------------------------------------------------------
TypeOK ==
    /\ holds \in [Disks -> Signature]
    /\ mounted \subseteq Disks /\ fstab \subseteq Disks
    /\ pool = Absent \/ pool \in [disks : SUBSET Disks, imported : BOOLEAN, stable : BOOLEAN]
    /\ vg = Absent \/ vg \in [disks : SUBSET Disks, lv : {"none", "plain", "mounted"}, on : SUBSET Disks]
    /\ md = Absent \/ md \in [disks : SUBSET Disks, up : BOOLEAN, used : BOOLEAN, spelled : Spelling]
    /\ conf \in {"none"} \cup Spelling /\ excused \in BOOLEAN

\* No series of requests, each answered before the next, stops or clears what a mount,
\* a pool, a volume group or an array in use has on a disk: every page's check sees
\* what the other pages made ("protects boot/system disks, mounted disks, live ZFS/LVM
\* members", disk_wipe_status). Two things the check does not see are excused: a pool
\* while zpool status gives nothing, and an unused array that mdadm.conf has under the
\* name it was created with.
LiveDisksKept == excused \/ cleared = {}

----------------------------------------------------------------------------
(* What makes LiveDisksKept inductive *)

\* A request and how far it has come.
Underway ==
    Request \cup {Idle}
    \cup [op : {"clear", "zap", "mkfs"}, disks : {{d} : d \in Disks}, format : BOOLEAN]
    \cup [op : {"reimport", "recover"}, disks : {{}}]
    \cup [op : {"zero"}, disks : SUBSET Disks]

\* The check of a wipe sees what a pool or a volume group uses by its signature.
Labelled ==
    \A d \in Disks :
        /\ d \in LivePool => holds[d] = "zfs_member"
        /\ d \in VgDisks => holds[d] = "LVM2_member"

\* What it found holds until the last command.
Spared(t) == th[t].op \in {"wipe", "format", "clear", "zap"} => The(t) \notin InUse

IInv ==
    /\ TypeOK
    /\ th \in [Threads -> Underway]
    /\ LiveDisksKept
    /\ ~excused =>
         /\ \A t, o \in Threads : t # o => th[t] = Idle \/ th[o] = Idle
         /\ Labelled
         /\ \A t \in Threads : Spared(t)

=============================================================================
