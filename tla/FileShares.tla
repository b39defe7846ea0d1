----------------------------- MODULE FileShares -----------------------------
(***************************************************************************)
(* Samba, NFS and DLNA sharing: nexusdash/modules/smb.py, nfs.py and       *)
(* minidlna.py. A request reads the service's configuration file, changes  *)
(* one entry, writes the whole text back through `tee` (which empties the  *)
(* file first) and makes the service read it; either may fail, and nothing *)
(* is put back. Samba texts pass testparm before, in a scratch file that   *)
(* all requests share, and Samba shares may also live in its registry. No  *)
(* lock spans these steps.                                                 *)
(***************************************************************************)
EXTENDS Naturals, FiniteSets

CONSTANTS
    Threads,     \* request threads
    Names,       \* names of shares, exported paths, media directories
    Absent,      \* the scratch file does not exist
    MaxRequests  \* bound: requests in a behaviour

VARIABLES
    files,      \* the configuration files
    dropins,    \* paths exported by files under /etc/exports.d
    registry,   \* Samba registry: the value of each share, and its other parameters
    check,      \* the scratch file of testparm
    loaded,     \* what each service runs with
    th, requests,
    failed      \* history: the files whose latest write or reload to end failed

vars == <<files, dropins, registry, check, loaded, th, requests, failed>>

File == {"smb.conf", "exports", "minidlna.conf"}
Entry == Names \cup {"global", "homes", "other"}
Value == {"none", "one", "two", "off", "bad"}   \* "bad": testparm rejects it
Empty == [e \in Entry |-> "none"]
Shares(text) == {n \in Names : text[n] # "none"}

\* Only testparm judges a text before it is applied.
Accepted(text) == \A e \in Entry : text[e] # "bad"

\* A missing [global] is filled in when smb.conf is parsed.
Parsed(f) == IF f = "smb.conf" /\ files[f]["global"] = "none"
             THEN [files[f] EXCEPT !["global"] = "one"] ELSE files[f]

Idle == [pc |-> "idle"]
Gone == [value |-> "none", foreign |-> "none"]

Init ==
    /\ \E ns \in SUBSET Names :
          files = [f \in File |-> [e \in Entry |->
                     IF e \in ns \cup {"global", "other"} THEN "one" ELSE "none"]]
    /\ dropins \in {{}} \cup {{n} : n \in {m \in Names : files["exports"][m] = "none"}}
    /\ registry \in [Names -> {Gone, [value |-> "one", foreign |-> "one"]}]
    /\ check = Absent
    /\ loaded = files
    /\ th = [t \in Threads |-> Idle]
    /\ requests = 0
    /\ failed = {}

\* A request: what it found, what it will write, and through which steps.
Start(t, f, next) ==
    /\ th[t].pc = "idle"
    /\ requests < MaxRequests
    /\ requests' = requests + 1
    /\ th' = [th EXCEPT ![t] = [pc |-> next.pc, file |-> f, text |-> next.text]]
    /\ UNCHANGED <<files, dropins, registry, check, loaded, failed>>

----------------------------------------------------------------------------
(* Samba *)

InRegistry(n) == registry[n].value # "none"

\* Without a choice of the admin a share is kept where it lives; the registry wins.
ShareSave(t) ==
    \E n \in Names, v \in {"one", "two", "bad"} :
       Start(t, "smb.conf", [pc |-> "scratch", text |-> [Parsed("smb.conf") EXCEPT ![n] = v]])

ShareDelete(t) ==
    \E n \in {m \in Names : ~InRegistry(m)} :
       Start(t, "smb.conf", [pc |-> "scratch", text |-> [Parsed("smb.conf") EXCEPT ![n] = "none"]])

ShareToggle(t) ==
    \E n \in {m \in Shares(files["smb.conf"]) : ~InRegistry(m)} :
       Start(t, "smb.conf", [pc |-> "scratch", text |->
          [Parsed("smb.conf") EXCEPT ![n] = IF @ = "off" THEN "one" ELSE "off"]])

GlobalSet(t) ==
    \E v \in {"one", "two"} :
       Start(t, "smb.conf", [pc |-> "scratch", text |-> [Parsed("smb.conf") EXCEPT !["global"] = v]])

\* The home shares are switched in the text itself, without a test.
HomesSet(t) ==
    \E v \in {"one", "none"} :
       /\ files["smb.conf"]["homes"] # v
       /\ Start(t, "smb.conf", [pc |-> "tee", text |-> [files["smb.conf"] EXCEPT !["homes"] = v]])

\* The registry is changed by `net conf` at once; smbd follows it on its own.
\* Parameters this page does not manage stay.
RegistrySave(t) ==
    /\ th[t].pc = "idle" /\ requests < MaxRequests
    /\ requests' = requests + 1
    /\ \E n \in Names, v \in {"one", "two", "off", "none"} :
          /\ v \in {"off", "none"} => InRegistry(n)
          /\ registry' = [registry EXCEPT ![n] = IF v = "none" THEN Gone ELSE [@ EXCEPT !.value = v]]
    /\ UNCHANGED <<files, dropins, check, loaded, th, failed>>

\* smbconf_apply: the candidate goes to the scratch file, testparm reads that
\* file, the file is removed, and the candidate is applied if it was accepted.
Scratch(t) ==
    /\ th[t].pc = "scratch"
    /\ check' = th[t].text
    /\ th' = [th EXCEPT ![t].pc = "test"]
    /\ UNCHANGED <<files, dropins, registry, loaded, requests, failed>>

Testparm(t) ==
    /\ th[t].pc = "test"
    /\ th' = [th EXCEPT ![t] = IF check # Absent /\ Accepted(check)
                                THEN [th[t] EXCEPT !.pc = "tee"] ELSE Idle]
    /\ check' = Absent
    /\ UNCHANGED <<files, dropins, registry, loaded, requests, failed>>

----------------------------------------------------------------------------
(* NFS and DLNA *)

\* A path that a drop-in file exports is refused; the options of an export that
\* is already there are kept.
ExportCreate(t) ==
    \E n \in Names \ dropins, v \in {"one", "two"} :
       Start(t, "exports", [pc |-> "tee", text |-> [files["exports"] EXCEPT ![n] = v]])

ExportDelete(t) ==
    \E n \in Names \ dropins :
       Start(t, "exports", [pc |-> "tee", text |-> [files["exports"] EXCEPT ![n] = "none"]])

\* The list of media directories is replaced, and must not be empty.
DlnaSet(t) ==
    \E ns \in (SUBSET Names) \ {{}}, v \in {"one", "two"} :
       Start(t, "minidlna.conf", [pc |-> "tee", text |->
          [e \in Entry |-> CASE e \in ns         -> "one"
                             [] e \in Names \ ns -> "none"
                             [] e = "global"     -> v
                             [] OTHER            -> files["minidlna.conf"][e]]])

----------------------------------------------------------------------------
(* Writing and applying *)

\* tee empties the file before the text arrives: a reader can see it empty. It may
\* not get to open it.
TeeOpen(t) ==
    /\ th[t].pc = "tee"
    /\ \/ /\ files' = [files EXCEPT ![th[t].file] = Empty]
          /\ th' = [th EXCEPT ![t].pc = "fill"]
       \/ UNCHANGED files /\ th' = [th EXCEPT ![t] = Idle]
    /\ UNCHANGED <<dropins, registry, check, loaded, requests, failed>>

\* Mutant of TeeWrite: the service is not told.
TeeQuietly(t) ==
    /\ th[t].pc = "fill"
    /\ files' = [files EXCEPT ![th[t].file] = th[t].text]
    /\ th' = [th EXCEPT ![t] = Idle]
    /\ UNCHANGED <<dropins, registry, check, loaded, requests, failed>>

\* A tee that fails here (Empty stands also for a text cut short) leaves the file as
\* it is now, and the request ends.
TeeWrite(t) ==
    /\ th[t].pc = "fill"
    /\ \/ /\ files' = [files EXCEPT ![th[t].file] = th[t].text]
          /\ th' = [th EXCEPT ![t].pc = "apply"]
          /\ UNCHANGED failed
       \/ /\ th' = [th EXCEPT ![t] = Idle]
          /\ failed' = failed \cup {th[t].file}
          /\ UNCHANGED files
    /\ UNCHANGED <<dropins, registry, check, loaded, requests>>

\* reload-or-restart, or exportfs -ra: the service reads the file as it is now. When
\* it cannot use it, or the command fails, it keeps what it has.
Reload(t) ==
    LET f == th[t].file
    IN  /\ th[t].pc = "apply"
        /\ \/ /\ Accepted(files[f])
              /\ loaded' = [loaded EXCEPT ![f] = files[f]]
              /\ failed' = failed \ {f}
           \/ UNCHANGED loaded /\ failed' = failed \cup {f}
        /\ th' = [th EXCEPT ![t] = Idle]
        /\ UNCHANGED <<files, dropins, registry, check, requests>>

Next == \E t \in Threads :
            \/ ShareSave(t) \/ ShareDelete(t) \/ ShareToggle(t) \/ GlobalSet(t) \/ HomesSet(t)
            \/ RegistrySave(t) \/ Scratch(t) \/ Testparm(t)
            \/ ExportCreate(t) \/ ExportDelete(t) \/ DlnaSet(t)
            \/ TeeOpen(t) \/ TeeWrite(t) \/ Reload(t)

Spec == Init /\ [][Next]_vars

----------------------------------------------------------------------------
(* Properties *)

AtRest(f) == \A t \in Threads : th[t].pc = "idle" \/ th[t].file # f

\* However requests overlap, when nobody is on a file its service runs with it: each
\* request reloads after its own write, so the last write is read. The code puts
\* nothing back: the files whose latest write or reload to end failed are left out,
\* until a request gets through (smbconf_apply, nfs_export_create, minidlna_apply).
SharesServed == \A f \in File \ failed : AtRest(f) /\ Accepted(files[f]) => loaded[f] = files[f]

----------------------------------------------------------------------------
(* What makes SharesServed inductive *)

Texts == [Entry -> Value]
TypeOK ==
    /\ files \in [File -> Texts]
    /\ loaded \in [File -> Texts]
    /\ th \in [Threads -> {Idle} \cup [pc : {"scratch", "test", "tee", "fill", "apply"},
                                       file : File, text : Texts]]
    /\ failed \subseteq File

\* A file its service does not run with is still being written, or read after it.
ReloadComes ==
    \A f \in File \ failed : Accepted(files[f]) /\ loaded[f] # files[f]
        => \E t \in Threads : th[t].pc \in {"fill", "apply"} /\ th[t].file = f

IInv == TypeOK /\ ReloadComes
=============================================================================
