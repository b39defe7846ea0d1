------------------------------- MODULE Power -------------------------------
(***************************************************************************)
(* The UPS server and monitor pages: nexusdash/modules/nut.py, upsmon.py   *)
(* and the root helper nexus-dashboard-nut of install.sh.                  *)
(*                                                                         *)
(* A request reads every managed file, merges its change into one of them  *)
(* and hands the whole text to the helper, which replaces the file,        *)
(* restarts the units that read it and, when one of them does not return,  *)
(* writes the previous text back in place. No lock spans these steps: two  *)
(* requests may overlap, and the services page starts and stops the units  *)
(* (nexusdash/core/svc_actions.py) at any moment.                          *)
(*                                                                         *)
(* A file is a function from its entries to values: named sections (UPS    *)
(* devices, users, MONITOR lines), one setting (MODE, LISTEN, a scalar of  *)
(* upsmon.conf), and everything the pages do not manage.                   *)
(***************************************************************************)
EXTENDS Naturals, Sequences

CONSTANTS
    Threads,     \* request threads
    Names,       \* names of devices, users and monitored systems
    MaxRequests  \* bound: requests in a behaviour, those of the services page with them

VARIABLES
    files,       \* the five files on disk
    active,      \* the units that run
    loaded,      \* what each unit read when it last (re)started or reloaded
    th,          \* what each request thread is doing
    requests,
    disturbed,   \* history: a helper ran beside another one or a service action, or
                 \* its put-back failed
    lost         \* history: a page or a helper read nothing where there was a text, or
                 \* a put-back failed

vars == <<files, active, loaded, th, requests, disturbed, lost>>

File == {"nut.conf", "ups.conf", "upsd.conf", "upsd.users", "upsmon.conf"}
Unit == {"drivers", "server", "monitor"}
Entry == Names \cup {"set", "other"}
Value == {"none", "one", "two", "bad"}  \* "bad": no daemon starts with it

Reads == [drivers |-> {"ups.conf"},
          server  |-> {"nut.conf", "ups.conf", "upsd.conf", "upsd.users"},
          monitor |-> {"nut.conf", "upsmon.conf"}]

Sections(content) == {n \in Names : content[n] # "none"}
Text(u, fs) == [f \in Reads[u] |-> fs[f]]

\* upsmon refuses to start without a MONITOR line.
Refuses(u, fs) == \/ \E f \in Reads[u], e \in Entry : fs[f][e] = "bad"
                  \/ u = "monitor" /\ Sections(fs["upsmon.conf"]) = {}

\* Mutant of Plan: upsmon is not told of a new MODE.
PlanWithoutMonitor(f) == IF f = "nut.conf" THEN <<"drivers", "server">>
                         ELSE IF f = "ups.conf" THEN <<"drivers", "server">>
                         ELSE IF f = "upsmon.conf" THEN <<"monitor">> ELSE <<"server">>

\* Which units a file concerns, in order.
Plan(f) == CASE f = "nut.conf"   -> <<"drivers", "server", "monitor">>
             [] f = "ups.conf"   -> <<"drivers", "server">>
             [] f \in {"upsd.conf", "upsd.users"} -> <<"server">>
             [] f = "upsmon.conf" -> <<"monitor">>

----------------------------------------------------------------------------
(* Requests: what the routes let through, given the files they read *)

DeviceEdits(fs) ==
    {[file |-> "ups.conf", entry |-> n, value |-> v] : n \in Names, v \in {"one", "bad"}}
    \cup {[file |-> "ups.conf", entry |-> n, value |-> "none"] : n \in Sections(fs["ups.conf"])}

\* A user or monitor that exists may leave out its password and keeps it.
UserEdits(fs) ==
    {[file |-> "upsd.users", entry |-> n, value |-> v] : n \in Names, v \in {"one"}}
    \cup {[file |-> "upsd.users", entry |-> n, value |-> "none"] : n \in Sections(fs["upsd.users"])}

\* At least one LISTEN address.
ServerEdits(fs) == {[file |-> "upsd.conf", entry |-> "set", value |-> v] : v \in {"two", "bad"}}

ModeEdits(fs) == {[file |-> "nut.conf", entry |-> "set", value |-> v] : v \in {"two", "bad"}}

\* Mutant of MonitorEdits: the last MONITOR line may be removed.
MonitorEditsAny(fs) ==
    LET mons == Sections(fs["upsmon.conf"])
    IN  {[file |-> "upsmon.conf", entry |-> n, value |-> v] : n \in Names, v \in {"one"}}
        \cup {[file |-> "upsmon.conf", entry |-> n, value |-> "none"] : n \in mons}

\* The last MONITOR line cannot be removed.
MonitorEdits(fs) ==
    LET mons == Sections(fs["upsmon.conf"])
    IN  {[file |-> "upsmon.conf", entry |-> n, value |-> v] : n \in Names, v \in {"one"}}
        \cup {[file |-> "upsmon.conf", entry |-> n, value |-> "none"] :
                 n \in {m \in mons : mons # {m}}}

SettingEdits(fs) ==
    {[file |-> "upsmon.conf", entry |-> "set", value |-> v] : v \in {"none", "two", "bad"}}

Edits(fs) == DeviceEdits(fs) \cup UserEdits(fs) \cup ServerEdits(fs) \cup ModeEdits(fs)
             \cup MonitorEdits(fs) \cup SettingEdits(fs)

\* Every rewrite is a merge into the text that was read.
Merged(content, edit) == [content EXCEPT ![edit.entry] = edit.value]

----------------------------------------------------------------------------
Idle == [pc |-> "idle"]
Empty == [e \in Entry |-> "none"]
Writing == {"written", "restored"}
Helper == {"started", "written", "refused", "emptied", "restored"}
Helping == {t \in Threads : th[t].pc \in Helper}

Init ==
    /\ \E ns \in (SUBSET Names) \ {{}} :
         files = [f \in File |-> [e \in Entry |->
                     IF e \in ns \cup {"set", "other"} THEN "one" ELSE "none"]]
    /\ active \in [Unit -> BOOLEAN]
    /\ loaded = [u \in Unit |-> Text(u, files)]
    /\ th = [t \in Threads |-> Idle]
    /\ requests = 0
    /\ disturbed = FALSE
    /\ lost = FALSE

\* read_all, then the checks of the route and the merge. A file that could not be
\* read, or is being put back, counts as an empty one. (No managed file is empty by
\* itself: each has lines the pages do not manage.)
Request(t) ==
    /\ th[t].pc = "idle"
    /\ requests < MaxRequests
    /\ requests' = requests + 1
    /\ \E fs \in {files, [f \in File |-> Empty]} : \E edit \in Edits(fs) :
          /\ th' = [th EXCEPT ![t] = [pc |-> "asked", file |-> edit.file,
                                      text |-> Merged(fs[edit.file], edit)]]
          /\ lost' = (lost \/ fs[edit.file] = Empty)
    /\ UNCHANGED <<files, active, loaded, disturbed>>

\* The helper keeps the previous text and notes which units run.
HelperStart(t) ==
    /\ th[t].pc = "asked"
    /\ th' = [th EXCEPT ![t] = [pc |-> "started", file |-> th[t].file, text |-> th[t].text,
                                prev |-> files[th[t].file], was |-> active]]
    /\ disturbed' = (disturbed \/ Helping # {})
    /\ lost' = (lost \/ files[th[t].file] = Empty)
    /\ UNCHANGED <<files, active, loaded, requests>>

\* The text goes to a temporary file, which may fail, and takes the place of the old one.
HelperWrite(t) ==
    /\ th[t].pc = "started"
    /\ \/ /\ files' = [files EXCEPT ![th[t].file] = th[t].text]
          /\ th' = [th EXCEPT ![t].pc = "written"]
       \/ UNCHANGED files /\ th' = [th EXCEPT ![t] = Idle]
    /\ UNCHANGED <<active, loaded, requests, disturbed, lost>>

\* Run the plan: units that did not run are left alone, and the first one that
\* refuses ends it. A refused restart stops the unit, a refused reload does not.
Concerned(t) == {i \in DOMAIN Plan(th[t].file) : th[t].was[Plan(th[t].file)[i]]}
Refusing(t) == {i \in Concerned(t) : Refuses(Plan(th[t].file)[i], files)}
Reloads(f, u) == u = "server" /\ f \in {"ups.conf", "upsd.users"}
Done(t, u) == \E i \in Concerned(t) : /\ u = Plan(th[t].file)[i]
                                      /\ \A j \in Refusing(t) : i < j
Fails(t, u) == \E i \in Refusing(t) : /\ u = Plan(th[t].file)[i]
                                      /\ \A j \in Refusing(t) : i <= j

Apply(t) ==
    /\ th[t].pc \in Writing
    /\ loaded' = [u \in Unit |-> IF Done(t, u) THEN Text(u, files) ELSE loaded[u]]
    /\ active' = [u \in Unit |-> \/ Done(t, u)
                                 \/ active[u] /\ ~(Fails(t, u) /\ ~Reloads(th[t].file, u))]
    /\ th' = [th EXCEPT ![t] = IF Refusing(t) # {} /\ th[t].pc = "written"
                               THEN [th[t] EXCEPT !.pc = "refused"] ELSE Idle]
    /\ UNCHANGED <<files, requests, disturbed, lost>>

\* A unit refused the new text: the file is emptied, in place, ...
Restore(t) ==
    /\ th[t].pc = "refused"
    /\ files' = [files EXCEPT ![th[t].file] = Empty]
    /\ th' = [th EXCEPT ![t].pc = "emptied"]
    /\ UNCHANGED <<active, loaded, requests, disturbed, lost>>

\* ... and gets its previous text, or the file that another helper has replaced since
\* does. A write that fails ends the helper.
Refill(t) ==
    /\ th[t].pc = "emptied"
    /\ \/ /\ \/ files' = [files EXCEPT ![th[t].file] = th[t].prev]
             \/ files[th[t].file] # Empty /\ UNCHANGED files
          /\ th' = [th EXCEPT ![t].pc = "restored"]
          /\ UNCHANGED <<disturbed, lost>>
       \/ /\ th' = [th EXCEPT ![t] = Idle]
          /\ disturbed' = TRUE
          /\ lost' = TRUE
          /\ UNCHANGED files
    /\ UNCHANGED <<active, loaded, requests>>

\* The services page stops, starts or restarts a unit, whoever is at work.
Service(u) ==
    /\ requests < MaxRequests
    /\ requests' = requests + 1
    /\ \/ /\ active' = [active EXCEPT ![u] = FALSE]
          /\ UNCHANGED loaded
       \/ /\ active' = [active EXCEPT ![u] = ~Refuses(u, files)]
          /\ loaded' = IF Refuses(u, files) THEN loaded
                       ELSE [loaded EXCEPT ![u] = Text(u, files)]
    /\ disturbed' = (disturbed \/ Helping # {})
    /\ UNCHANGED <<files, th, lost>>

Next == \/ \E t \in Threads : \/ Request(t) \/ HelperStart(t) \/ HelperWrite(t)
                              \/ Apply(t) \/ Restore(t) \/ Refill(t)
        \/ \E u \in Unit : Service(u)

Spec == Init /\ [][Next]_vars

----------------------------------------------------------------------------
(* Properties *)

\* What each file needs, and what the pages do not manage.
Essential(f, content) ==
    /\ f = "upsmon.conf" => Sections(content) # {}
    /\ f = "upsd.conf" => content["set"] # "none"
    /\ content["other"] = "one"
BeingPutBack(f) == \E t \in Threads : th[t].pc = "emptied" /\ th[t].file = f

\* Two requests at once, each removing what it sees the other keep, never leave
\* upsmon without a MONITOR line or upsd without a LISTEN address, and what the
\* pages do not manage survives, but for the moment of a put-back; unless a page or a
\* helper read nothing where there was a text, or a put-back failed
\* (upsmon_monitor_delete, merge_directives).
EssentialsStay == ~lost => \A f \in File : BeingPutBack(f) \/ Essential(f, files[f])

\* Unless a helper was disturbed, a unit that runs runs on what is on disk, also
\* after a text it refused was taken back ("the file on disk and the running
\* config never diverge", write_conf).
DiskIsRunning ==
    (\A t \in Threads : th[t].pc \in {"idle", "asked"}) /\ ~disturbed
        => \A u \in Unit : active[u] => loaded[u] = Text(u, files)

----------------------------------------------------------------------------
(* What makes them inductive *)

Texts == [Entry -> Value]
TypeOK ==
    /\ files \in [File -> Texts]
    /\ active \in [Unit -> BOOLEAN]
    /\ DOMAIN loaded = Unit
    /\ th \in [Threads -> {Idle} \cup [pc : {"asked"}, file : File, text : Texts]
                          \cup [pc : Helper, file : File, text : Texts, prev : Texts,
                                was : [Unit -> BOOLEAN]]]

\* Every text on disk, to be written or to be put back has what its file needs.
EssentialTexts ==
    /\ \A f \in File : Essential(f, files[f]) \/ (files[f] = Empty /\ BeingPutBack(f))
    /\ \A t \in Threads :
          /\ th[t].pc # "idle" => Essential(th[t].file, th[t].text)
          /\ th[t].pc \in Helper => Essential(th[t].file, th[t].prev)

\* A unit that runs, runs on these files, and would start with them again.
Steady(u, fs) == active[u] => loaded[u] = Text(u, fs) /\ ~Refuses(u, fs)

\* The files without what the helper of t wrote.
Before(t) == [files EXCEPT ![th[t].file] = th[t].prev]
Planned(f, u) == \E i \in DOMAIN Plan(f) : Plan(f)[i] = u

\* One helper runs at a time. Until it has applied its text, units are as the files
\* were before; when one refused, whatever ran before can be brought back.
HelperAlone ==
    /\ \A t, o \in Threads : th[t].pc \in Helper /\ th[o].pc \in Helper => t = o
    /\ (\A t \in Threads : th[t].pc \notin Helper) => \A u \in Unit : Steady(u, files)
    /\ \A t \in Threads :
          /\ th[t].pc \in {"started", "restored"} => files[th[t].file] = th[t].prev
          /\ th[t].pc \in {"started", "written"} =>
                th[t].was = active /\ \A u \in Unit : Steady(u, Before(t))
          /\ th[t].pc = "emptied" => files[th[t].file] = Empty
          /\ th[t].pc \in {"refused", "emptied", "restored"} => \A u \in Unit :
                /\ th[t].was[u] => ~Refuses(u, Before(t))
                /\ active[u] => /\ th[t].was[u]
                                /\ ~Planned(th[t].file, u) => loaded[u] = Text(u, Before(t))

IInv == TypeOK /\ (~lost => EssentialTexts) /\ (~disturbed => HelperAlone)

----------------------------------------------------------------------------
(* Atomic edits *)

\* What runs elsewhere is left alone by a refusal.
UnplannedKept ==
    \A t \in Threads, u \in Unit :
        th[t].pc \in {"refused", "emptied", "restored"} /\ ~Planned(th[t].file, u) => active[u] = th[t].was[u]

\* While a helper works the edit has not happened yet: it counts when the helper ends.
Working == CHOOSE t \in Threads : th[t].pc \in Helper
Disk == IF Helping = {} THEN files ELSE Before(Working)
Runs == IF Helping = {} THEN [u \in {v \in Unit : active[v]} |-> loaded[u]]
        ELSE [u \in {v \in Unit : th[Working].was[v]} |-> Text(u, Before(Working))]

Promise == INSTANCE EditSpec WITH
    Files <- File, Docs <- [f \in File |-> Texts], Missing <- Empty,
    Units <- Unit, Reads <- Reads, Starts <- [u \in Unit |-> {fs \in [File -> Texts] : ~Refuses(u, fs)}],
    disk <- Disk, running <- Runs, tangled <- disturbed
=============================================================================
