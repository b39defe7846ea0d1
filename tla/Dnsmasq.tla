------------------------------ MODULE Dnsmasq ------------------------------
(***************************************************************************)
(* The apply pipeline of nexusdash/modules/dnsmasq.py.                     *)
(*                                                                         *)
(* JSON stores are the source of truth. A change is made in the stores,    *)
(* rendered, tested with `dnsmasq --test`, rolled back when refused, and   *)
(* written to the render directory, all under STORE_LOCK; the service is   *)
(* reloaded or restarted after the lock is released. What is checked       *)
(* before the lock (a record exists, a MAC is new, the settings to change) *)
(* is checked on an older state.                                           *)
(***************************************************************************)
EXTENDS Naturals, FiniteSets

CONSTANTS
    Threads,      \* request threads
    Items,        \* keys of records: host names, domains, ranges, MAC addresses
    Free,         \* STORE_LOCK is not held
    ServiceFails, \* may a restart of the unit fail
    MaxRequests,  \* bound: accepted requests in a behaviour
    MaxCrashes    \* bound: restarts of the dashboard

VARIABLES
    settings,  \* store 'settings': the DHCP toggle and the free-text options
    colls,     \* stores 'dns' and 'dhcp': how many records each key has
    files,     \* the render directory: the conf files and the SIGHUP files
    loaded,    \* what the running dnsmasq has read
    running,
    lock,      \* STORE_LOCK
    th,        \* what each request thread is doing
    requests, crashes,
    dirty      \* history: something failed, and no complete apply since

vars == <<settings, colls, files, loaded, running, lock, th, requests, crashes, dirty>>
stores == <<settings, colls>>

Coll == {"hosts", "rules", "ranges", "leases"}
Extra == {"plain", "custom", "refused"}
Settings == [dhcp : BOOLEAN, extra : Extra]
Count == [Items -> Nat]
Colls == [Coll -> Count]

----------------------------------------------------------------------------
(* Rendering, the test and the difference *)

None == [x \in Items |-> 0]

\* render_main, render_dns, render_dhcp, render_extra: read at start only.
ConfOf(s, c) == [extra |-> s.extra, dhcp |-> s.dhcp, rules |-> c["rules"],
                 ranges |-> IF s.dhcp THEN c["ranges"] ELSE None]

\* render_hosts, render_dhcp_hosts, render_dhcp_opts: read again on SIGHUP.
HupOf(s, c) == [hosts |-> c["hosts"], leases |-> IF s.dhcp THEN c["leases"] ELSE None]

RenderAll(s, c) == [conf |-> ConfOf(s, c), hup |-> HupOf(s, c)]

\* `dnsmasq --test` reads the conf files only.
Valid(rendered) == rendered.conf.extra # "refused"

\* Mutant of Diff: what DHCP clients get is taken for a SIGHUP file.
DiffForgetsToggle(rendered) ==
    IF rendered = files THEN "none"
    ELSE IF [rendered.conf EXCEPT !.dhcp = TRUE] = [files.conf EXCEPT !.dhcp = TRUE]
         THEN "reload" ELSE "restart"

Diff(rendered) ==
    IF rendered = files THEN "none"
    ELSE IF rendered.conf = files.conf THEN "reload" ELSE "restart"

----------------------------------------------------------------------------
(* Requests *)

\* What _dns_validate lets through: hosts (a SIGHUP file) and the rules of dns.conf.
DnsRequest == [kind : {"add", "delete"}, coll : {"hosts", "rules"}, item : Items]
              \cup [kind : {"update"}, coll : {"hosts", "rules"}, item : Items, by : Items]
              \cup [kind : {"import"}, items : (SUBSET Items) \ {{}}, replace : BOOLEAN]

\* What _dhcp_validate lets through: ranges (dhcp.conf) and static leases.
DhcpRequest == [kind : {"add", "delete"}, coll : {"ranges", "leases"}, item : Items]
               \cup [kind : {"update"}, coll : {"ranges", "leases"}, item : Items, by : Items]

SettingsRequest == [kind : {"settings"}, extra : Extra] \cup [kind : {"toggle"}, dhcp : BOOLEAN]

Request == DnsRequest \cup DhcpRequest \cup SettingsRequest \cup [kind : {"apply", "restart"}]

\* What a handler checks before the lock: the record to change exists, and the
\* MAC of a new or changed static lease is not taken by another one.
Admitted(r) ==
    /\ r.kind \in {"delete", "update"} => colls[r.coll][r.item] > 0
    /\ r.kind = "add" /\ r.coll = "leases" => colls["leases"][r.item] = 0
    /\ r.kind = "update" /\ r.coll = "leases" /\ r.by # r.item => colls["leases"][r.by] = 0

\* An import adds the names that are not there yet, to nothing when it replaces.
Imported(r) ==
    [x \in Items |-> IF r.replace THEN IF x \in r.items THEN 1 ELSE 0
                     ELSE IF x \in r.items /\ colls["hosts"][x] = 0 THEN 1
                     ELSE colls["hosts"][x]]

\* Records are addressed by id: a record that is gone meanwhile changes nothing.
Edited(r) ==
    CASE r.kind = "add" -> [colls EXCEPT ![r.coll][r.item] = @ + 1]
      [] r.kind = "delete" /\ colls[r.coll][r.item] > 0 ->
           [colls EXCEPT ![r.coll][r.item] = @ - 1]
      [] r.kind = "update" /\ colls[r.coll][r.item] > 0 /\ r.by # r.item ->
           [colls EXCEPT ![r.coll][r.item] = @ - 1, ![r.coll][r.by] = @ + 1]
      [] r.kind = "import" -> [colls EXCEPT !["hosts"] = Imported(r)]
      [] OTHER -> colls

\* The settings routes write back the settings read before the lock.
Resettled(r, cur) ==
    CASE r.kind = "settings" -> [cur EXCEPT !.extra = r.extra]
      [] r.kind = "toggle"   -> [cur EXCEPT !.dhcp = r.dhcp]
      [] OTHER               -> settings

Idle == [pc |-> "idle"]
AtRest == \A t \in Threads : th[t] = Idle

Init ==
    /\ settings = [dhcp |-> FALSE, extra |-> "plain"]
    /\ colls = [k \in Coll |-> None]
    /\ files = RenderAll(settings, colls)
    /\ loaded = files
    /\ running = TRUE
    /\ lock = Free
    /\ th = [t \in Threads |-> Idle]
    /\ requests = 0
    /\ crashes = 0
    /\ dirty = FALSE

\* A handler reads the settings and makes its checks. Enabling DHCP first looks
\* for a foreign server, with the settings already read.
Begin(t, r) ==
    /\ th[t].pc = "idle"
    /\ requests < MaxRequests
    /\ Admitted(r)
    /\ requests' = requests + 1
    /\ th' = [th EXCEPT ![t] =
                CASE r.kind = "restart" -> [pc |-> "signal", action |-> "restart", heals |-> FALSE]
                  [] r.kind = "toggle" /\ r.dhcp /\ ~settings.dhcp ->
                       [pc |-> "probe", req |-> r, cur |-> settings]
                  [] OTHER -> [pc |-> "begun", req |-> r, cur |-> settings]]
    /\ UNCHANGED <<stores, files, loaded, running, lock, crashes, dirty>>

\* The probe listens for offers for seconds; a foreign server refuses the toggle.
Probe(t) ==
    /\ th[t].pc = "probe"
    /\ \/ th' = [th EXCEPT ![t].pc = "begun"]
       \/ th' = [th EXCEPT ![t] = Idle]
    /\ UNCHANGED <<stores, files, loaded, running, lock, requests, crashes, dirty>>

\* Under the lock: remember the stores and save the change.
Mutate(t) ==
    /\ th[t].pc = "begun"
    /\ lock = Free
    /\ lock' = t
    /\ settings' = Resettled(th[t].req, th[t].cur)
    /\ colls' = Edited(th[t].req)
    /\ th' = [th EXCEPT ![t] = [pc |-> "test", apply |-> th[t].req.kind = "apply",
                                snap |-> stores]]
    /\ UNCHANGED <<files, loaded, running, requests, crashes, dirty>>

\* The test fails: the stores are put back.
Refused(t) ==
    /\ th[t].pc = "test"
    /\ ~Valid(RenderAll(settings, colls))
    /\ settings' = th[t].snap[1] /\ colls' = th[t].snap[2]
    /\ lock' = Free
    /\ th' = [th EXCEPT ![t] = Idle]
    /\ UNCHANGED <<files, loaded, running, requests, crashes, dirty>>

\* The test passes: decide what the service needs, then write the files, the
\* conf files first. The apply route restarts whatever changed.
WriteConf(t) ==
    LET rendered == RenderAll(settings, colls)
    IN  /\ th[t].pc = "test"
        /\ Valid(rendered)
        /\ files' = [files EXCEPT !.conf = rendered.conf]
        /\ th' = [th EXCEPT ![t] = [pc |-> "write", heals |-> th[t].apply,
                     action |-> IF th[t].apply THEN "restart" ELSE Diff(rendered)]]
        /\ UNCHANGED <<stores, loaded, running, lock, requests, crashes, dirty>>

WriteHup(t) ==
    /\ th[t].pc = "write"
    /\ files' = [files EXCEPT !.hup = HupOf(settings, colls)]
    /\ lock' = Free
    /\ th' = [th EXCEPT ![t].pc = "signal"]
    /\ UNCHANGED <<stores, loaded, running, requests, crashes, dirty>>

\* Something failed: what an apply in progress writes is no longer everything.
Disturb(threads) ==
    /\ dirty' = TRUE
    /\ th' = [t \in Threads |->
                IF t \in threads THEN Idle
                ELSE IF th[t].pc \in {"write", "signal"} THEN [th[t] EXCEPT !.heals = FALSE]
                ELSE th[t]]

\* A file cannot be written: the exception leaves the lock and the stores as
\* they are, and the service is not told.
WriteFails(t) ==
    /\ th[t].pc = "write"
    /\ lock' = Free
    /\ Disturb({t})
    /\ UNCHANGED <<stores, files, loaded, running, requests, crashes>>

\* Outside the lock. SIGHUP makes a running dnsmasq read the SIGHUP files again.
Signal(t) ==
    /\ th[t].pc = "signal"
    /\ \/ /\ th[t].action # "restart"
          /\ loaded' = IF th[t].action = "reload" /\ running
                       THEN [loaded EXCEPT !.hup = files.hup] ELSE loaded
          /\ th' = [th EXCEPT ![t] = Idle]
          /\ UNCHANGED <<running, dirty>>
       \/ /\ th[t].action = "restart"
          /\ loaded' = files
          /\ running' = TRUE
          /\ dirty' = (dirty /\ ~th[t].heals)
          /\ th' = [th EXCEPT ![t] = Idle]
    /\ UNCHANGED <<stores, files, lock, requests, crashes>>

RestartFails(t) ==
    /\ ServiceFails
    /\ th[t].pc = "signal" /\ th[t].action = "restart"
    /\ running' = FALSE
    /\ Disturb({t})
    /\ UNCHANGED <<stores, files, loaded, lock, requests, crashes>>

\* The dashboard restarts, dnsmasq runs on.
Crash ==
    /\ crashes < MaxCrashes
    /\ ~AtRest
    /\ crashes' = crashes + 1
    /\ lock' = Free
    /\ Disturb(Threads)
    /\ UNCHANGED <<stores, files, loaded, running, requests>>

Next ==
    \/ \E t \in Threads :
         \/ \E r \in Request : Begin(t, r)
         \/ Probe(t) \/ Mutate(t) \/ Refused(t) \/ WriteConf(t) \/ WriteHup(t) \/ WriteFails(t)
         \/ Signal(t) \/ RestartFails(t)
    \/ Crash

Spec == Init /\ [][Next]_vars

----------------------------------------------------------------------------
(* Properties *)

\* When nothing is in flight and every step since the last complete apply went
\* well, dnsmasq runs with exactly what the stores say: "reload or restart" is
\* decided from the files, after other requests' writes and before their signals
\* (diff_render, apply_change).
ServiceFollows ==
    AtRest /\ ~dirty => running /\ loaded = files /\ files = RenderAll(settings, colls)

----------------------------------------------------------------------------
(* What makes it inductive *)

Conf == [extra : Extra, dhcp : BOOLEAN, rules : Count, ranges : Count]
Hup == [hosts : Count, leases : Count]
Rendered == [conf : Conf, hup : Hup]
ThreadType ==
    {Idle} \cup [pc : {"probe", "begun"}, req : Request, cur : Settings]
    \cup [pc : {"test"}, apply : BOOLEAN, snap : Settings \X Colls]
    \cup [pc : {"write", "signal"}, heals : BOOLEAN, action : {"none", "reload", "restart"}]
TypeOK ==
    /\ settings \in Settings /\ colls \in Colls
    /\ files \in Rendered /\ loaded \in Rendered
    /\ running \in BOOLEAN /\ dirty \in BOOLEAN
    /\ th \in [Threads -> ThreadType]

Holds(t) == th[t].pc \in {"test", "write"}
OneHolder == \A t \in Threads : Holds(t) => lock = t

\* All went well, or an apply that heals what did not is about to restart the service.
Fresh == ~dirty \/ \E t \in Threads : th[t].pc = "signal" /\ th[t].heals

\* The files say what the stores say, or what they said before the change under the lock.
FilesFollow ==
    /\ Fresh => /\ (\A t \in Threads : ~Holds(t)) => files = RenderAll(settings, colls)
                /\ \A t \in Threads :
                      th[t].pc = "test" => files = RenderAll(th[t].snap[1], th[t].snap[2])
    /\ \A t \in Threads : th[t].pc = "write" =>
          /\ files.conf = ConfOf(settings, colls)
          /\ files.hup # HupOf(settings, colls) => th[t].action \in {"reload", "restart"}

\* A healing request restarts, and dnsmasq has read what the files say, or somebody
\* will make it.
SignalFollows ==
    /\ \A t \in Threads : th[t].pc \in {"write", "signal"} /\ th[t].heals => th[t].action = "restart"
    /\ ~dirty =>
          /\ running
          /\ \/ loaded.conf = files.conf
             \/ \E t \in Threads : th[t].pc \in {"write", "signal"} /\ th[t].action = "restart"
          /\ \/ loaded.hup = files.hup
             \/ \E t \in Threads : th[t].pc = "signal" /\ th[t].action \in {"reload", "restart"}

IInv == TypeOK /\ OneHolder /\ FilesFollow /\ SignalFollows
=============================================================================
