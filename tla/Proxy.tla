------------------------------- MODULE Proxy -------------------------------
(***************************************************************************)
(* The reverse proxy page (nexusdash/modules/caddy.py), its root helper    *)
(* nexus-dashboard-caddy (install.sh) and the dashboard's own certificate  *)
(* (nexusdash/core/tls.py), which a route of the proxy may use.            *)
(*                                                                         *)
(* A request reads the Caddyfile, splices its change into the text and     *)
(* hands the whole text to the helper: validate, replace, reload, and put  *)
(* the previous text back in place when the reload is refused. A           *)
(* certificate and its key are two files, replaced, and put back, one      *)
(* after the other. No lock spans the requests, and the services page      *)
(* (nexusdash/core/svc_actions.py) starts and stops caddy at any moment.   *)
(***************************************************************************)
EXTENDS Naturals, FiniteSets

CONSTANTS
    Threads,      \* request threads
    Hosts,        \* host names of routes
    Serials,      \* key pairs an admin may upload; Old is not one of them
    Old,          \* the key pair in place at the start
    NoPair,       \* a route without a tls line
    Absent,       \* a file that does not exist
    MaxRequests   \* bound: requests in a behaviour, those of the services page with them

VARIABLES
    file,      \* the Caddyfile: the route of each host, and the rest of the text
    pairs,     \* certificate and key on disk, by place
    upload,    \* the temporary files of the dashboard's own certificate
    active,    \* caddy runs
    loaded,    \* the Caddyfile caddy runs with
    th, requests,
    disturbed  \* history: two helpers or two uploads ran at once, the services page
               \* acted beside a helper, or what was begun could not be ended

vars == <<file, pairs, upload, active, loaded, th, requests, disturbed>>

\* "own": the dashboard's pair; "copy": its copy under /etc/caddy; "wild": the
\* pair the routes use.
Place == {"own", "copy", "wild"}
Route == {Absent, NoPair} \cup (Place \ {"own"})
Rest == {"plain", "invalid", "unloadable", "none"}
Caddyfile == [route : [Hosts -> Route], rest : Rest]

\* A file that is being put back is empty for a moment.
Blank == "blank"
Empty == [route |-> [h \in Hosts |-> Absent], rest |-> "none"]
Nothing == [crt |-> Absent, key |-> Absent]
Exist(p) == p.crt # Absent /\ p.key # Absent
Match(p) == p.crt \notin {Absent, Blank} /\ p.crt = p.key

\* caddy validate: the text parses and the certificates it names load.
Valid(text) == /\ text.rest # "invalid"
               /\ \A h \in Hosts : text.route[h] \in Place => Match(pairs[text.route[h]])

\* A text that passes can still be refused by the running caddy.
Loads(text) == text.rest # "unloadable"

\* Replacing a certificate asks for a pair the file references.
TlsPairs(text) == {text.route[h] : h \in Hosts} \cap Place

\* The pairs a route may choose: referenced by the file or present on disk, or
\* the dashboard's own one, of which a copy is installed or brought up to date.
AvailableCerts == {p \in {"wild", "copy"} : Exist(pairs[p])} \cup TlsPairs(file) \cup {"own"}

Idle == [pc |-> "idle"]

Init ==
    /\ \E s \in {NoPair, "wild"} :
          file = [route |-> [h \in Hosts |-> IF s = "wild" THEN "wild" ELSE Absent],
                  rest |-> "plain"]
    /\ pairs = [p \in Place |-> IF p = "copy" THEN Nothing ELSE [crt |-> Old, key |-> Old]]
    /\ upload = Nothing
    /\ active \in BOOLEAN
    /\ loaded = file
    /\ th = [t \in Threads |-> Idle]
    /\ requests = 0
    /\ disturbed = FALSE

Others(t, pcs) == \E o \in Threads \ {t} : th[o].pc \in pcs
OwnPcs == {"upkey", "upcheck", "ownkey", "selfcrt"}
BackPcs == {"putback", "blankcrt", "halfback", "blankkey"}
HelperPcs == {"crt", "key", "replaced"} \cup BackPcs
Start(t, next) == /\ th[t].pc = "idle"
                  /\ requests < MaxRequests
                  /\ requests' = requests + 1
                  /\ th' = [th EXCEPT ![t] = next]

----------------------------------------------------------------------------
(* Requests *)

Spliced(text, h, r) == [text EXCEPT !.route[h] = r]
Asked(text, copy) == [pc |-> "asked", text |-> text, copy |-> copy]

\* The copy of the dashboard's pair is what a route names.
Chosen(p) == IF p = "own" THEN "copy" ELSE p

SiteAdd(t) ==
    /\ \E h \in Hosts, p \in {NoPair} \cup AvailableCerts :
          /\ file.route[h] = Absent
          /\ Start(t, Asked(Spliced(file, h, Chosen(p)), p = "own"))
    /\ UNCHANGED <<file, pairs, upload, active, loaded, disturbed>>

SiteUpdate(t) ==
    /\ \E h \in Hosts, new \in Hosts, p \in {NoPair} \cup AvailableCerts :
          /\ file.route[h] # Absent
          /\ new # h => file.route[new] = Absent
          /\ Start(t, Asked(Spliced(Spliced(file, h, Absent), new, Chosen(p)), p = "own"))
    /\ UNCHANGED <<file, pairs, upload, active, loaded, disturbed>>

SiteDelete(t) ==
    /\ \E h \in Hosts : /\ file.route[h] # Absent
                        /\ Start(t, Asked(Spliced(file, h, Absent), FALSE))
    /\ UNCHANGED <<file, pairs, upload, active, loaded, disturbed>>

FileSave(t) ==
    /\ \E r \in Rest \ {"none"} : Start(t, Asked([file EXCEPT !.rest = r], FALSE))
    /\ UNCHANGED <<file, pairs, upload, active, loaded, disturbed>>

\* Before the Caddyfile, the helper replaces the copy of the pair, or installs it
\* where there is none. It refuses halves that do not match, and half a copy.
InstallPair(t) ==
    /\ th[t].pc = "asked" /\ th[t].copy
    /\ LET goes == Match(pairs["own"]) /\ (Exist(pairs["copy"]) \/ pairs["copy"] = Nothing)
       IN  /\ th' = [th EXCEPT ![t] =
                       IF goes THEN [pc |-> "crt", place |-> "copy", serial |-> pairs["own"].crt,
                                     prev |-> pairs["copy"], then |-> th[t].text]
                               ELSE Idle]
           /\ disturbed' = (disturbed \/ (goes /\ Others(t, HelperPcs)))
    /\ UNCHANGED <<file, pairs, upload, active, loaded, requests>>

----------------------------------------------------------------------------
(* The helper *)

\* do_apply: nothing live is touched unless validate accepts the candidate, and a
\* failure up to the replacement leaves everything as it was.
Apply(t) ==
    /\ th[t].pc = "asked" /\ ~th[t].copy
    /\ \/ /\ Valid(th[t].text)
          /\ file' = th[t].text
          /\ th' = [th EXCEPT ![t] = [pc |-> "replaced", place |-> "none", prev |-> file,
                                      then |-> Absent]]
          /\ disturbed' = (disturbed \/ Others(t, HelperPcs))
       \/ /\ th' = [th EXCEPT ![t] = Idle]
          /\ UNCHANGED <<file, disturbed>>
    /\ UNCHANGED <<pairs, upload, active, loaded, requests>>

\* A request that installed a copy goes on to its Caddyfile.
After(t) == IF th[t].then = Absent THEN Idle ELSE Asked(th[t].then, FALSE)

\* reload_if_active, after a new file or a new pair. A reload is refused for what is on
\* disk or for a reason of its own, and caddy keeps what it runs with.
Reload(t) ==
    /\ th[t].pc = "replaced"
    /\ \/ /\ active
          /\ th' = [th EXCEPT ![t].pc = "putback"]
          /\ UNCHANGED loaded
       \/ /\ active => Valid(file) /\ Loads(file)
          /\ th' = [th EXCEPT ![t] = After(t)]
          /\ loaded' = IF active THEN file ELSE loaded
    /\ UNCHANGED <<file, pairs, upload, active, requests, disturbed>>

\* Mutant of PutBack: the refused text stays.
LeaveThere(t) ==
    /\ th[t].pc = "putback"
    /\ th' = [th EXCEPT ![t] = Idle]
    /\ UNCHANGED <<file, pairs, upload, active, loaded, requests, disturbed>>

\* restore: the Caddyfile, or the certificate, is emptied, ...
PutBack(t) ==
    /\ th[t].pc = "putback"
    /\ IF th[t].place = "none"
       THEN file' = Empty /\ UNCHANGED pairs
       ELSE pairs' = [pairs EXCEPT ![th[t].place].crt = Blank] /\ UNCHANGED file
    /\ th' = [th EXCEPT ![t].pc = "blankcrt"]
    /\ UNCHANGED <<upload, active, loaded, requests, disturbed>>

\* ... and written, ...
Refill(t) ==
    /\ th[t].pc = "blankcrt"
    /\ IF th[t].place = "none"
       THEN file' = th[t].prev /\ UNCHANGED pairs
       ELSE pairs' = [pairs EXCEPT ![th[t].place].crt = th[t].prev.crt] /\ UNCHANGED file
    /\ th' = [th EXCEPT ![t] = IF th[t].place = "none" THEN Idle
                               ELSE [th[t] EXCEPT !.pc = "halfback"]]
    /\ UNCHANGED <<upload, active, loaded, requests, disturbed>>

\* ... then the key, in the same way.
PutBackKey(t) ==
    /\ th[t].pc = "halfback"
    /\ pairs' = [pairs EXCEPT ![th[t].place].key = Blank]
    /\ th' = [th EXCEPT ![t].pc = "blankkey"]
    /\ UNCHANGED <<file, upload, active, loaded, requests, disturbed>>

RefillKey(t) ==
    /\ th[t].pc = "blankkey"
    /\ pairs' = [pairs EXCEPT ![th[t].place].key = th[t].prev.key]
    /\ th' = [th EXCEPT ![t] = Idle]
    /\ UNCHANGED <<file, upload, active, loaded, requests, disturbed>>

\* do_cert on a pair the file references: both halves are checked in temporary
\* files of the helper, then the certificate is replaced, then the key.
CertReplace(t) ==
    /\ \E p \in TlsPairs(file), s \in Serials :
          /\ Exist(pairs[p])
          /\ Start(t, [pc |-> "crt", place |-> p, serial |-> s, prev |-> pairs[p],
                       then |-> Absent])
    /\ disturbed' = (disturbed \/ Others(t, HelperPcs))
    /\ UNCHANGED <<file, pairs, upload, active, loaded>>

PutCrt(t) ==
    /\ th[t].pc = "crt"
    /\ \/ /\ pairs' = [pairs EXCEPT ![th[t].place].crt = th[t].serial]
          /\ th' = [th EXCEPT ![t].pc = "key"]
       \/ UNCHANGED pairs /\ th' = [th EXCEPT ![t] = Idle]
    /\ UNCHANGED <<file, upload, active, loaded, requests, disturbed>>

\* do_install, where there was nothing, does not reload.
PutKey(t) ==
    /\ th[t].pc = "key"
    /\ pairs' = [pairs EXCEPT ![th[t].place].key = th[t].serial]
    /\ th' = [th EXCEPT ![t] = IF th[t].prev = Nothing THEN After(t)
                               ELSE [pc |-> "replaced", place |-> th[t].place,
                                     prev |-> th[t].prev, then |-> th[t].then]]
    /\ UNCHANGED <<file, upload, active, loaded, requests, disturbed>>

----------------------------------------------------------------------------
(* The dashboard's own certificate: the temporary names are shared *)

UploadCrt(t) ==
    /\ \E s \in Serials, k \in Serials :
          /\ Start(t, [pc |-> "upkey", key |-> k])
          /\ upload' = [upload EXCEPT !.crt = s]
    /\ disturbed' = (disturbed \/ Others(t, OwnPcs))
    /\ UNCHANGED <<file, pairs, active, loaded>>

UploadKey(t) ==
    /\ th[t].pc = "upkey"
    /\ upload' = [upload EXCEPT !.key = th[t].key]
    /\ th' = [th EXCEPT ![t] = [pc |-> "upcheck"]]
    /\ UNCHANGED <<file, pairs, active, loaded, requests, disturbed>>

\* The halves match: the certificate is renamed into place, then the key. Whatever
\* fails before the first of the two leaves nothing behind.
UploadCheck(t) ==
    /\ th[t].pc = "upcheck"
    /\ \/ /\ Match(upload)
          /\ pairs' = [pairs EXCEPT !["own"].crt = upload.crt]
          /\ th' = [th EXCEPT ![t].pc = "ownkey"]
          /\ upload' = [upload EXCEPT !.crt = Absent]
       \/ /\ th' = [th EXCEPT ![t] = Idle]
          /\ upload' = Nothing
          /\ UNCHANGED pairs
    /\ UNCHANGED <<file, active, loaded, requests, disturbed>>

\* The rename fails when another upload took or removed the temporary file.
OwnKey(t) ==
    /\ th[t].pc = "ownkey"
    /\ pairs' = [pairs EXCEPT !["own"].key = IF upload.key = Absent THEN @ ELSE upload.key]
    /\ upload' = Nothing
    /\ th' = [th EXCEPT ![t] = Idle]
    /\ UNCHANGED <<file, active, loaded, requests, disturbed>>

\* generate_self_signed: openssl writes the key, then the certificate, in place.
SelfKey(t) ==
    /\ \E s \in Serials : /\ Start(t, [pc |-> "selfcrt", serial |-> s])
                          /\ pairs' = [pairs EXCEPT !["own"].key = s]
    /\ disturbed' = (disturbed \/ Others(t, OwnPcs))
    /\ UNCHANGED <<file, upload, active, loaded>>

SelfCrt(t) ==
    /\ th[t].pc = "selfcrt"
    /\ pairs' = [pairs EXCEPT !["own"].crt = th[t].serial]
    /\ th' = [th EXCEPT ![t] = Idle]
    /\ UNCHANGED <<file, upload, active, loaded, requests, disturbed>>

----------------------------------------------------------------------------
\* What began could not be ended: half a pair or half a put-back stays.
GiveUp(t) ==
    /\ th[t].pc \in BackPcs \cup {"key", "ownkey", "selfcrt"}
    /\ th' = [th EXCEPT ![t] = Idle]
    /\ upload' = IF th[t].pc = "ownkey" THEN Nothing ELSE upload
    /\ disturbed' = TRUE
    /\ UNCHANGED <<file, pairs, active, loaded, requests>>

\* The services page stops, starts or restarts caddy, whoever is at work.
Service ==
    /\ requests < MaxRequests
    /\ requests' = requests + 1
    /\ \/ active' = FALSE /\ UNCHANGED loaded
       \/ Valid(file) /\ Loads(file) /\ active' = TRUE /\ loaded' = file
       \/ ~(Valid(file) /\ Loads(file)) /\ active' = FALSE /\ UNCHANGED loaded
    /\ disturbed' = (disturbed \/ \E t \in Threads : th[t].pc \in HelperPcs)
    /\ UNCHANGED <<file, pairs, upload, th>>

Next ==
    \/ \E t \in Threads :
         \/ SiteAdd(t) \/ SiteUpdate(t) \/ SiteDelete(t) \/ FileSave(t) \/ CertReplace(t)
         \/ InstallPair(t) \/ Apply(t) \/ Reload(t) \/ PutCrt(t) \/ PutKey(t)
         \/ PutBack(t) \/ Refill(t) \/ PutBackKey(t) \/ RefillKey(t)
         \/ UploadCrt(t) \/ UploadKey(t) \/ UploadCheck(t) \/ OwnKey(t)
         \/ SelfKey(t) \/ SelfCrt(t) \/ GiveUp(t)
    \/ Service

Spec == Init /\ [][Next]_vars

----------------------------------------------------------------------------
(* Properties *)

\* Unless a helper or an upload was disturbed, a running caddy runs with the file on
\* disk, and every certificate has its key: a route never names a pair of halves
\* (reload_if_active, do_cert, tls_upload_cert).
ProxyConsistent ==
    (\A t \in Threads : th[t].pc \in {"idle", "asked"}) /\ ~disturbed
        => /\ active => loaded = file
           /\ \A p \in Place : pairs[p].crt = pairs[p].key
           /\ Valid(file)

----------------------------------------------------------------------------
(* What makes ProxyConsistent inductive *)

Half == {Absent, Blank, Old} \cup Serials
Pair == [crt : Half, key : Half]
RoutePlace == Place \ {"own"}
Then == {Absent} \cup Caddyfile
FileHelp == [pc : {"replaced", "putback", "blankcrt"}, place : {"none"}, prev : Caddyfile,
             then : {Absent}]
PairHelp == [pc : {"replaced"} \cup BackPcs, place : RoutePlace, prev : Pair, then : Then]
PutHelp == [pc : {"crt", "key"}, place : RoutePlace, serial : Serials \cup {Old},
            prev : Pair, then : Then]
ThreadType ==
    {Idle} \cup [pc : {"asked"}, text : Caddyfile, copy : BOOLEAN]
    \cup FileHelp \cup PairHelp \cup PutHelp
    \cup [pc : {"upkey"}, key : Serials] \cup [pc : {"upcheck", "ownkey"}]
    \cup [pc : {"selfcrt"}, serial : Serials]
TypeOK ==
    /\ file \in Caddyfile
    /\ pairs \in [Place -> Pair]
    /\ upload \in Pair
    /\ active \in BOOLEAN
    /\ th \in [Threads -> ThreadType]

\* A text whose certificates are there.
Good(text) == /\ text.rest # "invalid"
              /\ \A h \in Hosts : text.route[h] \in Place => pairs[text.route[h]].crt # Absent

\* One upload at a time works on the dashboard's pair; the half it has put is the one
\* that its other half will match.
OwnPair ==
    /\ \A t, o \in Threads : (th[t].pc \in OwnPcs /\ th[o].pc \in OwnPcs) => t = o
    /\ \A t \in Threads :
          /\ th[t].pc = "ownkey" => upload.key = pairs["own"].crt /\ upload.key \notin {Absent, Blank}
          /\ th[t].pc = "selfcrt" => th[t].serial = pairs["own"].key
    /\ \/ pairs["own"].crt = pairs["own"].key
       \/ \E t \in Threads : th[t].pc \in {"ownkey", "selfcrt"}

\* A running caddy runs with the file, or with the one before it while a helper has
\* replaced the file and not yet reloaded or put it back.
Replacing(t) == th[t].pc \in HelperPcs /\ th[t].place = "none"
RunsFile ==
    active => /\ \A t \in Threads : Replacing(t) => loaded = th[t].prev
              /\ (\A t \in Threads : ~Replacing(t)) => loaded = file

\* Both halves of a pair, or none.
Whole(p) == Match(p) \/ p = Nothing

\* One helper works at a time, on what the routes use, and what it would put back is
\* good.
OneHelper ==
    /\ \A t, o \in Threads : (th[t].pc \in HelperPcs /\ th[o].pc \in HelperPcs) => t = o
    /\ Good(file)
    /\ \A t \in Threads : th[t].pc \in HelperPcs =>
          IF th[t].place = "none" THEN Good(th[t].prev)
          ELSE /\ Whole(th[t].prev)
               /\ th[t].prev = Nothing => /\ th[t].pc \in {"crt", "key"}
                                         /\ \A h \in Hosts : file.route[h] # th[t].place
               /\ th[t].pc = "crt" => th[t].prev = pairs[th[t].place]
               /\ th[t].pc = "key" => pairs[th[t].place].crt = th[t].serial
               /\ th[t].pc = "replaced" => Match(pairs[th[t].place])
               /\ th[t].pc \in {"halfback", "blankkey"} => pairs[th[t].place].crt = th[t].prev.crt
    /\ \A p \in RoutePlace :
          \/ Whole(pairs[p])
          \/ \E t \in Threads : th[t].pc \in HelperPcs \ {"crt", "replaced"} /\ th[t].place = p
    /\ RunsFile

IInv == TypeOK /\ (~disturbed => OwnPair /\ OneHelper)

----------------------------------------------------------------------------
(* Atomic edits *)

\* A running caddy accepted what it runs with.
Accepted == active => Loads(loaded)

\* An edit counts when its helper ends, and until then the disk is what it was before.
Held(p) == {t \in Threads : th[t].pc \in HelperPcs /\ th[t].place = p}
Before(p, now) == IF Held(p) = {} THEN now ELSE th[CHOOSE t \in Threads : t \in Held(p)].prev

\* Of the dashboard's own pair one half is new while it is being replaced.
OwnBefore ==
    LET kept == IF \E t \in Threads : th[t].pc = "ownkey" THEN pairs["own"].key ELSE pairs["own"].crt
    IN  IF \E t \in Threads : th[t].pc \in {"ownkey", "selfcrt"}
        THEN [crt |-> kept, key |-> kept] ELSE pairs["own"]

Document == Place \cup {"Caddyfile"}
Disk == [f \in Document |-> IF f = "Caddyfile" THEN Before("none", file)
                            ELSE IF f = "own" THEN OwnBefore ELSE Before(f, pairs[f])]

\* What may replace a document, and what caddy takes.
Replacement == [f \in Document |-> IF f = "Caddyfile" THEN {text \in Caddyfile : text.rest # "invalid"}
                                   ELSE {[crt |-> s, key |-> s] : s \in Serials \cup {Old}}]
Startable == {d \in [Document -> Caddyfile \cup Pair] :
                /\ Loads(d["Caddyfile"])
                /\ \A h \in Hosts : d["Caddyfile"].route[h] \in Place => Match(d[d["Caddyfile"].route[h]])}

Promise == INSTANCE EditSpec WITH
    Files <- Document, Docs <- Replacement, Missing <- Nothing,
    Units <- {"caddy"}, Reads <- [u \in {"caddy"} |-> {"Caddyfile"}],
    Starts <- [u \in {"caddy"} |-> Startable], disk <- Disk,
    running <- [u \in (IF active THEN {"caddy"} ELSE {}) |-> [f \in {"Caddyfile"} |-> loaded]],
    tangled <- disturbed
=============================================================================
