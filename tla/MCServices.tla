---------------------------- MODULE MCServices -----------------------------
(***************************************************************************)
(* Small instances for TLC of the components that edit the configuration   *)
(* of a system service and make the service take it over. They share no    *)
(* state, so a behaviour of this module is a behaviour of one of them,     *)
(* which `which` names: the run checks all of them side by side.           *)
(***************************************************************************)
EXTENDS Naturals, FiniteSets, TLC

CONSTANTS
    Threads,  \* request threads of the server
    Items,    \* names of shares, UPSes and proxied hosts
    Pairs,    \* serial numbers of certificates
    Absent,
    \* bounds: requests, and restarts of the dashboard
    DnsRequests, DnsCrashes, PowerRequests, ProxyRequests, ShareRequests,
    \* iSCSI
    Iqns, Stores, Initiators, TargetRequests,
    \* the firewall: its request threads, rules of its table
    Admins, MaxRules, RuleRequests

ASSUME BoundsAssumption ==
    {DnsRequests, DnsCrashes, PowerRequests, ProxyRequests, ShareRequests,
     TargetRequests, MaxRules, RuleRequests} \subseteq Nat

\* The value that stands for nothing is nobody and no serial number.
ASSUME AbsentAssumption == Absent \notin Threads \cup Pairs \cup {"blank", "old", "none", "own", "copy", "wild"}

\* A half that is being put back is empty, which is no serial number either.
ASSUME BlankAssumption == "blank" \notin Pairs

\* Item names are not the names of the settings beside the items.
ASSUME ItemsAssumption == Items \cap {"set", "other", "global", "homes"} = {}

VARIABLES
    which,  \* the component of this behaviour
    \* its variables, in the order it declares them
    s1, s2, s3, s4, s5, s6, s7, s8, s9, s10

vars == <<which, s1, s2, s3, s4, s5, s6, s7, s8, s9, s10>>

Idle == "-"

Dns == INSTANCE Dnsmasq WITH Free <- Absent, ServiceFails <- TRUE,
    MaxRequests <- DnsRequests, MaxCrashes <- DnsCrashes, settings <- s1,
    colls <- s2, files <- s3, loaded <- s4, running <- s5, lock <- s6,
    th <- s7, requests <- s8, crashes <- s9, dirty <- s10

Ups == INSTANCE Power WITH Names <- Items,
    MaxRequests <- PowerRequests, files <- s1, active <- s2, loaded <- s3,
    th <- s4, requests <- s5, disturbed <- s6, lost <- s7

Web == INSTANCE Proxy WITH Hosts <- Items, Serials <- Pairs, Old <- "old",
    NoPair <- "none", MaxRequests <- ProxyRequests, file <- s1, pairs <- s2,
    upload <- s3, active <- s4, loaded <- s5, th <- s6, requests <- s7,
    disturbed <- s8

Nas == INSTANCE FileShares WITH Names <- Items, MaxRequests <- ShareRequests,
    files <- s1, dropins <- s2, registry <- s3, check <- s4, loaded <- s5,
    th <- s6, requests <- s7, failed <- s8

San == INSTANCE Iscsi WITH MaxRequests <- TargetRequests, live <- s1,
    saved <- s2, th <- s3, requests <- s4, unsaved <- s5

Ufw == INSTANCE Firewall WITH Threads <- Admins, MaxRequests <- RuleRequests,
    active <- s1, incoming <- s2, rules <- s3, th <- s4, requests <- s5,
    had <- s6, excused <- s7

Init ==
    \/ which = "Dns" /\ Dns!Init
    \/ which = "Ups" /\ Ups!Init /\ s8 = Idle /\ s9 = Idle /\ s10 = Idle
    \/ which = "Web" /\ Web!Init /\ s9 = Idle /\ s10 = Idle
    \/ which = "Nas" /\ Nas!Init /\ s9 = Idle /\ s10 = Idle
    \/ which = "San" /\ San!Init /\ s6 = Idle /\ s7 = Idle /\ s8 = Idle /\ s9 = Idle /\ s10 = Idle
    \/ which = "Ufw" /\ Ufw!Init /\ s8 = Idle /\ s9 = Idle /\ s10 = Idle

Next ==
    \/ /\ which = "Dns" /\ Dns!Next
       /\ UNCHANGED <<which>>
    \/ /\ which = "Ups" /\ Ups!Next
       /\ UNCHANGED <<which, s8, s9, s10>>
    \/ /\ which = "Web" /\ Web!Next
       /\ UNCHANGED <<which, s9, s10>>
    \/ /\ which = "Nas" /\ Nas!Next
       /\ UNCHANGED <<which, s9, s10>>
    \/ /\ which = "San" /\ San!Next
       /\ UNCHANGED <<which, s6, s7, s8, s9, s10>>
    \/ /\ which = "Ufw" /\ Ufw!Next
       /\ UNCHANGED <<which, s8, s9, s10>>

Spec == Init /\ [][Next]_vars

Symmetry == Permutations(Threads) \cup Permutations(Items)

----------------------------------------------------------------------------
(* Properties, each of the component that defines it *)

\* When nothing is in flight and every step went well, dnsmasq runs with exactly
\* what the stores say (diff_render, apply_change).
ServiceFollows == which = "Dns" => Dns!ServiceFollows

\* Requests that overlap never leave upsmon without a MONITOR line or upsd without
\* a LISTEN address, unless one read nothing where there was a text or a put-back
\* failed (upsmon_monitor_delete, merge_directives).
EssentialsStay == which = "Ups" => Ups!EssentialsStay

\* Caddy and the UPS units: a document is replaced whole and every service that runs has
\* it, or it was refused and nothing happened, until a helper or an upload overlaps
\* another or a services page request, or fails in a step that it does not make up for
\* (write_conf, reload_if_active, do_cert, _service_action). The mappings are Promise of
\* each, and `disturbed` says what ended it.
EditsAreAtomic ==
    /\ which = "Ups" => Ups!Promise!AInit
    /\ which = "Web" => Web!Promise!AInit
    /\ [][/\ which = "Ups" => [Ups!Promise!ANext]_(Ups!Promise!vars)
          /\ which = "Web" => [Web!Promise!ANext]_(Web!Promise!vars)]_vars

\* Caddy runs with the file on disk, and every certificate has its key, until helpers
\* overlap each other or a services page request, or one leaves a half of a pair or cannot
\* put back (reload_if_active, do_cert, _service_action).
ProxyConsistent == which = "Web" => Web!ProxyConsistent

\* When nobody is on a file of the shares, its service runs with it, however the
\* requests before overlapped, unless the latest write or reload of that file failed
\* (smbconf_apply, nfs_export_create).
SharesServed == which = "Nas" => Nas!SharesServed

\* Once every request is answered a restart of the iSCSI target changes nothing,
\* unless the latest save failed (tmutate).
RestartKeepsAll == which = "San" => San!RestartKeepsAll

\* No series of requests leaves a denying firewall without an allow of the
\* dashboard's port, except as NeverLockedOut of Firewall names
\* (_ensure_dashboard_allowed, _delete_would_cut_dashboard).
NeverLockedOut == which = "Ufw" => Ufw!NeverLockedOut

\* An address family does not lose its last allow to a deletion or an edit nobody
\* was warned about (_delete_would_cut_dashboard, firewall_rule_update).
FamilyKept == which = "Ufw" => Ufw!FamilyKept
===========================================================================
