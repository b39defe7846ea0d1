--------------------------- MODULE NetworkChange ---------------------------
(***************************************************************************)
(* The commit-confirmed network change of nexusdash/modules/network.py.    *)
(*                                                                         *)
(* A request reads the saved configuration, computes a target and a        *)
(* transitional ("dual") configuration, and enters the dual phase.         *)
(* finalize commits the target and arms a short heartbeat window, confirm  *)
(* ends it, revert and the two timers put the previous configuration back. *)
(* Every step that holds _net_lock is split at the call of the root        *)
(* helper, so that a crash can fall between the helper and the save; the   *)
(* save may raise instead.                                                 *)
(* Time is abstract: an armed timer may fire at any moment.                *)
(***************************************************************************)
EXTENDS Naturals, FiniteSets

CONSTANTS
    Admins,       \* request threads of signed-in admins
    Ifaces,       \* interface names, those of bridges included
    Bridges,      \* the names a bridge request may use
    Addr,         \* static CIDR addresses
    Gateways,     \* default gateways
    NoGateway,    \* a spec without 'gateway'
    Lease,        \* the address a DHCP lease gives
    Nil,          \* "absent": an interface without a spec, a field without a value
    Base,         \* what the OS gives an interface the dashboard does not manage
    Targets,      \* the specs that requests ask for
    HelperFaults, \* stages of the root helper that may fail: "generate", "apply"
    MaxChanges,   \* bound: accepted changes in a behaviour
    MaxFaults     \* bound: restarts of the process or the host, and saves that raise

Spec0 == [dhcp4 : BOOLEAN, addresses : SUBSET Addr, gateway : Gateways \cup {NoGateway}]
Conf  == [Ifaces -> Spec0 \cup {Nil}]
Change == 1..MaxChanges
Phase  == {"none", "dual", "finalizing"}

ASSUME BoundsAssumption == MaxChanges \in Nat /\ MaxFaults \in Nat
ASSUME FiniteAssumption == IsFiniteSet(Admins)
ASSUME NetAssumption == /\ Base \in [Ifaces -> Spec0]
                        /\ Targets \subseteq Spec0
                        /\ Bridges \subseteq Ifaces
                        /\ Nil \notin Spec0
                        /\ Nil \notin Conf
                        /\ NoGateway \notin Gateways
                        /\ HelperFaults \subseteq {"generate", "apply"}

VARIABLES
    netconf,   \* NETCONF_FILE, the dashboard's own record of the configuration
    managed,   \* the netplan file the helper writes; what a reboot comes up with
    live,      \* what netplan last applied
    lock,      \* _net_lock: "free", or which critical section holds it
    pending,   \* _net_pending; its token is <<change, phase>>
    armed,     \* timers started and not cancelled
    fired,     \* timer callbacks that are running and want _net_lock
    req,       \* the apply request each admin has in flight
    handoffs,  \* changes whose handoff secret is in _net_handoffs
    changes,   \* changes accepted so far (tokens are random, so never reused)
    faults,    \* restarts and raised saves so far
    working,   \* history: the last configuration known to work
    superseded,\* history: a change was accepted while another was pending
    opened,    \* history: sessions opened with the secret of each change
    unsaved    \* history: tokens whose timer ran out into a save that raised

netVars == <<netconf, managed, live>>
history == <<working, superseded, opened, unsaved>>
vars == <<netconf, managed, live, lock, pending, armed, fired, req,
          handoffs, changes, faults, working, superseded, opened, unsaved>>

Token == Change \X {"dual", "finalizing"}

\* The sections that put the previous configuration back: a request, or a timer.
Undoing == {"reverting", "expiring"}

NoPending == [phase |-> "none", change |-> 0, prev |-> Nil, target |-> Nil,
              kind |-> Nil, fresh |-> FALSE, url |-> 0]
PendingType == [phase : Phase, change : 0..MaxChanges, prev : Conf \cup {Nil},
                target : Conf \cup {Nil}, kind : {"interface", "bridge", Nil},
                fresh : BOOLEAN, url : 0..MaxChanges]
PendingToken == <<pending.change, pending.phase>>

NoReq == [pc |-> "idle", base |-> Nil, target |-> Nil, dual |-> Nil,
          prev |-> Nil, kind |-> Nil, fresh |-> FALSE, change |-> 0]
ReqType == [pc : {"idle", "read", "save", "resolve", "publish"},
            base : (Conf \X Conf) \cup {Nil}, target : Conf \cup {Nil}, dual : Conf \cup {Nil},
            prev : Conf \cup {Nil}, kind : {"interface", "bridge", Nil},
            fresh : BOOLEAN, change : 0..MaxChanges]

InFlight == {a \in Admins : req[a].pc \in {"read", "save"}}

----------------------------------------------------------------------------
(* The specs of a configuration *)

\* What the interface really has: an unmanaged one keeps what the OS gives it.
Effective(c, i) == IF c[i] = Nil THEN Base[i] ELSE c[i]

\* The addresses the host answers on at interface i under configuration c.
Reach(c, i) == Effective(c, i).addresses
               \cup (IF Effective(c, i).dhcp4 THEN {Lease} ELSE {})

Blank == [dhcp4 |-> FALSE, addresses |-> {}, gateway |-> NoGateway]

\* Mutant of UnionSpec: the old addresses are dropped instead of kept.
UnionForgetsOld(prev, target, liveSpec) ==
    [target EXCEPT !.gateway = NoGateway]

\* Mutant of UnionSpec: a purely static union carries no gateway entry at all.
UnionWithoutGateway(prev, target, liveSpec) ==
    [dhcp4 |-> target.dhcp4, addresses |-> target.addresses]

\* The transitional spec: the new addresses on top of the old static ones, the
\* old gateway kept unless DHCP supplies the route.
UnionSpec(prev, target, liveSpec) ==
    LET old  == IF prev = Nil THEN liveSpec ELSE prev
        dhcp == old.dhcp4 \/ target.dhcp4
    IN  [dhcp4     |-> dhcp,
         addresses |-> (IF old.dhcp4 THEN {} ELSE old.addresses) \cup target.addresses,
         gateway   |-> IF dhcp THEN NoGateway ELSE old.gateway]

----------------------------------------------------------------------------
Init ==
    /\ netconf = [i \in Ifaces |-> Nil]
    /\ managed = netconf
    /\ live = netconf
    /\ lock = "free"
    /\ pending = NoPending
    /\ armed = {}
    /\ fired = {}
    /\ req = [a \in Admins |-> NoReq]
    /\ handoffs = {}
    /\ changes = 0
    /\ faults = 0
    /\ working = netconf
    /\ superseded = FALSE
    /\ opened = [k \in Change |-> 0]
    /\ unsaved = {}

\* The root helper writes the netplan file, validates it (putting the old file
\* back when `netplan generate` refuses) and applies it. A failing apply leaves
\* the new file in place and the running state either way.
Helper(c, rc) ==
    \/ /\ rc = "ok"
       /\ managed' = c
       /\ live' = c
    \/ /\ rc = "generate"
       /\ UNCHANGED <<managed, live>>
    \/ /\ rc = "apply"
       /\ managed' = c
       /\ live' \in {live, c}

Outcomes == {"ok"} \cup HelperFaults

ClearTimer == armed' = armed \ {PendingToken}

----------------------------------------------------------------------------
(* Applying a change. The route reads the configuration before _net_apply  *)
(* takes the lock; _net_apply reads it again, for the rollback only.       *)

Read(a, target, dual, kind) ==
    /\ req[a].pc = "idle"
    /\ changes + Cardinality(InFlight) < MaxChanges
    /\ req' = [req EXCEPT ![a] =
                 [pc |-> "read", base |-> <<netconf, live>>, target |-> target, dual |-> dual,
                  prev |-> Nil, kind |-> kind, fresh |-> FALSE, change |-> 0]]
    /\ UNCHANGED <<netVars, lock, pending, armed, fired, handoffs, changes, faults, history>>

ReadInterface(a, i, spec) ==
    Read(a, [netconf EXCEPT ![i] = spec],
         [netconf EXCEPT ![i] = UnionSpec(netconf[i], spec, Effective(live, i))],
         "interface")

\* Members join the bridge with no address of their own, and the dual
\* configuration is the target itself.
BridgeConf(c, b, members, spec) ==
    [i \in Ifaces |-> CASE i \in members -> Blank
                        [] i = b /\ i \notin members -> spec
                        [] OTHER -> c[i]]

ReadBridge(a, b, members, spec) ==
    LET target == BridgeConf(netconf, b, members, spec)
    IN  Read(a, target, target, "bridge")

\* Mutant of ApplyHelper: the rollback configuration is the one the route read.
ApplyHelperStale(a) ==
    /\ req[a].pc = "read"
    /\ lock = "free"
    /\ \E rc \in Outcomes :
         /\ Helper(req[a].dual, rc)
         /\ IF rc = "ok"
            THEN /\ lock' = "applying"
                 /\ req' = [req EXCEPT ![a].pc = "save", ![a].prev = req[a].base[1],
                                         ![a].fresh = (req[a].base = <<netconf, live>>)]
            ELSE /\ req' = [req EXCEPT ![a] = NoReq]
                 /\ UNCHANGED lock
    /\ UNCHANGED <<netconf, pending, armed, fired, handoffs, changes, faults, history>>

\* Under the lock: remember the rollback configuration and run the helper. A
\* refused configuration answers with the error and leaves the rest alone.
ApplyHelper(a) ==
    /\ req[a].pc = "read"
    /\ lock = "free"
    /\ \E rc \in Outcomes :
         /\ Helper(req[a].dual, rc)
         /\ IF rc = "ok"
            THEN /\ lock' = "applying"
                 /\ req' = [req EXCEPT ![a].pc = "save", ![a].prev = netconf,
                                         ![a].fresh = (req[a].base = <<netconf, live>>)]
            ELSE /\ req' = [req EXCEPT ![a] = NoReq]
                 /\ UNCHANGED lock
    /\ UNCHANGED <<netconf, pending, armed, fired, handoffs, changes, faults, history>>

\* Save, replace the pending change and its timer, start the 'dual' timer.
ApplyCommit(a) ==
    LET k == changes + 1
    IN  /\ req[a].pc = "save"
        /\ netconf' = req[a].dual
        /\ armed' = (armed \ {PendingToken}) \cup {<<k, "dual">>}
        /\ pending' = [phase |-> "dual", change |-> k, prev |-> req[a].prev,
                       target |-> req[a].target, kind |-> req[a].kind,
                       fresh |-> req[a].fresh, url |-> 0]
        /\ changes' = k
        /\ lock' = "free"
        /\ req' = [req EXCEPT ![a] = [NoReq EXCEPT !.pc = "resolve", !.change = k,
                                      !.target = req[a].target]]
        /\ superseded' = (superseded \/ pending.phase # "none")
        /\ UNCHANGED <<managed, live, fired, handoffs, faults, working, opened,
                       unsaved>>

\* Outside the lock: find the new address and mint the handoff for it. A DHCP
\* target may get no lease in time; then nothing is minted.
Mint(a) ==
    /\ req[a].pc = "resolve"
    /\ \/ /\ handoffs' = {req[a].change}
          /\ req' = [req EXCEPT ![a].pc = "publish"]
       \/ /\ \E i \in Ifaces : req[a].target[i] # Nil /\ req[a].target[i].addresses = {}
          /\ req' = [req EXCEPT ![a] = NoReq]
          /\ UNCHANGED handoffs
    /\ UNCHANGED <<netVars, lock, pending, armed, fired, changes, faults, history>>

\* Mutant of Publish: the token is not compared.
PublishAnyway(a) ==
    /\ req[a].pc = "publish"
    /\ lock = "free"
    /\ pending' = [pending EXCEPT !.url = req[a].change]
    /\ req' = [req EXCEPT ![a] = NoReq]
    /\ UNCHANGED <<netVars, lock, armed, fired, handoffs, changes, faults, history>>

\* Under the lock again: publish the link, unless the change was replaced.
Publish(a) ==
    /\ req[a].pc = "publish"
    /\ lock = "free"
    /\ pending' = IF PendingToken = <<req[a].change, "dual">>
                  THEN [pending EXCEPT !.url = req[a].change]
                  ELSE pending
    /\ req' = [req EXCEPT ![a] = NoReq]
    /\ UNCHANGED <<netVars, lock, armed, fired, handoffs, changes, faults, history>>

----------------------------------------------------------------------------
(* finalize, confirm, revert and the timers *)

FinalizeHelper(k) ==
    /\ lock = "free"
    /\ pending.phase = "dual"
    /\ <<k, "dual">> = PendingToken
    /\ \E rc \in Outcomes :
         /\ Helper(pending.target, rc)
         /\ lock' = IF rc = "ok" THEN "finalizing" ELSE "free"
    /\ UNCHANGED <<netconf, pending, armed, fired, req, handoffs, changes, faults, history>>

\* Mutant of FinalizeCommit: the heartbeat timer is created but never started.
FinalizeUnarmed ==
    /\ lock = "finalizing"
    /\ netconf' = pending.target
    /\ ClearTimer
    /\ pending' = [pending EXCEPT !.phase = "finalizing"]
    /\ lock' = "free"
    /\ UNCHANGED <<managed, live, fired, req, handoffs, changes, faults, history>>

FinalizeCommit ==
    /\ lock = "finalizing"
    /\ netconf' = pending.target
    /\ armed' = (armed \ {PendingToken}) \cup {<<pending.change, "finalizing">>}
    /\ pending' = [pending EXCEPT !.phase = "finalizing"]
    /\ lock' = "free"
    /\ UNCHANGED <<managed, live, fired, req, handoffs, changes, faults, history>>

Confirm(k) ==
    /\ lock = "free"
    /\ pending.phase = "finalizing"
    /\ <<k, "finalizing">> = PendingToken
    /\ ClearTimer
    /\ pending' = NoPending
    /\ handoffs' = {}
    /\ working' = pending.target
    /\ superseded' = FALSE
    /\ UNCHANGED <<netVars, lock, fired, req, changes, faults, opened, unsaved>>

\* Both rollbacks run the helper, ignore its result, then save and clear.
RollbackHelper(section) ==
    /\ \E rc \in Outcomes : Helper(pending.prev, rc)
    /\ lock' = section

RevertHelper ==
    /\ lock = "free"
    /\ pending.phase # "none"
    /\ RollbackHelper("reverting")
    /\ UNCHANGED <<netconf, pending, armed, fired, req, handoffs, changes, faults, history>>

TimerFires(t) ==
    /\ t \in armed
    /\ armed' = armed \ {t}
    /\ fired' = fired \cup {t}
    /\ UNCHANGED <<netVars, lock, pending, req, handoffs, changes, faults, history>>

\* The callback has the lock: it returns when its change was superseded,
\* finalized, confirmed or reverted, and rolls back otherwise.
TimeoutRevert(t) ==
    /\ t \in fired
    /\ lock = "free"
    /\ fired' = fired \ {t}
    /\ IF PendingToken # t
       THEN UNCHANGED <<managed, live, lock>>
       ELSE RollbackHelper("expiring")
    /\ UNCHANGED <<netconf, pending, armed, req, handoffs, changes, faults, history>>

\* Mutant of RollbackCommit: the previous configuration is not saved.
RollbackUnsaved ==
    /\ lock \in Undoing
    /\ ClearTimer
    /\ pending' = NoPending
    /\ handoffs' = {}
    /\ lock' = "free"
    /\ UNCHANGED <<netVars, fired, req, changes, faults, history>>

RollbackCommit ==
    /\ lock \in Undoing
    /\ netconf' = pending.prev
    /\ ClearTimer
    /\ pending' = NoPending
    /\ handoffs' = {}
    /\ lock' = "free"
    /\ UNCHANGED <<managed, live, fired, req, changes, faults, history>>

\* write_json_atomic raises: the file is as it was, the section is left where it is and
\* its lock is released, with the helper's work done. A timer that ran out into this is
\* spent, while its change still pends.
SaveRaises ==
    /\ faults < MaxFaults
    /\ lock # "free"
    /\ faults' = faults + 1
    /\ lock' = "free"
    /\ req' = [a \in Admins |-> IF req[a].pc = "save" THEN NoReq ELSE req[a]]
    /\ unsaved' = IF lock = "expiring" THEN unsaved \cup {PendingToken} ELSE unsaved
    /\ UNCHANGED <<netVars, pending, armed, fired, handoffs, changes, working,
                   superseded, opened>>

----------------------------------------------------------------------------
(* The handoff link, and the environment *)

\* Mutant of ConsumeHandoff: the secret is not removed.
ConsumeWithoutBurning(k) ==
    /\ lock = "free"
    /\ k \in handoffs
    /\ opened' = IF pending.phase = "none" THEN opened
                 ELSE [opened EXCEPT ![k] = @ + 1]
    /\ UNCHANGED <<netVars, lock, pending, armed, fired, req, handoffs, changes,
                   faults, working, superseded, unsaved>>

\* A secret is burnt by the first use; it opens a session while a change pends.
ConsumeHandoff(k) ==
    /\ lock = "free"
    /\ k \in handoffs
    /\ handoffs' = handoffs \ {k}
    /\ opened' = IF pending.phase = "none" THEN opened
                 ELSE [opened EXCEPT ![k] = @ + 1]
    /\ UNCHANGED <<netVars, lock, pending, armed, fired, req, changes, faults,
                   working, superseded, unsaved>>

HandoffExpires(k) ==
    /\ k \in handoffs
    /\ handoffs' = handoffs \ {k}
    /\ UNCHANGED <<netVars, lock, pending, armed, fired, req, changes, faults, history>>

\* The service restarts: everything in memory is gone. After a reboot of the
\* host the network comes up from the netplan file.
Crash ==
    /\ faults < MaxFaults
    /\ faults' = faults + 1
    /\ lock' = "free"
    /\ pending' = NoPending
    /\ armed' = {}
    /\ fired' = {}
    /\ req' = [a \in Admins |-> NoReq]
    /\ handoffs' = {}
    /\ live' \in {live, managed}
    /\ UNCHANGED <<netconf, managed, changes, history>>

----------------------------------------------------------------------------
Request(a) == ApplyHelper(a) \/ ApplyCommit(a) \/ Mint(a) \/ Publish(a)

Next ==
    \/ \E a \in Admins, s \in Targets :
         \/ \E i \in Ifaces \ Bridges : ReadInterface(a, i, s)
         \/ \E b \in Bridges, ms \in SUBSET (Ifaces \ Bridges) : ReadBridge(a, b, ms, s)
    \/ \E a \in Admins : Request(a)
    \/ \E k \in Change : FinalizeHelper(k) \/ Confirm(k)
    \/ FinalizeCommit
    \/ RevertHelper
    \/ RollbackCommit
    \/ SaveRaises
    \/ \E t \in Token : TimerFires(t) \/ TimeoutRevert(t)
    \/ \E k \in Change : ConsumeHandoff(k) \/ HandoffExpires(k)
    \/ Crash

Spec == Init /\ [][Next]_vars

\* Threads that have started run on, and an armed threading.Timer fires. Nothing
\* obliges an admin to act.
Fairness ==
    /\ \A a \in Admins : WF_vars(Request(a))
    /\ \A t \in Token : WF_vars(TimerFires(t)) /\ WF_vars(TimeoutRevert(t))
    /\ WF_vars(FinalizeCommit)
    /\ WF_vars(RollbackCommit)

FairSpec == Spec /\ Fairness

----------------------------------------------------------------------------
(* Properties *)

\* Type invariant of every variable.
TypeOK ==
    /\ netconf \in Conf
    /\ managed \in Conf
    /\ live \in Conf
    /\ lock \in {"free", "applying", "finalizing"} \cup Undoing
    /\ pending \in PendingType
    /\ armed \subseteq Token
    /\ fired \subseteq Token
    /\ req \in [Admins -> ReqType]
    /\ handoffs \subseteq Change
    /\ changes \in 0..MaxChanges
    /\ faults \in 0..MaxFaults
    /\ working \in Conf
    /\ superseded \in BOOLEAN
    /\ opened \in [Change -> Nat]
    /\ unsaved \subseteq Token

\* A change never waits without its own rollback timer: as long as one is
\* pending, the timer of exactly this change and phase is armed or its callback
\* is waiting, or the callback already rolls back (_net_apply, network_finalize and
\* _net_timeout_revert keep the record and the timer together). The exception is a
\* timer that has run out into a save that raised.
TimerGuards ==
    pending.phase # "none" /\ PendingToken \notin unsaved =>
        PendingToken \in armed \cup fired \/ lock = "expiring"

\* No timer of a change that is over is left armed: confirm, revert and
\* replacement cancel it (network.py _net_clear_timer), so a stale callback can
\* only be one that had already fired.
NoStrayTimer == armed \subseteq {PendingToken}

AtRest == pending.phase = "none" /\ lock = "free"

\* When no change is pending, the host runs, and the dashboard has on file, the
\* last configuration known to work: the initial one or the last one confirmed.
\* Late timers, stale tabs and racing reverts do not move it. Changes stacked on
\* a pending one are excluded here (see NeverLockedOut), and so are helpers and saves
\* that fail.
RestsOnWorking == AtRest /\ ~superseded => live = working /\ netconf = working

\* The claim of _net_timeout_revert's docstring without that exclusion: whatever
\* ended the change, the admin keeps or regains a working connection.
NeverLockedOut ==
    AtRest => \A i \in Ifaces : Reach(working, i) \subseteq Reach(live, i)

\* DHCP with static addresses beside it: what a dual phase may have, and what the
\* OS may give an interface. A confirmed configuration has it when a change of
\* another interface was read, or stacked, during a dual phase.
Mixed(c, i) == Effective(c, i).dhcp4 /\ Effective(c, i).addresses # {}

\* In the dual phase of an interface change the addresses that worked before
\* still answer, and a purely static interface keeps its gateway. A request
\* whose configuration changed between its read and the lock is excluded here,
\* and so are the static addresses of a mixed interface, which UnionSpec drops.
KeepsOldConnection ==
    /\ pending.phase = "dual" /\ lock = "free" /\ ~superseded
    /\ pending.kind = "interface" /\ pending.fresh
    => \A i \in Ifaces :
         /\ Reach(working, i) \subseteq Reach(live, i) \/ Mixed(working, i)
         /\ ~Effective(live, i).dhcp4 => Effective(live, i).gateway = Effective(working, i).gateway

\* The link shown for the pending change carries this change's own secret, even
\* when address resolution of an earlier change ends late.
UrlIsCurrent == pending.url # 0 => pending.url = pending.change

\* A handoff secret opens at most one session, whoever races for it.
HandoffOnce == \A k \in Change : opened[k] <= 1

\* The root helper does what it is asked, saves succeed and the server stays up.
Dependable == HelperFaults = {} /\ MaxFaults = 0

\* Between the helper and the save of a step the host is ahead of the file. What the
\* step does counts from its save, when the lock is released.
Promise == INSTANCE NetSpec WITH
    Confs <- Conf, saved <- netconf, running <- IF lock = "free" THEN live ELSE netconf,
    agreed <- working, stage <- pending.phase, back <- pending.prev,
    offer <- pending.target, stacked <- superseded

\* Requests that race on stale reads, late timers, stale tabs and steps split at the
\* helper are, to the host and to the record on file, changes tried, made final,
\* confirmed or taken back one at a time (what _net_lock and the tokens are for).
ChangeIsAtomic == Promise!ASpec

\* Whatever admins do, a pending change ends: confirmed, reverted or timed out, or it is
\* the one whose timer ran out into a save that raised, for an admin to revert.
PendingEnds == pending.phase # "none" ~> pending.phase = "none" \/ PendingToken \in unsaved

=============================================================================
