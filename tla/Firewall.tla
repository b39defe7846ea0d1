------------------------------ MODULE Firewall ------------------------------
(***************************************************************************)
(* The firewall page (nexusdash/modules/firewall.py), a front end of ufw.  *)
(* Of the rules, the model keeps those about the dashboard's own port; a   *)
(* rule is listed by number, IPv4 rules first, and a deletion names the    *)
(* number it saw. A request is several ufw commands; requests are not      *)
(* serialised.                                                             *)
(***************************************************************************)
EXTENDS Naturals, Sequences, SequencesExt, FiniteSets

CONSTANTS
    Threads,      \* request threads
    MaxRules,     \* bound: rules in the table
    MaxRequests   \* bound: requests

VARIABLES
    active,    \* ufw filters
    incoming,  \* the default policy of incoming traffic
    rules,     \* the table, in the order of its numbers
    th, requests,
    had,       \* history: the families that had an allow when the latest request began
    excused    \* history: the admin confirmed a warning or declined the guard, the guard
               \* took another rule for an allow of the port, a ufw command failed, or
               \* two requests overlapped

vars == <<active, incoming, rules, th, requests, had, excused>>

\* REJECT counts as deny. A udp rule of the port stands also for a rule of another
\* port that has the number in its comment: no test below tells them apart.
Rule == [action : {"allow", "limit", "deny"}, proto : {"any", "tcp", "udp"},
         from : {"any", "some"}, v6 : BOOLEAN]
Idle == [pc |-> "idle"]

Init ==
    /\ active = FALSE
    /\ incoming \in {"allow", "deny"}
    /\ rules = <<>>
    /\ th = [t \in Threads |-> Idle]
    /\ requests = 0
    /\ had = {}
    /\ excused = FALSE

----------------------------------------------------------------------------
(* ufw *)

\* A rule for any source is added for both families; one that differs from a
\* rule of the table in its action only changes that rule.
SameMatch(a, b) == <<a.proto, a.from, a.v6>> = <<b.proto, b.from, b.v6>>
FirstSix(table) == Cardinality({i \in DOMAIN table : ~table[i].v6}) + 1
AddOne(table, r) ==
    IF \E i \in DOMAIN table : SameMatch(table[i], r)
    THEN [i \in DOMAIN table |-> IF SameMatch(table[i], r) THEN r ELSE table[i]]
    ELSE InsertAt(table, IF r.v6 THEN Len(table) + 1 ELSE FirstSix(table), r)
Added(table, r) ==
    LET four == AddOne(table, [r EXCEPT !.v6 = FALSE])
    IN  IF r.from = "any" THEN AddOne(four, [r EXCEPT !.v6 = TRUE]) ELSE four

\* The table a request sees: ufw lists no numbers while it is inactive.
Listed == IF active THEN rules ELSE <<>>

\* _covers_dashboard: the page is served over TCP.
OfDashboard(r) == r.proto \in {"any", "tcp"}
Covers(r) == r.action \in {"allow", "limit"} /\ OfDashboard(r)
AllowedIn(table, six) == \E i \in DOMAIN table : Covers(table[i]) /\ table[i].v6 = six
FamilyAllowed(six) == AllowedIn(rules, six)

WouldCutAnyFamily(n) ==
    /\ incoming = "deny"
    /\ Covers(Listed[n])
    /\ ~\E i \in DOMAIN Listed : i # n /\ Covers(Listed[i])

\* _delete_would_cut_dashboard: the last allow of its family, under default deny.
WouldCut(n) ==
    /\ incoming = "deny"
    /\ Covers(Listed[n])
    /\ ~\E i \in DOMAIN Listed : i # n /\ Listed[i].v6 = Listed[n].v6 /\ Covers(Listed[i])

BlocksDashboard(r) == r.action = "deny" /\ OfDashboard(r)
KeepsDashboardOpen(r) == Covers(r) /\ r.from = "any"

----------------------------------------------------------------------------
(* Requests *)

Alone(t) == \A o \in Threads \ {t} : th[o] = Idle
Begin(t, next, excuse) ==
    /\ th[t] = Idle /\ requests < MaxRequests
    /\ requests' = requests + 1
    /\ th' = [th EXCEPT ![t] = next]
    /\ had' = {six \in BOOLEAN : FamilyAllowed(six)}
    /\ excused' = (excused \/ excuse \/ ~Alone(t))
    /\ UNCHANGED <<active, incoming, rules>>

Enable(t) == \E guard \in BOOLEAN :
    Begin(t, [pc |-> IF guard THEN "check" ELSE "act", act |-> "enable"], ~guard)
Disable(t) == Begin(t, [pc |-> "act", act |-> "disable"], FALSE)
PolicyNeedsGuardReject(pol) == pol = "reject"
PolicyNeedsGuard(pol) == pol # "allow"
Policy(t) == \E pol \in {"allow", "deny"} :
    Begin(t, [pc |-> IF PolicyNeedsGuard(pol) THEN "check" ELSE "act", act |-> pol], FALSE)

RuleAdd(t) == \E r \in Rule :
    /\ ~r.v6
    /\ Begin(t, [pc |-> "add", rule |-> r], BlocksDashboard(r))

\* The number is the one of the rule the client saw: anything else is refused.
RuleDelete(t) == \E n \in DOMAIN Listed :
    Begin(t, [pc |-> "delete", number |-> n], WouldCut(n))

RuleUpdate(t) == \E n \in DOMAIN Listed, r \in Rule :
    /\ ~r.v6
    /\ Begin(t, [pc |-> "replace", number |-> n, old |-> Listed[n], rule |-> r],
             BlocksDashboard(r) \/ (WouldCut(n) /\ ~KeepsDashboardOpen(r)))

Step(t, next) == th' = [th EXCEPT ![t] = next]

\* _dashboard_port_has_allow: a regular expression on the commands that added the
\* rules. An allow of either family, however scoped, counts, also one of udp; a limit
\* does not.
GuardSeesAllow == \E i \in DOMAIN rules : rules[i].action = "allow"

\* The port is really allowed.
OpenIn(table) == \E i \in DOMAIN table : Covers(table[i])
HasAllow == OpenIn(rules)

Check(t) ==
    /\ th[t].pc = "check"
    /\ Step(t, [th[t] EXCEPT !.pc = IF GuardSeesAllow THEN "act" ELSE "allow"])
    /\ excused' = (excused \/ (GuardSeesAllow /\ ~HasAllow))
    /\ UNCHANGED <<active, incoming, rules, requests, had>>

\* A listing that fails counts as none.
CheckFails(t) ==
    /\ th[t].pc = "check"
    /\ Step(t, [th[t] EXCEPT !.pc = "allow"])
    /\ UNCHANGED <<active, incoming, rules, requests, had, excused>>

\* Its result is not looked at.
AllowDashboard(t) ==
    /\ th[t].pc = "allow"
    /\ \/ /\ Len(rules) + 2 <= MaxRules
          /\ rules' = Added(rules, [action |-> "allow", proto |-> "tcp", from |-> "any", v6 |-> FALSE])
          /\ UNCHANGED excused
       \/ UNCHANGED rules /\ excused' = TRUE
    /\ Step(t, [th[t] EXCEPT !.pc = "act"])
    /\ UNCHANGED <<active, incoming, requests, had>>

Act(t) ==
    /\ th[t].pc = "act"
    /\ \/ /\ active' = CASE th[t].act = "enable" -> TRUE
                         [] th[t].act = "disable" -> FALSE
                         [] OTHER -> active
          /\ incoming' = IF th[t].act \in {"allow", "deny"} THEN th[t].act ELSE incoming
       \/ UNCHANGED <<active, incoming>>
    /\ Step(t, Idle)
    /\ UNCHANGED <<rules, requests, had, excused>>

\* The command that adds may fail; in an edit, the old rule is then put back, for
\* both families, which may fail as well.
Add(t) ==
    /\ th[t].pc \in {"add", "readd"}
    /\ \/ /\ Len(rules) + 2 <= MaxRules
          /\ rules' = Added(rules, th[t].rule)
          /\ Step(t, Idle)
       \/ /\ UNCHANGED rules
          /\ Step(t, IF th[t].pc = "add" THEN Idle
                     ELSE [pc |-> "restore", rule |-> th[t].old])
    /\ UNCHANGED <<active, incoming, requests, had, excused>>

Restore(t) ==
    /\ th[t].pc = "restore"
    /\ \/ /\ Len(rules) + 2 <= MaxRules
          /\ rules' = Added(rules, [th[t].rule EXCEPT !.v6 = FALSE])
          /\ UNCHANGED excused
       \/ UNCHANGED rules /\ excused' = TRUE
    /\ Step(t, Idle)
    /\ UNCHANGED <<active, incoming, requests, had>>

\* ufw deletes the rule that has the number now.
Delete(t) ==
    /\ th[t].pc \in {"delete", "replace"}
    /\ \/ /\ th[t].number \in DOMAIN rules
          /\ rules' = RemoveAt(rules, th[t].number)
          /\ Step(t, IF th[t].pc = "delete" THEN Idle
                     ELSE [pc |-> "readd", rule |-> th[t].rule, old |-> th[t].old])
       \/ UNCHANGED rules /\ Step(t, Idle)
    /\ UNCHANGED <<active, incoming, requests, had, excused>>

Next == \E t \in Threads :
    \/ Enable(t) \/ Disable(t) \/ Policy(t) \/ RuleAdd(t) \/ RuleDelete(t) \/ RuleUpdate(t)
    \/ Check(t) \/ CheckFails(t) \/ AllowDashboard(t) \/ Act(t)
    \/ Add(t) \/ Restore(t) \/ Delete(t)

Spec == Init /\ [][Next]_vars

----------------------------------------------------------------------------
ThreadType ==
    {Idle} \cup [pc : {"check", "allow", "act"}, act : {"enable", "disable", "allow", "deny"}]
    \cup [pc : {"add", "restore"}, rule : Rule] \cup [pc : {"delete"}, number : Nat]
    \cup [pc : {"replace"}, number : Nat, old : Rule, rule : Rule]
    \cup [pc : {"readd"}, rule : Rule, old : Rule]
TypeOK ==
    /\ active \in BOOLEAN
    /\ incoming \in {"allow", "deny"}
    /\ rules \in Seq(Rule)
    /\ had \subseteq BOOLEAN
    /\ th \in [Threads -> ThreadType]
    /\ excused \in BOOLEAN

Answered == \A t \in Threads : th[t] = Idle

\* "The hard lockout guard: the port serving this UI stays reachable": no series
\* of requests, each answered before the next, that never confirms a warning
\* leaves a denying firewall without an allow of the dashboard's port, unless the
\* guard took a rule of udp, or of another port, for one
\* (_ensure_dashboard_allowed, _delete_would_cut_dashboard, _readd_parsed).
NeverLockedOut == (active /\ incoming = "deny" /\ ~excused /\ Answered) => HasAllow

\* "a v6 allow does not keep v4 clients in": an address family that had an allow when
\* a request began has one when the request is answered, unless its warning was
\* confirmed: a deletion leaves another one, an edit adds one or puts the old rule
\* back (_delete_would_cut_dashboard, firewall_rule_update).
FamilyKept == (active /\ incoming = "deny" /\ ~excused /\ Answered)
                  => \A six \in had : FamilyAllowed(six)

----------------------------------------------------------------------------
(* What makes them inductive, while nothing is excused *)

OneAtATime == \A t, o \in Threads : th[t] # Idle /\ th[o] # Idle => t = o

Denying == active /\ incoming = "deny"

\* Nobody was warned, so no rule denies the port; a rule with a source is one of IPv4
\* (the model has no other).
Fine(r) == ~BlocksDashboard(r) /\ (r.from = "some" => ~r.v6)
AllFine(table) == \A i \in DOMAIN table : Fine(table[i])

\* The families that had an allow have one, and the port has one when it needs one.
Keeps(table, families) == \A six \in families : AllowedIn(table, six)
KeepsBut(table, n, families) == \A six \in families :
    \E i \in DOMAIN table : i # n /\ Covers(table[i]) /\ table[i].v6 = six

\* Putting r in makes up for what is missing.
Heals(r, six) == Covers(r) /\ (r.from = "any" \/ ~six)
Restores(r, table, families) ==
    families # {} /\ \A six \in families : AllowedIn(table, six) \/ Heals(r, six)

\* A request on its way: only an edit between its two halves may have taken an allow
\* away, and what it adds or puts back makes up for it; a deletion leaves another one
\* of the family; the guard has seen or made one before the firewall starts to deny.
Working(x, table, families, denying) ==
    /\ x.pc \notin {"readd", "restore"} =>
          Keeps(table, families) /\ (denying => OpenIn(table))
    /\ x.pc = "act" /\ x.act \in {"enable", "deny"} => OpenIn(table)
    /\ x.pc \in {"add", "readd", "replace"} => ~BlocksDashboard(x.rule)
    /\ x.pc = "restore" => Fine(x.rule)
    /\ x.pc \in {"readd", "replace"} => Fine(x.old)
    /\ x.pc \in {"delete", "replace"} /\ denying => families # {}
    /\ x.pc = "delete" /\ denying => KeepsBut(table, x.number, families)
    /\ x.pc = "replace" /\ denying =>
          /\ x.number \in DOMAIN table => table[x.number] = x.old
          /\ KeepsBut(table, x.number, families) \/ KeepsDashboardOpen(x.rule)
    /\ x.pc \in {"readd", "restore"} /\ denying => Restores(x.rule, table, families)
    /\ x.pc = "readd" /\ denying => Restores(x.old, table, families)

Safe ==
    /\ OneAtATime
    /\ AllFine(rules)
    /\ Answered /\ Denying => Keeps(rules, had) /\ OpenIn(rules)
    /\ \A t \in Threads : th[t] # Idle => Working(th[t], rules, had, Denying)

IInv == TypeOK /\ (~excused => Safe)
=============================================================================
