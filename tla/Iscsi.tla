------------------------------- MODULE Iscsi -------------------------------
(***************************************************************************)
(* The iSCSI target page (nexusdash/modules/iscsi.py). Every change is a   *)
(* targetcli command on the kernel's live configuration followed by        *)
(* `targetcli saveconfig`, which writes the whole live configuration to    *)
(* the file that target.service loads. Requests are not serialised.        *)
(***************************************************************************)
EXTENDS Naturals, Sequences, FiniteSets

CONSTANTS
    Threads,      \* request threads
    Iqns,         \* target names
    Stores,       \* backstores
    Initiators,   \* initiators an ACL may name
    Absent,       \* a target that does not exist
    MaxRequests   \* bound: requests and restarts

VARIABLES
    live,      \* the kernel's configuration
    saved,     \* the file target.service loads
    th, requests,
    unsaved    \* history: the latest saveconfig failed

vars == <<live, saved, th, requests, unsaved>>

Target == [shared : BOOLEAN, auth : BOOLEAN, luns : SUBSET Stores,
           acls : SUBSET Initiators, chap : SUBSET Initiators, portal : BOOLEAN]
Config == [stores : SUBSET Stores, target : [Iqns -> {Absent} \cup Target]]

\* What LIO makes of a new target: nobody may connect, on the default portal.
Fresh == [shared |-> FALSE, auth |-> FALSE, luns |-> {}, acls |-> {}, chap |-> {}, portal |-> TRUE]
Empty == [stores |-> {}, target |-> [q \in Iqns |-> Absent]]
Idle == [pc |-> "idle", todo |-> <<>>]

Init ==
    /\ live = Empty
    /\ saved = live
    /\ th = [t \in Threads |-> Idle]
    /\ requests = 0
    /\ unsaved = FALSE

----------------------------------------------------------------------------
(* targetcli *)

\* The configuration a command makes of c; the empty set when it is refused.
Outcome(c, op) ==
    LET set(q, tpg) == {[c EXCEPT !.target[q] = tpg]}
        old == c.target[op.iqn]
    IN IF op.cmd = "backstore create"
       THEN IF op.store \in c.stores THEN {} ELSE {[c EXCEPT !.stores = @ \cup {op.store}]}
       ELSE IF op.cmd = "backstore delete"
       THEN IF op.store \notin c.stores THEN {}
            ELSE {[stores |-> c.stores \ {op.store},
                   target |-> [q \in Iqns |-> IF c.target[q] = Absent THEN Absent
                                 ELSE [c.target[q] EXCEPT !.luns = @ \ {op.store}]]]}
       ELSE IF op.cmd = "create" THEN IF old = Absent THEN set(op.iqn, Fresh) ELSE {}
       ELSE IF old = Absent THEN {}
       ELSE CASE op.cmd = "delete" -> set(op.iqn, Absent)
              [] op.cmd = "shared" -> set(op.iqn, [old EXCEPT !.shared = TRUE])
              [] op.cmd = "restricted" -> set(op.iqn, [old EXCEPT !.shared = FALSE])
              [] op.cmd = "authentication" -> set(op.iqn, [old EXCEPT !.auth = TRUE])
              [] op.cmd = "lun create" ->
                    IF op.store \in c.stores \ old.luns
                    THEN set(op.iqn, [old EXCEPT !.luns = @ \cup {op.store}]) ELSE {}
              [] op.cmd = "lun delete" ->
                    IF op.store \in old.luns
                    THEN set(op.iqn, [old EXCEPT !.luns = @ \ {op.store}]) ELSE {}
              [] op.cmd = "acl create" ->
                    IF op.initiator \in old.acls THEN {}
                    ELSE set(op.iqn, [old EXCEPT !.acls = @ \cup {op.initiator}])
              [] op.cmd = "acl delete" ->
                    IF op.initiator \in old.acls
                    THEN set(op.iqn, [old EXCEPT !.acls = @ \ {op.initiator},
                                                 !.chap = @ \ {op.initiator}]) ELSE {}
              [] op.cmd = "userid" ->
                    IF op.initiator \in old.acls
                    THEN set(op.iqn, [old EXCEPT !.chap = @ \cup {op.initiator}]) ELSE {}
              [] op.cmd = "userid clear" ->
                    IF op.initiator \in old.acls
                    THEN set(op.iqn, [old EXCEPT !.chap = @ \ {op.initiator}]) ELSE {}
              [] op.cmd = "portal create" ->
                    IF old.portal THEN {} ELSE set(op.iqn, [old EXCEPT !.portal = TRUE])
              [] op.cmd = "portal delete" ->
                    IF old.portal THEN set(op.iqn, [old EXCEPT !.portal = FALSE]) ELSE {}

\* `must`: the request stops at this command when it fails.
Cmd(c, q, must) == [cmd |-> c, iqn |-> q, must |-> must]
With(op, f, v) == [x \in DOMAIN op \cup {f} |-> IF x = f THEN v ELSE op[x]]

----------------------------------------------------------------------------
(* Requests *)

Begin(t, todo) ==
    /\ th[t].pc = "idle" /\ requests < MaxRequests
    /\ requests' = requests + 1
    /\ th' = [th EXCEPT ![t] = [pc |-> "edit", todo |-> todo]]
    /\ UNCHANGED <<live, saved, unsaved>>

TargetCreate(t) == \E q \in Iqns, mode \in {"shared", "restricted"} :
    Begin(t, <<Cmd("create", q, TRUE), Cmd(mode, q, FALSE)>>)
TargetEdit(t) == \E q \in Iqns, c \in {"delete", "shared", "restricted", "portal create",
                                       "portal delete"} : Begin(t, <<Cmd(c, q, TRUE)>>)
StoreEdit(t) == \E s \in Stores, q \in Iqns, c \in {"backstore create", "backstore delete"} :
    Begin(t, <<With(Cmd(c, q, TRUE), "store", s)>>)
LunEdit(t) == \E s \in Stores, q \in Iqns, c \in {"lun create", "lun delete"} :
    Begin(t, <<With(Cmd(c, q, TRUE), "store", s)>>)
AclEdit(t) == \E i \in Initiators, q \in Iqns, c \in {"acl create", "acl delete", "userid clear"} :
    Begin(t, <<With(Cmd(c, q, TRUE), "initiator", i)>>)
\* The answer to "authentication=1" is not looked at.
AclChap(t) == \E i \in Initiators, q \in Iqns :
    Begin(t, <<Cmd("authentication", q, FALSE), With(Cmd("userid", q, TRUE), "initiator", i)>>)

Continue(todo) == IF todo = <<>> THEN Idle ELSE [pc |-> "edit", todo |-> todo]

\* tmutate: the command, and on success the save of whatever is live by then.
AfterEditUnsaved(t) == Continue(Tail(th[t].todo))
AfterEdit(t) == [pc |-> "save", todo |-> Tail(th[t].todo)]

Edit(t) ==
    /\ th[t].pc = "edit"
    /\ LET op == Head(th[t].todo) IN
       \/ /\ live' \in Outcome(live, op)
          /\ th' = [th EXCEPT ![t] = AfterEdit(t)]
       \/ /\ UNCHANGED live
          /\ th' = [th EXCEPT ![t] = IF op.must THEN Idle ELSE Continue(Tail(th[t].todo))]
    /\ UNCHANGED <<saved, requests, unsaved>>

SaveConfig(t) ==
    /\ th[t].pc = "save"
    /\ \/ saved' = live /\ unsaved' = FALSE
       \/ UNCHANGED saved /\ unsaved' = TRUE
    /\ th' = [th EXCEPT ![t] = Continue(th[t].todo)]
    /\ UNCHANGED <<live, requests>>

\* iscsi_saveconfig, on its own.
SaveRequest(t) ==
    /\ th[t].pc = "idle" /\ requests < MaxRequests
    /\ requests' = requests + 1
    /\ saved' = live /\ unsaved' = FALSE
    /\ UNCHANGED <<live, th>>

\* target.service restarts (the services page, or the host).
Restart ==
    /\ requests < MaxRequests /\ requests' = requests + 1
    /\ live' = saved /\ unsaved' = FALSE
    /\ UNCHANGED <<saved, th>>

Next ==
    \/ \E t \in Threads :
          \/ TargetCreate(t) \/ TargetEdit(t) \/ StoreEdit(t) \/ LunEdit(t)
          \/ AclEdit(t) \/ AclChap(t) \/ Edit(t) \/ SaveConfig(t) \/ SaveRequest(t)
    \/ Restart

Spec == Init /\ [][Next]_vars

----------------------------------------------------------------------------
TypeOK ==
    /\ {live, saved} \subseteq Config
    /\ \A t \in Threads : th[t].pc \in {"idle", "edit", "save"}
    /\ unsaved \in BOOLEAN
    /\ requests \in 0..MaxRequests

\* Once every request is answered, a restart of target.service changes nothing
\* unless the latest save failed, however requests and restarts interleave:
\* "without this a target.service restart loses everything" (tmutate).
RestartKeepsAll ==
    (~unsaved /\ \A t \in Threads : th[t] = Idle) => saved = live


\* What makes it inductive: what is live and not on file is about to be saved, by
\* the request that changed it or by a later one.
SaveComes ==
    /\ DOMAIN th = Threads
    /\ saved = live \/ unsaved \/ \E t \in Threads : th[t].pc = "save"
=============================================================================
