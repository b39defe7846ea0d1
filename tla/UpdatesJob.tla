----------------------------- MODULE UpdatesJob -----------------------------
(***************************************************************************)
(* The background update check and the update apply of                     *)
(* nexusdash/modules/updates.py: request threads that kick them, check     *)
(* threads, the one apply thread, and the two flags with their two locks.  *)
(* The package database is an epoch (updates applied so far) and whether   *)
(* anything is pending; a check takes a reading and records it later.      *)
(***************************************************************************)
EXTENDS Naturals, FiniteSets

CONSTANTS
    Requests,   \* request threads
    Checks,     \* background check threads (bound: that many at once)
    CheckFails, \* whether a check may fail or raise
    Failed,     \* the result of a failed check
    MaxApplies  \* bound: successful applies

VARIABLES
    world,     \* the package database
    cache,     \* _state: the reading of the last check that succeeded
    checking,  \* _state['checking'], under _lock
    running,   \* _apply['running'], under _apply_lock
    req,       \* what each request thread is about to do
    check,     \* each check thread
    apply      \* the apply thread

vars == <<world, cache, checking, running, req, check, apply>>

Reading == [epoch : 0..MaxApplies, pending : BOOLEAN]
Stages == {"idle", "query", "record", "clear"}
ThreadType == [pc : Stages \cup {"helper", "finish"}, result : Reading \cup {Failed}]

Idle == [pc |-> "idle", result |-> Failed]
Start(pc) == [pc |-> pc, result |-> Failed]

Init ==
    /\ world \in [epoch : {0}, pending : BOOLEAN]
    /\ cache = [epoch |-> 0, pending |-> FALSE]
    /\ checking = FALSE
    /\ running = FALSE
    /\ req = [r \in Requests |-> "idle"]
    /\ check = [c \in Checks |-> Idle]
    /\ apply = Idle

----------------------------------------------------------------------------
(* Kicking a check: the apply flag is read without its lock, then the check *)
(* flag is claimed under the other lock.                                    *)

\* _kick_refresh from the summary or the page; api_updates_check forces it, and
\* answers at once when a check is running.
KickRead(r, force) ==
    /\ req[r] = "idle"
    /\ force => ~checking
    /\ ~running
    /\ req' = [req EXCEPT ![r] = IF force THEN "force" ELSE "kick"]
    /\ UNCHANGED <<world, cache, checking, running, check, apply>>

\* The cache is fresh or another check runs: nothing to do. Staleness is a
\* matter of time, so it may go either way.
KickNothing(r) ==
    /\ req[r] = "kick" \/ (req[r] = "force" /\ checking)
    /\ req' = [req EXCEPT ![r] = "idle"]
    /\ UNCHANGED <<world, cache, checking, running, check, apply>>

KickStart(r, c) ==
    /\ req[r] \in {"kick", "force"}
    /\ ~checking
    /\ check[c].pc = "idle"
    /\ checking' = TRUE
    /\ check' = [check EXCEPT ![c] = Start("query")]
    /\ req' = [req EXCEPT ![r] = "idle"]
    /\ UNCHANGED <<world, cache, running, apply>>

\* api_updates_apply looks at a snapshot of the check state first.
ApplyRead(r) ==
    /\ req[r] = "idle"
    /\ ~checking
    /\ cache.pending
    /\ req' = [req EXCEPT ![r] = "apply"]
    /\ UNCHANGED <<world, cache, checking, running, check, apply>>

\* Mutant of ApplyClaim: the flag is not looked at again under the lock.
ApplyClaimBlindly(r) ==
    /\ req[r] = "apply"
    /\ running' = TRUE
    /\ apply' = Start("helper")
    /\ req' = [req EXCEPT ![r] = "idle"]
    /\ UNCHANGED <<world, cache, checking, check>>

ApplyClaim(r) ==
    /\ req[r] = "apply"
    /\ req' = [req EXCEPT ![r] = "idle"]
    /\ IF running
       THEN UNCHANGED <<running, apply>>
       ELSE running' = TRUE /\ apply' = Start("helper")
    /\ UNCHANGED <<world, cache, checking, check>>

----------------------------------------------------------------------------
(* _refresh, run by a check thread and by the apply thread *)

Results == {world} \cup (IF CheckFails THEN {Failed} ELSE {})

\* Record one thread's result: a failed check keeps the old counts.
Recorded(result) == cache' = IF result = Failed THEN cache ELSE result

CheckQuery(c) ==
    /\ check[c].pc = "query"
    /\ \E result \in Results :
         check' = [check EXCEPT ![c] = [pc |-> "record", result |-> result]]
    /\ UNCHANGED <<world, cache, checking, running, req, apply>>

CheckRecord(c) ==
    /\ check[c].pc = "record"
    /\ Recorded(check[c].result)
    /\ check' = [check EXCEPT ![c].pc = "clear"]
    /\ UNCHANGED <<world, checking, running, req, apply>>

\* Mutant of CheckClear: the flag is cleared on success only, not in a finally.
CheckClearOnSuccess(c) ==
    /\ check[c].pc = "clear"
    /\ checking' = (checking /\ check[c].result = Failed)
    /\ check' = [check EXCEPT ![c] = Idle]
    /\ UNCHANGED <<world, cache, running, req, apply>>

CheckClear(c) ==
    /\ check[c].pc = "clear"
    /\ checking' = FALSE
    /\ check' = [check EXCEPT ![c] = Idle]
    /\ UNCHANGED <<world, cache, running, req, apply>>

\* The root helper ends: the updates are in, or it failed.
ApplyHelper ==
    /\ apply.pc = "helper"
    /\ \/ /\ world.epoch < MaxApplies
          /\ world' = [epoch |-> world.epoch + 1, pending |-> FALSE]
       \/ UNCHANGED world
    /\ apply' = Start("query")
    /\ UNCHANGED <<cache, checking, running, req, check>>

ApplyQuery ==
    /\ apply.pc = "query"
    /\ \E result \in Results : apply' = [pc |-> "record", result |-> result]
    /\ UNCHANGED <<world, cache, checking, running, req, check>>

ApplyRecord ==
    /\ apply.pc = "record"
    /\ Recorded(apply.result)
    /\ apply' = [apply EXCEPT !.pc = "clear"]
    /\ UNCHANGED <<world, checking, running, req, check>>

ApplyClear ==
    /\ apply.pc = "clear"
    /\ checking' = FALSE
    /\ apply' = [apply EXCEPT !.pc = "finish"]
    /\ UNCHANGED <<world, cache, running, req, check>>

\* Mutant of ApplyFinish: the flag stays up.
ApplyFinishSilent ==
    /\ apply.pc = "finish"
    /\ apply' = Idle
    /\ UNCHANGED <<world, cache, checking, running, req, check>>

ApplyFinish ==
    /\ apply.pc = "finish"
    /\ running' = FALSE
    /\ apply' = Idle
    /\ UNCHANGED <<world, cache, checking, req, check>>

\* Upstream publishes new updates.
Publish ==
    /\ ~world.pending
    /\ world' = [world EXCEPT !.pending = TRUE]
    /\ UNCHANGED <<cache, checking, running, req, check, apply>>

----------------------------------------------------------------------------
CheckStep(c) == CheckQuery(c) \/ CheckRecord(c) \/ CheckClear(c)
ApplyStep == ApplyHelper \/ ApplyQuery \/ ApplyRecord \/ ApplyClear \/ ApplyFinish

Next ==
    \/ \E r \in Requests :
         \/ \E force \in BOOLEAN : KickRead(r, force)
         \/ KickNothing(r)
         \/ \E c \in Checks : KickStart(r, c)
         \/ ApplyRead(r)
         \/ ApplyClaim(r)
    \/ \E c \in Checks : CheckStep(c)
    \/ ApplyStep
    \/ Publish

Spec == Init /\ [][Next]_vars

\* Threads that were started run on: the check commands have timeouts, and the
\* helper is assumed to end.
Fairness == (\A c \in Checks : WF_vars(CheckStep(c))) /\ WF_vars(ApplyStep)

FairSpec == Spec /\ Fairness

----------------------------------------------------------------------------
(* Properties *)

\* Type invariant of every variable.
TypeOK ==
    /\ world \in Reading
    /\ cache \in Reading
    /\ checking \in BOOLEAN
    /\ running \in BOOLEAN
    /\ req \in [Requests -> {"idle", "kick", "force", "apply"}]
    /\ check \in [Checks -> ThreadType]
    /\ apply \in ThreadType

\* An apply is never started over a running one, however many admins click
\* (api_updates_apply): the helper is only left by the thread that ran it.
HelperEnteredIdle == apply.pc # "idle" /\ apply' # apply => apply'.pc # "helper"

OneApply == [][HelperEnteredIdle]_vars

\* 'checking' gates the next check and every apply, so it is never left set
\* with no check behind it (the docstring of _refresh).
FlagHasOwner == checking => \E c \in Checks : check[c].pc # "idle"

\* What makes HelperEnteredIdle inductive: the thread runs under its flag.
ApplyFlagged == apply.pc # "idle" => running

\* The page is not told forever that an apply is running.
IsRunning == running
ApplyEnds == IsRunning ~> ~IsRunning

=============================================================================
