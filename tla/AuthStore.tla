----------------------------- MODULE AuthStore -----------------------------
(***************************************************************************)
(* auth.json and everyone who writes it: the request threads of the web    *)
(* server (nexusdash/core/auth.py), which load, mutate and save under      *)
(* _CFG_LOCK; `app.py set-password`, another process that the lock does    *)
(* not reach (nexusdash/cli.py); and a configuration restore, which        *)
(* replaces the file without taking the lock (nexusdash/core/nodeconfig.py)*)
(* and, run in the server, through the temporary name its saves use. A     *)
(* save is one step here that may raise; AtomicJson looks inside it.       *)
(***************************************************************************)
EXTENDS AuthRules

CONSTANTS
    Threads,       \* request threads
    Requests,      \* the changes requests ask for
    CliUsers,      \* accounts the operator may run set-password for
    Bundles,       \* the auth.json contents a restore may bring
    FirstAdmin,    \* the account and password of the first start
    FirstPassword,
    NoOne          \* the lock is free

ASSUME RequestAssumption == Requests \subseteq Request
ASSUME CliAssumption == CliUsers \subseteq Users
ASSUME BundleAssumption == Bundles \subseteq Store
ASSUME FirstAssumption == FirstAdmin \in Users /\ FirstPassword \in Passwords
ASSUME NoOneAssumption == NoOne \notin Threads
ASSUME FiniteAssumption == IsFiniteSet(Users)

VARIABLES
    file,    \* the contents of auth.json
    lock,    \* _CFG_LOCK: the thread that holds it, or NoOne
    thr,     \* what each request thread is doing
    cli,     \* the set-password process
    today,
    restoring,  \* the contents a restore in the server is writing, or Nil
    unsound  \* history: a restore brought no administrator, or wrote beside a save

vars == <<file, lock, thr, cli, today, restoring, unsound>>

Idle == [pc |-> "idle", req |-> Nil, admit |-> FALSE, cfg |-> Nil]
ThreadType == [pc : {"idle", "stamp", "stamping", "authed", "loaded"},
               req : Requests \cup {Nil}, admit : BOOLEAN, cfg : Store \cup {Nil}]
CliIdle == [pc |-> "idle", user |-> Nil, password |-> Nil, cfg |-> Nil]
CliType == [pc : {"idle", "loaded"}, user : Users \cup {Nil},
            password : Passwords \cup {Nil}, cfg : Store \cup {Nil}]

Init ==
    /\ file = Bootstrap(FirstAdmin, FirstPassword)
    /\ lock = NoOne
    /\ thr = [t \in Threads |-> Idle]
    /\ cli = CliIdle
    /\ today = 1
    /\ restoring = Nil
    /\ unsound = FALSE

\* A file with two writers' halves in it is read as no users and no tokens.
Unreadable == [users |-> [u \in Users |-> Nil], tokens |-> [k \in Tokens |-> Nil]]

\* What saving c leaves: while a restore has the same temporary file open, it may be
\* either text, a mixture, or (the file renamed away) what was there.
Written(c) == IF restoring = Nil THEN {c} ELSE {c, restoring, Unreadable, file}

\* ensure_bootstrap: a store without users gets the first account.
Ensured(c) == IF \A u \in Users : c.users[u] = Nil
              THEN [c EXCEPT !.users = Bootstrap(FirstAdmin, FirstPassword).users]
              ELSE c

----------------------------------------------------------------------------
(* A request. require_login reads the file without the lock; the handler   *)
(* loads it again under the lock.                                          *)

NeedsStamp(r) == r.by \in Tokens /\ file.tokens[r.by].last_used # today

\* The role is the one read now; it is not read again. A token that has not been
\* used today is stamped first, even when the request will be refused.
Authenticate(t, r) ==
    /\ thr[t].pc = "idle"
    /\ Known(file, r.by)
    /\ Permitted(file, r) \/ NeedsStamp(r)
    /\ thr' = [thr EXCEPT ![t] =
         [pc |-> IF NeedsStamp(r) THEN "stamp" ELSE "authed",
          req |-> r, admit |-> Permitted(file, r), cfg |-> Nil]]
    /\ UNCHANGED <<file, lock, cli, today, restoring, unsound>>

\* Mutant of Load: the file is read before the lock is taken.
LoadUnlocked(t) ==
    /\ thr[t].pc \in {"stamp", "authed"}
    /\ lock' = lock
    /\ thr' = [thr EXCEPT ![t].pc = IF @ = "stamp" THEN "stamping" ELSE "loaded",
                          ![t].cfg = file]
    /\ UNCHANGED <<file, cli, today, restoring, unsound>>

Load(t) ==
    /\ thr[t].pc \in {"stamp", "authed"}
    /\ lock = NoOne
    /\ lock' = t
    /\ thr' = [thr EXCEPT ![t].pc = IF @ = "stamp" THEN "stamping" ELSE "loaded",
                          ![t].cfg = file]
    /\ UNCHANGED <<file, cli, today, restoring, unsound>>

SaveStamp(t) ==
    /\ thr[t].pc = "stamping"
    /\ file' \in Written(Stamp(thr[t].cfg, thr[t].req.by, today))
    /\ unsound' = (unsound \/ restoring # Nil)
    /\ lock' = NoOne
    /\ thr' = [thr EXCEPT ![t] = IF @.admit THEN [@ EXCEPT !.pc = "authed", !.cfg = Nil]
                                ELSE Idle]
    /\ UNCHANGED <<cli, today, restoring>>

\* The handler's checks on the loaded contents, then the save, or the error.
Save(t) ==
    /\ thr[t].pc = "loaded"
    /\ IF Allowed(thr[t].cfg, thr[t].req)
       THEN /\ file' \in Written(Apply(thr[t].cfg, thr[t].req))
            /\ unsound' = (unsound \/ restoring # Nil)
       ELSE UNCHANGED <<file, unsound>>
    /\ lock' = NoOne
    /\ thr' = [thr EXCEPT ![t] = Idle]
    /\ UNCHANGED <<cli, today, restoring>>

\* The save raises (a full disk): the file is as it was and the request fails.
SaveRaises(t) ==
    /\ thr[t].pc \in {"stamping", "loaded"}
    /\ lock' = NoOne
    /\ thr' = [thr EXCEPT ![t] = Idle]
    /\ UNCHANGED <<file, cli, today, restoring, unsound>>

----------------------------------------------------------------------------
(* The other writers *)

\* set-password in a process of its own: load, then save, with no common lock.
CliLoad(u, pw) ==
    /\ cli.pc = "idle"
    /\ file' = Ensured(file)
    /\ cli' = [pc |-> "loaded", user |-> u, password |-> pw, cfg |-> file']
    /\ UNCHANGED <<lock, thr, today, restoring, unsound>>

CliSave(u) ==
    /\ cli.pc = "loaded"
    /\ cli.user = u
    /\ file' = SetPassword(cli.cfg, u, cli.password)
    /\ cli' = CliIdle
    /\ UNCHANGED <<lock, thr, today, restoring, unsound>>

\* config-restore, a process of its own: the bundle is not asked for an administrator.
Restore(b) ==
    /\ file' = b
    /\ unsound' = (unsound \/ Admins(b) = {})
    /\ UNCHANGED <<lock, thr, cli, today, restoring>>

\* apply_bundle in the server, which does not take the lock: it opens its temporary
\* file ..
RestoreBegin(b) ==
    /\ restoring = Nil
    /\ restoring' = b
    /\ UNCHANGED <<file, lock, thr, cli, today, unsound>>

\* .. and renames it, or raises. A save on its way may have mixed its text in.
RestoreEnd(b) ==
    /\ restoring = b
    /\ restoring' = Nil
    /\ \/ /\ file' = b
          /\ unsound' = (unsound \/ Admins(b) = {})
       \/ UNCHANGED <<file, unsound>>
       \/ /\ unsound \/ \E t \in Threads : thr[t].pc \in {"stamping", "loaded"}
          /\ file' = Unreadable
          /\ unsound' = TRUE
    /\ UNCHANGED <<lock, thr, cli, today>>

\* The service stops and starts: requests and the lock are gone, the file stays.
Restart ==
    /\ lock' = NoOne
    /\ thr' = [t \in Threads |-> Idle]
    /\ file' = Ensured(file)
    /\ restoring' = Nil
    /\ UNCHANGED <<cli, today, unsound>>

Midnight ==
    /\ today < MaxDay
    /\ today' = today + 1
    /\ UNCHANGED <<file, lock, thr, cli, restoring, unsound>>

Next ==
    \/ \E t \in Threads :
         \/ \E r \in Requests : Authenticate(t, r)
         \/ Load(t)
         \/ SaveStamp(t)
         \/ Save(t)
         \/ SaveRaises(t)
    \/ \E u \in CliUsers, pw \in Passwords : CliLoad(u, pw)
    \/ \E u \in CliUsers : CliSave(u)
    \/ \E b \in Bundles : Restore(b) \/ RestoreBegin(b) \/ RestoreEnd(b)
    \/ Restart
    \/ Midnight

Spec == Init /\ [][Next]_vars

----------------------------------------------------------------------------
(* Properties *)

\* Type invariant of every variable.
TypeOK ==
    /\ file \in Store
    /\ lock \in Threads \cup {NoOne}
    /\ thr \in [Threads -> ThreadType]
    /\ cli \in CliType
    /\ today \in 1..MaxDay
    /\ restoring \in Bundles \cup {Nil}
    /\ unsound \in BOOLEAN

\* Whatever demotions, deletions, set-password runs and restores race, the
\* store never loses its last administrator (users_set_role, users_delete), unless
\* a restore brought contents without one or wrote while a save of the server did.
AdminRemains == ~unsound => Admins(file) # {}

\* While the web server is the only writer its requests behave as if they ran
\* one after the other on the latest contents (what _CFG_LOCK is for).
A == INSTANCE AuthSpec WITH store <- file
AtomicStore == A!ASpec

=============================================================================
