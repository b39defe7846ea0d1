------------------------------- MODULE Health -------------------------------
(***************************************************************************)
(* From a failing disk to the administrator: the history tick samples the  *)
(* defect counters into smart_state.json (nexusdash/modules/disks.py), the *)
(* alerts tick turns what is wrong now into messages and remembers what it *)
(* said in notifications.json (nexusdash/core/alerts.py), and the settings *)
(* page saves the same file. The two ticks are processes of their own,     *)
(* each of which systemd runs once at a time.                              *)
(***************************************************************************)
EXTENDS Naturals

CONSTANTS
    Others,       \* alerts of other origin: a pool, a service, a task
    None,         \* no reading, no growth
    Window,       \* how long a growth alerts (SMART_GROWTH_DAYS)
    MaxBad,       \* bound: the counter
    MaxTime,      \* bound: clock
    MaxRequests,  \* bound: saves, runs by hand
    MaxFaults     \* bound: deliveries that fail, ticks that die

VARIABLES
    bad,       \* the defect counter of the disk
    wrong,     \* the other alerts that hold now
    smart,     \* smart_state.json: the last reading, the time of the last growth
    file,      \* notifications.json
    timer,     \* the alerts timer
    tick,      \* the alerts tick
    page,      \* the request that saves the settings
    now, requests, faults,
    told,      \* history: the last message about each alert
    read,      \* history: the last counter ever read, and when one last rose
    excused    \* history: alerts whose record and message were parted

vars == <<bad, wrong, smart, file, timer, tick, page, now, requests, faults, told, read, excused>>

Keys == Others \cup {"growth"}
Idle == [pc |-> "idle"]

Init ==
    /\ bad = 0 /\ wrong = {} /\ now = 0
    /\ smart = [seen |-> None, grown |-> None]
    /\ file = [on |-> FALSE, password |-> "", state |-> {}]
    /\ timer = FALSE
    /\ tick = Idle /\ page = Idle
    /\ requests = 0 /\ faults = 0
    /\ told = [k \in Keys |-> "nothing"]
    /\ read = [seen |-> None, rose |-> None]
    /\ excused = {}

----------------------------------------------------------------------------
(* The world *)

World ==
    /\ \/ \E b \in 0..MaxBad : bad' = b /\ UNCHANGED <<wrong, now>>
       \/ \E k \in Others : wrong' = (wrong \ {k}) \cup ({k} \ wrong) /\ UNCHANGED <<bad, now>>
       \/ now < MaxTime /\ now' = now + 1 /\ UNCHANGED <<bad, wrong>>
    /\ UNCHANGED <<smart, file, timer, tick, page, requests, faults, told, read, excused>>

----------------------------------------------------------------------------
(* The history tick *)

\* _smart_apply_sample: the new entry has the counter only if the reading has it.
Applied(state, value, time) ==
    [seen |-> value,
     grown |-> IF value # None /\ state.seen # None /\ value > state.seen THEN time ELSE state.grown]

\* A disk that sleeps is left out; a reading may have a serial and no counters.
Sample ==
    /\ \E v \in {bad, None} :
          /\ smart' = Applied(smart, v, now)
          /\ read' = IF v = None THEN read
                     ELSE [seen |-> v,
                           rose |-> IF read.seen # None /\ v > read.seen THEN now ELSE read.rose]
    /\ UNCHANGED <<bad, wrong, file, timer, tick, page, now, requests, faults, told, excused>>

\* _smart_growth_alerts and the other hooks of _compute_alerts.
GrowthAlert == smart.grown # None /\ now - smart.grown < Window
Current == wrong \cup (IF GrowthAlert THEN {"growth"} ELSE {})

----------------------------------------------------------------------------
(* The alerts tick *)

\* By the timer, or by hand from the tasks page.
TickLoad ==
    /\ tick.pc = "idle"
    /\ IF timer THEN UNCHANGED requests
                ELSE requests < MaxRequests /\ requests' = requests + 1
    /\ tick' = [pc |-> "loaded", cfg |-> file]
    /\ UNCHANGED <<bad, wrong, smart, file, timer, page, now, faults, told, read, excused>>

\* Mutant of TickCompute: only new alerts are told.
TickComputeNew ==
    /\ tick.pc = "loaded"
    /\ tick' = [pc |-> "deliver", cfg |-> tick.cfg, current |-> Current,
                queue |-> IF tick.cfg.on THEN Current \ tick.cfg.state ELSE {},
                sent |-> {}]
    /\ UNCHANGED <<bad, wrong, smart, file, timer, page, now, requests, faults, told, read, excused>>

\* What to tell: alerts that are new and alerts that are gone, if a channel is on.
TickCompute ==
    /\ tick.pc = "loaded"
    /\ tick' = [pc |-> "deliver", cfg |-> tick.cfg, current |-> Current,
                queue |-> IF tick.cfg.on
                          THEN (Current \ tick.cfg.state) \cup (tick.cfg.state \ Current)
                          ELSE {},
                sent |-> {}]
    /\ UNCHANGED <<bad, wrong, smart, file, timer, page, now, requests, faults, told, read, excused>>

\* _notify: what went wrong on a channel is returned and not looked at.
Deliver ==
    /\ tick.pc = "deliver"
    /\ \E k \in tick.queue :
          \/ /\ told' = [told EXCEPT ![k] = IF k \in tick.current THEN "ALERT" ELSE "RESOLVED"]
             /\ tick' = [tick EXCEPT !.queue = @ \ {k}, !.sent = @ \cup {k}]
             /\ UNCHANGED <<faults, excused>>
          \/ /\ faults < MaxFaults /\ faults' = faults + 1
             /\ tick' = [tick EXCEPT !.queue = @ \ {k}]
             /\ excused' = excused \cup {k}
             /\ UNCHANGED told
    /\ UNCHANGED <<bad, wrong, smart, file, timer, page, now, requests, read>>

\* The whole configuration that was loaded, with the alerts of this tick. An alert
\* that came or went while no channel was on is recorded untold.
TickSave ==
    /\ tick.pc = "deliver" /\ tick.queue = {}
    /\ file' = [tick.cfg EXCEPT !.state = tick.current]
    /\ excused' = IF tick.cfg.on
                  THEN excused \ tick.sent
                  ELSE excused \cup (tick.current \ tick.cfg.state) \cup (tick.cfg.state \ tick.current)
    /\ tick' = Idle
    /\ UNCHANGED <<bad, wrong, smart, timer, page, now, requests, faults, told, read>>

TickDies ==
    /\ tick.pc # "idle"
    /\ faults < MaxFaults /\ faults' = faults + 1
    /\ tick' = Idle
    /\ excused' = IF tick.pc = "deliver" THEN excused \cup tick.sent ELSE excused
    /\ UNCHANGED <<bad, wrong, smart, file, timer, page, now, requests, told, read>>

----------------------------------------------------------------------------
(* The settings page *)

\* A blank or masked password keeps the stored one; the state comes along.
PageLoad ==
    /\ page.pc = "idle"
    /\ requests < MaxRequests /\ requests' = requests + 1
    /\ \E on \in BOOLEAN, password \in {"masked", "new"} :
          page' = [pc |-> "loaded",
                   cfg |-> [on |-> on, state |-> file.state,
                            password |-> IF password = "masked" THEN file.password ELSE password]]
    /\ UNCHANGED <<bad, wrong, smart, file, timer, tick, now, faults, told, read, excused>>

\* The save brings back the state of its load, over what a tick saved since.
PageSave ==
    /\ page.pc = "loaded"
    /\ file' = page.cfg
    /\ excused' = excused \cup (file.state \ page.cfg.state) \cup (page.cfg.state \ file.state)
    /\ page' = [pc |-> "saved"]
    /\ UNCHANGED <<bad, wrong, smart, timer, tick, now, requests, faults, told, read>>

\* sync_alerts_timer reads the file again.
PageSync ==
    /\ page.pc = "saved"
    /\ timer' = file.on
    /\ page' = Idle
    /\ UNCHANGED <<bad, wrong, smart, file, tick, now, requests, faults, told, read, excused>>

----------------------------------------------------------------------------
Next ==
    \/ World \/ Sample
    \/ TickLoad \/ TickCompute \/ Deliver \/ TickSave \/ TickDies
    \/ PageLoad \/ PageSave \/ PageSync

Spec == Init /\ [][Next]_vars

----------------------------------------------------------------------------
(* Properties *)

\* Between two ticks the last message about an alert is ALERT exactly when the
\* alert is on record, so the next tick tells what is new to the administrator and
\* nothing else. Excused are alerts whose delivery failed, that came or went with
\* every channel off, whose tick died after the delivery or whose record a settings
\* save brought back, until a later message about them is delivered and recorded
\* (cli_alerts_tick).
Informed ==
    tick.pc = "idle" =>
        \A k \in Keys \ excused : told[k] = "ALERT" <=> k \in file.state

\* "any increase in a defect counter is recorded as a growth event that alerts for
\* a week": the record has the last rise between two readings of the counter,
\* however many readings without it came between.
GrowthRecorded == smart.grown = read.rose

----------------------------------------------------------------------------
(* What makes Informed inductive *)

Config == [on : BOOLEAN, password : {"", "new"}, state : SUBSET Keys]
Reading == Nat \cup {None}

TickType ==
    [pc : {"idle"}]
    \cup [pc : {"loaded"}, cfg : Config]
    \cup [pc : {"deliver"}, cfg : Config, current : SUBSET Keys, queue : SUBSET Keys,
          sent : SUBSET Keys]
PageType == [pc : {"idle", "saved"}] \cup [pc : {"loaded"}, cfg : Config]

\* Type invariant of every variable.
TypeOK ==
    /\ bad \in 0..MaxBad /\ wrong \subseteq Others /\ now \in 0..MaxTime
    /\ smart \in [seen : Reading, grown : Reading]
    /\ read \in [seen : Reading, rose : Reading]
    /\ file \in Config /\ timer \in BOOLEAN
    /\ tick \in TickType /\ page \in PageType
    /\ requests \in 0..MaxRequests /\ faults \in 0..MaxFaults
    /\ told \in [Keys -> {"nothing", "ALERT", "RESOLVED"}]
    /\ excused \subseteq Keys

\* While a tick runs, an alert it has not told anything about was told as the record
\* that the tick loaded says, and the file still says so, or the alert is excused.
LoadedIsTold ==
    tick.pc # "idle" =>
        \A k \in Keys \ excused :
            /\ k \in tick.cfg.state <=> k \in file.state
            /\ \/ tick.pc = "deliver" /\ k \in tick.sent
               \/ told[k] = "ALERT" <=> k \in tick.cfg.state

\* What was sent is what the tick found, what has neither been sent nor failed is
\* still to come, and with every channel off nothing is told.
Underway ==
    tick.pc = "deliver" =>
        /\ \A k \in tick.sent : told[k] = "ALERT" <=> k \in tick.current
        /\ tick.sent \cap tick.queue = {}
        /\ ~tick.cfg.on => tick.queue = {} /\ tick.sent = {}
        /\ tick.cfg.on => \A k \in Keys \ (tick.queue \cup tick.sent \cup excused) :
                             k \in tick.current <=> k \in tick.cfg.state

IInv == TypeOK /\ Informed /\ LoadedIsTold /\ Underway
=============================================================================
