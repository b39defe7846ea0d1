------------------------------ MODULE EditSpec ------------------------------
(***************************************************************************)
(* What a page that edits the documents of running services promises. A    *)
(* document is replaced whole, and from that moment every service that     *)
(* runs has it; a text that a service refuses leaves no trace, on disk or  *)
(* in what runs. The pages do this with a root helper that writes, applies *)
(* and, if it must, puts back. Power and Proxy are shown to implement it,  *)
(* until two of these sequences overlap, a service is started or stopped   *)
(* beside one, or a step of one fails that it does not make up for.        *)
(***************************************************************************)
CONSTANTS
    Files,    \* the documents; a certificate and its key are one
    Docs,     \* Docs[f]: what may replace document f
    Missing,  \* a document that is not there
    Units,    \* the services
    Reads,    \* Reads[u]: the documents that service u runs with
    Starts    \* Starts[u]: the contents of the disk that service u accepts

VARIABLES
    disk,      \* the documents on disk
    running,   \* what each service that runs has read
    tangled    \* one of those has happened

vars == <<disk, running, tangled>>

Up == DOMAIN running
View(u) == [f \in Reads[u] |-> disk[f]]

AInit ==
    /\ \A f \in Files : disk[f] \in Docs[f] \cup {Missing}
    /\ Up \subseteq Units
    /\ running = [u \in Up |-> View(u)]
    /\ ~tangled

Replace ==
    /\ \E f \in Files : /\ disk'[f] \in Docs[f]
                        /\ disk' = [disk EXCEPT ![f] = disk'[f]]
    /\ \A u \in Up : disk' \in Starts[u]
    /\ running' = [u \in Up |-> View(u)']
    /\ UNCHANGED tangled

Stop(u) ==
    /\ u \in Up
    /\ running' = [o \in Up \ {u} |-> running[o]]
    /\ UNCHANGED <<disk, tangled>>

Start(u) ==
    /\ u \notin Up
    /\ disk \in Starts[u]
    /\ running' = [o \in Up \cup {u} |-> IF o = u THEN View(u) ELSE running[o]]
    /\ UNCHANGED <<disk, tangled>>

\* Nothing is promised from that moment.
Tangle == tangled'

ANext == Replace \/ (\E u \in Units : Stop(u) \/ Start(u)) \/ Tangle

ASpec == AInit /\ [][ANext]_vars
=============================================================================
