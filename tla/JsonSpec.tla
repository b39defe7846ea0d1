------------------------------ MODULE JsonSpec ------------------------------
(***************************************************************************)
(* What write_json_atomic promises whoever calls it: between call and      *)
(* return the document takes the place of the old one, at once and whole;  *)
(* a call that raises has changed nothing; and a power loss brings back at *)
(* worst the document that was on disk. AtomicJson is shown to implement   *)
(* this when the callers of one process take turns.                        *)
(***************************************************************************)
CONSTANTS Writers, Original, Document(_)

VARIABLES
    found,   \* the document that a reader finds
    kept,    \* the one that a power loss may bring back
    stage    \* each writer's call

vars == <<found, kept, stage>>

AInit ==
    /\ found = Document(Original)
    /\ kept = found
    /\ stage = [w \in Writers |-> "idle"]

Call(w) == /\ stage[w] = "idle"
           /\ stage' = [stage EXCEPT ![w] = "called"]
           /\ UNCHANGED <<found, kept>>

Save(w) == /\ stage[w] = "called"
           /\ stage' = [stage EXCEPT ![w] = "saved"]
           /\ found' = Document(w)
           /\ UNCHANGED kept

Return(w) == /\ stage[w] = "saved"
             /\ stage' = [stage EXCEPT ![w] = "idle"]
             /\ UNCHANGED <<found, kept>>

Raise(w) == /\ stage[w] = "called"
            /\ stage' = [stage EXCEPT ![w] = "raised"]
            /\ UNCHANGED <<found, kept>>

\* The document reaches the disk at some time of its own.
Settle == kept' = found /\ UNCHANGED <<found, stage>>

\* A process takes its calls with it, a power loss all of them.
Killed == /\ \E W \in SUBSET Writers :
                stage' = [w \in Writers |-> IF w \in W THEN "raised" ELSE stage[w]]
          /\ UNCHANGED <<found, kept>>

PowerFails == /\ stage' = [w \in Writers |-> "raised"]
              /\ found' \in {found, kept}
              /\ kept' = found'

ANext == \/ \E w \in Writers : Call(w) \/ Save(w) \/ Return(w) \/ Raise(w)
         \/ Settle \/ Killed \/ PowerFails

ASpec == AInit /\ [][ANext]_vars
=============================================================================
