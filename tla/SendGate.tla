------------------------------ MODULE SendGate ------------------------------
(***************************************************************************)
(* What the guard on submissions promises of the user's gestures on Send,  *)
(* with nothing of how it is done. A gesture reaches the application, or   *)
(* it is held; one is held at a time and nothing passes meanwhile; what is *)
(* held ends once, as sent or as not sent, and neither is ever undone.     *)
(* While the policy has asked for holds from the start, none passes but    *)
(* where the guard itself fails, and that is another state of a gesture.   *)
(* SubmitGuard implements this specification.                              *)
(***************************************************************************)
CONSTANT Gestures

VARIABLES
    gate,    \* what became of each gesture
    strict   \* the policy has asked for holds from the start

gateVars == <<gate, strict>>

\* What the application gets without a hold: what the policy lets pass, and
\* what met a guard that could not judge it.
Unheld == IF strict THEN {"failed"} ELSE {"passed", "failed"}

Ends == {"resumed", "overruled", "masked", "told", "closed"}

GateInit ==
    /\ gate = [g \in Gestures |-> "none"]
    /\ strict \in BOOLEAN

\* g, and g alone, becomes one of the given states.
Becomes(g, states) ==
    /\ gate'[g] \in states
    /\ gate' = [gate EXCEPT ![g] = gate'[g]]
    /\ UNCHANGED strict

\* g is met for the first time, and nothing is held.
Meet(g) ==
    /\ gate[g] = "none" /\ \A h \in Gestures : gate[h] # "held"
    /\ Becomes(g, {"held"} \cup Unheld)

End(g) == gate[g] = "held" /\ Becomes(g, Ends)

Relax == strict' = FALSE /\ UNCHANGED gate

GateNext ==
    \/ \E g \in Gestures : Meet(g) \/ End(g)
    \/ Relax

GateSpec == GateInit /\ [][GateNext]_gateVars

=============================================================================
