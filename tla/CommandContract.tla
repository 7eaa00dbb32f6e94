--------------------------- MODULE CommandContract ---------------------------
(***************************************************************************)
(* What a Bulk-Only Transport session promises the layers above it, with   *)
(* no wrappers, tags or stages: one command at a time, whose effect on the *)
(* medium is none, partial or full, and a verdict that never claims more   *)
(* than happened.                                                          *)
(***************************************************************************)
VARIABLES
    phase,    \* "ready" for a command, "busy" with one, or "retired"
    outcome,  \* what the last call returned
    effect    \* how far the last command got on the device

contractVars == <<phase, outcome, effect>>

Effects == {"none", "partial", "full"}

\* Effects only ever grow.
Grows(old, new) == new = old \/ old = "none" \/ new = "full"

Init == phase = "ready" /\ outcome = "none" /\ effect = "none"

Begin ==
    /\ phase = "ready"
    /\ phase' = "busy"
    /\ outcome' = "none"
    /\ effect' = "none"

\* The device works on a command while its caller waits, and may go on after
\* the caller gave up.  It never does while the session is ready.
Work ==
    /\ phase # "ready"
    /\ effect' \in Effects /\ Grows(effect, effect')
    /\ UNCHANGED <<phase, outcome>>

\* An eject retires the session although it succeeded.
Succeed ==
    /\ phase = "busy"
    /\ effect = "full"
    /\ phase' \in {"ready", "retired"}
    /\ outcome' = "ok"
    /\ UNCHANGED effect

Refused ==
    /\ phase = "busy"
    /\ effect # "full"
    /\ phase' = "ready"
    /\ outcome' = "refused"
    /\ UNCHANGED effect

\* In doubt: the effect is whatever it is, and the session says so once and
\* for all by retiring.
Doubt ==
    /\ phase = "busy"
    /\ phase' = "retired"
    /\ outcome' \in {"uncertain", "cancelled"}
    /\ effect' \in Effects /\ Grows(effect, effect')

Denied ==
    /\ phase = "retired"
    /\ outcome' = "retired"
    /\ UNCHANGED <<phase, effect>>

Reopen ==
    /\ phase # "busy"
    /\ phase' = "ready"
    /\ outcome' = "none"
    /\ effect' = "none"

Next == Begin \/ Work \/ Succeed \/ Refused \/ Doubt \/ Denied \/ Reopen

Spec == Init /\ [][Next]_contractVars
=============================================================================
