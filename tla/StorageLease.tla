---------------------------- MODULE StorageLease ----------------------------
(***************************************************************************)
(* What openFilesystem promises about the storage session it borrows: one  *)
(* filesystem at a time, an operation only on behalf of the holder, given  *)
(* back still and reusable, or spent and never lent again.  Nothing of the *)
(* worker, the mailbox or the calls shows.                                 *)
(***************************************************************************)
CONSTANTS Users, Nobody

VARIABLES
    holder,    \* the filesystem that has the storage, or Nobody
    spent,     \* the storage was given up and may only be closed
    touching   \* a storage operation is being performed

leaseVars == <<holder, spent, touching>>

Init == holder = Nobody /\ spent = FALSE /\ touching = FALSE

Lend ==
    /\ holder = Nobody
    /\ ~ spent /\ ~ touching
    /\ holder' \in Users
    /\ UNCHANGED <<spent, touching>>

Touch ==
    /\ holder # Nobody
    /\ ~ spent /\ ~ touching
    /\ touching' = TRUE
    /\ UNCHANGED <<holder, spent>>

\* Also long after a holder gave up waiting for it.
LetGo ==
    /\ touching
    /\ touching' = FALSE
    /\ UNCHANGED <<holder, spent>>

GiveBack ==
    /\ holder # Nobody
    /\ ~ spent /\ ~ touching
    /\ holder' = Nobody
    /\ UNCHANGED <<spent, touching>>

Spend ==
    /\ holder # Nobody
    /\ ~ spent
    /\ spent' = TRUE
    /\ UNCHANGED <<holder, touching>>

Leave ==
    /\ holder # Nobody
    /\ spent
    /\ holder' = Nobody
    /\ UNCHANGED <<spent, touching>>

Next == Lend \/ Touch \/ LetGo \/ GiveBack \/ Spend \/ Leave

\* A spent storage does not stay held: teardown is bounded.
Spec == Init /\ [][Next]_leaseVars /\ WF_leaseVars(Leave)
=============================================================================
