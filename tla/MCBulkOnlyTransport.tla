------------------------ MODULE MCBulkOnlyTransport ------------------------
(***************************************************************************)
(* A small instance: commands without data, reads shorter than, as long as *)
(* and longer than a status wrapper, a write of several chunks, an eject.  *)
(***************************************************************************)
EXTENDS BulkOnlyTransport

MCCommands ==
    {[in |-> 0, out |-> 0, eject |-> FALSE],
     [in |-> 0, out |-> 0, eject |-> TRUE],
     [in |-> 1, out |-> 0, eject |-> FALSE],
     [in |-> 4, out |-> 0, eject |-> FALSE],
     [in |-> 0, out |-> 3, eject |-> FALSE]}
=============================================================================
