--------------------------- MODULE MCRangeSession ---------------------------
(***************************************************************************)
(* A small instance: media of two-byte and of one-byte sectors, one whose  *)
(* sector size is not a power of two and one with too many blocks; ranges  *)
(* that are aligned, unaligned at either end, too long in bytes or in      *)
(* sectors, beyond the end, and with an end that wraps.                    *)
(***************************************************************************)
EXTENDS RangeSession

MCMedia ==
    {[blocks |-> 3, size |-> 2], [blocks |-> 4, size |-> 1],
     [blocks |-> 2, size |-> 3], [blocks |-> 8, size |-> 1]}
MCOffsets == {1, 2, 7}
MCLengths == {2, 3, 4}
=============================================================================
