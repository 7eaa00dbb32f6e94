------------------------- MODULE BulkOnlyTransport -------------------------
(***************************************************************************)
(* One Bulk-Only Transport session (nusb-scsi, Scsi::command) against a    *)
(* storage device that keeps its own idea of where the framing stands.     *)
(*                                                                         *)
(* A command is three stages on the wire: the 31-byte command wrapper, the *)
(* data in one direction, the 13-byte status wrapper.  Every await of the  *)
(* host is a step of its own, so the command may be cancelled, time out or *)
(* fail between any two of them.  Bytes are counted in units; CswLength is *)
(* how many of them a status wrapper takes, because a status wrapper that  *)
(* arrives in the data stage is indistinguishable from data of its length. *)
(***************************************************************************)
EXTENDS Integers, FiniteSets

CONSTANTS
    Commands,    \* records [in, out, eject]: units to read, units to write, is it an eject
    MaxChunk,    \* the host submits at most this many units per bulk transfer (1 MiB)
    CswLength,   \* units in a status wrapper
    TagModulus   \* 2^32 in the code: tags wrap

ASSUME CommandsAssumption ==
    /\ Commands \subseteq [in : Nat, out : Nat, eject : BOOLEAN]
    /\ \A c \in Commands : c.in = 0 \/ c.out = 0
ASSUME SizesAssumption == MaxChunk \in Nat \ {0} /\ CswLength \in Nat \ {0}
ASSUME TagAssumption   == TagModulus \in Nat /\ TagModulus > 1

VARIABLES
    usable,  \* Scsi::usable
    tag,     \* Scsi::tag
    pc,      \* which await the command stands at
    cmd,     \* the command in flight, or the last one
    got,     \* units of the data stage the host has counted so far
    result,  \* what the last call returned
    mixed,   \* the host took a status wrapper for data
    dev      \* the device's side of the framing

vars == <<usable, tag, pc, cmd, got, result, mixed, dev>>

Tags   == 0 .. TagModulus - 1
NoTag  == -1
SuccessorUnwrapped(t) == t + 1    \* a slip: a tag that does not wrap
Successor(t) == IF t = TagModulus - 1 THEN 0 ELSE t + 1
Length(c) == IF c.in > 0 THEN c.in ELSE c.out
LesserOf(a, b) == IF a < b THEN a ELSE b

\* "refused" is a complete CSW with status 1, "uncertain" every other error
\* after the wrapper was submitted, "cancelled" a dropped future, "retired"
\* the early return of a session that is not usable.
Results == {"none", "ok", "refused", "uncertain", "cancelled", "retired"}

(***************************************************************************)
(* The device.  When it accepts a command wrapper it settles what it will  *)
(* do: how many units it moves (plan) and the status it will report.  A    *)
(* device may move less than asked, or try to send more.  "idle" is the    *)
(* only place where it expects a command wrapper.                          *)
(***************************************************************************)
DevIdle == [at |-> "idle", tag |-> NoTag, plan |-> 0, moved |-> 0, status |-> 2]

Plans(c) == IF c.in > 0 THEN 0 .. c.in + 1 ELSE 0 .. c.out

Accepted(c, t) ==
    {[at |-> "data", tag |-> t, plan |-> p, moved |-> 0, status |-> s] :
        p \in Plans(c), s \in 0 .. 2}

DevResidue == IF dev.moved < Length(cmd) THEN Length(cmd) - dev.moved ELSE 0

DevTakes(n) == [dev EXCEPT !.moved = LesserOf(dev.plan, dev.moved + n)]
DevSends(n) == [dev EXCEPT !.moved = @ + n]

(***************************************************************************)
(* Status wrappers.  A faithful one reports what the device did.  What the *)
(* host must also survive is one that is not well formed, that answers     *)
(* another command, or that claims more residue than was asked for.        *)
(***************************************************************************)
Wrappers == [formed : BOOLEAN, tag : Tags, residue : Nat, status : 0 .. 2]

FaithfulWrapper ==
    [formed |-> TRUE, tag |-> dev.tag, residue |-> DevResidue, status |-> dev.status]

DamagedWrappers ==
    [formed : {FALSE}, tag : {tag}, residue : {0}, status : {0, 1}]
    \cup [formed : {TRUE}, tag : Tags \ {dev.tag}, residue : {0}, status : {0, 1}]
    \cup [formed : {TRUE}, tag : {tag}, residue : {Length(cmd) + 1}, status : {0, 1}]

\* Slips the properties must tell from the code: a verdict that never looks
\* at the residue, or at the tag.
CswOutcomeAnyResidue(w) ==
    IF ~ w.formed \/ w.tag # tag THEN "uncertain"
    ELSE IF w.status = 0 THEN "ok"
    ELSE IF w.status = 1 THEN "refused"
    ELSE "uncertain"
CswOutcomeAnyTag(w) ==
    IF ~ w.formed \/ w.residue > Length(cmd) THEN "uncertain"
    ELSE IF w.status = 0 /\ w.residue = 0 THEN "ok"
    ELSE IF w.status = 1 THEN "refused"
    ELSE "uncertain"

CswOutcome(w) ==
    IF ~ w.formed \/ w.tag # tag      THEN "uncertain"
    ELSE IF w.residue > Length(cmd)   THEN "uncertain"
    ELSE IF w.status = 0 /\ w.residue = 0 THEN "ok"
    ELSE IF w.status = 1              THEN "refused"
    ELSE "uncertain"

-----------------------------------------------------------------------------
Init ==
    /\ usable = TRUE
    /\ tag = 0
    /\ pc = "idle"
    /\ cmd \in Commands
    /\ got = 0
    /\ result = "none"
    /\ mixed = FALSE
    /\ dev = DevIdle

\* Every way out of the command but a complete status wrapper: `usable` was
\* cleared before the first await and stays so.
GiveUp(outcome) ==
    /\ pc' = "idle"
    /\ result' = outcome
    /\ UNCHANGED <<usable, tag, cmd, got>>

\* A call on a retired session returns before anything is written.
CallRetired ==
    /\ pc = "idle"
    /\ ~ usable
    /\ result' = "retired"
    /\ UNCHANGED <<usable, tag, pc, cmd, got, mixed, dev>>

\* A slip: `usable` cleared only by the error paths, which a dropped future
\* never takes.
StartStillUsable(c) ==
    /\ pc = "idle"
    /\ usable
    /\ tag' = Successor(tag)
    /\ pc' = "cbw"
    /\ cmd' = c
    /\ got' = 0
    /\ result' = "none"
    /\ mixed' = FALSE
    /\ UNCHANGED <<usable, dev>>

\* Up to the first await: the tag moves on, the session counts as uncertain.
Start(c) ==
    /\ pc = "idle"
    /\ usable
    /\ tag' = Successor(tag)
    /\ usable' = FALSE
    /\ pc' = "cbw"
    /\ cmd' = c
    /\ got' = 0
    /\ result' = "none"
    /\ mixed' = FALSE
    /\ UNCHANGED dev

\* The stage after a finished one: data while any is left, then the status.
Stage(c, n) ==
    IF c.in > n THEN "dataIn" ELSE IF c.out > n THEN "dataOut" ELSE "csw"

CbwDelivered ==
    /\ pc = "cbw"
    /\ dev.at = "idle"
    /\ dev' \in Accepted(cmd, tag)
    /\ pc' = Stage(cmd, 0)
    /\ UNCHANGED <<usable, tag, cmd, got, result, mixed>>

\* A read of the data stage returns n units; NusbIo rounds its buffer up to
\* the packet size, so it can also return more than the host still wanted.
DataIn(n) ==
    /\ pc = "dataIn"
    /\ dev.at = "data"
    /\ n \in 0 .. LesserOf(MaxChunk, dev.plan - dev.moved)
    /\ dev' = DevSends(n)
    /\ UNCHANGED mixed
    /\ IF n = 0 \/ n > cmd.in - got
       THEN GiveUp("uncertain")
       ELSE /\ got' = got + n
            /\ pc' = Stage(cmd, got + n)
            /\ UNCHANGED <<usable, tag, cmd, result>>

\* The device had less to send than asked and went on to its status.  The
\* host is still reading data: the wrapper fits, or is more than it wanted.
CswReadAsData ==
    /\ pc = "dataIn"
    /\ dev.at = "status"
    /\ dev' = [dev EXCEPT !.at = "idle"]
    /\ mixed' = TRUE
    /\ IF CswLength > cmd.in - got
       THEN GiveUp("uncertain")
       ELSE /\ got' = got + CswLength
            /\ pc' = Stage(cmd, got + CswLength)
            /\ UNCHANGED <<usable, tag, cmd, result>>

\* One chunk of a write, taken whole.  The device counts what it keeps.
DataOut ==
    LET n == LesserOf(MaxChunk, cmd.out - got)
    IN  /\ pc = "dataOut"
        /\ dev.at = "data"
        /\ dev' = DevTakes(n)
        /\ got' = got + n
        /\ pc' = Stage(cmd, got + n)
        /\ UNCHANGED <<usable, tag, cmd, result, mixed>>

\* The device finishes the work and holds its status wrapper.  No host step
\* is involved: it also happens after the host has given the command up.
DeviceExecutes ==
    /\ dev.at = "data"
    /\ dev.moved = dev.plan
    /\ dev' = [dev EXCEPT !.at = "status"]
    /\ UNCHANGED <<usable, tag, pc, cmd, got, result, mixed>>

\* The host reads data where it expects the status wrapper.
DataReadAsCsw(n) ==
    /\ pc = "csw"
    /\ dev.at = "data"
    /\ n \in 0 .. dev.plan - dev.moved
    /\ dev' = DevSends(n)
    /\ UNCHANGED mixed
    /\ GiveUp("uncertain")

\* Verdict on the status wrapper, and the synchronous tail of eject().
CswRead(w) ==
    /\ pc = "csw"
    /\ dev.at = "status"
    /\ dev' = [dev EXCEPT !.at = "idle"]
    /\ pc' = "idle"
    /\ result' = CswOutcome(w)
    /\ usable' = (\/ CswOutcome(w) = "refused"
                  \/ CswOutcome(w) = "ok" /\ ~ cmd.eject)
    /\ UNCHANGED <<tag, cmd, got, mixed>>

\* What the device may have seen of a transfer the host saw fail.
DevAfterLoss ==
    CASE pc = "cbw" /\ dev.at = "idle"    -> {dev} \cup Accepted(cmd, tag)
      [] pc = "dataOut" /\ dev.at = "data" ->
            {dev} \cup {DevTakes(n) : n \in 1 .. LesserOf(MaxChunk, cmd.out - got)}
      [] pc \in {"dataIn", "csw"} /\ dev.at = "data" ->
            {dev} \cup {DevSends(n) : n \in 1 .. dev.plan - dev.moved}
      [] pc \in {"dataIn", "csw"} /\ dev.at = "status" ->
            {dev, [dev EXCEPT !.at = "idle"]}
      [] OTHER -> {dev}

\* A transfer stalls, is short or the device vanishes.
TransferFails ==
    /\ pc # "idle"
    /\ dev' \in DevAfterLoss
    /\ UNCHANGED mixed
    /\ GiveUp("uncertain")

\* The caller drops the future (a timeout of `bounded`, or a page going away).
Cancel ==
    /\ pc # "idle"
    /\ dev' \in DevAfterLoss
    /\ UNCHANGED mixed
    /\ GiveUp("cancelled")

\* The session is consumed and a fresh one is made over a new connection.
\* External assumption: the device abandons the old command when its
\* interface is released and claimed again.
Reconnect ==
    /\ pc = "idle"
    /\ usable' = TRUE
    /\ tag' = 0
    /\ got' = 0
    /\ result' = "none"
    /\ mixed' = FALSE
    /\ dev' = DevIdle
    /\ UNCHANGED <<pc, cmd>>

AnyUnits == UNION {0 .. Length(c) + 1 : c \in Commands}

Next ==
    \/ CallRetired
    \/ \E c \in Commands : Start(c)
    \/ CbwDelivered
    \/ \E n \in AnyUnits : DataIn(n)
    \/ CswReadAsData
    \/ DataOut
    \/ DeviceExecutes
    \/ \E n \in AnyUnits : DataReadAsCsw(n)
    \/ \E w \in {FaithfulWrapper} \cup DamagedWrappers : CswRead(w)
    \/ TransferFails
    \/ Cancel
    \/ Reconnect

Spec == Init /\ [][Next]_vars

-----------------------------------------------------------------------------
Devices ==
    [at : {"idle", "data", "status"}, tag : Tags \cup {NoTag},
     plan : Nat, moved : Nat, status : 0 .. 2]

\* The variables hold values of their types (Scsi, lib.rs:289-294).
TypeOK ==
    /\ usable \in BOOLEAN
    /\ tag \in Tags
    /\ pc \in {"idle", "cbw", "dataIn", "dataOut", "csw"}
    /\ cmd \in Commands
    /\ got \in Nat
    /\ result \in Results
    /\ mixed \in BOOLEAN
    /\ dev \in Devices

\* A session that still accepts commands has a device that expects a command
\* wrapper and owes nothing: no data, no status of an earlier, failed or
\* cancelled command is left for the next one to misread (lib.rs:321-373).
FramingInSync ==
    (pc = "idle" /\ usable) =>
        /\ dev.at = "idle"
        /\ ~ mixed
        /\ dev.tag \in {tag, NoTag}

\* A verdict is the device's own on this very command.  Ok: it executed it with
\* good status, moved every unit asked for, and what the host counted as data
\* was data.  Refused: it answered this command, with status 1 (lib.rs:363-381).
VerdictIsTheDevices ==
    /\ result = "ok" =>
          /\ dev.at = "idle" /\ dev.tag = tag /\ dev.status = 0
          /\ dev.moved = Length(cmd)
          /\ got = Length(cmd) /\ ~ mixed
    /\ result = "refused" =>
          /\ dev.at = "idle" /\ dev.tag = tag /\ dev.status = 1

(***************************************************************************)
(* What the session promises its caller, as CommandContract states it.     *)
(***************************************************************************)
CommandReceived == dev.tag = tag
CommandEffect ==
    IF ~ CommandReceived THEN "none"
    ELSE IF /\ dev.at # "data" /\ dev.status = 0
            /\ dev.moved = Length(cmd)
         THEN "full"
    ELSE "partial"

SessionPhase == IF pc # "idle" THEN "busy" ELSE IF usable THEN "ready" ELSE "retired"

Contract == INSTANCE CommandContract WITH
    phase   <- SessionPhase,
    outcome <- result,
    effect  <- CommandEffect

\* Every behaviour of the transport is one the contract allows: nothing
\* reaches the device while the session is ready, an Ok comes only after the
\* full effect, a command in doubt retires the session (lib.rs:315-382).
MeetsContract == Contract!Spec

=============================================================================
