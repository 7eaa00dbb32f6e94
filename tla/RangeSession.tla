---------------------------- MODULE RangeSession ----------------------------
(***************************************************************************)
(* Byte ranges over SCSI blocks: RangeSession (nusb-scsi/src/range.rs) and *)
(* the Scsi operations it uses (initialize_ready, geometry, read_blocks,   *)
(* write_blocks, flush, eject), over a transport that is any one the       *)
(* CommandContract allows and a device whose medium can be replaced.       *)
(*                                                                         *)
(* `at` names the command whose turn it is in the call in progress; while  *)
(* the transport is busy that command is awaited, while it is ready the    *)
(* host is about to send it.  A byte of the medium is the number of the    *)
(* write that put it there; -n on the n-th medium when none did.           *)
(***************************************************************************)
EXTENDS Integers

CONSTANTS
    Media,       \* the geometries [blocks, size] a device may report
    MaxRange,    \* MAX_RANGE_BYTES
    MaxSector,   \* the largest supported sector, 65536
    U16, U32, U64,      \* how many values the integer types have
    Offsets, Lengths,   \* what the caller asks for
    MaxWrites, MaxChanges

ASSUME MediaAssumption  == Media \subseteq [blocks : Nat \ {0}, size : Nat \ {0}]
ASSUME RangeAssumption  == MaxRange \in Nat \ {0} /\ MaxSector \in Nat \ {0}
ASSUME WidthAssumption  == U16 \in Nat \ {0} /\ U32 \in Nat \ {0} /\ U64 \in Nat \ {0}
ASSUME InputsAssumption == Offsets \subseteq 0 .. U64 - 1 /\ Lengths \subseteq Nat
ASSUME BoundsAssumption == MaxWrites \in Nat /\ MaxChanges \in Nat

VARIABLES
    phase, outcome, effect,  \* the transport, as CommandContract has it
    at,         \* the command whose turn it is, "idle" between calls, "none"
    call,       \* the call in progress or the last one
    access,     \* Access of the connection
    geometry,   \* RangeSession::geometry and the medium it was read from
    sectors,    \* write_range's local: what it will write
    result,     \* what the last call returned
    data,       \* the bytes the last read returned
    told,       \* this session has returned a refusal to its caller
    writes,     \* writes begun so far
    command,    \* at the device: the command in progress or the last one
    medium,     \* [gen, geo, bytes]
    attention,  \* the medium was replaced, no command has reported it yet
    sense,      \* the sense data of the last refusal
    reply       \* what the device answered the command, and on which medium

transport == <<phase, outcome, effect>>
host      == <<call, access, geometry, sectors, data, told, writes>>
device    == <<command, medium, attention, sense, reply>>
vars      == <<transport, at, host, result, device>>

Transport == INSTANCE CommandContract

NoGeometry == [blocks |-> 0, size |-> 0, gen |-> 0]
Nothing    == [x \in {} |-> 0]
Unanswered == [gen |-> 0, value |-> Nothing]
NoCall     == [kind |-> "none", offset |-> 0, length |-> 0, id |-> 0]

NoCommand  == [op |-> "none", lba |-> 0, count |-> 0, bytes |-> Nothing, for |-> NoCall]

Connecting == {"ready", "sense", "readyAgain", "capacity"}
Operating  == {"read", "fetch", "store", "flush", "eject"}

Bytes(g) == 0 .. g.blocks * g.size - 1
Fresh(g, n) == [gen |-> n, geo |-> g, bytes |-> [a \in Bytes(g) |-> -n]]

Init ==
    /\ phase = "ready" /\ outcome = "none" /\ effect = "none"
    /\ at = "none" /\ result = "none"
    /\ call = NoCall /\ access = "read-only"
    /\ geometry = NoGeometry
    /\ sectors = Nothing /\ data = Nothing
    /\ told = FALSE /\ writes = 0
    /\ command = NoCommand
    /\ medium \in {Fresh(g, 1) : g \in Media}
    /\ attention = TRUE     \* power on
    /\ sense = "none"
    /\ reply = Unanswered

-----------------------------------------------------------------------------
(***************************************************************************)
(* span() and block_command(): from a byte range to sectors.               *)
(***************************************************************************)
\* Slips: the end of the range wraps; the number of sectors may exceed the
\* command's field.
FitsWrapped(offset, length) ==
    (offset + length) % U64 <= geometry.blocks * geometry.size
CountFitsAny(n) == TRUE

Fits(offset, length) ==
    /\ offset + length < U64
    /\ offset + length <= geometry.blocks * geometry.size

First(c) == c.offset \div geometry.size
Count(c) == (c.offset + c.length + geometry.size - 1) \div geometry.size - First(c)
Span(c)  == First(c) * geometry.size .. (First(c) + Count(c)) * geometry.size - 1

CountFits(n) == n < U16

InRange(c) == c.offset .. c.offset + c.length - 1

Admissible(c) ==
    /\ c.length \in 1 .. MaxRange
    /\ Fits(c.offset, c.length)
    /\ CountFits(Count(c))
    /\ First(c) + Count(c) - 1 < U32

\* The whole span is written as it is: no sector has to be read first.
Aligned(c) == c.offset % geometry.size = 0 /\ Count(c) * geometry.size = c.length

-----------------------------------------------------------------------------
(***************************************************************************)
(* The device.  It refuses a command because its medium was replaced, or   *)
(* for reasons of its own, and executes the others in its own time, also   *)
(* after the host has given the command up.                                *)
(***************************************************************************)
Patch(bytes, new) == [a \in DOMAIN bytes |-> IF a \in DOMAIN new THEN new[a] ELSE bytes[a]]

Executable ==
    /\ ~ attention
    /\ command.op \in {"read", "write"} =>
          DOMAIN command.bytes \subseteq Bytes(medium.geo) /\ geometry.size = medium.geo.size

Answer ==
    CASE command.op = "read"     -> [a \in DOMAIN command.bytes |-> medium.bytes[a]]
      [] command.op = "capacity" -> medium.geo
      [] OTHER                   -> Nothing

\* A write that is only partly done has stored its first sectors.
Stored(n) ==
    [a \in {b \in DOMAIN command.bytes : b < (command.lba + n) * geometry.size}
        |-> command.bytes[a]]

Executes ==
    /\ Transport!Work
    /\ effect # "full" /\ effect' = "full"
    /\ command.op # "sense"
    /\ Executable
    /\ medium' = IF command.op = "write"
                 THEN [medium EXCEPT !.bytes = Patch(@, command.bytes)] ELSE medium
    /\ reply' = [gen |-> medium.gen, value |-> Answer]
    /\ UNCHANGED <<at, host, result, command, attention, sense>>

\* REQUEST SENSE explains the last refusal, or reports a fresh replacement.
Explains ==
    /\ Transport!Work
    /\ effect # "full" /\ effect' = "full"
    /\ command.op = "sense"
    /\ \/ reply' = [gen |-> medium.gen, value |-> sense] /\ UNCHANGED attention
       \/ /\ attention
          /\ reply' = [gen |-> medium.gen, value |-> "attention"]
          /\ attention' = FALSE
    /\ sense' = "none"
    /\ UNCHANGED <<at, host, result, command, medium>>

Stores ==
    /\ Transport!Work
    /\ effect = "none" /\ effect' = "partial"
    /\ command.op = "write"
    /\ Executable
    /\ \E n \in 1 .. command.count :
          medium' = [medium EXCEPT !.bytes = Patch(@, Stored(n))]
    /\ UNCHANGED <<at, host, result, command, attention, sense, reply>>

MediumChanges ==
    /\ medium.gen <= MaxChanges
    /\ \E g \in Media : medium' = Fresh(g, medium.gen + 1)
    /\ attention' = TRUE
    /\ UNCHANGED <<transport, at, host, result, command, sense, reply>>

-----------------------------------------------------------------------------
(***************************************************************************)
(* The application's calls.  A call that fails before any command leaves   *)
(* the session as it was.                                                  *)
(***************************************************************************)
Connect(mode) ==
    /\ at = "none"
    /\ phase = "ready" /\ result = "none"    \* a new Scsi, not a used one
    /\ at' = "ready"
    /\ access' = mode
    /\ UNCHANGED <<transport, call, geometry, sectors, data, told, writes, result, device>>

\* The session is dropped and another connection made.  External assumption:
\* the device abandons what it was still doing.
Disconnect ==
    /\ at \in {"none", "idle"}
    /\ Transport!Reopen
    /\ at' = "none"
    /\ call' = NoCall /\ geometry' = NoGeometry
    /\ sectors' = Nothing /\ data' = Nothing
    /\ told' = FALSE
    /\ command' = NoCommand /\ reply' = Unanswered
    /\ result' = "none"
    /\ UNCHANGED <<access, writes, medium, attention, sense>>

Called(kind, offset, length) ==
    [kind |-> kind, offset |-> offset, length |-> length,
     id |-> IF kind = "write" THEN writes + 1 ELSE 0]

CallRefused(c) ==
    /\ at = "idle"
    /\ (c.kind = "write" /\ access # "read-write") \/ ~ Admissible(c)
    /\ call' = NoCall
    /\ data' = Nothing
    /\ result' = "invalid"
    /\ UNCHANGED <<transport, at, access, geometry, sectors, told, writes, device>>

ReadRange(c) ==
    /\ at = "idle"
    /\ Admissible(c)
    /\ call' = c
    /\ at' = "read"
    /\ data' = Nothing
    /\ result' = "none"
    /\ UNCHANGED <<transport, access, geometry, sectors, told, writes, device>>

WriteRange(c) ==
    /\ at = "idle"
    /\ writes < MaxWrites
    /\ access = "read-write"
    /\ Admissible(c)
    /\ call' = c
    /\ writes' = c.id
    /\ IF Aligned(c)
       THEN at' = "store" /\ sectors' = [a \in InRange(c) |-> c.id]
       ELSE at' = "fetch" /\ UNCHANGED sectors
    /\ data' = Nothing
    /\ result' = "none"
    /\ UNCHANGED <<transport, access, geometry, told, device>>

SyncOrEject(kind) ==
    /\ at = "idle"
    /\ call' = Called(kind, 0, 0)
    /\ at' = kind
    /\ data' = Nothing
    /\ result' = "none"
    /\ UNCHANGED <<transport, access, geometry, sectors, told, writes, device>>

-----------------------------------------------------------------------------
(***************************************************************************)
(* The commands of a call, and what follows each of their outcomes.        *)
(***************************************************************************)
Ops == [ready |-> "ready", sense |-> "sense", readyAgain |-> "ready", capacity |-> "capacity",
        read |-> "read", fetch |-> "read", store |-> "write", flush |-> "flush",
        eject |-> "eject"]

Blocks == {"read", "fetch", "store"}

\* A call ends; its locals go.
Return(place, what) == at' = place /\ result' = what /\ sectors' = Nothing

Send ==
    /\ at \in Connecting \cup Operating
    /\ Transport!Begin
    /\ command' = [op    |-> Ops[at],
                   lba   |-> IF at \in Blocks THEN First(call) ELSE 0,
                   count |-> IF at \in Blocks THEN Count(call) ELSE 0,
                   bytes |-> IF at = "store" THEN sectors
                             ELSE IF at \in Blocks THEN [a \in Span(call) |-> 0] ELSE Nothing,
                   for   |-> call]
    /\ reply' = Unanswered
    /\ UNCHANGED <<at, host, result, medium, attention, sense>>

\* The transport is retired: the call fails without a command.
SendDenied ==
    /\ at \in Operating
    /\ Transport!Denied
    /\ Return("idle", "retired")
    /\ UNCHANGED <<call, access, geometry, data, told, writes, device>>

Succeeds == Transport!Succeed /\ phase' = IF at = "eject" THEN "retired" ELSE "ready"


ReadyAnswered ==
    /\ at \in {"ready", "readyAgain"}
    /\ Succeeds
    /\ at' = "capacity"
    /\ UNCHANGED <<host, result, device>>

\* Only a unit attention is retried; sense data that is no longer there is none.
SenseAnswered ==
    /\ at = "sense"
    /\ Succeeds
    /\ IF reply.value = "attention"
       THEN at' = "readyAgain" /\ UNCHANGED <<result, sectors>>
       ELSE Return("none", "refused")
    /\ UNCHANGED <<call, access, geometry, data, told, writes, device>>

\* geometry() and the limits of connect().
Supported(g) ==
    /\ g.blocks < U32
    /\ \E n \in 0 .. g.size : g.size = 2 ^ n
    /\ g.size <= MaxSector

CapacityAnswered ==
    /\ at = "capacity"
    /\ Succeeds
    /\ IF Supported(reply.value)
       THEN /\ geometry' = [blocks |-> reply.value.blocks, size |-> reply.value.size,
                            gen |-> reply.gen]
            /\ Return("idle", "ok")
       ELSE Return("none", "unsupported") /\ UNCHANGED geometry
    /\ UNCHANGED <<call, access, data, told, writes, device>>

\* A slip: the bytes are taken from the first sector's start.
ReadAnsweredUnskipped ==
    /\ at = "read"
    /\ Succeeds
    /\ data' = [a \in InRange(call) |-> reply.value[a - (call.offset % geometry.size)]]
    /\ Return("idle", "ok")
    /\ UNCHANGED <<call, access, geometry, told, writes, device>>

ReadAnswered ==
    /\ at = "read"
    /\ Succeeds
    /\ data' = [a \in InRange(call) |-> reply.value[a]]
    /\ Return("idle", "ok")
    /\ UNCHANGED <<call, access, geometry, told, writes, device>>

\* A slip: whole sectors are filled with what is to be written.
FetchAnsweredWhole ==
    /\ at = "fetch"
    /\ Succeeds
    /\ sectors' = [a \in Span(call) |-> call.id]
    /\ at' = "store"
    /\ UNCHANGED <<call, access, geometry, result, data, told, writes, device>>

\* The range is laid over the sectors that hold it.
FetchAnswered ==
    /\ at = "fetch"
    /\ Succeeds
    /\ sectors' = Patch(reply.value, [a \in InRange(call) |-> call.id])
    /\ at' = "store"
    /\ UNCHANGED <<call, access, geometry, result, data, told, writes, device>>

DoneAnswered ==
    /\ at \in {"store", "flush", "eject"}
    /\ Succeeds
    /\ Return("idle", "ok")
    /\ UNCHANGED <<call, access, geometry, data, told, writes, device>>

\* A refusal reports that the medium was replaced, if it was.
Refuses ==
    /\ Transport!Refused
    /\ sense' = IF attention /\ command.op # "sense" THEN "attention" ELSE "other"
    /\ attention' = (attention /\ command.op = "sense")
    /\ UNCHANGED <<command, medium, reply>>

ReadyRefused ==
    /\ at = "ready"
    /\ Refuses
    /\ at' = "sense"
    /\ UNCHANGED <<host, result>>

ConnectRefused ==
    /\ at \in Connecting \ {"ready"}
    /\ Refuses
    /\ Return("none", "refused")
    /\ UNCHANGED <<call, access, geometry, data, told, writes>>

\* A slip: an operation that was refused is tried once more, and once more.
OperationRetried ==
    /\ at \in Operating
    /\ Refuses
    /\ UNCHANGED <<at, host, result>>

OperationRefused ==
    /\ at \in Operating
    /\ Refuses
    /\ Return("idle", "refused")
    /\ told' = TRUE
    /\ UNCHANGED <<call, access, geometry, data, writes>>

\* Lost, cancelled or late: the transport is retired, the command may go on.
InDoubt ==
    /\ effect' = effect
    /\ Transport!Doubt
    /\ Return(IF at \in Connecting THEN "none" ELSE "idle", "uncertain")
    /\ UNCHANGED <<call, access, geometry, data, told, writes, device>>

-----------------------------------------------------------------------------
Answered ==
    \/ ReadyAnswered \/ SenseAnswered \/ CapacityAnswered
    \/ ReadAnswered \/ FetchAnswered \/ DoneAnswered

Device == Executes \/ Explains \/ Stores \/ MediumChanges

Ranges(kind) == {Called(kind, o, l) : o \in Offsets, l \in Lengths}

Caller ==
    \/ \E mode \in {"read-only", "read-write"} : Connect(mode)
    \/ Disconnect
    \/ \E c \in Ranges("read") \cup Ranges("write") : CallRefused(c)
    \/ \E c \in Ranges("read") : ReadRange(c)
    \/ \E c \in Ranges("write") : WriteRange(c)
    \/ \E kind \in {"flush", "eject"} : SyncOrEject(kind)

Next ==
    \/ Caller \/ Send \/ SendDenied
    \/ Answered \/ ReadyRefused \/ ConnectRefused \/ OperationRefused \/ InDoubt
    \/ Device

Spec == Init /\ [][Next]_vars

-----------------------------------------------------------------------------
(***************************************************************************)
(* What all of this is to the caller: a store of bytes.  A call is begun   *)
(* there when the command of its own kind is sent; the read before an      *)
(* unaligned write and all of the connection's commands do not show.       *)
(***************************************************************************)
Connected == at \in {"idle"} \cup Operating

Disk     == [gen |-> medium.gen, bytes |-> medium.bytes]
Stage    == IF ~ Connected THEN "closed" ELSE IF at = "idle" THEN "idle" ELSE "calling"
Opened   == [gen |-> geometry.gen, size |-> geometry.blocks * geometry.size]
Writable == Connected /\ access = "read-write"
Spent    == Connected /\ phase = "retired"
Returned == IF Connected THEN result ELSE "none"

Started == IF Connected /\ phase # "ready" /\ command.op = command.for.kind
           THEN command.for ELSE NoCall
Done    == Started # NoCall /\ effect = "full"
Found   == IF Done /\ command.op = "read"
           THEN [a \in InRange(command.for) |-> reply.value[a]] ELSE Nothing

Store == INSTANCE ByteStore WITH
    disk <- Disk, state <- Stage, opened <- Opened, writable <- Writable, told <- told,
    spent <- Spent, call <- call, started <- Started, done <- Done, answer <- Found,
    result <- Returned, data <- data

-----------------------------------------------------------------------------
Ids == -(MaxChanges + 1) .. MaxWrites

\* Block addresses and counts fit their fields of the command (range.rs:54-68).
TypeOK ==
    /\ phase \in {"ready", "busy", "retired"} /\ effect \in Transport!Effects
    /\ at \in {"none", "idle"} \cup Connecting \cup Operating
    /\ access \in {"read-only", "read-write"}
    /\ geometry.blocks \in 0 .. U32 - 1 /\ geometry.size \in 0 .. MaxSector
    /\ \A a \in DOMAIN sectors : sectors[a] \in Ids
    /\ \A a \in DOMAIN data : data[a] \in Ids
    /\ result \in {"none", "ok", "invalid", "refused", "uncertain", "retired", "unsupported"}
    /\ told \in BOOLEAN /\ writes \in Ids
    /\ command.lba \in 0 .. U32 - 1 /\ command.count \in 0 .. U16 - 1
    /\ medium.geo \in Media /\ medium.bytes \in [Bytes(medium.geo) -> Ids]
    /\ attention \in BOOLEAN /\ sense \in {"none", "attention", "other"}

\* A block command is one the capacity holds, and exactly the sectors its
\* range touches: a range that wraps or ends outside never gets this far
\* (range.rs:54-68, lib.rs:492-513).
CommandsCoverTheRange ==
    (at \in Blocks /\ phase = "busy") =>
        LET lba == command.lba  n == command.count
            last == call.offset + call.length - 1
        IN  /\ n > 0 /\ lba + n <= geometry.blocks
            /\ call.offset \in lba * geometry.size .. (lba + 1) * geometry.size - 1
            /\ last \in (lba + n - 1) * geometry.size .. (lba + n) * geometry.size - 1

\* Whatever fails, is lost or goes on afterwards, and even when the medium is
\* replaced between the read and the write of a read-modify-write: no byte
\* outside the range of a write call ever changes, and none inside it becomes
\* anything but what was to be written (range.rs:79-101).
OnlyTheRangeChanges ==
    [][medium'.gen = medium.gen =>
         \A a \in Bytes(medium.geo) :
            medium'.bytes[a] # medium.bytes[a] =>
                /\ access = "read-write"
                /\ a \in InRange(command.for)
                /\ medium'.bytes[a] = command.for.id]_vars

\* An Ok on a medium that is still there: the read returned what it holds, the
\* write is on it whole (range.rs:70-101).
OkIsExact ==
    (at = "idle" /\ result = "ok" /\ reply.gen = medium.gen) =>
        /\ call.kind = "read"  => data = [a \in InRange(call) |-> medium.bytes[a]]
        /\ call.kind = "write" => \A a \in InRange(call) : medium.bytes[a] = call.id

\* "No reads/writes are retried here" (lib.rs:389): while a session's geometry
\* is not that of the medium, the device still owes it the refusal that says
\* so, or its caller has had one (range.rs:20-36, lib.rs:386-407).
ReplacementIsTold ==
    (Connected /\ geometry.gen # medium.gen) => attention \/ told

\* Sectors, commands, sense data and the read before a write do not show: to
\* its caller a session is the bytes of the disk it was opened on, read and
\* changed one range at a time, each call at most once, and carried out after
\* its call returned only when that call said it was in doubt
\* (range.rs:70-119, lib.rs:386-407).
ServesBytes == Store!Spec
=============================================================================
