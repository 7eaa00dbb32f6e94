-------------------------- MODULE RangeSessionProofs --------------------------
(***************************************************************************)
(* Byte ranges over blocks, for media of every geometry, integers of every *)
(* width and ranges of every offset and length: a command covers exactly   *)
(* the sectors its range touches, nothing outside the range of a write     *)
(* ever changes, and what a call reports is what the medium holds.         *)
(***************************************************************************)
EXTENDS RangeSession, TLAPS

Kinds     == {"none", "read", "write", "flush", "eject"}
BlockOps  == {"read", "write"}
CalledSet == [kind : Kinds, offset : Nat, length : Nat, id : 0 .. MaxWrites]
Contents  == UNION {[Bytes(g) -> Ids] : g \in Media}

(***************************************************************************)
(* The inductive invariant.  Types first, for every variable.              *)
(***************************************************************************)
Words ==
    /\ phase \in {"ready", "busy", "retired"} /\ effect \in Transport!Effects
    /\ at \in {"none", "idle"} \cup Connecting \cup Operating
    /\ access \in {"read-only", "read-write"}
    /\ result \in {"none", "ok", "invalid", "refused", "uncertain", "retired", "unsupported"}
    /\ sense \in {"none", "attention", "other"}
    /\ writes \in 0 .. MaxWrites
    /\ call \in CalledSet

Flags == told \in BOOLEAN /\ attention \in BOOLEAN

TheMedium ==
    /\ medium \in [gen : 1 .. MaxChanges + 1, geo : Media, bytes : Contents]
    /\ medium.bytes \in [Bytes(medium.geo) -> Ids]

TheBytes ==
    /\ \A a \in DOMAIN sectors : sectors[a] \in Ids
    /\ \A a \in DOMAIN data : data[a] \in Ids

\* A connected session has the geometry of a medium that was there; one that
\* is not has none, and no call.
TheGeometry ==
    /\ geometry \in [blocks : 0 .. U32 - 1, size : 0 .. MaxSector, gen : Nat]
    /\ Connected => geometry.blocks > 0 /\ geometry.size > 0 /\ geometry.gen <= medium.gen
    /\ ~ Connected => geometry = NoGeometry /\ call = NoCall

(***************************************************************************)
(* The host's place, its call and the command in progress belong together. *)
(***************************************************************************)
Places ==
    /\ at = "read" => call.kind = "read"
    /\ at \in {"fetch", "store"} => call.kind = "write" /\ access = "read-write"
    /\ at \in {"flush", "eject"} => call.kind = at
    /\ phase = "retired" => at \notin Connecting
    /\ phase = "busy" => at \in Connecting \cup Operating /\ command.op = Ops[at]
    /\ phase = "busy" => command.for = call /\ (at = "store" => command.bytes = sectors)

CallIsLawful == at \in Blocks => Admissible(call)

Orders ==
    /\ command.op \in {"none", "ready", "sense", "capacity", "read", "write", "flush", "eject"}
    /\ command.lba \in 0 .. U32 - 1 /\ command.count \in 0 .. U16 - 1
    /\ command.for \in CalledSet
    /\ Connected => command.op \notin {"none", "ready", "sense"}
    /\ ~ Connected => command.op \notin {"read", "write", "flush", "eject"}
    /\ command.op = "write" => access = "read-write"

CommandIsLawful ==
    command.op \in BlockOps =>
        /\ Admissible(command.for)
        /\ command.lba = First(command.for) /\ command.count = Count(command.for)
        /\ DOMAIN command.bytes = Span(command.for)

(***************************************************************************)
(* What a finished command answered holds as long as the medium is there,  *)
(* and when it is not there any more the device still has to say so.       *)
(***************************************************************************)
Answers ==
    /\ reply.gen \in 0 .. medium.gen
    /\ effect = "full" /\ command.op # "sense" => attention \/ reply.gen = medium.gen
    /\ effect = "full" /\ command.op = "capacity" => reply.value \in Media
    /\ effect = "full" /\ command.op = "read" => DOMAIN reply.value = DOMAIN command.bytes
    /\ at = "idle" /\ result = "ok" => effect = "full"

ReadsAreTrue ==
    effect = "full" /\ command.op = "read" =>
        \A a \in DOMAIN command.bytes :
            /\ reply.value[a] \in Ids
            /\ reply.gen = medium.gen => reply.value[a] = medium.bytes[a]

WritesAreWhole ==
    effect = "full" /\ command.op = "write" /\ reply.gen = medium.gen =>
        \A a \in DOMAIN command.bytes : medium.bytes[a] = command.bytes[a]

(***************************************************************************)
(* What is to be written: the call's own byte inside its range, outside it *)
(* what the medium holds, unless that medium was replaced meanwhile and    *)
(* the device is going to refuse.                                          *)
(***************************************************************************)
Image(bytes, c) ==
    \A a \in DOMAIN bytes : bytes[a] \in Ids /\ (a \in InRange(c) => bytes[a] = c.id)

Faithful(bytes, c) ==
    attention \/ \A a \in DOMAIN bytes : a \in InRange(c) \/ bytes[a] = medium.bytes[a]

SectorsAreRight ==
    at = "store" =>
        /\ DOMAIN sectors = Span(call)
        /\ Image(sectors, call)
        /\ phase # "retired" => Faithful(sectors, call)

CommandIsRight ==
    command.op = "write" =>
        /\ Image(command.bytes, command.for)
        /\ phase # "ready" => Faithful(command.bytes, command.for)

Typed    == Words /\ Flags /\ TheMedium /\ TheBytes /\ TheGeometry
Lawful   == Places /\ CallIsLawful /\ Orders /\ CommandIsLawful
TrueToIt == Answers /\ ReadsAreTrue /\ WritesAreWhole
Right    == SectorsAreRight /\ CommandIsRight

IInv == Typed /\ Lawful /\ TrueToIt /\ Right
-----------------------------------------------------------------------------
(***************************************************************************)
(* From bytes to sectors.                                                  *)
(***************************************************************************)
LEMMA Division ==
    ASSUME NEW n \in Nat, NEW size \in Nat \ {0}
    PROVE  /\ n \div size \in Nat
           /\ (n \div size) * size <= n /\ n < (n \div size) * size + size
  OBVIOUS

\* Two multiples of the same size are in the order of their factors.
LEMMA Multiples ==
    ASSUME NEW m \in Int, NEW n \in Int, NEW size \in Nat \ {0}, m * size < n * size
    PROVE  m < n
  OBVIOUS

LEMMA Distributes ==
    ASSUME NEW m \in Int, NEW n \in Int, NEW size \in Nat
    PROVE  /\ (m + n) * size = m * size + n * size
           /\ (m - n) * size = m * size - n * size
           /\ m * size \in Int /\ (m \in Nat => m * size \in Nat)
  OBVIOUS

LEMMA LawfulSpan ==
    ASSUME TheGeometry, NEW c \in CalledSet, Admissible(c), geometry.size > 0
    PROVE  /\ First(c) \in 0 .. U32 - 1 /\ Count(c) \in 1 .. U16 - 1
           /\ First(c) + Count(c) <= geometry.blocks
           /\ c.offset \in First(c) * geometry.size .. (First(c) + 1) * geometry.size - 1
           /\ c.offset + c.length - 1 \in (First(c) + Count(c) - 1) * geometry.size
                                          .. (First(c) + Count(c)) * geometry.size - 1
           /\ InRange(c) \subseteq Span(c) /\ Span(c) \subseteq Bytes(geometry)
<1> DEFINE o == c.offset
           l == c.length
           s == geometry.size
           f == First(c)
           e == (o + l + s - 1) \div s
<1>1. /\ o \in Nat /\ l \in Nat \ {0} /\ s \in Nat \ {0} /\ geometry.blocks \in Nat
      /\ U32 \in Nat /\ U16 \in Nat /\ U64 \in Nat
  BY WidthAssumption, RangeAssumption DEF TheGeometry, CalledSet, Admissible
<1>2. f \in Nat /\ f * s <= o /\ o < f * s + s
  BY <1>1, Division DEF First
<1>3. e \in Nat /\ e * s <= o + l + s - 1 /\ o + l + s - 1 < e * s + s
  <2>1. o + l + s - 1 \in Nat
    BY <1>1
  <2> HIDE DEF o, l, s
  <2> QED  BY <1>1, <2>1, Division
<1>4. Count(c) = e - f
  BY DEF Count
<1>5. o + l <= geometry.blocks * s
  BY DEF Admissible, Fits
<1>6. e - f < U16 /\ f + (e - f) - 1 < U32
  BY <1>4 DEF Admissible, CountFits
<1> HIDE DEF o, l, s, f, e
<1>7. /\ f * s \in Nat /\ e * s \in Nat /\ geometry.blocks * s \in Nat
      /\ (e - 1) * s = e * s - s /\ (f + 1) * s = f * s + s
  <2>1. 1 * s = s
    BY <1>1
  <2> QED  BY <1>1, <1>2, <1>3, <2>1, Distributes
<1>8. (e - 1) * s <= o + l - 1 /\ o + l <= e * s
  BY <1>1, <1>3, <1>7
<1>9. f < e
  <2>1. f * s < e * s
    BY <1>1, <1>2, <1>7, <1>8
  <2> QED  BY <1>1, <1>2, <1>3, <2>1, Multiples
<1>10. e <= geometry.blocks
  <2>1. (e - 1) * s < geometry.blocks * s
    BY <1>1, <1>3, <1>5, <1>7, <1>8
  <2>2. e - 1 < geometry.blocks
    BY <1>1, <1>3, <2>1, Multiples
  <2> QED  BY <1>1, <1>3, <2>2
<1>11. e * s <= geometry.blocks * s
  <2>1. (geometry.blocks - e) * s = geometry.blocks * s - e * s
    BY <1>1, <1>3, Distributes
  <2>2. (geometry.blocks - e) * s \in Nat
    BY <1>1, <1>3, <1>10, Distributes
  <2> QED  BY <1>7, <2>1, <2>2
<1>12. Span(c) = f * s .. e * s - 1
  <2>1. f + (e - f) = e
    BY <1>2, <1>3
  <2> QED  BY <1>4, <2>1 DEF Span, f, s
<1>13. InRange(c) = o .. o + l - 1 /\ Bytes(geometry) = 0 .. geometry.blocks * s - 1
  BY DEF InRange, Bytes, o, l, s
<1>14. InRange(c) \subseteq Span(c) /\ Span(c) \subseteq Bytes(geometry)
  <2> DEFINE first == f * s
             end   == e * s
             size  == geometry.blocks * s
  <2>1. /\ first \in Nat /\ end \in Nat /\ size \in Nat
        /\ first <= o /\ o + l <= end /\ end <= size
    BY <1>2, <1>7, <1>8, <1>11
  <2>2. Span(c) = first .. end - 1 /\ Bytes(geometry) = 0 .. size - 1
    BY <1>12, <1>13
  <2> HIDE DEF first, end, size
  <2> QED  BY <1>1, <1>13, <2>1, <2>2
<1>15. First(c) = f /\ Count(c) = e - f /\ f + (e - f) = e
  BY <1>2, <1>3, <1>4 DEF f
<1>16. f \in 0 .. U32 - 1 /\ e - f \in 1 .. U16 - 1
  BY <1>1, <1>2, <1>3, <1>6, <1>9
<1>17. o \in f * s .. (f + 1) * s - 1 /\ o + l - 1 \in (e - 1) * s .. e * s - 1
  BY <1>1, <1>2, <1>7, <1>8
<1> QED  BY <1>10, <1>14, <1>15, <1>16, <1>17 DEF o, l, s

\* The range of an aligned call is its span.
LEMMA AlignedSpan ==
    ASSUME TheGeometry, NEW c \in CalledSet, Aligned(c), geometry.size > 0
    PROVE  InRange(c) = Span(c)
<1>1. /\ c.offset \in Nat /\ c.length \in Nat /\ geometry.size \in Nat \ {0}
  BY RangeAssumption DEF TheGeometry, CalledSet
<1>2. First(c) * geometry.size = c.offset
  BY <1>1 DEF Aligned, First
<1>3. (First(c) + Count(c)) * geometry.size = First(c) * geometry.size + Count(c) * geometry.size
  <2>1. First(c) \in Int /\ Count(c) \in Int
    BY <1>1 DEF First, Count
  <2> QED  BY <1>1, <2>1, Distributes
<1>4. Count(c) * geometry.size = c.length
  BY DEF Aligned
<1> QED  BY <1>1, <1>2, <1>3, <1>4 DEF InRange, Span

-----------------------------------------------------------------------------
LEMMA Numbers ==
    /\ MaxWrites \in Nat /\ MaxChanges \in Nat /\ Ids = -(MaxChanges + 1) .. MaxWrites
    /\ U16 \in Nat \ {0} /\ U32 \in Nat \ {0} /\ U64 \in Nat \ {0} /\ MaxSector \in Nat \ {0}
BY BoundsAssumption, WidthAssumption, RangeAssumption DEF Ids

LEMMA Changed ==
    ASSUME NEW g \in Media, NEW n \in 1 .. MaxChanges + 1
    PROVE  /\ Fresh(g, n).bytes \in [Bytes(g) -> Ids]
           /\ Fresh(g, n) \in [gen : 1 .. MaxChanges + 1, geo : Media, bytes : Contents]
           /\ Fresh(g, n).gen = n /\ Fresh(g, n).geo = g
<1>1. -n \in Ids
  BY Numbers
<1>2. [a \in Bytes(g) |-> -n] \in [Bytes(g) -> Ids]
  BY <1>1
<1>3. [a \in Bytes(g) |-> -n] \in Contents
  BY <1>2 DEF Contents
<1> QED  BY <1>2, <1>3 DEF Fresh

LEMMA InitIInv == Init => IInv
<1> SUFFICES ASSUME Init PROVE IInv
  OBVIOUS
<1>1. Words /\ TheBytes
  BY Numbers DEF Init, Words, TheBytes, CalledSet, Kinds, NoCall, Nothing, Transport!Effects
<1>2. Flags
  BY Zenon DEF Init, Flags
<1>3. PICK g \in Media : medium = Fresh(g, 1)
  BY DEF Init
<1>4. TheMedium
  BY <1>3, Changed, Numbers DEF TheMedium
<1>5. TheGeometry
  BY Numbers DEF Init, TheGeometry, NoGeometry, Connected, Operating
<1>6. Lawful
  BY Numbers DEF Init, Lawful, Places, CallIsLawful, Orders, CommandIsLawful, NoCommand, NoCall,
       CalledSet, Kinds, Connected, Connecting, Operating, Blocks, BlockOps
<1>7. TrueToIt /\ Right
  BY <1>4, Numbers DEF Init, TrueToIt, Answers, ReadsAreTrue, WritesAreWhole, Right,
       SectorsAreRight, CommandIsRight, NoCommand, Unanswered, TheMedium
<1> QED  BY <1>1, <1>2, <1>4, <1>5, <1>6, <1>7 DEF IInv, Typed

-----------------------------------------------------------------------------
(***************************************************************************)
(* The steps, one by one.                                                  *)
(***************************************************************************)
Asks ==
    \/ \E mode \in {"read-only", "read-write"} : Connect(mode)
    \/ Disconnect
    \/ \E c : CallRefused(c)
    \/ \E c \in CalledSet : c.kind = "read" /\ ReadRange(c)
    \/ \E c \in CalledSet : c.kind = "write" /\ c.id = writes + 1 /\ WriteRange(c)
    \/ \E kind \in {"flush", "eject"} : SyncOrEject(kind)

LEMMA CalledShape ==
    ASSUME Words, NEW kind \in Kinds, NEW o \in Nat, NEW l \in Nat,
           kind = "write" => writes < MaxWrites
    PROVE  /\ Called(kind, o, l) \in CalledSet /\ Called(kind, o, l).kind = kind
           /\ kind = "write" => Called(kind, o, l).id = writes + 1
  BY Numbers DEF Called, CalledSet, Words

LEMMA CallerAsks ==
    ASSUME Words, Caller
    PROVE  Asks
<1>1. Offsets \subseteq Nat /\ Lengths \subseteq Nat
  BY InputsAssumption, WidthAssumption
<1>2. ASSUME NEW c \in Ranges("read"), ReadRange(c)  PROVE Asks
  <2>1. c \in CalledSet /\ c.kind = "read"
    BY <1>1, <1>2, CalledShape DEF Ranges, Kinds
  <2> QED  BY <1>2, <2>1 DEF Asks
<1>3. ASSUME NEW c \in Ranges("write"), WriteRange(c)  PROVE Asks
  <2>1. writes < MaxWrites
    BY <1>3 DEF WriteRange
  <2>2. c \in CalledSet /\ c.kind = "write" /\ c.id = writes + 1
    BY <1>1, <1>3, <2>1, CalledShape DEF Ranges, Kinds
  <2> QED  BY <1>3, <2>2 DEF Asks
<1> QED  BY <1>2, <1>3 DEF Caller, Asks

LEMMA NextKinds ==
    ASSUME Words, [Next]_vars
    PROVE  \/ Asks \/ Send \/ SendDenied
           \/ ReadyAnswered \/ SenseAnswered \/ CapacityAnswered
           \/ ReadAnswered \/ FetchAnswered \/ DoneAnswered
           \/ ReadyRefused \/ ConnectRefused \/ OperationRefused \/ InDoubt
           \/ Executes \/ Explains \/ Stores \/ MediumChanges
           \/ UNCHANGED vars
BY CallerAsks DEF Next, Answered, Device

\* What the steps of a group leave alone, whichever of them it is.
LEMMA AsksFrame ==
    ASSUME Asks
    PROVE  /\ UNCHANGED <<medium, attention, sense>>
           /\ \/ UNCHANGED <<phase, effect, command, reply, told, geometry>>
              \/ Disconnect
BY DEF Asks, Connect, Disconnect, CallRefused, ReadRange, WriteRange, SyncOrEject, transport, device

LEMMA AnswersFrame ==
    ASSUME \/ ReadyAnswered \/ SenseAnswered \/ CapacityAnswered
           \/ ReadAnswered \/ FetchAnswered \/ DoneAnswered
    PROVE  /\ phase = "busy" /\ effect = "full"
           /\ phase' = (IF at = "eject" THEN "retired" ELSE "ready")
           /\ UNCHANGED <<effect, call, access, told, writes>>
           /\ UNCHANGED <<command, medium, attention, sense, reply>>
BY DEF ReadyAnswered, SenseAnswered, CapacityAnswered, ReadAnswered, FetchAnswered, DoneAnswered,
       Succeeds, Transport!Succeed, Return, host, device

LEMMA RefusedFrame ==
    ASSUME ReadyRefused \/ ConnectRefused \/ OperationRefused
    PROVE  /\ phase = "busy" /\ effect # "full" /\ phase' = "ready"
           /\ UNCHANGED <<effect, call, access, geometry, data, writes, command, medium, reply>>
           /\ attention' = (attention /\ command.op = "sense")
BY DEF ReadyRefused, ConnectRefused, OperationRefused, Refuses, Transport!Refused, Return, host

LEMMA DoubtFrame ==
    ASSUME InDoubt
    PROVE  /\ phase = "busy" /\ phase' = "retired"
           /\ at' = (IF at \in Connecting THEN "none" ELSE "idle")
           /\ result' = "uncertain" /\ sectors' = Nothing
           /\ UNCHANGED <<effect, call, access, geometry, data, told, writes>>
           /\ UNCHANGED <<command, medium, attention, sense, reply>>
BY DEF InDoubt, Transport!Doubt, Return, device

LEMMA DeviceFrame ==
    ASSUME Executes \/ Explains \/ Stores \/ MediumChanges
    PROVE  UNCHANGED <<phase, at, call, access, geometry, sectors, data, told, writes, result,
                       command>>
BY DEF Executes, Explains, Stores, MediumChanges, Transport!Work, transport, host

(***************************************************************************)
(* The device writes nothing but bytes of its command, where they belong.  *)
(***************************************************************************)
LEMMA PatchAt ==
    ASSUME NEW old, NEW new
    PROVE  /\ DOMAIN Patch(old, new) = DOMAIN old
           /\ \A a \in DOMAIN old :
                 Patch(old, new)[a] = IF a \in DOMAIN new THEN new[a] ELSE old[a]
BY DEF Patch

LEMMA MediumPatched ==
    ASSUME TheMedium, NEW new,
           \A a \in DOMAIN new : a \in Bytes(medium.geo) => new[a] \in Ids,
           medium' = [medium EXCEPT !.bytes = Patch(@, new)]
    PROVE  /\ TheMedium'
           /\ medium'.gen = medium.gen /\ medium'.geo = medium.geo
           /\ \A a \in Bytes(medium.geo) :
                 medium'.bytes[a] = IF a \in DOMAIN new THEN new[a] ELSE medium.bytes[a]
<1> DEFINE b == Patch(medium.bytes, new)
<1>1. medium.bytes \in [Bytes(medium.geo) -> Ids]
  BY DEF TheMedium
<1>2. b = [a \in Bytes(medium.geo) |-> IF a \in DOMAIN new THEN new[a] ELSE medium.bytes[a]]
  BY <1>1 DEF Patch
<1>3. b \in [Bytes(medium.geo) -> Ids]
  BY <1>1, <1>2
<1>4. medium' = [gen |-> medium.gen, geo |-> medium.geo, bytes |-> b]
  BY DEF TheMedium
<1> HIDE DEF b
<1>5. b \in Contents
  BY <1>3 DEF Contents, TheMedium
<1> QED  BY <1>2, <1>3, <1>4, <1>5 DEF TheMedium

LEMMA DeviceWrites ==
    ASSUME TheMedium, CommandIsRight, Executes \/ Stores
    PROVE  /\ TheMedium'
           /\ medium'.gen = medium.gen /\ medium'.geo = medium.geo
           /\ \A a \in Bytes(medium.geo) :
                 \/ medium'.bytes[a] = medium.bytes[a]
                 \/ /\ command.op = "write" /\ a \in DOMAIN command.bytes
                    /\ medium'.bytes[a] = command.bytes[a]
           /\ Executes /\ command.op = "write" =>
                 \A a \in DOMAIN command.bytes :
                    a \in Bytes(medium.geo) => medium'.bytes[a] = command.bytes[a]
<1>1. ASSUME command.op = "write"
      PROVE  \A a \in DOMAIN command.bytes : command.bytes[a] \in Ids
  BY <1>1 DEF CommandIsRight, Image
<1>2. CASE Executes /\ command.op = "write"
  <2>1. medium' = [medium EXCEPT !.bytes = Patch(@, command.bytes)]
    BY <1>2 DEF Executes
  <2> QED  BY <1>1, <1>2, <2>1, MediumPatched
<1>3. CASE Executes /\ command.op # "write"
  <2>1. medium' = medium
    BY <1>3 DEF Executes
  <2> QED  BY <1>3, <2>1 DEF TheMedium
<1>4. CASE Stores
  <2>1. PICK n \in 1 .. command.count : medium' = [medium EXCEPT !.bytes = Patch(@, Stored(n))]
    BY <1>4 DEF Stores
  <2>2. /\ DOMAIN Stored(n) \subseteq DOMAIN command.bytes
        /\ \A a \in DOMAIN Stored(n) : Stored(n)[a] = command.bytes[a]
    BY DEF Stored
  <2>3. command.op = "write"
    BY <1>4 DEF Stores
  <2>4. ~ Executes
    BY <1>4 DEF Stores, Executes
  <2> HIDE DEF Stored
  <2> QED  BY <1>1, <2>1, <2>2, <2>3, <2>4, MediumPatched
<1> QED  BY <1>2, <1>3, <1>4

LEMMA MediumReplaced ==
    ASSUME TheMedium, MediumChanges
    PROVE  TheMedium' /\ medium'.gen = medium.gen + 1 /\ attention'
<1>1. PICK g \in Media : medium' = Fresh(g, medium.gen + 1)
  BY DEF MediumChanges
<1>2. medium.gen + 1 \in 1 .. MaxChanges + 1
  BY Numbers DEF TheMedium, MediumChanges
<1>3. attention'
  BY Zenon DEF MediumChanges
<1> QED  BY <1>1, <1>2, <1>3, Changed DEF TheMedium

-----------------------------------------------------------------------------
(***************************************************************************)
(* Types are kept.                                                         *)
(***************************************************************************)
LEMMA WordsPreserved == Words /\ [Next]_vars => Words'
<1> SUFFICES ASSUME Words, [Next]_vars PROVE Words'
  OBVIOUS
<1> USE DEF Words, Connecting, Operating
<1>1. CASE Connect("read-only") \/ Connect("read-write") \/ Disconnect \/ \E c : CallRefused(c)
  BY <1>1, Numbers DEF Connect, Disconnect, CallRefused, NoCall, CalledSet, Kinds, transport,
                       device, Transport!Reopen, Transport!Effects
<1>2. ASSUME NEW c \in CalledSet, ReadRange(c) \/ (c.kind = "write" /\ WriteRange(c))
      PROVE  Words'
  <2>1. writes' \in 0 .. MaxWrites
    BY <1>2 DEF ReadRange, WriteRange, CalledSet
  <2> QED  BY <1>2, <2>1 DEF ReadRange, WriteRange, transport, device
<1>3. ASSUME NEW kind \in {"flush", "eject"}, SyncOrEject(kind)  PROVE Words'
  <2>1. Called(kind, 0, 0) \in CalledSet
    BY <1>3, CalledShape DEF Kinds
  <2> QED  BY <1>3, <2>1 DEF SyncOrEject, transport, device
<1>4. CASE Send \/ SendDenied
  BY <1>4 DEF Send, SendDenied, Return, Transport!Begin, Transport!Denied, Transport!Effects, host,
              device
<1>5. CASE ReadyAnswered \/ SenseAnswered \/ CapacityAnswered
  <2>1. phase' \in {"ready", "retired"}
    BY <1>5, AnswersFrame
  <2> QED  BY <1>5, <2>1, AnswersFrame DEF ReadyAnswered, SenseAnswered, CapacityAnswered, Return
<1>6. CASE ReadAnswered \/ FetchAnswered \/ DoneAnswered
  <2>1. phase' \in {"ready", "retired"}
    BY <1>6, AnswersFrame
  <2> QED  BY <1>6, <2>1, AnswersFrame DEF ReadAnswered, FetchAnswered, DoneAnswered, Return
<1>7. CASE ReadyRefused \/ ConnectRefused \/ OperationRefused
  BY <1>7, RefusedFrame DEF ReadyRefused, ConnectRefused, OperationRefused, Refuses, Return, host
<1>8. CASE InDoubt
  BY <1>8, DoubtFrame
<1>9. CASE Executes \/ Explains \/ Stores \/ MediumChanges
  <2>1. sense' \in {sense, "none"} /\ effect' \in {effect, "partial", "full"}
    BY <1>9 DEF Executes, Explains, Stores, MediumChanges, transport
  <2> QED  BY <1>9, <2>1, DeviceFrame DEF Transport!Effects
<1>10. CASE UNCHANGED vars
  BY <1>10 DEF vars, transport, host, device
<1> QED
  BY <1>1, <1>2, <1>3, <1>4, <1>5, <1>6, <1>7, <1>8, <1>9, <1>10, NextKinds DEF Asks

LEMMA FlagsPreserved == Flags /\ Words /\ [Next]_vars => Flags'
<1> SUFFICES ASSUME Flags, Words, [Next]_vars PROVE Flags'
  OBVIOUS
<1>1. CASE Asks
  <2>1. UNCHANGED attention
    BY <1>1, AsksFrame
  <2>2. told' \in {told, FALSE}
    BY <1>1, AsksFrame DEF Disconnect
  <2> QED  BY <2>1, <2>2, Zenon DEF Flags
<1>2. CASE Send \/ SendDenied \/ UNCHANGED vars
  <2>1. UNCHANGED <<attention, told>>
    BY <1>2 DEF Send, SendDenied, host, device, vars
  <2> QED  BY <2>1, Zenon DEF Flags
<1>3. CASE \/ ReadyAnswered \/ SenseAnswered \/ CapacityAnswered
           \/ ReadAnswered \/ FetchAnswered \/ DoneAnswered
  <2>1. UNCHANGED <<attention, told>>
    BY <1>3, AnswersFrame
  <2> QED  BY <2>1, Zenon DEF Flags
<1>4. CASE ReadyRefused \/ ConnectRefused \/ OperationRefused
  <2>1. attention' \in BOOLEAN
    BY <1>4, Zenon DEF ReadyRefused, ConnectRefused, OperationRefused, Refuses
  <2>2. told' \in {told, TRUE}
    BY <1>4, Zenon DEF ReadyRefused, ConnectRefused, OperationRefused, host
  <2> QED  BY <2>1, <2>2, Zenon DEF Flags
<1>5. CASE InDoubt
  <2>1. UNCHANGED <<attention, told>>
    BY <1>5, DoubtFrame
  <2> QED  BY <2>1, Zenon DEF Flags
<1>6. CASE Executes \/ Explains \/ Stores \/ MediumChanges
  <2>1. attention' \in {attention, TRUE, FALSE}
    BY <1>6, Zenon DEF Executes, Explains, Stores, MediumChanges
  <2>2. UNCHANGED told
    BY <1>6, DeviceFrame
  <2> QED  BY <2>1, <2>2, Zenon DEF Flags
<1> QED  BY <1>1, <1>2, <1>3, <1>4, <1>5, <1>6, NextKinds

LEMMA MediumPreserved == Words /\ TheMedium /\ CommandIsRight /\ [Next]_vars => TheMedium'
<1> SUFFICES ASSUME Words, TheMedium, CommandIsRight, [Next]_vars PROVE TheMedium'
  OBVIOUS
<1>1. ASSUME UNCHANGED medium  PROVE TheMedium'
  BY <1>1 DEF TheMedium
<1>2. CASE Asks
  BY <1>1, <1>2, AsksFrame
<1>3. CASE \/ ReadyAnswered \/ SenseAnswered \/ CapacityAnswered
           \/ ReadAnswered \/ FetchAnswered \/ DoneAnswered
  BY <1>1, <1>3, AnswersFrame
<1>4. CASE ReadyRefused \/ ConnectRefused \/ OperationRefused
  BY <1>1, <1>4, RefusedFrame
<1>5. CASE InDoubt
  BY <1>1, <1>5, DoubtFrame
<1>6. CASE Send \/ SendDenied \/ Explains \/ UNCHANGED vars
  BY <1>1, <1>6 DEF Send, SendDenied, Explains, device, vars
<1>7. CASE Executes \/ Stores
  BY <1>7, DeviceWrites
<1>8. CASE MediumChanges
  BY <1>8, MediumReplaced
<1> QED  BY <1>2, <1>3, <1>4, <1>5, <1>6, <1>7, <1>8, NextKinds

\* Dropping the session loses the geometry; a capacity that is supported
\* gives it one; nothing else touches it.
LEMMA SupportedBounds ==
    ASSUME NEW g, Supported(g)
    PROVE  g.blocks < U32 /\ g.size <= MaxSector
BY Zenon DEF Supported

LEMMA NewGeometry ==
    ASSUME Words, TheMedium, Places, Answers, CapacityAnswered, at' = "idle"
    PROVE  /\ geometry' = [blocks |-> reply.value.blocks, size |-> reply.value.size,
                           gen |-> reply.gen]
           /\ geometry' \in [blocks : 0 .. U32 - 1, size : 0 .. MaxSector, gen : Nat]
           /\ geometry'.blocks > 0 /\ geometry'.size > 0 /\ geometry'.gen <= medium.gen
           /\ geometry'.gen = reply.gen
<1>1. /\ Supported(reply.value)
      /\ geometry' = [blocks |-> reply.value.blocks, size |-> reply.value.size, gen |-> reply.gen]
  BY DEF CapacityAnswered, Return
<1>2. phase = "busy" /\ effect = "full" /\ at = "capacity"
  BY AnswersFrame DEF CapacityAnswered
<1>3. command.op = "capacity"
  BY <1>2 DEF Places, Ops
<1>4. reply.value \in Media /\ reply.gen \in 0 .. medium.gen
  BY <1>2, <1>3 DEF Answers
<1>5. reply.value.blocks \in Nat \ {0} /\ reply.value.size \in Nat \ {0}
  BY <1>4, MediaAssumption
<1>6. medium.gen \in Nat
  BY Numbers DEF TheMedium
<1> QED  BY <1>1, <1>4, <1>5, <1>6, SupportedBounds, Numbers

\* A supported capacity connects the session, and only to drop it leaves it
\* without a geometry.
Stays  == (Connected <=> Connected') /\ UNCHANGED geometry /\ (~ Connected => UNCHANGED call)
Joins  == /\ ~ Connected /\ CapacityAnswered /\ at' = "idle"
          /\ UNCHANGED <<call, command, reply, medium, attention, effect>>

LEMMA Connection ==
    ASSUME Words, Places, [Next]_vars
    PROVE  Stays \/ Joins \/ Disconnect
<1> USE DEF Connected, Connecting, Operating
<1>1. CASE Asks
  BY <1>1 DEF Asks, Connect, CallRefused, ReadRange, WriteRange, SyncOrEject, Stays
<1>2. CASE Send \/ SendDenied \/ UNCHANGED vars
  BY <1>2 DEF Send, SendDenied, Return, host, vars, Stays
<1>3. CASE ReadyAnswered \/ SenseAnswered \/ ReadAnswered \/ FetchAnswered \/ DoneAnswered
  BY <1>3 DEF ReadyAnswered, SenseAnswered, ReadAnswered, FetchAnswered, DoneAnswered, Return,
              host, Stays
<1>4. CASE CapacityAnswered
  <2>1. UNCHANGED <<call, command, reply, medium, attention, effect>>
    BY <1>4, AnswersFrame
  <2>2. at = "capacity"
    BY <1>4 DEF CapacityAnswered
  <2>3. CASE Supported(reply.value)
    <3>1. at' = "idle"
      BY <1>4, <2>3 DEF CapacityAnswered, Return
    <3> QED  BY <1>4, <2>1, <2>2, <3>1 DEF Joins
  <2>4. CASE ~ Supported(reply.value)
    <3>1. at' = "none" /\ UNCHANGED geometry
      BY <1>4, <2>4 DEF CapacityAnswered, Return
    <3> QED  BY <2>1, <2>2, <3>1 DEF Stays
  <2> QED  BY <2>3, <2>4
<1>5. CASE ReadyRefused \/ ConnectRefused \/ OperationRefused
  BY <1>5 DEF ReadyRefused, ConnectRefused, OperationRefused, Return, host, Stays
<1>6. CASE InDoubt
  <2>1. phase = "busy" /\ UNCHANGED <<geometry, call>>
    BY <1>6, DoubtFrame
  <2>2. at' = IF at \in Connecting THEN "none" ELSE "idle"
    BY <1>6, DoubtFrame
  <2> QED  BY <2>1, <2>2 DEF Places, Stays
<1>7. CASE Executes \/ Explains \/ Stores \/ MediumChanges
  BY <1>7, DeviceFrame DEF Stays
<1> QED  BY <1>1, <1>2, <1>3, <1>4, <1>5, <1>6, <1>7, NextKinds

\* Generations of the medium only go up.
LEMMA Generations ==
    ASSUME Words, TheMedium, CommandIsRight, [Next]_vars
    PROVE  /\ medium.gen \in 1 .. MaxChanges + 1
           /\ \/ UNCHANGED medium
              \/ (Executes \/ Stores) /\ medium'.gen = medium.gen /\ medium'.geo = medium.geo
              \/ MediumChanges /\ medium'.gen = medium.gen + 1 /\ attention'
<1>1. medium.gen \in 1 .. MaxChanges + 1
  BY DEF TheMedium
<1>2. CASE Asks
  BY <1>1, <1>2, AsksFrame
<1>3. CASE \/ ReadyAnswered \/ SenseAnswered \/ CapacityAnswered
           \/ ReadAnswered \/ FetchAnswered \/ DoneAnswered
  BY <1>1, <1>3, AnswersFrame
<1>4. CASE ReadyRefused \/ ConnectRefused \/ OperationRefused
  BY <1>1, <1>4, RefusedFrame
<1>5. CASE InDoubt
  BY <1>1, <1>5, DoubtFrame
<1>6. CASE Send \/ SendDenied \/ Explains \/ UNCHANGED vars
  BY <1>1, <1>6 DEF Send, SendDenied, Explains, device, vars
<1>7. CASE Executes \/ Stores
  BY <1>1, <1>7, DeviceWrites
<1>8. CASE MediumChanges
  BY <1>1, <1>8, MediumReplaced
<1> QED  BY <1>2, <1>3, <1>4, <1>5, <1>6, <1>7, <1>8, NextKinds

LEMMA GeometryPreserved ==
    Words /\ TheMedium /\ CommandIsRight /\ TheGeometry /\ Places /\ Answers /\ [Next]_vars
        => TheGeometry'
<1> SUFFICES ASSUME Words, TheMedium, CommandIsRight, TheGeometry, Places, Answers, [Next]_vars
             PROVE  TheGeometry'
  OBVIOUS
<1>1. medium.gen \in Nat /\ medium'.gen \in Nat /\ medium.gen <= medium'.gen
  <2>1. medium.gen \in Nat /\ medium.gen + 1 \in Nat /\ medium.gen <= medium.gen + 1
    BY Generations, Numbers
  <2>2. medium' = medium \/ medium'.gen = medium.gen \/ medium'.gen = medium.gen + 1
    BY Generations
  <2> QED  BY <2>1, <2>2
<1>2. CASE Stays
  BY <1>1, <1>2 DEF Stays, TheGeometry
<1>3. CASE Joins
  <2>1. medium' = medium /\ Connected'
    BY <1>3 DEF Joins, Connected
  <2> QED  BY <1>1, <1>3, <2>1, NewGeometry DEF TheGeometry, Joins
<1>4. CASE Disconnect
  BY <1>1, <1>4, Numbers DEF Disconnect, TheGeometry, NoGeometry, Connected, Operating
<1> QED  BY <1>2, <1>3, <1>4, Connection

LEMMA PlacesPreserved == Words /\ Places /\ [Next]_vars => Places'
<1> SUFFICES ASSUME Words, Places, [Next]_vars PROVE Places'
  OBVIOUS
<1> USE DEF Places, Connecting, Operating
<1>1. CASE Connect("read-only") \/ Connect("read-write") \/ Disconnect \/ \E c : CallRefused(c)
  BY <1>1 DEF Connect, Disconnect, CallRefused, transport, Transport!Reopen
<1>2. ASSUME NEW c \in CalledSet,
             (c.kind = "read" /\ ReadRange(c)) \/ (c.kind = "write" /\ WriteRange(c))
      PROVE  Places'
  BY <1>2 DEF ReadRange, WriteRange, transport
<1>3. ASSUME NEW kind \in {"flush", "eject"}, SyncOrEject(kind)  PROVE Places'
  BY <1>3 DEF SyncOrEject, transport, Called
<1>4. CASE Send
  BY <1>4 DEF Send, Transport!Begin, host
<1>5. CASE SendDenied
  BY <1>5 DEF SendDenied, Transport!Denied, Return
<1>6. CASE ReadyAnswered \/ SenseAnswered \/ CapacityAnswered
  <2>1. phase' = "ready" /\ at' \in {"capacity", "readyAgain", "none", "idle"}
    BY <1>6, AnswersFrame DEF ReadyAnswered, SenseAnswered, CapacityAnswered, Return
  <2> QED  BY <2>1
<1>7. CASE ReadAnswered \/ FetchAnswered \/ DoneAnswered
  <2>1. /\ phase' \in {"ready", "retired"} /\ UNCHANGED <<call, access>>
        /\ at' = "idle" \/ (at' = "store" /\ at = "fetch")
    <3>1. phase' \in {"ready", "retired"} /\ UNCHANGED <<call, access>>
      BY <1>7, AnswersFrame
    <3>2. at' = "idle" \/ (at' = "store" /\ at = "fetch")
      BY <1>7 DEF ReadAnswered, FetchAnswered, DoneAnswered, Return
    <3> QED  BY <3>1, <3>2
  <2> QED  BY <2>1
<1>8. CASE ReadyRefused \/ ConnectRefused \/ OperationRefused
  <2>1. phase' = "ready" /\ at' \in {"sense", "none", "idle"}
    BY <1>8, RefusedFrame DEF ReadyRefused, ConnectRefused, OperationRefused, Return
  <2> QED  BY <2>1
<1>9. CASE InDoubt
  BY <1>9, DoubtFrame
<1>10. CASE Executes \/ Explains \/ Stores \/ MediumChanges
  BY <1>10, DeviceFrame
<1>11. CASE UNCHANGED vars
  BY <1>11 DEF vars, transport, host, device
<1> QED
  BY <1>1, <1>2, <1>3, <1>4, <1>5, <1>6, <1>7, <1>8, <1>9, <1>10, <1>11, NextKinds DEF Asks

-----------------------------------------------------------------------------
(***************************************************************************)
(* The call and the command stay lawful: both were checked against the     *)
(* geometry the session still has.                                         *)
(***************************************************************************)
LEMMA StillAdmissible ==
    ASSUME NEW c, Admissible(c), UNCHANGED geometry, call' = c
    PROVE  Admissible(call)'
BY Zenon DEF Admissible, Fits, CountFits, Count, First

LEMMA CallPreserved ==
    Words /\ Places /\ CallIsLawful /\ [Next]_vars => CallIsLawful'
<1> SUFFICES ASSUME Words, Places, CallIsLawful, [Next]_vars, at' \in Blocks
             PROVE  Admissible(call)'
  BY DEF CallIsLawful
<1>1. CASE Connect("read-only") \/ Connect("read-write") \/ Disconnect \/ \E c : CallRefused(c)
  BY <1>1 DEF Connect, Disconnect, CallRefused, Blocks
<1>2. ASSUME NEW c \in CalledSet, ReadRange(c) \/ WriteRange(c)  PROVE Admissible(call)'
  <2>1. Admissible(c) /\ UNCHANGED geometry /\ call' = c
    BY <1>2 DEF ReadRange, WriteRange
  <2> QED  BY <2>1, StillAdmissible
<1>3. ASSUME NEW kind \in {"flush", "eject"}, SyncOrEject(kind)  PROVE FALSE
  BY <1>3 DEF SyncOrEject, Blocks
<1>4. ASSUME at \in Blocks, UNCHANGED <<geometry, call>>  PROVE Admissible(call)'
  BY <1>4, StillAdmissible DEF CallIsLawful
<1>5. CASE Send \/ UNCHANGED vars
  <2>1. UNCHANGED <<at, geometry, call>>
    BY <1>5 DEF Send, host, vars
  <2> QED  BY <1>4, <2>1
<1>6. CASE ReadAnswered \/ FetchAnswered \/ DoneAnswered
  <2>1. at \in Blocks /\ UNCHANGED <<geometry, call>>
    BY <1>6 DEF ReadAnswered, FetchAnswered, DoneAnswered, Return, Blocks
  <2> QED  BY <1>4, <2>1
<1>7. CASE Executes \/ Explains \/ Stores \/ MediumChanges
  <2>1. UNCHANGED <<at, geometry, call>>
    BY <1>7, DeviceFrame
  <2> QED  BY <1>4, <2>1
<1>8. ~ (SendDenied \/ ReadyAnswered \/ SenseAnswered \/ ReadyRefused \/ ConnectRefused
         \/ OperationRefused)
  BY DEF SendDenied, ReadyAnswered, SenseAnswered, Return, ReadyRefused, ConnectRefused,
         OperationRefused, Blocks
<1>9. ~ (CapacityAnswered \/ InDoubt)
  BY Zenon DEF CapacityAnswered, InDoubt, Return, Blocks
<1> QED
  BY <1>1, <1>2, <1>3, <1>5, <1>6, <1>7, <1>8, <1>9, NextKinds DEF Asks

\* A command is new, gone with its session, or the one it was; who may write
\* is settled before there is a geometry.
LEMMA CommandFrame ==
    ASSUME Words, [Next]_vars
    PROVE  /\ Send \/ Disconnect \/ UNCHANGED command
           /\ UNCHANGED access \/ (~ Connected /\ ~ Connected' /\ UNCHANGED <<command, phase>>)
<1>1. CASE Asks
  BY <1>1 DEF Asks, Connect, Disconnect, CallRefused, ReadRange, WriteRange, SyncOrEject, device,
              transport, Connected, Operating
<1>2. CASE \/ ReadyAnswered \/ SenseAnswered \/ CapacityAnswered
           \/ ReadAnswered \/ FetchAnswered \/ DoneAnswered
  BY <1>2, AnswersFrame
<1>3. CASE ReadyRefused \/ ConnectRefused \/ OperationRefused
  BY <1>3, RefusedFrame
<1>4. CASE InDoubt
  BY <1>4, DoubtFrame
<1>5. CASE Executes \/ Explains \/ Stores \/ MediumChanges
  BY <1>5, DeviceFrame
<1>6. CASE Send \/ SendDenied \/ UNCHANGED vars
  BY <1>6 DEF Send, SendDenied, device, host, vars
<1> QED  BY <1>1, <1>2, <1>3, <1>4, <1>5, <1>6, NextKinds

LEMMA SentCommand ==
    ASSUME Words, TheGeometry, CallIsLawful, Send
    PROVE  /\ command'.op = Ops[at] /\ command'.for = call
           /\ command'.op \in BlockOps <=> at \in Blocks
           /\ command'.op = "write" <=> at = "store"
           /\ command'.lba \in 0 .. U32 - 1 /\ command'.count \in 0 .. U16 - 1
           /\ at \in Blocks => /\ command'.lba = First(call) /\ command'.count = Count(call)
           /\ at \in Blocks /\ at # "store" => DOMAIN command'.bytes = Span(call)
           /\ at = "store" => command'.bytes = sectors
<1>1. /\ command'.op = Ops[at] /\ command'.for = call
      /\ command'.lba = (IF at \in Blocks THEN First(call) ELSE 0)
      /\ command'.count = (IF at \in Blocks THEN Count(call) ELSE 0)
      /\ command'.bytes = (IF at = "store" THEN sectors
                           ELSE IF at \in Blocks THEN [a \in Span(call) |-> 0] ELSE Nothing)
      /\ at \in Connecting \cup Operating
  BY DEF Send
<1>2. at \in Blocks => First(call) \in 0 .. U32 - 1 /\ Count(call) \in 1 .. U16 - 1
  <2> SUFFICES ASSUME at \in Blocks
               PROVE  First(call) \in 0 .. U32 - 1 /\ Count(call) \in 1 .. U16 - 1
    OBVIOUS
  <2>1. geometry.size > 0
    BY DEF TheGeometry, Connected, Operating, Blocks
  <2>2. Admissible(call) /\ call \in CalledSet
    BY DEF CallIsLawful, Words
  <2> QED  BY <2>1, <2>2, LawfulSpan
<1>3. command'.lba \in 0 .. U32 - 1 /\ command'.count \in 0 .. U16 - 1
  <2>1. Count(call) \in 1 .. U16 - 1 => Count(call) \in 0 .. U16 - 1
    BY Numbers
  <2> QED  BY <1>1, <1>2, <2>1, Numbers
<1>4. /\ command'.op \in BlockOps <=> at \in Blocks
      /\ command'.op = "write" <=> at = "store"
  BY <1>1 DEF Ops, BlockOps, Blocks, Connecting, Operating
<1>5. at \in Blocks /\ at # "store" => DOMAIN command'.bytes = Span(call)
  BY <1>1
<1> QED  BY <1>1, <1>3, <1>4, <1>5 DEF Blocks

LEMMA OrdersPreserved ==
    Words /\ TheGeometry /\ Places /\ CallIsLawful /\ Orders /\ [Next]_vars => Orders'
<1> SUFFICES ASSUME Words, TheGeometry, Places, CallIsLawful, Orders, [Next]_vars PROVE Orders'
  OBVIOUS
<1>1. CASE Send
  <2>1. at \in Connecting \cup Operating /\ UNCHANGED <<at, access>>
    BY <1>1 DEF Send, host
  <2>2. command'.op = Ops[at] /\ command'.for \in CalledSet
    BY <1>1, SentCommand DEF Words
  <2>3. command'.lba \in 0 .. U32 - 1 /\ command'.count \in 0 .. U16 - 1
    BY <1>1, SentCommand
  <2>4. command'.op = "write" => access' = "read-write"
    BY <1>1, <2>1, SentCommand DEF Places
  <2> QED
    BY <2>1, <2>2, <2>3, <2>4 DEF Orders, Ops, Connected, Connecting, Operating
<1>2. CASE Disconnect
  BY <1>2, Numbers DEF Disconnect, Orders, NoCommand, NoCall, CalledSet, Kinds, Connected, Operating
<1>3. CASE UNCHANGED command /\ UNCHANGED access /\ Stays
  BY <1>3 DEF Stays, Orders
<1>4. CASE UNCHANGED command /\ UNCHANGED access /\ Joins
  <2>1. command.op = "capacity"
    BY <1>4, AnswersFrame DEF Joins, CapacityAnswered, Places, Ops
  <2> QED  BY <1>4, <2>1 DEF Orders, Joins, Connected
<1>5. CASE ~ Connected /\ ~ Connected' /\ UNCHANGED command
  BY <1>5 DEF Orders
<1> QED  BY <1>1, <1>2, <1>3, <1>4, <1>5, CommandFrame, Connection

LEMMA StillLawful ==
    ASSUME CommandIsLawful, UNCHANGED <<command, geometry>>
    PROVE  CommandIsLawful'
BY Zenon DEF CommandIsLawful, Admissible, Fits, CountFits, Count, First, Span

LEMMA CommandPreserved ==
    /\ Words /\ TheGeometry /\ Places /\ CallIsLawful /\ Orders /\ CommandIsLawful
    /\ SectorsAreRight /\ [Next]_vars
    => CommandIsLawful'
<1> SUFFICES ASSUME Words, TheGeometry, Places, CallIsLawful, Orders, CommandIsLawful,
                    SectorsAreRight, [Next]_vars
             PROVE  CommandIsLawful'
  OBVIOUS
<1>1. CASE Send
  <2> SUFFICES ASSUME at \in Blocks PROVE CommandIsLawful'
    BY <1>1, SentCommand DEF CommandIsLawful
  <2>1. Admissible(call)
    BY DEF CallIsLawful
  <2>2. /\ command'.lba = First(call) /\ command'.count = Count(call)
        /\ DOMAIN command'.bytes = Span(call)
    BY <1>1, SentCommand DEF SectorsAreRight, Blocks
  <2>3. command'.for = call /\ UNCHANGED <<geometry, call>>
    BY <1>1, SentCommand DEF Send, host
  <2> QED
    BY <2>1, <2>2, <2>3, Zenon DEF CommandIsLawful, Admissible, Fits, CountFits, Count, First, Span
<1>2. CASE Disconnect
  BY <1>2 DEF Disconnect, CommandIsLawful, NoCommand, BlockOps
<1>3. CASE UNCHANGED command /\ Stays
  BY <1>3, StillLawful DEF Stays
<1>4. CASE UNCHANGED command /\ ~ Connected
  BY <1>4 DEF Orders, CommandIsLawful, BlockOps
<1> QED  BY <1>1, <1>2, <1>3, <1>4, CommandFrame, Connection DEF Joins

-----------------------------------------------------------------------------
(***************************************************************************)
(* The answers.                                                            *)
(***************************************************************************)
Quietly == UNCHANGED <<effect, command, reply, medium, attention>>

LEMMA EffectKinds ==
    ASSUME Words, [Next]_vars
    PROVE  \/ Send \/ Disconnect
           \/ Executes \/ Explains \/ Stores \/ MediumChanges
           \/ /\ ReadyRefused \/ ConnectRefused \/ OperationRefused
              /\ effect # "full" /\ UNCHANGED effect
           \/ Quietly
<1>1. CASE Asks
  BY <1>1 DEF Asks, Connect, CallRefused, ReadRange, WriteRange, SyncOrEject, transport, device,
              Quietly
<1>2. CASE \/ ReadyAnswered \/ SenseAnswered \/ CapacityAnswered
           \/ ReadAnswered \/ FetchAnswered \/ DoneAnswered
  BY <1>2, AnswersFrame DEF Quietly
<1>3. CASE ReadyRefused \/ ConnectRefused \/ OperationRefused
  BY <1>3, RefusedFrame
<1>4. CASE InDoubt
  BY <1>4, DoubtFrame DEF Quietly
<1>5. CASE SendDenied \/ UNCHANGED vars
  BY <1>5 DEF SendDenied, Transport!Denied, transport, device, vars, Quietly
<1> QED  BY <1>1, <1>2, <1>3, <1>4, <1>5, NextKinds

\* The answer of a command the device has done just now.
LEMMA NewAnswer ==
    ASSUME TheMedium, CommandIsRight, Executes
    PROVE  /\ effect # "full" /\ effect' = "full" /\ reply'.gen = medium'.gen
           /\ UNCHANGED <<command, attention>> /\ command.op # "sense" /\ ~ attention
           /\ command.op = "capacity" => reply'.value = medium.geo
           /\ command.op = "read" =>
                 /\ DOMAIN command.bytes \subseteq Bytes(medium.geo)
                 /\ DOMAIN reply'.value = DOMAIN command.bytes
                 /\ \A a \in DOMAIN command.bytes : reply'.value[a] = medium'.bytes[a]
           /\ command.op = "write" =>
                 /\ DOMAIN command.bytes \subseteq Bytes(medium.geo)
                 /\ \A a \in DOMAIN command.bytes : medium'.bytes[a] = command.bytes[a]
<1>1. /\ effect # "full" /\ effect' = "full" /\ command.op # "sense"
      /\ UNCHANGED <<command, attention>>
      /\ reply' = [gen |-> medium.gen, value |-> Answer]
  BY DEF Executes
<1>2. ~ attention
  BY Zenon DEF Executes, Executable
<1>3. command.op \in BlockOps => DOMAIN command.bytes \subseteq Bytes(medium.geo)
  BY DEF Executes, Executable, BlockOps
<1>4. medium'.gen = medium.gen
  BY DeviceWrites
<1>5. command.op = "capacity" => Answer = medium.geo
  BY DEF Answer
<1>6. command.op = "read" =>
         Answer = [a \in DOMAIN command.bytes |-> medium.bytes[a]] /\ medium' = medium
  BY DEF Answer, Executes
<1>7. command.op = "write" =>
         \A a \in DOMAIN command.bytes :
            a \in Bytes(medium.geo) => medium'.bytes[a] = command.bytes[a]
  BY DeviceWrites
<1> HIDE DEF Answer
<1> QED  BY <1>1, <1>2, <1>3, <1>4, <1>5, <1>6, <1>7 DEF BlockOps

LEMMA AnswersPreserved ==
    Words /\ TheMedium /\ CommandIsRight /\ Answers /\ [Next]_vars => Answers'
<1> SUFFICES ASSUME Words, TheMedium, CommandIsRight, Answers, [Next]_vars PROVE Answers'
  OBVIOUS
<1>1. medium.gen \in Nat /\ medium'.gen \in Nat /\ reply.gen \in Int
  <2>1. medium.gen \in Nat /\ medium.gen + 1 \in Nat
    BY Generations, Numbers
  <2>2. medium' = medium \/ medium'.gen = medium.gen \/ medium'.gen = medium.gen + 1
    BY Generations
  <2> QED  BY <2>1, <2>2 DEF Answers
<1>2. at' = "idle" /\ result' = "ok" => effect' = "full"
  <2> SUFFICES ASSUME at' = "idle", result' = "ok" PROVE effect' = "full"
    OBVIOUS
  <2>1. CASE \/ ReadyAnswered \/ SenseAnswered \/ CapacityAnswered
             \/ ReadAnswered \/ FetchAnswered \/ DoneAnswered
    BY <2>1, AnswersFrame
  <2>2. CASE Executes \/ Explains \/ Stores \/ MediumChanges
    <3>1. at = "idle" /\ result = "ok"
      BY <2>2, DeviceFrame
    <3>2. effect = "full"
      BY <3>1 DEF Answers
    <3> QED  BY <2>2, <3>2 DEF Executes, Explains, Stores, MediumChanges, transport
  <2>3. CASE UNCHANGED vars
    BY <2>3 DEF vars, transport, Answers
  <2>4. ~ Asks
    BY DEF Asks, Connect, Disconnect, CallRefused, ReadRange, WriteRange, SyncOrEject
  <2>5. ~ (Send \/ SendDenied \/ ReadyRefused \/ ConnectRefused \/ OperationRefused)
    BY DEF Send, SendDenied, ReadyRefused, ConnectRefused, OperationRefused, Return, Connecting,
           Operating
  <2>6. ~ InDoubt
    BY DoubtFrame
  <2> QED  BY <2>1, <2>2, <2>3, <2>4, <2>5, <2>6, NextKinds
<1>3. CASE Send \/ Disconnect
  <2>1. effect' = "none" /\ reply'.gen = 0
    BY <1>3 DEF Send, Disconnect, Transport!Begin, Transport!Reopen, Unanswered
  <2> QED  BY <1>1, <1>2, <2>1 DEF Answers
<1>4. CASE Executes
  <2>1. medium.geo \in Media
    BY DEF TheMedium
  <2> QED  BY <1>1, <1>2, <1>4, <2>1, NewAnswer DEF Answers
<1>5. CASE Explains
  <2>1. command'.op = "sense" /\ reply'.gen = medium.gen /\ UNCHANGED medium
    BY <1>5 DEF Explains
  <2> QED  BY <1>1, <1>2, <2>1 DEF Answers
<1>6. CASE Stores
  <2>1. effect' = "partial" /\ UNCHANGED reply
    BY <1>6 DEF Stores
  <2>2. medium'.gen = medium.gen
    BY <1>6, DeviceWrites
  <2> QED  BY <1>1, <1>2, <2>1, <2>2 DEF Answers
<1>7. CASE MediumChanges
  <2>1. medium'.gen = medium.gen + 1 /\ attention'
    BY <1>7, MediumReplaced
  <2>2. UNCHANGED <<effect, command, reply>>
    BY <1>7 DEF MediumChanges, transport
  <2> QED  BY <1>1, <1>2, <2>1, <2>2 DEF Answers
<1>8. CASE ReadyRefused \/ ConnectRefused \/ OperationRefused
  <2>1. effect # "full" /\ UNCHANGED <<effect, reply, medium>>
    BY <1>8, RefusedFrame
  <2> QED  BY <1>2, <2>1 DEF Answers
<1>9. CASE Quietly
  BY <1>2, <1>9 DEF Quietly, Answers
<1> QED  BY <1>3, <1>4, <1>5, <1>6, <1>7, <1>8, <1>9, EffectKinds

LEMMA ReadsPreserved ==
    Words /\ TheMedium /\ CommandIsRight /\ Answers /\ ReadsAreTrue /\ [Next]_vars => ReadsAreTrue'
<1> SUFFICES ASSUME Words, TheMedium, CommandIsRight, Answers, ReadsAreTrue, [Next]_vars,
                    effect' = "full", command'.op = "read", NEW a \in DOMAIN command'.bytes
             PROVE  /\ reply'.value[a] \in Ids
                    /\ reply'.gen = medium'.gen => reply'.value[a] = medium'.bytes[a]
  BY DEF ReadsAreTrue
<1>1. ~ (Send \/ Disconnect)
  BY DEF Send, Disconnect, Transport!Begin, Transport!Reopen
<1>2. CASE Executes
  <2>1. medium' = medium /\ UNCHANGED command
    BY <1>2 DEF Executes
  <2>2. a \in Bytes(medium.geo) /\ reply'.value[a] = medium.bytes[a]
    BY <1>2, <2>1, NewAnswer
  <2>3. medium.bytes[a] \in Ids
    BY <2>2 DEF TheMedium
  <2> QED  BY <2>1, <2>2, <2>3
<1>3. ~ (Explains \/ Stores)
  BY DEF Explains, Stores
<1>4. CASE MediumChanges
  <2>1. medium'.gen = medium.gen + 1 /\ medium.gen \in Nat
    BY <1>4, MediumReplaced, Generations
  <2>2. UNCHANGED <<effect, command, reply>>
    BY <1>4 DEF MediumChanges, transport
  <2>3. reply.gen \in 0 .. medium.gen
    BY DEF Answers
  <2> QED  BY <2>1, <2>2, <2>3 DEF ReadsAreTrue
<1>5. CASE Quietly
  BY <1>5 DEF Quietly, ReadsAreTrue
<1> QED  BY <1>1, <1>2, <1>3, <1>4, <1>5, EffectKinds

LEMMA WritesPreserved ==
    Words /\ TheMedium /\ CommandIsRight /\ Answers /\ WritesAreWhole /\ [Next]_vars
        => WritesAreWhole'
<1> SUFFICES ASSUME Words, TheMedium, CommandIsRight, Answers, WritesAreWhole, [Next]_vars,
                    effect' = "full", command'.op = "write", reply'.gen = medium'.gen,
                    NEW a \in DOMAIN command'.bytes
             PROVE  medium'.bytes[a] = command'.bytes[a]
  BY DEF WritesAreWhole
<1>1. ~ (Send \/ Disconnect)
  BY DEF Send, Disconnect, Transport!Begin, Transport!Reopen
<1>2. CASE Executes
  BY <1>2, NewAnswer
<1>3. ~ (Explains \/ Stores)
  BY DEF Explains, Stores
<1>4. ~ MediumChanges
  <2> SUFFICES ASSUME MediumChanges PROVE FALSE
    OBVIOUS
  <2>1. medium'.gen = medium.gen + 1 /\ medium.gen \in Nat
    BY MediumReplaced, Generations
  <2>2. UNCHANGED reply
    BY DEF MediumChanges
  <2>3. reply.gen \in 0 .. medium.gen
    BY DEF Answers
  <2> QED  BY <2>1, <2>2, <2>3
<1>5. CASE Quietly
  BY <1>5 DEF Quietly, WritesAreWhole
<1> QED  BY <1>1, <1>2, <1>3, <1>4, <1>5, EffectKinds

-----------------------------------------------------------------------------
(***************************************************************************)
(* The sectors of a write.                                                 *)
(***************************************************************************)
\* A read that is answered has all the sectors of its call.
LEMMA AwaitedRead ==
    ASSUME Typed, Lawful, TrueToIt, phase = "busy", effect = "full", at \in {"read", "fetch"}
    PROVE  /\ DOMAIN reply.value = Span(call) /\ InRange(call) \subseteq Span(call)
           /\ \A a \in Span(call) :
                 /\ reply.value[a] \in Ids
                 /\ reply.gen = medium.gen => reply.value[a] = medium.bytes[a]
           /\ attention \/ reply.gen = medium.gen
<1>1. command.op = "read" /\ command.for = call
  BY DEF Lawful, Places, Ops
<1>2. Admissible(call) /\ call \in CalledSet
  BY DEF Lawful, CallIsLawful, Blocks, Typed, Words
<1>3. TheGeometry /\ geometry.size > 0
  BY DEF Typed, TheGeometry, Connected, Operating
<1>4. InRange(call) \subseteq Span(call)
  BY <1>2, <1>3, LawfulSpan
<1>5. DOMAIN command.bytes = Span(call)
  BY <1>1 DEF Lawful, CommandIsLawful, BlockOps
<1>6. DOMAIN reply.value = DOMAIN command.bytes /\ (attention \/ reply.gen = medium.gen)
  BY <1>1 DEF TrueToIt, Answers
<1>7. \A a \in DOMAIN command.bytes :
         /\ reply.value[a] \in Ids
         /\ reply.gen = medium.gen => reply.value[a] = medium.bytes[a]
  BY <1>1 DEF TrueToIt, ReadsAreTrue
<1> QED  BY <1>4, <1>5, <1>6, <1>7

LEMMA FetchedSectors ==
    ASSUME Typed, Lawful, TrueToIt, FetchAnswered
    PROVE  /\ DOMAIN sectors' = Span(call)
           /\ Image(sectors', call)
           /\ Faithful(sectors', call)
<1>1. phase = "busy" /\ effect = "full" /\ at = "fetch"
  BY AnswersFrame DEF FetchAnswered
<1>2. sectors' = Patch(reply.value, [a \in InRange(call) |-> call.id])
  BY DEF FetchAnswered
<1>3. call.id \in Ids
  BY Numbers DEF Typed, Words, CalledSet
<1>4. /\ DOMAIN reply.value = Span(call) /\ InRange(call) \subseteq Span(call)
      /\ \A a \in Span(call) :
            /\ reply.value[a] \in Ids
            /\ reply.gen = medium.gen => reply.value[a] = medium.bytes[a]
      /\ attention \/ reply.gen = medium.gen
  BY <1>1, AwaitedRead
<1>5. /\ DOMAIN sectors' = Span(call)
      /\ \A a \in Span(call) :
            sectors'[a] = IF a \in InRange(call) THEN call.id ELSE reply.value[a]
  BY <1>2, <1>4, PatchAt
<1> QED  BY <1>3, <1>4, <1>5 DEF Image, Faithful

LEMMA SectorsPreserved ==
    IInv /\ [Next]_vars => SectorsAreRight'
<1> SUFFICES ASSUME IInv, [Next]_vars, at' = "store" PROVE SectorsAreRight'
  BY DEF SectorsAreRight
<1>0. Words /\ Typed /\ Lawful /\ TrueToIt /\ SectorsAreRight /\ CommandIsRight
  BY DEF IInv, Typed, Right
<1>1. ASSUME NEW c \in CalledSet, c.kind = "write", WriteRange(c)  PROVE SectorsAreRight'
  <2>1. /\ Aligned(c) /\ sectors' = [a \in InRange(c) |-> c.id] /\ call' = c
        /\ UNCHANGED <<geometry, medium, attention>>
    BY <1>1 DEF WriteRange, device
  <2>2. TheGeometry /\ geometry.size > 0
    BY <1>0, <1>1 DEF Typed, TheGeometry, WriteRange, Connected
  <2>3. InRange(c) = Span(c)
    BY <2>1, <2>2, AlignedSpan
  <2>4. c.id \in Ids
    BY Numbers DEF CalledSet
  <2>5. Span(call)' = Span(c) /\ InRange(call)' = InRange(c)
    BY <2>1, Zenon DEF Span, First, Count, InRange
  <2> QED  BY <2>1, <2>3, <2>4, <2>5 DEF SectorsAreRight, Image, Faithful, InRange
<1>2. CASE FetchAnswered
  <2>1. UNCHANGED <<call, geometry, medium, attention>>
    BY <1>2, AnswersFrame DEF FetchAnswered
  <2>2. Span(call)' = Span(call)
    BY <2>1, Zenon DEF Span, First, Count
  <2>3. DOMAIN sectors' = Span(call) /\ Image(sectors', call) /\ Faithful(sectors', call)
    BY <1>0, <1>2, FetchedSectors
  <2> QED  BY <2>1, <2>2, <2>3 DEF SectorsAreRight, Image, Faithful, InRange
\* Until it is sent, and while it is awaited, the medium can only get from it
\* what it holds.
<1>3. ASSUME UNCHANGED <<at, sectors, call, geometry>>,
             phase' # "retired" => phase # "retired" /\ (attention => attention'),
             \A a \in DOMAIN sectors : phase' # "retired" /\ ~ attention' =>
                medium'.bytes[a] = medium.bytes[a] \/ medium'.bytes[a] = sectors[a]
      PROVE  SectorsAreRight'
  <2>1. Span(call)' = Span(call)
    BY <1>3, Zenon DEF Span, First, Count
  <2>2. DOMAIN sectors = Span(call) /\ Image(sectors, call)
    BY <1>0, <1>3 DEF SectorsAreRight
  <2>3. phase # "retired" => Faithful(sectors, call)
    BY <1>0, <1>3 DEF SectorsAreRight
  <2>4. Image(sectors, call)'
    BY <1>3, <2>2 DEF Image, InRange
  <2>5. phase' # "retired" => Faithful(sectors, call)'
    BY <1>3, <2>3 DEF Faithful, InRange
  <2> QED  BY <1>3, <2>1, <2>2, <2>4, <2>5 DEF SectorsAreRight
<1>4. CASE Send
  BY <1>3, <1>4 DEF Send, host, Transport!Begin
<1>5. CASE UNCHANGED vars
  BY <1>3, <1>5 DEF vars, host, device, transport
<1>6. CASE Executes \/ Stores
  <2>1. UNCHANGED <<at, sectors, call, geometry, phase, attention>>
    BY <1>6, DeviceFrame DEF Executes, Stores
  <2>2. ASSUME NEW a \in DOMAIN sectors, phase # "retired"
        PROVE  medium'.bytes[a] = medium.bytes[a] \/ medium'.bytes[a] = sectors[a]
    <3>1. phase = "busy"
      BY <1>0, <1>6, <2>2 DEF Executes, Stores, Transport!Work, Words
    <3>2. command.op = "write" /\ command.bytes = sectors
      BY <1>0, <2>1, <3>1 DEF Lawful, Places, Ops
    <3>3. a \in Bytes(medium.geo)
      BY <1>6, <3>2, <2>2 DEF Executes, Stores, Executable
    <3> QED  BY <1>0, <1>6, <3>2, <3>3, DeviceWrites DEF Typed
  <2> QED  BY <1>3, <2>1, <2>2
<1>7. CASE MediumChanges
  <2>1. attention' /\ UNCHANGED <<at, sectors, call, geometry, phase>>
    BY <1>0, <1>7, DeviceFrame, MediumReplaced DEF Typed
  <2> QED  BY <1>3, <2>1
<1>8. ~ Explains
  <2>1. Explains => command.op = "sense" /\ at = "store"
    BY DeviceFrame DEF Explains
  <2> QED  BY <1>0, <2>1 DEF Lawful, Orders, Connected, Operating
<1>9. ~ (Disconnect \/ SendDenied \/ ReadyAnswered \/ SenseAnswered)
  BY DEF Disconnect, SendDenied, ReadyAnswered, SenseAnswered, Return
<1>10. ~ (ReadAnswered \/ DoneAnswered \/ ReadyRefused \/ ConnectRefused \/ OperationRefused)
  BY DEF ReadAnswered, DoneAnswered, ReadyRefused, ConnectRefused, OperationRefused, Return
<1>11. ~ (CapacityAnswered \/ InDoubt)
  BY Zenon DEF CapacityAnswered, InDoubt, Return
<1>12. ASSUME NEW c, CallRefused(c) \/ ReadRange(c)  PROVE FALSE
  BY <1>12 DEF CallRefused, ReadRange
<1>13. ASSUME NEW x, Connect(x) \/ (x \in {"flush", "eject"} /\ SyncOrEject(x))  PROVE FALSE
  BY <1>13 DEF Connect, SyncOrEject
<1> QED
  BY <1>0, <1>1, <1>2, <1>4, <1>5, <1>6, <1>7, <1>8, <1>9, <1>10, <1>11, <1>12, <1>13, NextKinds
     DEF Asks

\* The same for the command that carries them, on its way and afterwards.
LEMMA CommandIsRightPreserved == IInv /\ [Next]_vars => CommandIsRight'
<1> SUFFICES ASSUME IInv, [Next]_vars, command'.op = "write" PROVE CommandIsRight'
  BY DEF CommandIsRight
<1>0. Words /\ Typed /\ Lawful /\ SectorsAreRight /\ CommandIsRight
  BY DEF IInv, Typed, Right
<1>1. CASE Send
  <2>1. at = "store" /\ command'.bytes = sectors /\ command'.for = call
    BY <1>0, <1>1, SentCommand DEF Typed, Lawful
  <2>2. phase = "ready" /\ UNCHANGED <<medium, attention>>
    BY <1>1 DEF Send, Transport!Begin
  <2>3. Image(sectors, call) /\ Faithful(sectors, call)
    BY <1>0, <2>1, <2>2 DEF SectorsAreRight
  <2> QED  BY <2>1, <2>2, <2>3 DEF CommandIsRight, Image, Faithful, InRange
<1>2. ASSUME UNCHANGED command,
             phase' # "ready" => phase # "ready" /\ (attention => attention'),
             \A a \in DOMAIN command.bytes : phase' # "ready" /\ ~ attention' =>
                medium'.bytes[a] = medium.bytes[a] \/ medium'.bytes[a] = command.bytes[a]
      PROVE  CommandIsRight'
  <2>1. Image(command.bytes, command.for)'
    BY <1>0, <1>2 DEF CommandIsRight, Image, InRange
  <2>2. phase' # "ready" => Faithful(command.bytes, command.for)'
    <3>1. phase' # "ready" => Faithful(command.bytes, command.for)
      BY <1>0, <1>2 DEF CommandIsRight
    <3> QED  BY <1>2, <3>1 DEF Faithful, InRange
  <2> QED  BY <2>1, <2>2 DEF CommandIsRight
<1>3. CASE Asks
  <2>1. ~ Disconnect
    BY DEF Disconnect, NoCommand
  <2> QED  BY <1>2, <1>3, <2>1, AsksFrame
<1>4. CASE \/ ReadyAnswered \/ SenseAnswered \/ CapacityAnswered
           \/ ReadAnswered \/ FetchAnswered \/ DoneAnswered
  BY <1>2, <1>4, AnswersFrame
<1>5. CASE ReadyRefused \/ ConnectRefused \/ OperationRefused
  BY <1>2, <1>5, RefusedFrame
<1>6. CASE InDoubt
  BY <1>2, <1>6, DoubtFrame
<1>7. CASE SendDenied \/ UNCHANGED vars
  BY <1>2, <1>7 DEF SendDenied, Transport!Denied, device, transport, vars
<1>8. CASE Executes \/ Stores
  <2>1. UNCHANGED <<command, phase, attention>>
    BY <1>8, DeviceFrame DEF Executes, Stores
  <2>2. ASSUME NEW a \in DOMAIN command.bytes
        PROVE  medium'.bytes[a] = medium.bytes[a] \/ medium'.bytes[a] = command.bytes[a]
    <3>1. a \in Bytes(medium.geo)
      BY <1>8, <2>1, <2>2 DEF Executes, Stores, Executable
    <3> QED  BY <1>0, <1>8, <3>1, DeviceWrites DEF Typed
  <2> QED  BY <1>2, <2>1, <2>2
<1>9. CASE MediumChanges
  <2>1. attention' /\ UNCHANGED <<command, phase>>
    BY <1>0, <1>9, DeviceFrame, MediumReplaced DEF Typed
  <2> QED  BY <1>2, <2>1
<1>10. ~ Explains
  BY DeviceFrame DEF Explains
<1> QED
  BY <1>0, <1>1, <1>3, <1>4, <1>5, <1>6, <1>7, <1>8, <1>9, <1>10, NextKinds

LEMMA BytesPreserved == IInv /\ [Next]_vars => TheBytes'
<1> SUFFICES ASSUME IInv, [Next]_vars PROVE TheBytes'
  OBVIOUS
<1>0. Words /\ Typed /\ Lawful /\ TrueToIt /\ TheBytes
  BY DEF IInv, Typed
<1>1. ASSUME sectors' \in {sectors, Nothing}, data' \in {data, Nothing}  PROVE TheBytes'
  BY <1>0, <1>1 DEF TheBytes, Nothing
<1>2. CASE Connect("read-only") \/ Connect("read-write") \/ Disconnect \/ \E c : CallRefused(c)
  BY <1>1, <1>2 DEF Connect, Disconnect, CallRefused
<1>3. ASSUME NEW c, ReadRange(c)  PROVE TheBytes'
  BY <1>1, <1>3 DEF ReadRange
<1>4. ASSUME NEW c \in CalledSet, WriteRange(c)  PROVE TheBytes'
  <2>1. c.id \in Ids
    BY Numbers DEF CalledSet
  <2>2. data' = Nothing /\ (sectors' = sectors \/ sectors' = [a \in InRange(c) |-> c.id])
    BY <1>4 DEF WriteRange
  <2> QED  BY <1>0, <2>1, <2>2 DEF TheBytes, Nothing
<1>5. ASSUME NEW kind, SyncOrEject(kind)  PROVE TheBytes'
  BY <1>1, <1>5 DEF SyncOrEject
<1>6. CASE Send \/ SendDenied \/ UNCHANGED vars
  BY <1>1, <1>6 DEF Send, SendDenied, Return, host, vars
<1>7. CASE ReadyAnswered \/ SenseAnswered \/ CapacityAnswered \/ DoneAnswered
  <2>1. sectors' \in {sectors, Nothing} /\ UNCHANGED data
    BY <1>7, Zenon DEF ReadyAnswered, SenseAnswered, CapacityAnswered, DoneAnswered, Return, host
  <2> QED  BY <1>1, <2>1
<1>8. CASE ReadAnswered
  <2>1. phase = "busy" /\ effect = "full" /\ at = "read"
    BY <1>8, AnswersFrame DEF ReadAnswered
  <2>2. data' = [a \in InRange(call) |-> reply.value[a]] /\ sectors' = Nothing
    BY <1>8 DEF ReadAnswered, Return
  <2>3. \A a \in InRange(call) : reply.value[a] \in Ids
    BY <1>0, <2>1, AwaitedRead
  <2> QED  BY <2>2, <2>3 DEF TheBytes, Nothing
<1>9. CASE FetchAnswered
  <2>1. Image(sectors', call) /\ UNCHANGED data
    BY <1>0, <1>9, FetchedSectors DEF FetchAnswered
  <2> QED  BY <1>0, <2>1 DEF TheBytes, Image
<1>10. CASE ReadyRefused \/ ConnectRefused \/ OperationRefused
  BY <1>1, <1>10 DEF ReadyRefused, ConnectRefused, OperationRefused, Return, host
<1>11. CASE InDoubt
  BY <1>1, <1>11, DoubtFrame
<1>12. CASE Executes \/ Explains \/ Stores \/ MediumChanges
  BY <1>1, <1>12, DeviceFrame
<1> QED
  BY <1>0, <1>2, <1>3, <1>4, <1>5, <1>6, <1>7, <1>8, <1>9, <1>10, <1>11, <1>12, NextKinds DEF Asks

LEMMA StepPreserves == IInv /\ [Next]_vars => IInv'
<1> SUFFICES ASSUME IInv, [Next]_vars PROVE IInv'
  OBVIOUS
<1>1. Words' /\ Flags' /\ TheMedium' /\ TheGeometry' /\ TheBytes'
  BY WordsPreserved, FlagsPreserved, MediumPreserved, GeometryPreserved, BytesPreserved
     DEF IInv, Typed, Lawful, TrueToIt, Right
<1>2. Places' /\ CallIsLawful' /\ Orders' /\ CommandIsLawful'
  BY PlacesPreserved, CallPreserved, OrdersPreserved, CommandPreserved
     DEF IInv, Typed, Lawful, Right
<1>3. Answers' /\ ReadsAreTrue' /\ WritesAreWhole'
  BY AnswersPreserved, ReadsPreserved, WritesPreserved DEF IInv, Typed, TrueToIt, Right
<1>4. SectorsAreRight' /\ CommandIsRight'
  BY SectorsPreserved, CommandIsRightPreserved
<1> QED  BY <1>1, <1>2, <1>3, <1>4 DEF IInv, Typed, Lawful, TrueToIt, Right

\* The session, its transport and its device agree in every reachable state.
THEOREM InvariantHolds == Spec => []IInv
BY InitIInv, StepPreserves, PTL DEF Spec

\* Type correctness; block addresses and counts fit their fields of the
\* command, whatever the geometry and the range (range.rs:54-68).
THEOREM TypeCorrect == Spec => []TypeOK
<1>1. IInv => TypeOK
  <2> SUFFICES ASSUME IInv PROVE TypeOK
    OBVIOUS
  <2>1. Words /\ Flags /\ TheMedium /\ TheBytes /\ TheGeometry /\ Orders
    BY DEF IInv, Typed, Lawful
  <2>2. writes \in Ids
    BY <2>1, Numbers DEF Words
  <2>3. told \in BOOLEAN /\ attention \in BOOLEAN
    BY <2>1, Zenon DEF Flags
  <2> QED
    BY <2>1, <2>2, <2>3 DEF TypeOK, Words, TheMedium, TheBytes, TheGeometry, Orders
<1> QED  BY <1>1, InvariantHolds, PTL

\* A block command is one the capacity holds and exactly the sectors its range
\* touches, for sectors and ranges of every size (range.rs:54-68,
\* lib.rs:492-513).
THEOREM CommandsCover == Spec => []CommandsCoverTheRange
<1>1. IInv => CommandsCoverTheRange
  <2> SUFFICES ASSUME IInv, at \in Blocks, phase = "busy" PROVE CommandsCoverTheRange
    BY DEF CommandsCoverTheRange
  <2>1. command.op \in BlockOps /\ command.for = call
    BY DEF IInv, Lawful, Places, Ops, Blocks, BlockOps
  <2>2. Admissible(call) /\ command.lba = First(call) /\ command.count = Count(call)
    BY <2>1 DEF IInv, Lawful, CommandIsLawful
  <2>3. TheGeometry /\ geometry.size > 0 /\ call \in CalledSet
    BY DEF IInv, Typed, Words, TheGeometry, Connected, Operating, Blocks
  <2>4. /\ First(call) \in 0 .. U32 - 1 /\ Count(call) \in 1 .. U16 - 1
        /\ First(call) + Count(call) <= geometry.blocks
        /\ call.offset \in First(call) * geometry.size .. (First(call) + 1) * geometry.size - 1
        /\ call.offset + call.length - 1 \in (First(call) + Count(call) - 1) * geometry.size
                                            .. (First(call) + Count(call)) * geometry.size - 1
    BY <2>2, <2>3, LawfulSpan
  <2>5. Count(call) > 0
    BY <2>4, Numbers
  <2> QED  BY <2>2, <2>4, <2>5, Zenon DEF CommandsCoverTheRange
<1> QED  BY <1>1, InvariantHolds, PTL

\* No byte outside the range of a write call ever changes, and none inside it
\* becomes anything but what was to be written, also when the call was given
\* up, or its medium replaced between the read and the write
\* (range.rs:79-101).
THEOREM RangeBoundsChange == Spec => OnlyTheRangeChanges
<1> DEFINE Bounded ==
             medium'.gen = medium.gen =>
                \A a \in Bytes(medium.geo) :
                   medium'.bytes[a] # medium.bytes[a] =>
                      /\ access = "read-write"
                      /\ a \in InRange(command.for)
                      /\ medium'.bytes[a] = command.for.id
<1>1. IInv /\ [Next]_vars => Bounded
  <2> SUFFICES ASSUME IInv, [Next]_vars, medium'.gen = medium.gen,
                      NEW a \in Bytes(medium.geo), medium'.bytes[a] # medium.bytes[a]
               PROVE  /\ access = "read-write"
                      /\ a \in InRange(command.for)
                      /\ medium'.bytes[a] = command.for.id
    OBVIOUS
  <2>1. Words /\ TheMedium /\ CommandIsRight
    BY DEF IInv, Typed, Right
  <2>2. Executes \/ Stores
    BY <2>1, Generations, Numbers
  <2>3. /\ command.op = "write" /\ a \in DOMAIN command.bytes
        /\ medium'.bytes[a] = command.bytes[a]
    BY <2>1, <2>2, DeviceWrites
  <2>4. phase # "ready" /\ ~ attention
    <3>1. ~ attention
      BY <2>2, Zenon DEF Executes, Stores, Executable
    <3> QED  BY <2>2, <3>1 DEF Executes, Stores, Transport!Work
  <2>5. a \in InRange(command.for) \/ command.bytes[a] = medium.bytes[a]
    BY <2>1, <2>3, <2>4 DEF CommandIsRight, Faithful
  <2>6. a \in InRange(command.for) => command.bytes[a] = command.for.id
    BY <2>1, <2>3 DEF CommandIsRight, Image
  <2>7. access = "read-write"
    BY <2>3 DEF IInv, Lawful, Orders
  <2> QED  BY <2>3, <2>5, <2>6, <2>7
<1>2. IInv /\ [Next]_vars => [Bounded]_vars
  BY <1>1
<1> QED  BY <1>2, InvariantHolds, PTL DEF Spec, OnlyTheRangeChanges

\* No refusal an operation gets is swallowed by a retry.
LEMMA ReplacementPreserved ==
    IInv /\ ReplacementIsTold /\ [Next]_vars => ReplacementIsTold'
<1> SUFFICES ASSUME IInv, ReplacementIsTold, [Next]_vars, Connected', geometry'.gen # medium'.gen
             PROVE  attention' \/ told'
  BY DEF ReplacementIsTold
<1>0. Words /\ Places /\ TheMedium /\ CommandIsRight /\ Answers /\ Orders
  BY DEF IInv, Typed, Lawful, TrueToIt, Right
<1>1. CASE Joins
  <2>1. geometry'.gen = reply.gen /\ medium' = medium /\ effect = "full" /\ UNCHANGED attention
    BY <1>0, <1>1, NewGeometry, AnswersFrame DEF Joins
  <2>2. command.op = "capacity"
    BY <1>0, <1>1, AnswersFrame DEF Joins, CapacityAnswered, Places, Ops
  <2>3. attention \/ reply.gen = medium.gen
    BY <1>0, <2>1, <2>2 DEF Answers
  <2> QED  BY <2>1, <2>3
<1>2. ~ Disconnect
  BY DEF Disconnect, Connected, Operating
<1>3. CASE Stays
  <2>1. Connected /\ UNCHANGED geometry
    BY <1>3 DEF Stays
  <2>2. CASE MediumChanges
    BY <1>0, <2>2, MediumReplaced
  <2>3. CASE ~ MediumChanges
    <3>1. medium'.gen = medium.gen
      BY <1>0, <2>3, Generations
    <3>2. attention \/ told
      BY <2>1, <3>1 DEF ReplacementIsTold
    <3>3. CASE ReadyRefused \/ ConnectRefused
      <4>1. at \in Connecting
        BY <3>3 DEF ReadyRefused, ConnectRefused, Connecting
      <4> QED  BY <2>1, <4>1 DEF Connected, Connecting, Operating
    <3>4. CASE OperationRefused
      BY <3>4, Zenon DEF OperationRefused
    <3>5. CASE Explains
      BY <1>0, <2>1, <3>5 DEF Explains, Orders
    <3>6. ASSUME UNCHANGED <<attention, told>>  PROVE attention' \/ told'
      BY <3>2, <3>6
    <3>7. CASE Asks
      BY <1>2, <3>6, <3>7, AsksFrame
    <3>8. CASE \/ ReadyAnswered \/ SenseAnswered \/ CapacityAnswered
               \/ ReadAnswered \/ FetchAnswered \/ DoneAnswered
      BY <3>6, <3>8, AnswersFrame
    <3>9. CASE InDoubt
      BY <3>6, <3>9, DoubtFrame
    <3>10. CASE Executes \/ Stores
      <4>1. UNCHANGED <<attention, told>>
        BY <3>10, DeviceFrame DEF Executes, Stores
      <4> QED  BY <3>6, <4>1
    <3>11. CASE Send \/ SendDenied \/ UNCHANGED vars
      <4>1. UNCHANGED <<attention, told>>
        BY <3>11 DEF Send, SendDenied, host, device, vars
      <4> QED  BY <3>6, <4>1
    <3> QED
      BY <1>0, <2>3, <3>3, <3>4, <3>5, <3>7, <3>8, <3>9, <3>10, <3>11, NextKinds
  <2> QED  BY <2>2, <2>3
<1> QED  BY <1>0, <1>1, <1>2, <1>3, Connection

\* While the geometry of a session is not the medium's, the device still owes
\* it the refusal that says so or its caller has had one, and no refusal is
\* swallowed by a retry (range.rs:20-36, lib.rs:386-407).
THEOREM ReplacementsAreTold == Spec => []ReplacementIsTold
<1>1. Init => ReplacementIsTold
  BY DEF Init, ReplacementIsTold, Connected, Operating
<1> QED  BY <1>1, ReplacementPreserved, InvariantHolds, PTL DEF Spec

\* The device finished what an Ok reports, on the medium it answers for.
LEMMA OkPreserved == IInv /\ OkIsExact /\ [Next]_vars => OkIsExact'
<1> SUFFICES ASSUME IInv, OkIsExact, [Next]_vars,
                    at' = "idle", result' = "ok", reply'.gen = medium'.gen
             PROVE  OkIsExact'
  BY DEF OkIsExact
<1>0. /\ Words /\ Typed /\ Lawful /\ TrueToIt /\ TheMedium /\ Places /\ Answers
      /\ CommandIsRight /\ SectorsAreRight
  BY DEF IInv, Typed, Lawful, TrueToIt, Right
<1>1. CASE CapacityAnswered
  <2>1. call = NoCall /\ UNCHANGED call
    BY <1>0, <1>1, AnswersFrame DEF CapacityAnswered, Typed, TheGeometry, Connected, Operating
  <2> QED  BY <2>1 DEF OkIsExact, NoCall
<1>2. CASE ReadAnswered
  <2>1. phase = "busy" /\ effect = "full" /\ at = "read" /\ UNCHANGED <<call, reply, medium>>
    BY <1>2, AnswersFrame DEF ReadAnswered
  <2>2. data' = [a \in InRange(call) |-> reply.value[a]]
    BY <1>2 DEF ReadAnswered
  <2>3. \A a \in InRange(call) : reply.value[a] = medium.bytes[a]
    BY <1>0, <2>1, AwaitedRead
  <2>4. call.kind = "read"
    BY <1>0, <2>1 DEF Places
  <2>5. data' = [a \in InRange(call) |-> medium.bytes[a]]
    BY <2>2, <2>3
  <2> QED  BY <2>1, <2>4, <2>5 DEF OkIsExact, InRange
<1>3. CASE DoneAnswered /\ at = "store"
  <2>1. phase = "busy" /\ effect = "full" /\ UNCHANGED <<call, reply, medium>>
    BY <1>3, AnswersFrame
  <2>2. command.op = "write" /\ command.bytes = sectors
    BY <1>0, <1>3, <2>1 DEF Places, Ops
  <2>3. \A a \in DOMAIN sectors : medium.bytes[a] = sectors[a]
    BY <1>0, <2>1, <2>2 DEF TrueToIt, WritesAreWhole
  <2>4. DOMAIN sectors = Span(call) /\ Image(sectors, call)
    BY <1>0, <1>3 DEF SectorsAreRight
  <2>5. InRange(call) \subseteq Span(call)
    <3>1. Admissible(call) /\ call \in CalledSet
      BY <1>0, <1>3 DEF Lawful, CallIsLawful, Blocks, Words
    <3>2. TheGeometry /\ geometry.size > 0
      BY <1>0, <1>3 DEF Typed, TheGeometry, Connected, Operating
    <3> QED  BY <3>1, <3>2, LawfulSpan
  <2>6. \A a \in InRange(call) : medium.bytes[a] = call.id
    BY <2>3, <2>4, <2>5 DEF Image
  <2>7. call.kind = "write"
    BY <1>0, <1>3 DEF Places
  <2> QED  BY <2>1, <2>6, <2>7 DEF OkIsExact, InRange
<1>4. CASE DoneAnswered /\ at \in {"flush", "eject"}
  <2>1. call'.kind \in {"flush", "eject"}
    BY <1>0, <1>4, AnswersFrame DEF Places
  <2> QED  BY <2>1 DEF OkIsExact
\* Nothing is done any more when an Ok has been returned.
<1>5. CASE Executes \/ Explains \/ Stores \/ MediumChanges
  <2>1. at = "idle" /\ result = "ok"
    BY <1>5, DeviceFrame
  <2>2. effect = "full"
    BY <1>0, <2>1 DEF Answers
  <2>3. MediumChanges
    BY <1>5, <2>2 DEF Executes, Explains, Stores
  <2>4. medium'.gen = medium.gen + 1 /\ medium.gen \in Nat /\ UNCHANGED reply
    BY <1>0, <2>3, MediumReplaced, Generations DEF MediumChanges
  <2>5. reply.gen \in 0 .. medium.gen
    BY <1>0 DEF Answers
  <2> QED  BY <2>4, <2>5
<1>6. CASE UNCHANGED vars
  BY <1>6 DEF vars, host, device, OkIsExact, InRange
<1>7. ~ Asks
  BY DEF Asks, Connect, Disconnect, CallRefused, ReadRange, WriteRange, SyncOrEject
<1>8. ~ (Send \/ SendDenied \/ ReadyRefused \/ ConnectRefused \/ OperationRefused)
  BY DEF Send, SendDenied, ReadyRefused, ConnectRefused, OperationRefused, Return, Connecting,
         Operating
<1>9. ~ (ReadyAnswered \/ SenseAnswered \/ FetchAnswered)
  BY DEF ReadyAnswered, SenseAnswered, FetchAnswered, Return
<1>10. ~ InDoubt
  BY DoubtFrame
<1>11. DoneAnswered => at \in {"store", "flush", "eject"}
  BY DEF DoneAnswered
<1> QED
  BY <1>0, <1>1, <1>2, <1>3, <1>4, <1>5, <1>6, <1>7, <1>8, <1>9, <1>10, <1>11, NextKinds

\* A read that returned Ok returned what the medium holds, a write that did is
\* on it whole, as long as that medium is there (range.rs:70-101).
THEOREM OkReportsAreExact == Spec => []OkIsExact
<1>1. Init => OkIsExact
  BY DEF Init, OkIsExact
<1> QED  BY <1>1, OkPreserved, InvariantHolds, PTL DEF Spec

-----------------------------------------------------------------------------
\* Whatever the range session, its caller and its device do is a step of the
\* command contract, or none: what BulkOnlyTransportProofs shows the transport
\* to keep is all that the theorems above take from it (lib.rs:207-345).
THEOREM KeepsToTheContract == Spec => Transport!Spec
<1> USE DEF Transport!Next, Transport!contractVars
<1>1. Init => Transport!Init
  BY DEF Init, Transport!Init
<1>2. [Next]_vars => [Transport!Next]_Transport!contractVars
  <2> SUFFICES ASSUME [Next]_vars PROVE [Transport!Next]_Transport!contractVars
    OBVIOUS
  <2>1. CASE Caller
    BY <2>1 DEF Caller, Connect, Disconnect, CallRefused, ReadRange, WriteRange, SyncOrEject,
                transport
  <2>2. CASE Send \/ SendDenied
    BY <2>2 DEF Send, SendDenied
  <2>3. CASE Answered
    BY <2>3 DEF Answered, ReadyAnswered, SenseAnswered, CapacityAnswered, ReadAnswered,
                FetchAnswered, DoneAnswered, Succeeds
  <2>4. CASE ReadyRefused \/ ConnectRefused \/ OperationRefused \/ InDoubt
    BY <2>4 DEF ReadyRefused, ConnectRefused, OperationRefused, Refuses, InDoubt
  <2>5. CASE Device
    BY <2>5 DEF Device, Executes, Explains, Stores, MediumChanges, transport
  <2>6. CASE UNCHANGED vars
    BY <2>6 DEF vars, transport
  <2> QED  BY <2>1, <2>2, <2>3, <2>4, <2>5, <2>6 DEF Next
<1> QED  BY <1>1, <1>2, PTL DEF Spec, Transport!Spec

=============================================================================
