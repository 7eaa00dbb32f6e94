---------------------- MODULE BulkOnlyTransportProofs ----------------------
(***************************************************************************)
(* The transport's type invariant and safety properties, for every set of  *)
(* commands, every transfer size and every tag width.                      *)
(***************************************************************************)
EXTENDS BulkOnlyTransport, TLAPS

(***************************************************************************)
(* The inductive invariant.  What makes FramingInSync and the verdict hold *)
(* is what each stage of the command knows about the device.               *)
(***************************************************************************)
InFlight == pc # "idle"
PastCbw  == pc \in {"dataIn", "dataOut", "csw"}

BusyIsUnusable == InFlight => ~ usable /\ result = "none"
BeforeCbw      == pc = "cbw" => dev.at = "idle" /\ dev.tag # tag /\ got = 0 /\ ~ mixed
StageCounts ==
    /\ pc = "dataIn"  => got < cmd.in
    /\ pc = "dataOut" => cmd.in = 0 /\ got < cmd.out
    /\ pc = "csw"     => got = Length(cmd)
CommandAnswered  == PastCbw => dev.tag = tag
DeviceCounts ==
    PastCbw => /\ cmd.in > 0 /\ ~ mixed => dev.moved = got
               /\ cmd.in = 0 => dev.moved <= dev.plan /\ dev.plan <= cmd.out
MixedIsSpent == PastCbw /\ mixed => dev.at = "idle"

IInv ==
    /\ TypeOK
    /\ FramingInSync
    /\ VerdictIsTheDevices
    /\ BusyIsUnusable
    /\ BeforeCbw
    /\ StageCounts
    /\ CommandAnswered
    /\ DeviceCounts
    /\ MixedIsSpent

USE CommandsAssumption, SizesAssumption, TagAssumption

LEMMA SuccessorIsNew ==
    ASSUME NEW t \in Tags
    PROVE  Successor(t) \in Tags /\ Successor(t) # t /\ Successor(t) # NoTag
BY DEF Successor, Tags, NoTag

LEMMA CommandShape ==
    ASSUME NEW c \in Commands
    PROVE  /\ c.in \in Nat /\ c.out \in Nat /\ c.eject \in BOOLEAN
           /\ Length(c) \in Nat
           /\ c.in = 0 \/ c.out = 0
BY DEF Length

LEMMA InitEstablishes == Init => IInv
<1> SUFFICES ASSUME Init PROVE IInv
  OBVIOUS
<1>1. TypeOK
  <2>1. DevIdle \in Devices
    BY DEF DevIdle, Devices
  <2>2. 0 \in Tags
    BY DEF Tags
  <2> QED  BY <2>1, <2>2 DEF Init, TypeOK, Results
<1>2. dev.at = "idle" /\ dev.tag = NoTag
  BY DEF Init, DevIdle
<1> QED
  BY <1>1, <1>2 DEF Init, IInv, FramingInSync, VerdictIsTheDevices, BusyIsUnusable,
       BeforeCbw, StageCounts, CommandAnswered, DeviceCounts, MixedIsSpent,
       InFlight, PastCbw

(***************************************************************************)
(* The device's steps stay in its type, whatever the host sees of them.    *)
(***************************************************************************)
LEMMA AcceptedDevice ==
    ASSUME NEW c \in Commands, NEW t \in Tags, NEW d \in Accepted(c, t)
    PROVE  /\ d \in Devices
           /\ d.at = "data" /\ d.tag = t /\ d.moved = 0 /\ d.moved <= d.plan
           /\ c.in = 0 => d.plan <= c.out
BY CommandShape DEF Accepted, Plans, Devices

LEMMA MovedDevice ==
    ASSUME TypeOK, dev.at = "data",
           NEW d \in {DevSends(n) : n \in 0 .. dev.plan - dev.moved}
                     \cup {DevTakes(n) : n \in Nat}
    PROVE  /\ d \in Devices
           /\ d.at = "data" /\ d.tag = dev.tag /\ d.plan = dev.plan
           /\ d.status = dev.status
           /\ dev.moved <= dev.plan => d.moved <= d.plan
BY DEF TypeOK, Devices, DevSends, DevTakes, LesserOf

\* What a failed or cancelled transfer leaves behind.
LEMMA LossKeepsDevice ==
    ASSUME TypeOK, pc # "idle", NEW d \in DevAfterLoss
    PROVE  d \in Devices
<1>1. CASE pc = "cbw" /\ dev.at = "idle"
  <2>1. d \in {dev} \cup Accepted(cmd, tag)
    BY <1>1 DEF DevAfterLoss
  <2> QED  BY <2>1, AcceptedDevice DEF TypeOK
<1>2. CASE pc = "dataOut" /\ dev.at = "data"
  <2>1. d \in {dev} \cup {DevTakes(n) : n \in 1 .. LesserOf(MaxChunk, cmd.out - got)}
    BY <1>2 DEF DevAfterLoss
  <2> QED  BY <1>2, <2>1, MovedDevice DEF TypeOK
<1>3. CASE pc \in {"dataIn", "csw"} /\ dev.at = "data"
  <2>1. d \in {dev} \cup {DevSends(n) : n \in 1 .. dev.plan - dev.moved}
    BY <1>3 DEF DevAfterLoss
  <2> QED  BY <1>3, <2>1, MovedDevice DEF TypeOK
<1>4. CASE pc \in {"dataIn", "csw"} /\ dev.at = "status"
  <2>1. d \in {dev, [dev EXCEPT !.at = "idle"]}
    BY <1>4 DEF DevAfterLoss
  <2> QED  BY <2>1 DEF TypeOK, Devices
<1>5. CASE ~ (\/ pc = "cbw" /\ dev.at = "idle"
              \/ pc = "dataOut" /\ dev.at = "data"
              \/ pc \in {"dataIn", "csw"} /\ dev.at = "data"
              \/ pc \in {"dataIn", "csw"} /\ dev.at = "status")
  <2>1. d = dev
    BY <1>5 DEF DevAfterLoss
  <2> QED  BY <2>1 DEF TypeOK
<1> QED  BY <1>1, <1>2, <1>3, <1>4, <1>5

-----------------------------------------------------------------------------
(***************************************************************************)
(* Every action preserves the invariant.  Giving up keeps it because the   *)
(* session is already unusable; a new command keeps it because the device  *)
(* is known to be idle.                                                    *)
(***************************************************************************)
LEMMA GiveUpPreserves ==
    ASSUME IInv, pc # "idle", NEW o \in {"uncertain", "cancelled"}, GiveUp(o),
           dev' \in Devices, mixed' \in BOOLEAN
    PROVE  IInv'
<1>1. TypeOK'
  BY DEF IInv, TypeOK, GiveUp, Results
<1>2. pc' = "idle" /\ ~ usable' /\ result' \notin {"ok", "refused"}
  BY DEF IInv, BusyIsUnusable, InFlight, GiveUp
<1> QED
  BY <1>1, <1>2 DEF IInv, FramingInSync, VerdictIsTheDevices, BusyIsUnusable,
     BeforeCbw, StageCounts, CommandAnswered, DeviceCounts, MixedIsSpent,
     InFlight, PastCbw

LEMMA StartPreserves ==
    ASSUME IInv, NEW c \in Commands, Start(c)
    PROVE  IInv'
<1>1. tag' \in Tags /\ tag' # tag /\ tag' # NoTag
  BY SuccessorIsNew DEF IInv, TypeOK, Start
<1>2. TypeOK'
  BY <1>1 DEF IInv, TypeOK, Start, Results
<1>3. dev' = dev /\ dev.at = "idle" /\ dev.tag \in {tag, NoTag}
  BY DEF IInv, FramingInSync, Start
<1>4. pc' = "cbw" /\ ~ usable' /\ result' = "none" /\ got' = 0 /\ ~ mixed'
  BY DEF Start
<1> QED
  BY <1>1, <1>2, <1>3, <1>4 DEF IInv, FramingInSync, VerdictIsTheDevices,
     BusyIsUnusable, BeforeCbw, StageCounts, CommandAnswered, DeviceCounts,
     MixedIsSpent, InFlight, PastCbw

\* The stage that follows n units of a command's data.
LEMMA StageShape ==
    ASSUME NEW c \in Commands, NEW n \in Nat, n <= Length(c)
    PROVE  /\ Stage(c, n) \in {"dataIn", "dataOut", "csw"}
           /\ Stage(c, n) = "dataIn"  => n < c.in
           /\ Stage(c, n) = "dataOut" => c.in = 0 /\ n < c.out
           /\ Stage(c, n) = "csw"     => n = Length(c)
BY CommandShape DEF Stage, Length

LEMMA CbwDeliveredPreserves ==
    ASSUME IInv, CbwDelivered
    PROVE  IInv'
<1>1. cmd \in Commands /\ tag \in Tags /\ got = 0 /\ ~ mixed /\ ~ usable /\ result = "none"
  BY DEF IInv, TypeOK, BeforeCbw, BusyIsUnusable, InFlight, CbwDelivered
<1>2. /\ dev' \in Devices
      /\ dev'.tag = tag /\ dev'.moved = 0 /\ dev'.moved <= dev'.plan
      /\ cmd.in = 0 => dev'.plan <= cmd.out
  BY <1>1, AcceptedDevice DEF CbwDelivered
<1>3. /\ pc' \in {"dataIn", "dataOut", "csw"}
      /\ pc' = "dataIn"  => 0 < cmd.in
      /\ pc' = "dataOut" => cmd.in = 0 /\ 0 < cmd.out
      /\ pc' = "csw"     => 0 = Length(cmd)
  BY <1>1, StageShape, CommandShape DEF CbwDelivered
<1>4. TypeOK'
  BY <1>2, <1>3 DEF IInv, TypeOK, CbwDelivered
<1> QED
  BY <1>1, <1>2, <1>3, <1>4 DEF IInv, CbwDelivered, FramingInSync,
     VerdictIsTheDevices, BusyIsUnusable, BeforeCbw, StageCounts,
     CommandAnswered, DeviceCounts, MixedIsSpent, InFlight, PastCbw

\* A data-stage step that counts n more units and moves on.
LEMMA DataInPreserves ==
    ASSUME IInv, NEW n \in Nat, DataIn(n)
    PROVE  IInv'
<1>1. /\ pc = "dataIn" /\ dev.at = "data" /\ n \in 0 .. dev.plan - dev.moved
      /\ dev' = DevSends(n) /\ mixed' = mixed
  BY DEF DataIn, LesserOf, IInv, TypeOK, Devices
<1>2. TypeOK /\ cmd \in Commands /\ got \in Nat /\ ~ mixed /\ got < cmd.in
  BY <1>1 DEF IInv, TypeOK, MixedIsSpent, PastCbw, StageCounts
<1>3. /\ dev' \in Devices /\ dev'.at = "data" /\ dev'.tag = dev.tag
      /\ dev'.moved = dev.moved + n
  BY <1>1, <1>2, MovedDevice DEF DevSends, Devices, TypeOK
<1>4. CASE n = 0 \/ n > cmd.in - got
  <2>1. GiveUp("uncertain")
    BY <1>4 DEF DataIn
  <2>2. mixed' \in BOOLEAN
    BY <1>1, <1>2 DEF TypeOK
  <2> QED  BY <1>1, <1>3, <2>1, <2>2, GiveUpPreserves
<1>5. CASE ~ (n = 0 \/ n > cmd.in - got)
  <2>1. got' = got + n /\ pc' = Stage(cmd, got + n)
        /\ UNCHANGED <<usable, tag, cmd, result>>
    BY <1>5 DEF DataIn
  <2>2. got + n \in Nat /\ got + n <= Length(cmd) /\ cmd.in > 0
    BY <1>2, <1>5, CommandShape DEF Length
  <2>3. /\ pc' \in {"dataIn", "dataOut", "csw"}
        /\ pc' = "dataIn"  => got' < cmd.in
        /\ pc' # "dataOut"
        /\ pc' = "csw"     => got' = Length(cmd)
    BY <1>2, <2>1, <2>2, StageShape
  <2>4. TypeOK'
    BY <1>1, <1>2, <1>3, <2>1, <2>2, <2>3 DEF TypeOK
  <2>5. ~ usable /\ result = "none" /\ dev.tag = tag /\ dev.moved = got
    BY <1>1, <1>2, <2>2 DEF IInv, BusyIsUnusable, InFlight, CommandAnswered,
       PastCbw, DeviceCounts
  <2> QED
    BY <1>1, <1>2, <1>3, <2>1, <2>2, <2>3, <2>4, <2>5, CommandShape
    DEF IInv, FramingInSync, VerdictIsTheDevices, BusyIsUnusable, BeforeCbw,
        StageCounts, CommandAnswered, DeviceCounts, MixedIsSpent, InFlight, PastCbw
<1> QED  BY <1>4, <1>5

LEMMA CswReadAsDataPreserves ==
    ASSUME IInv, CswReadAsData
    PROVE  IInv'
<1>1. /\ pc = "dataIn" /\ dev.at = "status" /\ mixed'
      /\ dev' = [dev EXCEPT !.at = "idle"]
  BY DEF CswReadAsData
<1>2. TypeOK /\ cmd \in Commands /\ got \in Nat /\ got < cmd.in
  BY <1>1 DEF IInv, TypeOK, StageCounts
<1>3. dev' \in Devices /\ dev'.at = "idle" /\ dev'.tag = dev.tag
  BY <1>1, <1>2 DEF TypeOK, Devices
<1>4. CASE CswLength > cmd.in - got
  <2>1. GiveUp("uncertain") /\ mixed' = TRUE
    BY <1>4 DEF CswReadAsData
  <2> QED  BY <1>1, <1>2, <1>3, <2>1, GiveUpPreserves
<1>5. CASE ~ (CswLength > cmd.in - got)
  <2>1. got' = got + CswLength /\ pc' = Stage(cmd, got + CswLength) /\ mixed' = TRUE
        /\ UNCHANGED <<usable, tag, cmd, result>>
    BY <1>5 DEF CswReadAsData
  <2>2. got' \in Nat /\ got' <= Length(cmd) /\ cmd.in > 0
    BY <1>2, <1>5, <2>1, CommandShape DEF Length
  <2>3. /\ pc' \in {"dataIn", "dataOut", "csw"}
        /\ pc' = "dataIn"  => got' < cmd.in
        /\ pc' # "dataOut"
        /\ pc' = "csw"     => got' = Length(cmd)
    BY <1>2, <2>1, <2>2, StageShape
  <2>4. TypeOK'
    BY <1>1, <1>2, <1>3, <2>1, <2>2, <2>3 DEF TypeOK
  <2>5. ~ usable /\ result = "none" /\ dev.tag = tag
    BY <1>1 DEF IInv, BusyIsUnusable, InFlight, CommandAnswered, PastCbw
  <2> QED
    BY <1>1, <1>2, <1>3, <2>1, <2>2, <2>3, <2>4, <2>5, CommandShape
    DEF IInv, FramingInSync, VerdictIsTheDevices, BusyIsUnusable, BeforeCbw,
        StageCounts, CommandAnswered, DeviceCounts, MixedIsSpent, InFlight, PastCbw
<1> QED  BY <1>4, <1>5

LEMMA DataOutPreserves ==
    ASSUME IInv, DataOut
    PROVE  IInv'
<1> DEFINE n == LesserOf(MaxChunk, cmd.out - got)
<1>1. /\ pc = "dataOut" /\ dev.at = "data" /\ dev' = DevTakes(n)
      /\ got' = got + n /\ pc' = Stage(cmd, got + n)
      /\ UNCHANGED <<usable, tag, cmd, result, mixed>>
  BY DEF DataOut
<1>2. /\ TypeOK /\ cmd \in Commands /\ got \in Nat
      /\ cmd.in = 0 /\ got < cmd.out /\ ~ mixed
  BY <1>1 DEF IInv, TypeOK, StageCounts, MixedIsSpent, PastCbw
<1>3. n \in Nat /\ got + n \in Nat /\ got + n <= Length(cmd)
  BY <1>2, CommandShape DEF LesserOf, Length
<1> HIDE DEF n
<1>4. /\ dev' \in Devices /\ dev'.at = "data" /\ dev'.tag = dev.tag
      /\ dev'.plan = dev.plan
      /\ dev.moved <= dev.plan => dev'.moved <= dev'.plan
  BY <1>1, <1>2, <1>3, MovedDevice
<1>5. /\ pc' \in {"dataIn", "dataOut", "csw"}
      /\ pc' = "dataIn"  => got' < cmd.in
      /\ pc' = "dataOut" => got' < cmd.out
      /\ pc' = "csw"     => got' = Length(cmd)
  BY <1>1, <1>2, <1>3, StageShape
<1>6. TypeOK'
  BY <1>1, <1>2, <1>3, <1>4, <1>5 DEF TypeOK
<1>7. /\ ~ usable /\ result = "none" /\ dev.tag = tag
      /\ dev.moved <= dev.plan /\ dev.plan <= cmd.out
  BY <1>1, <1>2 DEF IInv, BusyIsUnusable, InFlight, CommandAnswered, DeviceCounts, PastCbw
<1> QED
  BY <1>1, <1>2, <1>3, <1>4, <1>5, <1>6, <1>7, CommandShape
  DEF IInv, FramingInSync, VerdictIsTheDevices, BusyIsUnusable, BeforeCbw,
      StageCounts, CommandAnswered, DeviceCounts, MixedIsSpent, InFlight, PastCbw

LEMMA DeviceExecutesPreserves ==
    ASSUME IInv, DeviceExecutes
    PROVE  IInv'
<1>1. /\ dev.at = "data" /\ dev' = [dev EXCEPT !.at = "status"]
      /\ UNCHANGED <<usable, tag, pc, cmd, got, result, mixed>>
  BY DEF DeviceExecutes
<1>2. /\ dev' \in Devices /\ dev'.at = "status" /\ dev'.tag = dev.tag
      /\ dev'.moved = dev.moved /\ dev'.plan = dev.plan
  BY <1>1 DEF IInv, TypeOK, Devices
<1>3. TypeOK'
  BY <1>1, <1>2 DEF IInv, TypeOK
<1> QED
  BY <1>1, <1>2, <1>3
  DEF IInv, FramingInSync, VerdictIsTheDevices, BusyIsUnusable, BeforeCbw,
      StageCounts, CommandAnswered, DeviceCounts, MixedIsSpent, InFlight, PastCbw

LEMMA DataReadAsCswPreserves ==
    ASSUME IInv, NEW n \in Nat, DataReadAsCsw(n)
    PROVE  IInv'
<1>1. /\ pc = "csw" /\ dev.at = "data" /\ n \in 0 .. dev.plan - dev.moved
      /\ dev' = DevSends(n) /\ mixed' = mixed /\ GiveUp("uncertain")
  BY DEF DataReadAsCsw
<1>2. dev' \in Devices /\ mixed' \in BOOLEAN
  BY <1>1, MovedDevice DEF IInv, TypeOK
<1> QED  BY <1>1, <1>2, GiveUpPreserves

(***************************************************************************)
(* The verdict.  Only a faithful wrapper can be taken as ok or refused,    *)
(* and its residue then speaks for every unit of the command.              *)
(***************************************************************************)
LEMMA OnlyFaithfulIsConclusive ==
    ASSUME IInv, pc = "csw", dev.at = "status",
           NEW w \in {FaithfulWrapper} \cup DamagedWrappers,
           CswOutcome(w) # "uncertain"
    PROVE  w = FaithfulWrapper /\ CswOutcome(w) \in {"ok", "refused"}
<1>1. dev.tag = tag
  BY DEF IInv, CommandAnswered, PastCbw
<1>2. cmd \in Commands /\ Length(cmd) \in Nat
  BY CommandShape DEF IInv, TypeOK
<1>3. w \notin DamagedWrappers
  <2> DEFINE Garbled  == [formed : {FALSE}, tag : {tag}, residue : {0}, status : {0, 1}]
             Foreign  == [formed : {TRUE}, tag : Tags \ {dev.tag}, residue : {0}, status : {0, 1}]
             Inflated ==
                 [formed : {TRUE}, tag : {tag}, residue : {Length(cmd) + 1}, status : {0, 1}]
  <2>1. w \notin Garbled
    BY DEF CswOutcome
  <2>2. w \notin Foreign
    BY <1>1 DEF CswOutcome
  <2>3. w \notin Inflated
    <3>1. w \in Inflated => w.residue = Length(cmd) + 1
      OBVIOUS
    <3>2. w.residue = Length(cmd) + 1 => w.residue > Length(cmd)
      BY <1>2
    <3> QED  BY <3>1, <3>2 DEF CswOutcome
  <2>4. DamagedWrappers = Garbled \cup Foreign \cup Inflated
    BY Zenon DEF DamagedWrappers
  <2> HIDE DEF Garbled, Foreign, Inflated
  <2> QED  BY <2>1, <2>2, <2>3, <2>4
<1> QED  BY <1>3 DEF CswOutcome

LEMMA CswReadPreserves ==
    ASSUME IInv, NEW w \in {FaithfulWrapper} \cup DamagedWrappers, CswRead(w)
    PROVE  IInv'
<1>1. /\ pc = "csw" /\ dev.at = "status" /\ dev' = [dev EXCEPT !.at = "idle"]
      /\ pc' = "idle" /\ result' = CswOutcome(w)
      /\ usable' = (\/ CswOutcome(w) = "refused"
                    \/ CswOutcome(w) = "ok" /\ ~ cmd.eject)
      /\ UNCHANGED <<tag, cmd, got, mixed>>
  BY DEF CswRead
<1>2. /\ TypeOK /\ cmd \in Commands /\ Length(cmd) \in Nat
      /\ ~ mixed /\ dev.tag = tag /\ got = Length(cmd)
  BY <1>1, CommandShape DEF IInv, TypeOK, MixedIsSpent, CommandAnswered, PastCbw, StageCounts
<1>3. /\ dev' \in Devices /\ dev'.at = "idle" /\ dev'.tag = tag
      /\ dev'.moved = dev.moved /\ dev'.status = dev.status
  BY <1>1, <1>2 DEF TypeOK, Devices
<1>4. CswOutcome(w) \in {"ok", "refused", "uncertain"}
  BY DEF CswOutcome
<1>5. TypeOK'
  BY <1>1, <1>2, <1>3, <1>4 DEF TypeOK, Results
<1>6. CASE CswOutcome(w) = "uncertain"
  BY <1>1, <1>3, <1>5, <1>6 DEF IInv, FramingInSync, VerdictIsTheDevices,
     BusyIsUnusable, BeforeCbw, StageCounts, CommandAnswered, DeviceCounts,
     MixedIsSpent, InFlight, PastCbw
<1>7. CASE CswOutcome(w) # "uncertain"
  <2>1. w = FaithfulWrapper /\ CswOutcome(w) \in {"ok", "refused"}
    BY <1>1, <1>7, OnlyFaithfulIsConclusive
  <2>2. CswOutcome(w) = "refused" => dev.status = 1
    BY <2>1 DEF CswOutcome, FaithfulWrapper
  <2>3. CswOutcome(w) = "ok" => dev.status = 0 /\ DevResidue = 0
    BY <2>1 DEF CswOutcome, FaithfulWrapper
  <2>4. CswOutcome(w) = "ok" => dev.moved = Length(cmd)
    <3>1. cmd.in > 0 => dev.moved = got
      BY <1>1, <1>2 DEF IInv, DeviceCounts, PastCbw
    <3>2. cmd.in = 0 => dev.moved <= dev.plan /\ dev.plan <= cmd.out
      BY <1>1 DEF IInv, DeviceCounts, PastCbw
    <3>3. dev.moved \in Nat /\ dev.plan \in Nat
      BY <1>2 DEF TypeOK, Devices
    <3> QED  BY <1>2, <2>3, <3>1, <3>2, <3>3, CommandShape DEF DevResidue, Length
  <2> QED
    BY <1>1, <1>2, <1>3, <1>5, <2>1, <2>2, <2>3, <2>4
    DEF IInv, FramingInSync, VerdictIsTheDevices, BusyIsUnusable, BeforeCbw,
        StageCounts, CommandAnswered, DeviceCounts, MixedIsSpent, InFlight, PastCbw
<1> QED  BY <1>6, <1>7

LEMMA ReconnectPreserves ==
    ASSUME IInv, Reconnect
    PROVE  IInv'
<1>1. DevIdle \in Devices /\ DevIdle.at = "idle" /\ DevIdle.tag = NoTag
  BY DEF DevIdle, Devices
<1>2. 0 \in Tags
  BY DEF Tags
<1>3. TypeOK'
  BY <1>1, <1>2 DEF IInv, TypeOK, Reconnect, Results
<1> QED
  BY <1>1, <1>3 DEF IInv, Reconnect, FramingInSync, VerdictIsTheDevices,
     BusyIsUnusable, BeforeCbw, StageCounts, CommandAnswered, DeviceCounts,
     MixedIsSpent, InFlight, PastCbw

LEMMA CallRetiredPreserves ==
    ASSUME IInv, CallRetired
    PROVE  IInv'
BY DEF IInv, CallRetired, TypeOK, Results, FramingInSync, VerdictIsTheDevices,
       BusyIsUnusable, BeforeCbw, StageCounts, CommandAnswered, DeviceCounts,
       MixedIsSpent, InFlight, PastCbw

LEMMA UnitsAreNat == AnyUnits \subseteq Nat
BY CommandShape DEF AnyUnits

THEOREM StepPreserves == IInv /\ [Next]_vars => IInv'
<1> SUFFICES ASSUME IInv, [Next]_vars PROVE IInv'
  OBVIOUS
<1>1. ASSUME NEW c \in Commands, Start(c) PROVE IInv'
  BY <1>1, StartPreserves
<1>2. ASSUME NEW n \in AnyUnits, DataIn(n) PROVE IInv'
  BY <1>2, UnitsAreNat, DataInPreserves
<1>3. ASSUME NEW n \in AnyUnits, DataReadAsCsw(n) PROVE IInv'
  BY <1>3, UnitsAreNat, DataReadAsCswPreserves
<1>4. ASSUME NEW w \in {FaithfulWrapper} \cup DamagedWrappers, CswRead(w) PROVE IInv'
  BY <1>4, CswReadPreserves
<1>5. CASE TransferFails \/ Cancel
  <2>1. pc # "idle" /\ dev' \in DevAfterLoss /\ mixed' = mixed
        /\ (GiveUp("uncertain") \/ GiveUp("cancelled"))
    BY <1>5 DEF TransferFails, Cancel
  <2>2. dev' \in Devices /\ mixed' \in BOOLEAN
    BY <2>1, LossKeepsDevice DEF IInv, TypeOK
  <2> QED  BY <2>1, <2>2, GiveUpPreserves
<1>6. CASE CallRetired
  BY <1>6, CallRetiredPreserves
<1>7. CASE CbwDelivered
  BY <1>7, CbwDeliveredPreserves
<1>8. CASE CswReadAsData
  BY <1>8, CswReadAsDataPreserves
<1>9. CASE DataOut
  BY <1>9, DataOutPreserves
<1>10. CASE DeviceExecutes
  BY <1>10, DeviceExecutesPreserves
<1>11. CASE Reconnect
  BY <1>11, ReconnectPreserves
<1>12. CASE UNCHANGED vars
  BY <1>12 DEF vars, IInv, TypeOK, FramingInSync, VerdictIsTheDevices,
     BusyIsUnusable, BeforeCbw, StageCounts, CommandAnswered, DeviceCounts,
     MixedIsSpent, InFlight, PastCbw, Length
<1> QED
  BY <1>1, <1>2, <1>3, <1>4, <1>5, <1>6, <1>7, <1>8, <1>9, <1>10, <1>11, <1>12 DEF Next

-----------------------------------------------------------------------------
\* The invariant of every reachable state of the transport (Scsi::command).
THEOREM InvariantHolds == Spec => []IInv
<1>1. Init => IInv
  BY InitEstablishes
<1>2. IInv /\ [Next]_vars => IInv'
  BY StepPreserves
<1> QED  BY <1>1, <1>2, PTL DEF Spec

\* The session's fields keep their types, a tag never leaves its width
\* (Scsi, lib.rs:289-294 and 329).
THEOREM TypeCorrect == Spec => []TypeOK
<1>1. IInv => TypeOK
  BY DEF IInv
<1> QED  BY <1>1, InvariantHolds, PTL

\* For every set of commands and every size: a session that takes another
\* command has left nothing on the wire (lib.rs:339-340 and 371-380).
THEOREM FramingStaysInSync == Spec => []FramingInSync
<1>1. IInv => FramingInSync
  BY DEF IInv
<1> QED  BY <1>1, InvariantHolds, PTL

\* For every set of commands and every size: an Ok or a refusal is the
\* device's own verdict on this command, with all its data (lib.rs:363-381).
THEOREM VerdictsAreTrue == Spec => []VerdictIsTheDevices
<1>1. IInv => VerdictIsTheDevices
  BY DEF IInv
<1> QED  BY <1>1, InvariantHolds, PTL

-----------------------------------------------------------------------------
(***************************************************************************)
(* Refinement: every step of the transport is a step of the contract or    *)
(* leaves the contract's state alone.                                      *)
(***************************************************************************)
\* A step that keeps the host's side and only lets the device get further.
LEMMA WorkIsContractual ==
    ASSUME UNCHANGED <<SessionPhase, result>>, SessionPhase # "ready",
           Contract!Grows(CommandEffect, CommandEffect')
    PROVE  [Contract!Next]_(Contract!contractVars)
<1>1. CommandEffect' \in Contract!Effects
  BY DEF CommandEffect, Contract!Effects
<1>2. Contract!Work
  BY <1>1 DEF Contract!Work
<1> QED  BY <1>2 DEF Contract!Next

\* A command given up in doubt, whatever the device made of it.
LEMMA DoubtIsContractual ==
    ASSUME IInv, pc # "idle", GiveUp("uncertain") \/ GiveUp("cancelled"),
           Contract!Grows(CommandEffect, CommandEffect')
    PROVE  [Contract!Next]_(Contract!contractVars)
<1>1. SessionPhase = "busy" /\ SessionPhase' = "retired"
  BY DEF SessionPhase, GiveUp, IInv, BusyIsUnusable, InFlight
<1>2. CommandEffect' \in Contract!Effects
  BY DEF CommandEffect, Contract!Effects
<1>3. result' \in {"uncertain", "cancelled"}
  BY DEF GiveUp
<1>4. Contract!Doubt
  BY <1>1, <1>2, <1>3 DEF Contract!Doubt
<1> QED  BY <1>4 DEF Contract!Next

\* What a device step can do to the effect of the command in flight.
LEMMA DeviceProgressGrows ==
    ASSUME dev'.tag = dev.tag, UNCHANGED <<tag, cmd>>,
           \/ dev.at = "data"
           \/ dev.at # "data" /\ dev'.at # "data"
              /\ dev'.status = dev.status /\ dev'.moved = dev.moved
    PROVE  Contract!Grows(CommandEffect, CommandEffect')
<1>1. CASE dev.at = "data"
  <2>1. CommandEffect = IF CommandReceived THEN "partial" ELSE "none"
    BY <1>1 DEF CommandEffect
  <2>2. CommandReceived' = CommandReceived
    BY DEF CommandReceived
  <2>3. CommandReceived => CommandEffect' \in {"partial", "full"}
    BY <2>2 DEF CommandEffect
  <2> QED  BY <2>1, <2>3 DEF Contract!Grows
<1>2. CASE dev.at # "data"
  <2>1. CommandEffect' = CommandEffect
    BY <1>2 DEF CommandEffect, CommandReceived, Length
  <2> QED  BY <2>1 DEF Contract!Grows
<1> QED  BY <1>1, <1>2

LEMMA LossGrows ==
    ASSUME IInv, pc # "idle", dev' \in DevAfterLoss, UNCHANGED <<tag, cmd>>
    PROVE  Contract!Grows(CommandEffect, CommandEffect')
<1>1. CASE pc = "cbw" /\ dev.at = "idle"
  <2>1. CommandEffect = "none"
    BY <1>1 DEF IInv, BeforeCbw, CommandEffect, CommandReceived
  <2> QED  BY <2>1 DEF Contract!Grows
<1>2. CASE (pc = "dataOut" \/ pc \in {"dataIn", "csw"}) /\ dev.at = "data"
  <2>1. dev'.tag = dev.tag
    <3>1. \A n : DevTakes(n).tag = dev.tag /\ DevSends(n).tag = dev.tag
      BY DEF DevTakes, DevSends, IInv, TypeOK, Devices
    <3>2. CASE pc = "dataOut"
      BY <1>2, <3>1, <3>2 DEF DevAfterLoss
    <3>3. CASE pc \in {"dataIn", "csw"}
      BY <1>2, <3>1, <3>3 DEF DevAfterLoss
    <3> QED  BY <1>2, <3>2, <3>3
  <2> QED  BY <1>2, <2>1, DeviceProgressGrows
<1>3. CASE pc \in {"dataIn", "csw"} /\ dev.at = "status"
  <2>1. dev' \in {dev, [dev EXCEPT !.at = "idle"]}
    BY <1>3 DEF DevAfterLoss
  <2>2. /\ dev'.tag = dev.tag /\ dev'.at # "data"
        /\ dev'.status = dev.status /\ dev'.moved = dev.moved
    BY <1>3, <2>1 DEF IInv, TypeOK, Devices
  <2> QED  BY <1>3, <2>2, DeviceProgressGrows
<1>4. CASE ~ (\/ pc = "cbw" /\ dev.at = "idle"
              \/ pc = "dataOut" /\ dev.at = "data"
              \/ pc \in {"dataIn", "csw"} /\ dev.at = "data"
              \/ pc \in {"dataIn", "csw"} /\ dev.at = "status")
  <2>1. dev' = dev
    BY <1>4 DEF DevAfterLoss
  <2>2. CommandEffect' = CommandEffect
    BY <2>1 DEF CommandEffect, CommandReceived, Length
  <2> QED  BY <2>2 DEF Contract!Grows
<1> QED  BY <1>1, <1>2, <1>3, <1>4

\* Beginning a command: the device is idle, the new tag is one it has not seen.
LEMMA StartIsContractual ==
    ASSUME IInv, NEW c \in Commands, Start(c)
    PROVE  [Contract!Next]_(Contract!contractVars)
<1>1. tag' # dev'.tag
  BY SuccessorIsNew DEF IInv, TypeOK, FramingInSync, Start
<1>2. SessionPhase = "ready" /\ SessionPhase' = "busy" /\ result' = "none"
  BY DEF SessionPhase, Start
<1>3. CommandEffect' = "none"
  BY <1>1 DEF CommandEffect, CommandReceived
<1> QED  BY <1>2, <1>3 DEF Contract!Begin, Contract!Next

LEMMA VerdictIsContractual ==
    ASSUME IInv, NEW w \in {FaithfulWrapper} \cup DamagedWrappers, CswRead(w)
    PROVE  [Contract!Next]_(Contract!contractVars)
<1>1. IInv'
  BY CswReadPreserves
<1>2. /\ pc = "csw" /\ pc' = "idle" /\ result' = CswOutcome(w)
      /\ dev.at = "status" /\ dev' = [dev EXCEPT !.at = "idle"]
      /\ usable' = (\/ CswOutcome(w) = "refused"
                    \/ CswOutcome(w) = "ok" /\ ~ cmd.eject)
      /\ UNCHANGED <<tag, cmd, got, mixed>>
  BY DEF CswRead
<1>3. /\ dev'.at = "idle" /\ dev'.tag = dev.tag /\ dev'.status = dev.status
      /\ dev'.moved = dev.moved
  BY <1>2 DEF IInv, TypeOK, Devices
<1>4. CommandEffect' = CommandEffect
  BY <1>2, <1>3 DEF CommandEffect, CommandReceived, Length
<1>5. SessionPhase = "busy"
  BY <1>2 DEF SessionPhase
<1>6. CswOutcome(w) \in {"ok", "refused", "uncertain"}
  BY DEF CswOutcome
<1>7. CASE CswOutcome(w) = "ok"
  <2>1. CommandEffect = "full"
    BY <1>1, <1>2, <1>3, <1>4, <1>7 DEF IInv, VerdictIsTheDevices, CommandEffect, CommandReceived
  <2>2. SessionPhase' \in {"ready", "retired"}
    BY <1>2 DEF SessionPhase
  <2>3. Contract!Succeed
    BY <1>2, <1>4, <1>5, <1>7, <2>1, <2>2 DEF Contract!Succeed
  <2> QED  BY <2>3 DEF Contract!Next
<1>8. CASE CswOutcome(w) = "refused"
  <2>1. CommandEffect # "full"
    BY <1>1, <1>2, <1>3, <1>8 DEF IInv, VerdictIsTheDevices, CommandEffect
  <2>2. SessionPhase' = "ready"
    BY <1>2, <1>8 DEF SessionPhase
  <2>3. Contract!Refused
    BY <1>2, <1>4, <1>5, <1>8, <2>1, <2>2 DEF Contract!Refused
  <2> QED  BY <2>3 DEF Contract!Next
<1>9. CASE CswOutcome(w) = "uncertain"
  <2>1. SessionPhase' = "retired"
    BY <1>2, <1>9 DEF SessionPhase
  <2>2. CommandEffect' \in Contract!Effects /\ Contract!Grows(CommandEffect, CommandEffect')
    BY <1>4 DEF CommandEffect, Contract!Effects, Contract!Grows
  <2>3. Contract!Doubt
    BY <1>2, <1>5, <1>9, <2>1, <2>2 DEF Contract!Doubt
  <2> QED  BY <2>3 DEF Contract!Next
<1> QED  BY <1>6, <1>7, <1>8, <1>9

\* A data-stage step that does not end the command.
LEMMA StageStepIsContractual ==
    ASSUME IInv, pc # "idle", pc' # "idle", UNCHANGED <<tag, cmd, result>>,
           Contract!Grows(CommandEffect, CommandEffect')
    PROVE  [Contract!Next]_(Contract!contractVars)
<1>1. UNCHANGED <<SessionPhase, result>> /\ SessionPhase # "ready"
  BY DEF SessionPhase
<1> QED  BY <1>1, WorkIsContractual

LEMMA DataInIsContractual ==
    ASSUME IInv, NEW n \in Nat, DataIn(n) \/ DataReadAsCsw(n)
    PROVE  [Contract!Next]_(Contract!contractVars)
<1>1. /\ pc # "idle" /\ dev.at = "data" /\ dev' = DevSends(n)
      /\ UNCHANGED <<tag, cmd>>
  BY DEF DataIn, DataReadAsCsw, GiveUp
<1>2. dev'.tag = dev.tag
  BY <1>1 DEF DevSends, IInv, TypeOK, Devices
<1>3. Contract!Grows(CommandEffect, CommandEffect')
  BY <1>1, <1>2, DeviceProgressGrows
<1>4. CASE GiveUp("uncertain")
  BY <1>1, <1>3, <1>4, DoubtIsContractual
<1>5. CASE ~ GiveUp("uncertain")
  <2>1. pc = "dataIn" /\ n <= cmd.in - got /\ pc' = Stage(cmd, got + n) /\ result' = result
    BY <1>5 DEF DataIn, DataReadAsCsw, IInv, TypeOK
  <2>2. pc' # "idle"
    BY <2>1 DEF Stage
  <2> QED  BY <1>1, <1>3, <2>1, <2>2, StageStepIsContractual
<1> QED  BY <1>4, <1>5

LEMMA CswReadAsDataIsContractual ==
    ASSUME IInv, CswReadAsData
    PROVE  [Contract!Next]_(Contract!contractVars)
<1>1. /\ pc # "idle" /\ dev.at = "status" /\ dev' = [dev EXCEPT !.at = "idle"]
      /\ UNCHANGED <<tag, cmd>>
  BY DEF CswReadAsData, GiveUp
<1>2. /\ dev'.tag = dev.tag /\ dev'.at # "data"
      /\ dev'.status = dev.status /\ dev'.moved = dev.moved
  BY <1>1 DEF IInv, TypeOK, Devices
<1>3. Contract!Grows(CommandEffect, CommandEffect')
  BY <1>1, <1>2, DeviceProgressGrows
<1>4. CASE GiveUp("uncertain")
  BY <1>1, <1>3, <1>4, DoubtIsContractual
<1>5. CASE ~ GiveUp("uncertain")
  <2>1. pc' = Stage(cmd, got + CswLength) /\ result' = result
    BY <1>5 DEF CswReadAsData
  <2>2. pc' # "idle"
    BY <2>1 DEF Stage
  <2> QED  BY <1>1, <1>3, <2>1, <2>2, StageStepIsContractual
<1> QED  BY <1>4, <1>5

LEMMA DataOutIsContractual ==
    ASSUME IInv, DataOut
    PROVE  [Contract!Next]_(Contract!contractVars)
<1> DEFINE n == LesserOf(MaxChunk, cmd.out - got)
<1>1. /\ pc # "idle" /\ dev.at = "data" /\ dev' = DevTakes(n)
      /\ pc' = Stage(cmd, got + n) /\ UNCHANGED <<tag, cmd, result>>
  BY DEF DataOut
<1> HIDE DEF n
<1>2. dev'.tag = dev.tag
  BY <1>1 DEF DevTakes, IInv, TypeOK, Devices
<1>3. pc' # "idle"
  BY <1>1 DEF Stage
<1> QED  BY <1>1, <1>2, <1>3, DeviceProgressGrows, StageStepIsContractual

LEMMA CbwDeliveredIsContractual ==
    ASSUME IInv, CbwDelivered
    PROVE  [Contract!Next]_(Contract!contractVars)
<1>1. CommandEffect = "none"
  BY DEF IInv, BeforeCbw, CommandEffect, CommandReceived, CbwDelivered
<1>2. pc # "idle" /\ pc' # "idle" /\ UNCHANGED <<tag, cmd, result>>
  BY DEF CbwDelivered, Stage
<1> QED  BY <1>1, <1>2, StageStepIsContractual DEF Contract!Grows

LEMMA DeviceExecutesIsContractual ==
    ASSUME IInv, DeviceExecutes
    PROVE  [Contract!Next]_(Contract!contractVars)
<1>1. dev.at = "data" /\ UNCHANGED <<usable, tag, pc, cmd, result>> /\ dev'.tag = dev.tag
  BY DEF DeviceExecutes, IInv, TypeOK, Devices
<1>2. UNCHANGED <<SessionPhase, result>> /\ SessionPhase # "ready"
  BY <1>1 DEF SessionPhase, IInv, FramingInSync
<1> QED  BY <1>1, <1>2, DeviceProgressGrows, WorkIsContractual

\* Every step of the transport is a step of the contract, or a stutter.
THEOREM StepIsContractual ==
    IInv /\ [Next]_vars => [Contract!Next]_(Contract!contractVars)
<1> SUFFICES ASSUME IInv, [Next]_vars
             PROVE  [Contract!Next]_(Contract!contractVars)
  OBVIOUS
<1>1. ASSUME NEW c \in Commands, Start(c) PROVE [Contract!Next]_(Contract!contractVars)
  BY <1>1, StartIsContractual
<1>2. ASSUME NEW n \in AnyUnits, DataIn(n) \/ DataReadAsCsw(n)
      PROVE  [Contract!Next]_(Contract!contractVars)
  BY <1>2, UnitsAreNat, DataInIsContractual
<1>3. ASSUME NEW w \in {FaithfulWrapper} \cup DamagedWrappers, CswRead(w)
      PROVE  [Contract!Next]_(Contract!contractVars)
  BY <1>3, VerdictIsContractual
<1>4. CASE TransferFails \/ Cancel
  <2>1. pc # "idle" /\ dev' \in DevAfterLoss /\ UNCHANGED <<tag, cmd>>
        /\ (GiveUp("uncertain") \/ GiveUp("cancelled"))
    BY <1>4 DEF TransferFails, Cancel, GiveUp
  <2> QED  BY <2>1, LossGrows, DoubtIsContractual
<1>5. CASE CallRetired
  <2>1. SessionPhase = "retired" /\ SessionPhase' = "retired" /\ result' = "retired"
    BY <1>5 DEF CallRetired, SessionPhase
  <2>2. CommandEffect' = CommandEffect
    BY <1>5 DEF CallRetired, CommandEffect, CommandReceived, Length
  <2> QED  BY <2>1, <2>2 DEF Contract!Denied, Contract!Next
<1>6. CASE Reconnect
  <2>1. SessionPhase # "busy" /\ SessionPhase' = "ready" /\ result' = "none"
    BY <1>6 DEF Reconnect, SessionPhase
  <2>2. CommandEffect' = "none"
    BY <1>6 DEF Reconnect, CommandEffect, CommandReceived, DevIdle, NoTag
  <2> QED  BY <2>1, <2>2 DEF Contract!Reopen, Contract!Next
<1>7. CASE CbwDelivered
  BY <1>7, CbwDeliveredIsContractual
<1>8. CASE CswReadAsData
  BY <1>8, CswReadAsDataIsContractual
<1>9. CASE DataOut
  BY <1>9, DataOutIsContractual
<1>10. CASE DeviceExecutes
  BY <1>10, DeviceExecutesIsContractual
<1>11. CASE UNCHANGED vars
  <2>1. UNCHANGED <<SessionPhase, result, CommandEffect>>
    BY <1>11 DEF vars, SessionPhase, CommandEffect, CommandReceived, Length
  <2> QED  BY <2>1 DEF Contract!contractVars
<1> QED
  BY <1>1, <1>2, <1>3, <1>4, <1>5, <1>6, <1>7, <1>8, <1>9, <1>10, <1>11 DEF Next

\* The transport implements CommandContract for every value of the constants:
\* no effect while ready, an Ok only for a full effect, doubt retires
\* (Scsi::command, lib.rs:315-382).
THEOREM TransportMeetsContract == Spec => MeetsContract
<1>1. Init => Contract!Init
  BY DEF Init, Contract!Init, SessionPhase, CommandEffect, CommandReceived, DevIdle, NoTag
<1>2. IInv /\ [Next]_vars => [Contract!Next]_(Contract!contractVars)
  BY StepIsContractual
<1> QED
  BY <1>1, <1>2, InvariantHolds, PTL DEF Spec, MeetsContract, Contract!Spec
=============================================================================
