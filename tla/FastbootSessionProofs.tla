------------------------ MODULE FastbootSessionProofs ------------------------
(***************************************************************************)
(* A fastboot session that goes on is in step with its device, and a       *)
(* successful flash has written the whole image, for images of every       *)
(* length and a wire that holds any number of replies.                     *)
(***************************************************************************)
EXTENDS FastbootSession, SequenceTheorems, TLAPS

(***************************************************************************)
(* The inductive invariant.  A session is kept when it has read an OKAY or *)
(* a FAIL; what makes that safe is that such a reply is the last one the   *)
(* device owes, and that nothing is sent before it was read.               *)
(***************************************************************************)
SentIsAlone == out # "none" => wire = <<>> /\ dev \in {"idle", "taking"}

AnswerIsLast ==
    \A i \in 1 .. Len(wire) :
        wire[i] \in {"OKAY", "FAIL"} => i = Len(wire) /\ dev = "idle" /\ out = "none"

\* The device has the whole image and answers for it.
Delivered ==
    /\ out = "none" /\ buffer = "whole"
    /\ \/ dev = "taken" /\ wire = <<>>
       \/ dev = "idle" /\ wire \in {<<"OKAY">>, <<"FAIL">>}

\* flash() stage by stage: the blocks not yet handed over are those the device
\* still takes.
DownloadStage ==
    stage = "download" =>
        /\ left = Blocks
        /\ \/ out = "download" /\ dev = "idle" /\ wire = <<>>
           \/ out = "none" /\ dev = "download" /\ wire = <<>>
           \/ /\ out = "none" /\ dev = "taking" /\ wire = <<"DATA">>
              /\ room = Blocks /\ buffer = "part"
           \/ out = "none" /\ dev = "idle" /\ wire \in {<<"FAIL">>, <<"junk">>}
ImageStage ==
    stage = "image" =>
        \/ /\ dev = "taking" /\ wire = <<>> /\ buffer = "part"
           /\ \/ out = "none" /\ room = left
              \/ out = "block" /\ room = left + 1
        \/ left = 0 /\ Delivered
WholeStage == stage = "whole" => Delivered
FlashStage ==
    stage = "flash" =>
        \/ out = "flash" /\ dev = "idle" /\ wire = <<>> /\ buffer = "whole"
        \/ out = "none" /\ dev = "flash" /\ wire = <<>> /\ buffer = "whole"
        \/ out = "none" /\ dev = "idle" /\ wire = <<"OKAY">> /\ medium = "whole"
        \/ /\ out = "none" /\ dev \in {"idle", "taking"}
           /\ wire \in {<<"FAIL">>, <<"junk">>, <<"DATA">>}

InStep ==
    (sound /\ opened /\ stage \in Calls) =>
        /\ SentIsAlone /\ AnswerIsLast
        /\ DownloadStage /\ ImageStage /\ WholeStage /\ FlashStage

RoomWhileTaking == dev = "taking" => room > 0

\* A session opens over a closed device with no packet on its way.
ClosedIsSilent == (stage \in {"none", "opening"} /\ ~ opened) => out = "none"

IInv ==
    /\ TypeOK
    /\ RoomWhileTaking
    /\ ClosedIsSilent
    /\ KeptMeansFramed
    /\ InStep

USE BoundsAssumption

-----------------------------------------------------------------------------
LEMMA InitEstablishes == Init => IInv
<1> SUFFICES ASSUME Init PROVE IInv
  OBVIOUS
<1>1. client \in BOOLEAN /\ opened \in BOOLEAN /\ sound \in BOOLEAN /\ ~ opened /\ ~ client
  BY Zenon DEF Init
<1>2. TypeOK
  BY <1>1 DEF Init, TypeOK, Rest, Calls, Packets
<1> QED
  BY <1>1, <1>2 DEF Init, IInv, RoomWhileTaking, ClosedIsSilent, KeptMeansFramed, InStep

(***************************************************************************)
(* Types.                                                                  *)
(***************************************************************************)
LEMMA FlagsStayBoolean ==
    ASSUME TypeOK, Next
    PROVE  client' \in BOOLEAN /\ opened' \in BOOLEAN /\ sound' \in BOOLEAN
<1> USE DEF TypeOK
<1>1. CASE Open \/ Close \/ Refuse \/ Doubt
  BY <1>1, Zenon DEF Open, Close, Refuse, Doubt, Retire, session, link
<1>2. CASE OpenSucceeds
  BY <1>2 DEF OpenSucceeds
<1>3. CASE OpenFails
  BY <1>3, Zenon DEF OpenFails, Retire
<1>4. CASE \E clean \in BOOLEAN : CloseEnds(clean)
  BY <1>4, Zenon DEF CloseEnds
<1>5. CASE Serve
  BY <1>5, Zenon DEF Serve, Begin, TakeClient
<1>6. CASE Progress
  BY <1>6, Zenon DEF Progress, Advance, Send, Keep
<1>7. CASE NextBlock \/ Failed \/ Unexpected
  BY <1>7, Zenon DEF NextBlock, Failed, Unexpected, Retire, Keep
<1>8. CASE Take \/ Obey \/ Balk \/ Ramble \/ Disconnect
  BY <1>8, Zenon DEF Take, Obey, Balk, Ramble, Disconnect, session
<1> QED  BY <1>1, <1>2, <1>3, <1>4, <1>5, <1>6, <1>7, <1>8 DEF Next

LEMMA HostKeepsTypes ==
    ASSUME TypeOK,
           Open \/ OpenSucceeds \/ OpenFails \/ Close \/ (\E clean \in BOOLEAN : CloseEnds(clean))
             \/ Refuse \/ Doubt \/ Serve
    PROVE  TypeOK'
<1>0. client' \in BOOLEAN /\ opened' \in BOOLEAN /\ sound' \in BOOLEAN
  BY FlagsStayBoolean DEF Next
<1> USE DEF TypeOK, Rest, Calls, OneReply, Flashing, Packets
<1>1. CASE Open \/ OpenSucceeds \/ OpenFails \/ Close
  <2>1. CASE Open
    BY <1>0, <2>1 DEF Open, link, device
  <2>2. CASE OpenSucceeds
    BY <1>0, <2>2 DEF OpenSucceeds, device
  <2>3. CASE OpenFails
    BY <1>0, <2>3 DEF OpenFails, Retire, device
  <2>4. CASE Close
    BY <1>0, <2>4 DEF Close, link, device
  <2> QED  BY <1>1, <2>1, <2>2, <2>3, <2>4
<1>2. CASE \E clean \in BOOLEAN : CloseEnds(clean)
  BY <1>0, <1>2 DEF CloseEnds, device
<1>3. CASE Refuse \/ Doubt
  BY <1>0, <1>3 DEF Refuse, Doubt, Retire, link, device
<1>4. CASE Serve
  BY <1>0, <1>4 DEF Serve, Begin, TakeClient, Send
<1> QED  BY <1>1, <1>2, <1>3, <1>4

LEMMA ReadingKeepsTypes ==
    ASSUME TypeOK, Progress \/ NextBlock \/ Failed \/ Unexpected
    PROVE  TypeOK'
<1>0. client' \in BOOLEAN /\ opened' \in BOOLEAN /\ sound' \in BOOLEAN
  BY FlagsStayBoolean DEF Next
<1> USE DEF TypeOK, Rest, Calls, OneReply, Flashing, Packets
<1>1. CASE Progress
  <2>1. wire' \in Seq({"OKAY", "FAIL", "DATA", "bytes", "junk"}) /\ Len(wire') <= MaxWire
    BY <1>0, <1>1 DEF Progress, Read
  <2>2. CASE stage \in {"fetch", "bytes", "download"}
    BY <1>0, <1>1, <2>1, <2>2 DEF Progress, Advance, device
  <2>3. CASE stage = "whole"
    BY <1>0, <1>1, <2>1, <2>3 DEF Progress, Advance, Send, device
  <2>4. CASE stage \in {"hashvar", "hash"}
    BY <1>0, <1>1, <2>1, <2>4 DEF Progress, Advance, Send, Keep, device
  <2>5. CASE stage \in {"getvar", "command", "fetched", "flash"}
    BY <1>0, <1>1, <2>1, <2>5 DEF Progress, Advance, Keep, device
  <2> QED  BY <1>0, <1>1, <2>2, <2>3, <2>4, <2>5 DEF Progress, Read
<1>2. CASE NextBlock
  BY <1>0, <1>2 DEF NextBlock, Send, device
<1>3. CASE Failed \/ Unexpected
  <2>1. wire' \in Seq({"OKAY", "FAIL", "DATA", "bytes", "junk"}) /\ Len(wire') <= MaxWire
    BY <1>0, <1>3 DEF Failed, Unexpected, Read
  <2> QED  BY <1>0, <1>3, <2>1 DEF Failed, Unexpected, Retire, Keep, device
<1> QED  BY <1>1, <1>2, <1>3

LEMMA DeviceKeepsTypes ==
    ASSUME TypeOK, RoomWhileTaking, Take \/ Obey \/ Balk \/ Ramble \/ Disconnect
    PROVE  TypeOK' /\ RoomWhileTaking'
<1> USE DEF TypeOK, RoomWhileTaking, Rest, Calls, OneReply, Flashing, Packets
<1>1. CASE Take
  BY <1>1 DEF Take, session
<1>2. ASSUME NEW reply \in {"OKAY", "FAIL", "DATA", "bytes", "junk"}, NEW next, Say(reply, next)
      PROVE  wire' \in Seq({"OKAY", "FAIL", "DATA", "bytes", "junk"}) /\ Len(wire') <= MaxWire
  BY <1>2 DEF Say
<1>3. CASE Obey
  BY <1>2, <1>3 DEF Obey, Say, session
<1>4. CASE Balk
  BY <1>2, <1>4 DEF Balk, Say, session
<1>5. CASE Ramble
  BY <1>2, <1>5 DEF Ramble, Say, session
<1>6. CASE Disconnect
  <2>1. client' \in BOOLEAN /\ opened' \in BOOLEAN /\ sound' \in BOOLEAN
    BY <1>6, FlagsStayBoolean DEF Next
  <2> QED  BY <1>6, <2>1 DEF Disconnect, session
<1> QED  BY <1>1, <1>3, <1>4, <1>5, <1>6

LEMMA StepKeepsTypes ==
    ASSUME TypeOK, RoomWhileTaking, Next
    PROVE  TypeOK' /\ RoomWhileTaking'
<1>1. CASE Take \/ Obey \/ Balk \/ Ramble \/ Disconnect
  BY <1>1, DeviceKeepsTypes
<1>2. CASE Open \/ OpenSucceeds \/ OpenFails \/ Close \/ (\E clean \in BOOLEAN : CloseEnds(clean))
             \/ Refuse \/ Doubt \/ Serve
  <2>1. UNCHANGED <<dev, room>>
    BY <1>2 DEF Open, OpenSucceeds, OpenFails, Close, CloseEnds, Refuse, Doubt, Serve, Begin,
                device
  <2> QED  BY <1>2, <2>1, HostKeepsTypes DEF RoomWhileTaking
<1>3. CASE Progress \/ NextBlock \/ Failed \/ Unexpected
  <2>1. UNCHANGED <<dev, room>>
    BY <1>3 DEF Progress, NextBlock, Failed, Unexpected, device
  <2> QED  BY <1>3, <2>1, ReadingKeepsTypes DEF RoomWhileTaking
<1> QED  BY <1>1, <1>2, <1>3 DEF Next

-----------------------------------------------------------------------------
(***************************************************************************)
(* Framing.  First the steps that end a call, or begin and end a session.  *)
(***************************************************************************)
Framing == ClosedIsSilent /\ KeptMeansFramed /\ InStep

LEMMA OutsideCallsPreserve ==
    ASSUME IInv, TypeOK', stage' \notin Calls,
           \/ Open \/ OpenSucceeds \/ OpenFails \/ Close \/ Refuse \/ Doubt
           \/ \E clean \in BOOLEAN : CloseEnds(clean)
    PROVE  Framing'
<1>1. InStep'
  BY DEF InStep
<1>2. CASE Open
  BY <1>1, <1>2 DEF Open, IInv, TypeOK, Framing, ClosedIsSilent, KeptMeansFramed, link, device
<1>3. CASE OpenSucceeds
  BY <1>1, <1>3 DEF OpenSucceeds, IInv, TypeOK, Framing, ClosedIsSilent, KeptMeansFramed, device
<1>4. CASE OpenFails \/ Close \/ Doubt
  <2>1. stage' = "closing" /\ ~ client'
    BY <1>4, Zenon DEF OpenFails, Close, Doubt, Retire
  <2> QED  BY <1>1, <2>1 DEF Framing, ClosedIsSilent, KeptMeansFramed
<1>5. CASE Refuse
  BY <1>1, <1>5 DEF Refuse, IInv, Framing, ClosedIsSilent, KeptMeansFramed, link, device
<1>6. ASSUME NEW clean \in BOOLEAN, CloseEnds(clean) PROVE Framing'
  <2>1. stage' = "none" /\ (~ opened' => out' = "none")
    BY <1>6 DEF CloseEnds
  <2>2. ~ client'
    BY <2>1 DEF TypeOK
  <2> QED  BY <1>1, <2>1, <2>2 DEF Framing, ClosedIsSilent, KeptMeansFramed
<1> QED  BY <1>2, <1>3, <1>4, <1>5, <1>6

LEMMA BeginPreserves ==
    ASSUME IInv, TypeOK', Serve
    PROVE  Framing'
<1>1. PICK call \in {"getvar", "command", "fetch", "hashvar", "download"} : Begin(call)
  BY DEF Serve
<1>2. /\ stage' = call /\ out' = call /\ stage = "ready"
      /\ UNCHANGED <<opened, sound, wire, dev, room>>
      /\ call = "download" => left' = Blocks
  BY <1>1 DEF Begin, Send
<1>3. ~ client' /\ client
  BY <1>2 DEF TypeOK, IInv
<1>4. sound /\ opened => dev = "idle" /\ wire = <<>>
  BY <1>3 DEF IInv, KeptMeansFramed
<1>5. InStep'
  BY <1>2, <1>4 DEF InStep, SentIsAlone, AnswerIsLast, DownloadStage, ImageStage, WholeStage,
                    FlashStage
<1> QED  BY <1>2, <1>3, <1>5 DEF Framing, ClosedIsSilent, KeptMeansFramed

-----------------------------------------------------------------------------
(***************************************************************************)
(* Reading.  An OKAY or a FAIL that is read was the last reply, so the     *)
(* wire is empty and the device idle afterwards.                           *)
(***************************************************************************)
LEMMA AnswerEmptiesTheWire ==
    ASSUME IInv, sound, Read, Reply \in {"OKAY", "FAIL"}
    PROVE  Tail(wire) = <<>> /\ dev = "idle" /\ out = "none"
<1>0. AnswerIsLast
  BY DEF IInv, InStep, Read
<1>1. wire # <<>> /\ wire \in Seq({"OKAY", "FAIL", "DATA", "bytes", "junk"})
  BY DEF IInv, TypeOK, Read
<1>2. 1 \in 1 .. Len(wire) /\ wire[1] = Reply
  BY <1>1 DEF Reply
<1>3. Len(wire) = 1 /\ dev = "idle" /\ out = "none"
  BY <1>0, <1>1, <1>2 DEF AnswerIsLast
<1>4. Tail(wire) \in Seq({"OKAY", "FAIL", "DATA", "bytes", "junk"}) /\ Len(Tail(wire)) = 0
  BY <1>1, <1>3, HeadTailProperties
<1>5. Tail(wire) = <<>>
  BY <1>4, EmptySeq
<1> QED  BY <1>3, <1>5

LEMMA TailKeepsAnswerLast ==
    ASSUME IInv, sound, Read, wire' = Tail(wire), UNCHANGED <<dev, out>>
    PROVE  AnswerIsLast'
<1>0. AnswerIsLast
  BY DEF IInv, InStep, Read
<1>1. wire # <<>> /\ wire \in Seq({"OKAY", "FAIL", "DATA", "bytes", "junk"})
  BY DEF IInv, TypeOK, Read
<1>2. Len(wire') = Len(wire) - 1 /\ \A i \in 1 .. Len(wire') : wire'[i] = wire[i + 1]
  BY <1>1, HeadTailProperties
<1> SUFFICES ASSUME NEW i \in 1 .. Len(wire'), wire'[i] \in {"OKAY", "FAIL"}
             PROVE  i = Len(wire') /\ dev' = "idle" /\ out' = "none"
  BY DEF AnswerIsLast
<1>3. i + 1 \in 1 .. Len(wire) /\ wire[i + 1] \in {"OKAY", "FAIL"}
  BY <1>1, <1>2
<1>4. i + 1 = Len(wire) /\ dev = "idle" /\ out = "none"
  BY <1>0, <1>3 DEF AnswerIsLast
<1>5. Len(wire) \in Nat
  BY <1>1, LenProperties
<1>6. i = Len(wire')
  BY <1>2, <1>4, <1>5
<1> QED  BY <1>4, <1>6

\* A call that keeps the session, with the answer it has just read.
LEMMA KeepPreserves ==
    ASSUME IInv, Read, Reply \in {"OKAY", "FAIL"}, wire' = Tail(wire),
           NEW verdict, Keep(verdict), UNCHANGED <<opened, sound, dev>>
    PROVE  Framing'
<1>1. stage' = "ready" /\ out' = out
  BY DEF Keep
<1>2. KeptMeansFramed'
  BY <1>1, AnswerEmptiesTheWire DEF KeptMeansFramed
<1> QED
  BY <1>1, <1>2 DEF Framing, ClosedIsSilent, InStep, Calls, OneReply, Flashing

LEMMA RetirePreserves ==
    ASSUME IInv, Retire
    PROVE  Framing'
<1>1. stage' = "closing" /\ ~ client'
  BY Zenon DEF Retire
<1> QED
  BY <1>1 DEF Framing, ClosedIsSilent, KeptMeansFramed, InStep, Calls, OneReply, Flashing

LEMMA FailedPreserves ==
    ASSUME IInv, Failed \/ Unexpected
    PROVE  Framing'
<1>1. CASE Failed /\ stage \notin Flashing
  BY <1>1, KeepPreserves DEF Failed, device
<1>2. CASE Unexpected \/ (Failed /\ stage \in Flashing)
  BY <1>2, RetirePreserves DEF Failed, Unexpected
<1> QED  BY <1>1, <1>2

LEMMA ProgressPreserves ==
    ASSUME IInv, TypeOK', Progress
    PROVE  Framing'
<1>1. /\ Read /\ Reply = Awaits /\ wire' = Tail(wire) /\ Advance
      /\ UNCHANGED <<left, opened, sound, dev, room, buffer, medium>>
  BY DEF Progress, device
<1>2. CASE stage \in {"getvar", "command", "fetched", "flash"}
  BY <1>1, <1>2, KeepPreserves DEF Advance, Awaits
<1>3. CASE stage = "hash"
  BY <1>1, <1>3, KeepPreserves DEF Advance, Awaits
<1>4. CASE stage = "hashvar"
  <2>1. CASE Keep("invalid")
    BY <1>1, <1>4, <2>1, KeepPreserves DEF Awaits
  <2>2. CASE stage' = "hash"
    <3>1. sound => wire' = <<>> /\ dev' = "idle"
      BY <1>1, <1>4, AnswerEmptiesTheWire DEF Awaits
    <3>2. ~ client'
      BY <2>2 DEF TypeOK
    <3>3. InStep'
      BY <1>1, <2>2, <3>1 DEF InStep, SentIsAlone, AnswerIsLast, DownloadStage, ImageStage,
                              WholeStage, FlashStage
    <3> QED  BY <2>2, <3>2, <3>3 DEF Framing, ClosedIsSilent, KeptMeansFramed
  <2> QED  BY <1>1, <1>4, <2>1, <2>2 DEF Advance, Send
<1>5. CASE stage = "whole"
  <2>1. stage' = "flash" /\ out' = "flash"
    BY <1>1, <1>5 DEF Advance, Send
  <2>2. sound => wire' = <<>> /\ dev' = "idle"
    BY <1>1, <1>5, AnswerEmptiesTheWire DEF Awaits
  <2>3. sound => buffer' = "whole"
    BY <1>1, <1>5 DEF IInv, InStep, WholeStage, Delivered, Read
  <2>4. ~ client'
    BY <2>1 DEF TypeOK
  <2>5. sound => FlashStage'
    BY <2>1, <2>2, <2>3 DEF FlashStage
  <2>6. sound => SentIsAlone' /\ AnswerIsLast'
    BY <2>1, <2>2 DEF SentIsAlone, AnswerIsLast
  <2>7. DownloadStage' /\ ImageStage' /\ WholeStage'
    BY <2>1 DEF DownloadStage, ImageStage, WholeStage
  <2>8. InStep'
    BY <1>1, <2>5, <2>6, <2>7 DEF InStep
  <2> QED  BY <2>1, <2>4, <2>8 DEF Framing, ClosedIsSilent, KeptMeansFramed
<1>6. CASE stage = "download"
  <2>1. stage' = "image" /\ out' = out
    BY <1>1, <1>6 DEF Advance
  <2>2. sound => /\ wire = <<"DATA">> /\ out = "none" /\ dev = "taking"
                 /\ room = left /\ buffer = "part"
    BY <1>1, <1>6 DEF IInv, InStep, DownloadStage, Read, Reply, Awaits
  <2>3. sound => wire' = <<>>
    BY <1>1, <2>2
  <2>4. ~ client'
    BY <2>1 DEF TypeOK
  <2>5. InStep'
    BY <1>1, <2>1, <2>2, <2>3 DEF InStep, SentIsAlone, AnswerIsLast, DownloadStage, ImageStage,
                            WholeStage, FlashStage
  <2> QED  BY <2>1, <2>4, <2>5 DEF Framing, ClosedIsSilent, KeptMeansFramed
<1>7. CASE stage \in {"fetch", "bytes"}
  <2>1. stage' \in {"bytes", "fetched"} /\ out' = out /\ out = "none"
    BY <1>1, <1>7 DEF Advance, Read
  <2>2. sound => AnswerIsLast'
    BY <1>1, <2>1, TailKeepsAnswerLast
  <2>3. ~ client'
    BY <2>1 DEF TypeOK
  <2>4. InStep'
    BY <1>1, <2>1, <2>2 DEF InStep, SentIsAlone, DownloadStage, ImageStage,
                            WholeStage, FlashStage
  <2> QED  BY <2>1, <2>3, <2>4 DEF Framing, ClosedIsSilent, KeptMeansFramed
<1> QED
  BY <1>1, <1>2, <1>3, <1>4, <1>5, <1>6, <1>7 DEF Read, Calls, OneReply, Flashing

LEMMA NextBlockPreserves ==
    ASSUME IInv, TypeOK', NextBlock
    PROVE  Framing'
<1>1. /\ stage = "image" /\ opened /\ out = "none"
      /\ UNCHANGED <<opened, sound, wire, dev, room, buffer, medium>>
  BY DEF NextBlock, device
<1>2. left \in 0 .. Blocks
  BY DEF IInv, TypeOK
<1>3. sound => ImageStage
  BY <1>1 DEF IInv, InStep, Calls, Flashing
<1>4. CASE left > 0
  <2>1. stage' = "image" /\ out' = "block" /\ left' = left - 1
    BY <1>4 DEF NextBlock, Send
  <2>2. sound => dev = "taking" /\ wire = <<>> /\ buffer = "part" /\ room = left
    BY <1>1, <1>3, <1>4 DEF ImageStage
  <2>3. InStep'
    BY <1>1, <1>2, <2>1, <2>2 DEF InStep, SentIsAlone, AnswerIsLast, DownloadStage, ImageStage,
                            WholeStage, FlashStage
  <2>4. ~ client'
    BY <2>1 DEF TypeOK
  <2> QED  BY <2>1, <2>3, <2>4 DEF Framing, ClosedIsSilent, KeptMeansFramed
<1>5. CASE ~ (left > 0)
  <2>1. stage' = "whole" /\ out' = out
    BY <1>5 DEF NextBlock
  <2>2. sound => Delivered /\ SentIsAlone /\ AnswerIsLast
    BY <1>1, <1>2, <1>3, <1>5 DEF ImageStage, IInv, InStep, RoomWhileTaking, Calls, Flashing
  <2>3. InStep'
    BY <1>1, <2>1, <2>2 DEF InStep, SentIsAlone, AnswerIsLast, DownloadStage, ImageStage,
                            WholeStage, FlashStage, Delivered
  <2>4. ~ client'
    BY <2>1 DEF TypeOK
  <2> QED  BY <2>1, <2>3, <2>4 DEF Framing, ClosedIsSilent, KeptMeansFramed
<1> QED  BY <1>4, <1>5

-----------------------------------------------------------------------------
(***************************************************************************)
(* The device.                                                             *)
(***************************************************************************)
Replies == {"OKAY", "FAIL", "DATA", "bytes", "junk"}

LEMMA SayKeepsAnswerLast ==
    ASSUME NEW reply \in Replies, NEW next, Say(reply, next),
           wire \in Seq(Replies), AnswerIsLast, dev # "idle", out' = "none",
           reply \in {"OKAY", "FAIL"} => next = "idle"
    PROVE  AnswerIsLast'
<1>1. wire' = Append(wire, reply) /\ dev' = next
  BY DEF Say
<1>2. /\ Len(wire) \in Nat /\ Len(wire') = Len(wire) + 1
      /\ \A i \in 1 .. Len(wire) : wire'[i] = wire[i]
      /\ wire'[Len(wire) + 1] = reply
  BY <1>1, AppendProperties, LenProperties
<1> SUFFICES ASSUME NEW i \in 1 .. Len(wire'), wire'[i] \in {"OKAY", "FAIL"}
             PROVE  i = Len(wire') /\ dev' = "idle" /\ out' = "none"
  BY DEF AnswerIsLast
<1>3. CASE i \in 1 .. Len(wire)
  BY <1>2, <1>3 DEF AnswerIsLast
<1>4. CASE i = Len(wire) + 1
  BY <1>1, <1>2, <1>4
<1> QED  BY <1>2, <1>3, <1>4

LEMMA SayOnEmptyWire ==
    ASSUME NEW reply, NEW next, Say(reply, next), wire = <<>>
    PROVE  wire' = <<reply>> /\ dev' = next
BY DEF Say

\* A device that answers is busy, so nothing is on its way to it and no session
\* is kept.
LEMMA BusyDevice ==
    ASSUME IInv, sound, opened, dev \notin {"idle", "taking"}
    PROVE  /\ ~ client
           /\ stage \in Calls => out = "none" /\ AnswerIsLast /\ DownloadStage /\ ImageStage
                                 /\ WholeStage /\ FlashStage
<1>1. ~ client
  BY DEF IInv, KeptMeansFramed
<1>2. stage \in Calls => SentIsAlone /\ AnswerIsLast /\ DownloadStage /\ ImageStage
                         /\ WholeStage /\ FlashStage
  BY DEF IInv, InStep
<1> QED  BY <1>1, <1>2 DEF SentIsAlone

LEMMA TakePreserves ==
    ASSUME IInv, Take
    PROVE  Framing'
<1>1. /\ opened /\ out # "none" /\ out' = "none"
      /\ UNCHANGED <<stage, client, left, result, opened, sound, wire, medium>>
  BY DEF Take, session
<1>2. ClosedIsSilent' /\ KeptMeansFramed'
  BY <1>1 DEF IInv, ClosedIsSilent, KeptMeansFramed
<1>3. ASSUME sound, stage \in Calls
      PROVE  SentIsAlone' /\ AnswerIsLast' /\ DownloadStage' /\ ImageStage' /\ WholeStage'
             /\ FlashStage'
  <2>1. wire = <<>> /\ DownloadStage /\ ImageStage /\ WholeStage /\ FlashStage
    BY <1>1, <1>3 DEF IInv, InStep, SentIsAlone
  <2>2. SentIsAlone' /\ AnswerIsLast'
    BY <1>1, <2>1 DEF SentIsAlone, AnswerIsLast
  <2>3. DownloadStage'
    BY <1>1, <2>1 DEF Take, DownloadStage
  <2>4. ImageStage'
    BY <1>1, <2>1 DEF Take, ImageStage, Delivered, IInv, TypeOK
  <2>5. WholeStage'
    BY <1>1, <2>1 DEF WholeStage, Delivered
  <2>6. FlashStage'
    BY <1>1, <2>1 DEF Take, FlashStage
  <2> QED  BY <2>2, <2>3, <2>4, <2>5, <2>6
<1>4. InStep'
  BY <1>1, <1>3 DEF InStep
<1> QED  BY <1>2, <1>4 DEF Framing

LEMMA SayingPreserves ==
    ASSUME IInv, Obey \/ Balk \/ Ramble
    PROVE  Framing'
<1>1. /\ dev \notin {"idle", "taking"}
      /\ UNCHANGED <<stage, client, left, result, opened, sound, out>>
  BY DEF Obey, Balk, Ramble, session, Calls, OneReply, Flashing
<1>2. PICK reply \in Replies, next \in {"idle", "bytes", "fetched", "taking"} :
         Say(reply, next) /\ (reply \in {"OKAY", "FAIL"} => next = "idle")
  BY DEF Obey, Balk, Ramble, Replies
<1>3. ClosedIsSilent' /\ KeptMeansFramed'
  BY <1>1, BusyDevice DEF IInv, ClosedIsSilent, KeptMeansFramed
<1>4. ASSUME sound, opened, stage \in Calls
      PROVE  SentIsAlone' /\ AnswerIsLast' /\ DownloadStage' /\ ImageStage' /\ WholeStage'
             /\ FlashStage'
  <2>1. out = "none" /\ AnswerIsLast /\ DownloadStage /\ ImageStage /\ WholeStage /\ FlashStage
    BY <1>1, <1>4, BusyDevice
  <2>2. SentIsAlone' /\ AnswerIsLast'
    <3>1. wire \in Seq(Replies)
      BY DEF IInv, TypeOK, Replies
    <3> QED  BY <1>1, <1>2, <2>1, <3>1, SayKeepsAnswerLast DEF SentIsAlone
  <2>3. DownloadStage'
    <3> SUFFICES ASSUME stage = "download" PROVE DownloadStage'
      BY <1>1 DEF DownloadStage
    <3>1. left = Blocks /\ dev = "download" /\ wire = <<>>
      BY <1>1, <2>1 DEF DownloadStage
    <3>2. \/ Say("DATA", "taking") /\ room' = Blocks /\ buffer' = "part"
          \/ Say("FAIL", "idle") \/ Say("junk", "idle")
      BY <3>1 DEF Obey, Balk, Ramble, OneReply
    <3> QED  BY <1>1, <2>1, <3>1, <3>2, SayOnEmptyWire DEF DownloadStage
  <2>4. ImageStage' /\ WholeStage'
    <3> SUFFICES ASSUME stage \in {"image", "whole"} PROVE ImageStage' /\ WholeStage'
      BY <1>1 DEF ImageStage, WholeStage
    <3>1. dev = "taken" /\ wire = <<>> /\ buffer = "whole" /\ (stage = "image" => left = 0)
      BY <1>1, <2>1 DEF ImageStage, WholeStage, Delivered
    <3>2. (Say("OKAY", "idle") \/ Say("FAIL", "idle")) /\ buffer' = buffer
      BY <3>1 DEF Obey, Balk, Ramble, OneReply, Calls, Flashing
    <3>3. Delivered'
      BY <1>1, <2>1, <3>1, <3>2, SayOnEmptyWire DEF Delivered
    <3> QED  BY <1>1, <3>1, <3>3 DEF ImageStage, WholeStage
  <2>5. FlashStage'
    <3> SUFFICES ASSUME stage = "flash" PROVE FlashStage'
      BY <1>1 DEF FlashStage
    <3>1. dev = "flash" /\ wire = <<>> /\ buffer = "whole"
      BY <1>1, <2>1 DEF FlashStage
    <3>2. \/ Say("OKAY", "idle") /\ medium' = buffer
          \/ Say("FAIL", "idle") \/ Say("junk", "idle") \/ Say("DATA", "taking")
      BY <3>1 DEF Obey, Balk, Ramble, OneReply
    <3> QED  BY <1>1, <2>1, <3>1, <3>2, SayOnEmptyWire DEF FlashStage
  <2> QED  BY <2>2, <2>3, <2>4, <2>5
<1>5. InStep'
  BY <1>1, <1>4 DEF InStep
<1> QED  BY <1>3, <1>5 DEF Framing

LEMMA DisconnectPreserves ==
    ASSUME IInv, Disconnect
    PROVE  Framing'
<1>1. ~ opened' /\ out' = "none"
  BY Zenon DEF Disconnect
<1> QED  BY <1>1 DEF Framing, ClosedIsSilent, KeptMeansFramed, InStep

-----------------------------------------------------------------------------
LEMMA StepPreserves == IInv /\ [Next]_vars => IInv'
<1> SUFFICES ASSUME IInv, [Next]_vars PROVE IInv'
  OBVIOUS
<1>1. CASE UNCHANGED vars
  BY <1>1 DEF vars, session, link, device, IInv, TypeOK, RoomWhileTaking, ClosedIsSilent,
              KeptMeansFramed, InStep, SentIsAlone, AnswerIsLast, DownloadStage, ImageStage,
              WholeStage, FlashStage, Delivered
<1>2. CASE Next
  <2>1. TypeOK' /\ RoomWhileTaking'
    BY <1>2, StepKeepsTypes DEF IInv
  <2>2. CASE Open \/ OpenSucceeds \/ OpenFails \/ Close \/ Doubt
               \/ \E clean \in BOOLEAN : CloseEnds(clean)
    <3>1. stage' \notin Calls
      BY <2>2, Zenon DEF Open, OpenSucceeds, OpenFails, Close, Doubt, CloseEnds, Retire, Calls,
                         OneReply, Flashing
    <3> QED  BY <2>1, <2>2, <3>1, OutsideCallsPreserve DEF IInv, Framing
  <2>3. CASE Refuse
    <3>1. stage' \notin Calls
      BY <2>3 DEF Refuse, Rest, Calls, OneReply, Flashing
    <3> QED  BY <2>1, <2>3, <3>1, OutsideCallsPreserve DEF IInv, Framing
  <2>4. CASE Serve
    BY <2>1, <2>4, BeginPreserves DEF IInv, Framing
  <2>5. CASE Progress
    BY <2>1, <2>5, ProgressPreserves DEF IInv, Framing
  <2>6. CASE NextBlock
    BY <2>1, <2>6, NextBlockPreserves DEF IInv, Framing
  <2>7. CASE Failed \/ Unexpected
    BY <2>1, <2>7, FailedPreserves DEF IInv, Framing
  <2>8. CASE Take
    BY <2>1, <2>8, TakePreserves DEF IInv, Framing
  <2>9. CASE Obey \/ Balk \/ Ramble
    BY <2>1, <2>9, SayingPreserves DEF IInv, Framing
  <2>10. CASE Disconnect
    BY <2>1, <2>10, DisconnectPreserves DEF IInv, Framing
  <2> QED
    BY <1>2, <2>2, <2>3, <2>4, <2>5, <2>6, <2>7, <2>8, <2>9, <2>10 DEF Next
<1> QED  BY <1>1, <1>2

\* The inductive invariant holds in every reachable state.
THEOREM InvariantHolds == Spec => []IInv
  BY InitEstablishes, StepPreserves, PTL DEF Spec

\* Type correctness of the session, the wire and the device.
THEOREM TypeCorrect == Spec => []TypeOK
<1>1. IInv => TypeOK
  BY DEF IInv
<1> QED  BY <1>1, InvariantHolds, PTL

\* A session that is kept, after an OKAY or a complete FAIL, has an idle device
\* that owes no reply: finish() puts the client back in no other case
\* (canoe-usb-web/src/lib.rs:198-229).
THEOREM KeptSessionIsFramed == Spec => []KeptMeansFramed
<1>1. IInv => KeptMeansFramed
  BY DEF IInv
<1> QED  BY <1>1, InvariantHolds, PTL

\* flash() succeeds only when the partition holds the whole image this call
\* downloaded, however many blocks it takes (canoe-usb-web/src/lib.rs:131-147).
THEOREM FlashIsTrue == Spec => FlashOkMeansWritten
<1>1. ASSUME IInv, [Next]_vars, sound, stage = "flash", stage' = "ready"
      PROVE  medium = "whole"
  <2>1. Progress
    BY <1>1 DEF Next, vars, session, Open, OpenSucceeds, OpenFails, Close, CloseEnds, Serve,
                Begin, Refuse, Rest, NextBlock, Failed, Unexpected, Doubt, Retire, Flashing,
                Take, Obey, Balk, Ramble, Disconnect, link, device
  <2>2. Read /\ Reply = "OKAY"
    BY <1>1, <2>1 DEF Progress, Awaits
  <2>3. FlashStage /\ wire[1] = "OKAY" /\ out = "none"
    BY <1>1, <2>2 DEF IInv, InStep, Read, Reply
  <2>4. dev = "idle"
    BY <1>1, <2>2, AnswerEmptiesTheWire
  <2> QED  BY <1>1, <2>3, <2>4 DEF FlashStage
<1>2. IInv /\ [Next]_vars
        => [(sound /\ stage = "flash" /\ stage' = "ready") => medium = "whole"]_vars
  BY <1>1
<1> QED  BY <1>2, InvariantHolds, PTL DEF Spec, FlashOkMeansWritten

-----------------------------------------------------------------------------
\* A closing that ends without trouble is the only way to such an error, and
\* nothing opens the device again before the next call.
LEMMA DoubtPreserved ==
    TypeOK /\ TypeOK' /\ DoubtClosesTheDevice /\ [Next]_vars => DoubtClosesTheDevice'
<1> SUFFICES ASSUME TypeOK, TypeOK', DoubtClosesTheDevice, [Next]_vars,
                    stage' = "none", result' = "error"
             PROVE  ~ opened' /\ out' = "none"
  BY DEF DoubtClosesTheDevice, TypeOK
<1>1. ASSUME NEW clean \in BOOLEAN, CloseEnds(clean)
      PROVE  ~ opened' /\ out' = "none"
  <2>1. clean
    BY <1>1 DEF CloseEnds
  <2>2. ~ opened'
    BY <1>1, <2>1, Zenon DEF CloseEnds
  <2> QED  BY <1>1, <2>2 DEF CloseEnds
<1>2. CASE UNCHANGED vars \/ Take \/ Obey \/ Balk \/ Ramble
  <2>1. ~ opened /\ out = "none" /\ UNCHANGED <<opened, out>>
    BY <1>2 DEF DoubtClosesTheDevice, vars, session, link, Take, Obey, Balk, Ramble
  <2> QED  BY <2>1
<1>3. CASE Disconnect
  BY <1>3, Zenon DEF Disconnect
<1>4. ~ (Open \/ OpenSucceeds \/ OpenFails \/ Close \/ Doubt \/ Serve)
  BY DEF Open, OpenSucceeds, OpenFails, Close, Doubt, Retire, Serve, Begin, Send
<1>5. ~ (Refuse \/ NextBlock \/ Failed \/ Unexpected \/ Progress)
  BY DEF Refuse, NextBlock, Failed, Unexpected, Progress, Retire, Keep, Advance, Send, Read, Calls,
         OneReply, Flashing
<1> QED  BY <1>1, <1>2, <1>3, <1>4, <1>5 DEF Next

\* A call that gives the session up, and reports no cleanup trouble, leaves the
\* device closed and no transfer under way (canoe-usb-web/src/lib.rs:46-55,
\* 148-165 and 215-227).
THEOREM DoubtIsClosed == Spec => []DoubtClosesTheDevice
<1>1. Init => DoubtClosesTheDevice
  BY DEF Init, DoubtClosesTheDevice
<1>2. IInv /\ DoubtClosesTheDevice /\ [Next]_vars => DoubtClosesTheDevice'
  <2>1. IInv => TypeOK
    BY DEF IInv
  <2>2. IInv' => TypeOK'
    BY DEF IInv
  <2> QED  BY <2>1, <2>2, StepPreserves, DoubtPreserved
<1> QED  BY <1>1, <1>2, InvariantHolds, PTL DEF Spec

=============================================================================
