--------------------------- MODULE FastbootSession ---------------------------
(***************************************************************************)
(* A fastboot session over WebUSB (canoe-usb-web/src/lib.rs): commands,    *)
(* fetch, hashRange and flash, each under a deadline, and the rule that    *)
(* decides whether the session survives a failure.                         *)
(*                                                                         *)
(* The protocol engine (fastboot-protocol) and the device are external:    *)
(* one packet at a time goes out, replies queue up on the wire, and the    *)
(* device finishes what it was told although nobody waits for it any more. *)
(* Closing and reopening the device does not make it forget: a session may *)
(* start over a device that still runs, or still owes, an earlier command. *)
(* close_web is one await here; ManagedLifecycle models its steps.         *)
(***************************************************************************)
EXTENDS Naturals, Sequences

CONSTANTS
    Blocks,   \* transfers an image takes
    MaxWire   \* bound: replies queued on the wire

ASSUME BoundsAssumption == Blocks \in Nat \ {0} /\ MaxWire \in Nat \ {0}

VARIABLES
    stage,    \* what the session's code awaits
    client,   \* FastbootSession::client: Some(_)
    left,     \* blocks of the image not yet handed to the transport
    result,   \* what the last call returned
    opened,   \* the browser's device is open
    sound,    \* the session began over an idle device and an empty wire
    out,      \* the packet on its way out, or "none"
    wire,     \* replies not yet read
    dev,      \* the command the device is busy with, or "idle"
    room,     \* blocks the device still takes
    buffer,   \* what it downloaded, as seen by the current flash call
    medium    \* what the partition holds, as seen by the current flash call

session == <<stage, client, left, result>>
link    == <<opened, sound, out, wire>>
device  == <<dev, room, buffer, medium>>
vars    == <<session, link, device>>

OneReply == {"getvar", "command", "hashvar", "hash"}
Flashing == {"download", "image", "whole", "flash"}
Calls    == OneReply \cup {"fetch", "bytes", "fetched"} \cup Flashing
Rest     == {"none", "ready"}

Init ==
    /\ stage = "none" /\ client = FALSE /\ left = 0 /\ result = "none"
    /\ opened = FALSE /\ sound = FALSE /\ out = "none" /\ wire = <<>>
    /\ dev = "idle" /\ room = 0 /\ buffer = "other" /\ medium = "old"

-----------------------------------------------------------------------------
(***************************************************************************)
(* open_fastboot.  It has no deadline of its own; every failure closes.    *)
(***************************************************************************)
Open ==
    /\ stage = "none"
    /\ stage' = "opening"
    /\ result' = "none"
    /\ UNCHANGED <<client, left, link, device>>

OpenSucceeds ==
    /\ stage = "opening"
    /\ stage' = "ready" /\ client' = TRUE /\ result' = "ok"
    /\ sound' = (~ opened /\ dev = "idle" /\ wire = <<>>)
    /\ opened' = TRUE
    /\ UNCHANGED <<left, out, wire, device>>

\* A slip: the client is dropped, the device left as it is.
DropOnly ==
    /\ stage' = "none"
    /\ client' = FALSE
    /\ result' = "error"
    /\ UNCHANGED left

\* The client is dropped and close_after_failure awaited.
Retire ==
    /\ stage' = "closing"
    /\ client' = FALSE
    /\ result' = "error"
    /\ UNCHANGED left

OpenFails ==
    /\ stage = "opening"
    /\ opened' \in {opened, TRUE}
    /\ sound' = FALSE
    /\ Retire
    /\ UNCHANGED <<out, wire, device>>

\* close(): of a usable session, or once more of one that failed.
Close ==
    /\ stage = "ready" \/ (stage = "none" /\ opened)
    /\ stage' = "closing" /\ client' = FALSE /\ result' = "ok"
    /\ UNCHANGED <<left, link, device>>

\* close_web ends by its deadlines.  A closed device aborts what the browser
\* had under way; without a clean receipt the device may be open still.
CloseEnds(clean) ==
    /\ stage = "closing"
    /\ stage' = "none"
    /\ opened' \in IF clean THEN {FALSE} ELSE {opened, FALSE}
    /\ out' = IF opened' THEN out ELSE "none"
    /\ result' = IF clean THEN result ELSE "cleanup"
    /\ UNCHANGED <<client, left, sound, wire, device>>

-----------------------------------------------------------------------------
(***************************************************************************)
(* The calls.  take() leaves the session without a client until finish()   *)
(* or flash() knows that the command is over and its reply was read.       *)
(***************************************************************************)
\* A slip: the session goes on holding the client a call works with.
BorrowClient == client /\ UNCHANGED client

TakeClient == client /\ client' = FALSE

Send(call, packet) == stage' = call /\ out' = packet

Begin(call) ==
    /\ stage = "ready"
    /\ TakeClient
    /\ Send(call, call)
    /\ result' = "none"
    /\ left' = IF call = "download" THEN Blocks ELSE 0
    /\ IF call = "download"
       THEN buffer' = "other" /\ medium' = "old"
       ELSE UNCHANGED <<buffer, medium>>
    /\ UNCHANGED <<opened, sound, wire, dev, room>>

\* An image of no bytes, or too many, is refused before the client is taken;
\* a session without its client refuses everything.
Refuse ==
    /\ stage \in Rest
    /\ result' = IF client THEN "invalid" ELSE "denied"
    /\ UNCHANGED <<stage, client, left, link, device>>

Reply == Head(wire)
Awaits ==
    CASE stage \in {"download", "fetch"} -> "DATA"
      [] stage = "bytes" -> "bytes"
      [] OTHER -> "OKAY"

Read == opened /\ out = "none" /\ wire # <<>> /\ stage \in Calls \ {"image"}

Keep(verdict) ==
    /\ stage' = "ready" /\ client' = TRUE /\ result' = verdict
    /\ UNCHANGED out

\* What each call does with the reply it hoped for.  hashRange checks the
\* extension and the range first, and what it decoded at the end.
Advance ==
    CASE stage = "fetch" -> stage' = "bytes" /\ UNCHANGED <<client, result, out>>
      [] stage = "bytes" -> stage' = "fetched" /\ UNCHANGED <<client, result, out>>
      [] stage = "download" -> stage' = "image" /\ UNCHANGED <<client, result, out>>
      [] stage = "whole" -> Send("flash", "flash") /\ UNCHANGED <<client, result>>
      [] stage = "hashvar" ->
            \/ Send("hash", "hash") /\ UNCHANGED <<client, result>>
            \/ Keep("invalid")
      [] stage = "hash" -> Keep("ok") \/ Keep("invalid")
      [] OTHER -> Keep("ok")

Progress ==
    /\ Read /\ Reply = Awaits
    /\ wire' = Tail(wire)
    /\ Advance
    /\ UNCHANGED <<left, opened, sound, device>>

\* A slip: download.finish() is left out.
NextBlockUnfinished ==
    /\ stage = "image" /\ opened /\ out = "none"
    /\ IF left > 0
       THEN Send("image", "block") /\ left' = left - 1
       ELSE Send("flash", "flash") /\ UNCHANGED left
    /\ UNCHANGED <<client, result, opened, sound, wire, device>>

\* download.extend_from_slice, then download.finish.
NextBlock ==
    /\ stage = "image" /\ opened /\ out = "none"
    /\ IF left > 0
       THEN Send("image", "block") /\ left' = left - 1
       ELSE stage' = "whole" /\ UNCHANGED <<left, out>>
    /\ UNCHANGED <<client, result, opened, sound, wire, device>>

\* A complete FAIL ends the command.  finish() keeps the session, flash() not.
Failed ==
    /\ Read /\ Reply = "FAIL" /\ stage # "bytes"
    /\ wire' = Tail(wire)
    /\ IF stage \in Flashing
       THEN Retire /\ UNCHANGED out
       ELSE Keep("fail") /\ UNCHANGED left
    /\ UNCHANGED <<opened, sound, device>>

\* A slip: finish keeps the session after any reply it could read.
KeepAnyReply ==
    /\ Read /\ Reply # Awaits /\ (Reply # "FAIL" \/ stage = "bytes")
    /\ wire' = Tail(wire)
    /\ IF stage \in Flashing
       THEN Retire /\ UNCHANGED out
       ELSE Keep("fail") /\ UNCHANGED left
    /\ UNCHANGED <<opened, sound, device>>

\* Any other reply is an error of the protocol.
Unexpected ==
    /\ Read /\ Reply # Awaits /\ (Reply # "FAIL" \/ stage = "bytes")
    /\ wire' = Tail(wire)
    /\ Retire
    /\ UNCHANGED <<opened, sound, out, device>>

\* A slip: flash runs without a deadline.
DoubtUnlessFlashing ==
    /\ stage \in Calls \ Flashing
    /\ Retire
    /\ UNCHANGED <<link, device>>

\* A transfer fails, whether or not it took effect, or the deadline passes.
Doubt ==
    /\ stage \in Calls
    /\ Retire
    /\ UNCHANGED <<link, device>>

-----------------------------------------------------------------------------
(***************************************************************************)
(* The device.  A packet that arrives during a download is data, whatever  *)
(* it was meant to be.                                                     *)
(***************************************************************************)
Take ==
    /\ opened /\ out # "none"
    /\ out' = "none"
    /\ \/ /\ dev = "idle" /\ dev' = out
          /\ UNCHANGED <<room, buffer>>
       \/ /\ dev = "taking"
          /\ room' = room - 1
          /\ dev' = IF room = 1 THEN "taken" ELSE "taking"
          /\ buffer' = IF out # "block" THEN "spoilt"
                       ELSE IF room = 1 /\ buffer = "part" THEN "whole" ELSE buffer
    /\ UNCHANGED <<session, opened, sound, wire, medium>>

Say(reply, next) ==
    /\ Len(wire) < MaxWire
    /\ wire' = Append(wire, reply)
    /\ dev' = next

\* It obeys, ...
Obey ==
    /\ \/ dev \in OneReply \cup {"fetched", "taken"} /\ Say("OKAY", "idle")
          /\ UNCHANGED <<room, buffer, medium>>
       \/ dev = "fetch" /\ Say("DATA", "bytes") /\ UNCHANGED <<room, buffer, medium>>
       \/ dev = "bytes" /\ Say("bytes", "fetched") /\ UNCHANGED <<room, buffer, medium>>
       \/ dev = "download" /\ Say("DATA", "taking")
          /\ room' = Blocks /\ buffer' = "part" /\ UNCHANGED medium
       \/ dev = "flash" /\ Say("OKAY", "idle")
          /\ medium' = buffer /\ UNCHANGED <<room, buffer>>
    /\ UNCHANGED <<session, opened, sound, out>>

\* ... or refuses, having done a part of it, ...
Balk ==
    /\ dev \notin {"idle", "taking", "bytes"} /\ Say("FAIL", "idle")
    /\ medium' \in IF dev = "flash" THEN {medium, "spoilt"} ELSE {medium}
    /\ UNCHANGED <<session, opened, sound, out, room, buffer>>

\* ... or says what nobody asked for: a reply that does not parse, or one that
\* opens a data stage the host does not expect.
Ramble ==
    /\ dev \in Calls \cup {"block"}
    /\ \/ Say("junk", "idle") /\ UNCHANGED <<room, buffer>>
       \/ /\ dev # "download"
          /\ Say("DATA", "taking") /\ room' = Blocks /\ buffer' = "spoilt"
    /\ UNCHANGED <<session, opened, sound, out, medium>>

\* Unplugged: the device starts afresh, transfers under way are lost.
Disconnect ==
    /\ opened
    /\ opened' = FALSE /\ out' = "none" /\ wire' = <<>>
    /\ dev' = "idle" /\ room' = 0 /\ buffer' = "other"
    /\ UNCHANGED <<session, sound, medium>>

-----------------------------------------------------------------------------
Serve == \E call \in {"getvar", "command", "fetch", "hashvar", "download"} : Begin(call)

Next ==
    \/ Open \/ OpenSucceeds \/ OpenFails \/ Close
    \/ \E clean \in BOOLEAN : CloseEnds(clean)
    \/ Serve \/ Refuse \/ Progress \/ NextBlock \/ Failed \/ Unexpected \/ Doubt
    \/ Take \/ Obey \/ Balk \/ Ramble \/ Disconnect

Spec == Init /\ [][Next]_vars

\* bounded() ends every call, close_web's deadlines end every close; nothing is
\* assumed of the device.
Fairness == WF_vars(Doubt) /\ WF_vars(\E clean \in BOOLEAN : CloseEnds(clean))

FairSpec == Spec /\ Fairness

-----------------------------------------------------------------------------
Packets == {"getvar", "command", "hashvar", "hash", "fetch", "download", "flash", "block"}

TypeOK ==
    /\ stage \in Rest \cup {"opening", "closing"} \cup Calls
    /\ client \in BOOLEAN /\ (client <=> stage = "ready")
    /\ left \in 0 .. Blocks /\ room \in 0 .. Blocks
    /\ result \in {"none", "ok", "fail", "invalid", "denied", "error", "cleanup"}
    /\ opened \in BOOLEAN /\ sound \in BOOLEAN
    /\ out \in Packets \cup {"none"}
    /\ wire \in Seq({"OKAY", "FAIL", "DATA", "bytes", "junk"}) /\ Len(wire) <= MaxWire
    /\ dev \in Packets \cup {"idle", "bytes", "fetched", "taking", "taken"}
    /\ buffer \in {"other", "part", "whole", "spoilt"}
    /\ medium \in {"old", "other", "part", "whole", "spoilt"}

\* "A complete device FAIL keeps framing synchronized. Uncertainty or timeout
\* retires the session" (README.md:37): a session that goes on is one whose
\* device is idle and owes no reply, so that its next call cannot take an
\* earlier call's answer for its own (lib.rs:198-229).
KeptMeansFramed ==
    (sound /\ client /\ opened) => dev = "idle" /\ wire = <<>> /\ out = "none"

\* A call that gives the session up and reports no cleanup trouble has closed
\* the device and left no transfer under way (lib.rs:46-55, 148-165, 215-227).
DoubtClosesTheDevice ==
    (stage = "none" /\ result = "error") => ~ client /\ ~ opened /\ out = "none"

\* flash() returned success only after the device had written the image, all of
\* it and nothing else, that this very call downloaded (lib.rs:131-147).
FlashOkMeansWritten ==
    [][(sound /\ stage = "flash" /\ stage' = "ready") => medium = "whole"]_vars

\* Every call but the opening returns, whatever the device does or does not
\* (lib.rs:232-238).
CallsReturn == (stage \in Calls \cup {"closing"}) ~> (stage \in Rest)
=============================================================================
