------------------------------ MODULE ByteStore ------------------------------
(***************************************************************************)
(* What a RangeSession promises its caller, with no sectors, commands,     *)
(* sense data or transport: bytes of a disk, read and written one range at *)
(* a time.  Only a write call changes bytes, those of its range, to what   *)
(* was to be written, and all of them before it says ok; a read says ok    *)
(* with what the disk held while the call ran; a call that says uncertain  *)
(* may still be carried out, and was the last; and nothing touches a disk  *)
(* other than the one that was opened unless a refusal has said so.        *)
(***************************************************************************)
EXTENDS Integers

VARIABLES
    disk,      \* [gen, bytes]: which disk is in the drive, and its bytes
    state,     \* "closed", "idle" or "calling"
    opened,    \* [gen, size]: the disk the session was opened on
    writable,  \* the session may write
    told,      \* a call of the session has been refused
    spent,     \* no further call is carried out
    call,      \* the call in progress or the last one
    started,   \* the call that is being carried out, if any
    done,      \* it has been
    answer,    \* the bytes it read
    result,    \* what the last call returned
    data       \* the bytes the last read returned

session   == <<state, opened, writable, told, spent>>
effect    == <<started, done, answer>>
outcome   == <<result, data>>
storeVars == <<disk, session, call, effect, outcome>>

Nothing == [x \in {} |-> 0]
NoCall  == [kind |-> "none", offset |-> 0, length |-> 0, id |-> 0]
NoDisk  == [gen |-> 0, size |-> 0]

Extent(c) == c.offset .. c.offset + c.length - 1

IsClosed ==
    /\ state = "closed" /\ opened = NoDisk
    /\ writable = FALSE /\ told = FALSE /\ spent = FALSE
    /\ call = NoCall
    /\ started = NoCall /\ done = FALSE /\ answer = Nothing
    /\ result = "none" /\ data = Nothing

Init == IsClosed /\ disk.gen = 1

-----------------------------------------------------------------------------
(***************************************************************************)
(* The session.                                                            *)
(***************************************************************************)
\* The disk may have been replaced since its size was asked for.
Open ==
    /\ state = "closed" /\ state' = "idle"
    /\ opened'.gen \in 0 .. disk.gen
    /\ opened'.gen = disk.gen => DOMAIN disk.bytes = 0 .. opened'.size - 1
    /\ writable' \in BOOLEAN
    /\ result' = "ok"
    /\ UNCHANGED <<disk, told, spent, call, effect, data>>

Close ==
    /\ state = "idle"
    /\ IsClosed'
    /\ UNCHANGED disk

Start ==
    /\ state = "idle" /\ state' = "calling"
    /\ call'.kind \in {"read", "write", "flush", "eject"}
    /\ call'.kind = "write" => writable
    /\ call'.kind \in {"read", "write"} => Extent(call') \subseteq 0 .. opened.size - 1
    /\ result' = "none" /\ data' = Nothing
    /\ UNCHANGED <<disk, opened, writable, told, spent, effect>>

\* Not even begun.
Reject ==
    /\ state = "idle"
    /\ call' = NoCall
    /\ result' = "invalid" /\ data' = Nothing
    /\ UNCHANGED <<disk, session, effect>>

Returns(what) == state = "calling" /\ state' = "idle" /\ result' = what

Forgets == started' = NoCall /\ done' = FALSE /\ answer' = Nothing

\* An eject ends the session.
Ok ==
    /\ Returns("ok")
    /\ ~ spent /\ spent' = (call.kind = "eject")
    /\ started = call /\ done
    /\ data' = IF call.kind = "read" THEN answer ELSE Nothing
    /\ IF call.kind = "eject" THEN UNCHANGED effect ELSE Forgets
    /\ UNCHANGED <<disk, opened, writable, told, call>>

\* Not carried out to the end, and not any more.
Refuse ==
    /\ Returns("refused")
    /\ ~ spent /\ ~ done
    /\ told' = TRUE
    /\ Forgets
    /\ UNCHANGED <<disk, opened, writable, spent, call, data>>

Doubt ==
    /\ Returns("uncertain")
    /\ ~ spent /\ spent' = TRUE
    /\ UNCHANGED <<disk, opened, writable, told, call, effect, data>>

Deny ==
    /\ Returns("retired")
    /\ spent
    /\ UNCHANGED <<disk, opened, writable, told, spent, call, effect, data>>

-----------------------------------------------------------------------------
(***************************************************************************)
(* The disk.                                                               *)
(***************************************************************************)
\* At most once for a call, and for none after it returned ok or refused.
Launch ==
    /\ state = "calling" /\ ~ spent
    /\ started = NoCall /\ started' = call
    /\ UNCHANGED <<disk, session, call, done, answer, outcome>>

\* The call that was started can go on, also when its caller was left in doubt.
UnderWay ==
    /\ started # NoCall /\ ~ done
    /\ disk.gen = opened.gen \/ told

Overwritten(written) ==
    [a \in DOMAIN disk.bytes |-> IF a \in written THEN started.id ELSE disk.bytes[a]]

\* Some bytes of the range are written before the others.
Land ==
    /\ UnderWay
    /\ started.kind = "write"
    /\ \E written \in SUBSET Extent(started) :
          disk' = [gen |-> disk.gen, bytes |-> Overwritten(written)]
    /\ UNCHANGED <<session, call, effect, outcome>>

Perform ==
    /\ UnderWay
    /\ done' = TRUE
    /\ started.kind \in {"read", "write"} => Extent(started) \subseteq DOMAIN disk.bytes
    /\ disk' = IF started.kind = "write"
               THEN [gen |-> disk.gen, bytes |-> Overwritten(Extent(started))] ELSE disk
    /\ answer' = IF started.kind = "read"
                 THEN [a \in Extent(started) |-> disk.bytes[a]] ELSE Nothing
    /\ UNCHANGED <<session, call, started, outcome>>

Replace ==
    /\ disk'.gen = disk.gen + 1
    /\ UNCHANGED <<session, call, effect, outcome>>

-----------------------------------------------------------------------------
Next ==
    \/ Open \/ Close \/ Start \/ Reject \/ Ok \/ Refuse \/ Doubt \/ Deny
    \/ Launch \/ Land \/ Perform \/ Replace

Spec == Init /\ [][Next]_storeVars
=============================================================================
