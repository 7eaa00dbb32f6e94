-------------------------- MODULE ManagedLifecycle --------------------------
(***************************************************************************)
(* The life of a managed storage session over WebUSB: open_managed_storage *)
(* (canoe-usb-web), connect_web and close_web (nusb-scsi), the operations  *)
(* of ManagedStorageSession and their teardown.                            *)
(*                                                                         *)
(* Three owners matter: the interface handle while connect_web holds it    *)
(* (claimed), the one the session keeps for an orderly close               *)
(* (interface_owner), and the browser's device, whose state changes        *)
(* (open, claim, release, close) go on although the Rust future that asked *)
(* for them was dropped.  Time is counted in ticks of 2.5 seconds for the  *)
(* deadlines that can overtake one another: the outer limit of the open,   *)
(* the inner one of connect_web, one for each step of close_web.           *)
(***************************************************************************)
EXTENDS Integers

CONSTANTS
    OpenLimit,   \* bounded(.., 20_000) around the whole open
    InitLimit,   \* the timeout open_managed_storage gives connect_web
    CloseLimit   \* of the release, and of the close, in close_web

ASSUME LimitsAssumption ==
    OpenLimit \in Nat \ {0} /\ InitLimit \in Nat \ {0} /\ CloseLimit \in Nat \ {0}

VARIABLES
    at,       \* which await the session's code stands at
    claimed,  \* connect_web's local: Some(interface)
    owner,    \* interface_owner: Some(interface)
    client,   \* ManagedStorageSession::client, or the local it was taken into
    purpose,  \* what close_web was called for
    trouble,  \* close_web, now or in connect_web: a release or close failed
    refused,  \* the browser refused the change asked for: another was in progress
    unawaited,\* the session's interface went away without an awaited release
    result,   \* what the last call returned
    opened, interface, change,  \* the browser: is the device open, the interface
                                \* claimed, which change of state is in progress
    outer, inner, step,         \* ticks left of the three kinds of deadline
    age                         \* ticks since the open was called

code    == <<claimed, owner, client, purpose, trouble, refused, unawaited, result>>
browser == <<opened, interface, change>>
timers  == <<outer, inner, step>>
vars    == <<at, code, browser, timers, age>>

Off == -1
MaxAge == OpenLimit + 2 * CloseLimit + 1

\* The awaits of open_managed_storage, in order; those of close_web, run by
\* connect_web for itself (undo) or at the end of a session (end).
Connecting == {"claiming", "maxlun", "undoRelease", "undoClose"}
Opening    == {"selecting", "probing"} \cup Connecting
Rest       == {"none", "ready", "spent"}

Init ==
    /\ at = "none"
    /\ claimed = FALSE /\ owner = FALSE /\ client = FALSE
    /\ purpose = "none" /\ trouble = FALSE /\ refused = FALSE /\ unawaited = FALSE
    /\ result = "none"
    /\ opened = FALSE /\ interface = FALSE /\ change = "none"
    /\ outer = Off /\ inner = Off /\ step = Off
    /\ age = 0

-----------------------------------------------------------------------------
(***************************************************************************)
(* The browser makes one state change at a time and refuses another one    *)
(* meanwhile.  A change nobody awaits any longer settles by itself.        *)
(***************************************************************************)
Settle(kind, good) ==
    /\ opened' = CASE good /\ kind = "open"  -> TRUE
                   [] good /\ kind = "close" -> FALSE
                   [] OTHER -> opened
    /\ interface' = CASE good /\ kind = "claim" -> TRUE
                      [] good /\ kind \in {"release", "close"} -> FALSE
                      [] OTHER -> interface

Awaited(kind) ==
    /\ change = kind /\ ~ refused
    /\ CASE kind = "open"    -> at = "selecting"
         [] kind = "claim"   -> at = "claiming"
         [] kind = "release" -> at \in {"undoRelease", "endRelease"}
         [] kind = "close"   -> at \in {"undoClose", "endClose"}

OrphanSettles(good) ==
    /\ change # "none"
    /\ ~ Awaited(change)
    /\ Settle(change, good)
    /\ change' = "none"
    /\ UNCHANGED <<at, code, timers, age>>

\* The device is unplugged: whatever was in progress fails.
Disconnect ==
    /\ opened
    /\ opened' = FALSE /\ interface' = FALSE /\ change' = "none"
    /\ UNCHANGED <<at, code, timers, age>>

Ask(kind) ==
    /\ change' = IF change = "none" THEN kind ELSE change
    /\ refused' = (change # "none")

(***************************************************************************)
(* close_web(interface, device): an awaited release when a handle is       *)
(* passed, then the close.  A device that is not open has nothing to close.*)
(***************************************************************************)
BeginRelease(place) ==
    /\ at' = place
    /\ Ask("release")
    /\ step' = CloseLimit

BeginClose(place) ==
    /\ at' = place
    /\ IF opened \/ change # "none" THEN Ask("close")
       ELSE change' = "none" /\ refused' = FALSE
    /\ step' = CloseLimit

CloseWeb(phase, handle) ==
    IF handle THEN BeginRelease(phase.release) ELSE BeginClose(phase.close)

Undo == [release |-> "undoRelease", close |-> "undoClose"]
End  == [release |-> "endRelease",  close |-> "endClose"]

\* The session is over: close_after_failure and the consuming operations.  The
\* receipt speaks of this close_web alone: what went wrong in the cleanup of a
\* connect_web that the outer limit dropped was dropped with it.
Finish(what) ==
    /\ purpose' = what
    /\ owner' = FALSE /\ claimed' = FALSE /\ client' = FALSE
    /\ outer' = Off /\ inner' = Off
    /\ trouble' = FALSE
    /\ CloseWeb(End, owner)
    /\ UNCHANGED <<unawaited, result, opened, interface, age>>

-----------------------------------------------------------------------------
(***************************************************************************)
(* open_managed_storage.  managedInterface() opens the device unless it is *)
(* open already, then connect_web starts with a timeout of its own.        *)
(***************************************************************************)
Open ==
    /\ at = "none"
    /\ at' = "selecting"
    /\ result' = "none" /\ trouble' = FALSE /\ unawaited' = FALSE
    /\ IF opened THEN refused' = FALSE /\ UNCHANGED change ELSE Ask("open")
    /\ outer' = OpenLimit
    /\ age' = 0
    /\ UNCHANGED <<claimed, owner, client, purpose, opened, interface, inner, step>>

\* An interface that is still claimed is not selected.
Selected ==
    /\ at = "selecting"
    /\ opened \/ Awaited("open")
    /\ ~ interface
    /\ opened' = TRUE
    /\ IF Awaited("open") THEN change' = "claim" /\ refused' = FALSE ELSE Ask("claim")
    /\ at' = "claiming"
    /\ inner' = InitLimit
    /\ UNCHANGED <<claimed, owner, client, purpose, trouble, unawaited, result,
                   interface, outer, step, age>>

\* The device does not open, or does and then has no one interface to offer.
SelectFails ==
    /\ at = "selecting"
    /\ IF Awaited("open")
       THEN /\ opened' \in BOOLEAN
            /\ change' = IF opened' THEN "close" ELSE "none"
            /\ refused' = FALSE
            /\ at' = "endClose"
            /\ step' = CloseLimit
       ELSE BeginClose("endClose") /\ UNCHANGED opened
    /\ purpose' = "open"
    /\ outer' = Off
    /\ UNCHANGED <<claimed, owner, client, trouble, unawaited, result, interface, inner, age>>

Claimed ==
    /\ at = "claiming"
    /\ Awaited("claim")
    /\ Settle("claim", TRUE)
    /\ change' = "none"
    /\ claimed' = TRUE
    /\ at' = "maxlun"
    /\ UNCHANGED <<owner, client, purpose, trouble, refused, unawaited, result, timers, age>>

\* connect_web fails or times out: it drops its endpoints and runs close_web
\* itself.  A claim it no longer waits for is still in progress then; one
\* that was rejected is over.
UndoConnect ==
    /\ at \in {"claiming", "maxlun"}
    /\ claimed' = FALSE
    /\ inner' = Off
    /\ \/ /\ ~ Awaited("claim") \/ inner = 0
          /\ CloseWeb(Undo, claimed)
       \/ /\ Awaited("claim")
          /\ change' = "close" /\ refused' = FALSE
          /\ at' = "undoClose"
          /\ step' = CloseLimit
    /\ UNCHANGED <<owner, client, purpose, trouble, unawaited, result, opened, interface, age>>

\* A slip: connect_web's own cleanup runs outside the outer limit.
ConnectFailsUnlimited == UndoConnect /\ outer' = Off

\* The outer limit goes on during that cleanup.
ConnectFails == UndoConnect /\ UNCHANGED outer

\* A slip: the session keeps no handle for its own teardown.
InitializedUnretained ==
    /\ at = "maxlun"
    /\ at' = "probing"
    /\ claimed' = FALSE
    /\ inner' = Off
    /\ UNCHANGED <<owner, client, purpose, trouble, refused, unawaited, result,
                   browser, outer, step, age>>

\* GET_MAX_LUN is answered: the session retains the interface.
Initialized ==
    /\ at = "maxlun"
    /\ at' = "probing"
    /\ owner' = TRUE
    /\ claimed' = FALSE
    /\ inner' = Off
    /\ UNCHANGED <<client, purpose, trouble, refused, unawaited, result,
                   browser, outer, step, age>>

ProbeSucceeds ==
    /\ at = "probing"
    /\ at' = "ready"
    /\ client' = TRUE
    /\ outer' = Off
    /\ result' = "ok"
    /\ UNCHANGED <<claimed, owner, purpose, trouble, refused, unawaited, browser,
                   inner, step, age>>

ProbeFails ==
    /\ at = "probing"
    /\ Finish("open")

\* The outer limit drops the future wherever it stands.  An interface that
\* connect_web still held is dropped with it: nusb starts a release that
\* nobody awaits, and close_web is told of no interface.
OpenTimesOut ==
    /\ at \in Opening
    /\ outer = 0
    /\ IF claimed
       THEN /\ change' = IF opened THEN "release" ELSE "none"
            /\ refused' = opened
            /\ unawaited' = TRUE
            /\ at' = "endClose"
            /\ step' = CloseLimit
            /\ purpose' = "open"
            /\ claimed' = FALSE
            /\ outer' = Off /\ inner' = Off
            /\ UNCHANGED <<owner, client, trouble, result, opened, interface, age>>
       ELSE Finish("open")

-----------------------------------------------------------------------------
(***************************************************************************)
(* The awaits of close_web.  A failed or late release does not keep it     *)
(* from closing the device, but from reporting success; on a device that   *)
(* is gone a failed release is as good as done.                            *)
(***************************************************************************)
ReleaseSettles(good) ==
    /\ at \in {"undoRelease", "endRelease"}
    /\ Awaited("release") \/ (~ good /\ (refused \/ ~ opened))
    /\ trouble' = (trouble \/ (~ good /\ opened))
    /\ IF good THEN interface' = FALSE ELSE UNCHANGED interface
    /\ IF Awaited("release") /\ opened THEN change' = "close" /\ refused' = FALSE
       ELSE IF change # "none" THEN Ask("close")
       ELSE change' = (IF opened THEN "close" ELSE "none") /\ refused' = FALSE
    /\ at' = IF at = "undoRelease" THEN "undoClose" ELSE "endClose"
    /\ step' = CloseLimit
    /\ UNCHANGED <<claimed, owner, client, purpose, unawaited, result, opened, outer,
                   inner, age>>

\* A slip: only connect_web's own release has a deadline.
ReleaseLateInUndo ==
    /\ at = "undoRelease"
    /\ step = 0
    /\ trouble' = TRUE
    /\ BeginClose("undoClose")
    /\ UNCHANGED <<claimed, owner, client, purpose, unawaited, result, opened, interface,
                   outer, inner, age>>

ReleaseLate ==
    /\ at \in {"undoRelease", "endRelease"}
    /\ step = 0
    /\ trouble' = TRUE
    /\ BeginClose(IF at = "undoRelease" THEN "undoClose" ELSE "endClose")
    /\ UNCHANGED <<claimed, owner, client, purpose, unawaited, result, opened, interface,
                   outer, inner, age>>

\* connect_web hands its error to the open, which has no handle and closes the
\* device once more; else the call returns.
Verdict ==
    IF purpose = "close" THEN IF trouble' THEN "cleanup" ELSE "ok"
    ELSE IF trouble' THEN "errorAndCleanup" ELSE "error"

AfterClose(good) ==
    /\ trouble' = (trouble \/ ~ good)
    /\ IF at = "undoClose"
       THEN /\ at' = "endClose"
            /\ purpose' = "open"
            /\ outer' = Off
            /\ step' = CloseLimit
            /\ UNCHANGED result
       ELSE /\ at' = "none"
            /\ step' = Off
            /\ result' = Verdict
            /\ UNCHANGED <<purpose, outer>>
    /\ UNCHANGED <<claimed, owner, client, unawaited, inner, age>>

CloseSettles(good) ==
    /\ at \in {"undoClose", "endClose"}
    /\ Awaited("close") \/ (change = "none" /\ ~ opened /\ ~ refused)
    /\ Settle("close", good)
    /\ change' = IF at = "undoClose" /\ opened' THEN "close" ELSE "none"
    /\ refused' = FALSE
    /\ AfterClose(good)

\* A slip: a close that misses its deadline counts as done.
CloseLateIsDone ==
    /\ at \in {"undoClose", "endClose"}
    /\ step = 0
    /\ UNCHANGED <<browser, refused>>
    /\ AfterClose(TRUE)

\* Refused at once, or late.  The next close meets whatever is in progress.
CloseFails ==
    /\ at \in {"undoClose", "endClose"}
    /\ refused \/ step = 0
    /\ IF at = "undoClose" /\ (opened \/ change # "none")
       THEN Ask("close")
       ELSE refused' = FALSE /\ UNCHANGED change
    /\ UNCHANGED <<opened, interface>>
    /\ AfterClose(FALSE)

-----------------------------------------------------------------------------
(***************************************************************************)
(* ManagedStorageSession: an operation takes the client and puts it back   *)
(* only when the framing is known to be intact.                            *)
(***************************************************************************)
Operate ==
    /\ at = "ready"
    /\ at' = "operating"
    /\ result' = "none"
    /\ UNCHANGED <<claimed, owner, client, purpose, trouble, refused, unawaited,
                   browser, timers, age>>

\* The filesystem broker gives up on a session that is inside an operation: it
\* closes the browser's device under it, past the session (filesystem.js).
AbortPending ==
    /\ at = "operating"
    /\ at' = "aborted"
    /\ change' = IF opened /\ change = "none" THEN "close" ELSE change
    /\ UNCHANGED <<code, opened, interface, timers, age>>

\* An operation that was through already leaves a session without its device,
\* which the broker uses no more except to close it.
OperationReturns(outcome) ==
    /\ at \in {"operating", "aborted"}
    /\ at' = IF at = "operating" THEN "ready" ELSE "spent"
    /\ result' = outcome
    /\ UNCHANGED <<claimed, owner, client, purpose, trouble, refused, unawaited,
                   browser, timers, age>>

\* Uncertain framing, a timeout, or an eject that was not accepted.
OperationFails ==
    /\ at \in {"operating", "aborted"}
    /\ Finish("failure")

\* The session's last call: close(), or an eject the device accepted.  After a
\* failure close() has no client and no handle left and closes the device.
Consume ==
    /\ \/ at \in {"ready", "spent"}
       \/ at = "none" /\ purpose = "failure"
    /\ purpose' = "close"
    /\ trouble' = FALSE
    /\ owner' = FALSE /\ client' = FALSE
    /\ CloseWeb(End, owner)
    /\ UNCHANGED <<claimed, unawaited, result, opened, interface, outer, inner, age>>

-----------------------------------------------------------------------------
Expired == outer = 0 \/ inner = 0 \/ step = 0
Running(t) == t > 0

\* A slip: a deadline that is not armed counts as well.
LessUnarmed(t) == t - 1

Less(t) == IF t > 0 THEN t - 1 ELSE t

\* Time passes while some deadline runs, never past one that has expired.
Tick ==
    /\ Running(outer) \/ Running(inner) \/ Running(step)
    /\ ~ Expired
    /\ outer' = Less(outer) /\ inner' = Less(inner) /\ step' = Less(step)
    /\ age' = IF age < MaxAge THEN age + 1 ELSE age
    /\ UNCHANGED <<at, code, browser>>

Attempt ==
    \/ Selected \/ SelectFails \/ Claimed \/ ConnectFails \/ Initialized
    \/ ProbeSucceeds \/ ProbeFails \/ OpenTimesOut

Teardown ==
    \/ \E good \in BOOLEAN : ReleaseSettles(good) \/ CloseSettles(good)
    \/ ReleaseLate \/ CloseFails

OperationEnds == OperationFails \/ \E outcome \in {"ok", "error"} : OperationReturns(outcome)

Next ==
    \/ Open \/ Attempt \/ Teardown
    \/ Operate \/ AbortPending \/ OperationEnds \/ Consume
    \/ Disconnect
    \/ \E good \in BOOLEAN : OrphanSettles(good)
    \/ Tick

Spec == Init /\ [][Next]_vars

\* Deadlines expire and are acted upon; an operation has one of its own
\* (30 to 120 seconds).  Nothing is assumed of the device or the browser.
Fairness ==
    /\ WF_vars(Tick)
    /\ WF_vars(OpenTimesOut) /\ WF_vars(ConnectFails /\ inner = 0)
    /\ WF_vars(ReleaseLate) /\ WF_vars(CloseFails /\ (refused \/ step = 0))
    /\ WF_vars(OperationEnds)

FairSpec == Spec /\ Fairness

-----------------------------------------------------------------------------
Ticks(limit) == Off .. limit

TypeOK ==
    /\ at \in Rest \cup {"operating", "aborted", "endRelease", "endClose"} \cup Opening
    /\ {claimed, owner, client, trouble, refused, unawaited, opened, interface} \subseteq BOOLEAN
    /\ purpose \in {"none", "open", "failure", "close"}
    /\ result \in {"none", "ok", "error", "errorAndCleanup", "cleanup"}
    /\ change \in {"none", "open", "claim", "release", "close"}
    /\ outer \in Ticks(OpenLimit) /\ inner \in Ticks(InitLimit) /\ step \in Ticks(CloseLimit)
    /\ age \in 0 .. MaxAge

\* A receipt without a word of cleanup trouble, be it of a close, an eject, a
\* failed open or a failed operation, means that the device is closed, the
\* interface free, and no change still on its way, also when the broker closed
\* the device under the session (lib.rs:20-51 of nusb-scsi, managed.rs:205-229
\* and 253-260, filesystem.js:66-69 and 127-132).
ReceiptIsTrue ==
    (at = "none" /\ result \in {"ok", "error"}) =>
        ~ opened /\ ~ interface /\ change = "none"

\* A session that takes operations holds the handle its teardown will need,
\* over an open device whose interface is claimed and not about to change,
\* whatever earlier opens were given up and left behind (managed.rs:80-121).
ReadyIsOwned ==
    at \in {"ready", "operating"} =>
        /\ owner /\ client /\ ~ claimed
        /\ opened => interface /\ change = "none"

\* An open returns, cleanup included, within its limit and one deadline for
\* each step of close_web (managed.rs:80-123).
OpenIsBounded ==
    (at \in Opening \/ (at \in {"endRelease", "endClose"} /\ purpose = "open")) =>
        age <= OpenLimit + 2 * CloseLimit

\* Every call returns, whether or not the device ever answers again
\* (canoe-usb-web lib.rs:232-238).
CallsReturn == (at \notin Rest) ~> (at \in Rest)

\* "Await interface release before closing WebUSB. nusb's fallback Drop starts
\* releaseInterface without awaiting it; racing device.close against that
\* interface state change fails in Chromium." (nusb-scsi lib.rs:16-18): no
\* session closes the device right after it dropped a claimed interface.
ReleaseIsAwaited == ~ unawaited
=============================================================================
