------------------------ MODULE ManagedLifecycleProofs ------------------------
(***************************************************************************)
(* A managed session owns what its teardown needs, its receipts are true   *)
(* and its open returns in time, for deadlines of any length.              *)
(***************************************************************************)
EXTENDS ManagedLifecycle, TLAPS

(***************************************************************************)
(* Types: the flags, which take Zenon, and the rest.                       *)
(***************************************************************************)
Flags ==
    /\ claimed \in BOOLEAN /\ owner \in BOOLEAN /\ client \in BOOLEAN
    /\ trouble \in BOOLEAN /\ refused \in BOOLEAN /\ unawaited \in BOOLEAN
    /\ opened \in BOOLEAN /\ interface \in BOOLEAN

Words ==
    /\ at \in Rest \cup {"operating", "aborted", "endRelease", "endClose"} \cup Opening
    /\ purpose \in {"none", "open", "failure", "close"}
    /\ result \in {"none", "ok", "error", "errorAndCleanup", "cleanup"}
    /\ change \in {"none", "open", "claim", "release", "close"}

Times ==
    /\ outer \in Ticks(OpenLimit) /\ inner \in Ticks(InitLimit) /\ step \in Ticks(CloseLimit)
    /\ age \in 0 .. MaxAge

LEMMA TypeParts == TypeOK <=> Flags /\ Words /\ Times
BY DEF TypeOK, Flags, Words, Times

\* The steps of Next, one by one.
LEMMA NextKinds ==
    ASSUME [Next]_vars
    PROVE  \/ Open \/ Selected \/ SelectFails \/ Claimed \/ ConnectFails \/ Initialized
           \/ ProbeSucceeds \/ ProbeFails \/ OpenTimesOut
           \/ \E good \in BOOLEAN :
                 ReleaseSettles(good) \/ CloseSettles(good) \/ OrphanSettles(good)
           \/ ReleaseLate \/ CloseFails
           \/ Operate \/ AbortPending \/ OperationFails \/ Consume
           \/ \E outcome \in {"ok", "error"} : OperationReturns(outcome)
           \/ Disconnect \/ Tick \/ UNCHANGED vars
BY DEF Next, Attempt, Teardown, OperationEnds

LEMMA SettleFlags ==
    ASSUME Flags, NEW kind, NEW good \in BOOLEAN, Settle(kind, good)
    PROVE  opened' \in BOOLEAN /\ interface' \in BOOLEAN
<1>1. opened' \in {TRUE, FALSE, opened} /\ interface' \in {TRUE, FALSE, interface}
  BY Zenon DEF Settle
<1> QED  BY <1>1, Zenon DEF Flags

LEMMA AskFlags == ASSUME NEW kind, Ask(kind) PROVE refused' \in BOOLEAN
BY Zenon DEF Ask

LEMMA FlagsPreserved == Flags /\ [Next]_vars => Flags'
<1> SUFFICES ASSUME Flags, [Next]_vars PROVE Flags'
  OBVIOUS
<1>1. CASE Open
  BY <1>1, AskFlags, Zenon DEF Flags, Open
<1>2. CASE Selected
  BY <1>2, AskFlags, Zenon DEF Flags, Selected
<1>3. CASE SelectFails
  BY <1>3, AskFlags, Zenon DEF Flags, SelectFails, BeginClose
<1>4. CASE Claimed
  BY <1>4, SettleFlags, Zenon DEF Flags, Claimed
<1>5. CASE ConnectFails
  BY <1>5, AskFlags, Zenon DEF Flags, ConnectFails, UndoConnect, CloseWeb, BeginRelease, BeginClose
<1>6. CASE Initialized \/ ProbeSucceeds \/ Operate \/ AbortPending
  BY <1>6, Zenon DEF Flags, Initialized, ProbeSucceeds, Operate, AbortPending, browser, code
<1>7. ASSUME NEW what, Finish(what)  PROVE Flags'
  BY <1>7, AskFlags, Zenon DEF Flags, Finish, CloseWeb, BeginRelease, BeginClose
<1>8. CASE OpenTimesOut
  BY <1>7, <1>8, Zenon DEF Flags, OpenTimesOut
<1>9. ASSUME NEW good \in BOOLEAN, ReleaseSettles(good)  PROVE Flags'
  BY <1>9, AskFlags, Zenon DEF Flags, ReleaseSettles
<1>10. ASSUME NEW good \in BOOLEAN, AfterClose(good), opened' \in BOOLEAN, interface' \in BOOLEAN,
              refused' \in BOOLEAN
       PROVE Flags'
  BY <1>10, Zenon DEF Flags, AfterClose
<1>11. ASSUME NEW good \in BOOLEAN, CloseSettles(good)  PROVE Flags'
  BY <1>10, <1>11, SettleFlags, Zenon DEF CloseSettles
<1>12. CASE CloseFails
  BY <1>10, <1>12, AskFlags, Zenon DEF Flags, CloseFails
<1>13. ASSUME NEW good \in BOOLEAN, OrphanSettles(good)  PROVE Flags'
  BY <1>13, SettleFlags, Zenon DEF Flags, OrphanSettles, code
<1>14. CASE ReleaseLate
  BY <1>14, AskFlags, Zenon DEF Flags, ReleaseLate, BeginClose
<1>15. CASE Consume
  BY <1>15, AskFlags, Zenon DEF Flags, Consume, CloseWeb, BeginRelease, BeginClose
<1>16. CASE \E outcome \in {"ok", "error"} : OperationReturns(outcome)
  BY <1>16, Zenon DEF Flags, OperationReturns, browser
<1>17. CASE Disconnect \/ Tick \/ UNCHANGED vars
  BY <1>17, Zenon DEF Flags, Disconnect, Tick, vars, code, browser
<1> QED
  BY <1>1, <1>2, <1>3, <1>4, <1>5, <1>6, <1>7, <1>8, <1>9, <1>11, <1>12, <1>13, <1>14, <1>15,
     <1>16, <1>17, NextKinds DEF ProbeFails, OperationFails

LEMMA WordsPreserved == Words /\ [Next]_vars => Words'
<1> SUFFICES ASSUME Words, [Next]_vars PROVE Words'
  OBVIOUS
<1> USE DEF Words, Rest, Opening, Connecting
<1>1. CASE Open \/ Selected \/ SelectFails
  BY <1>1 DEF Open, Selected, SelectFails, BeginClose, Ask
<1>2. CASE Claimed \/ Initialized \/ ProbeSucceeds \/ Operate \/ AbortPending
  BY <1>2 DEF Claimed, Initialized, ProbeSucceeds, Operate, AbortPending, browser, code
<1>3. ASSUME NEW what \in {"open", "failure"}, Finish(what)  PROVE Words'
  BY <1>3 DEF Finish, CloseWeb, BeginRelease, BeginClose, Ask, End
<1>4. CASE ConnectFails
  BY <1>4 DEF ConnectFails, UndoConnect, CloseWeb, BeginRelease, BeginClose, Ask, Undo
<1>5. CASE OpenTimesOut
  BY <1>3, <1>5 DEF OpenTimesOut
<1>6. ASSUME NEW good \in BOOLEAN, ReleaseSettles(good) \/ OrphanSettles(good)  PROVE Words'
  BY <1>6 DEF ReleaseSettles, OrphanSettles, Ask, code
<1>7. ASSUME NEW good \in BOOLEAN, AfterClose(good), change' \in {change, "none", "close"}
      PROVE  Words'
  BY <1>7 DEF AfterClose, Verdict
<1>8. ASSUME NEW good \in BOOLEAN, CloseSettles(good)  PROVE Words'
  BY <1>7, <1>8 DEF CloseSettles
<1>9. CASE CloseFails
  BY <1>7, <1>9 DEF CloseFails, Ask
<1>10. CASE ReleaseLate
  BY <1>10 DEF ReleaseLate, BeginClose, Ask
<1>11. CASE Consume
  BY <1>11 DEF Consume, CloseWeb, BeginRelease, BeginClose, Ask, End
<1>12. CASE \E outcome \in {"ok", "error"} : OperationReturns(outcome)
  BY <1>12 DEF OperationReturns, browser
<1>13. CASE Disconnect \/ Tick \/ UNCHANGED vars
  BY <1>13 DEF Disconnect, Tick, vars, code, browser
<1> QED
  BY <1>1, <1>2, <1>3, <1>4, <1>5, <1>6, <1>8, <1>9, <1>10, <1>11, <1>12, <1>13, NextKinds
     DEF ProbeFails, OperationFails
LEMMA Limits ==
    /\ OpenLimit \in Nat \ {0} /\ InitLimit \in Nat \ {0} /\ CloseLimit \in Nat \ {0}
    /\ MaxAge = OpenLimit + 2 * CloseLimit + 1
    /\ \A limit \in Nat : Ticks(limit) = -1 .. limit
BY LimitsAssumption DEF MaxAge, Ticks, Off

LEMMA TimesPreserved == Times /\ [Next]_vars => Times'
<1> SUFFICES ASSUME Times, [Next]_vars PROVE Times'
  OBVIOUS
<1>1. CASE UNCHANGED timers /\ UNCHANGED age
  BY <1>1 DEF Times, timers
<1>2. CASE Open \/ Selected \/ SelectFails
  BY <1>2, Limits DEF Times, Open, Selected, SelectFails, BeginClose, Off
<1>3. CASE ConnectFails
  BY <1>3, Limits DEF Times, ConnectFails, UndoConnect, CloseWeb, BeginRelease, BeginClose, Off
<1>4. CASE Initialized \/ ProbeSucceeds
  BY <1>4, Limits DEF Times, Initialized, ProbeSucceeds, Off
<1>5. ASSUME NEW what, Finish(what)  PROVE Times'
  BY <1>5, Limits DEF Times, Finish, CloseWeb, BeginRelease, BeginClose, Off
<1>6. CASE OpenTimesOut
  BY <1>5, <1>6, Limits DEF Times, OpenTimesOut, Off
<1>7. CASE ReleaseLate \/ \E good \in BOOLEAN : ReleaseSettles(good)
  BY <1>7, Limits DEF Times, ReleaseLate, ReleaseSettles, BeginClose, Off
<1>8. ASSUME NEW good \in BOOLEAN, AfterClose(good)  PROVE Times'
  BY <1>8, Limits DEF Times, AfterClose, Off
<1>9. CASE Consume
  BY <1>9, Limits DEF Times, Consume, CloseWeb, BeginRelease, BeginClose, Off
<1>10. CASE Tick
  <2>1. /\ outer \in -1 .. OpenLimit /\ inner \in -1 .. InitLimit /\ step \in -1 .. CloseLimit
        /\ MaxAge \in Nat
    BY Limits DEF Times
  <2>2. outer' \in -1 .. OpenLimit /\ inner' \in -1 .. InitLimit /\ step' \in -1 .. CloseLimit
    BY <1>10, <2>1, Limits DEF Tick, Less
  <2>3. age' \in 0 .. MaxAge
    BY <1>10, <2>1 DEF Times, Tick
  <2> QED  BY <2>2, <2>3, Limits DEF Times
<1>11. CASE \/ Claimed \/ Operate \/ AbortPending \/ Disconnect
            \/ \E good \in BOOLEAN : OrphanSettles(good)
            \/ \E outcome \in {"ok", "error"} : OperationReturns(outcome)
            \/ UNCHANGED vars
  BY <1>1, <1>11 DEF Claimed, Operate, AbortPending, Disconnect, OrphanSettles, OperationReturns,
                     vars
<1> QED
  BY <1>2, <1>3, <1>4, <1>5, <1>6, <1>7, <1>8, <1>9, <1>10, <1>11, NextKinds
     DEF ProbeFails, OperationFails, CloseSettles, CloseFails

-----------------------------------------------------------------------------
(***************************************************************************)
(* Who owns the interface, at which await.                                 *)
(***************************************************************************)
Keeping == {"probing", "ready", "operating", "aborted", "spent"}
Quiet   == {"maxlun", "probing", "ready", "operating"}

Owned ==
    /\ claimed <=> at = "maxlun"
    /\ owner <=> at \in Keeping
    /\ client <=> at \in Keeping \ {"probing"}

\* No change of the device is under way while the session uses it.
Settled ==
    /\ at \in Quiet => change = "none" /\ (opened => interface)
    /\ change = "claim" => opened

(***************************************************************************)
(* How old the open is: it spends the outer limit first, then one deadline *)
(* on the release and one on the close.                                    *)
(***************************************************************************)
Clock ==
    /\ at \in Opening => outer >= 0 /\ age + outer = OpenLimit
    /\ at = "endRelease" /\ purpose = "open" =>
          step >= 0 /\ age + step <= OpenLimit + CloseLimit
    /\ at = "endClose" /\ purpose = "open" =>
          step >= 0 /\ age + step <= OpenLimit + 2 * CloseLimit

IInv == Flags /\ Words /\ Times /\ Owned /\ Settled /\ Clock

LEMMA InitIInv == Init => IInv
<1> SUFFICES ASSUME Init PROVE IInv
  OBVIOUS
<1>1. Flags
  BY Zenon DEF Init, Flags
<1>2. Words /\ Clock
  BY DEF Init, Words, Clock, Rest, Opening, Connecting
<1>3. Times
  BY Limits DEF Init, Times, Off
<1>4. Owned
  <2>1. ~ claimed /\ ~ owner /\ ~ client
    BY Zenon DEF Init
  <2> QED  BY <2>1 DEF Init, Owned, Keeping
<1>5. Settled
  BY DEF Init, Settled, Quiet
<1> QED  BY <1>1, <1>2, <1>3, <1>4, <1>5 DEF IInv

LEMMA OwnedPreserved == Flags /\ Words /\ Owned /\ [Next]_vars => Owned'
<1> SUFFICES ASSUME Flags, Words, Owned, [Next]_vars PROVE Owned'
  OBVIOUS
<1>1. CASE Open \/ Selected \/ SelectFails
  <2>1. UNCHANGED <<claimed, owner, client>>
    BY <1>1 DEF Open, Selected, SelectFails
  <2>2. at \in {"none", "selecting"} /\ at' \in {"selecting", "claiming", "endClose"}
    BY <1>1 DEF Open, Selected, SelectFails, BeginClose
  <2> QED  BY <2>1, <2>2 DEF Owned, Keeping
<1>2. CASE Claimed
  <2>1. at = "claiming" /\ at' = "maxlun" /\ claimed' /\ UNCHANGED <<owner, client>>
    BY <1>2, Zenon DEF Claimed
  <2> QED  BY <2>1 DEF Owned, Keeping
<1>3. CASE ConnectFails
  <2>1. /\ at \in {"claiming", "maxlun"} /\ ~ claimed' /\ UNCHANGED <<owner, client>>
        /\ at' \in {"undoRelease", "undoClose"}
    <3>1. ~ claimed' /\ UNCHANGED <<owner, client>>
      BY <1>3, Zenon DEF ConnectFails, UndoConnect
    <3>2. at \in {"claiming", "maxlun"} /\ at' \in {"undoRelease", "undoClose"}
      BY <1>3 DEF ConnectFails, UndoConnect, CloseWeb, BeginRelease, BeginClose, Undo
    <3> QED  BY <3>1, <3>2
  <2> QED  BY <2>1 DEF Owned, Keeping
<1>4. CASE Initialized
  <2>1. at = "maxlun" /\ at' = "probing" /\ ~ claimed' /\ owner' /\ UNCHANGED client
    BY <1>4, Zenon DEF Initialized
  <2> QED  BY <2>1 DEF Owned, Keeping
<1>5. CASE ProbeSucceeds
  <2>1. at = "probing" /\ at' = "ready" /\ client' /\ UNCHANGED <<claimed, owner>>
    BY <1>5, Zenon DEF ProbeSucceeds
  <2> QED  BY <2>1 DEF Owned, Keeping
<1>6. ASSUME NEW what, Finish(what)  PROVE Owned'
  <2>1. ~ claimed' /\ ~ owner' /\ ~ client'
    BY <1>6, Zenon DEF Finish
  <2>2. at' \in {"endRelease", "endClose"}
    BY <1>6 DEF Finish, CloseWeb, BeginRelease, BeginClose, End
  <2> QED  BY <2>1, <2>2 DEF Owned, Keeping
<1>7. CASE OpenTimesOut
  <2>1. CASE claimed
    <3>1. ~ claimed' /\ at' = "endClose" /\ UNCHANGED <<owner, client>>
      BY <1>7, <2>1, Zenon DEF OpenTimesOut
    <3> QED  BY <2>1, <3>1 DEF Owned, Keeping
  <2> QED  BY <1>6, <1>7, <2>1 DEF OpenTimesOut
<1>8. CASE ReleaseLate \/ CloseFails
           \/ \E good \in BOOLEAN : ReleaseSettles(good) \/ CloseSettles(good)
  <2>1. /\ UNCHANGED <<claimed, owner, client>>
        /\ at \in {"undoRelease", "endRelease", "undoClose", "endClose"}
        /\ at' \in {"undoClose", "endClose", "none"}
    BY <1>8 DEF ReleaseLate, CloseFails, ReleaseSettles, CloseSettles, BeginClose, AfterClose
  <2> QED  BY <2>1 DEF Owned, Keeping
<1>9. CASE Operate \/ AbortPending \/ \E outcome \in {"ok", "error"} : OperationReturns(outcome)
  <2>1. /\ UNCHANGED <<claimed, owner, client>>
        /\ at \in Keeping \ {"probing"} /\ at' \in Keeping \ {"probing"}
    BY <1>9 DEF Operate, AbortPending, OperationReturns, code, Keeping
  <2> QED  BY <2>1 DEF Owned, Keeping
<1>10. CASE Consume
  <2>1. ~ owner' /\ ~ client' /\ UNCHANGED claimed
    BY <1>10, Zenon DEF Consume
  <2>2. at \in {"ready", "spent", "none"} /\ at' \in {"endRelease", "endClose"}
    BY <1>10 DEF Consume, CloseWeb, BeginRelease, BeginClose, End
  <2> QED  BY <2>1, <2>2 DEF Owned, Keeping
<1>11. CASE Disconnect \/ Tick \/ UNCHANGED vars \/ \E good \in BOOLEAN : OrphanSettles(good)
  <2>1. UNCHANGED <<at, claimed, owner, client>>
    BY <1>11 DEF Disconnect, Tick, vars, code, OrphanSettles
  <2> QED  BY <2>1 DEF Owned
<1> QED
  BY <1>1, <1>2, <1>3, <1>4, <1>5, <1>6, <1>7, <1>8, <1>9, <1>10, <1>11, NextKinds
     DEF ProbeFails, OperationFails

LEMMA SettledPreserved == Flags /\ Words /\ Owned /\ Settled /\ [Next]_vars => Settled'
<1> SUFFICES ASSUME Flags, Words, Owned, Settled, [Next]_vars PROVE Settled'
  OBVIOUS
\* The steps that leave a quiet place behind.
<1>1. ASSUME at' \notin Quiet, change' = "claim" => opened'  PROVE Settled'
  BY <1>1 DEF Settled
<1>2. CASE Open
  <2>1. at' = "selecting" /\ UNCHANGED opened /\ change' \in {change, "open"}
    BY <1>2 DEF Open, Ask
  <2> QED  BY <1>1, <2>1 DEF Settled, Quiet
<1>3. CASE Selected
  <2>1. at' = "claiming" /\ opened'
    BY <1>3, Zenon DEF Selected
  <2> QED  BY <1>1, <2>1 DEF Quiet
<1>4. CASE SelectFails
  <2>1. at' = "endClose" /\ (change' \in {"close", "none"} \/ UNCHANGED <<change, opened>>)
    BY <1>4 DEF SelectFails, BeginClose, Ask
  <2> QED  BY <1>1, <2>1 DEF Settled, Quiet
<1>5. CASE Claimed
  <2>1. interface' /\ change' = "none"
    BY <1>5, Zenon DEF Claimed, Settle
  <2> QED  BY <2>1 DEF Settled
<1>6. CASE ConnectFails
  <2>1. at' \in {"undoRelease", "undoClose"} /\ change' \in {change, "release", "close", "none"}
    BY <1>6 DEF ConnectFails, UndoConnect, CloseWeb, BeginRelease, BeginClose, Undo, Ask
  <2>2. UNCHANGED opened
    BY <1>6 DEF ConnectFails, UndoConnect
  <2> QED  BY <1>1, <2>1, <2>2 DEF Settled, Quiet
<1>7. CASE Initialized \/ ProbeSucceeds
  <2>1. at \in Quiet /\ UNCHANGED <<opened, interface, change>>
    BY <1>7 DEF Initialized, ProbeSucceeds, Quiet, browser
  <2> QED  BY <2>1 DEF Settled
<1>8. ASSUME NEW what, Finish(what)  PROVE Settled'
  <2>1. at' \in {"endRelease", "endClose"} /\ change' \in {change, "release", "close", "none"}
    BY <1>8 DEF Finish, CloseWeb, BeginRelease, BeginClose, End, Ask
  <2>2. UNCHANGED opened
    BY <1>8 DEF Finish
  <2> QED  BY <1>1, <2>1, <2>2 DEF Settled, Quiet
<1>9. CASE OpenTimesOut
  <2>1. CASE claimed
    <3>1. at' = "endClose" /\ change' \in {"release", "none"}
      BY <1>9, <2>1 DEF OpenTimesOut
    <3> QED  BY <1>1, <3>1 DEF Quiet
  <2> QED  BY <1>8, <1>9, <2>1 DEF OpenTimesOut
<1>10. CASE ReleaseLate \/ \E good \in BOOLEAN : ReleaseSettles(good)
  <2>1. at' \in {"undoClose", "endClose"} /\ change' \in {change, "close", "none"}
    BY <1>10 DEF ReleaseLate, ReleaseSettles, BeginClose, Ask
  <2>2. UNCHANGED opened
    BY <1>10 DEF ReleaseLate, ReleaseSettles
  <2> QED  BY <1>1, <2>1, <2>2 DEF Settled, Quiet
<1>11. CASE CloseFails \/ \E good \in BOOLEAN : CloseSettles(good)
  <2>1. at' \in {"endClose", "none"}
    BY <1>11 DEF CloseFails, CloseSettles, AfterClose
  <2>2. change' \in {"close", "none"} \/ UNCHANGED <<change, opened>>
    BY <1>11 DEF CloseFails, CloseSettles, Ask
  <2> QED  BY <1>1, <2>1, <2>2 DEF Settled, Quiet
<1>12. CASE Operate
  <2>1. at \in Quiet /\ UNCHANGED <<opened, interface, change>>
    BY <1>12 DEF Operate, Quiet, browser
  <2> QED  BY <2>1 DEF Settled
<1>13. CASE AbortPending
  <2>1. at' = "aborted" /\ UNCHANGED opened /\ change' \in {change, "close"}
    BY <1>13 DEF AbortPending
  <2> QED  BY <1>1, <2>1 DEF Settled, Quiet
<1>14. ASSUME NEW outcome \in {"ok", "error"}, OperationReturns(outcome)  PROVE Settled'
  <2>1. UNCHANGED <<opened, interface, change>> /\ (at \in Quiet \/ at' \notin Quiet)
    BY <1>14 DEF OperationReturns, browser, Quiet
  <2> QED  BY <2>1 DEF Settled
<1>15. CASE Consume
  <2>1. at' \in {"endRelease", "endClose"} /\ change' \in {change, "release", "close", "none"}
    BY <1>15 DEF Consume, CloseWeb, BeginRelease, BeginClose, End, Ask
  <2>2. UNCHANGED opened
    BY <1>15 DEF Consume
  <2> QED  BY <1>1, <2>1, <2>2 DEF Settled, Quiet
<1>16. CASE Disconnect
  <2>1. ~ opened' /\ change' = "none"
    BY <1>16, Zenon DEF Disconnect
  <2> QED  BY <2>1 DEF Settled
<1>17. ASSUME NEW good \in BOOLEAN, OrphanSettles(good)  PROVE Settled'
  <2>1. change # "none" /\ change' = "none" /\ UNCHANGED at
    BY <1>17 DEF OrphanSettles
  <2> QED  BY <1>1, <2>1 DEF Settled
<1>18. CASE Tick \/ UNCHANGED vars
  <2>1. UNCHANGED <<at, opened, interface, change>>
    BY <1>18 DEF Tick, vars, browser
  <2> QED  BY <2>1 DEF Settled
<1> QED
  BY <1>2, <1>3, <1>4, <1>5, <1>6, <1>7, <1>8, <1>9, <1>10, <1>11, <1>12, <1>13, <1>14, <1>15,
     <1>16, <1>17, <1>18, NextKinds DEF ProbeFails, OperationFails

\* The three parts of Clock, for an open that is given up and one that goes on.
LEMMA ClockPreserved == Words /\ Times /\ Clock /\ [Next]_vars => Clock'
<1> SUFFICES ASSUME Words, Times, Clock, [Next]_vars PROVE Clock'
  OBVIOUS
<1> DEFINE Live == outer \in Int /\ inner \in Int /\ step \in Int /\ age \in Nat
<1>0. Live /\ OpenLimit \in Nat \ {0} /\ InitLimit \in Nat \ {0} /\ CloseLimit \in Nat \ {0}
  BY Limits DEF Times
<1> USE <1>0
\* Steps within the open: its own deadline is untouched, or armed afresh.
<1>1. CASE Open
  BY <1>1 DEF Clock, Open, Opening, Connecting
<1>2. ASSUME at \in Opening, at' \in Opening, UNCHANGED <<outer, age>>  PROVE Clock'
  BY <1>2 DEF Clock, Opening, Connecting
<1>3. CASE Selected \/ Claimed \/ ConnectFails \/ Initialized
  <2>1. at \in Opening /\ at' \in Opening /\ UNCHANGED <<outer, age>>
    BY <1>3 DEF Selected, Claimed, ConnectFails, UndoConnect, Initialized, CloseWeb,
                BeginRelease, BeginClose, Undo, Opening, Connecting, timers
  <2> QED  BY <1>2, <2>1
\* The open is over, for good or ill.
<1>4. ASSUME at \in Opening, at' \in {"endRelease", "endClose"}, step' = CloseLimit, UNCHANGED age
      PROVE  Clock'
  BY <1>4 DEF Clock, Opening, Connecting
<1>5. CASE SelectFails
  <2>1. /\ at = "selecting" /\ at' = "endClose" /\ step' = CloseLimit /\ UNCHANGED age
    BY <1>5 DEF SelectFails, BeginClose
  <2> QED  BY <1>4, <2>1 DEF Opening
<1>6. ASSUME NEW what, Finish(what)
      PROVE  at' \in {"endRelease", "endClose"} /\ step' = CloseLimit /\ UNCHANGED age
  BY <1>6 DEF Finish, CloseWeb, BeginRelease, BeginClose, End
<1>7. CASE ProbeFails
  BY <1>4, <1>6, <1>7 DEF ProbeFails, Opening
<1>8. CASE OpenTimesOut
  <2>1. CASE claimed
    BY <1>4, <1>8, <2>1 DEF OpenTimesOut
  <2> QED  BY <1>4, <1>6, <1>8, <2>1 DEF OpenTimesOut
<1>9. ASSUME at' \notin Opening \cup {"endRelease", "endClose"}  PROVE Clock'
  BY <1>9 DEF Clock
<1>10. CASE \/ ProbeSucceeds \/ Operate \/ AbortPending
            \/ \E outcome \in {"ok", "error"} : OperationReturns(outcome)
  <2>1. at' \in {"ready", "operating", "aborted", "spent"}
    BY <1>10 DEF ProbeSucceeds, Operate, AbortPending, OperationReturns
  <2> QED  BY <1>9, <2>1 DEF Opening, Connecting
\* close_web: after the release comes the close, with a deadline of its own.
<1>11. CASE ReleaseLate \/ \E good \in BOOLEAN : ReleaseSettles(good)
  <2>1. /\ \/ at = "undoRelease" /\ at' = "undoClose"
           \/ at = "endRelease" /\ at' = "endClose"
        /\ step' = CloseLimit /\ UNCHANGED <<outer, age, purpose>>
    BY <1>11 DEF ReleaseLate, ReleaseSettles, BeginClose
  <2> QED  BY <1>2, <2>1 DEF Clock, Opening, Connecting
<1>12. ASSUME NEW good \in BOOLEAN, AfterClose(good), at \in {"undoClose", "endClose"}
       PROVE  Clock'
  <2>1. CASE at = "undoClose"
    <3>1. at' = "endClose" /\ step' = CloseLimit /\ UNCHANGED age
      BY <1>12, <2>1 DEF AfterClose
    <3> QED  BY <1>4, <2>1, <3>1 DEF Opening, Connecting
  <2>2. CASE at = "endClose"
    <3>1. at' = "none"
      BY <1>12, <2>2 DEF AfterClose
    <3> QED  BY <1>9, <3>1 DEF Opening, Connecting
  <2> QED  BY <1>12, <2>1, <2>2
<1>13. CASE CloseFails \/ \E good \in BOOLEAN : CloseSettles(good)
  BY <1>12, <1>13 DEF CloseFails, CloseSettles
\* An operation or a close that ends a session is no open.
<1>14. ASSUME at' \in {"endRelease", "endClose"}, purpose' # "open"  PROVE Clock'
  BY <1>14 DEF Clock, Opening, Connecting
<1>15. CASE OperationFails
  <2>1. purpose' = "failure"
    BY <1>15 DEF OperationFails, Finish
  <2> QED  BY <1>6, <1>14, <1>15, <2>1 DEF OperationFails
<1>16. CASE Consume
  <2>1. purpose' = "close" /\ at' \in {"endRelease", "endClose"}
    BY <1>16 DEF Consume, CloseWeb, BeginRelease, BeginClose, End
  <2> QED  BY <1>14, <2>1
<1>17. CASE Disconnect \/ UNCHANGED vars \/ \E good \in BOOLEAN : OrphanSettles(good)
  <2>1. UNCHANGED <<at, purpose, outer, step, age>>
    BY <1>17 DEF Disconnect, vars, OrphanSettles, code, timers
  <2> QED  BY <2>1 DEF Clock
\* No deadline is passed by: the clock stops at an expired one.
<1>18. CASE Tick
  <2>1. outer # 0 /\ step # 0 /\ UNCHANGED <<at, purpose>>
    BY <1>18 DEF Tick, Expired, code
  <2>2. /\ outer' = Less(outer) /\ step' = Less(step)
        /\ age' = IF age < MaxAge THEN age + 1 ELSE age
    BY <1>18 DEF Tick
  <2>3. CASE at \in Opening
    BY <2>1, <2>2, <2>3, Limits DEF Clock, Less, Opening, Connecting
  <2>4. CASE at \notin Opening
    BY <2>1, <2>2, <2>4, Limits DEF Clock, Less
  <2> QED  BY <2>3, <2>4
<1> QED
  BY <1>1, <1>3, <1>5, <1>7, <1>8, <1>10, <1>11, <1>13, <1>15, <1>16, <1>17, <1>18, NextKinds

-----------------------------------------------------------------------------
\* What a managed session keeps to at every moment, whatever the browser and
\* the device do: the inductive invariant of the whole of its life.
THEOREM InvariantHolds == Spec => []IInv
<1>1. IInv /\ [Next]_vars => IInv'
  BY FlagsPreserved, WordsPreserved, TimesPreserved, OwnedPreserved, SettledPreserved,
     ClockPreserved DEF IInv
<1> QED  BY <1>1, InitIInv, PTL DEF Spec

\* Every variable keeps its type; no deadline is left below "not armed" or
\* above its limit, and the age stays within its bound.
THEOREM TypeCorrect == Spec => []TypeOK
<1>1. IInv => TypeOK
  BY TypeParts DEF IInv
<1> QED  BY <1>1, InvariantHolds, PTL

\* A session that takes operations holds the handle its teardown will need,
\* over a claimed interface that no change still under way takes from it, and
\* whatever earlier opens left behind (managed.rs:80-121).
THEOREM ReadySessionOwns == Spec => []ReadyIsOwned
<1>1. IInv => ReadyIsOwned
  <2> SUFFICES ASSUME IInv, at \in {"ready", "operating"}
               PROVE  /\ owner /\ client /\ ~ claimed
                      /\ opened => interface /\ change = "none"
    BY DEF ReadyIsOwned
  <2>1. owner /\ client /\ ~ claimed
    BY DEF IInv, Owned, Keeping
  <2>2. opened => interface /\ change = "none"
    BY DEF IInv, Settled, Quiet
  <2> QED  BY <2>1, <2>2
<1> QED  BY <1>1, InvariantHolds, PTL

\* An open returns within its limit and one deadline for the release and one
\* for the close, however the time it spent before was divided
\* (managed.rs:80-123).
THEOREM OpenReturnsInTime == Spec => []OpenIsBounded
<1>1. IInv => OpenIsBounded
  <2> SUFFICES ASSUME IInv,
                      at \in Opening \/ (at \in {"endRelease", "endClose"} /\ purpose = "open")
               PROVE  age <= OpenLimit + 2 * CloseLimit
    BY DEF OpenIsBounded
  <2>1. outer \in Int /\ step \in Int /\ age \in Nat
    BY Limits DEF IInv, Times
  <2> QED  BY <2>1, Limits DEF IInv, Clock
<1> QED  BY <1>1, InvariantHolds, PTL

\* Nothing but a close that was seen to succeed ends in a clean receipt.
LEMMA ReceiptPreserved == Words /\ ReceiptIsTrue /\ [Next]_vars => ReceiptIsTrue'
<1> SUFFICES ASSUME Words, ReceiptIsTrue, [Next]_vars PROVE ReceiptIsTrue'
  OBVIOUS
<1>1. ASSUME at' # "none"  PROVE ReceiptIsTrue'
  BY <1>1 DEF ReceiptIsTrue
<1>2. CASE Open \/ Selected \/ Claimed \/ Initialized \/ ProbeSucceeds \/ Operate \/ AbortPending
  BY <1>1, <1>2 DEF Open, Selected, Claimed, Initialized, ProbeSucceeds, Operate, AbortPending
<1>3. CASE SelectFails \/ ReleaseLate \/ \E good \in BOOLEAN : ReleaseSettles(good)
  BY <1>1, <1>3 DEF SelectFails, ReleaseLate, ReleaseSettles, BeginClose
<1>4. ASSUME \E what \in {"open", "failure"} : Finish(what)  PROVE ReceiptIsTrue'
  BY <1>1, <1>4 DEF Finish, CloseWeb, BeginRelease, BeginClose, End
<1>5. CASE OpenTimesOut \/ ProbeFails \/ OperationFails
  BY <1>1, <1>4, <1>5 DEF OpenTimesOut, ProbeFails, OperationFails
<1>6. CASE ConnectFails \/ Consume
  BY <1>1, <1>6 DEF ConnectFails, UndoConnect, Consume, CloseWeb, BeginRelease, BeginClose,
                    Undo, End
<1>7. CASE \E outcome \in {"ok", "error"} : OperationReturns(outcome)
  BY <1>1, <1>7 DEF OperationReturns
<1>8. ASSUME NEW good \in BOOLEAN, CloseSettles(good)  PROVE ReceiptIsTrue'
  <2>1. CASE at = "undoClose"
    BY <1>1, <1>8, <2>1 DEF CloseSettles, AfterClose
  <2>2. CASE at = "endClose" /\ good
    <3>1. ~ opened' /\ ~ interface'
      BY <1>8, <2>2, Zenon DEF CloseSettles, Settle
    <3>2. change' = "none"
      BY <1>8, <2>2 DEF CloseSettles
    <3> QED  BY <3>1, <3>2 DEF ReceiptIsTrue
  <2>3. CASE at = "endClose" /\ ~ good
    <3>1. trouble'
      BY <1>8, <2>3, Zenon DEF CloseSettles, AfterClose
    <3>2. result' = Verdict
      BY <1>8, <2>3 DEF CloseSettles, AfterClose
    <3> QED  BY <3>1, <3>2 DEF ReceiptIsTrue, Verdict
  <2> QED  BY <1>8, <2>1, <2>2, <2>3 DEF CloseSettles
<1>9. CASE CloseFails
  <2>1. CASE at = "undoClose"
    BY <1>1, <1>9, <2>1 DEF CloseFails, AfterClose
  <2>2. CASE at = "endClose"
    <3>1. trouble'
      BY <1>9, <2>2, Zenon DEF CloseFails, AfterClose
    <3>2. result' = Verdict
      BY <1>9, <2>2 DEF CloseFails, AfterClose
    <3> QED  BY <3>1, <3>2 DEF ReceiptIsTrue, Verdict
  <2> QED  BY <1>9, <2>1, <2>2 DEF CloseFails
\* Between calls the browser can only lose the device, or settle a change.
<1>10. CASE Disconnect
  BY <1>10 DEF Disconnect, ReceiptIsTrue, code
<1>11. ASSUME NEW good \in BOOLEAN, OrphanSettles(good)  PROVE ReceiptIsTrue'
  <2>1. change # "none" /\ UNCHANGED <<at, result>>
    BY <1>11 DEF OrphanSettles, code
  <2> QED  BY <2>1 DEF ReceiptIsTrue
<1>12. CASE Tick \/ UNCHANGED vars
  BY <1>12 DEF Tick, vars, code, browser, ReceiptIsTrue
<1> QED
  BY <1>2, <1>3, <1>5, <1>6, <1>7, <1>8, <1>9, <1>10, <1>11, <1>12, NextKinds

\* A receipt without a word of cleanup trouble means that the device is closed,
\* the interface free and no change on its way, also when the broker closed the
\* device under the session (lib.rs:20-51 of nusb-scsi, managed.rs:205-229 and
\* 253-260, filesystem.js:66-69 and 127-132).
THEOREM ReceiptsAreTrue == Spec => []ReceiptIsTrue
<1>1. Init => ReceiptIsTrue
  BY DEF Init, ReceiptIsTrue
<1>2. IInv /\ ReceiptIsTrue /\ [Next]_vars => ReceiptIsTrue'
  BY ReceiptPreserved DEF IInv
<1> QED  BY <1>1, <1>2, InvariantHolds, PTL DEF Spec

=============================================================================
