--------------------------- MODULE NativeProbeProofs ---------------------------
(***************************************************************************)
(* The probe's exit code is evidence, and its teardown lets go of the      *)
(* interface last, over every transport that meets CommandContract.        *)
(***************************************************************************)
EXTENDS NativeProbe, TLAPS

Early == {"start", "claimed", "connecting"}
Late  == {"draining", "releasing", "exited"}

(***************************************************************************)
(* The inductive invariant.  An "ok" of the commands is remembered from    *)
(* the last command to the exit, while the device may work on: what it     *)
(* says must stay true until then.                                         *)
(***************************************************************************)
EarlyIsQuiet == stage \in Early => ~ pending
ResultSoFar ==
    /\ stage \in Early \cup {"commands"} => result = "none"
    /\ stage = "sense" => result = "error"
    /\ stage \in {"draining", "releasing"} => result \in {"ok", "error"}
OkIsComplete ==
    result = "ok" =>
        /\ stage \in Late /\ next = Len(Commands)
        /\ outcome = "ok" /\ effect = "full" /\ phase = "retired"
DrainTold == (stage \in {"releasing", "exited"} /\ pending) => drained = "error"
ExitIsLast == exit # "none" => stage = "exited"
ExitIsEarned == exit = "0" => result = "ok" /\ ~ pending /\ ~ interface

IInv ==
    /\ TypeOK
    /\ EarlyIsQuiet /\ ResultSoFar /\ OkIsComplete
    /\ DrainTold /\ ExitIsLast /\ ExitIsEarned

LEMMA CommandList == Len(Commands) = 6 /\ Commands[6] = "eject"
BY DEF Commands

LEMMA InitEstablishes == Init => IInv
<1> SUFFICES ASSUME Init PROVE IInv
  OBVIOUS
<1>1. pending \in BOOLEAN /\ interface \in BOOLEAN /\ ~ pending /\ ~ interface
  BY Zenon DEF Init
<1>2. TypeOK
  BY <1>1, CommandList DEF Init, TypeOK, Verdicts
<1> QED
  BY <1>1, <1>2 DEF Init, IInv, EarlyIsQuiet, ResultSoFar, OkIsComplete, DrainTold, ExitIsLast,
                    ExitIsEarned, Early

-----------------------------------------------------------------------------
LEMMA FlagsStayBoolean ==
    ASSUME TypeOK, Next
    PROVE  pending' \in BOOLEAN /\ interface' \in BOOLEAN
<1> USE DEF TypeOK
<1>1. CASE Claim \/ GiveUp \/ Connect \/ Connected \/ ConnectFails
  BY <1>1, Zenon DEF Claim, GiveUp, Connect, Connected, ConnectFails
<1>2. CASE Issue \/ DeviceWorks \/ Succeeds \/ Refused
  BY <1>2, Zenon DEF Issue, DeviceWorks, Succeeds, Refused, probe
<1>3. CASE CommandEnds
  BY <1>3, Zenon DEF CommandEnds, Doubt, Sensed
<1>4. CASE Reap \/ Drained \/ DrainTimesOut
  BY <1>4, Zenon DEF Reap, Drained, DrainTimesOut, Drain
<1>5. ASSUME NEW verdict \in {"ok", "error"}, Release(verdict)
      PROVE  pending' \in BOOLEAN /\ interface' \in BOOLEAN
  BY <1>5 DEF Release
<1> QED  BY <1>1, <1>2, <1>3, <1>4, <1>5 DEF Next, Teardown

\* Up to the connected session.
LEMMA ConnectingPreserves ==
    ASSUME IInv, Claim \/ GiveUp \/ Connect \/ Connected \/ ConnectFails
    PROVE  IInv'
<1>1. pending' \in BOOLEAN /\ interface' \in BOOLEAN
  BY FlagsStayBoolean DEF IInv, Next
<1>2. /\ stage \in Early /\ ~ pending /\ result = "none"
      /\ UNCHANGED <<next, pending, drained, released, engine>>
  BY DEF IInv, EarlyIsQuiet, ResultSoFar, Claim, GiveUp, Connect, Connected, ConnectFails, Early
<1>3. \/ stage' \in {"claimed", "connecting", "commands"} /\ result' = "none" /\ exit' = exit
      \/ stage' = "exited" /\ result' = "none" /\ exit' = "1"
      \/ stage' = "releasing" /\ result' = "error" /\ exit' = exit
  BY <1>2 DEF Claim, GiveUp, Connect, Connected, ConnectFails
<1>4. exit = "none"
  BY <1>2 DEF IInv, ExitIsLast, TypeOK, Early
<1>5. TypeOK'
  BY <1>1, <1>2, <1>3, <1>4 DEF IInv, TypeOK, Verdicts, engine
<1> QED
  BY <1>2, <1>3, <1>4, <1>5 DEF IInv, EarlyIsQuiet, ResultSoFar, OkIsComplete, DrainTold,
                                ExitIsLast, ExitIsEarned, Early, Late

\* Commands begin, and the device works on them.
LEMMA WorkPreserves ==
    ASSUME IInv, Issue \/ DeviceWorks
    PROVE  IInv'
<1>1. pending' \in BOOLEAN /\ interface' \in BOOLEAN
  BY FlagsStayBoolean DEF IInv, Next
<1>2. CASE Issue
  <2>1. /\ stage \in {"commands", "sense"} /\ phase' = "busy"
        /\ UNCHANGED <<stage, next, interface, result, drained, released, exit>>
    BY <1>2 DEF Issue, Transport!Begin
  <2>2. TypeOK'
    BY <1>1, <2>1 DEF IInv, TypeOK
  <2> QED
    BY <2>1, <2>2 DEF IInv, EarlyIsQuiet, ResultSoFar, OkIsComplete, DrainTold, ExitIsLast,
                      ExitIsEarned, Early, Late
<1>3. CASE DeviceWorks
  <2>1. /\ UNCHANGED <<stage, next, pending, interface, result, drained, released, exit>>
        /\ UNCHANGED <<phase, outcome>> /\ (effect = "full" => effect' = "full")
    BY <1>3 DEF DeviceWorks, Transport!Work, Transport!Grows, probe
  <2>2. TypeOK'
    BY <2>1 DEF IInv, TypeOK
  <2> QED
    BY <2>1, <2>2 DEF IInv, EarlyIsQuiet, ResultSoFar, OkIsComplete, DrainTold, ExitIsLast,
                      ExitIsEarned
<1> QED  BY <1>2, <1>3

\* Where a command leaves the probe: at the next one, before the request for
\* sense data, or before the drain, with an "ok" only after the eject.
CommandOver ==
    /\ next' \in 1 .. 6
    /\ pending' => phase' # "ready"
    /\ \/ stage' = "commands" /\ result' = "none"
       \/ stage' = "sense" /\ phase' = "ready" /\ result' = "error"
       \/ stage' = "draining" /\ result' = "error"
       \/ /\ stage' = "draining" /\ result' = "ok"
          /\ next' = 6 /\ outcome' = "ok" /\ effect' = "full" /\ phase' = "retired"

\* Commands end.
LEMMA CommandsPreserve ==
    ASSUME IInv, Succeeds \/ Refused \/ CommandEnds
    PROVE  IInv'
<1>1. pending' \in BOOLEAN /\ interface' \in BOOLEAN
  BY FlagsStayBoolean DEF IInv, Next
<1>2. /\ stage \in {"commands", "sense"} /\ exit = "none" /\ result # "ok"
      /\ UNCHANGED <<interface, drained, released, exit>>
  BY DEF Succeeds, Refused, CommandEnds, Doubt, Sensed, IInv, ExitIsLast, OkIsComplete, Late, TypeOK
<1>3. CommandOver
  <2>1. CASE Succeeds
    <3>1. /\ stage = "commands" /\ result = "none" /\ next \in 1 .. 6 /\ pending' = FALSE
          /\ phase' = IF Commands[next] = "eject" THEN "retired" ELSE "ready"
          /\ outcome' = "ok" /\ effect' = "full"
      BY <2>1, CommandList DEF Succeeds, Transport!Succeed, IInv, TypeOK, ResultSoFar
    <3>2. ~ pending'
      BY <3>1, Zenon
    <3>3. CASE next < 6 /\ next' = next + 1 /\ UNCHANGED <<stage, result>>
      BY <3>1, <3>2, <3>3 DEF CommandOver
    <3>4. CASE next = 6 /\ AfterCommands("ok") /\ UNCHANGED next
      BY <3>1, <3>2, <3>4, CommandList DEF AfterCommands, CommandOver
    <3>5. CASE Commands[next] = "capacity" /\ AfterCommands("error") /\ UNCHANGED next
      BY <3>1, <3>2, <3>5 DEF AfterCommands, CommandOver
    <3> QED  BY <2>1, <3>3, <3>4, <3>5, CommandList DEF Succeeds
  <2>2. CASE Refused
    <3>1. ~ pending'
      BY <2>2, Zenon DEF Refused
    <3> QED
      BY <2>2, <3>1, CommandList DEF Refused, Transport!Refused, AfterCommands, CommandOver, IInv,
                             TypeOK
  <2>3. ASSUME NEW late \in BOOLEAN, Doubt(late) PROVE CommandOver
    <3>1. phase' = "retired" /\ AfterCommands("error") /\ UNCHANGED next
      BY <2>3 DEF Doubt, Transport!Doubt
    <3> QED  BY <3>1, CommandList DEF AfterCommands, CommandOver, IInv,
                             TypeOK
  <2>4. ASSUME NEW late \in BOOLEAN, Sensed(late) PROVE CommandOver
    <3>1. stage = "sense" /\ stage' = "draining" /\ UNCHANGED <<next, result>>
      BY <2>4 DEF Sensed
    <3>2. phase' = "retired" \/ ~ pending'
      BY <2>4 DEF Sensed, Transport!Doubt
    <3> QED  BY <3>1, <3>2, CommandList DEF CommandOver, IInv, TypeOK, ResultSoFar
  <2> QED  BY <2>1, <2>2, <2>3, <2>4 DEF CommandEnds
<1>4. TypeOK'
  BY <1>1, <1>2, <1>3, CommandList DEF CommandOver, IInv, TypeOK, Verdicts
<1> QED
  BY <1>2, <1>3, <1>4, CommandList DEF CommandOver, IInv, EarlyIsQuiet, ResultSoFar, OkIsComplete,
                       DrainTold, ExitIsLast, ExitIsEarned, Early, Late

\* Teardown.
LEMMA DrainingPreserves ==
    ASSUME IInv, Reap \/ Drained \/ DrainTimesOut
    PROVE  IInv'
<1>1. pending' \in BOOLEAN /\ interface' \in BOOLEAN
  BY FlagsStayBoolean DEF IInv, Next
<1>2. /\ stage = "draining"
      /\ UNCHANGED <<next, interface, result, released, exit, engine>>
  BY DEF Reap, Drained, DrainTimesOut, Drain
<1>3. \/ stage' = "draining" /\ drained' = drained
      \/ stage' = "releasing" /\ drained' = "ok" /\ ~ pending'
      \/ stage' = "releasing" /\ drained' = "error"
  BY Zenon DEF Reap, Drained, DrainTimesOut, Drain
<1>4. pending' => pending
  BY Zenon DEF Reap, Drained, DrainTimesOut, Drain
<1>5. exit' = "none"
  BY <1>2 DEF IInv, TypeOK, ExitIsLast
<1>6. DrainTold'
  BY <1>3, Zenon DEF DrainTold
<1>7. TypeOK'
  BY <1>1, <1>2, <1>3, <1>4 DEF IInv, TypeOK, Verdicts, engine
<1> QED
  BY <1>2, <1>3, <1>5, <1>6, <1>7 DEF IInv, EarlyIsQuiet, ResultSoFar, OkIsComplete, ExitIsLast,
                                ExitIsEarned, Early, Late, engine

LEMMA ReleasePreserves ==
    ASSUME IInv, NEW verdict \in {"ok", "error"}, Release(verdict)
    PROVE  IInv'
<1>1. pending' \in BOOLEAN /\ interface' \in BOOLEAN
  BY FlagsStayBoolean DEF IInv, Next, Teardown
<1>2. /\ stage = "releasing" /\ stage' = "exited" /\ released' = verdict
      /\ UNCHANGED <<next, pending, result, drained, engine>>
      /\ exit' = ExitCode
  BY DEF Release
<1>3. /\ exit' \in {"0", "1"}
      /\ exit' = "0" => result # "error" /\ drained # "error" /\ verdict # "error"
  BY <1>2 DEF ExitCode
<1>4. verdict # "error" => ~ interface'
  BY DEF Release
<1>5. TypeOK'
  BY <1>1, <1>2, <1>3 DEF IInv, TypeOK, Verdicts, engine
<1> QED
  BY <1>2, <1>3, <1>4, <1>5 DEF IInv, EarlyIsQuiet, ResultSoFar, OkIsComplete, DrainTold,
                                ExitIsLast, ExitIsEarned, Early, Late, engine

LEMMA StepPreserves == IInv /\ [Next]_vars => IInv'
<1> SUFFICES ASSUME IInv, [Next]_vars PROVE IInv'
  OBVIOUS
<1>1. CASE UNCHANGED vars
  BY <1>1 DEF vars, probe, IInv, TypeOK, EarlyIsQuiet, ResultSoFar, OkIsComplete, DrainTold,
              ExitIsLast, ExitIsEarned
<1>2. CASE Next
  BY <1>2, ConnectingPreserves, WorkPreserves, CommandsPreserve, DrainingPreserves,
     ReleasePreserves DEF Next, Teardown
<1> QED  BY <1>1, <1>2

-----------------------------------------------------------------------------
\* The inductive invariant holds in every reachable state.
THEOREM InvariantHolds == Spec => []IInv
  BY InitEstablishes, StepPreserves, PTL DEF Spec

\* Type correctness; sense data are asked for only while framing is known.
THEOREM TypeCorrect == Spec => []TypeOK
<1>1. IInv => TypeOK
  BY DEF IInv
<1> QED  BY <1>1, InvariantHolds, PTL

\* Exit code 0: every command was accepted, the eject took effect, no transfer
\* and no claim is left (nusb-scsi/examples/managed_probe.rs:131-168, 172-193).
THEOREM ExitIsEvidence == Spec => []ExitOkMeansClean
<1>1. IInv => ExitOkMeansClean
  BY DEF IInv, ExitIsEarned, OkIsComplete, ExitOkMeansClean
<1> QED  BY <1>1, InvariantHolds, PTL

\* The interface is released with no transfer out, or after the drain's
\* deadline was reported (nusb-scsi/src/lib.rs:204).
THEOREM ReleaseComesLast == Spec => ReleasedAfterDrain
<1>1. ASSUME IInv, [Next]_vars, interface, ~ interface'
      PROVE  ~ pending \/ drained = "error"
  <2>1. stage \in Early \cup {"releasing"}
    <3>1. ~ UNCHANGED interface
      BY <1>1
    <3> QED
      BY <1>1, <3>1 DEF Next, vars, probe, Claim, GiveUp, Connect, Connected, ConnectFails, Issue,
            DeviceWorks, Succeeds, Refused, CommandEnds, Doubt, Sensed, Reap, Drained,
            DrainTimesOut, Drain, Teardown, Release, Early
  <2> QED  BY <1>1, <2>1 DEF IInv, EarlyIsQuiet, DrainTold
<1>2. IInv /\ [Next]_vars
        => [(interface /\ ~ interface') => (~ pending \/ drained = "error")]_vars
  BY <1>1
<1> QED  BY <1>2, InvariantHolds, PTL DEF Spec, ReleasedAfterDrain
=============================================================================
