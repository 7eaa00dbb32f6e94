----------------------------- MODULE NativeProbe -----------------------------
(***************************************************************************)
(* The native probe of a managed export (nusb-scsi/examples/managed_probe) *)
(* and the native side of NusbIo it exercises: claim, GET_MAX_LUN, a fixed *)
(* sequence of commands under a deadline each, then the teardown, in which *)
(* transfers are drained before the interface is released.                 *)
(*                                                                         *)
(* The command engine below is taken by its contract, CommandContract,     *)
(* which BulkOnlyTransport is shown to implement.  A command keeps one     *)
(* transfer pending; a deadline drops the command's future, not the        *)
(* transfer.                                                               *)
(***************************************************************************)
EXTENDS Naturals, Sequences

VARIABLES
    stage,      \* where run() stands
    next,       \* the command it issues next, an index of Commands
    pending,    \* a bulk transfer submitted and not reaped
    interface,  \* the interface is claimed
    result,     \* of the commands: "ok" or "error"
    drained,    \* of the drain: "ok" or "error"
    released,   \* of the release: "ok" or "error"
    exit,       \* the process's exit code, or "none"
    phase, outcome, effect   \* the command engine's contract

probe == <<stage, next, pending, interface, result, drained, released, exit>>
vars  == <<probe, phase, outcome, effect>>

Transport == INSTANCE CommandContract
engine == <<phase, outcome, effect>>

Commands == <<"inquiry", "test-unit-ready", "capacity", "read-blocks",
              "synchronize-cache", "eject">>

Init ==
    /\ stage = "start" /\ next = 1 /\ pending = FALSE /\ interface = FALSE
    /\ result = "none" /\ drained = "none" /\ released = "none" /\ exit = "none"
    /\ Transport!Init

-----------------------------------------------------------------------------
(***************************************************************************)
(* run() up to a connected session.  A stage that fails before the         *)
(* interface is claimed leaves nothing to release, one right after lets go *)
(* of it by dropping it.                                                   *)
(***************************************************************************)
Claim ==
    /\ stage = "start"
    /\ stage' = "claimed"
    /\ interface' = TRUE
    /\ UNCHANGED <<next, pending, result, drained, released, exit, engine>>

GiveUp ==
    /\ stage \in {"start", "claimed"}
    /\ stage' = "exited" /\ exit' = "1"
    /\ interface' = FALSE
    /\ UNCHANGED <<next, pending, result, drained, released, engine>>

\* The alternate setting is active: connect() asks for GET_MAX_LUN, whose
\* deadline nusb enforces on the control transfer itself.
Connect ==
    /\ stage = "claimed"
    /\ stage' = "connecting"
    /\ UNCHANGED <<next, pending, interface, result, drained, released, exit, engine>>

\* An answer of one byte up to 15, or a stall, which stands for one unit.
Connected ==
    /\ stage = "connecting"
    /\ stage' = "commands"
    /\ UNCHANGED <<next, pending, interface, result, drained, released, exit, engine>>

\* No transport was made, so there is nothing to drain.
ConnectFails ==
    /\ stage = "connecting"
    /\ stage' = "releasing"
    /\ result' = "error"
    /\ UNCHANGED <<next, pending, interface, drained, released, exit, engine>>

-----------------------------------------------------------------------------
(***************************************************************************)
(* commands(): each one under bounded(), the first error ends them.        *)
(***************************************************************************)
Issue ==
    /\ stage \in {"commands", "sense"}
    /\ Transport!Begin
    /\ pending' = TRUE
    /\ UNCHANGED <<stage, next, interface, result, drained, released, exit>>

DeviceWorks == Transport!Work /\ UNCHANGED probe

\* A slip: an error of the commands ends run_connected at once.
AfterCommandsHasty(verdict) ==
    /\ result' = verdict
    /\ stage' = IF verdict = "ok" THEN "draining"
                ELSE IF phase' = "ready" THEN "sense" ELSE "releasing"

\* A slip: sense data are asked for after every error.
AfterCommandsUnguarded(verdict) ==
    /\ result' = verdict
    /\ stage' = IF verdict = "error" THEN "sense" ELSE "draining"

\* A session whose framing is known is asked for sense data after an error.
AfterCommands(verdict) ==
    /\ result' = verdict
    /\ stage' = IF verdict = "error" /\ phase' = "ready" THEN "sense" ELSE "draining"

\* An accepted eject retires the session, nothing else that succeeds does.
Succeeds ==
    /\ stage = "commands"
    /\ Transport!Succeed
    /\ phase' = IF Commands[next] = "eject" THEN "retired" ELSE "ready"
    /\ pending' = FALSE
    /\ \/ /\ next < Len(Commands)
          /\ next' = next + 1
          /\ UNCHANGED <<stage, result>>
       \/ /\ next = Len(Commands)
          /\ AfterCommands("ok") /\ UNCHANGED next
       \/ /\ Commands[next] = "capacity"    \* a geometry out of the sample's bounds
          /\ AfterCommands("error") /\ UNCHANGED next
    /\ UNCHANGED <<interface, drained, released, exit>>

\* A slip: a command the device refused counts as done.
RefusedIsDone ==
    /\ stage = "commands"
    /\ Transport!Refused
    /\ pending' = FALSE
    /\ IF next < Len(Commands)
       THEN next' = next + 1 /\ UNCHANGED <<stage, result>>
       ELSE AfterCommands("ok") /\ UNCHANGED next
    /\ UNCHANGED <<interface, drained, released, exit>>

Refused ==
    /\ stage = "commands"
    /\ Transport!Refused
    /\ pending' = FALSE
    /\ AfterCommands("error")
    /\ UNCHANGED <<next, interface, drained, released, exit>>

\* A transfer fails or answers wrongly, or the deadline drops the command.
Doubt(late) ==
    /\ stage = "commands"
    /\ Transport!Doubt
    /\ outcome' = IF late THEN "cancelled" ELSE "uncertain"
    /\ pending' = late
    /\ AfterCommands("error")
    /\ UNCHANGED <<next, interface, drained, released, exit>>

\* However the request for sense ends, it changes no verdict.
Sensed(late) ==
    /\ stage = "sense"
    /\ \/ ~ late /\ Transport!Succeed /\ phase' = "ready"
       \/ ~ late /\ Transport!Refused
       \/ Transport!Doubt
    /\ pending' = late
    /\ stage' = "draining"
    /\ UNCHANGED <<next, interface, result, drained, released, exit>>

-----------------------------------------------------------------------------
(***************************************************************************)
(* Teardown.  NusbIo::close cancels both endpoints' transfers and waits    *)
(* for each to come back, if need be until the probe's deadline, which     *)
(* drops the endpoints with the transfers still out.                       *)
(***************************************************************************)
Drain(verdict) ==
    /\ stage = "draining"
    /\ stage' = "releasing"
    /\ drained' = verdict
    /\ UNCHANGED <<next, interface, result, released, exit, engine>>

\* A cancelled transfer comes back, if it does.
Reap ==
    /\ stage = "draining" /\ pending
    /\ pending' = FALSE
    /\ UNCHANGED <<stage, next, interface, result, drained, released, exit, engine>>

Drained == ~ pending /\ Drain("ok") /\ UNCHANGED pending

\* A slip: the wait for cancelled transfers has no deadline of its own.
NoDrainDeadline == FALSE /\ UNCHANGED vars

DrainTimesOut ==
    /\ pending
    /\ Drain("error")
    /\ UNCHANGED pending

ExitCode ==
    IF result = "error" \/ drained = "error" \/ released' = "error" THEN "1" ELSE "0"

Release(verdict) ==
    /\ stage = "releasing"
    /\ stage' = "exited"
    /\ released' = verdict
    /\ interface' = (verdict = "error" /\ interface)
    /\ exit' = ExitCode
    /\ UNCHANGED <<next, pending, result, drained, engine>>

-----------------------------------------------------------------------------
CommandEnds == \E late \in BOOLEAN : Doubt(late) \/ Sensed(late)

Teardown == \E verdict \in {"ok", "error"} : Release(verdict)

Next ==
    \/ Claim \/ GiveUp \/ Connect \/ Connected \/ ConnectFails
    \/ Issue \/ DeviceWorks \/ Succeeds \/ Refused \/ CommandEnds
    \/ Reap \/ Drained \/ DrainTimesOut \/ Teardown

Spec == Init /\ [][Next]_vars

\* The probe runs on: it issues its commands, its deadlines expire, and the
\* operating system answers a claim and a release.  Nothing is assumed of the
\* device.
Fairness ==
    /\ WF_vars(Connect) /\ WF_vars(ConnectFails) /\ WF_vars(Issue)
    /\ WF_vars(CommandEnds) /\ WF_vars(Drained \/ DrainTimesOut) /\ WF_vars(Teardown)

FairSpec == Spec /\ Fairness

-----------------------------------------------------------------------------
Verdicts == {"none", "ok", "error"}

\* With it: only a session whose framing is known is asked for sense data, and
\* only an engine in use or in doubt has a transfer out.
TypeOK ==
    /\ stage \in {"start", "claimed", "connecting", "commands", "sense", "draining",
                  "releasing", "exited"}
    /\ next \in 1 .. Len(Commands)
    /\ pending \in BOOLEAN /\ interface \in BOOLEAN
    /\ {result, drained, released} \subseteq Verdicts
    /\ exit \in {"none", "0", "1"}
    /\ stage = "sense" => phase # "retired"
    /\ pending => phase # "ready"

\* Exit code 0 is evidence: every command was accepted, the eject took effect,
\* and nothing of the session is left, neither a transfer nor the claim
\* (managed_probe.rs:131-168, 172-193).
ExitOkMeansClean ==
    exit = "0" =>
        /\ next = Len(Commands) /\ outcome = "ok" /\ effect = "full" /\ phase = "retired"
        /\ ~ pending /\ ~ interface

\* "Cancel and drain pending transfers before releasing the owning interface"
\* (lib.rs:204): the interface goes with no transfer out, unless the deadline
\* of the drain has passed and been reported.
ReleasedAfterDrain ==
    [][(interface /\ ~ interface') => (~ pending \/ drained = "error")]_vars

\* "a vanished device must not hang teardown" (lib.rs:205), nor any command.
ProbeEnds == (stage # "start") ~> (stage = "exited")
=============================================================================
