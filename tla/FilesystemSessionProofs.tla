----------------------- MODULE FilesystemSessionProofs -----------------------
(***************************************************************************)
(* The safety properties of the filesystem session hold in every reachable *)
(* state, however often the engine reads, writes and flushes inside a      *)
(* call, and whichever of its device operations fail.                      *)
(***************************************************************************)
EXTENDS FilesystemSession, TLAPS

(***************************************************************************)
(* The inductive invariant.  The properties speak of the session between   *)
(* two calls; what makes them hold is what each stage of a call knows.     *)
(***************************************************************************)
\* complete(): a lost operation has retired the device for good, and the method
\* during which it was lost is the last one: it heard of it from the device.
LossRetires ==
    lost => /\ retired
            /\ at \in Serving \cup {"unmounting", "lastFlush"} => raised

\* Which stages belong to which method.
StageOfCall ==
    /\ at \in Opening \ {"none"} => call = "open"
    /\ at = "viewing" => call \in Views
    /\ at \in {"checking", "mutating", "handle", "labelling"} => call \in Mutations
    /\ at \in {"flushing", "deviceFlush"} => call \in Flushes
    /\ at \in {"unmounting", "lastFlush"} => call = "finish"
    /\ at = "dropping" => call \in {"finish", "abort", "drop"}

\* Which stages only a writable session, or only a read-only one, reaches.
StageOfAccess ==
    /\ at \in {"inspecting", "checking", "mutating", "handle", "labelling", "unmounting",
               "lastFlush"} => Writable
    /\ at = "inspecting" => Ext4
    /\ at = "deviceFlush" => ~ Writable
    /\ at = "flushing" => Writable \/ ~ Fat
    /\ at = "dropping" => retired /\ (call = "finish" => ~ Writable)

\* A blocked ext4 medium is not mounted writable.
BlockedIsNotMounted ==
    (Ext4 /\ Writable /\ setup.blocked) => at \in {"none", "inspecting", "closed"}

\* What a session that is not retired has left unfinished.
FlawsInTheOpen ==
    ~ retired =>
        /\ at \notin {"mutating", "handle", "labelling"} => flaws = {}
        /\ at \in {"mutating", "handle"} => "unlabelled" \notin flaws

HandleHasVerdict == at = "handle" => result \in {"ok", "err"}

\* The engine that finish consumed has written its bookkeeping.
LastFlushIsClean == at = "lastFlush" => ~ dirty \/ lost

\* A read-only session is retired, and its flush raises an error, only after a
\* device operation was lost.
ReadOnlyLoss ==
    ~ Writable /\ (mounted \/ at \in Opening) =>
        /\ retired => lost
        /\ at = "flushing" /\ raised => lost

IInv ==
    /\ TypeOK
    /\ LossRetires
    /\ StageOfCall /\ StageOfAccess
    /\ WrittenOnlyWhenAsked /\ BlockedIsNotMounted
    /\ FlawsInTheOpen /\ HandleHasVerdict /\ LastFlushIsClean
    /\ OkMeansPublished
    /\ ReadOnlyLoss

LEMMA InitEstablishes == Init => IInv
<1> SUFFICES ASSUME Init PROVE IInv
  OBVIOUS
<1>1. ~ mounted /\ ~ retired /\ ~ raised /\ ~ lost /\ ~ dirty /\ ~ cached
      /\ {mounted, retired, raised, lost, dirty, cached} \subseteq BOOLEAN
  BY Zenon DEF Init
<1>2. TypeOK
  BY <1>1 DEF Init, TypeOK, Opening, Serving, Leaving
<1> QED
  BY <1>1, <1>2 DEF Init, IInv, LossRetires, StageOfCall, StageOfAccess, WrittenOnlyWhenAsked,
     BlockedIsNotMounted, FlawsInTheOpen, HandleHasVerdict, LastFlushIsClean, OkMeansPublished,
     ReadOnlyLoss, Opening

-----------------------------------------------------------------------------
(***************************************************************************)
(* The engine at work.  A step of it is one operation of the guarded       *)
(* device, or a change of its own bookkeeping.                             *)
(***************************************************************************)
Untouched == UNCHANGED guarded /\ UNCHANGED medium
TurnedDown == (retired \/ ~ Writable) /\ raised' /\ UNCHANGED <<retired, lost, medium>>
Loses == retired' /\ raised' /\ lost'
Reaches == UNCHANGED guarded \/ Loses

Wrote ==
    /\ ~ retired /\ Writable /\ BelievesWritable
    /\ \/ at \in {"mutating", "handle", "labelling"}
       \/ at \in {"inspecting", "mounting"} /\ Ext4
       \/ at \in {"flushing", "unmounting", "dropping"} /\ dirty
    /\ Reaches /\ Progress
Flushed ==
    ~ retired /\ InsideEngine /\ Reaches /\ ~ cached' /\ UNCHANGED <<flaws, dirty, written>>
Counted == at = "viewing" /\ UNCHANGED <<guarded, flaws, cached, written>>

\* Every step of the engine has one of six outcomes.
LEMMA EngineOutcome ==
    ASSUME TypeOK, EngineSteps
    PROVE  /\ UNCHANGED control
           /\ \/ Untouched
              \/ Loses /\ UNCHANGED medium
              \/ TurnedDown /\ (at = "flushing" => retired \/ Writable \/ Fat)
              \/ Wrote
              \/ Flushed
              \/ Counted
<1>1. CASE EngineReads
  BY <1>1, Zenon DEF EngineReads, GuardedRead, Complete, Refuse, Untouched, Loses, TurnedDown
<1>2. CASE EngineWrites
  BY <1>2, Zenon DEF EngineWrites, GuardedWrite, Complete, Refuse, Loses, TurnedDown, Wrote,
                      Reaches, BelievesWritable
<1>3. CASE EngineFlushes
  BY <1>3, Zenon DEF EngineFlushes, GuardedFlush, Complete, Refuse, Loses, TurnedDown, Flushed,
                      Reaches
<1>4. CASE EngineCounts
  BY <1>4, Zenon DEF EngineCounts, Counted
<1> QED  BY <1>1, <1>2, <1>3, <1>4 DEF EngineSteps

LEMMA EngineKeepsTypes ==
    ASSUME TypeOK, EngineSteps
    PROVE  TypeOK'
<1>1. /\ retired' \in BOOLEAN /\ raised' \in BOOLEAN /\ lost' \in BOOLEAN
      /\ dirty' \in BOOLEAN /\ cached' \in BOOLEAN
  BY Zenon DEF TypeOK, EngineSteps, EngineReads, EngineWrites, EngineFlushes, EngineCounts,
     GuardedRead, GuardedWrite, GuardedFlush, Complete, Refuse, Progress, guarded, medium
<1>2. UNCHANGED control
  BY EngineOutcome
<1>3. /\ flaws' \subseteq {"torn", "unlabelled"}
      /\ written' \subseteq Opening \cup Serving \cup Leaving
  BY EngineOutcome DEF TypeOK, Untouched, TurnedDown, Wrote, Flushed, Counted, Progress, medium,
                       Opening, Serving, Leaving
<1> QED  BY <1>1, <1>2, <1>3 DEF TypeOK, control

\* What any outcome does to the guarded device, and where it leaves the medium.
LEMMA EngineEffect ==
    ASSUME IInv, EngineSteps
    PROVE  /\ UNCHANGED control
           /\ \/ retired' = retired /\ lost' = lost
              \/ retired' /\ lost' /\ raised'
           /\ raised => raised'
           /\ at = "flushing" /\ ~ Writable /\ raised' => raised \/ retired \/ lost'
           /\ UNCHANGED flaws \/ (Wrote /\ at \in {"mutating", "handle", "labelling"})
           /\ UNCHANGED written \/ Wrote
           /\ UNCHANGED <<dirty, cached>> \/ at \notin {"idle", "lastFlush"}
<1>1. UNCHANGED control
  BY EngineOutcome DEF IInv
<1>2. CASE Untouched
  BY <1>1, <1>2 DEF Untouched, guarded, medium
<1>3. CASE Loses /\ UNCHANGED medium
  BY <1>1, <1>3 DEF Loses, medium
<1>4. CASE TurnedDown /\ (at = "flushing" => retired \/ Writable \/ Fat)
  BY <1>1, <1>4 DEF TurnedDown, medium, IInv, StageOfAccess
<1>5. CASE Wrote
  <2>1. Reaches /\ at \notin {"idle", "lastFlush"}
    BY <1>5 DEF Wrote
  <2>2. UNCHANGED flaws \/ at \in {"mutating", "handle", "labelling"}
    BY <1>5 DEF Wrote, Progress
  <2> QED  BY <1>1, <1>5, <2>1, <2>2 DEF Reaches, Loses, guarded
<1>6. CASE Flushed
  BY <1>1, <1>6 DEF Flushed, Reaches, Loses, InsideEngine, guarded
<1>7. CASE Counted
  BY <1>1, <1>7 DEF Counted, guarded
<1> QED  BY <1>2, <1>3, <1>4, <1>5, <1>6, <1>7, EngineOutcome DEF IInv

LEMMA EnginePreserves ==
    ASSUME IInv, EngineSteps
    PROVE  IInv'
<1>1. TypeOK'
  BY EngineKeepsTypes DEF IInv
<1>2. UNCHANGED <<setup, at, call, result, mounted>>
  BY EngineEffect DEF control
<1>3. StageOfCall' /\ BlockedIsNotMounted' /\ HandleHasVerdict'
  BY <1>2 DEF IInv, StageOfCall, BlockedIsNotMounted, HandleHasVerdict, Ext4, Writable
<1>4. LossRetires' /\ StageOfAccess'
  BY <1>2, EngineEffect DEF IInv, LossRetires, StageOfAccess, Ext4, Fat, Writable
<1>5. WrittenOnlyWhenAsked'
  <2>1. CASE UNCHANGED written
    BY <1>2, <2>1 DEF IInv, WrittenOnlyWhenAsked, Ext4, Writable
  <2>2. CASE Wrote
    <3>1. written' = written \cup {at} /\ Writable /\ ~ retired /\ BelievesWritable
      BY <2>2 DEF Wrote, Progress
    <3>2. at \notin {"inspecting", "dropping"}
      BY <3>1 DEF IInv, StageOfAccess, BelievesWritable
    <3>3. ~ (Ext4 /\ setup.blocked)
      BY <2>2, <3>1, <3>2 DEF IInv, BlockedIsNotMounted, Wrote
    <3>4. written \cap {"inspecting", "dropping"} = {}
      BY DEF IInv, WrittenOnlyWhenAsked
    <3> QED  BY <1>2, <3>1, <3>2, <3>3, <3>4 DEF WrittenOnlyWhenAsked, Ext4, Writable
  <2> QED  BY <2>1, <2>2, EngineEffect
<1>6. FlawsInTheOpen'
  <2>1. ~ retired' => ~ retired
    BY EngineEffect DEF IInv, TypeOK
  <2>2. CASE UNCHANGED flaws
    BY <1>2, <2>1, <2>2 DEF IInv, FlawsInTheOpen
  <2>3. CASE Wrote /\ at \in {"mutating", "handle", "labelling"}
    BY <1>2, <2>1, <2>3 DEF IInv, FlawsInTheOpen, Wrote, Progress
  <2> QED  BY <2>2, <2>3, EngineEffect
<1>7. LastFlushIsClean' /\ OkMeansPublished'
  <2>1. CASE at \notin {"idle", "lastFlush"}
    BY <1>2, <2>1 DEF LastFlushIsClean, OkMeansPublished
  <2>2. CASE at \in {"idle", "lastFlush"}
    <3>1. at = "lastFlush"
      BY <2>2 DEF EngineSteps, EngineReads, EngineWrites, EngineFlushes, EngineCounts, InsideEngine
    <3>2. UNCHANGED dirty /\ (lost => lost')
      BY <3>1, EngineEffect
    <3> QED  BY <1>2, <3>1, <3>2 DEF IInv, LastFlushIsClean, OkMeansPublished
  <2> QED  BY <2>1, <2>2
<1>8. ReadOnlyLoss'
  <2> SUFFICES ASSUME ~ Writable, mounted \/ at \in Opening
               PROVE  (retired' => lost') /\ (at = "flushing" /\ raised' => lost')
    BY <1>2 DEF ReadOnlyLoss, Writable
  <2>1. retired => lost /\ (at = "flushing" /\ raised => lost)
    BY DEF IInv, ReadOnlyLoss
  <2>2. at = "flushing" /\ raised => lost
    BY DEF IInv, ReadOnlyLoss
  <2>3. lost => lost'
    BY EngineEffect
  <2> QED  BY <2>1, <2>2, <2>3, EngineEffect
<1> QED  BY <1>1, <1>3, <1>4, <1>5, <1>6, <1>7, <1>8 DEF IInv

-----------------------------------------------------------------------------
(***************************************************************************)
(* Calls begin.  A lemma for what they share: none of them touches the     *)
(* medium or loses an operation.                                           *)
(***************************************************************************)
Conjuncts ==
    /\ LossRetires /\ StageOfCall /\ StageOfAccess
    /\ WrittenOnlyWhenAsked /\ BlockedIsNotMounted
    /\ FlawsInTheOpen /\ HandleHasVerdict /\ LastFlushIsClean
    /\ OkMeansPublished /\ ReadOnlyLoss

LEMMA OpenEndsMounts ==
    ASSUME NEW r \in {"ok", "err"}, OpenEnds(r)
    PROVE  mounted' \in BOOLEAN /\ (mounted' <=> r = "ok")
BY Zenon DEF OpenEnds

LEMMA OpeningPreserves ==
    ASSUME IInv, OpenRefused \/ Open
    PROVE  IInv'
<1>1. /\ at = "none" /\ setup' = setup /\ call' = "open"
      /\ UNCHANGED <<retired, raised, lost, flaws, dirty, cached, written>>
  BY DEF OpenRefused, Open, guarded, medium
<1>2. ~ mounted /\ mounted \in BOOLEAN
  BY <1>1 DEF IInv, TypeOK, Opening
<1>3. ~ mounted' /\ mounted' \in BOOLEAN
  <2>1. CASE OpenRefused
    <3>1. OpenEnds("err")
      BY <2>1 DEF OpenRefused
    <3> QED  BY <3>1, OpenEndsMounts
  <2>2. CASE Open
    <3>1. mounted' = mounted
      BY <2>2 DEF Open
    <3> QED  BY <1>2, <3>1
  <2> QED  BY <2>1, <2>2
<1>4. \/ at' = "closed" /\ result' = "err"
      \/ at' = "inspecting" /\ Ext4 /\ Writable /\ result' = result
      \/ at' = "mounting" /\ ~ (Ext4 /\ Writable) /\ result' = result
  BY DEF OpenRefused, Open, OpenEnds
<1>5. TypeOK'
  BY <1>1, <1>3, <1>4 DEF IInv, TypeOK, Opening, Serving, Leaving
<1>6. Conjuncts'
  BY <1>1, <1>3, <1>4 DEF IInv, Conjuncts, LossRetires, StageOfCall, StageOfAccess,
     WrittenOnlyWhenAsked, BlockedIsNotMounted, FlawsInTheOpen, HandleHasVerdict,
     LastFlushIsClean, OkMeansPublished, ReadOnlyLoss, Ext4, Fat, Writable, Opening, Serving
<1> QED  BY <1>5, <1>6 DEF IInv, Conjuncts

LEMMA RefuseCallPreserves ==
    ASSUME IInv, NEW m \in Methods, RefuseCall(m)
    PROVE  IInv'
<1>1. /\ at = "idle" /\ at' = "idle" /\ call' = m /\ result' = "err"
      /\ UNCHANGED <<setup, mounted, retired, lost, flaws, dirty, cached, written>>
  BY DEF RefuseCall, medium
<1>2. ~ raised' /\ raised' \in BOOLEAN
  BY Zenon DEF RefuseCall
<1>3. TypeOK'
  BY <1>1, <1>2 DEF IInv, TypeOK
<1>4. Conjuncts'
  BY <1>1, <1>2 DEF IInv, Conjuncts, LossRetires, StageOfCall, StageOfAccess,
     WrittenOnlyWhenAsked, BlockedIsNotMounted, FlawsInTheOpen, HandleHasVerdict,
     LastFlushIsClean, OkMeansPublished, ReadOnlyLoss, Ext4, Fat, Writable, Opening, Serving
<1> QED  BY <1>3, <1>4 DEF IInv, Conjuncts

\* A usable session starts a method: the stage it enters fits the method.
LEMMA StartPreserves ==
    ASSUME IInv, NEW m \in Methods, NEW where, Starts(m, where), UNCHANGED medium,
           mounted' \in BOOLEAN,
           \/ where = "viewing" /\ m \in Views /\ mounted' = mounted
           \/ where = "checking" /\ m \in Mutations /\ Writable /\ mounted' = mounted
           \/ where = "flushing" /\ m \in Flushes /\ ~ (Fat /\ ~ Writable) /\ mounted' = mounted
           \/ where = "deviceFlush" /\ m \in Flushes /\ ~ Writable /\ mounted' = mounted
           \/ where = "unmounting" /\ m = "finish" /\ Writable /\ ~ mounted'
    PROVE  IInv'
<1>1. /\ at = "idle" /\ at' = where /\ call' = m /\ mounted /\ ~ retired
      /\ UNCHANGED <<setup, result, retired, lost, flaws, dirty, cached, written>>
  BY DEF Starts, Usable, medium
<1>2. ~ raised' /\ raised' \in BOOLEAN
  BY Zenon DEF Starts
<1>3. TypeOK'
  BY <1>1, <1>2 DEF IInv, TypeOK, Opening, Serving, Leaving
<1>4. ~ lost /\ flaws = {}
  BY <1>1 DEF IInv, LossRetires, FlawsInTheOpen
<1>5. BlockedIsNotMounted' /\ WrittenOnlyWhenAsked'
  BY <1>1 DEF IInv, BlockedIsNotMounted, WrittenOnlyWhenAsked, Ext4, Writable
<1>6. LossRetires' /\ StageOfCall' /\ StageOfAccess'
  BY <1>1, <1>4 DEF LossRetires, StageOfCall, StageOfAccess, Ext4, Fat, Writable, Opening
<1>7. FlawsInTheOpen' /\ HandleHasVerdict' /\ LastFlushIsClean' /\ OkMeansPublished'
  BY <1>1, <1>4 DEF FlawsInTheOpen, HandleHasVerdict, LastFlushIsClean, OkMeansPublished
<1>8. ReadOnlyLoss'
  BY <1>1, <1>2 DEF ReadOnlyLoss
<1> QED  BY <1>3, <1>5, <1>6, <1>7, <1>8 DEF IInv

LEMMA MethodsPreserve ==
    ASSUME IInv, NEW m \in Methods, View(m) \/ Mutate(m) \/ Flush(m) \/ FinishWritable
    PROVE  IInv'
<1>1. CASE View(m)
  BY <1>1, StartPreserves DEF View, IInv, TypeOK
<1>2. CASE Mutate(m)
  BY <1>2, StartPreserves DEF Mutate, IInv, TypeOK
<1>3. CASE Flush(m)
  BY <1>3, StartPreserves DEF Flush, FlushWith, IInv, TypeOK
<1>4. CASE FinishWritable
  <2>1. ~ mounted' /\ mounted' \in BOOLEAN
    BY <1>4, Zenon DEF FinishWritable
  <2> QED  BY <1>4, <2>1, StartPreserves DEF FinishWritable, Methods
<1> QED  BY <1>1, <1>2, <1>3, <1>4

LEMMA AbortPreserves ==
    ASSUME IInv, NEW m \in {"finish", "abort", "drop"}, Abort(m),
            m = "finish" => Usable /\ ~ Writable
    PROVE  IInv'
<1>1. /\ at = "idle" /\ call' = m /\ result' = "ok"
      /\ UNCHANGED <<setup, lost, flaws, dirty, cached, written>>
      /\ at' = CASE mounted -> "dropping" [] m = "drop" -> "closed" [] OTHER -> "idle"
  BY DEF Abort, AbortAs, medium
<1>2. /\ ~ mounted' /\ mounted' \in BOOLEAN /\ ~ raised' /\ raised' \in BOOLEAN
      /\ retired' /\ retired' \in BOOLEAN
  BY Zenon DEF Abort, AbortAs
<1>3. at' \in {"dropping", "closed", "idle"} /\ (at' = "idle" => m # "finish")
  BY <1>1 DEF Usable
<1>4. TypeOK'
  BY <1>1, <1>2, <1>3 DEF IInv, TypeOK, Opening, Serving, Leaving, Methods
<1>5. StageOfCall' /\ StageOfAccess' /\ HandleHasVerdict' /\ LastFlushIsClean'
  BY <1>1, <1>2, <1>3 DEF StageOfCall, StageOfAccess, HandleHasVerdict, LastFlushIsClean, Ext4,
     Fat, Writable, Opening
<1>6. WrittenOnlyWhenAsked' /\ BlockedIsNotMounted'
  BY <1>1 DEF IInv, WrittenOnlyWhenAsked, BlockedIsNotMounted, Ext4, Writable
<1>7. LossRetires' /\ FlawsInTheOpen' /\ ReadOnlyLoss'
  BY <1>2, <1>3 DEF LossRetires, FlawsInTheOpen, ReadOnlyLoss, Opening, Serving
<1>8. OkMeansPublished'
  BY <1>1, <1>2, <1>3 DEF OkMeansPublished, Methods, Views, Mutations, Creating, Flushes
<1> QED  BY <1>4, <1>5, <1>6, <1>7, <1>8 DEF IInv

-----------------------------------------------------------------------------
(***************************************************************************)
(* Calls end.                                                              *)
(***************************************************************************)
LEMMA OpenEndsPreserves ==
    ASSUME IInv, NEW r \in {"ok", "err"}, Inspected(r) \/ MountReturns(r)
    PROVE  IInv'
<1>1. /\ at \in {"inspecting", "mounting"} /\ call = "open"
      /\ UNCHANGED <<setup, call, retired, raised, lost, flaws, dirty, cached, written>>
  BY DEF Inspected, MountReturns, guarded, medium, IInv, StageOfCall, Opening
<1>2. ~ mounted /\ mounted \in BOOLEAN
  BY <1>1 DEF IInv, TypeOK, Opening
<1>3. /\ mounted' \in BOOLEAN /\ (mounted' <=> at' = "idle")
      /\ \/ at' = "mounting" /\ result' = result /\ ~ setup.blocked
         \/ at' = "closed" /\ result' = "err"
         \/ at = "mounting" /\ at' = "idle" /\ result' = "ok"
  <2>1. CASE Inspected(r) /\ r = "ok" /\ ~ setup.blocked
    BY <1>2, <2>1 DEF Inspected
  <2>2. CASE Inspected(r) /\ ~ (r = "ok" /\ ~ setup.blocked)
    <3>1. OpenEnds("err")
      BY <2>2 DEF Inspected
    <3> QED  BY <3>1, OpenEndsMounts DEF OpenEnds
  <2>3. CASE MountReturns(r)
    <3>1. OpenEnds(r) /\ at = "mounting"
      BY <2>3 DEF MountReturns
    <3>2. at' = IF r = "ok" THEN "idle" ELSE "closed"
      BY <3>1 DEF OpenEnds
    <3> QED  BY <3>1, <3>2, OpenEndsMounts DEF OpenEnds
  <2> QED  BY <2>1, <2>2, <2>3
<1>4. TypeOK'
  BY <1>1, <1>2, <1>3 DEF IInv, TypeOK, Opening, Serving, Leaving
<1>5. StageOfCall' /\ StageOfAccess' /\ HandleHasVerdict' /\ LastFlushIsClean'
  BY <1>1, <1>3 DEF StageOfCall, StageOfAccess, HandleHasVerdict, LastFlushIsClean, Ext4,
     Fat, Writable, Opening
<1>6. WrittenOnlyWhenAsked' /\ BlockedIsNotMounted'
  BY <1>1, <1>3 DEF IInv, WrittenOnlyWhenAsked, BlockedIsNotMounted, Ext4, Writable
<1>7. LossRetires' /\ FlawsInTheOpen'
  BY <1>1, <1>3 DEF IInv, LossRetires, FlawsInTheOpen, Serving
<1>8. OkMeansPublished'
  BY <1>1 DEF OkMeansPublished, Methods, Views, Mutations, Creating, Flushes
<1>9. ReadOnlyLoss'
  BY <1>1, <1>3 DEF IInv, ReadOnlyLoss, Writable, Opening
<1> QED  BY <1>4, <1>5, <1>6, <1>7, <1>8, <1>9 DEF IInv

\* A call that only looked returns: nothing has changed since it began.
LEMMA LookingPreserves ==
    ASSUME IInv, (\E r \in {"ok", "err"} : ViewReturns(r)) \/ CheckRefuses
    PROVE  IInv'
<1>1. /\ at \in {"viewing", "checking"} /\ at' = "idle" /\ result' \in {"ok", "err"}
      /\ UNCHANGED <<setup, call, mounted, retired, raised, lost, flaws, dirty, cached, written>>
  BY DEF ViewReturns, CheckRefuses, Returns, guarded, medium
<1>2. call \in Views \cup Mutations /\ mounted
  BY <1>1 DEF IInv, StageOfCall, TypeOK, Serving
<1>3. TypeOK'
  BY <1>1, <1>2 DEF IInv, TypeOK, Opening, Leaving
<1>4. OkMeansPublished'
  <2>1. lost => raised
    BY <1>1 DEF IInv, LossRetires, Serving
  <2> QED  BY <1>1, <1>2, <2>1 DEF OkMeansPublished, Views, Mutations, Creating, Flushes
<1>5. Conjuncts'
  BY <1>1, <1>2, <1>4 DEF IInv, Conjuncts, LossRetires, StageOfCall, StageOfAccess,
     WrittenOnlyWhenAsked, BlockedIsNotMounted, FlawsInTheOpen, HandleHasVerdict,
     LastFlushIsClean, ReadOnlyLoss, Ext4, Fat, Writable, Opening, Serving
<1> QED  BY <1>3, <1>5 DEF IInv, Conjuncts

\* A mutation goes from one stage to the next.
LEMMA StagesPreserve ==
    ASSUME IInv, CheckPasses \/ Created \/ \E r \in {"ok", "err"} : HandleGoes(r)
    PROVE  IInv'
<1>1. /\ at \in {"checking", "mutating"}
      /\ at' \in {"mutating", "handle", "labelling"}
      /\ at' = "handle" => result' \in {"ok", "err"}
      /\ result' \in {result, "ok", "err"}
      /\ UNCHANGED <<setup, call, mounted, retired, raised, lost, dirty, cached, written>>
      /\ \/ flaws' = flaws
         \/ at' = "labelling" /\ flaws' = flaws \cup {"unlabelled"}
      /\ at = "checking" => at' = "mutating" /\ flaws' = flaws
  BY DEF CheckPasses, Created, HandleGoes, guarded, medium
<1>2. call \in Mutations /\ mounted /\ Writable
  BY <1>1 DEF IInv, StageOfCall, StageOfAccess, TypeOK, Serving
<1>3. TypeOK'
  <2>1. /\ setup' \in Setups /\ call' \in Methods \cup {"none", "open", "abort", "drop"}
        /\ mounted' /\ retired' \in BOOLEAN /\ raised' \in BOOLEAN /\ lost' \in BOOLEAN
        /\ dirty' \in BOOLEAN /\ cached' \in BOOLEAN
        /\ written' \subseteq Opening \cup Serving \cup Leaving
    BY <1>1, <1>2, Zenon DEF IInv, TypeOK
  <2>2. flaws' \subseteq {"torn", "unlabelled"} /\ result' \in {"none", "ok", "err"}
    BY <1>1 DEF IInv, TypeOK
  <2>3. at' \in Serving /\ at' \notin Opening \cup Leaving \cup {"closed"}
    BY <1>1 DEF Opening, Serving, Leaving
  <2> QED  BY <2>1, <2>2, <2>3, Zenon DEF TypeOK
<1>4. FlawsInTheOpen'
  BY <1>1 DEF IInv, FlawsInTheOpen
<1>5. Conjuncts'
  BY <1>1, <1>2, <1>4 DEF IInv, Conjuncts, LossRetires, StageOfCall, StageOfAccess,
     WrittenOnlyWhenAsked, BlockedIsNotMounted, HandleHasVerdict, LastFlushIsClean,
     OkMeansPublished, ReadOnlyLoss, Ext4, Fat, Writable, Opening, Serving
<1> QED  BY <1>3, <1>5 DEF IInv, Conjuncts

\* The device's own flush answers: ok means that the device took it, that no
\* operation of this call failed before it, and that nothing is cached.
LEMMA DirectFlushOutcome ==
    ASSUME TypeOK, NEW r \in {"ok", "err"}, DirectFlush(r)
    PROVE  /\ retired' \in BOOLEAN /\ raised' \in BOOLEAN /\ lost' \in BOOLEAN
           /\ cached' \in BOOLEAN
           /\ UNCHANGED <<flaws, dirty, written>>
           /\ \/ retired' = retired /\ lost' = lost
              \/ retired' /\ lost'
           /\ r = "ok" => ~ retired /\ ~ cached' /\ retired' = retired /\ lost' = lost
<1>1. /\ retired' \in BOOLEAN /\ raised' \in BOOLEAN /\ lost' \in BOOLEAN /\ cached' \in BOOLEAN
  BY Zenon DEF TypeOK, DirectFlush, GuardedFlush, Complete, Refuse, guarded, medium
<1>2. \/ retired /\ raised' /\ UNCHANGED <<retired, lost>> /\ UNCHANGED medium
      \/ /\ ~ retired /\ ~ cached'
         /\ UNCHANGED <<flaws, dirty, written>> /\ UNCHANGED <<retired, lost>>
      \/ /\ Loses
         /\ UNCHANGED <<flaws, dirty, written>>
  BY Zenon DEF DirectFlush, GuardedFlush, Complete, Refuse, Loses, guarded, medium
<1>3. raised' => r = "err"
  BY DEF DirectFlush
<1> QED  BY <1>1, <1>2, <1>3 DEF Loses, medium

LEMMA DirectFlushPreserves ==
    ASSUME IInv, NEW r \in {"ok", "err"}, DeviceFlushReturns(r) \/ FinishReturns(r)
    PROVE  IInv'
<1>1. /\ at \in {"deviceFlush", "lastFlush"} /\ at' = "idle" /\ result' = r
      /\ UNCHANGED <<setup, call, mounted>> /\ DirectFlush(r)
  BY DEF DeviceFlushReturns, FinishReturns, Returns
<1>2. TypeOK'
  BY <1>1, DirectFlushOutcome DEF IInv, TypeOK, Opening, Serving, Leaving
<1>3. OkMeansPublished'
  <2> SUFFICES ASSUME Writable, r = "ok"
               PROVE  call = "finish" /\ ~ dirty' /\ ~ cached' /\ ~ lost' /\ flaws' = {}
    BY <1>1 DEF OkMeansPublished, Writable, Flushes
  <2>1. at = "lastFlush" /\ call = "finish"
    BY <1>1 DEF IInv, StageOfAccess, StageOfCall
  <2>2. ~ retired /\ ~ lost
    BY <1>1, DirectFlushOutcome DEF IInv, LossRetires
  <2>3. ~ dirty /\ flaws = {}
    BY <2>1, <2>2 DEF IInv, LastFlushIsClean, FlawsInTheOpen
  <2> QED  BY <1>1, <2>1, <2>2, <2>3, DirectFlushOutcome DEF IInv
<1>4. ReadOnlyLoss'
  BY <1>1, DirectFlushOutcome DEF IInv, ReadOnlyLoss, Writable, Opening
<1>5. LossRetires' /\ FlawsInTheOpen'
  BY <1>1, DirectFlushOutcome DEF IInv, LossRetires, FlawsInTheOpen, Serving
<1>6. WrittenOnlyWhenAsked' /\ BlockedIsNotMounted'
  BY <1>1, DirectFlushOutcome DEF IInv, WrittenOnlyWhenAsked, BlockedIsNotMounted, Ext4, Writable
<1>7. StageOfCall' /\ StageOfAccess' /\ HandleHasVerdict' /\ LastFlushIsClean'
  BY <1>1 DEF StageOfCall, StageOfAccess, HandleHasVerdict, LastFlushIsClean, Opening
<1> QED  BY <1>2, <1>3, <1>4, <1>5, <1>6, <1>7 DEF IInv

\* mutation() hears of the outcome: an error retires the session, and an ok that
\* the engine gave without losing an operation has its work done.
LEMMA SettlesPreserves ==
    ASSUME IInv, NEW r \in {"ok", "err"}, Settles(r), UNCHANGED <<mounted, medium>>,
           at \in {"mutating", "handle", "labelling", "flushing", "unmounting"},
           at = "mutating" => Ext4,
           r = "ok" => EngineOk /\ at # "unmounting",
           r = "err" /\ at = "flushing" => EngineErr
    PROVE  IInv'
<1>1. /\ at' = "idle" /\ result' = r
      /\ UNCHANGED <<setup, call, mounted, raised, lost, flaws, dirty, cached, written>>
  BY DEF Settles, Returns, medium
<1>2. retired' \in BOOLEAN /\ (retired' <=> retired \/ r = "err")
  BY Zenon DEF Settles
<1>3. /\ at = "unmounting" => call = "finish" /\ ~ mounted
      /\ at = "flushing" => call \in Flushes /\ mounted
      /\ at \in {"mutating", "handle", "labelling"} => call \in Mutations /\ mounted
      /\ at # "flushing" => Writable
  BY DEF IInv, StageOfCall, StageOfAccess, TypeOK, Serving, Leaving
<1>4. TypeOK'
  BY <1>1, <1>2 DEF IInv, TypeOK, Opening, Serving, Leaving
<1>5. ASSUME ~ retired'  PROVE r = "ok" /\ ~ retired /\ ~ lost /\ EngineOk /\ at # "unmounting"
  BY <1>2, <1>5 DEF IInv, LossRetires
<1>6. FlawsInTheOpen'
  <2> SUFFICES ASSUME ~ retired'  PROVE flaws = {}
    BY <1>1 DEF FlawsInTheOpen
  <2>1. at = "flushing" => flaws = {}
    BY <1>5 DEF IInv, FlawsInTheOpen
  <2>2. at = "labelling" => flaws = {}
    BY <1>5 DEF EngineOk
  <2>3. at \in {"mutating", "handle"} => "torn" \notin flaws
    BY <1>5 DEF EngineOk, Ext4, Fat
  <2>4. at \in {"mutating", "handle"} => "unlabelled" \notin flaws
    BY <1>5 DEF IInv, FlawsInTheOpen
  <2> QED  BY <1>5, <2>1, <2>2, <2>3, <2>4 DEF IInv, TypeOK
<1>7. OkMeansPublished'
  <2> SUFFICES ASSUME r = "ok"
               PROVE  /\ call \in Flushes => (~ dirty /\ ~ cached) \/ (lost /\ retired)
                      /\ call # "finish"
                      /\ lost => raised
    BY <1>1, <1>2 DEF OkMeansPublished
  <2>1. at # "unmounting" /\ call # "finish"
    BY <1>1, <1>3 DEF Flushes, Mutations, Creating
  <2>2. call \in Flushes => at = "flushing"
    BY <1>3, <2>1 DEF Flushes, Mutations, Creating
  <2>3. call \in Flushes => (~ dirty /\ ~ cached) \/ (lost /\ retired)
    BY <2>2 DEF EngineOk, IInv, LossRetires
  <2>4. lost => raised
    BY <2>1 DEF IInv, LossRetires, Serving
  <2> QED  BY <2>1, <2>3, <2>4
<1>8. ReadOnlyLoss'
  <2> SUFFICES ASSUME ~ Writable, mounted, retired'  PROVE lost
    BY <1>1 DEF ReadOnlyLoss, Writable, Opening
  <2>1. at = "flushing"
    BY <1>3
  <2>2. retired => lost
    BY DEF IInv, ReadOnlyLoss
  <2>3. r = "err" => raised
    BY <2>1 DEF EngineErr
  <2>4. raised => lost
    BY <2>1 DEF IInv, ReadOnlyLoss
  <2> QED  BY <1>2, <2>2, <2>3, <2>4
<1>9. LossRetires' /\ WrittenOnlyWhenAsked'
  BY <1>1, <1>2 DEF IInv, LossRetires, WrittenOnlyWhenAsked, Ext4, Writable, Serving
<1>10. StageOfCall' /\ StageOfAccess' /\ BlockedIsNotMounted' /\ HandleHasVerdict'
       /\ LastFlushIsClean'
  BY <1>1 DEF IInv, StageOfCall, StageOfAccess, BlockedIsNotMounted, HandleHasVerdict,
     LastFlushIsClean, Opening, Ext4, Writable
<1> QED  BY <1>4, <1>6, <1>7, <1>8, <1>9, <1>10 DEF IInv

LEMMA SettlingPreserves ==
    ASSUME IInv,
           \/ HandleGone
           \/ \E r \in {"ok", "err"} : MutationReturns(r) \/ LabelReturns(r) \/ FlushReturns(r)
    PROVE  IInv'
<1>1. CASE HandleGone
  BY <1>1, SettlesPreserves DEF HandleGone, IInv, HandleHasVerdict
<1>2. ASSUME NEW r \in {"ok", "err"}, MutationReturns(r) \/ LabelReturns(r) \/ FlushReturns(r)
      PROVE  IInv'
  BY <1>2, SettlesPreserves DEF MutationReturns, LabelReturns, FlushReturns, Engine
<1> QED  BY <1>1, <1>2

\* The engine that finish consumed is gone; only the device's flush is left.
LEMMA UnmountedPreserves ==
    ASSUME IInv, NEW r \in {"ok", "err"}, Unmounted(r)
    PROVE  IInv'
<1>1. CASE r = "err"
  BY <1>1, SettlesPreserves DEF Unmounted
<1>2. CASE r = "ok"
  <2>1. /\ at = "unmounting" /\ at' = "lastFlush"
        /\ UNCHANGED <<setup, call, result, mounted, retired, raised, lost, flaws, dirty, cached,
                       written>>
    BY <1>2 DEF Unmounted, guarded, medium
  <2>2. ~ dirty \/ lost
    BY <1>2 DEF Unmounted, Engine, EngineOk
  <2>3. TypeOK'
    BY <2>1 DEF IInv, TypeOK, Opening, Serving, Leaving
  <2>4. Conjuncts'
    BY <2>1, <2>2 DEF IInv, Conjuncts, LossRetires, StageOfCall, StageOfAccess,
       WrittenOnlyWhenAsked, BlockedIsNotMounted, FlawsInTheOpen, HandleHasVerdict,
       LastFlushIsClean, OkMeansPublished, ReadOnlyLoss, Ext4, Fat, Writable, Opening
  <2> QED  BY <2>3, <2>4 DEF IInv, Conjuncts
<1> QED  BY <1>1, <1>2

LEMMA DroppedPreserves ==
    ASSUME IInv, Dropped
    PROVE  IInv'
<1>1. /\ at = "dropping" /\ at' \in {"closed", "idle"}
      /\ UNCHANGED <<setup, call, result, mounted, retired, raised, lost, flaws, dirty, cached,
                       written>>
  BY DEF Dropped, guarded, medium
<1>2. call \in {"finish", "abort", "drop"} /\ (call = "finish" => ~ Writable) /\ ~ mounted
  BY <1>1 DEF IInv, StageOfCall, StageOfAccess, TypeOK, Leaving
<1>3. TypeOK'
  BY <1>1, <1>2 DEF IInv, TypeOK, Opening, Serving, Leaving
<1>4. OkMeansPublished'
  BY <1>1, <1>2 DEF OkMeansPublished, Methods, Views, Mutations, Creating, Flushes, Writable
<1>5. Conjuncts'
  BY <1>1, <1>2, <1>4 DEF IInv, Conjuncts, LossRetires, StageOfCall, StageOfAccess,
     WrittenOnlyWhenAsked, BlockedIsNotMounted, FlawsInTheOpen, HandleHasVerdict,
     LastFlushIsClean, ReadOnlyLoss, Ext4, Fat, Writable, Opening, Serving
<1> QED  BY <1>3, <1>5 DEF IInv, Conjuncts

-----------------------------------------------------------------------------
LEMMA StepPreserves ==
    ASSUME IInv, [Next]_vars
    PROVE  IInv'
<1>1. CASE EngineSteps
  BY <1>1, EnginePreserves
<1>2. CASE Begins
  <2>1. CASE OpenRefused \/ Open
    BY <2>1, OpeningPreserves
  <2>2. CASE \E m \in Methods : RefuseCall(m) \/ View(m) \/ Mutate(m) \/ Flush(m)
    BY <2>2, RefuseCallPreserves, MethodsPreserve
  <2>3. CASE FinishWritable
    BY <2>3, MethodsPreserve DEF Methods
  <2>4. CASE FinishReadOnly
    BY <2>4, AbortPreserves DEF FinishReadOnly
  <2>5. CASE Abort("abort") \/ Abort("drop")
    BY <2>5, AbortPreserves
  <2> QED  BY <1>2, <2>1, <2>2, <2>3, <2>4, <2>5 DEF Begins
<1>3. CASE Ends
  <2>1. CASE CheckRefuses \/ \E r \in {"ok", "err"} : ViewReturns(r)
    BY <2>1, LookingPreserves
  <2>2. CASE CheckPasses \/ Created \/ \E r \in {"ok", "err"} : HandleGoes(r)
    BY <2>2, StagesPreserve
  <2>3. CASE HandleGone
             \/ \E r \in {"ok", "err"} : MutationReturns(r) \/ LabelReturns(r) \/ FlushReturns(r)
    BY <2>3, SettlingPreserves
  <2>4. CASE \E r \in {"ok", "err"} : Inspected(r) \/ MountReturns(r)
    BY <2>4, OpenEndsPreserves
  <2>5. CASE \E r \in {"ok", "err"} : DeviceFlushReturns(r) \/ FinishReturns(r)
    BY <2>5, DirectFlushPreserves
  <2>6. CASE \E r \in {"ok", "err"} : Unmounted(r)
    BY <2>6, UnmountedPreserves
  <2>7. CASE Dropped
    BY <2>7, DroppedPreserves
  <2> QED  BY <1>3, <2>1, <2>2, <2>3, <2>4, <2>5, <2>6, <2>7 DEF Ends
<1>4. CASE UNCHANGED vars
  <2>1. UNCHANGED <<setup, at, call, result, mounted, retired, raised, lost,
                    flaws, dirty, cached, written>>
    BY <1>4 DEF vars, control, guarded, medium
  <2>2. TypeOK'
    BY <2>1 DEF IInv, TypeOK
  <2>3. Conjuncts'
    BY <2>1 DEF IInv, Conjuncts, LossRetires, StageOfCall, StageOfAccess,
       WrittenOnlyWhenAsked, BlockedIsNotMounted, FlawsInTheOpen, HandleHasVerdict,
       LastFlushIsClean, OkMeansPublished, ReadOnlyLoss, Ext4, Fat, Writable, Usable
  <2> QED  BY <2>2, <2>3 DEF IInv, Conjuncts
<1> QED  BY <1>1, <1>2, <1>3, <1>4 DEF Next

(***************************************************************************)
(* The inductive invariant holds throughout: every stage of a call knows   *)
(* of the medium and of the guarded device what IInv says of it.           *)
(***************************************************************************)
THEOREM InvariantHolds == Spec => []IInv
<1> QED  BY InitEstablishes, StepPreserves, PTL DEF Spec

\* Type correctness; an engine is mounted while a method of it runs, and there is
\* none during opening and once finish, abort or drop has taken it.
THEOREM TypeCorrect == Spec => []TypeOK
<1>1. IInv => TypeOK
  BY DEF IInv
<1> QED  BY <1>1, InvariantHolds, PTL

\* The medium is written by a writable session only, never by an inspection or
\* by an engine that is being dropped, never if the inspection found a blocker
\* (canoe-fs/src/lib.rs: Guarded::check and write_at, open, abort).
THEOREM OnlyWrittenWhenAsked == Spec => []WrittenOnlyWhenAsked
<1>1. IInv => WrittenOnlyWhenAsked
  BY DEF IInv
<1> QED  BY <1>1, InvariantHolds, PTL

\* A session that takes another call has lost no device operation and has left
\* no mutation half done (canoe-fs/src/lib.rs: complete and mutation).
THEOREM UsableIsWhole == Spec => []UsableMeansWhole
<1>1. IInv => UsableMeansWhole
  BY DEF IInv, FlawsInTheOpen, LossRetires, UsableMeansWhole, Usable
<1> QED  BY <1>1, InvariantHolds, PTL

\* The ok of a writable session: a flush has published unless its engine kept a
\* lost operation to itself, and then the session is over; a finish has published
\* and nothing was ever lost; and no method that starts after a loss returns ok
\* (canoe-fs/src/lib.rs: mutation, flush, fresh_read and finish).
THEOREM OkIsPublished == Spec => []OkMeansPublished
<1>1. IInv => OkMeansPublished
  BY DEF IInv
<1> QED  BY <1>1, InvariantHolds, PTL

\* A read-only session that is retired has lost a device operation or was ended
\* by its owner (canoe-fs/src/lib.rs: the FAT cases of flush and fresh_read).
THEOREM ReadOnlyLastsUntilLoss == Spec => []ReadOnlyRetiresForCause
<1>1. IInv => ReadOnlyRetiresForCause
  BY DEF IInv, ReadOnlyLoss, ReadOnlyRetiresForCause
<1> QED  BY <1>1, InvariantHolds, PTL
=============================================================================
