------------------------ MODULE FilesystemBrokerProofs ------------------------
(***************************************************************************)
(* The storage that openFilesystem borrows, and the answers it gives to    *)
(* its worker and its application, are right for any number of sessions,   *)
(* calls and mailbox requests.                                             *)
(***************************************************************************)
EXTENDS FilesystemBroker, SequenceTheorems, TLAPS

(***************************************************************************)
(* Types, of the queues as well.  They are inductive on their own; the     *)
(* bounds on next and on toWorker that TypeOK adds are not.                *)
(***************************************************************************)
CallStates == {"queued", "sent", "ok", "failed", "lost"}
CallRecs == [method : {"work", "finish"}, tainted : BOOLEAN, st : CallStates]
Messages == [kind : {"io"}, seq : Sequence]
            \cup [kind : {"ready", "failed-open", "error"}]
            \cup [kind : {"reply"}, id : CallIds, ok : BOOLEAN, retired : BOOLEAN]
Places   == {"none", "loading", "idle", "busy", "waiting", "freed", "dead"}
Workers  == [at : Places, job : CallIds \cup {Mount}, seq : Sequence, poisoned : BOOLEAN,
             retired : BOOLEAN]

SharedTypes ==
    /\ owned \in BOOLEAN /\ consumed \in BOOLEAN
    /\ store \in {"open", "closing", "closed", "failed"}
    /\ op \in [by : Inst \cup {None}, seq : Sequence, st : {"none", "running", "ok", "failed"}]
    /\ main \in Inst \cup {None}
PromiseTypes ==
    /\ opened \in [Inst -> {"none", "pending", "resolved", "rejected"}]
    /\ running \in [Inst -> BOOLEAN] /\ finished \in [Inst -> BOOLEAN]
    /\ down \in [Inst -> {"none", "aborting", "settling", "closing", "done"}]
    /\ why \in [Inst -> {"none", "reason", "close"}]
    /\ aborted \in [Inst -> {"none", "own", "joined", "ok", "failed"}]
IoTypes ==
    /\ next \in [Inst -> Nat]
    /\ io \in [Inst -> {"none", "storage", "checked"}]
    /\ mailbox \in [Inst -> [flag : {-1, 0, 1}, seq : Sequence]]
    /\ wk \in [Inst -> Workers]
QueueTypes ==
    /\ calls \in [Inst -> Seq(CallRecs)] /\ \A i \in Inst : Len(calls[i]) <= MaxCalls
    /\ toWorker \in [Inst -> Seq(CallIds)]
    /\ toMain \in [Inst -> Seq(Messages)]

Types == SharedTypes /\ PromiseTypes /\ IoTypes /\ QueueTypes

\* Nothing of session j moves.
StandsStill(j) ==
    /\ UNCHANGED <<opened[j], running[j], finished[j], next[j], io[j], calls[j], down[j], why[j],
                   aborted[j]>>
    /\ UNCHANGED <<mailbox[j], wk[j], toWorker[j], toMain[j]>>

StepOf(i) ==
    \/ Application(i) \/ SendNext(i) \/ Timer(i) \/ Shutdown(i)
    \/ Handler(i) \/ Completion(i) \/ WorkerStep(i)

LEMMA InitTypes == Init => Types
<1> SUFFICES ASSUME Init PROVE Types
  OBVIOUS
<1>1. SharedTypes
  <2>1. owned \in BOOLEAN /\ consumed \in BOOLEAN
    BY Zenon DEF Init
  <2> QED  BY <2>1, BoundsAssumption DEF Init, SharedTypes, Sequence
<1>2. PromiseTypes
  BY DEF Init, PromiseTypes
<1>3. IoTypes
  BY BoundsAssumption DEF Init, IoTypes, Sequence, NoWorker, Workers, Places, CallIds, Mount
<1>4. QueueTypes
  BY BoundsAssumption, EmptySeq DEF Init, QueueTypes
<1> QED  BY <1>1, <1>2, <1>3, <1>4 DEF Types

\* The queues: what a posted, a received and a changed entry leave behind.
LEMMA PostedType ==
    ASSUME NEW S, NEW queues \in [Inst -> Seq(S)], NEW i \in Inst, NEW m \in S
    PROVE  Post(queues, i, m) \in [Inst -> Seq(S)]
BY AppendProperties DEF Post

LEMMA ReceivedType ==
    ASSUME NEW S, NEW queues \in [Inst -> Seq(S)], NEW i \in Inst, queues[i] # <<>>
    PROVE  /\ Received(queues, i) \in [Inst -> Seq(S)]
           /\ Head(queues[i]) \in S
BY HeadTailProperties DEF Received

\* One call of session i changes.
SetCall(i, k, r) == [calls EXCEPT ![i] = [calls[i] EXCEPT ![k] = r]]

LEMMA SetCallType ==
    ASSUME QueueTypes, NEW i \in Inst, NEW k \in DOMAIN calls[i], NEW r \in CallRecs
    PROVE  /\ SetCall(i, k, r) \in [Inst -> Seq(CallRecs)]
           /\ Len(SetCall(i, k, r)[i]) = Len(calls[i])
           /\ \A j \in Inst \ {i} : SetCall(i, k, r)[j] = calls[j]
           /\ \A n \in DOMAIN calls[i] :
                 SetCall(i, k, r)[i][n] = IF n = k THEN r ELSE calls[i][n]
<1>1. calls[i] \in Seq(CallRecs) /\ DOMAIN calls[i] = 1 .. Len(calls[i])
  BY LenProperties DEF QueueTypes
<1>2. /\ [calls[i] EXCEPT ![k] = r] \in Seq(CallRecs)
      /\ Len([calls[i] EXCEPT ![k] = r]) = Len(calls[i])
      /\ \A n \in 1 .. Len(calls[i]) :
            [calls[i] EXCEPT ![k] = r][n] = IF n = k THEN r ELSE calls[i][n]
  BY <1>1, ExceptSeq
<1> QED  BY <1>1, <1>2 DEF QueueTypes, SetCall

LEMMA ChangedCallType ==
    ASSUME QueueTypes, NEW i \in Inst, NEW k \in DOMAIN calls[i], NEW st \in CallStates
    PROVE  /\ [calls[i][k] EXCEPT !.st = st] \in CallRecs
           /\ [calls EXCEPT ![i][k].st = st] = SetCall(i, k, [calls[i][k] EXCEPT !.st = st])
<1>1. calls[i][k] \in CallRecs
  BY LenProperties, ElementOfSeq DEF QueueTypes
<1> QED  BY <1>1 DEF CallRecs, SetCall

LEMMA TaintedCallType ==
    ASSUME QueueTypes, NEW i \in Inst, NEW k \in DOMAIN calls[i], NEW taint \in BOOLEAN
    PROVE  /\ [calls[i][k] EXCEPT !.st = "sent", !.tainted = taint] \in CallRecs
           /\ [calls EXCEPT ![i][k].st = "sent", ![i][k].tainted = taint]
                = SetCall(i, k, [calls[i][k] EXCEPT !.st = "sent", !.tainted = taint])
<1>1. calls[i] \in Seq(CallRecs) /\ DOMAIN calls[i] = 1 .. Len(calls[i])
  BY LenProperties DEF QueueTypes
<1>2. calls[i][k] \in CallRecs
  BY <1>1, ElementOfSeq
<1> QED  BY <1>1, <1>2 DEF CallRecs, CallStates, SetCall, QueueTypes

-----------------------------------------------------------------------------
LEMMA WorkerRecords ==
    ASSUME NEW w \in Workers, NEW a \in Places
    PROVE  /\ [w EXCEPT !.at = a] \in Workers
           /\ \A p \in BOOLEAN : [w EXCEPT !.at = a, !.poisoned = p] \in Workers
           /\ \A k \in CallIds : [w EXCEPT !.at = a, !.job = k] \in Workers
           /\ \A n \in Sequence : [w EXCEPT !.at = a, !.seq = n] \in Workers
           /\ [w EXCEPT !.at = a, !.poisoned = TRUE, !.retired = TRUE] \in Workers
BY DEF Workers

\* The worker touches the mailbox, its own record and the queues of its session.
LEMMA WorkerTypes ==
    ASSUME Types, NEW i \in Inst, WorkerStep(i)
    PROVE  /\ Types'
           /\ UNCHANGED <<shared, main, session>>
           /\ \A j \in Inst \ {i} : StandsStill(j)
<1>1. UNCHANGED <<shared, main, session>>
  BY DEF WorkerStep, WorkerLoads, LoadFails, WorkerTakes, Request, RequestServed, RequestGivenUp,
         Mounted, MethodReturns, MethodThrows, MethodTraps, WorkerCrashes, WorkerStops
<1>2. \A m \in Messages : Post(toMain, i, m) \in [Inst -> Seq(Messages)]
  BY PostedType DEF Types, QueueTypes
<1>3. /\ {Ready, FailedOpen, WorkerError} \subseteq Messages
      /\ \A k \in CallIds : \A good, gone \in BOOLEAN : Reply(k, good, gone) \in Messages
      /\ \A n \in Sequence : IoMessage(n) \in Messages
  BY DEF Ready, FailedOpen, WorkerError, Reply, IoMessage, Messages
<1>4. toWorker[i] # <<>> => /\ Received(toWorker, i) \in [Inst -> Seq(CallIds)]
                            /\ Head(toWorker[i]) \in CallIds
  BY ReceivedType DEF Types, QueueTypes
<1>5. toWorker' \in [Inst -> Seq(CallIds)]
  <2>1. \/ UNCHANGED toWorker
        \/ WorkerTakes(i) \/ WorkerStops(i)
    BY DEF WorkerStep, WorkerLoads, LoadFails, Request, RequestServed, RequestGivenUp, Mounted,
           MethodReturns, MethodThrows, MethodTraps, WorkerCrashes
  <2>2. CASE WorkerTakes(i)
    BY <1>4, <2>2 DEF WorkerTakes
  <2>3. CASE WorkerStops(i)
    BY <2>3, EmptySeq DEF Types, QueueTypes, WorkerStops
  <2> QED  BY <2>1, <2>2, <2>3 DEF Types, QueueTypes
<1>6. wk[i] \in Workers /\ mailbox[i] \in [flag : {-1, 0, 1}, seq : Sequence]
  BY DEF Types, IoTypes
<1>7. wk[i].job # Mount => wk[i].job \in CallIds
  BY <1>6 DEF Workers
<1>8. wk[i].seq < MaxIo => wk[i].seq + 1 \in Sequence
  BY <1>6, BoundsAssumption DEF Workers, Sequence
<1>9. toMain' \in [Inst -> Seq(Messages)]
  <2>1. CASE Request(i)
    <3>1. IoMessage(wk[i].seq + 1) \in Messages
      BY <1>3, <1>8, <2>1 DEF Request
    <3> QED  BY <1>2, <2>1, <3>1 DEF Request
  <2>2. CASE WorkerTakes(i)
    <3>1. toWorker[i] # <<>> => Reply(Head(toWorker[i]), FALSE, TRUE) \in Messages
      BY <1>3, <1>4
    <3> QED  BY <1>2, <2>2, <3>1 DEF Types, QueueTypes, WorkerTakes
  <2>3. CASE MethodReturns(i) \/ MethodThrows(i)
    <3>1. wk[i].job # Mount => \A good, gone \in BOOLEAN : Reply(wk[i].job, good, gone) \in Messages
      BY <1>3, <1>7
    <3> QED  BY <1>2, <2>3, <3>1 DEF MethodReturns, MethodThrows
  <2>4. CASE LoadFails(i) \/ Mounted(i) \/ WorkerCrashes(i)
    BY <1>2, <1>3, <2>4 DEF LoadFails, Mounted, WorkerCrashes
  <2>5. CASE UNCHANGED toMain
    BY <2>5 DEF Types, QueueTypes
  <2> QED
    BY <2>1, <2>2, <2>3, <2>4, <2>5 DEF WorkerStep, WorkerLoads, RequestServed, RequestGivenUp,
       MethodTraps, WorkerStops
<1>10. mailbox' \in [Inst -> [flag : {-1, 0, 1}, seq : Sequence]]
  <2>1. CASE Request(i)
    BY <1>8, <2>1 DEF Types, IoTypes, Request
  <2>2. CASE RequestGivenUp(i)
    BY <1>6, <2>2 DEF Types, IoTypes, RequestGivenUp
  <2>3. CASE UNCHANGED mailbox
    BY <2>3 DEF Types, IoTypes
  <2> QED
    BY <2>1, <2>2, <2>3 DEF WorkerStep, WorkerLoads, LoadFails, WorkerTakes, RequestServed,
       Mounted, MethodReturns, MethodThrows, MethodTraps, WorkerCrashes, WorkerStops
<1>11. wk' \in [Inst -> Workers]
  <2>1. /\ wk[i].poisoned \in BOOLEAN
        /\ \A gone \in BOOLEAN : wk[i].poisoned \/ gone \in BOOLEAN
    BY <1>6 DEF Workers
  <2>2. CASE WorkerTakes(i)
    <3>1. toWorker[i] # <<>> => [wk[i] EXCEPT !.at = "busy", !.job = Head(toWorker[i])] \in Workers
      BY <1>4, <1>6, WorkerRecords DEF Places
    <3> QED  BY <2>2, <3>1 DEF Types, IoTypes, WorkerTakes
  <2>6. CASE Request(i)
    BY <1>6, <1>8, <2>6, WorkerRecords DEF Types, IoTypes, Places, Request
  <2>7. CASE RequestGivenUp(i)
    BY <1>6, <2>7, WorkerRecords DEF Types, IoTypes, Places, RequestGivenUp
  <2>3. \A a \in Places : \A gone \in BOOLEAN :
           /\ [wk EXCEPT ![i].at = a] \in [Inst -> Workers]
           /\ [wk EXCEPT ![i].at = a, ![i].poisoned = gone] \in [Inst -> Workers]
    BY <1>6, WorkerRecords DEF Types, IoTypes
  <2>4. CASE MethodThrows(i)
    <3>1. PICK gone \in BOOLEAN :
             wk' = [wk EXCEPT ![i].at = "idle", ![i].poisoned = wk[i].poisoned \/ gone]
      BY <2>4 DEF MethodThrows
    <3> QED  BY <2>1, <2>3, <3>1 DEF Places
  <2>5. CASE MethodReturns(i)
    <3>1. PICK a \in Places : wk' = [wk EXCEPT ![i].at = a]
      BY <2>5 DEF MethodReturns, Places
    <3> QED  BY <2>3, <3>1
  <2>8. CASE Mounted(i) \/ LoadFails(i)
    <3>1. \/ wk' = [wk EXCEPT ![i].at = "idle"]
          \/ wk' = [wk EXCEPT ![i].at = "idle", ![i].poisoned = TRUE]
      BY <2>8 DEF Mounted, LoadFails
    <3>2. /\ [wk EXCEPT ![i].at = "idle"] \in [Inst -> Workers]
          /\ [wk EXCEPT ![i].at = "idle", ![i].poisoned = TRUE] \in [Inst -> Workers]
      BY <2>3 DEF Places
    <3> QED  BY <3>1, <3>2, Zenon
  <2>9. CASE WorkerLoads(i) \/ RequestServed(i) \/ MethodTraps(i)
    <3>1. PICK a \in Places : wk' = [wk EXCEPT ![i].at = a]
      BY <2>9 DEF Places, WorkerLoads, RequestServed, MethodTraps
    <3> QED  BY <2>3, <3>1
  <2>10. CASE WorkerCrashes(i) \/ WorkerStops(i)
    <3>1. PICK a \in Places : wk' = [wk EXCEPT ![i].at = a]
      BY <2>10 DEF Places, WorkerCrashes, WorkerStops
    <3> QED  BY <2>3, <3>1
  <2> QED  BY <2>2, <2>4, <2>5, <2>6, <2>7, <2>8, <2>9, <2>10 DEF WorkerStep
<1>12. ASSUME NEW j \in Inst \ {i}  PROVE StandsStill(j)
  <2> USE DEF Types, IoTypes, QueueTypes
  <2>1. UNCHANGED <<mailbox[j], wk[j], toWorker[j], toMain[j]>>
    <3>1. CASE WorkerTakes(i) \/ Request(i) \/ RequestServed(i) \/ RequestGivenUp(i)
      BY <3>1 DEF Post, Received, WorkerTakes, Request, RequestServed, RequestGivenUp
    <3>2. CASE WorkerLoads(i) \/ LoadFails(i) \/ Mounted(i)
      BY <3>2 DEF Post, WorkerLoads, LoadFails, Mounted
    <3>3. CASE MethodReturns(i) \/ MethodThrows(i) \/ MethodTraps(i)
      BY <3>3 DEF Post, MethodReturns, MethodThrows, MethodTraps
    <3>4. CASE WorkerCrashes(i) \/ WorkerStops(i)
      BY <3>4 DEF Post, WorkerCrashes, WorkerStops
    <3> QED  BY <3>1, <3>2, <3>3, <3>4 DEF WorkerStep
  <2> QED  BY <1>1, <2>1 DEF session, StandsStill
<1>13. Types'
  BY <1>1, <1>5, <1>9, <1>10, <1>11 DEF Types, SharedTypes, PromiseTypes, IoTypes, QueueTypes,
     shared, session
<1> QED  BY <1>1, <1>12, <1>13

-----------------------------------------------------------------------------
(***************************************************************************)
(* The tasks of the main thread that begin the shutdown of a session.      *)
(***************************************************************************)
Tears(i) ==
    \/ SendThrows(i) \/ Abort(i) \/ OpenTimesOut(i) \/ CallTimesOut(i)
    \/ IoOutOfSequence(i) \/ IoFails(i) \/ WorkerFails(i)
    \/ \E k \in CallIds : CallRetires(i, k)

\* What they have in common, and the little in which they differ.
LEMMA TearsEffect ==
    ASSUME Types, NEW i \in Inst, Tears(i)
    PROVE  /\ Idle /\ Teardown(i) /\ UNCHANGED <<owned, op, main, opened, finished, wk, toWorker>>
           /\ \/ UNCHANGED toMain
              \/ toMain[i] # <<>> /\ toMain' = Received(toMain, i)
           /\ \/ UNCHANGED calls
              \/ \E k \in DOMAIN calls[i] :
                    /\ calls[i][k].st = "queued" /\ running[i]
                    /\ calls' = [calls EXCEPT ![i][k].st = "sent"]
           /\ \/ UNCHANGED next
              \/ next' = [next EXCEPT ![i] = @ + 1] /\ IoOutOfSequence(i) /\ UNCHANGED io
           /\ UNCHANGED io \/ IoFails(i)
           /\ UNCHANGED aborted \/ Abort(i)
<1>1. CASE SendThrows(i) \/ Abort(i) \/ OpenTimesOut(i) \/ CallTimesOut(i)
  BY <1>1, Zenon DEF SendThrows, Abort, OpenTimesOut, CallTimesOut
<1>2. CASE IoOutOfSequence(i)
  <2>1. next' = next \/ next' = [next EXCEPT ![i] = @ + 1]
    BY <1>2 DEF IoOutOfSequence, Types, IoTypes
  <2> QED  BY <1>2, <2>1, Zenon DEF IoOutOfSequence, Arrives, Consume
<1>3. CASE IoFails(i)
  BY <1>3, Zenon DEF IoFails
<1>4. CASE WorkerFails(i)
  BY <1>4, Zenon DEF WorkerFails, Arrives, Consume
<1>5. CASE \E k \in CallIds : CallRetires(i, k)
  BY <1>5, Zenon DEF CallRetires, ReplyTo, Arrives, Consume
<1> QED  BY <1>1, <1>2, <1>3, <1>4, <1>5 DEF Tears

LEMMA TeardownTypes ==
    ASSUME Types, NEW i \in Inst, Teardown(i)
    PROVE  /\ consumed' \in BOOLEAN /\ store' \in {"open", "closing", "closed", "failed"}
           /\ running' \in [Inst -> BOOLEAN]
           /\ down' \in [Inst -> {"none", "aborting", "settling", "closing", "done"}]
           /\ why' \in [Inst -> {"none", "reason", "close"}]
           /\ mailbox' \in [Inst -> [flag : {-1, 0, 1}, seq : Sequence]]
           /\ \A j \in Inst \ {i} : UNCHANGED <<running[j], down[j], why[j], mailbox[j]>>
           /\ mailbox'[i].seq = mailbox[i].seq
<1>1. consumed' \in BOOLEAN /\ running' \in [Inst -> BOOLEAN]
  BY Zenon DEF Types, SharedTypes, PromiseTypes, Teardown
<1>2. mailbox[i] \in [flag : {-1, 0, 1}, seq : Sequence]
  BY DEF Types, IoTypes
<1>3. /\ mailbox' \in [Inst -> [flag : {-1, 0, 1}, seq : Sequence]]
      /\ mailbox'[i].seq = mailbox[i].seq /\ \A j \in Inst \ {i} : UNCHANGED mailbox[j]
  <2>1. \/ mailbox' = mailbox
        \/ mailbox' = [mailbox EXCEPT ![i] = [mailbox[i] EXCEPT !.flag = -1]]
    BY Zenon DEF Teardown
  <2> QED  BY <1>2, <2>1 DEF Types, IoTypes
<1>4. store' \in {"open", "closing", "closed", "failed"}
  BY DEF Types, SharedTypes, Teardown
<1>5. /\ down' \in [Inst -> {"none", "aborting", "settling", "closing", "done"}]
      /\ why' \in [Inst -> {"none", "reason", "close"}]
      /\ \A j \in Inst \ {i} : UNCHANGED <<running[j], down[j], why[j]>>
  BY DEF Types, PromiseTypes, Teardown
<1> QED  BY <1>1, <1>3, <1>4, <1>5

LEMMA TearsTypes ==
    ASSUME Types, NEW i \in Inst, Tears(i)
    PROVE  Types' /\ \A j \in Inst \ {i} : StandsStill(j)
<1>1. Teardown(i) /\ UNCHANGED <<owned, op, main, opened, finished, wk, toWorker>>
  BY TearsEffect
<1>2. /\ next' \in [Inst -> Nat] /\ io' \in [Inst -> {"none", "storage", "checked"}]
      /\ \A j \in Inst \ {i} : UNCHANGED <<io[j], next[j]>>
  <2>1. UNCHANGED io \/ io' = [io EXCEPT ![i] = "none"]
    BY TearsEffect DEF IoFails
  <2>2. UNCHANGED next \/ next' = [next EXCEPT ![i] = @ + 1]
    BY TearsEffect
  <2>3. io' \in [Inst -> {"none", "storage", "checked"}] /\ \A j \in Inst \ {i} : UNCHANGED io[j]
    BY <2>1 DEF Types, IoTypes
  <2>4. next' \in [Inst -> Nat] /\ \A j \in Inst \ {i} : UNCHANGED next[j]
    BY <2>2 DEF Types, IoTypes
  <2> QED  BY <2>3, <2>4
<1>3. /\ toMain' \in [Inst -> Seq(Messages)] /\ \A j \in Inst \ {i} : UNCHANGED toMain[j]
      /\ aborted' \in [Inst -> {"none", "own", "joined", "ok", "failed"}]
      /\ \A j \in Inst \ {i} : UNCHANGED aborted[j]
  <2>0. /\ aborted' \in [Inst -> {"none", "own", "joined", "ok", "failed"}]
        /\ \A j \in Inst \ {i} : UNCHANGED aborted[j]
    <3>1. CASE UNCHANGED aborted
      BY <3>1 DEF Types, PromiseTypes
    <3>2. CASE Abort(i)
      BY <3>2 DEF Types, PromiseTypes, Abort
    <3> QED  BY <3>1, <3>2, TearsEffect
  <2>1. CASE UNCHANGED toMain
    BY <2>0, <2>1 DEF Types, QueueTypes
  <2>2. CASE toMain[i] # <<>> /\ toMain' = Received(toMain, i)
    <3>1. toMain' \in [Inst -> Seq(Messages)]
      BY <2>2, ReceivedType DEF Types, QueueTypes
    <3>2. \A j \in Inst \ {i} : UNCHANGED toMain[j]
      BY <2>2 DEF Types, QueueTypes, Received
    <3> QED  BY <2>0, <3>1, <3>2
  <2> QED  BY <2>1, <2>2, TearsEffect
<1>4. /\ calls' \in [Inst -> Seq(CallRecs)] /\ Len(calls'[i]) = Len(calls[i])
      /\ \A j \in Inst \ {i} : UNCHANGED calls[j]
  <2>1. CASE UNCHANGED calls
    BY <2>1 DEF Types, QueueTypes
  <2>2. CASE \E k \in DOMAIN calls[i] : calls' = [calls EXCEPT ![i][k].st = "sent"]
    <3>1. PICK k \in DOMAIN calls[i] : calls' = [calls EXCEPT ![i][k].st = "sent"]
      BY <2>2
    <3>2. /\ QueueTypes
          /\ calls' = SetCall(i, k, [calls[i][k] EXCEPT !.st = "sent"])
          /\ [calls[i][k] EXCEPT !.st = "sent"] \in CallRecs
      BY <3>1, ChangedCallType DEF CallStates, Types
    <3>3. PICK r \in CallRecs : calls' = SetCall(i, k, r)
      BY <3>2
    <3> QED  BY <3>3, SetCallType DEF Types
  <2> QED  BY <2>1, <2>2, TearsEffect
<1>5. \A j \in Inst \ {i} : StandsStill(j)
  BY <1>1, <1>2, <1>3, <1>4, TeardownTypes DEF StandsStill
<1>6. ASSUME NEW j \in Inst  PROVE Len(calls'[j]) <= MaxCalls
  <2>1. Len(calls[j]) <= MaxCalls
    BY DEF Types, QueueTypes
  <2> QED  BY <1>4, <2>1
<1>7. Types'
  BY <1>1, <1>2, <1>3, <1>4, <1>6, TeardownTypes
     DEF Types, SharedTypes, PromiseTypes, IoTypes, QueueTypes
<1> QED  BY <1>5, <1>7

-----------------------------------------------------------------------------
(***************************************************************************)
(* The rest of the main thread.                                            *)
(***************************************************************************)
LEMMA LostCallsType ==
    ASSUME Types, NEW i \in Inst
    PROVE  /\ LostCalls(i) \in Seq(CallRecs) /\ Len(LostCalls(i)) = Len(calls[i])
           /\ \A k \in 1 .. Len(calls[i]) :
                 LostCalls(i)[k] = IF calls[i][k].st = "sent"
                                   THEN [calls[i][k] EXCEPT !.st = "lost"] ELSE calls[i][k]
<1>1. calls[i] \in Seq(CallRecs) /\ DOMAIN calls[i] = 1 .. Len(calls[i]) /\ Len(calls[i]) \in Nat
  BY LenProperties DEF Types, QueueTypes
<1>2. ASSUME NEW k \in 1 .. Len(calls[i])
      PROVE  (IF calls[i][k].st = "sent"
              THEN [calls[i][k] EXCEPT !.st = "lost"] ELSE calls[i][k]) \in CallRecs
  <2>1. calls[i][k] \in CallRecs
    BY <1>1, ElementOfSeq
  <2> QED  BY <2>1 DEF CallRecs, CallStates
<1>3. LostCalls(i) \in [1 .. Len(calls[i]) -> CallRecs]
  BY <1>1, <1>2 DEF LostCalls
<1>4. LostCalls(i) \in Seq(CallRecs)
  BY <1>1, <1>3, SeqDef
<1> QED  BY <1>1, <1>3, <1>4, LenProperties DEF LostCalls

LEMMA ShutdownTypes ==
    ASSUME Types, NEW i \in Inst, Shutdown(i)
    PROVE  Types' /\ \A j \in Inst \ {i} : StandsStill(j)
<1>1. CASE PendingAborted(i) \/ PendingSettled(i)
  <2>1. Types'
    <3>1. /\ down' \in [Inst -> {"none", "aborting", "settling", "closing", "done"}]
          /\ store' \in {"open", "closing", "closed", "failed"}
      BY <1>1 DEF PendingAborted, PendingSettled, Types, SharedTypes, PromiseTypes
    <3>2. /\ UNCHANGED <<owned, consumed, op, main, opened, running, finished, why, aborted>>
          /\ UNCHANGED <<next, io, mailbox, wk, calls, toWorker, toMain>>
      BY <1>1 DEF PendingAborted, PendingSettled, worker
    <3> QED  BY <3>1, <3>2, Zenon DEF Types, SharedTypes, PromiseTypes, IoTypes, QueueTypes
  <2>2. \A j \in Inst \ {i} : StandsStill(j)
    BY <1>1 DEF PendingAborted, PendingSettled, Types, PromiseTypes, StandsStill, worker
  <2> QED  BY <2>1, <2>2
<1>2. ASSUME NEW failed \in BOOLEAN, TeardownEnds(i, failed),
             store' \in {"open", "closing", "closed", "failed"}
      PROVE  Types' /\ \A j \in Inst \ {i} : StandsStill(j)
  <2>1. SharedTypes'
    <3>1. owned' \in BOOLEAN
      BY <1>2, Zenon DEF TeardownEnds
    <3> QED  BY <1>2, <3>1 DEF TeardownEnds, Types, SharedTypes
  <2>2. PromiseTypes'
    <3>1. aborted' \in [Inst -> {"none", "own", "joined", "ok", "failed"}]
      BY <1>2 DEF TeardownEnds, Types, PromiseTypes
    <3> QED  BY <1>2, <3>1 DEF TeardownEnds, Types, PromiseTypes
  <2>3. IoTypes'
    BY <1>2 DEF TeardownEnds, Types, IoTypes, worker
  <2>4. QueueTypes'
    BY <1>2, LostCallsType DEF TeardownEnds, Types, QueueTypes, worker
  <2>5. \A j \in Inst \ {i} : StandsStill(j)
    BY <1>2 DEF TeardownEnds, Types, PromiseTypes, QueueTypes, StandsStill, worker
  <2> QED  BY <2>1, <2>2, <2>3, <2>4, <2>5 DEF Types
<1>3. CASE StorageClosed(i) \/ TeardownFails(i)
  BY <1>2, <1>3 DEF StorageClosed, TeardownFails, Types, SharedTypes
<1> QED  BY <1>1, <1>3 DEF Shutdown

\* The task of the next call: what it does to the queues.
Refuses(i, r) == (~ running[i] \/ finished[i]) /\ r.st = "failed" /\ UNCHANGED worker
Sends(i, k, r) ==
    /\ running[i] /\ ~ finished[i]
    /\ r.st = "sent" /\ (r.tainted <=> wk[i].retired)
    /\ toWorker' = Post(toWorker, i, k) /\ UNCHANGED <<mailbox, wk, toMain>>

LEMMA SendNextEffect ==
    ASSUME Types, NEW i \in Inst, SendNext(i)
    PROVE  /\ UNCHANGED <<shared, main, opened, running, finished, next, io, down, why, aborted>>
           /\ \E k \in DOMAIN calls[i] : \E r \in CallRecs :
                /\ calls[i][k].st = "queued" /\ \A j \in 1 .. k - 1 : Settled(calls[i][j])
                /\ calls' = SetCall(i, k, r) /\ r.method = calls[i][k].method
                /\ \/ Refuses(i, r) /\ (r.tainted <=> calls[i][k].tainted)
                   \/ Sends(i, k, r)
<1>1. PICK k \in DOMAIN calls[i] :
        /\ Idle
        /\ calls[i][k].st = "queued"
        /\ \A j \in 1 .. k - 1 : Settled(calls[i][j])
        /\ IF ~ running[i] \/ finished[i]
           THEN /\ calls' = [calls EXCEPT ![i][k].st = "failed"]
                /\ UNCHANGED worker
           ELSE /\ calls' = [calls EXCEPT ![i][k].st = "sent",
                                          ![i][k].tainted = wk[i].retired]
                /\ toWorker' = Post(toWorker, i, k)
                /\ UNCHANGED <<mailbox, wk, toMain>>
        /\ UNCHANGED <<shared, main, opened, running, finished, next, io, down, why, aborted>>
  BY DEF SendNext
<1>2. calls[i][k] \in CallRecs /\ wk[i].retired \in BOOLEAN /\ QueueTypes
  BY ElementOfSeq, LenProperties DEF Types, QueueTypes, IoTypes, Workers
<1>3. CASE ~ running[i] \/ finished[i]
  <2> DEFINE r == [calls[i][k] EXCEPT !.st = "failed"]
  <2>1. r \in CallRecs /\ calls' = SetCall(i, k, r)
    BY <1>1, <1>2, <1>3, ChangedCallType DEF CallStates
  <2>2. r.method = calls[i][k].method /\ r.st = "failed" /\ r.tainted = calls[i][k].tainted
    BY <1>2 DEF CallRecs
  <2>3. Refuses(i, r) /\ (r.tainted <=> calls[i][k].tainted)
    BY <1>1, <1>3, <2>2 DEF Refuses
  <2> QED  BY <1>1, <2>1, <2>2, <2>3
<1>4. CASE ~ (~ running[i] \/ finished[i])
  <2> DEFINE r == [calls[i][k] EXCEPT !.st = "sent", !.tainted = wk[i].retired]
  <2>1. r \in CallRecs /\ calls' = SetCall(i, k, r)
    <3> DEFINE taint == wk[i].retired
    <3>1. taint \in BOOLEAN /\ QueueTypes
      BY <1>2
    <3>2. calls' = [calls EXCEPT ![i][k].st = "sent", ![i][k].tainted = taint]
      BY <1>1, <1>4
    <3>3. r = [calls[i][k] EXCEPT !.st = "sent", !.tainted = taint]
      OBVIOUS
    <3> HIDE DEF r, taint
    <3>4. \A b \in BOOLEAN :
             /\ [calls[i][k] EXCEPT !.st = "sent", !.tainted = b] \in CallRecs
             /\ [calls EXCEPT ![i][k].st = "sent", ![i][k].tainted = b]
                  = SetCall(i, k, [calls[i][k] EXCEPT !.st = "sent", !.tainted = b])
      BY <3>1, TaintedCallType
    <3> QED  BY <3>1, <3>2, <3>3, <3>4, Zenon
  <2>2. r.method = calls[i][k].method /\ r.st = "sent" /\ r.tainted = wk[i].retired
    BY <1>2 DEF CallRecs
  <2>3. Sends(i, k, r)
    BY <1>1, <1>4, <2>2 DEF Sends
  <2> QED  BY <1>1, <2>1, <2>2, <2>3
<1> QED  BY <1>3, <1>4

LEMMA ApplicationTypes ==
    ASSUME Types, NEW i \in Inst,
           Open(i) \/ SendNext(i) \/ \E method \in {"work", "finish"} : Call(i, method)
    PROVE  Types' /\ \A j \in Inst \ {i} : StandsStill(j)
<1>1. CASE Open(i)
  <2>1. owned' \in BOOLEAN /\ running' \in [Inst -> BOOLEAN]
    BY <1>1, Zenon DEF Open, Types, PromiseTypes
  <2>2. wk' \in [Inst -> Workers]
    BY <1>1, WorkerRecords DEF Open, Types, IoTypes, Places
  <2>3. Types'
    BY <1>1, <2>1, <2>2 DEF Open, Types, SharedTypes, PromiseTypes, IoTypes, QueueTypes
  <2>4. \A j \in Inst \ {i} : StandsStill(j)
    BY <1>1 DEF Open, Types, PromiseTypes, IoTypes, StandsStill
  <2> QED  BY <2>3, <2>4
<1>2. ASSUME NEW method \in {"work", "finish"}, Call(i, method)
      PROVE  Types' /\ \A j \in Inst \ {i} : StandsStill(j)
  <2>1. PICK st \in CallStates :
          calls' = [calls EXCEPT ![i] =
                      Append(@, [method |-> method, tainted |-> FALSE, st |-> st])]
    BY <1>2 DEF Call, CallStates
  <2>2. [method |-> method, tainted |-> FALSE, st |-> st] \in CallRecs
    BY DEF CallRecs
  <2>3. calls[i] \in Seq(CallRecs) /\ Len(calls[i]) < MaxCalls /\ Len(calls[i]) \in Nat
    BY <1>2, LenProperties DEF Call, Types, QueueTypes
  <2>4. UNCHANGED <<shared, main, opened, running, finished, next, io, down, why, aborted, worker>>
    BY <1>2 DEF Call
  <2>5. /\ calls'[i] \in Seq(CallRecs) /\ Len(calls'[i]) <= MaxCalls
        /\ \A j \in Inst \ {i} : calls'[j] = calls[j]
        /\ calls' = [j \in Inst |-> calls'[j]]
    <3> DEFINE c == [method |-> method, tainted |-> FALSE, st |-> st]
    <3>1. calls' = [calls EXCEPT ![i] = Append(calls[i], c)] /\ c \in CallRecs
      BY <2>1, <2>2
    <3> HIDE DEF c
    <3>2. Append(calls[i], c) \in Seq(CallRecs) /\ Len(Append(calls[i], c)) = Len(calls[i]) + 1
      BY <2>3, <3>1, AppendProperties
    <3>3. calls' = [calls EXCEPT ![i] = calls'[i]] /\ calls'[i] = Append(calls[i], c)
      BY <3>1 DEF Types, QueueTypes
    <3>4. Len(calls[i]) + 1 <= MaxCalls
      BY <2>3, BoundsAssumption
    <3> QED  BY <3>2, <3>3, <3>4 DEF Types, QueueTypes
  <2>6. QueueTypes'
    BY <2>4, <2>5 DEF Types, QueueTypes, worker
  <2>7. Types'
    BY <2>4, <2>6, Zenon DEF Types, SharedTypes, PromiseTypes, IoTypes, shared, worker
  <2>8. \A j \in Inst \ {i} : StandsStill(j)
    BY <2>4, <2>5 DEF StandsStill, worker
  <2> QED  BY <2>7, <2>8
<1>3. CASE SendNext(i)
  <2>1. PICK k \in DOMAIN calls[i] : \E r \in CallRecs :
          calls' = SetCall(i, k, r) /\ (UNCHANGED worker \/ Sends(i, k, r))
    BY <1>3, SendNextEffect DEF Refuses
  <2>2. PICK r \in CallRecs : calls' = SetCall(i, k, r) /\ (UNCHANGED worker \/ Sends(i, k, r))
    BY <2>1
  <2>3. k \in CallIds /\ QueueTypes
    BY LenProperties, BoundsAssumption DEF Types, QueueTypes, CallIds
  <2>4. /\ calls' \in [Inst -> Seq(CallRecs)] /\ Len(calls'[i]) = Len(calls[i])
        /\ \A j \in Inst \ {i} : UNCHANGED calls[j]
    BY <2>2, <2>3, SetCallType
  <2>5. ASSUME NEW j \in Inst  PROVE Len(calls'[j]) <= MaxCalls
    <3>1. Len(calls[j]) <= MaxCalls
      BY <2>3 DEF QueueTypes
    <3> QED  BY <2>4, <3>1
  <2>6. /\ toWorker' \in [Inst -> Seq(CallIds)] /\ UNCHANGED <<mailbox, wk, toMain>>
        /\ \A j \in Inst \ {i} : UNCHANGED toWorker[j]
    <3>1. CASE UNCHANGED worker
      BY <2>3, <3>1 DEF QueueTypes, worker
    <3>2. CASE Sends(i, k, r)
      BY <2>3, <3>2, PostedType DEF QueueTypes, Sends, Post
    <3> QED  BY <2>2, <3>1, <3>2
  <2>7. UNCHANGED <<shared, main, opened, running, finished, next, io, down, why, aborted>>
    BY <1>3, SendNextEffect
  <2>8. Types'
    BY <2>3, <2>4, <2>5, <2>6, <2>7 DEF Types, SharedTypes, PromiseTypes, IoTypes, QueueTypes,
       shared
  <2> QED  BY <2>4, <2>6, <2>7, <2>8 DEF StandsStill
<1> QED  BY <1>1, <1>2, <1>3

\* A reply settles the call it names.
Answers(i) == \E k \in CallIds : CallAnswered(i, k) \/ FinishAnswered(i, k)

LEMMA AnswersEffect ==
    ASSUME Types, NEW i \in Inst, Answers(i)
    PROVE  /\ running[i] /\ toMain[i] # <<>> /\ toMain' = Received(toMain, i)
           /\ UNCHANGED <<consumed, store, op, main, opened, next, io, why, aborted, wk, toWorker>>
           /\ Head(toMain[i]).kind = "reply"
           /\ \E k \in DOMAIN calls[i] : \E st \in {"ok", "failed"} :
                /\ k = Head(toMain[i]).id /\ calls[i][k].st = "sent"
                /\ calls' = SetCall(i, k, [calls[i][k] EXCEPT !.st = st])
                /\ [calls[i][k] EXCEPT !.st = st] \in CallRecs
                /\ st = "ok" => Head(toMain[i]).ok
           /\ \/ UNCHANGED <<owned, running, finished, down, mailbox>>
              \/ \E k \in CallIds : FinishAnswered(i, k)
<1>1. PICK k \in CallIds : CallAnswered(i, k) \/ FinishAnswered(i, k)
  BY DEF Answers
<1>2. /\ running[i] /\ toMain[i] # <<>> /\ toMain' = Received(toMain, i)
      /\ Head(toMain[i]).kind = "reply" /\ k = Head(toMain[i]).id
      /\ k \in DOMAIN calls[i] /\ calls[i][k].st = "sent"
      /\ UNCHANGED <<consumed, store, op, main, opened, next, io, why, aborted, wk, toWorker>>
  BY <1>1 DEF CallAnswered, FinishAnswered, ReplyTo, Arrives, Consume, Sent, shared
<1>3. PICK st \in {"ok", "failed"} :
        calls' = [calls EXCEPT ![i][k].st = st] /\ (st = "ok" => Head(toMain[i]).ok)
  <2>1. CASE FinishAnswered(i, k)
    BY <2>1 DEF FinishAnswered
  <2>2. CASE CallAnswered(i, k)
    BY <2>2 DEF CallAnswered
  <2> QED  BY <1>1, <2>1, <2>2
<1>4. /\ calls' = SetCall(i, k, [calls[i][k] EXCEPT !.st = st])
      /\ [calls[i][k] EXCEPT !.st = st] \in CallRecs
  <2>1. QueueTypes /\ k \in DOMAIN calls[i] /\ st \in CallStates
    BY <1>2 DEF Types, CallStates
  <2>2. /\ [calls[i][k] EXCEPT !.st = st] \in CallRecs
        /\ [calls EXCEPT ![i][k].st = st] = SetCall(i, k, [calls[i][k] EXCEPT !.st = st])
    BY <2>1, ChangedCallType
  <2> QED  BY <1>3, <2>2, Zenon
<1>5. \/ UNCHANGED <<owned, running, finished, down, mailbox>>
      \/ \E n \in CallIds : FinishAnswered(i, n)
  BY <1>1 DEF CallAnswered, shared
<1> QED  BY <1>2, <1>3, <1>4, <1>5

LEMMA AnswersTypes ==
    ASSUME Types, NEW i \in Inst, Answers(i)
    PROVE  Types' /\ \A j \in Inst \ {i} : StandsStill(j)
<1>1. PICK k \in DOMAIN calls[i], r \in CallRecs : calls' = SetCall(i, k, r)
  BY AnswersEffect
<1>2. /\ calls' \in [Inst -> Seq(CallRecs)] /\ Len(calls'[i]) = Len(calls[i])
      /\ \A j \in Inst \ {i} : UNCHANGED calls[j]
  BY <1>1, SetCallType DEF Types
<1>3. ASSUME NEW j \in Inst  PROVE Len(calls'[j]) <= MaxCalls
  <2>1. Len(calls[j]) <= MaxCalls
    BY DEF Types, QueueTypes
  <2> QED  BY <1>2, <2>1
<1>4. toMain[i] # <<>> /\ toMain' = Received(toMain, i) /\ toMain' \in [Inst -> Seq(Messages)]
  <2>1. toMain[i] # <<>> /\ toMain' = Received(toMain, i)
    BY AnswersEffect
  <2> QED  BY <2>1, ReceivedType DEF Types, QueueTypes
<1>5. UNCHANGED <<consumed, store, op, main, opened, next, io, why, aborted, wk, toWorker>>
  BY AnswersEffect
<1>6. /\ owned' \in BOOLEAN /\ running' \in [Inst -> BOOLEAN] /\ finished' \in [Inst -> BOOLEAN]
      /\ down' \in [Inst -> {"none", "aborting", "settling", "closing", "done"}]
      /\ mailbox' \in [Inst -> [flag : {-1, 0, 1}, seq : Sequence]]
      /\ \A j \in Inst \ {i} : UNCHANGED <<running[j], finished[j], down[j], mailbox[j]>>
  <2>1. CASE UNCHANGED <<owned, running, finished, down, mailbox>>
    BY <2>1 DEF Types, SharedTypes, PromiseTypes, IoTypes
  <2>2. CASE \E n \in CallIds : FinishAnswered(i, n)
    <3>1. PICK n \in CallIds : FinishAnswered(i, n)
      BY <2>2
    <3>2. owned' \in BOOLEAN
      BY <3>1, Zenon DEF FinishAnswered
    <3>3. /\ running' \in [Inst -> BOOLEAN] /\ finished' \in [Inst -> BOOLEAN]
          /\ down' \in [Inst -> {"none", "aborting", "settling", "closing", "done"}]
          /\ \A j \in Inst \ {i} : UNCHANGED <<running[j], finished[j], down[j]>>
      BY <3>1 DEF FinishAnswered, Types, PromiseTypes
    <3>4. mailbox[i] \in [flag : {-1, 0, 1}, seq : Sequence]
      BY DEF Types, IoTypes
    <3>5. /\ mailbox' \in [Inst -> [flag : {-1, 0, 1}, seq : Sequence]]
          /\ \A j \in Inst \ {i} : UNCHANGED mailbox[j]
      BY <3>1, <3>4 DEF FinishAnswered, Types, IoTypes
    <3> QED  BY <3>2, <3>3, <3>5
  <2> QED  BY <2>1, <2>2, AnswersEffect
<1>7. Types'
  BY <1>2, <1>3, <1>4, <1>5, <1>6 DEF Types, SharedTypes, PromiseTypes, IoTypes, QueueTypes
<1>8. \A j \in Inst \ {i} : StandsStill(j)
  BY <1>2, <1>4, <1>5, <1>6 DEF StandsStill, Received, Types, QueueTypes
<1> QED  BY <1>7, <1>8

LEMMA HandlerTypes ==
    ASSUME Types, NEW i \in Inst,
           MessageIgnored(i) \/ IoStarts(i) \/ OpenResolves(i) \/ IoChecked(i) \/ IoAnswered(i)
    PROVE  Types' /\ \A j \in Inst \ {i} : StandsStill(j)
<1>1. toMain[i] # <<>> =>
        /\ Received(toMain, i) \in [Inst -> Seq(Messages)] /\ Head(toMain[i]) \in Messages
        /\ \A j \in Inst \ {i} : Received(toMain, i)[j] = toMain[j]
  BY ReceivedType DEF Types, QueueTypes, Received
<1>2. CASE MessageIgnored(i)
  <2>1. toMain' = Received(toMain, i) /\ toMain[i] # <<>>
    BY <1>2 DEF MessageIgnored, Arrives, Consume
  <2>2. UNCHANGED <<shared, main, session, mailbox, wk, toWorker>>
    BY <1>2 DEF MessageIgnored
  <2>3. toMain' \in [Inst -> Seq(Messages)] /\ \A j \in Inst \ {i} : UNCHANGED toMain[j]
    BY <1>1, <2>1
  <2>4. Types'
    BY <2>2, <2>3, Zenon DEF Types, SharedTypes, PromiseTypes, IoTypes, QueueTypes, shared, session
  <2> QED  BY <2>2, <2>3, <2>4 DEF StandsStill, session
<1>3. CASE IoStarts(i)
  <2>1. Head(toMain[i]).seq \in Sequence
    BY <1>1, <1>3 DEF IoStarts, Arrives, Messages
  <2>2. /\ op' \in [by : Inst \cup {None}, seq : Sequence, st : {"none", "running", "ok", "failed"}]
        /\ next' \in [Inst -> Nat] /\ io' \in [Inst -> {"none", "storage", "checked"}]
        /\ \A j \in Inst \ {i} : UNCHANGED <<next[j], io[j]>>
    BY <1>3, <2>1 DEF IoStarts, Types, SharedTypes, IoTypes
  <2>3. UNCHANGED <<owned, consumed, store, main, opened, running, finished, calls, down, why,
                    aborted, mailbox, wk, toWorker>>
    BY <1>3 DEF IoStarts
  <2>4. toMain[i] # <<>> /\ toMain' = Received(toMain, i)
    BY <1>3 DEF IoStarts, Arrives, Consume
  <2>5. toMain' \in [Inst -> Seq(Messages)] /\ \A j \in Inst \ {i} : UNCHANGED toMain[j]
    BY <1>1, <2>4 DEF Types, QueueTypes, Received
  <2>6. Types'
    BY <2>2, <2>3, <2>5, Zenon DEF Types, SharedTypes, PromiseTypes, IoTypes, QueueTypes
  <2> QED  BY <2>2, <2>3, <2>5, <2>6 DEF StandsStill
<1>4. CASE OpenResolves(i)
  <2>1. toMain' \in [Inst -> Seq(Messages)] /\ \A j \in Inst \ {i} : UNCHANGED toMain[j]
    BY <1>1, <1>4 DEF OpenResolves, Arrives, Consume, Types, QueueTypes, Received
  <2>2. /\ opened' \in [Inst -> {"none", "pending", "resolved", "rejected"}]
        /\ \A j \in Inst \ {i} : UNCHANGED opened[j]
    BY <1>4 DEF OpenResolves, Types, PromiseTypes
  <2>3. /\ UNCHANGED <<shared, main, running, finished, next, io, calls, down, why, aborted>>
        /\ UNCHANGED <<mailbox, wk, toWorker>>
    BY <1>4 DEF OpenResolves
  <2>4. Types'
    BY <2>1, <2>2, <2>3, Zenon DEF Types, SharedTypes, PromiseTypes, IoTypes, QueueTypes, shared
  <2> QED  BY <2>1, <2>2, <2>3, <2>4 DEF StandsStill
<1>5. CASE IoChecked(i)
  BY <1>5 DEF IoChecked, shared, worker, StandsStill, Types, SharedTypes, PromiseTypes, IoTypes,
              QueueTypes
<1>6. CASE IoAnswered(i)
  <2>1. mailbox[i] \in [flag : {-1, 0, 1}, seq : Sequence]
    BY DEF Types, IoTypes
  <2>2. /\ mailbox' \in [Inst -> [flag : {-1, 0, 1}, seq : Sequence]]
        /\ io' \in [Inst -> {"none", "storage", "checked"}]
        /\ \A j \in Inst \ {i} : UNCHANGED <<io[j], mailbox[j]>>
    BY <1>6, <2>1 DEF IoAnswered, Types, IoTypes
  <2> QED
    BY <1>6, <2>2 DEF IoAnswered, shared, StandsStill, Types, SharedTypes, PromiseTypes, IoTypes,
                      QueueTypes
<1> QED  BY <1>2, <1>3, <1>4, <1>5, <1>6

LEMMA SettlesTypes ==
    ASSUME Types, NEW outcome \in {"ok", "failed"}, StorageSettles(outcome)
    PROVE  Types' /\ op' = [op EXCEPT !.st = outcome] /\ op.st = "running"
           /\ \A j \in Inst : StandsStill(j)
<1>1. op' = [op EXCEPT !.st = outcome] /\ op.st = "running"
      /\ UNCHANGED <<owned, consumed, store, main, session, worker>>
  BY DEF StorageSettles
<1>2. op' \in [by : Inst \cup {None}, seq : Sequence, st : {"none", "running", "ok", "failed"}]
  BY <1>1 DEF Types, SharedTypes
<1> QED  BY <1>1, <1>2 DEF Types, SharedTypes, PromiseTypes, IoTypes, QueueTypes, session, worker,
                           StandsStill

-----------------------------------------------------------------------------
\* Every step of session i, by the kind of thing it does.
LEMMA StepKinds ==
    ASSUME NEW i \in Inst, StepOf(i)
    PROVE  \/ WorkerStep(i) \/ Tears(i) \/ Shutdown(i) \/ Answers(i)
           \/ Open(i) \/ SendNext(i) \/ \E method \in {"work", "finish"} : Call(i, method)
           \/ MessageIgnored(i) \/ IoStarts(i) \/ OpenResolves(i) \/ IoChecked(i) \/ IoAnswered(i)
BY DEF StepOf, Application, Timer, Handler, Completion, Tears, Answers

LEMMA StepTypes ==
    ASSUME Types, NEW i \in Inst, StepOf(i)
    PROVE  Types' /\ \A j \in Inst \ {i} : StandsStill(j)
BY StepKinds, WorkerTypes, TearsTypes, ShutdownTypes, AnswersTypes, ApplicationTypes, HandlerTypes

LEMMA NextKinds ==
    ASSUME [Next]_vars
    PROVE  \/ \E i \in Inst : StepOf(i)
           \/ \E outcome \in {"ok", "failed"} : StorageSettles(outcome)
           \/ UNCHANGED vars
BY DEF Next, StepOf

LEMMA TypesPreserved == Types /\ [Next]_vars => Types'
<1> SUFFICES ASSUME Types, [Next]_vars PROVE Types'
  OBVIOUS
<1>1. CASE UNCHANGED vars
  BY <1>1 DEF vars, shared, session, worker, Types, SharedTypes, PromiseTypes, IoTypes, QueueTypes
<1> QED  BY <1>1, NextKinds, StepTypes, SettlesTypes

-----------------------------------------------------------------------------
(***************************************************************************)
(* Possession: who has the storage, and what state it is in.               *)
(***************************************************************************)
\* A session that was not opened has done nothing.
Fresh(i) ==
    opened[i] = "none" =>
        /\ calls[i] = <<>> /\ toMain[i] = <<>>
        /\ wk[i].at = "none" /\ io[i] = "none" /\ down[i] = "none" /\ main # i

RunsUntilDown(i) ==
    /\ running[i] <=> opened[i] # "none" /\ down[i] = "none"
    /\ finished[i] => down[i] = "done"

\* A shutdown that is under way has spent the storage; a session that runs has not.
SpendsWhenDown(i) ==
    /\ running[i] => ~ consumed
    /\ down[i] \in {"aborting", "settling", "closing"} => consumed

OneHolder ==
    /\ \A i \in Inst : Holds(i) => owned
    /\ \A i, j \in Inst : Holds(i) /\ Holds(j) => i = j

ClosedOnlyWhenSpent ==
    /\ ~ consumed => store = "open"
    /\ store = "closing" => \E i \in Inst : Closing(i)

Possession ==
    /\ \A i \in Inst : Fresh(i) /\ RunsUntilDown(i) /\ SpendsWhenDown(i)
    /\ OneHolder /\ ClosedOnlyWhenSpent

LEMMA InitPossession == Init => Possession
<1> SUFFICES ASSUME Init PROVE Possession
  OBVIOUS
<1>1. \A i \in Inst : ~ running[i] /\ ~ finished[i]
  BY DEF Init
<1>2. ~ consumed
  BY Zenon DEF Init
<1> QED  BY <1>1, <1>2, NoneAssumption DEF Init, Possession, Fresh, RunsUntilDown,
            SpendsWhenDown, OneHolder, ClosedOnlyWhenSpent, Holds, NoWorker

\* Every step but Open is one of a session that was opened.
LEMMA OnlyOpenOpens ==
    ASSUME Types, Possession, NEW i \in Inst, StepOf(i), ~ Open(i)
    PROVE  opened[i] # "none" /\ opened'[i] # "none"
<1>1. /\ opened[i] = "none" => ~ WorkerStep(i)
      /\ opened[i] = "none" => ~ Shutdown(i)
  BY DEF Possession, Fresh, RunsUntilDown, WorkerStep, WorkerLoads, LoadFails, WorkerTakes,
         Request, RequestServed, RequestGivenUp, Mounted, MethodReturns, MethodThrows, MethodTraps,
         WorkerCrashes, WorkerStops, Shutdown, PendingAborted, PendingSettled, StorageClosed,
         TeardownFails
<1>2. opened[i] = "none" => ~ Application(i) /\ ~ SendNext(i) /\ ~ Timer(i)
  <2>1. calls[i] = <<>> => DOMAIN calls[i] = {}
    BY DEF Types, QueueTypes
  <2> QED
    BY <2>1 DEF Possession, Fresh, Application, SendNext, Timer, Abort, SendThrows, Call,
                OpenTimesOut, CallTimesOut, Sent
<1>3. opened[i] = "none" => ~ Handler(i)
  BY DEF Possession, Fresh, Handler, MessageIgnored, IoStarts, IoOutOfSequence, OpenResolves,
         WorkerFails, CallAnswered, CallRetires, FinishAnswered, ReplyTo, Arrives
<1>4. opened[i] = "none" => ~ Completion(i)
  BY DEF Possession, Fresh, Completion, IoChecked, IoAnswered, IoFails, Awaited
<1>5. opened[i] # "none"
  BY <1>1, <1>2, <1>3, <1>4 DEF StepOf
<1>6. opened'[i] # "none"
  <2>1. CASE UNCHANGED opened
    BY <1>5, <2>1
  <2>2. CASE OpenResolves(i)
    BY <2>2 DEF OpenResolves, Types, PromiseTypes
  <2>3. CASE Shutdown(i)
    BY <1>5, <2>3 DEF Shutdown, PendingAborted, PendingSettled, StorageClosed, TeardownFails,
                      TeardownEnds, Types, PromiseTypes
  <2>4. CASE Tears(i)
    BY <2>1, <2>4, TearsEffect
  <2>5. CASE Answers(i)
    BY <2>1, <2>5, AnswersEffect
  <2>6. CASE WorkerStep(i)
    BY <2>1, <2>6, WorkerTypes DEF session
  <2>7. CASE SendNext(i)
    BY <2>1, <2>7, SendNextEffect
  <2>8. CASE MessageIgnored(i) \/ IoStarts(i) \/ IoChecked(i) \/ IoAnswered(i)
             \/ \E method \in {"work", "finish"} : Call(i, method)
    BY <2>1, <2>8 DEF MessageIgnored, IoStarts, IoChecked, IoAnswered, Call, session
  <2> QED  BY <2>2, <2>3, <2>4, <2>5, <2>6, <2>7, <2>8, StepKinds
<1> QED  BY <1>5, <1>6

\* A step of an open session that leaves the possession of the storage alone.
Quiet(i) == UNCHANGED <<owned, consumed, store>> /\ UNCHANGED <<running[i], finished[i], down[i]>>

Held(i) ==
    /\ opened[i] # "none" /\ opened'[i] # "none"
    /\ \A j \in Inst \ {i} : StandsStill(j)
    /\ main' \in {main, i, None}

LEMMA OthersFresh ==
    ASSUME Possession, NEW i \in Inst, Held(i)
    PROVE  /\ \A j \in Inst : Fresh(j)'
           /\ \A j \in Inst \ {i} : UNCHANGED <<opened[j], running[j], finished[j], down[j]>>
BY NoneAssumption DEF Possession, Fresh, Held, StandsStill

LEMMA QuietPreserves ==
    ASSUME Possession, NEW i \in Inst, Held(i), Quiet(i)
    PROVE  Possession'
<1>1. /\ UNCHANGED <<owned, consumed, store>>
      /\ \A j \in Inst : UNCHANGED <<running[j], finished[j], down[j]>>
      /\ \A j \in Inst : opened[j] # "none" <=> opened'[j] # "none"
      /\ \A j \in Inst : Fresh(j)'
  BY OthersFresh DEF Quiet, Held
<1> QED  BY <1>1 DEF Possession, RunsUntilDown, SpendsWhenDown, OneHolder, ClosedOnlyWhenSpent,
                     Closing, Holds

\* The shutdown of a session begins or moves on.
LEMMA MovesDownPreserves ==
    ASSUME Possession, NEW i \in Inst, Held(i),
           ~ running'[i], UNCHANGED <<owned, finished[i]>>, consumed',
           finished[i] => down'[i] = "done",
           down[i] # "done", down'[i] \in {"aborting", "settling", "closing"},
           store' = "closing" => Closing(i)' \/ (store' = store /\ ~ Closing(i))
    PROVE  Possession'
<1>1. /\ \A j \in Inst : Fresh(j)'
      /\ \A j \in Inst \ {i} : UNCHANGED <<opened[j], running[j], finished[j], down[j]>>
  BY OthersFresh
<1>2. \A j \in Inst : Holds(j)' <=> Holds(j)
  BY <1>1 DEF Holds, Held
<1>3. OneHolder'
  BY <1>2 DEF Possession, OneHolder
<1>4. ASSUME NEW j \in Inst  PROVE RunsUntilDown(j)' /\ SpendsWhenDown(j)'
  <2>1. Holds(i)
    BY DEF Holds, Held
  <2>2. j # i => ~ running[j]
    BY <2>1 DEF Possession, RunsUntilDown, OneHolder, Holds
  <2> QED  BY <1>1, <2>2 DEF Possession, RunsUntilDown, SpendsWhenDown, Held
<1>5. ClosedOnlyWhenSpent'
  BY <1>1 DEF Possession, ClosedOnlyWhenSpent, Closing
<1> QED  BY <1>1, <1>3, <1>4, <1>5 DEF Possession

\* The shutdown ends, or finish gives the storage back.
LEMMA ReleasesPreserves ==
    ASSUME Possession, NEW i \in Inst, Held(i),
           down[i] # "done", down'[i] = "done", ~ running'[i], UNCHANGED consumed,
           \/ store' = store /\ ~ Closing(i)
           \/ store' \in {"closed", "failed"} /\ consumed
    PROVE  /\ Possession'
           /\ \A j \in Inst : ~ Holds(j)'
           /\ \A j \in Inst : Holds(j) <=> j = i
<1>1. /\ \A j \in Inst : Fresh(j)'
      /\ \A j \in Inst \ {i} : UNCHANGED <<opened[j], running[j], finished[j], down[j]>>
  BY OthersFresh
<1>2. \A j \in Inst : Holds(j) <=> j = i
  BY DEF Possession, OneHolder, Holds, Held
<1>3. \A j \in Inst : ~ Holds(j)'
  BY <1>1, <1>2 DEF Holds
<1>4. OneHolder'
  BY <1>3 DEF OneHolder
<1>5. \A j \in Inst : RunsUntilDown(j)' /\ SpendsWhenDown(j)'
  BY <1>1 DEF Possession, RunsUntilDown, SpendsWhenDown, Held
<1>6. ClosedOnlyWhenSpent'
  <2>1. CASE store' \in {"closed", "failed"} /\ consumed
    BY <2>1 DEF ClosedOnlyWhenSpent
  <2>2. CASE store' = store /\ ~ Closing(i)
    <3>1. store # "closing"
      BY <1>2, <2>2 DEF Possession, ClosedOnlyWhenSpent, Closing, Holds, Fresh
    <3> QED  BY <2>2, <3>1 DEF Possession, ClosedOnlyWhenSpent
  <2> QED  BY <2>1, <2>2
<1> QED  BY <1>1, <1>2, <1>3, <1>4, <1>5, <1>6 DEF Possession

LEMMA OpenPreserves ==
    ASSUME Types, Possession, NEW i \in Inst, Open(i)
    PROVE  Possession'
<1>1. /\ opened[i] = "none" /\ ~ owned /\ ~ consumed /\ store = "open"
      /\ UNCHANGED <<consumed, store, main, io, calls, down, toMain, finished>>
  BY DEF Open
<1>2. /\ opened'[i] = "pending" /\ running'[i] /\ owned'
      /\ \A j \in Inst \ {i} : opened'[j] = opened[j] /\ running'[j] = running[j] /\ wk'[j] = wk[j]
  <2>1. owned' /\ running'[i]
    BY Zenon DEF Open, Types, PromiseTypes
  <2>2. opened'[i] = "pending"
    BY DEF Open, Types, PromiseTypes
  <2>3. \A j \in Inst \ {i} : StandsStill(j)
    BY ApplicationTypes
  <2> QED  BY <2>1, <2>2, <2>3 DEF StandsStill
<1>3. down[i] = "none" /\ \A j \in Inst : ~ Holds(j)
  BY <1>1 DEF Possession, Fresh, OneHolder
<1>4. \A j \in Inst : Holds(j)' <=> j = i
  BY <1>1, <1>2, <1>3 DEF Holds
<1>5. OneHolder'
  BY <1>2, <1>4 DEF OneHolder
<1>6. ASSUME NEW j \in Inst  PROVE Fresh(j)' /\ RunsUntilDown(j)' /\ SpendsWhenDown(j)'
  BY <1>1, <1>2, <1>3 DEF Possession, Fresh, RunsUntilDown, SpendsWhenDown
<1>7. ClosedOnlyWhenSpent'
  BY <1>1 DEF Possession, ClosedOnlyWhenSpent
<1> QED  BY <1>5, <1>6, <1>7 DEF Possession

\* A shutdown that had begun before changes nothing.
LEMMA TearsPossession ==
    ASSUME Types, Possession, NEW i \in Inst, Held(i), Tears(i)
    PROVE  Possession'
<1>1. Teardown(i) /\ UNCHANGED <<owned, main, opened, finished>>
  BY TearsEffect
<1>2. CASE down[i] # "none"
  BY <1>1, <1>2, QuietPreserves DEF Teardown, Quiet
<1>3. CASE down[i] = "none"
  <2>1. ~ running'[i] /\ consumed'
    BY <1>1, <1>3, Zenon DEF Teardown, Types, PromiseTypes
  <2>2. /\ down'[i] \in {"aborting", "closing"}
        /\ store' = "closing" => Closing(i)' \/ (store' = store /\ ~ Closing(i))
    BY <1>1, <1>3 DEF Teardown, Closing, Types, PromiseTypes
  <2>3. ~ finished[i]
    BY <1>3 DEF Possession, RunsUntilDown
  <2> QED  BY <1>1, <1>3, <2>1, <2>2, <2>3, MovesDownPreserves
<1> QED  BY <1>2, <1>3

LEMMA ShutdownPossession ==
    ASSUME Types, Possession, NEW i \in Inst, Held(i), Shutdown(i)
    PROVE  Possession'
<1>1. CASE PendingAborted(i) \/ PendingSettled(i)
  <2>1. /\ down[i] \in {"aborting", "settling"}
        /\ UNCHANGED <<owned, consumed, main, running, finished>>
        /\ down'[i] \in {"settling", "closing"}
        /\ store' = "closing" => Closing(i)' \/ (store' = store /\ ~ Closing(i))
    BY <1>1 DEF PendingAborted, PendingSettled, Closing, Types, PromiseTypes
  <2>2. ~ running[i] /\ ~ finished[i] /\ consumed
    BY <2>1 DEF Possession, RunsUntilDown, SpendsWhenDown
  <2> QED  BY <2>1, <2>2, MovesDownPreserves
<1>2. CASE StorageClosed(i) \/ TeardownFails(i)
  <2>1. /\ down[i] \in {"aborting", "settling", "closing"} /\ down'[i] = "done"
        /\ UNCHANGED <<consumed, main, running>>
        /\ \/ store' = store /\ ~ Closing(i)
           \/ store' \in {"closed", "failed"}
    BY <1>2 DEF StorageClosed, TeardownFails, TeardownEnds, Types, PromiseTypes
  <2>2. ~ running[i] /\ consumed
    BY <2>1 DEF Possession, RunsUntilDown, SpendsWhenDown
  <2> QED  BY <2>1, <2>2, ReleasesPreserves
<1> QED  BY <1>1, <1>2 DEF Shutdown

LEMMA FinishPossession ==
    ASSUME Types, Possession, NEW i \in Inst, Held(i), NEW k \in CallIds, FinishAnswered(i, k)
    PROVE  /\ Possession'
           /\ \A j \in Inst : ~ Holds(j)'
           /\ \A j \in Inst : Holds(j) <=> j = i
           /\ ~ consumed /\ ~ owned'
<1>1. running[i] /\ UNCHANGED <<consumed, store, main>>
  BY DEF FinishAnswered, ReplyTo
<1>2. ~ running'[i] /\ down'[i] = "done"
  BY DEF FinishAnswered, Types, PromiseTypes
<1>3. down[i] = "none" /\ ~ consumed
  BY <1>1 DEF Possession, RunsUntilDown, SpendsWhenDown
<1>4. ~ owned'
  BY Zenon DEF FinishAnswered
<1> QED  BY <1>1, <1>2, <1>3, <1>4, ReleasesPreserves DEF Closing

\* Only a completion of this session interrupts the main thread for it.
LEMMA MainStays ==
    ASSUME Types, NEW i \in Inst, StepOf(i), ~ Open(i)
    PROVE  main' \in {main, i, None}
<1>1. CASE WorkerStep(i) \/ Tears(i) \/ Answers(i) \/ SendNext(i)
  BY <1>1, WorkerTypes, TearsEffect, AnswersEffect, SendNextEffect
<1>2. CASE Shutdown(i)
  BY <1>2 DEF Shutdown, PendingAborted, PendingSettled, StorageClosed, TeardownFails, TeardownEnds
<1>3. CASE \/ MessageIgnored(i) \/ IoStarts(i) \/ OpenResolves(i) \/ IoChecked(i) \/ IoAnswered(i)
           \/ \E method \in {"work", "finish"} : Call(i, method)
  BY <1>3 DEF MessageIgnored, IoStarts, OpenResolves, IoChecked, IoAnswered, Call
<1> QED  BY <1>1, <1>2, <1>3, StepKinds

LEMMA StepPossession ==
    ASSUME Types, Possession, NEW i \in Inst, StepOf(i)
    PROVE  Possession'
<1>1. CASE Open(i)
  BY <1>1, OpenPreserves
<1>2. CASE ~ Open(i)
  <2>1. main' \in {main, i, None}
    BY <1>2, MainStays
  <2>2. Held(i)
    BY <1>2, <2>1, OnlyOpenOpens, StepTypes DEF Held
  <2>3. CASE Tears(i)
    BY <2>2, <2>3, TearsPossession
  <2>4. CASE Shutdown(i)
    BY <2>2, <2>4, ShutdownPossession
  <2>5. CASE Answers(i)
    <3>1. CASE \E k \in CallIds : FinishAnswered(i, k)
      BY <2>2, <3>1, FinishPossession
    <3>2. CASE UNCHANGED <<owned, running, finished, down, mailbox>>
      BY <2>2, <2>5, <3>2, AnswersEffect, QuietPreserves DEF Quiet
    <3> QED  BY <2>5, <3>1, <3>2, AnswersEffect
  <2>6. CASE WorkerStep(i)
    BY <2>2, <2>6, WorkerTypes, QuietPreserves DEF Quiet, shared, session
  <2>7. CASE SendNext(i)
    BY <2>2, <2>7, SendNextEffect, QuietPreserves DEF Quiet, shared
  <2>8. CASE \/ MessageIgnored(i) \/ IoStarts(i) \/ OpenResolves(i) \/ IoChecked(i) \/ IoAnswered(i)
             \/ \E method \in {"work", "finish"} : Call(i, method)
    BY <2>2, <2>8, QuietPreserves DEF Quiet, shared, session, MessageIgnored, IoStarts,
       OpenResolves, IoChecked, IoAnswered, Call
  <2> QED  BY <1>2, <2>3, <2>4, <2>5, <2>6, <2>7, <2>8, StepKinds
<1> QED  BY <1>1, <1>2

LEMMA PossessionPreserved == Types /\ Possession /\ [Next]_vars => Possession'
<1> SUFFICES ASSUME Types, Possession, [Next]_vars PROVE Possession'
  OBVIOUS
<1>1. CASE UNCHANGED <<owned, consumed, store, main, session, worker>>
  BY <1>1 DEF session, worker, Possession, Fresh, RunsUntilDown, SpendsWhenDown, OneHolder, Closing,
              ClosedOnlyWhenSpent, Holds
<1>2. ASSUME NEW outcome \in {"ok", "failed"}, StorageSettles(outcome)  PROVE Possession'
  BY <1>1, <1>2 DEF StorageSettles
<1>3. CASE UNCHANGED vars
  BY <1>1, <1>3 DEF vars, shared
<1> QED  BY <1>2, <1>3, NextKinds, StepPossession

-----------------------------------------------------------------------------
(***************************************************************************)
(* The calls of a session and their replies.                               *)
(***************************************************************************)
IsPosted(i, k) == k \in DOMAIN calls[i] /\ calls[i][k].st # "queued"
IsReply(m, k)  == m.kind = "reply" /\ m.id = k

PostedOnly(i) ==
    /\ \A n \in DOMAIN toWorker[i] : IsPosted(i, toWorker[i][n])
    /\ wk[i].job # Mount => IsPosted(i, wk[i].job)
    /\ \A m \in DOMAIN toMain[i] : toMain[i][m].kind = "reply" => IsPosted(i, toMain[i][m].id)

\* One call waits for the worker at most, and nothing of it has been done.
OneWaiting(i) ==
    /\ Len(toWorker[i]) <= 1
    /\ \A n \in DOMAIN toWorker[i] :
          /\ toWorker[i][n] # wk[i].job
          /\ \A m \in DOMAIN toMain[i] : ~ IsReply(toMain[i][m], toWorker[i][n])
          /\ running[i] => calls[i][toWorker[i][n]].st = "sent"

InOrder(i) ==
    running[i] =>
        \A k \in DOMAIN calls[i] : \A j \in 1 .. k - 1 :
            Settled(calls[i][j]) \/ calls[i][k].st = "queued"

\* A call sent after an I/O was lost meets a poisoned worker.
TaintedFails(i) ==
    \A k \in DOMAIN calls[i] :
        calls[i][k].tainted =>
            /\ wk[i].poisoned /\ wk[i].job # k /\ calls[i][k].st # "ok"
            /\ \A m \in DOMAIN toMain[i] : IsReply(toMain[i][m], k) => ~ toMain[i][m].ok

RetiredIsPoisoned(i) ==
    /\ wk[i].retired => wk[i].poisoned
    /\ wk[i].at = "waiting" => ~ wk[i].poisoned

\* The engine that finished well is gone, and with it the worker's last request.
FinishIsLast(i) ==
    \A m \in DOMAIN toMain[i] :
        (toMain[i][m].kind = "reply" /\ toMain[i][m].ok
           /\ calls[i][toMain[i][m].id].method = "finish")
             => /\ ~ wk[i].retired
                /\ wk[i].at \in {"freed", "dead"} /\ (wk[i].at = "dead" => ~ running[i])

CallsInv(i) ==
    /\ PostedOnly(i) /\ OneWaiting(i) /\ InOrder(i) /\ TaintedFails(i)
    /\ RetiredIsPoisoned(i) /\ FinishIsLast(i)

LEMMA InitCalls == Init => \A i \in Inst : CallsInv(i)
<1> SUFFICES ASSUME Init, NEW i \in Inst PROVE CallsInv(i)
  OBVIOUS
<1>1. /\ calls[i] = <<>> /\ toWorker[i] = <<>> /\ toMain[i] = <<>> /\ wk[i].job = Mount
      /\ wk[i].at = "none"
  BY DEF Init, NoWorker
<1>2. ~ wk[i].retired /\ ~ wk[i].poisoned
  BY DEF Init, NoWorker
<1> QED  BY <1>1, <1>2 DEF CallsInv, PostedOnly, OneWaiting, InOrder, TaintedFails,
                           RetiredIsPoisoned, FinishIsLast

\* What a queue holds after a post and after a receipt.
LEMMA PostedAt ==
    ASSUME NEW S, NEW queues \in [Inst -> Seq(S)], NEW i \in Inst, NEW m \in S
    PROVE  /\ Len(Post(queues, i, m)[i]) = Len(queues[i]) + 1
           /\ DOMAIN Post(queues, i, m)[i] = 1 .. Len(queues[i]) + 1
           /\ \A n \in DOMAIN queues[i] : Post(queues, i, m)[i][n] = queues[i][n]
           /\ Post(queues, i, m)[i][Len(queues[i]) + 1] = m
           /\ \A n \in DOMAIN Post(queues, i, m)[i] :
                 n \in DOMAIN queues[i] \/ n = Len(queues[i]) + 1
           /\ Len(queues[i]) \in Nat /\ DOMAIN queues[i] = 1 .. Len(queues[i])
<1>1. queues[i] \in Seq(S) /\ Post(queues, i, m)[i] = Append(queues[i], m)
  BY DEF Post
<1>2. Append(queues[i], m) \in Seq(S) /\ Len(Append(queues[i], m)) = Len(queues[i]) + 1
  BY <1>1, AppendProperties
<1> QED  BY <1>1, <1>2, AppendProperties, LenProperties

LEMMA ReceivedAt ==
    ASSUME NEW S, NEW queues \in [Inst -> Seq(S)], NEW i \in Inst, queues[i] # <<>>
    PROVE  /\ Len(Received(queues, i)[i]) = Len(queues[i]) - 1
           /\ 1 \in DOMAIN queues[i] /\ Head(queues[i]) = queues[i][1]
           /\ \A n \in DOMAIN Received(queues, i)[i] :
                 /\ n + 1 \in DOMAIN queues[i] /\ n + 1 # 1
                 /\ Received(queues, i)[i][n] = queues[i][n + 1]
<1>1. queues[i] \in Seq(S) /\ Received(queues, i)[i] = Tail(queues[i])
  BY DEF Received
<1>2. /\ Tail(queues[i]) \in Seq(S) /\ Len(Tail(queues[i])) = Len(queues[i]) - 1
      /\ \A n \in 1 .. Len(Tail(queues[i])) : Tail(queues[i])[n] = queues[i][n + 1]
  BY <1>1, HeadTailProperties
<1>3. /\ DOMAIN Tail(queues[i]) = 1 .. Len(queues[i]) - 1 /\ DOMAIN queues[i] = 1 .. Len(queues[i])
      /\ Len(queues[i]) \in Nat /\ Len(queues[i]) > 0
  BY <1>1, <1>2, LenProperties, EmptySeq
<1> QED  BY <1>1, <1>2, <1>3

\* Nothing new for the main thread but messages that are no replies.
NoNewReplies(i) ==
    \A n \in DOMAIN toMain'[i] :
        toMain'[i][n].kind = "reply" => \E m \in DOMAIN toMain[i] : toMain'[i][n] = toMain[i][m]

LEMMA WorkerMoves ==
    ASSUME NEW i \in Inst, CallsInv(i), NoNewReplies(i),
           UNCHANGED <<calls[i], running[i], toWorker[i], wk[i].job>>,
           wk[i].poisoned => wk'[i].poisoned, RetiredIsPoisoned(i)',
           wk[i].at \notin {"freed", "dead"}
    PROVE  CallsInv(i)'
<1>1. PostedOnly(i)' /\ OneWaiting(i)'
  BY DEF CallsInv, PostedOnly, OneWaiting, IsPosted, IsReply, NoNewReplies
<1>2. InOrder(i)' /\ TaintedFails(i)'
  BY DEF CallsInv, InOrder, TaintedFails, IsReply, NoNewReplies
<1>3. FinishIsLast(i)'
  BY DEF CallsInv, FinishIsLast, NoNewReplies
<1> QED  BY <1>1, <1>2, <1>3 DEF CallsInv

LEMMA WorkerCalls ==
    ASSUME Types, Possession, NEW i \in Inst, WorkerStep(i), CallsInv(i)
    PROVE  CallsInv(i)'
<1>1. UNCHANGED <<calls, running, finished, opened, down>>
  BY WorkerTypes DEF session
<1>2. /\ \A m \in Messages : /\ \A n \in DOMAIN toMain[i] : Post(toMain, i, m)[i][n] = toMain[i][n]
                             /\ \A n \in DOMAIN Post(toMain, i, m)[i] :
                                 n \in DOMAIN toMain[i] \/ Post(toMain, i, m)[i][n] = m
      /\ wk \in [Inst -> Workers] /\ wk[i] \in Workers
      /\ toWorker \in [Inst -> Seq(CallIds)]
  <2>1. toMain \in [Inst -> Seq(Messages)]
    BY DEF Types, QueueTypes
  <2>2. ASSUME NEW m \in Messages
        PROVE  /\ \A n \in DOMAIN toMain[i] : Post(toMain, i, m)[i][n] = toMain[i][n]
               /\ \A n \in DOMAIN Post(toMain, i, m)[i] :
                    n \in DOMAIN toMain[i] \/ Post(toMain, i, m)[i][n] = m
    BY <2>1, PostedAt
  <2> QED  BY <2>2 DEF Types, QueueTypes, IoTypes
<1>3. /\ {Ready, FailedOpen, WorkerError} \subseteq Messages
      /\ \A m \in {Ready, FailedOpen, WorkerError} : m.kind # "reply"
      /\ \A n \in Sequence : IoMessage(n) \in Messages /\ IoMessage(n).kind # "reply"
  BY DEF Ready, FailedOpen, WorkerError, IoMessage, Messages
<1>4. CASE LoadFails(i) \/ Mounted(i) \/ WorkerCrashes(i)
  <2>1. PICK m \in {Ready, FailedOpen, WorkerError} : toMain' = Post(toMain, i, m)
    BY <1>4 DEF LoadFails, Mounted, WorkerCrashes
  <2>2. NoNewReplies(i)
    BY <1>2, <1>3, <2>1 DEF NoNewReplies
  <2>3. /\ wk[i].at \notin {"freed", "dead"} /\ wk'[i].at # "waiting" /\ UNCHANGED toWorker
        /\ wk'[i].job = wk[i].job /\ (wk'[i].retired <=> wk[i].retired)
        /\ wk[i].poisoned => wk'[i].poisoned
    BY <1>2, <1>4 DEF LoadFails, Mounted, WorkerCrashes, Workers
  <2>4. RetiredIsPoisoned(i)'
    BY <2>3 DEF RetiredIsPoisoned, CallsInv
  <2> QED  BY <1>1, <2>2, <2>3, <2>4, WorkerMoves
<1>5. CASE Request(i)
  <2>1. toMain' = Post(toMain, i, IoMessage(wk[i].seq + 1)) /\ wk[i].seq + 1 \in Sequence
    BY <1>2, <1>5, BoundsAssumption DEF Request, Workers, Sequence
  <2>2. NoNewReplies(i)
    BY <1>2, <1>3, <2>1 DEF NoNewReplies
  <2>3. /\ wk[i].at = "busy" /\ ~ wk[i].poisoned /\ UNCHANGED toWorker
        /\ wk'[i].job = wk[i].job /\ (wk'[i].retired <=> wk[i].retired)
        /\ wk'[i].poisoned <=> wk[i].poisoned
    BY <1>2, <1>5 DEF Request, Workers
  <2>4. RetiredIsPoisoned(i)'
    BY <2>3 DEF RetiredIsPoisoned, CallsInv
  <2> QED  BY <1>1, <2>2, <2>3, <2>4, WorkerMoves
<1>6. CASE WorkerLoads(i) \/ RequestServed(i) \/ MethodTraps(i)
  <2>1. NoNewReplies(i)
    BY <1>6 DEF WorkerLoads, RequestServed, MethodTraps, NoNewReplies
  <2>2. /\ wk[i].at \notin {"freed", "dead"} /\ wk'[i].at # "waiting" /\ UNCHANGED toWorker
        /\ wk'[i].job = wk[i].job /\ (wk'[i].retired <=> wk[i].retired)
        /\ wk'[i].poisoned <=> wk[i].poisoned
    <3>1. PICK a \in {"busy", "idle"} : wk' = [wk EXCEPT ![i].at = a]
      BY <1>6 DEF WorkerLoads, RequestServed, MethodTraps
    <3>2. wk[i].at \in {"loading", "waiting", "busy"} /\ UNCHANGED toWorker
      BY <1>6 DEF WorkerLoads, RequestServed, MethodTraps
    <3> QED  BY <1>2, <3>1, <3>2 DEF Workers
  <2>3. RetiredIsPoisoned(i)'
    BY <2>2 DEF RetiredIsPoisoned, CallsInv
  <2> QED  BY <1>1, <2>1, <2>2, <2>3, WorkerMoves
<1>7. CASE RequestGivenUp(i)
  <2>1. NoNewReplies(i)
    BY <1>7 DEF RequestGivenUp, NoNewReplies
  <2>2. /\ wk[i].at = "waiting" /\ wk'[i].at = "busy" /\ UNCHANGED toWorker
        /\ wk'[i].job = wk[i].job /\ wk'[i].poisoned
    BY <1>2, <1>7 DEF RequestGivenUp, Workers
  <2>3. RetiredIsPoisoned(i)'
    BY <2>2 DEF RetiredIsPoisoned
  <2> QED  BY <1>1, <2>1, <2>2, <2>3, WorkerMoves
<1>8. CASE WorkerTakes(i)
  <2>1. /\ wk[i].at = "idle" /\ toWorker[i] # <<>> /\ toWorker' = Received(toWorker, i)
        /\ Head(toWorker[i]) = toWorker[i][1] /\ 1 \in DOMAIN toWorker[i]
    BY <1>2, <1>8, ReceivedAt DEF WorkerTakes
  <2>2. Len(toWorker[i]) = 1 /\ toWorker'[i] \in Seq(CallIds) /\ Len(toWorker'[i]) = 0
    <3>1. /\ Len(toWorker[i]) <= 1 /\ Len(toWorker[i]) \in Nat
          /\ DOMAIN toWorker[i] = 1 .. Len(toWorker[i])
      BY <1>2, LenProperties DEF CallsInv, OneWaiting
    <3>2. Len(toWorker[i]) = 1
      <4>1. 1 \in 1 .. Len(toWorker[i])
        BY <2>1, <3>1
      <4> DEFINE l == Len(toWorker[i])
      <4>2. l \in Nat /\ l <= 1 /\ 1 \in 1 .. l
        BY <3>1, <4>1
      <4> HIDE DEF l
      <4>3. l = 1
        BY <4>2
      <4> QED  BY <4>3 DEF l
    <3>3. toWorker' \in [Inst -> Seq(CallIds)] /\ Len(toWorker'[i]) = Len(toWorker[i]) - 1
      BY <1>2, <2>1, ReceivedType, ReceivedAt
    <3> QED  BY <3>2, <3>3
  <2>3. DOMAIN toWorker'[i] = {}
    BY <2>2, LenProperties
  <2>4. OneWaiting(i)'
    BY <2>2, <2>3 DEF OneWaiting
  <2>5. CASE wk[i].poisoned
    <3>1. toMain' = Post(toMain, i, Reply(toWorker[i][1], FALSE, TRUE)) /\ UNCHANGED wk
      BY <1>8, <2>1, <2>5 DEF WorkerTakes
    <3>2. toWorker[i][1] \in CallIds
      BY <1>2, <2>1, ElementOfSeq, LenProperties
    <3>3. /\ Reply(toWorker[i][1], FALSE, TRUE) \in Messages
          /\ Reply(toWorker[i][1], FALSE, TRUE).id = toWorker[i][1]
          /\ ~ Reply(toWorker[i][1], FALSE, TRUE).ok
      BY <3>2 DEF Reply, Messages
    <3>4. \A n \in DOMAIN toMain'[i] :
             \/ n \in DOMAIN toMain[i] /\ toMain'[i][n] = toMain[i][n]
             \/ toMain'[i][n].id = toWorker[i][1] /\ ~ toMain'[i][n].ok
      BY <1>2, <3>1, <3>3
    <3>8. UNCHANGED wk
      BY <3>1
    <3>5. PostedOnly(i)'
      BY <1>1, <2>1, <2>3, <3>4, <3>8 DEF CallsInv, PostedOnly, IsPosted
    <3>6. TaintedFails(i)'
      BY <1>1, <3>4, <3>8 DEF CallsInv, TaintedFails, IsReply
    <3>7. FinishIsLast(i)'
      BY <1>1, <3>4, <3>8 DEF CallsInv, FinishIsLast
    <3> QED  BY <1>1, <2>4, <3>1, <3>5, <3>6, <3>7 DEF CallsInv, InOrder, RetiredIsPoisoned
  <2>6. CASE ~ wk[i].poisoned
    <3>1. /\ UNCHANGED toMain /\ wk'[i].job = toWorker[i][1] /\ wk'[i].at = "busy"
          /\ wk'[i].retired <=> wk[i].retired
          /\ wk'[i].poisoned <=> wk[i].poisoned
      BY <1>2, <1>8, <2>1, <2>6 DEF WorkerTakes, Workers
    <3>2. PostedOnly(i)'
      BY <1>1, <2>1, <2>3, <3>1 DEF CallsInv, PostedOnly, IsPosted
    <3>3. TaintedFails(i)' /\ FinishIsLast(i)' /\ RetiredIsPoisoned(i)'
      BY <1>1, <2>1, <2>6, <3>1 DEF CallsInv, TaintedFails, FinishIsLast, RetiredIsPoisoned, IsReply
    <3> QED  BY <1>1, <2>4, <3>2, <3>3 DEF CallsInv, InOrder
  <2> QED  BY <2>5, <2>6
<1>9. CASE MethodReturns(i) \/ MethodThrows(i)
  <2>1. PICK good \in BOOLEAN, gone \in BOOLEAN :
          /\ toMain' = Post(toMain, i, Reply(wk[i].job, good, gone))
          /\ good => MethodReturns(i)
    BY <1>9 DEF MethodReturns, MethodThrows
  <2>2. /\ wk[i].at = "busy" /\ wk[i].job # Mount /\ UNCHANGED toWorker
        /\ wk'[i].job = wk[i].job /\ (wk'[i].retired <=> wk[i].retired) /\ wk'[i].at # "waiting"
        /\ wk[i].poisoned => wk'[i].poisoned
    <3>1. CASE MethodReturns(i)
      BY <1>2, <3>1 DEF MethodReturns, Workers
    <3>2. CASE MethodThrows(i)
      <4>1. PICK p \in BOOLEAN : /\ wk' = [wk EXCEPT ![i].at = "idle", ![i].poisoned = p]
                                 /\ wk[i].poisoned => p
        BY <1>2, <3>2, Zenon DEF MethodThrows, Workers
      <4> QED  BY <1>2, <3>2, <4>1 DEF MethodThrows, Workers
    <3> QED  BY <1>9, <3>1, <3>2
  <2>3. /\ Reply(wk[i].job, good, gone) \in Messages
        /\ Reply(wk[i].job, good, gone).id = wk[i].job
        /\ Reply(wk[i].job, good, gone).ok <=> good
    BY <1>2, <2>2 DEF Reply, Messages, Workers
  <2>4. \A n \in DOMAIN toMain'[i] :
           \/ n \in DOMAIN toMain[i] /\ toMain'[i][n] = toMain[i][n]
           \/ toMain'[i][n].id = wk[i].job /\ (toMain'[i][n].ok => good)
    BY <1>2, <2>1, <2>3
  <2>5. good /\ calls[i][wk[i].job].method = "finish" => wk'[i].at = "freed" /\ ~ wk[i].retired
    <3>1. CASE good
      BY <1>2, <2>1, <3>1 DEF MethodReturns, Method, Workers
    <3> QED  BY <3>1
  <2>6. PostedOnly(i)' /\ OneWaiting(i)'
    <3>1. \A n : IsPosted(i, n)' <=> IsPosted(i, n)
      BY <1>1 DEF IsPosted
    <3>2. IsPosted(i, wk[i].job)
      BY <2>2 DEF CallsInv, PostedOnly
    <3>3. PostedOnly(i)'
      BY <2>2, <2>4, <3>1, <3>2 DEF CallsInv, PostedOnly
    <3>4. OneWaiting(i)'
      BY <1>1, <2>2, <2>4 DEF CallsInv, OneWaiting, IsReply
    <3> QED  BY <3>3, <3>4
  <2>7. TaintedFails(i)'
    BY <1>1, <2>2, <2>4 DEF CallsInv, TaintedFails, IsReply
  <2>8. FinishIsLast(i)'
    BY <1>1, <2>2, <2>4, <2>5 DEF CallsInv, FinishIsLast
  <2> QED  BY <1>1, <2>2, <2>6, <2>7, <2>8 DEF CallsInv, InOrder, RetiredIsPoisoned
<1>10. CASE WorkerStops(i)
  <2>1. /\ UNCHANGED toMain /\ wk'[i].at = "dead" /\ wk'[i].job = wk[i].job /\ toWorker'[i] = <<>>
        /\ (wk'[i].retired <=> wk[i].retired) /\ (wk'[i].poisoned <=> wk[i].poisoned)
        /\ down[i] # "none"
    BY <1>2, <1>10 DEF WorkerStops, Workers
  <2>2. ~ running[i]
    BY <2>1 DEF Possession, RunsUntilDown
  <2>3. DOMAIN toWorker'[i] = {} /\ Len(toWorker'[i]) = 0
    BY <2>1, EmptySeq
  <2>4. PostedOnly(i)' /\ OneWaiting(i)'
    BY <1>1, <2>1, <2>3 DEF CallsInv, PostedOnly, OneWaiting, IsPosted
  <2>5. TaintedFails(i)' /\ FinishIsLast(i)' /\ InOrder(i)' /\ RetiredIsPoisoned(i)'
    BY <1>1, <2>1, <2>2 DEF CallsInv, TaintedFails, FinishIsLast, InOrder, RetiredIsPoisoned,
       IsReply
  <2> QED  BY <2>4, <2>5 DEF CallsInv
<1> QED  BY <1>4, <1>5, <1>6, <1>7, <1>8, <1>9, <1>10 DEF WorkerStep

-----------------------------------------------------------------------------
\* The messages of the worker are read, and none is added.
NoNewMessages(i) ==
    \A n \in DOMAIN toMain'[i] : \E m \in DOMAIN toMain[i] : toMain'[i][n] = toMain[i][m]

LEMMA MessagesAreRead ==
    ASSUME Types, NEW i \in Inst,
           \/ UNCHANGED toMain
           \/ toMain[i] # <<>> /\ toMain' = Received(toMain, i)
    PROVE  NoNewMessages(i)
<1>1. CASE UNCHANGED toMain
  BY <1>1 DEF NoNewMessages
<1>2. CASE toMain[i] # <<>> /\ toMain' = Received(toMain, i)
  BY <1>2, ReceivedAt DEF NoNewMessages, Types, QueueTypes
<1> QED  BY <1>1, <1>2

\* A step of the main thread that leaves the calls alone.
LEMMA HandlerCalls ==
    ASSUME NEW i \in Inst, CallsInv(i), NoNewMessages(i),
           UNCHANGED <<calls[i], wk[i], toWorker[i]>>, running'[i] => running[i]
    PROVE  CallsInv(i)'
<1>1. PostedOnly(i)' /\ OneWaiting(i)'
  <2>1. \A n : IsPosted(i, n)' <=> IsPosted(i, n)
    BY DEF IsPosted
  <2>2. PostedOnly(i)'
    BY <2>1 DEF CallsInv, PostedOnly, NoNewMessages
  <2>3. OneWaiting(i)'
    BY DEF CallsInv, OneWaiting, IsReply, NoNewMessages
  <2> QED  BY <2>2, <2>3
<1>2. InOrder(i)' /\ TaintedFails(i)' /\ RetiredIsPoisoned(i)'
  BY DEF CallsInv, InOrder, TaintedFails, RetiredIsPoisoned, IsReply, NoNewMessages
<1>3. FinishIsLast(i)'
  BY DEF CallsInv, FinishIsLast, NoNewMessages
<1> QED  BY <1>1, <1>2, <1>3 DEF CallsInv

\* Calls of a session that is over settle in any order.
LEMMA OverCalls ==
    ASSUME NEW i \in Inst, CallsInv(i), NoNewMessages(i),
           UNCHANGED <<wk[i], toWorker[i]>>, ~ running'[i],
           DOMAIN calls'[i] = DOMAIN calls[i],
           \A k \in DOMAIN calls[i] :
              /\ calls'[i][k].method = calls[i][k].method
              /\ calls'[i][k].tainted = calls[i][k].tainted
              /\ calls[i][k].st # "queued" => calls'[i][k].st # "queued"
              /\ calls[i][k].tainted => calls'[i][k].st # "ok"
    PROVE  CallsInv(i)'
<1>1. PostedOnly(i)'
  <2>1. \A n : IsPosted(i, n) => IsPosted(i, n)'
    BY DEF IsPosted
  <2> QED  BY <2>1 DEF CallsInv, PostedOnly, NoNewMessages
<1>2. OneWaiting(i)'
  BY DEF CallsInv, OneWaiting, IsReply, NoNewMessages
<1>3. InOrder(i)' /\ RetiredIsPoisoned(i)'
  BY DEF CallsInv, InOrder, RetiredIsPoisoned
<1>4. TaintedFails(i)'
  BY DEF CallsInv, TaintedFails, IsReply, NoNewMessages
<1>5. FinishIsLast(i)'
  <2> SUFFICES ASSUME NEW n \in DOMAIN toMain'[i],
                      toMain'[i][n].kind = "reply" /\ toMain'[i][n].ok,
                      calls'[i][toMain'[i][n].id].method = "finish"
               PROVE  ~ wk[i].retired /\ wk[i].at \in {"freed", "dead"}
    BY DEF FinishIsLast
  <2>1. PICK m \in DOMAIN toMain[i] : toMain'[i][n] = toMain[i][m]
    BY DEF NoNewMessages
  <2>2. toMain[i][m].id \in DOMAIN calls[i]
    BY <2>1 DEF CallsInv, PostedOnly, IsPosted
  <2>3. calls[i][toMain[i][m].id].method = "finish"
    BY <2>1, <2>2
  <2> QED  BY <2>1, <2>3 DEF CallsInv, FinishIsLast
<1> QED  BY <1>1, <1>2, <1>3, <1>4, <1>5 DEF CallsInv

\* What a change of call k to r does to the other calls.
LEMMA SetCallAt ==
    ASSUME Types, NEW i \in Inst, NEW k \in DOMAIN calls[i], NEW r \in CallRecs,
           calls' = SetCall(i, k, r)
    PROVE  /\ DOMAIN calls'[i] = DOMAIN calls[i] /\ DOMAIN calls[i] = 1 .. Len(calls[i])
           /\ calls'[i][k] = r
           /\ \A n \in DOMAIN calls[i] : n # k => calls'[i][n] = calls[i][n]
<1>1. QueueTypes
  BY DEF Types
<1>2. /\ calls[i] \in Seq(CallRecs) /\ calls'[i] \in Seq(CallRecs)
      /\ Len(calls'[i]) = Len(calls[i])
      /\ \A n \in DOMAIN calls[i] : calls'[i][n] = IF n = k THEN r ELSE calls[i][n]
  <2> DEFINE after == SetCall(i, k, r)
  <2>1. /\ after \in [Inst -> Seq(CallRecs)] /\ Len(after[i]) = Len(calls[i])
        /\ \A n \in DOMAIN calls[i] : after[i][n] = IF n = k THEN r ELSE calls[i][n]
    BY <1>1, SetCallType
  <2> HIDE DEF after
  <2>2. calls' = after
    BY Zenon DEF after
  <2> QED  BY <1>1, <2>1, <2>2 DEF QueueTypes
<1> QED  BY <1>2, LenProperties

LEMMA TearsCalls ==
    ASSUME Types, Possession, NEW i \in Inst, Tears(i), CallsInv(i)
    PROVE  CallsInv(i)'
<1>1. /\ Teardown(i) /\ UNCHANGED <<wk, toWorker>>
      /\ NoNewMessages(i)
  BY TearsEffect, MessagesAreRead
<1>2. ~ running'[i]
  <2>1. CASE down[i] = "none"
    BY <1>1, <2>1, Zenon DEF Teardown, Types, PromiseTypes
  <2>2. CASE down[i] # "none"
    BY <1>1, <2>2 DEF Teardown, Possession, RunsUntilDown
  <2> QED  BY <2>1, <2>2
<1>3. CASE UNCHANGED calls
  BY <1>1, <1>2, <1>3, HandlerCalls
<1>4. CASE \E k \in DOMAIN calls[i] : /\ calls[i][k].st = "queued" /\ running[i]
                                      /\ calls' = [calls EXCEPT ![i][k].st = "sent"]
  <2>1. PICK k \in DOMAIN calls[i] : /\ calls[i][k].st = "queued"
                                     /\ calls' = [calls EXCEPT ![i][k].st = "sent"]
    BY <1>4
  <2>2. calls[i][k] \in CallRecs
    BY ElementOfSeq, LenProperties DEF Types, QueueTypes
  <2>3. PICK r \in CallRecs : /\ calls' = SetCall(i, k, r)
                              /\ r.st = "sent" /\ r.method = calls[i][k].method
                              /\ r.tainted = calls[i][k].tainted
    <3> DEFINE s == [calls[i][k] EXCEPT !.st = "sent"]
    <3>1. s \in CallRecs /\ calls' = SetCall(i, k, s)
      BY <2>1, ChangedCallType DEF CallStates, Types
    <3>2. s.st = "sent" /\ s.method = calls[i][k].method /\ s.tainted = calls[i][k].tainted
      BY <2>2 DEF CallRecs
    <3> QED  BY <3>1, <3>2
  <2>4. /\ DOMAIN calls'[i] = DOMAIN calls[i] /\ calls'[i][k] = r
        /\ \A n \in DOMAIN calls[i] : n # k => calls'[i][n] = calls[i][n]
    BY <2>3, SetCallAt
  <2>5. \A n \in DOMAIN calls[i] : calls[i][n].tainted => calls[i][n].st # "ok"
    BY DEF CallsInv, TaintedFails
  <2>6. \A n \in DOMAIN calls[i] :
              /\ calls'[i][n].method = calls[i][n].method
              /\ calls'[i][n].tainted = calls[i][n].tainted
              /\ calls[i][n].st # "queued" => calls'[i][n].st # "queued"
              /\ calls[i][n].tainted => calls'[i][n].st # "ok"
    BY <2>3, <2>4, <2>5
  <2> QED  BY <1>1, <1>2, <2>4, <2>6, OverCalls
<1> QED  BY <1>3, <1>4, TearsEffect

LEMMA ShutdownCalls ==
    ASSUME Types, Possession, NEW i \in Inst, Shutdown(i), CallsInv(i)
    PROVE  CallsInv(i)'
<1>1. CASE PendingAborted(i) \/ PendingSettled(i)
  <2>1. UNCHANGED <<calls, wk, toWorker, toMain, running>>
    BY <1>1 DEF PendingAborted, PendingSettled, worker
  <2> QED  BY <2>1, MessagesAreRead, HandlerCalls
<1>2. CASE StorageClosed(i) \/ TeardownFails(i)
  <2>1. /\ UNCHANGED <<wk, toWorker, toMain, running>>
        /\ calls' = [calls EXCEPT ![i] = LostCalls(i)] /\ down[i] # "none"
    BY <1>2 DEF StorageClosed, TeardownFails, TeardownEnds, worker
  <2>2. ~ running'[i]
    BY <2>1 DEF Possession, RunsUntilDown
  <2>3. /\ calls[i] \in Seq(CallRecs) /\ calls'[i] = LostCalls(i)
        /\ DOMAIN calls[i] = 1 .. Len(calls[i])
    BY <2>1, LenProperties DEF Types, QueueTypes
  <2>4. DOMAIN calls'[i] = DOMAIN calls[i]
    BY <2>3, LostCallsType, LenProperties
  <2>5. ASSUME NEW k \in DOMAIN calls[i]
        PROVE  /\ calls'[i][k].method = calls[i][k].method
               /\ calls'[i][k].tainted = calls[i][k].tainted
               /\ calls[i][k].st # "queued" => calls'[i][k].st # "queued"
               /\ calls[i][k].tainted => calls'[i][k].st # "ok"
    <3>1. calls[i][k] \in CallRecs
      BY <2>3, ElementOfSeq
    <3>2. \/ calls'[i][k] = calls[i][k]
          \/ calls[i][k].st = "sent" /\ calls'[i][k] = [calls[i][k] EXCEPT !.st = "lost"]
      BY <2>3, LostCallsType
    <3>3. calls[i][k].tainted => calls[i][k].st # "ok"
      BY DEF CallsInv, TaintedFails
    <3> QED  BY <3>1, <3>2, <3>3 DEF CallRecs
  <2> QED  BY <2>1, <2>2, <2>4, <2>5, MessagesAreRead, OverCalls
<1> QED  BY <1>1, <1>2 DEF Shutdown

LEMMA AnswersCalls ==
    ASSUME Types, Possession, NEW i \in Inst, Answers(i), CallsInv(i)
    PROVE  CallsInv(i)'
<1>1. /\ toMain[i] # <<>> /\ toMain' = Received(toMain, i) /\ Head(toMain[i]).kind = "reply"
      /\ UNCHANGED <<wk, toWorker>> /\ running[i]
  BY AnswersEffect
<1>2. NoNewMessages(i)
  BY <1>1, MessagesAreRead
<1>3. 1 \in DOMAIN toMain[i] /\ Head(toMain[i]) = toMain[i][1]
  BY <1>1, ReceivedAt DEF Types, QueueTypes
<1>4. PICK k \in DOMAIN calls[i], r \in CallRecs :
        /\ k = Head(toMain[i]).id /\ calls[i][k].st = "sent"
        /\ calls' = SetCall(i, k, r)
        /\ r.method = calls[i][k].method /\ r.tainted = calls[i][k].tainted
        /\ r.st \in {"ok", "failed"} /\ (r.st = "ok" => Head(toMain[i]).ok)
  <2>1. PICK k \in DOMAIN calls[i], st \in {"ok", "failed"} :
                /\ k = Head(toMain[i]).id /\ calls[i][k].st = "sent"
                /\ calls' = SetCall(i, k, [calls[i][k] EXCEPT !.st = st])
                /\ [calls[i][k] EXCEPT !.st = st] \in CallRecs
                /\ st = "ok" => Head(toMain[i]).ok
    BY AnswersEffect
  <2>2. calls[i][k] \in CallRecs
    BY ElementOfSeq, LenProperties DEF Types, QueueTypes
  <2> DEFINE s == [calls[i][k] EXCEPT !.st = st]
  <2>3. s.st = st /\ s.method = calls[i][k].method /\ s.tainted = calls[i][k].tainted
    BY <2>2 DEF CallRecs
  <2>4. s \in CallRecs /\ calls' = SetCall(i, k, s)
    BY <2>1
  <2> HIDE DEF s
  <2> QED  BY <2>1, <2>3, <2>4
<1>5. /\ DOMAIN calls'[i] = DOMAIN calls[i] /\ DOMAIN calls[i] = 1 .. Len(calls[i])
      /\ calls'[i][k] = r
      /\ \A n \in DOMAIN calls[i] : n # k => calls'[i][n] = calls[i][n]
  BY <1>4, SetCallAt
<1>6. IsReply(toMain[i][1], k)
  BY <1>1, <1>3, <1>4 DEF IsReply
<1>7. PostedOnly(i)'
  <2>1. \A n : IsPosted(i, n) => IsPosted(i, n)'
    BY <1>4, <1>5 DEF IsPosted
  <2>2. UNCHANGED <<wk, toWorker>>
    BY <1>1
  <2> QED  BY <1>2, <2>1, <2>2 DEF CallsInv, PostedOnly, NoNewMessages
<1>8. OneWaiting(i)'
  <2>1. \A n \in DOMAIN toWorker[i] : toWorker[i][n] # k
    BY <1>3, <1>6 DEF CallsInv, OneWaiting
  <2>2. \A n \in DOMAIN toWorker[i] : toWorker[i][n] \in DOMAIN calls[i]
    BY DEF CallsInv, PostedOnly, IsPosted
  <2> QED  BY <1>1, <1>2, <1>5, <2>1, <2>2 DEF CallsInv, OneWaiting, IsReply, NoNewMessages
<1>9. InOrder(i)'
  <2>1. \A c \in DOMAIN calls[i] : \A j \in 1 .. c - 1 : j \in DOMAIN calls[i]
    BY <1>5, LenProperties DEF Types, QueueTypes
  <2>2. \A c \in DOMAIN calls[i] : Settled(calls[i][c]) => Settled(calls'[i][c])
    BY <1>4, <1>5 DEF Settled
  <2>3. Settled(calls'[i][k]) /\ calls[i][k].st # "queued"
    BY <1>4, <1>5 DEF Settled
  <2>4. \A c \in DOMAIN calls[i] : calls[i][c].st = "queued" => calls'[i][c].st = "queued"
    BY <1>4, <1>5
  <2> QED  BY <1>1, <1>5, <2>1, <2>2, <2>4 DEF CallsInv, InOrder
<1>10. TaintedFails(i)'
  <2>1. calls[i][k].tainted => r.st # "ok"
    BY <1>3, <1>4, <1>6 DEF CallsInv, TaintedFails
  <2>2. \A n \in DOMAIN calls[i] :
           /\ calls'[i][n].tainted <=> calls[i][n].tainted
           /\ calls[i][n].tainted => calls'[i][n].st # "ok"
    <3> SUFFICES ASSUME NEW n \in DOMAIN calls[i]
                 PROVE  /\ calls'[i][n].tainted <=> calls[i][n].tainted
                        /\ calls[i][n].tainted => calls'[i][n].st # "ok"
      OBVIOUS
    <3>1. CASE n = k
      BY <1>4, <1>5, <2>1, <3>1
    <3>2. CASE n # k
      BY <1>5, <3>2 DEF CallsInv, TaintedFails
    <3> QED  BY <3>1, <3>2
  <2>3. UNCHANGED wk /\ DOMAIN calls'[i] = DOMAIN calls[i]
    BY <1>1, <1>5
  <2> QED  BY <1>2, <2>2, <2>3 DEF CallsInv, TaintedFails, IsReply, NoNewMessages
<1>11. FinishIsLast(i)'
  <2>1. \A n \in DOMAIN calls[i] : calls'[i][n].method = calls[i][n].method
    BY <1>4, <1>5
  <2>2. \A m \in DOMAIN toMain[i] :
           toMain[i][m].kind = "reply" => toMain[i][m].id \in DOMAIN calls[i]
    BY DEF CallsInv, PostedOnly, IsPosted
  <2> QED  BY <1>1, <1>2, <2>1, <2>2 DEF CallsInv, FinishIsLast, NoNewMessages
<1>12. RetiredIsPoisoned(i)'
  BY <1>1 DEF CallsInv, RetiredIsPoisoned
<1> QED  BY <1>7, <1>8, <1>9, <1>10, <1>11, <1>12 DEF CallsInv

\* A call that joins the queue.
LEMMA JoinsCalls ==
    ASSUME Types, Possession, NEW i \in Inst, NEW method \in {"work", "finish"}, Call(i, method),
           CallsInv(i)
    PROVE  CallsInv(i)'
<1>1. PICK st \in CallStates :
        /\ calls' = [calls EXCEPT ![i] =
                       Append(@, [method |-> method, tainted |-> FALSE, st |-> st])]
        /\ running[i] /\ ~ finished[i] => st = "queued"
  BY DEF Call, CallStates
<1>2. running[i] => st = "queued"
  BY <1>1 DEF Possession, RunsUntilDown
<1>3. UNCHANGED <<wk, toWorker, toMain, running>>
  BY DEF Call, worker
<1>4. /\ calls[i] \in Seq(CallRecs)
      /\ [method |-> method, tainted |-> FALSE, st |-> st] \in CallRecs
  BY DEF Types, QueueTypes, CallRecs
<1>5. PICK r \in CallRecs : /\ calls'[i] = Append(calls[i], r)
                            /\ r.st = st /\ r.tainted = FALSE
  BY <1>1, <1>4 DEF Types, QueueTypes
<1>6. /\ DOMAIN calls'[i] = 1 .. Len(calls[i]) + 1 /\ DOMAIN calls[i] = 1 .. Len(calls[i])
      /\ Len(calls[i]) \in Nat
      /\ calls'[i][Len(calls[i]) + 1] = r
      /\ \A n \in DOMAIN calls[i] : calls'[i][n] = calls[i][n]
  BY <1>4, <1>5, AppendProperties, LenProperties
<1>7. /\ \A n \in DOMAIN calls[i] : n \in DOMAIN calls'[i]
      /\ \A n \in DOMAIN calls'[i] : n \in DOMAIN calls[i] \/ calls'[i][n] = r
  BY <1>6
<1>8. PostedOnly(i)' /\ OneWaiting(i)'
  <2>1. \A n : IsPosted(i, n) => IsPosted(i, n)'
    BY <1>6, <1>7 DEF IsPosted
  <2>2. PostedOnly(i)'
    BY <1>3, <2>1 DEF CallsInv, PostedOnly
  <2>3. \A n \in DOMAIN toWorker[i] : calls'[i][toWorker[i][n]] = calls[i][toWorker[i][n]]
    BY <1>6 DEF CallsInv, PostedOnly, IsPosted
  <2>4. OneWaiting(i)'
    BY <1>3, <2>3 DEF CallsInv, OneWaiting
  <2> QED  BY <2>2, <2>4
<1>9. InOrder(i)'
  <2>1. \A c \in DOMAIN calls[i] : \A j \in 1 .. c - 1 : j \in DOMAIN calls[i]
    BY <1>6
  <2> QED  BY <1>2, <1>3, <1>5, <1>6, <1>7, <2>1 DEF CallsInv, InOrder
<1>10. TaintedFails(i)'
  <2>1. ~ r.tainted
    BY <1>5
  <2> QED  BY <1>3, <1>6, <1>7, <2>1 DEF CallsInv, TaintedFails
<1>11. FinishIsLast(i)' /\ RetiredIsPoisoned(i)'
  <2>1. \A m \in DOMAIN toMain[i] :
           toMain[i][m].kind = "reply" => toMain[i][m].id \in DOMAIN calls[i]
    BY DEF CallsInv, PostedOnly, IsPosted
  <2> QED  BY <1>3, <1>6, <2>1 DEF CallsInv, FinishIsLast, RetiredIsPoisoned
<1> QED  BY <1>8, <1>9, <1>10, <1>11 DEF CallsInv

\* A call is posted when no other one waits, and so the worker is asked one at a time.
LEMMA SendsCalls ==
    ASSUME Types, Possession, NEW i \in Inst, CallsInv(i), UNCHANGED running,
           NEW k \in DOMAIN calls[i], NEW r \in CallRecs,
           calls[i][k].st = "queued", \A j \in 1 .. k - 1 : Settled(calls[i][j]),
           calls' = SetCall(i, k, r), r.method = calls[i][k].method, Sends(i, k, r)
    PROVE  CallsInv(i)'
<1>1. /\ running[i] /\ r.st = "sent" /\ (r.tainted <=> wk[i].retired)
      /\ toWorker' = Post(toWorker, i, k) /\ UNCHANGED <<wk, toMain>>
  BY DEF Sends
<1>2. /\ DOMAIN calls'[i] = DOMAIN calls[i] /\ DOMAIN calls[i] = 1 .. Len(calls[i])
      /\ calls'[i][k] = r
      /\ \A n \in DOMAIN calls[i] : n # k => calls'[i][n] = calls[i][n]
  BY SetCallAt
<1>3. Len(calls[i]) \in Nat /\ k \in CallIds /\ toWorker \in [Inst -> Seq(CallIds)]
  BY <1>2, LenProperties, BoundsAssumption DEF Types, QueueTypes, CallIds
<1>4. ASSUME NEW n \in DOMAIN toWorker[i]  PROVE FALSE
  <2> DEFINE c == toWorker[i][n]
  <2>1. c \in DOMAIN calls[i] /\ calls[i][c].st = "sent"
    BY <1>1 DEF CallsInv, PostedOnly, OneWaiting, IsPosted
  <2> HIDE DEF c
  <2>2. ~ Settled(calls[i][c]) /\ ~ Settled(calls[i][k]) /\ c # k
    BY <2>1 DEF Settled
  <2>3. ~ c \in 1 .. k - 1
    BY <2>2
  <2>4. k \in 1 .. c - 1
    BY <1>2, <1>3, <2>1, <2>2, <2>3
  <2> QED  BY <1>1, <2>1, <2>2, <2>4 DEF CallsInv, InOrder
<1>5. /\ DOMAIN toWorker'[i] = 1 .. 1 /\ toWorker'[i][1] = k /\ Len(toWorker'[i]) = 1
  <2>1. toWorker[i] \in Seq(CallIds) /\ toWorker[i] = <<>>
    <3>1. toWorker[i] \in Seq(CallIds)
      BY <1>3
    <3>2. ~ 1 \in DOMAIN toWorker[i]
      BY <1>4
    <3>3. toWorker[i] # <<>> => 1 \in DOMAIN toWorker[i]
      BY <1>3, ReceivedAt
    <3> QED  BY <3>1, <3>2, <3>3
  <2>2. toWorker'[i] = Append(toWorker[i], k)
    BY <1>1, <1>3 DEF Post
  <2>3. Len(toWorker[i]) = 0
    BY <2>1, EmptySeq
  <2> QED  BY <1>3, <2>1, <2>2, <2>3, AppendProperties, LenProperties
<1>6. /\ wk[i].job # k
      /\ \A m \in DOMAIN toMain[i] : ~ IsReply(toMain[i][m], k)
  <2>1. k # Mount
    BY <1>3 DEF Mount, CallIds
  <2> QED  BY <2>1 DEF CallsInv, PostedOnly, IsPosted, IsReply
<1>7. PostedOnly(i)'
  <2>1. \A n : IsPosted(i, n) => IsPosted(i, n)'
    BY <1>1, <1>2 DEF IsPosted
  <2>2. IsPosted(i, k)'
    BY <1>1, <1>2 DEF IsPosted
  <2>3. /\ wk'[i].job # Mount => IsPosted(i, wk'[i].job)
        /\ \A m \in DOMAIN toMain'[i] :
              toMain'[i][m].kind = "reply" => IsPosted(i, toMain'[i][m].id)
    BY <1>1 DEF CallsInv, PostedOnly
  <2> QED  BY <1>5, <2>1, <2>2, <2>3 DEF PostedOnly
<1>8. OneWaiting(i)'
  BY <1>1, <1>2, <1>5, <1>6 DEF OneWaiting, IsReply
<1>9. InOrder(i)'
  <2>1. \A c \in DOMAIN calls[i] : \A j \in 1 .. c - 1 : j \in DOMAIN calls[i]
    BY <1>2, <1>3
  <2>2. ~ Settled(calls[i][k])
    BY DEF Settled
  <2>3. \A j \in 1 .. k - 1 : j \in DOMAIN calls[i] /\ j # k
    BY <1>2, <1>3
  <2>4. \A j \in 1 .. k - 1 : Settled(calls'[i][j])
    BY <1>2, <2>3
  <2>5. \A c \in DOMAIN calls[i] : c # k =>
           \A j \in 1 .. c - 1 : Settled(calls'[i][j]) \/ calls'[i][c].st = "queued"
    <3>1. running[i]
      BY <1>1
    <3>2. \A c \in DOMAIN calls[i] : \A j \in 1 .. c - 1 :
             Settled(calls[i][j]) \/ calls[i][c].st = "queued"
      BY <3>1 DEF CallsInv, InOrder
    <3>3. \A c \in DOMAIN calls[i] : c # k => calls'[i][c] = calls[i][c]
      BY <1>2
    <3> QED  BY <2>1, <2>2, <3>2, <3>3
  <2> QED  BY <1>2, <2>4, <2>5 DEF InOrder
<1>10. TaintedFails(i)'
  <2>1. r.tainted => wk[i].poisoned
    BY <1>1 DEF CallsInv, RetiredIsPoisoned
  <2> QED  BY <1>1, <1>2, <1>6, <2>1 DEF CallsInv, TaintedFails, IsReply
<1>11. FinishIsLast(i)' /\ RetiredIsPoisoned(i)'
  <2>1. \A m \in DOMAIN toMain[i] :
           toMain[i][m].kind = "reply" => toMain[i][m].id \in DOMAIN calls[i]
    BY DEF CallsInv, PostedOnly, IsPosted
  <2>2. \A n \in DOMAIN calls[i] : calls'[i][n].method = calls[i][n].method
    BY <1>2
  <2> QED  BY <1>1, <2>1, <2>2 DEF CallsInv, FinishIsLast, RetiredIsPoisoned
<1> QED  BY <1>7, <1>8, <1>9, <1>10, <1>11 DEF CallsInv

LEMMA SendNextCalls ==
    ASSUME Types, Possession, NEW i \in Inst, SendNext(i), CallsInv(i)
    PROVE  CallsInv(i)'
<1>1. UNCHANGED <<running, finished>>
  BY SendNextEffect
<1>2. PICK k \in DOMAIN calls[i] : \E r \in CallRecs :
                /\ calls[i][k].st = "queued" /\ \A j \in 1 .. k - 1 : Settled(calls[i][j])
                /\ calls' = SetCall(i, k, r) /\ r.method = calls[i][k].method
                /\ \/ Refuses(i, r) /\ (r.tainted <=> calls[i][k].tainted)
                   \/ Sends(i, k, r)
  BY SendNextEffect
<1>3. PICK r \in CallRecs :
                /\ calls[i][k].st = "queued" /\ \A j \in 1 .. k - 1 : Settled(calls[i][j])
                /\ calls' = SetCall(i, k, r) /\ r.method = calls[i][k].method
                /\ \/ Refuses(i, r) /\ (r.tainted <=> calls[i][k].tainted)
                   \/ Sends(i, k, r)
  BY <1>2
<1>4. CASE Sends(i, k, r)
  BY <1>1, <1>3, <1>4, SendsCalls
<1>5. CASE Refuses(i, r) /\ (r.tainted <=> calls[i][k].tainted)
  <2>1. ~ running'[i] /\ UNCHANGED <<wk, toWorker, toMain>> /\ r.st = "failed"
    BY <1>1, <1>5 DEF Refuses, worker, Possession, RunsUntilDown
  <2>2. /\ DOMAIN calls'[i] = DOMAIN calls[i] /\ calls'[i][k] = r
        /\ \A n \in DOMAIN calls[i] : n # k => calls'[i][n] = calls[i][n]
    BY <1>3, SetCallAt
  <2>3. calls[i][k] \in CallRecs
    BY ElementOfSeq, LenProperties DEF Types, QueueTypes
  <2>4. r.tainted = calls[i][k].tainted
    BY <1>5, <2>3 DEF CallRecs
  <2>5. \A n \in DOMAIN calls[i] :
              /\ calls'[i][n].method = calls[i][n].method
              /\ calls'[i][n].tainted = calls[i][n].tainted
              /\ calls[i][n].st # "queued" => calls'[i][n].st # "queued"
              /\ calls[i][n].tainted => calls'[i][n].st # "ok"
    BY <1>3, <2>1, <2>2, <2>4 DEF CallsInv, TaintedFails
  <2> QED  BY <2>1, <2>2, <2>5, MessagesAreRead, OverCalls
<1> QED  BY <1>3, <1>4, <1>5

LEMMA StepCalls ==
    ASSUME Types, Possession, NEW i \in Inst, StepOf(i), CallsInv(i)
    PROVE  CallsInv(i)'
<1>1. CASE Open(i)
  <2>1. calls[i] = <<>> /\ toMain[i] = <<>> /\ wk[i].at = "none" /\ opened[i] = "none"
    BY <1>1 DEF Open, Possession, Fresh
  <2>2. /\ UNCHANGED <<calls, toMain, toWorker>> /\ wk' = [wk EXCEPT ![i].at = "loading"]
        /\ wk[i] \in Workers /\ wk \in [Inst -> Workers]
    BY <1>1 DEF Open, Types, IoTypes
  <2>3. /\ wk'[i].at = "loading" /\ wk'[i].job = wk[i].job
        /\ (wk'[i].retired <=> wk[i].retired) /\ (wk'[i].poisoned <=> wk[i].poisoned)
    BY <2>2 DEF Workers
  <2>4. DOMAIN calls[i] = {} /\ DOMAIN toMain[i] = {}
    BY <2>1, EmptySeq
  <2>5. DOMAIN toWorker[i] = {} /\ Len(toWorker'[i]) <= 1
    BY <2>2, <2>4 DEF CallsInv, PostedOnly, OneWaiting, IsPosted
  <2>6. wk[i].job = Mount
    BY <2>4 DEF CallsInv, PostedOnly, IsPosted
  <2> QED  BY <2>2, <2>3, <2>4, <2>5, <2>6 DEF CallsInv, PostedOnly, OneWaiting, InOrder,
                  TaintedFails, RetiredIsPoisoned, FinishIsLast
<1>2. CASE MessageIgnored(i) \/ IoStarts(i) \/ OpenResolves(i)
  <2>1. /\ toMain[i] # <<>> /\ toMain' = Received(toMain, i)
        /\ UNCHANGED <<calls, wk, toWorker, running>>
    BY <1>2 DEF MessageIgnored, IoStarts, OpenResolves, Arrives, Consume, session
  <2> QED  BY <2>1, MessagesAreRead, HandlerCalls, Zenon
<1>3. CASE IoChecked(i) \/ IoAnswered(i)
  <2>1. UNCHANGED <<calls, wk, toWorker, toMain, running>>
    BY <1>3 DEF IoChecked, IoAnswered, worker
  <2> QED  BY <2>1, MessagesAreRead, HandlerCalls, Zenon
<1> QED  BY <1>1, <1>2, <1>3, StepKinds, WorkerCalls, TearsCalls, ShutdownCalls, AnswersCalls,
            SendNextCalls, JoinsCalls

LEMMA CallsStandStill ==
    ASSUME NEW j \in Inst, StandsStill(j), CallsInv(j)
    PROVE  CallsInv(j)'
<1>1. PostedOnly(j)' /\ OneWaiting(j)'
  <2>1. \A n : IsPosted(j, n)' <=> IsPosted(j, n)
    BY DEF StandsStill, IsPosted
  <2>2. PostedOnly(j)'
    BY <2>1 DEF StandsStill, CallsInv, PostedOnly
  <2>3. OneWaiting(j)'
    BY DEF StandsStill, CallsInv, OneWaiting
  <2> QED  BY <2>2, <2>3
<1>2. InOrder(j)' /\ TaintedFails(j)'
  BY DEF StandsStill, CallsInv, InOrder, TaintedFails
<1>3. RetiredIsPoisoned(j)' /\ FinishIsLast(j)'
  BY DEF StandsStill, CallsInv, RetiredIsPoisoned, FinishIsLast
<1> QED  BY <1>1, <1>2, <1>3 DEF CallsInv

CallsAreRight == \A i \in Inst : CallsInv(i)

LEMMA CallsPreserved == Types /\ Possession /\ CallsAreRight /\ [Next]_vars => CallsAreRight'
<1> SUFFICES ASSUME Types, Possession, CallsAreRight, [Next]_vars, NEW j \in Inst
             PROVE  CallsInv(j)'
  BY DEF CallsAreRight
<1>1. CallsInv(j)
  BY DEF CallsAreRight
<1>2. CASE UNCHANGED vars
  BY <1>1, <1>2, CallsStandStill DEF vars, session, worker, StandsStill
<1>3. CASE \E outcome \in {"ok", "failed"} : StorageSettles(outcome)
  BY <1>1, <1>3, SettlesTypes, CallsStandStill
<1>4. ASSUME NEW i \in Inst, StepOf(i)  PROVE CallsInv(j)'
  BY <1>1, <1>4, StepTypes, StepCalls, CallsStandStill
<1> QED  BY <1>2, <1>3, <1>4, NextKinds

-----------------------------------------------------------------------------
(***************************************************************************)
(* One mailbox request, from the worker through the storage and back.      *)
(***************************************************************************)
Asking(i) == \E n \in DOMAIN toMain[i] : toMain[i][n].kind = "io"

OneRequest(i) ==
    /\ mailbox[i].seq = wk[i].seq
    /\ \A n \in DOMAIN toMain[i] :
          toMain[i][n].kind = "io" =>
              /\ toMain[i][n].seq = wk[i].seq /\ wk[i].seq > 0
              /\ \A m \in DOMAIN toMain[i] : toMain[i][m].kind = "io" => m = n

NextRequest(i) ==
    /\ next[i] \in 1 .. MaxIo + 1
    /\ running[i] \/ opened[i] = "none" =>
          next[i] = IF Asking(i) THEN wk[i].seq ELSE wk[i].seq + 1

\* The worker that asked waits for the answer, has given up on it, or is dead.
RequestIsOpen(i) ==
    /\ Asking(i) \/ io[i] # "none" => wk[i].at \in {"waiting", "dead"} \/ wk[i].retired
    /\ Asking(i) => io[i] = "none"

\* The operation that the storage performs, or performed last, is this request.
InHand(i) ==
    io[i] # "none" =>
        /\ op.by = i /\ op.seq = wk[i].seq
        /\ running[i] \/ consumed
        /\ \A j \in Inst : Holds(j) => j = i

CheckedIsDone(i) ==
    /\ io[i] = "checked" <=> main = i
    /\ main = i => running[i] /\ op.st = "ok"

AnsweredIsDone(i) ==
    mailbox[i].flag = 1 =>
        /\ running[i] /\ io[i] = "none" /\ ~ Asking(i)
        /\ op.by = i /\ op.seq = mailbox[i].seq /\ op.st = "ok"

RequestInv(i) ==
    /\ OneRequest(i) /\ NextRequest(i) /\ RequestIsOpen(i)
    /\ InHand(i) /\ CheckedIsDone(i) /\ AnsweredIsDone(i)

InUseIsInHand ==
    /\ op.st = "running" => op.by \in Inst /\ io[op.by] = "storage"
    /\ store = "closing" /\ op.st = "running" => ClosesToAbort /\ down[op.by] = "aborting"

Requests == (\A i \in Inst : RequestInv(i)) /\ InUseIsInHand

LEMMA InitRequests == Init => Requests
<1> SUFFICES ASSUME Init PROVE Requests
  OBVIOUS
<1>1. ASSUME NEW i \in Inst  PROVE RequestInv(i)
  <2>1. /\ toMain[i] = <<>> /\ wk[i] = NoWorker /\ mailbox[i] = [flag |-> 0, seq |-> 0]
        /\ next[i] = 1 /\ io[i] = "none" /\ main = None
    BY DEF Init
  <2>2. DOMAIN toMain[i] = {} /\ wk[i].seq = 0 /\ mailbox[i].seq = 0 /\ mailbox[i].flag = 0
    BY <2>1, EmptySeq DEF NoWorker
  <2>3. main # i
    BY <2>1, NoneAssumption
  <2> QED  BY <2>1, <2>2, <2>3, BoundsAssumption
              DEF RequestInv, OneRequest, NextRequest, RequestIsOpen, InHand, CheckedIsDone,
                  AnsweredIsDone, Asking
<1>2. InUseIsInHand
  BY DEF Init, InUseIsInHand
<1> QED  BY <1>1, <1>2 DEF Requests

\* The requests among the messages, when the first one has been read or none.
LEMMA RequestsRead ==
    ASSUME Types, NEW i \in Inst, OneRequest(i),
           UNCHANGED wk[i], mailbox'[i].seq = mailbox[i].seq,
           \/ UNCHANGED toMain
           \/ toMain[i] # <<>> /\ toMain' = Received(toMain, i)
    PROVE  /\ OneRequest(i)'
           /\ Asking(i)' => Asking(i)
           /\ UNCHANGED toMain \/ Head(toMain[i]).kind # "io" => (Asking(i)' <=> Asking(i))
           /\ toMain' # toMain /\ Head(toMain[i]).kind = "io" => ~ Asking(i)'
<1>1. CASE UNCHANGED toMain
  BY <1>1 DEF OneRequest, Asking
<1>2. CASE toMain[i] # <<>> /\ toMain' = Received(toMain, i)
  <2>1. /\ 1 \in DOMAIN toMain[i] /\ Head(toMain[i]) = toMain[i][1]
        /\ Len(toMain'[i]) = Len(toMain[i]) - 1
        /\ \A n \in DOMAIN toMain'[i] :
              n + 1 \in DOMAIN toMain[i] /\ n + 1 # 1 /\ toMain'[i][n] = toMain[i][n + 1]
    <3>1. toMain \in [Inst -> Seq(Messages)]
      BY DEF Types, QueueTypes
    <3> QED  BY <1>2, <3>1, ReceivedAt
  <2>2. /\ DOMAIN toMain[i] = 1 .. Len(toMain[i]) /\ Len(toMain[i]) \in Nat
        /\ DOMAIN toMain'[i] = 1 .. Len(toMain[i]) - 1
    <3>1. toMain[i] \in Seq(Messages) /\ toMain'[i] \in Seq(Messages)
      <4>1. toMain \in [Inst -> Seq(Messages)]
        BY DEF Types, QueueTypes
      <4>2. toMain' \in [Inst -> Seq(Messages)]
        BY <1>2, <4>1, ReceivedType
      <4> QED  BY <4>1, <4>2
    <3> QED  BY <2>1, <3>1, LenProperties
  <2>3. OneRequest(i)'
    <3>1. \A n \in DOMAIN toMain'[i] : toMain'[i][n].kind = "io" =>
             toMain'[i][n].seq = wk[i].seq /\ wk[i].seq > 0
      BY <2>1 DEF OneRequest
    <3>2. \A m, n \in DOMAIN toMain'[i] :
             toMain'[i][n].kind = "io" /\ toMain'[i][m].kind = "io" => m + 1 = n + 1
      BY <2>1 DEF OneRequest
    <3>3. \A m, n \in DOMAIN toMain'[i] : m + 1 = n + 1 => m = n
      BY <2>2
    <3>4. mailbox'[i].seq = wk'[i].seq
      BY DEF OneRequest
    <3> QED  BY <3>1, <3>2, <3>3, <3>4 DEF OneRequest
  <2>4. Asking(i)' => Asking(i)
    BY <2>1 DEF Asking
  <2>5. Head(toMain[i]).kind # "io" => (Asking(i) => Asking(i)')
    <3>1. \A n \in DOMAIN toMain[i] : n # 1 =>
             n - 1 \in DOMAIN toMain'[i] /\ toMain'[i][n - 1] = toMain[i][n]
      BY <2>1, <2>2
    <3> QED  BY <2>1, <3>1 DEF Asking
  <2>6. Head(toMain[i]).kind = "io" => ~ Asking(i)'
    BY <2>1 DEF Asking, OneRequest
  <2>7. toMain' # toMain
    <3>1. toMain' = toMain => Len(toMain'[i]) = Len(toMain[i])
      OBVIOUS
    <3> QED  BY <2>1, <2>2, <3>1
  <2> QED  BY <2>3, <2>4, <2>5, <2>6, <2>7
<1> QED  BY <1>1, <1>2

\* The worker moves on without a new request.
LEMMA WorkerKeepsRequests ==
    ASSUME NEW i \in Inst, RequestInv(i),
           UNCHANGED <<op, main, consumed, opened, down, running, next, io>>,
           \A n \in DOMAIN toMain[i] : n \in DOMAIN toMain'[i] /\ toMain'[i][n] = toMain[i][n],
           \A n \in DOMAIN toMain'[i] : n \in DOMAIN toMain[i] \/ toMain'[i][n].kind # "io",
           wk'[i].seq = wk[i].seq, mailbox'[i].seq = mailbox[i].seq,
           mailbox'[i].flag = 1 => mailbox[i].flag = 1,
           (Asking(i) \/ io[i] # "none") /\ (wk[i].at \in {"waiting", "dead"} \/ wk[i].retired)
              => wk'[i].at \in {"waiting", "dead"} \/ wk'[i].retired
    PROVE  RequestInv(i)'
<1>1. OneRequest(i)'
  BY DEF RequestInv, OneRequest
<1>2. Asking(i)' <=> Asking(i)
  BY DEF Asking
<1>3. NextRequest(i)' /\ RequestIsOpen(i)'
  BY <1>2 DEF RequestInv, NextRequest, RequestIsOpen
<1>4. InHand(i)' /\ CheckedIsDone(i)' /\ AnsweredIsDone(i)'
  BY <1>2 DEF RequestInv, InHand, CheckedIsDone, AnsweredIsDone, Holds
<1> QED  BY <1>1, <1>3, <1>4 DEF RequestInv

\* The main thread reads a message, or none, in a session that goes on.
LEMMA ReadsRequests ==
    ASSUME Types, NEW i \in Inst, RequestInv(i),
           UNCHANGED <<op, main, consumed, down, running, next, io, mailbox, wk>>,
           opened[i] # "none", \A j \in Inst : Holds(j)' => Holds(j),
           \/ UNCHANGED toMain
           \/ /\ toMain[i] # <<>> /\ toMain' = Received(toMain, i)
              /\ Head(toMain[i]).kind # "io",
           opened'[i] # "none"
    PROVE  RequestInv(i)'
<1>1. OneRequest(i)' /\ (Asking(i)' <=> Asking(i))
  BY RequestsRead DEF RequestInv
<1>2. NextRequest(i)' /\ RequestIsOpen(i)'
  BY <1>1 DEF RequestInv, NextRequest, RequestIsOpen
<1>3. InHand(i)' /\ CheckedIsDone(i)' /\ AnsweredIsDone(i)'
  BY <1>1 DEF RequestInv, InHand, CheckedIsDone, AnsweredIsDone
<1> QED  BY <1>1, <1>2, <1>3 DEF RequestInv

\* The session ends, or has ended before.
LEMMA EndsRequests ==
    ASSUME Types, NEW i \in Inst, RequestInv(i),
           UNCHANGED <<op, main, wk>>, main = None,
           opened'[i] # "none", ~ running'[i], mailbox'[i].seq = mailbox[i].seq,
           mailbox'[i].flag # 1, next'[i] \in 1 .. MaxIo + 1,
           io'[i] \in {io[i], "none"}, io'[i] # "none" => consumed',
           \A j \in Inst : Holds(j)' => Holds(j),
           \/ UNCHANGED toMain
           \/ toMain[i] # <<>> /\ toMain' = Received(toMain, i)
    PROVE  RequestInv(i)'
<1>1. OneRequest(i)' /\ (Asking(i)' => Asking(i))
  BY RequestsRead DEF RequestInv
<1>2. NextRequest(i)' /\ RequestIsOpen(i)'
  BY <1>1 DEF RequestInv, NextRequest, RequestIsOpen
<1>3. InHand(i)' /\ AnsweredIsDone(i)'
  BY <1>1 DEF RequestInv, InHand, AnsweredIsDone
<1>4. CheckedIsDone(i)'
  BY NoneAssumption DEF RequestInv, CheckedIsDone
<1> QED  BY <1>1, <1>2, <1>3, <1>4 DEF RequestInv

\* Another session moves.
LEMMA OthersRequests ==
    ASSUME NEW j \in Inst, RequestInv(j), StandsStill(j),
           io[j] # "none" \/ mailbox[j].flag = 1 => UNCHANGED op,
           UNCHANGED main \/ (main # j /\ main' # j),
           main = j => UNCHANGED op,
           consumed => consumed',
           io[j] # "none" => \A k \in Inst : Holds(k)' => Holds(k)
    PROVE  RequestInv(j)'
<1>1. OneRequest(j)' /\ (Asking(j)' <=> Asking(j))
  BY DEF RequestInv, OneRequest, StandsStill, Asking
<1>2. NextRequest(j)' /\ RequestIsOpen(j)'
  BY <1>1 DEF RequestInv, NextRequest, RequestIsOpen, StandsStill
<1>3. InHand(j)' /\ AnsweredIsDone(j)'
  BY <1>1 DEF RequestInv, InHand, AnsweredIsDone, StandsStill
<1>4. CheckedIsDone(j)'
  BY DEF RequestInv, CheckedIsDone, StandsStill
<1> QED  BY <1>1, <1>2, <1>3, <1>4 DEF RequestInv

-----------------------------------------------------------------------------
\* A step of the main thread for a session that has the storage.
LEMMA OthersAreOut ==
    ASSUME Possession, Requests, NEW i \in Inst, Holds(i)
    PROVE  /\ \A j \in Inst : io[j] # "none" => j = i
           /\ \A j \in Inst : running[j] \/ mailbox[j].flag = 1 => j = i
           /\ op.st = "running" => io[i] = "storage"
<1>1. \A j \in Inst : running[j] => j = i
  BY DEF Possession, RunsUntilDown, OneHolder, Holds
<1>2. \A j \in Inst : io[j] # "none" => j = i
  BY DEF Requests, RequestInv, InHand
<1>3. \A j \in Inst : mailbox[j].flag = 1 => running[j]
  BY DEF Requests, RequestInv, AnsweredIsDone
<1> QED  BY <1>1, <1>2, <1>3 DEF Requests, InUseIsInHand

\* The worker asks when nothing it asked before is under way.
LEMMA RequestRequests ==
    ASSUME Types, NEW i \in Inst, Request(i), CallsInv(i), RequestInv(i)
    PROVE  RequestInv(i)'
<1>1. UNCHANGED <<op, main, consumed, opened, down, running, next, io>>
  BY DEF Request, shared, session
<1>2. /\ wk[i] \in Workers /\ wk \in [Inst -> Workers]
      /\ mailbox[i] \in [flag : {-1, 0, 1}, seq : Sequence]
  BY DEF Types, IoTypes
<1>3. wk[i].seq \in Nat /\ wk[i].seq + 1 \in Sequence /\ wk[i].at = "busy" /\ ~ wk[i].retired
  BY <1>2, BoundsAssumption DEF Request, Workers, Sequence, CallsInv, RetiredIsPoisoned
<1>4. ~ Asking(i) /\ io[i] = "none"
  BY <1>3 DEF RequestInv, RequestIsOpen
<1>5. wk'[i].at = "waiting" /\ wk'[i].seq = wk[i].seq + 1 /\ wk'[i].seq > 0
  BY <1>2, <1>3 DEF Request, Workers
<1>6. mailbox'[i].flag = 0 /\ mailbox'[i].seq = wk'[i].seq
  BY <1>5 DEF Request, Types, IoTypes
<1>7. PICK l \in DOMAIN toMain'[i] :
        /\ toMain'[i][l].kind = "io" /\ toMain'[i][l].seq = wk'[i].seq
        /\ \A n \in DOMAIN toMain'[i] : n # l => toMain'[i][n].kind # "io"
  <2>1. IoMessage(wk[i].seq + 1) \in Messages
    BY <1>3 DEF IoMessage, Messages
  <2>2. toMain' = Post(toMain, i, IoMessage(wk[i].seq + 1)) /\ toMain \in [Inst -> Seq(Messages)]
    BY DEF Request, Types, QueueTypes
  <2> DEFINE l == Len(toMain[i]) + 1
  <2>3. /\ l \in DOMAIN toMain'[i] /\ toMain'[i][l] = IoMessage(wk[i].seq + 1)
        /\ \A n \in DOMAIN toMain'[i] :
              n # l => n \in DOMAIN toMain[i] /\ toMain'[i][n] = toMain[i][n]
    BY <2>1, <2>2, PostedAt
  <2> HIDE DEF l
  <2> QED  BY <1>4, <1>5, <2>3 DEF Asking, IoMessage
<1>8. OneRequest(i)' /\ Asking(i)'
  BY <1>5, <1>6, <1>7 DEF OneRequest, Asking
<1>9. NextRequest(i)' /\ RequestIsOpen(i)'
  BY <1>1, <1>4, <1>5, <1>8 DEF RequestInv, NextRequest, RequestIsOpen
<1>10. InHand(i)' /\ CheckedIsDone(i)' /\ AnsweredIsDone(i)'
  BY <1>1, <1>4, <1>6 DEF RequestInv, InHand, CheckedIsDone, AnsweredIsDone
<1> QED  BY <1>8, <1>9, <1>10 DEF RequestInv

LEMMA WorkerRequests ==
    ASSUME Types, NEW i \in Inst, WorkerStep(i), CallsInv(i), RequestInv(i)
    PROVE  RequestInv(i)'
<1>1. UNCHANGED <<op, main, consumed, opened, down, running, next, io>>
  BY WorkerTypes DEF shared, session
<1>2. /\ wk \in [Inst -> Workers] /\ wk[i] \in Workers
      /\ mailbox[i] \in [flag : {-1, 0, 1}, seq : Sequence]
      /\ toMain \in [Inst -> Seq(Messages)]
  BY DEF Types, IoTypes, QueueTypes
<1>3. CASE Request(i)
  BY <1>3, RequestRequests
<1>4. ASSUME ~ Request(i)
      PROVE  /\ \A n \in DOMAIN toMain[i] : n \in DOMAIN toMain'[i] /\ toMain'[i][n] = toMain[i][n]
             /\ \A n \in DOMAIN toMain'[i] : n \in DOMAIN toMain[i] \/ toMain'[i][n].kind # "io"
  <2>1. CASE UNCHANGED toMain
    BY <2>1
  <2>2. CASE \E m \in Messages : m.kind # "io" /\ toMain' = Post(toMain, i, m)
    BY <1>2, <2>2, PostedAt
  <2>3. CASE LoadFails(i) \/ Mounted(i) \/ WorkerCrashes(i)
    <3>1. /\ {Ready, FailedOpen, WorkerError} \subseteq Messages
          /\ \A m \in {Ready, FailedOpen, WorkerError} : m.kind # "io"
      BY DEF Ready, FailedOpen, WorkerError, Messages
    <3>2. PICK m \in {Ready, FailedOpen, WorkerError} : toMain' = Post(toMain, i, m)
      BY <2>3 DEF LoadFails, Mounted, WorkerCrashes
    <3> QED  BY <2>2, <3>1, <3>2
  <2>4. CASE WorkerTakes(i) \/ MethodReturns(i) \/ MethodThrows(i)
    <3>1. \A k \in CallIds : \A good, gone \in BOOLEAN :
             Reply(k, good, gone) \in Messages /\ Reply(k, good, gone).kind # "io"
      BY DEF Reply, Messages
    <3>2. \/ UNCHANGED toMain
          \/ \E k \in CallIds : \E good, gone \in BOOLEAN :
                toMain' = Post(toMain, i, Reply(k, good, gone))
      <4>1. toWorker[i] # <<>> => Head(toWorker[i]) \in CallIds
        BY ReceivedType DEF Types, QueueTypes
      <4>2. wk[i].job # Mount => wk[i].job \in CallIds
        BY <1>2 DEF Workers
      <4>3. CASE WorkerTakes(i)
        BY <4>1, <4>3 DEF WorkerTakes
      <4>4. CASE MethodReturns(i) \/ MethodThrows(i)
        BY <4>2, <4>4 DEF MethodReturns, MethodThrows
      <4> QED  BY <2>4, <4>3, <4>4
    <3> QED  BY <2>1, <2>2, <3>1, <3>2
  <2>5. CASE WorkerLoads(i) \/ RequestServed(i) \/ RequestGivenUp(i) \/ MethodTraps(i)
             \/ WorkerStops(i)
    BY <2>1, <2>5 DEF WorkerLoads, RequestServed, RequestGivenUp, MethodTraps, WorkerStops
  <2> QED  BY <1>4, <2>3, <2>4, <2>5 DEF WorkerStep
<1>5. CASE RequestServed(i)
  <2>1. mailbox[i].flag = 1 /\ UNCHANGED mailbox /\ wk' = [wk EXCEPT ![i].at = "busy"]
    BY <1>5 DEF RequestServed
  <2>2. ~ Asking(i) /\ io[i] = "none"
    BY <2>1 DEF RequestInv, AnsweredIsDone
  <2>3. wk'[i].seq = wk[i].seq /\ ~ Request(i)
    BY <1>2, <1>5, <2>1 DEF Workers, RequestServed, Request
  <2> QED  BY <1>1, <1>4, <2>1, <2>2, <2>3, WorkerKeepsRequests
<1>6. CASE RequestGivenUp(i)
  <2>1. /\ wk'[i].seq = wk[i].seq /\ wk'[i].retired
        /\ mailbox'[i].seq = mailbox[i].seq /\ mailbox'[i].flag = -1
    BY <1>2, <1>6 DEF RequestGivenUp, Workers, Types, IoTypes
  <2>2. ~ Request(i)
    BY <1>6 DEF RequestGivenUp, Request
  <2> QED  BY <1>1, <1>4, <2>1, <2>2, WorkerKeepsRequests
<1>7. CASE WorkerCrashes(i) \/ WorkerStops(i)
  <2>1. wk'[i].seq = wk[i].seq /\ wk'[i].at = "dead" /\ UNCHANGED mailbox
    BY <1>2, <1>7 DEF WorkerCrashes, WorkerStops, Workers
  <2>2. ~ Request(i)
    BY <1>2, <2>1 DEF Request, Workers
  <2> QED  BY <1>1, <1>4, <2>1, <2>2, WorkerKeepsRequests
<1>8. ASSUME wk[i].at \in {"loading", "idle", "busy"}, wk'[i].seq = wk[i].seq,
             wk[i].retired => wk'[i].retired, UNCHANGED mailbox, ~ Request(i)
      PROVE  RequestInv(i)'
  BY <1>1, <1>4, <1>8, WorkerKeepsRequests
<1>9. CASE WorkerLoads(i) \/ LoadFails(i) \/ WorkerTakes(i)
  <2>1. /\ wk[i].at \in {"loading", "idle", "busy"} /\ UNCHANGED mailbox
        /\ wk'[i].seq = wk[i].seq /\ (wk'[i].retired <=> wk[i].retired)
    <3>1. CASE WorkerLoads(i)
      BY <1>2, <3>1 DEF WorkerLoads, Workers
    <3>2. CASE LoadFails(i)
      BY <1>2, <3>2 DEF LoadFails, Workers
    <3>3. CASE WorkerTakes(i)
      <4>1. /\ wk[i].at = "idle" /\ UNCHANGED mailbox
            /\ wk' = wk \/ \E k \in CallIds : wk' = [wk EXCEPT ![i].at = "busy", ![i].job = k]
        BY <1>2, <3>3, ReceivedType DEF WorkerTakes, Types, QueueTypes
      <4>2. CASE wk' = wk
        BY <4>1, <4>2
      <4>3. ASSUME NEW k \in CallIds, wk' = [wk EXCEPT ![i].at = "busy", ![i].job = k]
            PROVE  wk'[i].seq = wk[i].seq /\ (wk'[i].retired <=> wk[i].retired)
        BY <1>2, <4>3 DEF Workers
      <4> QED  BY <4>1, <4>2, <4>3
    <3> QED  BY <1>9, <3>1, <3>2, <3>3
  <2>2. ~ Request(i)
    BY <1>2, <1>9 DEF WorkerLoads, LoadFails, WorkerTakes, Request
  <2> QED  BY <1>8, <2>1, <2>2
<1>10. CASE Mounted(i) \/ MethodReturns(i) \/ MethodThrows(i) \/ MethodTraps(i)
  <2>1. /\ wk[i].at = "busy" /\ UNCHANGED mailbox
        /\ \E a \in {"idle", "freed"} : \E p \in BOOLEAN :
              wk' = [wk EXCEPT ![i].at = a] \/ wk' = [wk EXCEPT ![i].at = a, ![i].poisoned = p]
    <3>1. /\ wk[i].poisoned \in BOOLEAN
          /\ \A gone \in BOOLEAN : wk[i].poisoned \/ gone \in BOOLEAN
      BY <1>2 DEF Workers
    <3>2. CASE MethodThrows(i)
      BY <3>1, <3>2, Zenon DEF MethodThrows
    <3>3. CASE Mounted(i)
      BY <3>3, Zenon DEF Mounted
    <3>4. CASE MethodReturns(i) \/ MethodTraps(i)
      BY <3>4 DEF MethodReturns, MethodTraps
    <3> QED  BY <1>10, <3>2, <3>3, <3>4
  <2>2. PICK a \in {"idle", "freed"}, p \in BOOLEAN :
              wk' = [wk EXCEPT ![i].at = a] \/ wk' = [wk EXCEPT ![i].at = a, ![i].poisoned = p]
    BY <2>1
  <2>3. wk'[i].seq = wk[i].seq /\ (wk'[i].retired <=> wk[i].retired) /\ wk'[i].at # "waiting"
    <3>1. CASE wk' = [wk EXCEPT ![i].at = a]
      BY <1>2, <3>1 DEF Workers
    <3>2. CASE wk' = [wk EXCEPT ![i].at = a, ![i].poisoned = p]
      BY <1>2, <3>2 DEF Workers
    <3> QED  BY <2>2, <3>1, <3>2
  <2>4. ~ Request(i)
    BY <1>2, <2>3 DEF Request, Workers
  <2> QED  BY <1>8, <2>1, <2>3, <2>4
<1> QED  BY <1>3, <1>5, <1>6, <1>7, <1>9, <1>10 DEF WorkerStep

\* What a session that runs says of the storage.
LEMMA RunsInPossession ==
    ASSUME Possession, NEW i \in Inst, running[i]
    PROVE  /\ Holds(i) /\ opened[i] # "none" /\ ~ consumed /\ store = "open"
           /\ \A j \in Inst : Holds(j) <=> j = i
BY DEF Possession, RunsUntilDown, SpendsWhenDown, OneHolder, ClosedOnlyWhenSpent, Holds

\* A step that leaves the storage operation and the interrupted task alone.
LEMMA KeepsRequests ==
    ASSUME Requests, NEW i \in Inst, RequestInv(i)', \A j \in Inst \ {i} : StandsStill(j),
           opened[i] # "none", down[i] = "done" => down'[i] = "done",
           UNCHANGED <<op, main>>, consumed => consumed',
           io'[i] = io[i] \/ op.st # "running",
           store' = "closing" /\ op.st = "running" =>
              \/ UNCHANGED <<store, down[i]>>
              \/ op.by = i /\ ClosesToAbort /\ down'[i] = "aborting"
    PROVE  Requests'
<1>1. \A j \in Inst : Holds(j)' => Holds(j)
  BY DEF Holds, StandsStill
<1>2. \A j \in Inst \ {i} : RequestInv(j)'
  BY <1>1, OthersRequests DEF Requests
<1>3. InUseIsInHand'
  <2>1. \A j \in Inst : io'[j] = io[j] \/ op.st # "running"
    BY DEF StandsStill
  <2>2. \A j \in Inst \ {i} : down'[j] = down[j]
    BY DEF StandsStill
  <2> QED  BY <2>1, <2>2 DEF Requests, InUseIsInHand
<1> QED  BY <1>2, <1>3 DEF Requests

\* The operation inside the storage is one of the session that has it.
LEMMA InsideIsTheHolders ==
    ASSUME Requests, op.st = "running"
    PROVE  op.by \in Inst /\ \A j \in Inst : Holds(j) => j = op.by
<1>1. op.by \in Inst /\ io[op.by] = "storage"
  BY DEF Requests, InUseIsInHand
<1> QED  BY <1>1 DEF Requests, RequestInv, InHand

\* A step of the session that has the storage, whatever it does to the operation.
LEMMA HolderMoves ==
    ASSUME Possession, Requests, NEW i \in Inst, Holds(i),
           \A j \in Inst \ {i} : StandsStill(j), main' \in {main, i, None}, consumed => consumed'
    PROVE  \A j \in Inst \ {i} : RequestInv(j)'
<1> SUFFICES ASSUME NEW j \in Inst \ {i} PROVE RequestInv(j)'
  OBVIOUS
<1>1. io[j] = "none" /\ mailbox[j].flag # 1 /\ RequestInv(j) /\ StandsStill(j)
  BY OthersAreOut DEF Requests
<1>2. main # j /\ main' # j
  BY <1>1, NoneAssumption DEF RequestInv, CheckedIsDone
<1> QED  BY <1>1, <1>2, OthersRequests

LEMMA TearsAllRequests ==
    ASSUME Types, Possession, Requests, NEW i \in Inst, Tears(i)
    PROVE  Requests'
<1>1. /\ Idle /\ Teardown(i) /\ UNCHANGED <<op, main, opened, wk>>
      /\ \/ UNCHANGED toMain
         \/ toMain[i] # <<>> /\ toMain' = Received(toMain, i)
      /\ UNCHANGED io \/ IoFails(i)
  BY TearsEffect
<1>2. opened[i] # "none" /\ \A j \in Inst \ {i} : StandsStill(j)
  <2>1. StepOf(i) /\ ~ Open(i)
    <3>1. StepOf(i)
      BY DEF Tears, StepOf, Application, Timer, Handler, Completion
    <3>2. ~ Open(i)
      BY <1>1 DEF Open, Types, PromiseTypes
    <3> QED  BY <3>1, <3>2
  <2> QED  BY <2>1, OnlyOpenOpens, TearsTypes
<1>3. RequestInv(i)
  BY DEF Requests
<1>4. (consumed => consumed') /\ (down[i] = "none" => consumed')
  BY <1>1, Zenon DEF Teardown
<1>5. down[i] = "done" => down'[i] = "done"
  BY <1>1 DEF Teardown
<1>6. ~ running'[i] /\ mailbox'[i].flag # 1 /\ mailbox'[i].seq = mailbox[i].seq
  <2>1. mailbox[i] \in [flag : {-1, 0, 1}, seq : Sequence] /\ mailbox'[i].seq = mailbox[i].seq
    BY <1>1, TeardownTypes DEF Types, IoTypes
  <2>2. CASE down[i] = "none"
    <3>1. ~ running'[i]
      BY <1>1, <2>2, Zenon DEF Teardown, Types, PromiseTypes
    <3>2. mailbox'[i].flag = -1
      BY <1>1, <2>1, <2>2 DEF Teardown, Types, IoTypes
    <3> QED  BY <2>1, <3>1, <3>2
  <2>3. CASE down[i] # "none"
    <3>1. UNCHANGED <<running, mailbox>> /\ ~ running[i]
      BY <1>1, <2>3 DEF Teardown, Possession, RunsUntilDown
    <3> QED  BY <1>3, <3>1 DEF RequestInv, AnsweredIsDone
  <2> QED  BY <2>2, <2>3
<1>7. io'[i] \in {io[i], "none"} /\ (io'[i] = io[i] \/ op.st # "running")
  BY <1>1 DEF IoFails, Awaited, Types, IoTypes
<1>8. io'[i] # "none" => consumed'
  BY <1>3, <1>4, <1>7 DEF RequestInv, InHand, Possession, RunsUntilDown
<1>9. next'[i] \in 1 .. MaxIo + 1
  <2>1. CASE UNCHANGED next
    BY <1>3, <2>1 DEF RequestInv, NextRequest
  <2>2. CASE next' = [next EXCEPT ![i] = @ + 1] /\ IoOutOfSequence(i)
    <3>1. running[i] /\ toMain[i] # <<>> /\ Head(toMain[i]).kind = "io"
      BY <2>2 DEF IoOutOfSequence, Arrives
    <3>2. Asking(i)
      BY <3>1, ReceivedAt DEF Asking, Types, QueueTypes
    <3>3. wk[i].seq \in 0 .. MaxIo /\ next[i] = wk[i].seq
      BY <1>3, <3>1, <3>2 DEF RequestInv, NextRequest, Types, IoTypes, Workers, Sequence
    <3>4. next'[i] = next[i] + 1
      BY <2>2 DEF Types, IoTypes
    <3> QED  BY <3>3, <3>4, BoundsAssumption
  <2> QED  BY <2>1, <2>2, TearsEffect
<1>10. \A j \in Inst : Holds(j)' => Holds(j)
  BY <1>2, <1>5 DEF Holds, StandsStill
<1>11. RequestInv(i)'
  BY <1>1, <1>2, <1>3, <1>6, <1>7, <1>8, <1>9, <1>10, EndsRequests DEF Idle
<1>12. store' = "closing" /\ op.st = "running" =>
          \/ UNCHANGED <<store, down[i]>>
          \/ op.by = i /\ ClosesToAbort /\ down'[i] = "aborting"
  <2> SUFFICES ASSUME store' = "closing", op.st = "running"
               PROVE  \/ UNCHANGED <<store, down[i]>>
                      \/ op.by = i /\ ClosesToAbort /\ down'[i] = "aborting"
    OBVIOUS
  <2>1. CASE down[i] # "none"
    BY <1>1, <2>1 DEF Teardown
  <2>2. CASE down[i] = "none"
    <3>1. Holds(i) /\ running[i]
      BY <1>2, <2>2 DEF Holds, Possession, RunsUntilDown
    <3>2. op.by = i /\ io[i] # "none" /\ store # "closing"
      BY <3>1, InsideIsTheHolders, OthersAreOut, RunsInPossession
    <3> QED  BY <1>1, <2>2, <3>2 DEF Teardown, Types, PromiseTypes
  <2> QED  BY <2>1, <2>2
<1> QED  BY <1>1, <1>2, <1>4, <1>5, <1>7, <1>11, <1>12, KeepsRequests

LEMMA ShutdownAllRequests ==
    ASSUME Types, Possession, Requests, NEW i \in Inst, Shutdown(i)
    PROVE  Requests'
<1>1. /\ Idle /\ down[i] \in {"aborting", "settling", "closing"}
      /\ UNCHANGED <<consumed, op, main, running, next, io, mailbox, wk, toMain>>
  BY DEF Shutdown, PendingAborted, PendingSettled, StorageClosed, TeardownFails, TeardownEnds,
         shared, worker
<1>2. opened[i] # "none" /\ opened'[i] # "none" /\ \A j \in Inst \ {i} : StandsStill(j)
  <2>1. StepOf(i)
    BY DEF StepOf
  <2>2. ~ Open(i)
    BY <1>1 DEF Open, Possession, Fresh
  <2> QED  BY <2>1, <2>2, OnlyOpenOpens, ShutdownTypes
<1>3. RequestInv(i)
  BY DEF Requests
<1>4. ~ running[i] /\ consumed
  BY <1>1 DEF Possession, RunsUntilDown, SpendsWhenDown
<1>5. mailbox[i].flag # 1 /\ next[i] \in 1 .. MaxIo + 1
  BY <1>3, <1>4 DEF RequestInv, AnsweredIsDone, NextRequest
<1>6. \A j \in Inst : Holds(j)' => Holds(j)
  BY <1>1, <1>2 DEF Holds, StandsStill
<1>7. RequestInv(i)'
  BY <1>1, <1>2, <1>3, <1>4, <1>5, <1>6, EndsRequests DEF Idle
<1>8. ~ (store' = "closing" /\ op.st = "running")
  <2> SUFFICES ASSUME store' = "closing", op.st = "running" PROVE FALSE
    OBVIOUS
  <2>1. Holds(i) /\ op.by = i /\ io[i] # "none"
    BY <1>1, <1>2, InsideIsTheHolders, OthersAreOut DEF Holds
  <2>2. store = "closing" => Closing(i)
    BY <2>1 DEF Requests, InUseIsInHand, Closing
  <2> QED
    BY <2>1, <2>2 DEF Shutdown, PendingAborted, PendingSettled, StorageClosed, TeardownFails,
                      Closing
<1> QED  BY <1>1, <1>2, <1>7, <1>8, KeepsRequests

LEMMA AnswersAllRequests ==
    ASSUME Types, Possession, CallsAreRight, Requests, NEW i \in Inst, Answers(i)
    PROVE  Requests'
<1>1. /\ running[i] /\ toMain[i] # <<>> /\ toMain' = Received(toMain, i)
      /\ Head(toMain[i]).kind = "reply"
      /\ UNCHANGED <<consumed, store, op, main, opened, next, io, wk>>
      /\ \/ UNCHANGED <<owned, running, finished, down, mailbox>>
         \/ \E k \in CallIds : FinishAnswered(i, k)
  BY AnswersEffect
<1>2. /\ opened[i] # "none" /\ down[i] = "none" /\ RequestInv(i)
      /\ \A j \in Inst \ {i} : StandsStill(j)
  BY <1>1, AnswersTypes DEF Possession, RunsUntilDown, Requests
<1>3. /\ \A j \in Inst : Holds(j)' => Holds(j)
      /\ store' # "closing"
  BY <1>1, <1>2, RunsInPossession DEF Holds, StandsStill
<1>4. CASE UNCHANGED <<owned, running, finished, down, mailbox>>
  <2>1. RequestInv(i)'
    BY <1>1, <1>2, <1>3, <1>4, ReadsRequests
  <2> QED  BY <1>1, <1>2, <1>3, <2>1, KeepsRequests
<1>5. CASE \E k \in CallIds : FinishAnswered(i, k)
  <2>1. PICK k \in CallIds : FinishAnswered(i, k)
    BY <1>5
  <2>2. /\ main = None /\ Head(toMain[i]).ok /\ Head(toMain[i]).id = k
        /\ calls[i][k].method = "finish"
        /\ running' = [running EXCEPT ![i] = FALSE]
        /\ mailbox' = [mailbox EXCEPT ![i].flag = -1]
    BY <2>1 DEF FinishAnswered, ReplyTo, Arrives, Idle
  <2>3. ~ running'[i]
    BY <2>2, Zenon DEF Types, PromiseTypes
  <2>4. mailbox'[i].flag = -1 /\ mailbox'[i].seq = mailbox[i].seq
    <3>1. mailbox[i] \in [flag : {-1, 0, 1}, seq : Sequence]
      BY DEF Types, IoTypes
    <3> QED  BY <2>2, <3>1 DEF Types, IoTypes
  <2>5. 1 \in DOMAIN toMain[i] /\ Head(toMain[i]) = toMain[i][1]
    BY <1>1, ReceivedAt DEF Types, QueueTypes
  <2>6. wk[i].at = "freed" /\ ~ wk[i].retired
    BY <1>1, <2>2, <2>5 DEF CallsAreRight, CallsInv, FinishIsLast
  <2>7. io[i] = "none" /\ next[i] \in 1 .. MaxIo + 1
    BY <1>2, <2>6 DEF RequestInv, RequestIsOpen, NextRequest
  <2>8. RequestInv(i)'
    BY <1>1, <1>2, <1>3, <2>2, <2>3, <2>4, <2>7, EndsRequests
  <2> QED  BY <1>1, <1>2, <1>3, <2>8, KeepsRequests
<1> QED  BY <1>1, <1>4, <1>5

LEMMA ReadsAllRequests ==
    ASSUME Types, Possession, Requests, NEW i \in Inst,
           \/ MessageIgnored(i) \/ OpenResolves(i) \/ SendNext(i)
           \/ \E method \in {"work", "finish"} : Call(i, method)
    PROVE  Requests'
<1>1. /\ StepOf(i) /\ ~ Open(i)
      /\ UNCHANGED <<consumed, store, op, main, running, next, io, down, mailbox, wk>>
  <2>1. CASE MessageIgnored(i) \/ OpenResolves(i)
             \/ \E method \in {"work", "finish"} : Call(i, method)
    <3>1. UNCHANGED <<owned, consumed, store, op, main, running, next, io, down, mailbox, wk>>
      BY <2>1 DEF MessageIgnored, OpenResolves, Call, shared, session, worker
    <3>2. ~ Open(i)
      BY <2>1 DEF MessageIgnored, OpenResolves, Call, Open, Arrives, Possession, Fresh
    <3>3. StepOf(i)
      BY <2>1 DEF StepOf, Handler, Application
    <3> QED  BY <3>1, <3>2, <3>3
  <2>2. CASE SendNext(i)
    <3>1. UNCHANGED <<shared, main, opened, running, next, io, down, mailbox, wk>>
      BY <2>2, SendNextEffect DEF Refuses, Sends, worker
    <3>2. ~ Open(i)
      BY <3>1 DEF Open, Types, PromiseTypes
    <3> QED  BY <2>2, <3>1, <3>2 DEF StepOf, shared
  <2> QED  BY <2>1, <2>2
<1>2. /\ opened[i] # "none" /\ opened'[i] # "none" /\ RequestInv(i)
      /\ \A j \in Inst \ {i} : StandsStill(j)
  BY <1>1, OnlyOpenOpens, StepTypes DEF Requests
<1>3. \A j \in Inst : Holds(j)' => Holds(j)
  BY <1>1, <1>2 DEF Holds, StandsStill
<1>4. RequestInv(i)'
  <2>1. CASE MessageIgnored(i)
    <3>1. main = None /\ ~ running[i] /\ toMain[i] # <<>> /\ toMain' = Received(toMain, i)
      BY <2>1 DEF MessageIgnored, Arrives, Consume, Idle
    <3>2. /\ mailbox[i].flag # 1 /\ next[i] \in 1 .. MaxIo + 1
          /\ io[i] # "none" => consumed
      BY <1>2, <3>1 DEF RequestInv, AnsweredIsDone, NextRequest, InHand
    <3> QED  BY <1>1, <1>2, <1>3, <3>1, <3>2, EndsRequests
  <2>2. CASE OpenResolves(i)
    <3>1. toMain[i] # <<>> /\ toMain' = Received(toMain, i) /\ Head(toMain[i]).kind # "io"
      BY <2>2 DEF OpenResolves, Arrives, Consume
    <3> QED  BY <1>1, <1>2, <1>3, <3>1, ReadsRequests
  <2>3. CASE SendNext(i) \/ \E method \in {"work", "finish"} : Call(i, method)
    <3>1. UNCHANGED toMain
      <4>1. CASE SendNext(i)
        BY <4>1, SendNextEffect DEF Refuses, Sends, worker
      <4> QED  BY <2>3, <4>1 DEF Call, worker
    <3> QED  BY <1>1, <1>2, <1>3, <3>1, ReadsRequests
  <2> QED  BY <2>1, <2>2, <2>3
<1> QED  BY <1>1, <1>2, <1>4, KeepsRequests

LEMMA StartsRequests ==
    ASSUME Types, Possession, Requests, NEW i \in Inst, IoStarts(i)
    PROVE  Requests'
<1>1. /\ main = None /\ running[i] /\ toMain[i] # <<>> /\ toMain' = Received(toMain, i)
      /\ Head(toMain[i]).kind = "io"
      /\ UNCHANGED <<consumed, store, main, opened, running, down, mailbox, wk>>
  BY DEF IoStarts, Arrives, Consume, Idle
<1>2. /\ io[i] = "none" /\ Head(toMain[i]).seq = next[i] /\ mailbox[i].flag = 0
      /\ op' = [by |-> i, seq |-> Head(toMain[i]).seq, st |-> "running"]
      /\ next' = [next EXCEPT ![i] = @ + 1] /\ io' = [io EXCEPT ![i] = "storage"]
  BY DEF IoStarts, InSequence
<1>3. next'[i] = next[i] + 1 /\ io'[i] = "storage"
  BY <1>2 DEF Types, IoTypes
<1>4. /\ Holds(i) /\ opened[i] # "none" /\ ~ consumed /\ store = "open"
      /\ \A j \in Inst : Holds(j) <=> j = i
  BY <1>1, RunsInPossession
<1>5. RequestInv(i) /\ \A j \in Inst \ {i} : StandsStill(j)
  BY HandlerTypes DEF Requests
<1>6. Asking(i) /\ next[i] = wk[i].seq /\ Head(toMain[i]).seq = wk[i].seq
  <2>1. 1 \in DOMAIN toMain[i] /\ Head(toMain[i]) = toMain[i][1]
    BY <1>1, ReceivedAt DEF Types, QueueTypes
  <2>2. Asking(i)
    BY <1>1, <2>1 DEF Asking
  <2> QED  BY <1>1, <1>2, <1>5, <2>1, <2>2 DEF RequestInv, NextRequest, OneRequest
<1>7. OneRequest(i)' /\ ~ Asking(i)'
  <2>1. /\ OneRequest(i)' /\ (toMain' # toMain => ~ Asking(i)')
    BY <1>1, <1>5, RequestsRead DEF RequestInv
  <2>2. toMain' # toMain
    <3>1. Len(toMain'[i]) = Len(toMain[i]) - 1 /\ Len(toMain[i]) \in Nat
      BY <1>1, ReceivedAt, LenProperties DEF Types, QueueTypes
    <3>2. toMain' = toMain => Len(toMain'[i]) = Len(toMain[i])
      OBVIOUS
    <3> QED  BY <3>1, <3>2
  <2> QED  BY <2>1, <2>2
<1>8. NextRequest(i)'
  <2>1. wk[i].seq \in 0 .. MaxIo
    BY DEF Types, IoTypes, Workers, Sequence
  <2> QED  BY <1>1, <1>3, <1>4, <1>6, <1>7, <2>1, BoundsAssumption DEF NextRequest
<1>9. RequestIsOpen(i)'
  BY <1>1, <1>5, <1>6, <1>7 DEF RequestInv, RequestIsOpen
<1>10. InHand(i)'
  BY <1>1, <1>2, <1>4, <1>6 DEF InHand, Holds
<1>11. CheckedIsDone(i)' /\ AnsweredIsDone(i)'
  BY <1>1, <1>2, <1>3, NoneAssumption DEF CheckedIsDone, AnsweredIsDone
<1>12. \A j \in Inst \ {i} : RequestInv(j)'
  BY <1>1, <1>4, <1>5, HolderMoves
<1>13. InUseIsInHand'
  BY <1>1, <1>2, <1>3, <1>4 DEF InUseIsInHand
<1> QED  BY <1>7, <1>8, <1>9, <1>10, <1>11, <1>12, <1>13 DEF Requests, RequestInv

LEMMA CompletesRequests ==
    ASSUME Types, Possession, Requests, NEW i \in Inst, IoChecked(i) \/ IoAnswered(i)
    PROVE  Requests'
<1>1. RequestInv(i) /\ \A j \in Inst \ {i} : StandsStill(j)
  BY HandlerTypes DEF Requests
<1>2. UNCHANGED <<consumed, store, op, opened, running, down, next, wk, toMain>>
  BY DEF IoChecked, IoAnswered, shared, worker
<1>3. running[i] /\ op.st = "ok" /\ io[i] # "none" /\ main' \in {main, i, None}
  BY DEF IoChecked, IoAnswered, OnTime, Awaited, RequestInv, CheckedIsDone, Requests
<1>4. /\ Holds(i) /\ opened[i] # "none" /\ ~ consumed /\ store = "open"
      /\ \A j \in Inst : Holds(j) <=> j = i
  BY <1>3, RunsInPossession
<1>5. op.by = i /\ op.seq = wk[i].seq /\ ~ Asking(i)
  BY <1>1, <1>3 DEF RequestInv, InHand, RequestIsOpen
<1>6. Asking(i)' <=> Asking(i)
  BY <1>2 DEF Asking
<1>7. \A j \in Inst : Holds(j)' <=> Holds(j)
  BY <1>2 DEF Holds
<1>8. /\ mailbox'[i].seq = mailbox[i].seq /\ io'[i] \in {"none", "checked"}
      /\ io'[i] = "checked" <=> main' = i
      /\ mailbox'[i].flag = 1 => io'[i] = "none"
  <2>1. mailbox[i] \in [flag : {-1, 0, 1}, seq : Sequence]
    BY DEF Types, IoTypes
  <2>2. CASE IoChecked(i)
    BY <2>2 DEF IoChecked, Types, IoTypes, worker, OnTime
  <2>3. CASE IoAnswered(i)
    BY <2>1, <2>3, NoneAssumption DEF IoAnswered, Types, IoTypes
  <2> QED  BY <2>2, <2>3
<1>9. OneRequest(i)' /\ NextRequest(i)' /\ RequestIsOpen(i)'
  BY <1>1, <1>2, <1>3, <1>5, <1>6, <1>8
     DEF RequestInv, OneRequest, NextRequest, RequestIsOpen
<1>10. InHand(i)' /\ CheckedIsDone(i)'
  BY <1>2, <1>3, <1>4, <1>5, <1>7, <1>8 DEF InHand, CheckedIsDone
<1>11. AnsweredIsDone(i)'
  BY <1>1, <1>2, <1>3, <1>5, <1>6, <1>8 DEF RequestInv, OneRequest, AnsweredIsDone
<1>12. \A j \in Inst \ {i} : RequestInv(j)'
  BY <1>1, <1>2, <1>3, <1>4, HolderMoves
<1>13. InUseIsInHand'
  BY <1>2, <1>3, <1>4 DEF InUseIsInHand
<1> QED  BY <1>9, <1>10, <1>11, <1>12, <1>13 DEF Requests, RequestInv

LEMMA OpenRequests ==
    ASSUME Types, Possession, Requests, NEW i \in Inst, Open(i)
    PROVE  Requests'
<1>1. /\ main = None /\ opened[i] = "none" /\ ~ owned /\ ~ consumed /\ store = "open"
      /\ UNCHANGED <<consumed, store, op, main, next, io, calls, down, mailbox, toMain>>
      /\ wk' = [wk EXCEPT ![i].at = "loading"]
  BY DEF Open, Idle
<1>2. /\ RequestInv(i) /\ \A j \in Inst \ {i} : StandsStill(j)
      /\ toMain[i] = <<>> /\ io[i] = "none" /\ down[i] = "none" /\ ~ running[i]
  BY <1>1, ApplicationTypes DEF Requests, Possession, Fresh, RunsUntilDown
<1>3. wk'[i].seq = wk[i].seq
  BY <1>1 DEF Types, IoTypes, Workers
<1>4. ~ Asking(i) /\ ~ Asking(i)'
  BY <1>1, <1>2, EmptySeq DEF Asking
<1>5. OneRequest(i)' /\ NextRequest(i)' /\ RequestIsOpen(i)'
  BY <1>1, <1>2, <1>3, <1>4 DEF RequestInv, OneRequest, NextRequest, RequestIsOpen
<1>6. InHand(i)' /\ CheckedIsDone(i)' /\ AnsweredIsDone(i)'
  BY <1>1, <1>2, <1>4, NoneAssumption DEF RequestInv, InHand, CheckedIsDone, AnsweredIsDone
<1>7. ASSUME NEW j \in Inst \ {i}  PROVE RequestInv(j)'
  <2>1. io[j] = "none"
    <3>1. ~ running[j]
      BY <1>1 DEF Possession, OneHolder, RunsUntilDown, Holds
    <3> QED  BY <1>1, <3>1 DEF Requests, RequestInv, InHand
  <2>2. RequestInv(j) /\ StandsStill(j)
    BY <1>2 DEF Requests
  <2> QED  BY <1>1, <2>1, <2>2, OthersRequests
<1>8. InUseIsInHand'
  BY <1>1 DEF Requests, InUseIsInHand
<1> QED  BY <1>5, <1>6, <1>7, <1>8 DEF Requests, RequestInv

LEMMA SettlesRequests ==
    ASSUME Types, Requests, NEW outcome \in {"ok", "failed"}, StorageSettles(outcome)
    PROVE  Requests'
<1>1. /\ op.st = "running" /\ op' = [op EXCEPT !.st = outcome]
      /\ UNCHANGED <<consumed, store, main, session, worker>>
  BY DEF StorageSettles
<1>2. op'.by = op.by /\ op'.seq = op.seq /\ op'.st = outcome
  BY <1>1 DEF Types, SharedTypes
<1>3. ASSUME NEW i \in Inst  PROVE RequestInv(i)'
  <2>1. RequestInv(i) /\ main # i /\ mailbox[i].flag # 1
    BY <1>1 DEF Requests, RequestInv, CheckedIsDone, AnsweredIsDone
  <2>2. OneRequest(i)' /\ NextRequest(i)' /\ RequestIsOpen(i)'
    BY <1>1, <2>1 DEF RequestInv, OneRequest, NextRequest, RequestIsOpen, Asking, session, worker
  <2>3. InHand(i)' /\ CheckedIsDone(i)' /\ AnsweredIsDone(i)'
    BY <1>1, <1>2, <2>1 DEF RequestInv, InHand, CheckedIsDone, AnsweredIsDone, Holds,
                            session, worker
  <2> QED  BY <2>2, <2>3 DEF RequestInv
<1>4. InUseIsInHand'
  BY <1>1, <1>2 DEF InUseIsInHand
<1> QED  BY <1>3, <1>4 DEF Requests

LEMMA WorkerAllRequests ==
    ASSUME Types, Possession, CallsAreRight, Requests, NEW i \in Inst, WorkerStep(i)
    PROVE  Requests'
<1>1. UNCHANGED <<consumed, store, op, main, down, io>> /\ \A j \in Inst \ {i} : StandsStill(j)
  BY WorkerTypes DEF shared, session
<1>2. opened[i] # "none"
  <2>1. ~ Open(i)
    BY WorkerTypes DEF Open, shared, session, Types, PromiseTypes
  <2> QED  BY <2>1, OnlyOpenOpens DEF StepOf
<1>3. RequestInv(i)'
  BY WorkerRequests DEF CallsAreRight, Requests
<1> QED  BY <1>1, <1>2, <1>3, KeepsRequests

LEMMA RequestsPreserved ==
    Types /\ Possession /\ CallsAreRight /\ Requests /\ [Next]_vars => Requests'
<1> SUFFICES ASSUME Types, Possession, CallsAreRight, Requests, [Next]_vars PROVE Requests'
  OBVIOUS
<1>1. CASE UNCHANGED vars
  BY <1>1 DEF vars, shared, session, worker, Requests, RequestInv, InUseIsInHand, OneRequest,
              NextRequest, RequestIsOpen, InHand, CheckedIsDone, AnsweredIsDone, Asking, Holds
<1>2. CASE \E outcome \in {"ok", "failed"} : StorageSettles(outcome)
  BY <1>2, SettlesRequests
<1>3. ASSUME NEW i \in Inst, StepOf(i)  PROVE Requests'
  BY <1>3, StepKinds, WorkerAllRequests, TearsAllRequests, ShutdownAllRequests,
     AnswersAllRequests, ReadsAllRequests, StartsRequests, CompletesRequests, OpenRequests
<1> QED  BY <1>1, <1>2, <1>3, NextKinds

-----------------------------------------------------------------------------
(***************************************************************************)
(* The theorems.                                                           *)
(***************************************************************************)
IInv == Types /\ Possession /\ CallsAreRight /\ Requests

\* The inductive invariant holds in every reachable state.
THEOREM InvariantHolds == Spec => []IInv
<1>1. Init => IInv
  BY InitTypes, InitPossession, InitCalls, InitRequests DEF IInv, CallsAreRight
<1>2. IInv /\ [Next]_vars => IInv'
  BY TypesPreserved, PossessionPreserved, CallsPreserved, RequestsPreserved DEF IInv
<1> QED  BY <1>1, <1>2, PTL DEF Spec

\* Every variable keeps its type; the main thread counts no more requests than
\* the worker made, and never has two calls waiting at the worker.
THEOREM TypeCorrect == Spec => []TypeOK
<1>1. IInv => TypeOK
  <2> SUFFICES ASSUME IInv PROVE TypeOK
    OBVIOUS
  <2>1. owned \in BOOLEAN /\ consumed \in BOOLEAN
    BY DEF IInv, Types, SharedTypes
  <2>2. next \in [Inst -> 1 .. MaxIo + 1]
    BY DEF IInv, Types, IoTypes, Requests, RequestInv, NextRequest
  <2>3. \A i \in Inst : Len(calls[i]) <= MaxCalls /\ Len(toWorker[i]) <= 1
    BY DEF IInv, Types, QueueTypes, CallsAreRight, CallsInv, OneWaiting
  <2>4. /\ store \in {"open", "closing", "closed", "failed"} /\ main \in Inst \cup {None}
        /\ op \in [by : Inst \cup {None}, seq : Sequence, st : {"none", "running", "ok", "failed"}]
    BY DEF IInv, Types, SharedTypes
  <2>5. running \in [Inst -> BOOLEAN] /\ finished \in [Inst -> BOOLEAN]
    BY DEF IInv, Types, PromiseTypes
  <2>6. /\ opened \in [Inst -> {"none", "pending", "resolved", "rejected"}]
        /\ down \in [Inst -> {"none", "aborting", "settling", "closing", "done"}]
        /\ why \in [Inst -> {"none", "reason", "close"}]
        /\ aborted \in [Inst -> {"none", "own", "joined", "ok", "failed"}]
    BY DEF IInv, Types, PromiseTypes
  <2>7. /\ io \in [Inst -> {"none", "storage", "checked"}]
        /\ mailbox \in [Inst -> [flag : {-1, 0, 1}, seq : Sequence]]
        /\ wk \in [Inst -> Workers]
    BY DEF IInv, Types, IoTypes
  <2> QED  BY <2>1, <2>2, <2>3, <2>4, <2>5, <2>6, <2>7, Zenon DEF TypeOK, Workers, Places
<1> QED  BY <1>1, InvariantHolds, PTL

\* The storage is closed by the one session that has it.  An operation is inside
\* it only when the storage knows no other way to abort this very operation
\* (filesystem.js:69, 126-132; browser/README.md:97-98).
THEOREM ClosesAlone == Spec => []CloseIsExclusive
<1>1. IInv => CloseIsExclusive
  <2> SUFFICES ASSUME IInv, store = "closing"
               PROVE  \E i \in Inst :
                         /\ \A j \in Inst : Holds(j) <=> j = i
                         /\ op.st = "running" =>
                               ClosesToAbort /\ down[i] = "aborting" /\ op.by = i
    BY DEF CloseIsExclusive
  <2>1. PICK i \in Inst : Closing(i)
    BY DEF IInv, Possession, ClosedOnlyWhenSpent
  <2>2. Holds(i) /\ \A j \in Inst : Holds(j) <=> j = i
    BY <2>1 DEF IInv, Possession, Fresh, OneHolder, Holds, Closing
  <2>3. op.st = "running" => op.by = i /\ ClosesToAbort /\ down[i] = "aborting"
    BY <2>2, InsideIsTheHolders DEF IInv, Requests, InUseIsInHand
  <2> QED  BY <2>2, <2>3
<1> QED  BY <1>1, InvariantHolds, PTL

\* A call that was made after an I/O of the engine had failed does not succeed
\* (filesystem-worker.js:107-117, 139).
THEOREM LostIoIsFinal == Spec => []NoSuccessAfterLostIo
<1>1. IInv => NoSuccessAfterLostIo
  BY DEF IInv, CallsAreRight, CallsInv, TaintedFails, NoSuccessAfterLostIo
<1> QED  BY <1>1, InvariantHolds, PTL

-----------------------------------------------------------------------------
\* The storage begins an operation in IoStarts only.
LEMMA OnlyIoStartsBegins ==
    ASSUME Types, NEW i \in Inst, StepOf(i), ~ IoStarts(i)
    PROVE  UNCHANGED op
<1>1. CASE WorkerStep(i) \/ Tears(i) \/ Answers(i) \/ SendNext(i)
  BY <1>1, WorkerTypes, TearsEffect, AnswersEffect, SendNextEffect DEF shared
<1>2. CASE Shutdown(i)
  BY <1>2 DEF Shutdown, PendingAborted, PendingSettled, StorageClosed, TeardownFails,
              TeardownEnds, shared
<1>3. CASE \/ MessageIgnored(i) \/ OpenResolves(i) \/ IoChecked(i) \/ IoAnswered(i) \/ Open(i)
           \/ \E method \in {"work", "finish"} : Call(i, method)
  BY <1>3 DEF MessageIgnored, OpenResolves, IoChecked, IoAnswered, Open, Call, shared
<1> QED  BY <1>1, <1>2, <1>3, StepKinds

\* An operation begins on a storage that is open, still, and in the hands of
\* the session that asks for it (filesystem.js:51, 70, 139, 157-165).
THEOREM OneOperationAtATime == Spec => OpsAreExclusive
<1>1. IInv /\ [Next]_vars =>
        [(op' # op /\ op'.st = "running") =>
           /\ op.st # "running"
           /\ store = "open" /\ ~ consumed
           /\ \A j \in Inst : Holds(j) <=> j = op'.by]_vars
  <2> SUFFICES ASSUME IInv, [Next]_vars, op' # op, op'.st = "running"
               PROVE  /\ op.st # "running"
                      /\ store = "open" /\ ~ consumed
                      /\ \A j \in Inst : Holds(j) <=> j = op'.by
    OBVIOUS
  <2>1. PICK i \in Inst : IoStarts(i)
    <3>1. ~ UNCHANGED vars
      BY DEF vars, shared
    <3>2. \A outcome \in {"ok", "failed"} : ~ StorageSettles(outcome)
      BY SettlesTypes DEF IInv, Types, SharedTypes
    <3> QED  BY <3>1, <3>2, NextKinds, OnlyIoStartsBegins DEF IInv
  <2>2. running[i] /\ io[i] = "none" /\ op'.by = i
    BY <2>1 DEF IoStarts, InSequence
  <2>3. /\ Holds(i) /\ ~ consumed /\ store = "open"
        /\ \A j \in Inst : Holds(j) <=> j = i
    BY <2>2, RunsInPossession DEF IInv
  <2>4. op.st # "running"
    BY <2>2, <2>3, OthersAreOut DEF IInv
  <2> QED  BY <2>2, <2>3, <2>4
<1> QED  BY <1>1, InvariantHolds, PTL DEF Spec, OpsAreExclusive

\* The worker goes on from a request, its engine intact, only after the storage
\* completed that very request (filesystem.js:181-205, filesystem-worker.js:41-52).
THEOREM ServedRequestsReturn == Spec => OnlyServedRequestsReturn
<1>1. ASSUME IInv, [Next]_vars, NEW i \in Inst,
             wk[i].at = "waiting", wk'[i].at = "busy", ~ wk'[i].retired
      PROVE  op = [by |-> i, seq |-> wk[i].seq, st |-> "ok"]
  <2>1. StepOf(i)
    <3>1. ~ StandsStill(i)
      BY <1>1 DEF StandsStill
    <3>2. ~ UNCHANGED vars
      BY <1>1 DEF vars, worker
    <3> QED  BY <1>1, <3>1, <3>2, NextKinds, SettlesTypes, StepTypes DEF IInv
  <2>2. WorkerStep(i)
    <3>1. ~ UNCHANGED wk
      BY <1>1
    <3>2. ~ Open(i)
      BY <1>1 DEF Open, IInv, Possession, Fresh
    <3>3. ~ Tears(i) /\ ~ Answers(i) /\ ~ SendNext(i)
      BY <1>1, <3>1, TearsEffect, AnswersEffect, SendNextEffect DEF IInv, Refuses, Sends, worker
    <3>4. ~ Shutdown(i)
      BY <3>1 DEF Shutdown, PendingAborted, PendingSettled, StorageClosed, TeardownFails,
                  TeardownEnds, worker
    <3>5. /\ ~ (MessageIgnored(i) \/ IoStarts(i) \/ OpenResolves(i))
          /\ ~ (IoChecked(i) \/ IoAnswered(i))
          /\ \A method \in {"work", "finish"} : ~ Call(i, method)
      BY <3>1 DEF MessageIgnored, IoStarts, OpenResolves, IoChecked, IoAnswered, Call, worker
    <3> QED  BY <2>1, <3>2, <3>3, <3>4, <3>5, StepKinds
  <2>3. RequestServed(i)
    <3>1. wk \in [Inst -> Workers] /\ wk[i] \in Workers
      BY <1>1 DEF IInv, Types, IoTypes
    <3>2. ~ RequestGivenUp(i)
      BY <1>1, <3>1 DEF RequestGivenUp, Workers
    <3>3. ~ WorkerStops(i)
      BY <1>1, <3>1 DEF WorkerStops, Workers
    <3> QED
      BY <1>1, <2>2, <3>2, <3>3 DEF WorkerStep, WorkerLoads, LoadFails, WorkerTakes, Request,
         Mounted, MethodReturns, MethodThrows, MethodTraps, WorkerCrashes
  <2>4. mailbox[i].flag = 1 /\ mailbox[i].seq = wk[i].seq
    BY <2>3 DEF RequestServed
  <2>5. op.by = i /\ op.seq = wk[i].seq /\ op.st = "ok"
    BY <1>1, <2>4 DEF IInv, Requests, RequestInv, AnsweredIsDone
  <2> QED  BY <1>1, <2>5 DEF IInv, Types, SharedTypes
<1>2. IInv /\ [Next]_vars =>
        [\A i \in Inst :
           (wk[i].at = "waiting" /\ wk'[i].at = "busy" /\ ~ wk'[i].retired) =>
              op = [by |-> i, seq |-> wk[i].seq, st |-> "ok"]]_vars
  BY <1>1
<1> QED  BY <1>2, InvariantHolds, PTL DEF Spec, OnlyServedRequestsReturn

\* A finish that is answered well finds the storage open and still and every
\* I/O of the engine served (filesystem.js:244-250).
LEMMA FinishEffect ==
    ASSUME IInv, NEW i \in Inst, NEW k \in CallIds, FinishAnswered(i, k)
    PROVE  /\ ~ finished[i] /\ store' = "open" /\ ~ consumed /\ ~ consumed' /\ ~ owned'
           /\ UNCHANGED op /\ op.st # "running" /\ ~ wk'[i].retired
           /\ \A j \in Inst : Holds(j) <=> j = i
           /\ \A j \in Inst : ~ Holds(j)'
<1>1. /\ running[i] /\ UNCHANGED <<consumed, store, op, main, opened, wk>> /\ toMain[i] # <<>>
      /\ Head(toMain[i]).kind = "reply" /\ Head(toMain[i]).ok /\ Head(toMain[i]).id = k
      /\ calls[i][k].method = "finish"
  BY DEF FinishAnswered, ReplyTo, Arrives
<1>2. ~ consumed /\ store = "open" /\ Holds(i) /\ \A j \in Inst : Holds(j) <=> j = i
  BY <1>1, RunsInPossession DEF IInv
<1>3. ~ finished[i] /\ opened[i] # "none"
  BY <1>1 DEF IInv, Possession, RunsUntilDown
<1>4. 1 \in DOMAIN toMain[i] /\ Head(toMain[i]) = toMain[i][1]
  BY <1>1, ReceivedAt DEF IInv, Types, QueueTypes
<1>5. wk[i].at = "freed" /\ ~ wk[i].retired
  BY <1>1, <1>4 DEF IInv, CallsAreRight, CallsInv, FinishIsLast
<1>6. io[i] = "none"
  BY <1>5 DEF IInv, Requests, RequestInv, RequestIsOpen
<1>7. op.st # "running"
  BY <1>2, <1>6, OthersAreOut DEF IInv
<1>8. ~ owned'
  BY Zenon DEF FinishAnswered
<1>9. Held(i)
  <2>1. Answers(i)
    BY DEF Answers
  <2> QED  BY <1>1, <1>3, <2>1, AnswersTypes DEF Held, IInv
<1>10. \A j \in Inst : ~ Holds(j)'
  BY <1>9, FinishPossession DEF IInv
<1> QED  BY <1>1, <1>2, <1>3, <1>5, <1>7, <1>8, <1>10

LEMMA OnlyFinishFinishes ==
    ASSUME Types, NEW i \in Inst, StepOf(i), ~ \E k \in CallIds : FinishAnswered(i, k)
    PROVE  UNCHANGED finished
<1>1. CASE WorkerStep(i) \/ Tears(i) \/ Answers(i) \/ SendNext(i)
  BY <1>1, WorkerTypes, TearsEffect, AnswersEffect, SendNextEffect DEF session
<1>2. CASE Shutdown(i)
  BY <1>2 DEF Shutdown, PendingAborted, PendingSettled, StorageClosed, TeardownFails, TeardownEnds
<1>3. CASE \/ MessageIgnored(i) \/ IoStarts(i) \/ OpenResolves(i) \/ IoChecked(i) \/ IoAnswered(i)
           \/ Open(i) \/ \E method \in {"work", "finish"} : Call(i, method)
  BY <1>3 DEF MessageIgnored, IoStarts, OpenResolves, IoChecked, IoAnswered, Open, Call, session
<1> QED  BY <1>1, <1>2, <1>3, StepKinds

\* A finish that resolves hands the storage back open, still and reusable, and
\* no I/O of its engine was lost.
THEOREM FinishHandsBackIntact == Spec => FinishIsIntact
<1>1. ASSUME IInv, [Next]_vars, NEW i \in Inst, ~ finished[i], finished'[i]
      PROVE  /\ store' = "open" /\ ~ consumed' /\ ~ owned'
             /\ op'.st # "running"
             /\ ~ wk'[i].retired
  <2>1. StepOf(i)
    <3>1. ~ StandsStill(i)
      BY <1>1 DEF StandsStill
    <3>2. ~ UNCHANGED vars
      BY <1>1 DEF vars, session
    <3> QED  BY <1>1, <3>1, <3>2, NextKinds, SettlesTypes, StepTypes DEF IInv
  <2>2. PICK k \in CallIds : FinishAnswered(i, k)
    BY <1>1, <2>1, OnlyFinishFinishes DEF IInv
  <2> QED  BY <1>1, <2>2, FinishEffect
<1>2. IInv /\ [Next]_vars =>
        [\A i \in Inst : (~ finished[i] /\ finished'[i]) =>
           /\ store' = "open" /\ ~ consumed' /\ ~ owned'
           /\ op'.st # "running"
           /\ ~ wk'[i].retired]_vars
  BY <1>1
<1> QED  BY <1>2, InvariantHolds, PTL DEF Spec, FinishIsIntact

-----------------------------------------------------------------------------
(***************************************************************************)
(* Refinement: every step of the broker is a step of the lease or none.    *)
(***************************************************************************)
Holder == IF \E i \in Inst : Holds(i) THEN CHOOSE i \in Inst : Holds(i) ELSE None
Touching == op.st = "running"

LEMMA HolderIs ==
    /\ \A i \in Inst : (\A j \in Inst : Holds(j) <=> j = i) => Holder = i
    /\ (\A j \in Inst : ~ Holds(j)) => Holder = None
BY DEF Holder

LEMMA NextHolderIs ==
    /\ \A i \in Inst : (\A j \in Inst : Holds(j)' <=> j = i) => Holder' = i
    /\ (\A j \in Inst : ~ Holds(j)') => Holder' = None
BY DEF Holder

\* The holder the lease sees is the session that has the storage.
LEMMA SameHolder ==
    ASSUME Possession, \A j \in Inst : Holds(j)' <=> Holds(j)
    PROVE  Holder' = Holder
<1>1. CASE \E i \in Inst : Holds(i)
  <2>1. PICK i \in Inst : Holds(i)
    BY <1>1
  <2>2. \A j \in Inst : Holds(j) <=> j = i
    BY <2>1 DEF Possession, OneHolder
  <2> QED  BY <2>2, HolderIs, NextHolderIs
<1>2. CASE ~ \E i \in Inst : Holds(i)
  BY <1>2, HolderIs, NextHolderIs
<1> QED  BY <1>1, <1>2

LEMMA LeaseSteps ==
    ASSUME Touching \in BOOLEAN, Touching' \in BOOLEAN, consumed \in BOOLEAN, consumed' \in BOOLEAN,
           \/ UNCHANGED <<Holder, consumed, Touching>>
           \/ /\ Holder = None /\ ~ consumed /\ ~ Touching /\ Holder' \in Inst
              /\ UNCHANGED <<consumed, Touching>>
           \/ /\ Holder # None /\ ~ consumed /\ ~ Touching /\ Touching'
              /\ UNCHANGED <<Holder, consumed>>
           \/ Touching /\ ~ Touching' /\ UNCHANGED <<Holder, consumed>>
           \/ /\ Holder # None /\ ~ consumed /\ ~ Touching /\ Holder' = None
              /\ UNCHANGED <<consumed, Touching>>
           \/ Holder # None /\ ~ consumed /\ consumed' /\ UNCHANGED <<Holder, Touching>>
           \/ Holder # None /\ consumed /\ Holder' = None /\ UNCHANGED <<consumed, Touching>>
    PROVE  [Lease!Next]_(Lease!leaseVars)
BY Zenon DEF Lease!Next, Lease!leaseVars, Lease!Lend, Lease!Touch, Lease!LetGo, Lease!GiveBack,
             Lease!Spend, Lease!Leave, Holder, Touching

\* What the lease does not see.
LEMMA LeaseStutters ==
    ASSUME Types, Types', Possession, NEW i \in Inst, Held(i), UNCHANGED <<op, consumed>>,
           down'[i] = "done" <=> down[i] = "done"
    PROVE  [Lease!Next]_(Lease!leaseVars)
<1>1. \A j \in Inst : Holds(j)' <=> Holds(j)
  BY DEF Holds, Held, StandsStill
<1>2. UNCHANGED <<Holder, Touching>>
  BY <1>1, SameHolder DEF Touching
<1>3. Touching \in BOOLEAN /\ Touching' \in BOOLEAN /\ consumed \in BOOLEAN /\ consumed' \in BOOLEAN
  BY DEF Touching, Types, SharedTypes
<1> QED  BY <1>2, <1>3, LeaseSteps

LEMMA StepHonoursLease ==
    ASSUME IInv, NEW i \in Inst, StepOf(i)
    PROVE  [Lease!Next]_(Lease!leaseVars)
<1>1. Types /\ Types' /\ Possession /\ \A j \in Inst \ {i} : StandsStill(j)
  BY StepTypes DEF IInv
<1>2. Touching \in BOOLEAN /\ Touching' \in BOOLEAN /\ consumed \in BOOLEAN /\ consumed' \in BOOLEAN
  BY <1>1 DEF Touching, Types, SharedTypes
<1>3. CASE Open(i)
  <2>1. /\ opened[i] = "none" /\ ~ owned /\ ~ consumed /\ UNCHANGED <<consumed, op, down>>
        /\ opened' = [opened EXCEPT ![i] = "pending"]
    BY <1>3 DEF Open
  <2>2. down[i] = "none" /\ \A j \in Inst : ~ Holds(j) /\ io[j] = "none"
    BY <2>1 DEF IInv, Possession, Fresh, OneHolder, RunsUntilDown, Requests, RequestInv, InHand,
                Holds
  <2>3. \A j \in Inst : Holds(j)' <=> j = i
    BY <1>1, <2>1, <2>2 DEF Holds, Types, PromiseTypes
  <2>4. Holder = None /\ Holder' = i
    BY <2>2, <2>3, HolderIs, NextHolderIs
  <2>5. ~ Touching /\ UNCHANGED Touching
    BY <2>1, <2>2 DEF Touching, IInv, Requests, InUseIsInHand
  <2> QED  BY <1>2, <2>1, <2>4, <2>5, LeaseSteps
<1>4. CASE ~ Open(i)
  <2>1. main' \in {main, i, None} /\ opened[i] # "none" /\ opened'[i] # "none"
    BY <1>1, <1>4, OnlyOpenOpens, MainStays
  <2>2. Held(i)
    BY <1>1, <2>1 DEF Held
  <2>3. CASE WorkerStep(i) \/ SendNext(i)
    BY <1>1, <2>2, <2>3, WorkerTypes, SendNextEffect, LeaseStutters DEF shared, session
  <2>4. CASE \/ MessageIgnored(i) \/ OpenResolves(i) \/ IoChecked(i) \/ IoAnswered(i)
             \/ \E method \in {"work", "finish"} : Call(i, method)
    <3>1. UNCHANGED <<op, consumed, down>>
      BY <2>4 DEF MessageIgnored, OpenResolves, IoChecked, IoAnswered, Call, shared, session
    <3> QED  BY <1>1, <2>2, <3>1, LeaseStutters
  <2>5. CASE IoStarts(i)
    <3>1. /\ running[i] /\ io[i] = "none" /\ op'.st = "running"
          /\ UNCHANGED <<consumed, opened, down>>
      BY <2>5 DEF IoStarts, InSequence
    <3>2. Holds(i) /\ ~ consumed /\ \A j \in Inst : Holds(j) <=> j = i
      BY <1>1, <3>1, RunsInPossession
    <3>3. Holder = i /\ UNCHANGED Holder
      BY <1>1, <3>1, <3>2, HolderIs, SameHolder DEF Holds
    <3>4. ~ Touching /\ Touching'
      BY <3>1, <3>2, OthersAreOut DEF IInv, Touching
    <3> QED  BY <1>2, <3>1, <3>2, <3>3, <3>4, NoneAssumption, LeaseSteps
  <2>6. CASE Tears(i)
    <3>1. Teardown(i) /\ UNCHANGED op
      BY <1>1, <2>6, TearsEffect
    <3>2. CASE down[i] # "none"
      BY <1>1, <2>2, <3>1, <3>2, LeaseStutters DEF Teardown
    <3>3. CASE down[i] = "none"
      <4>1. consumed' /\ down'[i] \in {"aborting", "closing"}
        <5>1. consumed'
          BY <3>1, <3>3, Zenon DEF Teardown
        <5>2. down'[i] \in {"aborting", "closing"}
          BY <1>1, <3>1, <3>3 DEF Teardown, Types, PromiseTypes
        <5> QED  BY <5>1, <5>2
      <4>2. running[i]
        BY <1>1, <2>1, <3>3 DEF Possession, RunsUntilDown
      <4>3. ~ consumed /\ \A j \in Inst : Holds(j) <=> j = i
        BY <1>1, <4>2, RunsInPossession
      <4>4. \A j \in Inst : Holds(j)' <=> Holds(j)
        BY <2>1, <2>2, <3>3, <4>1 DEF Holds, Held, StandsStill
      <4>5. Holder = i /\ UNCHANGED <<Holder, Touching>>
        BY <1>1, <3>1, <4>3, <4>4, HolderIs, SameHolder DEF Touching
      <4> QED  BY <1>2, <4>1, <4>3, <4>5, NoneAssumption, LeaseSteps
    <3> QED  BY <3>2, <3>3
  <2>7. CASE Shutdown(i)
    <3>1. UNCHANGED <<consumed, op>> /\ down[i] \in {"aborting", "settling", "closing"}
      BY <2>7 DEF Shutdown, PendingAborted, PendingSettled, StorageClosed, TeardownFails,
                  TeardownEnds, shared
    <3>2. CASE PendingAborted(i) \/ PendingSettled(i)
      <4>1. down'[i] # "done"
        BY <1>1, <3>2 DEF PendingAborted, PendingSettled, Types, PromiseTypes
      <4> QED  BY <1>1, <2>2, <3>1, <4>1, LeaseStutters
    <3>3. CASE StorageClosed(i) \/ TeardownFails(i)
      <4>1. down'[i] = "done"
        BY <1>1, <3>3 DEF StorageClosed, TeardownFails, TeardownEnds, Types, PromiseTypes
      <4>2. consumed /\ \A j \in Inst : Holds(j) <=> j = i
        BY <1>1, <2>1, <3>1 DEF Possession, SpendsWhenDown, OneHolder, Holds
      <4>3. \A j \in Inst : ~ Holds(j)'
        BY <2>2, <4>1, <4>2 DEF Holds, Held, StandsStill
      <4>4. Holder = i /\ Holder' = None /\ UNCHANGED Touching
        BY <3>1, <4>2, <4>3, HolderIs, NextHolderIs DEF Touching
      <4> QED  BY <1>2, <3>1, <4>2, <4>4, NoneAssumption, LeaseSteps
    <3> QED  BY <2>7, <3>2, <3>3 DEF Shutdown
  <2>8. CASE Answers(i)
    <3>1. CASE \E k \in CallIds : FinishAnswered(i, k)
      <4>1. /\ ~ consumed /\ ~ consumed' /\ UNCHANGED op /\ op.st # "running"
            /\ \A j \in Inst : Holds(j) <=> j = i
            /\ \A j \in Inst : ~ Holds(j)'
        BY <3>1, FinishEffect
      <4>2. UNCHANGED consumed
        BY <3>1 DEF FinishAnswered
      <4>3. Holder = i /\ Holder' = None /\ ~ Touching /\ UNCHANGED Touching
        BY <4>1, HolderIs, NextHolderIs DEF Touching
      <4> QED  BY <1>2, <4>1, <4>2, <4>3, NoneAssumption, LeaseSteps
    <3>2. CASE UNCHANGED <<owned, running, finished, down, mailbox>>
      BY <1>1, <2>2, <2>8, <3>2, AnswersEffect, LeaseStutters
    <3> QED  BY <1>1, <2>8, <3>1, <3>2, AnswersEffect
  <2> QED  BY <1>4, <2>3, <2>4, <2>5, <2>6, <2>7, <2>8, StepKinds
<1> QED  BY <1>3, <1>4

\* openFilesystem lends the storage as StorageLease says: to one filesystem at
\* a time, touched for the holder only, given back still or spent for good
\* (filesystem.js:51, 70, 116-148, 244-250).
THEOREM LendsAsPromised == Spec => Lease!Init /\ [][Lease!Next]_(Lease!leaseVars)
<1>1. Init => Lease!Init
  <2> SUFFICES ASSUME Init PROVE Lease!Init
    OBVIOUS
  <2>1. \A j \in Inst : ~ Holds(j)
    BY DEF Init, Holds
  <2>2. Holder = None
    BY <2>1, HolderIs
  <2>3. (op.st = "running") = FALSE
    BY DEF Init
  <2>4. consumed = FALSE
    BY Zenon DEF Init
  <2> QED  BY <2>2, <2>3, <2>4, Zenon DEF Lease!Init, Holder
<1>2. IInv /\ [Next]_vars => [Lease!Next]_(Lease!leaseVars)
  <2> SUFFICES ASSUME IInv, [Next]_vars PROVE [Lease!Next]_(Lease!leaseVars)
    OBVIOUS
  <2>1. Types /\ Types' /\ Possession
    BY TypesPreserved DEF IInv
  <2>2. /\ Touching \in BOOLEAN /\ Touching' \in BOOLEAN
        /\ consumed \in BOOLEAN /\ consumed' \in BOOLEAN
    BY <2>1 DEF Touching, Types, SharedTypes
  <2>3. ASSUME UNCHANGED <<consumed, opened, down>>  PROVE UNCHANGED Holder
    <3>1. \A j \in Inst : Holds(j)' <=> Holds(j)
      BY <2>3 DEF Holds
    <3> QED  BY <2>1, <3>1, SameHolder
  <2>4. CASE UNCHANGED vars
    <3>1. UNCHANGED <<consumed, opened, down, op>>
      BY <2>4 DEF vars, shared, session
    <3>2. UNCHANGED <<Holder, Touching>>
      BY <2>3, <3>1 DEF Touching
    <3> QED  BY <2>2, <3>1, <3>2, LeaseSteps
  <2>5. CASE \E outcome \in {"ok", "failed"} : StorageSettles(outcome)
    <3>1. UNCHANGED <<consumed, opened, down>> /\ Touching /\ ~ Touching'
      BY <2>1, <2>5 DEF StorageSettles, session, Touching, Types, SharedTypes
    <3> QED  BY <2>2, <2>3, <3>1, LeaseSteps
  <2> QED  BY <2>4, <2>5, NextKinds, StepHonoursLease
<1> QED  BY <1>1, <1>2, InvariantHolds, PTL DEF Spec

=============================================================================
