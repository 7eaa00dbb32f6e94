-------------------------- MODULE FilesystemBroker --------------------------
(***************************************************************************)
(* browser/filesystem.js and browser/filesystem-worker.js: openFilesystem  *)
(* lends one storage session to a filesystem engine that runs blocked in a *)
(* worker, and answers the engine's I/O from the main thread through a     *)
(* shared mailbox.                                                         *)
(*                                                                         *)
(* The main thread runs one task at a time; a task is an action, except    *)
(* where the worker can get between two of its steps: the check and the    *)
(* store of a completion (io) are separate, and `main` names the session   *)
(* whose task is between them.  The worker, the storage, the timers and    *)
(* the application are free to move whenever no rule above forbids it.     *)
(* Timers are untimed: one that is armed may fire at any moment.           *)
(***************************************************************************)
EXTENDS Integers, Sequences, FiniteSets

CONSTANTS
    Inst,      \* calls of openFilesystem on one storage object
    None,
    MaxCalls,  \* calls the application makes of one session
    MaxIo,     \* mailbox requests of one worker
    ClosesToAbort   \* the storage has neither abortPending() nor a usbDevice():
                    \* its close() is what aborts a pending operation

ASSUME NoneAssumption == None \notin Inst
ASSUME BoundsAssumption == MaxCalls \in Nat /\ MaxIo \in Nat
ASSUME AbortAssumption == ClosesToAbort \in BOOLEAN

VARIABLES
    \* shared by all sessions
    owned,     \* storage \in owners
    consumed,  \* storage \in consumed
    store,     \* what became of the storage: open, closing, closed, failed
    op,        \* the operation the storage is performing, or performed last
    main,      \* the session whose main-thread task the worker can interrupt
    \* of each session, on the main thread
    opened,    \* the promise openFilesystem returned
    running,
    finished,
    next,      \* nextSequence
    io,        \* the io() in flight; "none" also says activeIO is null
    calls,     \* the calls made, in order
    down,      \* how far shutdown() is
    why,       \* its failure: none, reason, or the close failed
    aborted,   \* the promise abort() returned
    \* of each session, at the worker
    mailbox,   \* control[0] and control[1]
    wk,        \* the worker and the engine in it
    toWorker, toMain   \* posted messages

shared  == <<owned, consumed, store, op>>
session == <<opened, running, finished, next, io, calls, down, why, aborted>>
worker  == <<mailbox, wk, toWorker, toMain>>
vars    == <<shared, main, session, worker>>

Sequence == 0 .. MaxIo
CallIds  == 1 .. MaxCalls
Mount    == 0        \* the engine's first job, before any call

NoWorker == [at |-> "none", job |-> Mount, seq |-> 0, poisoned |-> FALSE, retired |-> FALSE]

IoMessage(n)     == [kind |-> "io", seq |-> n]
Ready            == [kind |-> "ready"]
FailedOpen       == [kind |-> "failed-open"]
WorkerError      == [kind |-> "error"]
Reply(k, good, gone) == [kind |-> "reply", id |-> k, ok |-> good, retired |-> gone]

Post(queues, i, message) == [queues EXCEPT ![i] = Append(@, message)]
Received(queues, i) == [queues EXCEPT ![i] = Tail(@)]

Idle == main = None
Settled(call) == call.st \notin {"queued", "sent"}
Sent(i) == {k \in DOMAIN calls[i] : calls[i][k].st = "sent"}
\* rejectAll of the calls: they hear of the failure that ended the session.
LostCalls(i) ==
    [k \in DOMAIN calls[i] |->
        IF calls[i][k].st = "sent" THEN [calls[i][k] EXCEPT !.st = "lost"] ELSE calls[i][k]]

Init ==
    /\ owned = FALSE /\ consumed = FALSE /\ store = "open"
    /\ op = [by |-> None, seq |-> 0, st |-> "none"]
    /\ main = None
    /\ opened = [i \in Inst |-> "none"]
    /\ running = [i \in Inst |-> FALSE]
    /\ finished = [i \in Inst |-> FALSE]
    /\ next = [i \in Inst |-> 1]
    /\ io = [i \in Inst |-> "none"]
    /\ calls = [i \in Inst |-> <<>>]
    /\ down = [i \in Inst |-> "none"]
    /\ why = [i \in Inst |-> "none"]
    /\ aborted = [i \in Inst |-> "none"]
    /\ mailbox = [i \in Inst |-> [flag |-> 0, seq |-> 0]]
    /\ wk = [i \in Inst |-> NoWorker]
    /\ toWorker = [i \in Inst |-> <<>>]
    /\ toMain = [i \in Inst |-> <<>>]

-----------------------------------------------------------------------------
(***************************************************************************)
(* shutdown(reason, true) up to its first await: a second one only returns *)
(* the first one's promise.  terminate() does not wait for the worker: it  *)
(* runs on, writes the mailbox and posts messages until WorkerStops.       *)
(* With an operation pending it calls abortPending(), else close().        *)
(***************************************************************************)
\* storage.close() has been called and is awaited: the last step of shutdown,
\* or the abort of a storage that knows no other.
Closing(i) == down[i] = "closing" \/ (ClosesToAbort /\ down[i] = "aborting")

Teardown(i) ==
    IF down[i] # "none"
    THEN UNCHANGED <<running, mailbox, consumed, store, down, why>>
    ELSE /\ running' = [running EXCEPT ![i] = FALSE]
         /\ mailbox' = [mailbox EXCEPT ![i].flag = -1]
         /\ consumed' = TRUE
         /\ why' = [why EXCEPT ![i] = "reason"]
         /\ IF io[i] # "none"
            THEN /\ down' = [down EXCEPT ![i] = "aborting"]
                 /\ store' = IF ClosesToAbort THEN "closing" ELSE store
            ELSE down' = [down EXCEPT ![i] = "closing"] /\ store' = "closing"

\* The awaits of shutdown, in order; each has its own 5 second deadline.
PendingAborted(i) ==
    /\ Idle
    /\ down[i] = "aborting"
    /\ down' = [down EXCEPT ![i] = "settling"]
    /\ store' = IF ClosesToAbort THEN "closed" ELSE store
    /\ UNCHANGED <<owned, consumed, op, main, opened, running, finished, next, io,
                   calls, why, aborted, worker>>

\* A slip: the close does not wait for the pending operation to settle.
PendingNotAwaited(i) ==
    /\ Idle
    /\ down[i] = "settling"
    /\ down' = [down EXCEPT ![i] = "closing"]
    /\ store' = "closing"
    /\ UNCHANGED <<owned, consumed, op, main, opened, running, finished, next, io,
                   calls, why, aborted, worker>>

\* A storage that was closed to abort the operation is closed once more.
PendingSettled(i) ==
    /\ Idle
    /\ down[i] = "settling"
    /\ io[i] = "none"
    /\ down' = [down EXCEPT ![i] = "closing"]
    /\ store' = "closing"
    /\ UNCHANGED <<owned, consumed, op, main, opened, running, finished, next, io,
                   calls, why, aborted, worker>>

\* Its finally block, and the promises that hang on it.
TeardownEnds(i, failed) ==
    /\ down' = [down EXCEPT ![i] = "done"]
    /\ why' = [why EXCEPT ![i] = IF failed THEN "close" ELSE @]
    /\ owned' = FALSE
    /\ calls' = [calls EXCEPT ![i] = LostCalls(i)]
    /\ opened' = [opened EXCEPT ![i] = IF @ = "pending" THEN "rejected" ELSE @]
    /\ aborted' = [aborted EXCEPT ![i] =
                     CASE @ = "own"    -> IF failed THEN "failed" ELSE "ok"
                       [] @ = "joined" -> "ok"
                       [] OTHER        -> @]
    /\ UNCHANGED <<consumed, op, main, running, finished, next, io, worker>>

StorageClosed(i) ==
    /\ Idle
    /\ down[i] = "closing"
    /\ store' = "closed"
    /\ TeardownEnds(i, FALSE)

\* A slip: only the close itself has a deadline.
CloseFails(i) ==
    /\ Idle
    /\ down[i] = "closing"
    /\ store' = "failed"
    /\ TeardownEnds(i, TRUE)

\* The abort, the settlement or the close is rejected or misses its deadline.
\* What follows it is skipped, the close of the storage included.
TeardownFails(i) ==
    /\ Idle
    /\ down[i] \in {"aborting", "settling", "closing"}
    /\ store' = IF Closing(i) THEN "failed" ELSE store
    /\ TeardownEnds(i, TRUE)

-----------------------------------------------------------------------------
(***************************************************************************)
(* The application.                                                        *)
(***************************************************************************)
\* A slip: the consumed set is never consulted.
OpenAgain(i) ==
    /\ Idle
    /\ opened[i] = "none"
    /\ store = "open"
    /\ ~ owned
    /\ owned' = TRUE
    /\ opened' = [opened EXCEPT ![i] = "pending"]
    /\ running' = [running EXCEPT ![i] = TRUE]
    /\ wk' = [wk EXCEPT ![i].at = "loading"]
    /\ UNCHANGED <<consumed, store, op, main, finished, next, io, calls, down, why,
                   aborted, mailbox, toWorker, toMain>>

Open(i) ==
    /\ Idle
    /\ opened[i] = "none"
    /\ store = "open"       \* storage.usable()
    /\ ~ owned
    /\ ~ consumed
    /\ owned' = TRUE
    /\ opened' = [opened EXCEPT ![i] = "pending"]
    /\ running' = [running EXCEPT ![i] = TRUE]
    /\ wk' = [wk EXCEPT ![i].at = "loading"]
    /\ UNCHANGED <<consumed, store, op, main, finished, next, io, calls, down, why,
                   aborted, mailbox, toWorker, toMain>>

\* call() answers at once when the session is over, else joins the queue.
Call(i, method) ==
    /\ Idle
    /\ opened[i] = "resolved"
    /\ Len(calls[i]) < MaxCalls
    /\ calls' = [calls EXCEPT ![i] = Append(@,
                   [method |-> method, tainted |-> FALSE,
                    st |-> IF running[i] /\ ~ finished[i] THEN "queued" ELSE "failed"])]
    /\ UNCHANGED <<shared, main, opened, running, finished, next, io, down, why, aborted, worker>>

\* A slip: calls are posted as they come, nobody waits for the one before.
SendUnordered(i) ==
    \E k \in DOMAIN calls[i] :
        /\ Idle
        /\ calls[i][k].st = "queued"
        /\ running[i] /\ ~ finished[i]
        /\ calls' = [calls EXCEPT ![i][k].st = "sent"]
        /\ toWorker' = Post(toWorker, i, k)
        /\ UNCHANGED <<shared, main, opened, running, finished, next, io, down, why,
                       aborted, mailbox, wk, toMain>>

\* The task of the next queued call, run when the one before it has settled.
\* `tainted` remembers that an I/O of the engine had failed before the call.
SendNext(i) ==
    \E k \in DOMAIN calls[i] :
        /\ Idle
        /\ calls[i][k].st = "queued"
        /\ \A j \in 1 .. k - 1 : Settled(calls[i][j])
        /\ IF ~ running[i] \/ finished[i]
           THEN /\ calls' = [calls EXCEPT ![i][k].st = "failed"]
                /\ UNCHANGED worker
           ELSE /\ calls' = [calls EXCEPT ![i][k].st = "sent",
                                          ![i][k].tainted = wk[i].retired]
                /\ toWorker' = Post(toWorker, i, k)
                /\ UNCHANGED <<mailbox, wk, toMain>>
        /\ UNCHANGED <<shared, main, opened, running, finished, next, io, down, why, aborted>>

\* The arguments cannot be posted: the call is registered, the session fails.
SendThrows(i) ==
    \E k \in DOMAIN calls[i] :
        /\ Idle
        /\ calls[i][k].st = "queued"
        /\ \A j \in 1 .. k - 1 : Settled(calls[i][j])
        /\ running[i] /\ ~ finished[i]
        /\ calls' = [calls EXCEPT ![i][k].st = "sent"]
        /\ Teardown(i)
        /\ UNCHANGED <<owned, op, main, opened, finished, next, io, aborted,
                       wk, toWorker, toMain>>

Abort(i) ==
    /\ Idle
    /\ opened[i] = "resolved"
    /\ aborted[i] = "none"
    /\ aborted' = [aborted EXCEPT ![i] =
                     IF down[i] = "none" THEN "own"
                     ELSE IF down[i] = "done" THEN "ok" ELSE "joined"]
    /\ Teardown(i)
    /\ UNCHANGED <<owned, op, main, opened, finished, next, io, calls,
                   wk, toWorker, toMain>>

\* Slips: the mount timer is cleared when the module has loaded; only finish
\* is given a timer.
OpenTimesOutLoading(i) ==
    /\ Idle
    /\ opened[i] = "pending" /\ wk[i].at = "loading"
    /\ Teardown(i)
    /\ UNCHANGED <<owned, op, main, opened, finished, next, io, calls, aborted,
                   wk, toWorker, toMain>>
CallTimesOutFinish(i) ==
    /\ Idle
    /\ \E k \in Sent(i) : calls[i][k].method = "finish"
    /\ Teardown(i)
    /\ UNCHANGED <<owned, op, main, opened, finished, next, io, calls, aborted,
                   wk, toWorker, toMain>>

\* The mount timer, and the timer of the call that was sent.
OpenTimesOut(i) ==
    /\ Idle
    /\ opened[i] = "pending"
    /\ Teardown(i)
    /\ UNCHANGED <<owned, op, main, opened, finished, next, io, calls, aborted,
                   wk, toWorker, toMain>>

CallTimesOut(i) ==
    /\ Idle
    /\ Sent(i) # {}
    /\ Teardown(i)
    /\ UNCHANGED <<owned, op, main, opened, finished, next, io, calls, aborted,
                   wk, toWorker, toMain>>

-----------------------------------------------------------------------------
(***************************************************************************)
(* Main thread: io() and the messages of the worker.                       *)
(***************************************************************************)
\* The next message of session i is of this kind.
Arrives(i, kind) == Idle /\ toMain[i] # <<>> /\ Head(toMain[i]).kind = kind
Consume(i) == toMain' = Received(toMain, i)

\* Every handler but onerror ignores a session that is no longer running.
MessageIgnored(i) ==
    /\ \E kind \in {"io", "ready", "failed-open", "reply"} : Arrives(i, kind)
    /\ ~ running[i]
    /\ Consume(i)
    /\ UNCHANGED <<shared, main, session, mailbox, wk, toWorker>>

\* What io() demands of a request before it touches the storage.
InSequence(i, n) ==
    /\ io[i] = "none"
    /\ n = next[i]
    /\ mailbox[i] = [flag |-> 0, seq |-> n]

IoStarts(i) ==
    /\ Arrives(i, "io")
    /\ running[i]
    /\ InSequence(i, Head(toMain[i]).seq)
    /\ Consume(i)
    /\ next' = [next EXCEPT ![i] = @ + 1]
    /\ io' = [io EXCEPT ![i] = "storage"]
    /\ op' = [by |-> i, seq |-> Head(toMain[i]).seq, st |-> "running"]
    /\ UNCHANGED <<owned, consumed, store, main, opened, running, finished, calls,
                   down, why, aborted, mailbox, wk, toWorker>>

IoOutOfSequence(i) ==
    /\ Arrives(i, "io")
    /\ running[i]
    /\ ~ InSequence(i, Head(toMain[i]).seq)
    /\ Consume(i)
    /\ next' = [next EXCEPT ![i] = IF io[i] = "none" THEN @ + 1 ELSE @]
    /\ Teardown(i)
    /\ UNCHANGED <<owned, op, main, opened, finished, io, calls, aborted, wk, toWorker>>

\* The storage settles its promise, also one nobody waits for any longer.
StorageSettles(outcome) ==
    /\ op.st = "running"
    /\ op' = [op EXCEPT !.st = outcome]
    /\ UNCHANGED <<owned, consumed, store, main, session, worker>>

Awaited(i) == io[i] = "storage" /\ op.by = i /\ op.st # "running"

\* The completion is on time: the session runs, and the mailbox still holds
\* this very request, unanswered.
OnTime(i) == running[i] /\ mailbox[i] = [flag |-> 0, seq |-> op.seq]

\* A slip: a rejected storage operation is answered like a completed one.
IoCheckedAnyOutcome(i) ==
    /\ Idle
    /\ Awaited(i)
    /\ OnTime(i)
    /\ io' = [io EXCEPT ![i] = "checked"]
    /\ main' = i
    /\ UNCHANGED <<shared, opened, running, finished, next, calls, down, why, aborted, worker>>

IoChecked(i) ==
    /\ Idle
    /\ Awaited(i)
    /\ op.st = "ok"
    /\ OnTime(i)
    /\ io' = [io EXCEPT ![i] = "checked"]
    /\ main' = i
    /\ UNCHANGED <<shared, opened, running, finished, next, calls, down, why, aborted, worker>>

\* control[2] and control[0], whatever the worker did to control[0] meanwhile.
IoAnswered(i) ==
    /\ main = i
    /\ mailbox' = [mailbox EXCEPT ![i].flag = 1]
    /\ io' = [io EXCEPT ![i] = "none"]
    /\ main' = None
    /\ UNCHANGED <<shared, opened, running, finished, next, calls, down, why, aborted,
                   wk, toWorker, toMain>>

\* Rejected, or late.  Teardown finds activeIO still set.
IoFails(i) ==
    /\ Idle
    /\ Awaited(i)
    /\ op.st = "failed" \/ ~ OnTime(i)
    /\ io' = [io EXCEPT ![i] = "none"]
    /\ Teardown(i)
    /\ UNCHANGED <<owned, op, main, opened, finished, next, calls, aborted,
                   wk, toWorker, toMain>>

OpenResolves(i) ==
    /\ Arrives(i, "ready")
    /\ running[i]
    /\ Consume(i)
    /\ opened' = [opened EXCEPT ![i] = "resolved"]
    /\ UNCHANGED <<shared, main, running, finished, next, io, calls, down, why, aborted,
                   mailbox, wk, toWorker>>

\* failed-open, a "ready" of another API version, or an error event.
WorkerFails(i) ==
    /\ \/ Arrives(i, "failed-open") /\ running[i]
       \/ Arrives(i, "error")
    /\ Consume(i)
    /\ Teardown(i)
    /\ UNCHANGED <<owned, op, main, opened, finished, next, io, calls, aborted, wk, toWorker>>

\* Only the call that was sent can be answered: a running session has one at most.
ReplyTo(i, k) ==
    /\ Arrives(i, "reply")
    /\ running[i]
    /\ Head(toMain[i]).id = k
    /\ k \in Sent(i)
    /\ Consume(i)

CallAnswered(i, k) ==
    LET reply == Head(toMain[i])
    IN  /\ ReplyTo(i, k)
        /\ ~ reply.retired
        /\ ~ (reply.ok /\ calls[i][k].method = "finish")
        /\ calls' = [calls EXCEPT ![i][k].st = IF reply.ok THEN "ok" ELSE "failed"]
        /\ UNCHANGED <<shared, main, opened, running, finished, next, io, down, why,
                       aborted, mailbox, wk, toWorker>>

\* The engine retired: the call stays registered and hears of the teardown.
CallRetires(i, k) ==
    /\ ReplyTo(i, k)
    /\ Head(toMain[i]).retired
    /\ Teardown(i)
    /\ UNCHANGED <<owned, op, main, opened, finished, next, io, calls, aborted, wk, toWorker>>

\* finish: shutdown(null, false) never awaits anything; the storage goes back.
FinishAnswered(i, k) ==
    /\ ReplyTo(i, k)
    /\ Head(toMain[i]).ok
    /\ calls[i][k].method = "finish"
    /\ calls' = [calls EXCEPT ![i][k].st = "ok"]
    /\ finished' = [finished EXCEPT ![i] = TRUE]
    /\ running' = [running EXCEPT ![i] = FALSE]
    /\ mailbox' = [mailbox EXCEPT ![i].flag = -1]
    /\ down' = [down EXCEPT ![i] = "done"]
    /\ owned' = FALSE
    /\ UNCHANGED <<consumed, store, op, main, opened, next, io, why, aborted, wk, toWorker>>

-----------------------------------------------------------------------------
(***************************************************************************)
(* The worker: one job at a time, the mount first, and inside a job any    *)
(* number of blocking mailbox requests.  `retired` is the engine's own     *)
(* memory of a failed I/O (Guarded), `poisoned` the worker's.              *)
(***************************************************************************)
WorkerLoads(i) ==
    /\ wk[i].at = "loading"
    /\ wk' = [wk EXCEPT ![i].at = "busy"]
    /\ UNCHANGED <<shared, main, session, mailbox, toWorker, toMain>>

LoadFails(i) ==
    /\ wk[i].at = "loading"
    /\ wk' = [wk EXCEPT ![i].at = "idle", ![i].poisoned = TRUE]
    /\ toMain' = Post(toMain, i, FailedOpen)
    /\ UNCHANGED <<shared, main, session, mailbox, toWorker>>

\* A slip: the worker does not look at `poisoned` before it takes a call.
WorkerTakesAny(i) ==
    /\ wk[i].at = "idle"
    /\ toWorker[i] # <<>>
    /\ toWorker' = Received(toWorker, i)
    /\ wk' = [wk EXCEPT ![i].at = "busy", ![i].job = Head(toWorker[i])]
    /\ UNCHANGED <<shared, main, session, mailbox, toMain>>

WorkerTakes(i) ==
    /\ wk[i].at = "idle"
    /\ toWorker[i] # <<>>
    /\ toWorker' = Received(toWorker, i)
    /\ IF wk[i].poisoned
       THEN /\ toMain' = Post(toMain, i, Reply(Head(toWorker[i]), FALSE, TRUE))
            /\ UNCHANGED wk
       ELSE /\ wk' = [wk EXCEPT ![i].at = "busy", ![i].job = Head(toWorker[i])]
            /\ UNCHANGED toMain
    /\ UNCHANGED <<shared, main, session, mailbox>>

\* The engine reads, writes or syncs; a poisoned worker refuses on the spot.
Request(i) ==
    /\ wk[i].at = "busy"
    /\ ~ wk[i].poisoned
    /\ wk[i].seq < MaxIo
    /\ wk' = [wk EXCEPT ![i].at = "waiting", ![i].seq = @ + 1]
    /\ mailbox' = [mailbox EXCEPT ![i] = [flag |-> 0, seq |-> wk[i].seq + 1]]
    /\ toMain' = Post(toMain, i, IoMessage(wk[i].seq + 1))
    /\ UNCHANGED <<shared, main, session, toWorker>>

RequestServed(i) ==
    /\ wk[i].at = "waiting"
    /\ mailbox[i] = [flag |-> 1, seq |-> wk[i].seq]
    /\ wk' = [wk EXCEPT ![i].at = "busy"]
    /\ UNCHANGED <<shared, main, session, mailbox, toWorker, toMain>>

\* The deadline passes, or the main thread said -1.  retire() writes -1 over
\* whatever is there, a completion that has just arrived included.
RequestGivenUp(i) ==
    /\ wk[i].at = "waiting"
    /\ wk' = [wk EXCEPT ![i].at = "busy", ![i].poisoned = TRUE, ![i].retired = TRUE]
    /\ mailbox' = [mailbox EXCEPT ![i].flag = -1]
    /\ UNCHANGED <<shared, main, session, toWorker, toMain>>

Mounted(i) ==
    /\ wk[i].at = "busy"
    /\ wk[i].job = Mount
    /\ \/ /\ wk' = [wk EXCEPT ![i].at = "idle"]
          /\ toMain' = Post(toMain, i, Ready)
       \/ /\ wk' = [wk EXCEPT ![i].at = "idle", ![i].poisoned = TRUE]
          /\ toMain' = Post(toMain, i, FailedOpen)
    /\ UNCHANGED <<shared, main, session, mailbox, toWorker>>

Method(i) == calls[i][wk[i].job].method

\* A slip: the last device check of finish is missing.
MethodReturnsUnchecked(i) ==
    /\ wk[i].at = "busy"
    /\ wk[i].job # Mount
    /\ wk' = [wk EXCEPT ![i].at = IF Method(i) = "finish" THEN "freed" ELSE "idle"]
    /\ toMain' = Post(toMain, i, Reply(wk[i].job, TRUE, FALSE))
    /\ UNCHANGED <<shared, main, session, mailbox, toWorker>>

\* A method may return normally although one of its reads failed, but finish
\* ends with a device check that a retired engine does not pass.
MethodReturns(i) ==
    /\ wk[i].at = "busy"
    /\ wk[i].job # Mount
    /\ Method(i) = "finish" => ~ wk[i].retired
    /\ wk' = [wk EXCEPT ![i].at = IF Method(i) = "finish" THEN "freed" ELSE "idle"]
    /\ toMain' = Post(toMain, i, Reply(wk[i].job, TRUE, FALSE))
    /\ UNCHANGED <<shared, main, session, mailbox, toWorker>>

\* It throws: a plain refusal, or the end of the engine.
MethodThrows(i) ==
    \E gone \in BOOLEAN :
        /\ wk[i].at = "busy"
        /\ wk[i].job # Mount
        /\ wk[i].poisoned => gone
        /\ wk' = [wk EXCEPT ![i].at = "idle", ![i].poisoned = @ \/ gone]
        /\ toMain' = Post(toMain, i, Reply(wk[i].job, FALSE, gone))
        /\ UNCHANGED <<shared, main, session, mailbox, toWorker>>

\* A trap of the engine that also breaks usable(): no reply is ever posted.
MethodTraps(i) ==
    /\ wk[i].at = "busy"
    /\ wk[i].job # Mount
    /\ wk' = [wk EXCEPT ![i].at = "idle"]
    /\ UNCHANGED <<shared, main, session, mailbox, toWorker, toMain>>

WorkerCrashes(i) ==
    /\ wk[i].at \in {"loading", "idle", "busy"}
    /\ wk' = [wk EXCEPT ![i].at = "dead"]
    /\ toMain' = Post(toMain, i, WorkerError)
    /\ UNCHANGED <<shared, main, session, mailbox, toWorker>>

\* The terminate() of a session that is over takes effect.
WorkerStops(i) ==
    /\ down[i] # "none"
    /\ wk[i].at # "dead"
    /\ wk' = [wk EXCEPT ![i].at = "dead"]
    /\ toWorker' = [toWorker EXCEPT ![i] = <<>>]
    /\ UNCHANGED <<shared, main, session, mailbox, toMain>>

-----------------------------------------------------------------------------
Shutdown(i) ==
    PendingAborted(i) \/ PendingSettled(i) \/ StorageClosed(i) \/ TeardownFails(i)

Handler(i) ==
    \/ MessageIgnored(i) \/ IoStarts(i) \/ IoOutOfSequence(i)
    \/ OpenResolves(i) \/ WorkerFails(i)
    \/ \E k \in CallIds : CallAnswered(i, k) \/ CallRetires(i, k) \/ FinishAnswered(i, k)

Completion(i) == IoChecked(i) \/ IoAnswered(i) \/ IoFails(i)

WorkerStep(i) ==
    \/ WorkerLoads(i) \/ LoadFails(i) \/ WorkerTakes(i) \/ Request(i)
    \/ RequestServed(i) \/ RequestGivenUp(i) \/ Mounted(i)
    \/ MethodReturns(i) \/ MethodThrows(i) \/ MethodTraps(i)
    \/ WorkerCrashes(i) \/ WorkerStops(i)

Application(i) ==
    \/ Open(i) \/ Abort(i) \/ SendThrows(i)
    \/ \E method \in {"work", "finish"} : Call(i, method)

Timer(i) == OpenTimesOut(i) \/ CallTimesOut(i)

Next ==
    \/ \E i \in Inst :
          \/ Application(i) \/ SendNext(i) \/ Timer(i) \/ Shutdown(i)
          \/ Handler(i) \/ Completion(i) \/ WorkerStep(i)
    \/ \E outcome \in {"ok", "failed"} : StorageSettles(outcome)

Spec == Init /\ [][Next]_vars

(***************************************************************************)
(* What runs by itself: the main thread's tasks and the timers it armed.   *)
(* Nothing is assumed of the application, the worker or the storage.       *)
(***************************************************************************)
Fairness ==
    \A i \in Inst :
        /\ WF_vars(SendNext(i)) /\ WF_vars(Timer(i)) /\ WF_vars(Shutdown(i))
        /\ WF_vars(Handler(i)) /\ WF_vars(Completion(i))

FairSpec == Spec /\ Fairness

-----------------------------------------------------------------------------
TypeOK ==
    /\ owned \in BOOLEAN /\ consumed \in BOOLEAN
    /\ store \in {"open", "closing", "closed", "failed"}
    /\ op \in [by : Inst \cup {None}, seq : Sequence, st : {"none", "running", "ok", "failed"}]
    /\ main \in Inst \cup {None}
    /\ opened \in [Inst -> {"none", "pending", "resolved", "rejected"}]
    /\ running \in [Inst -> BOOLEAN] /\ finished \in [Inst -> BOOLEAN]
    /\ next \in [Inst -> 1 .. MaxIo + 1]
    /\ io \in [Inst -> {"none", "storage", "checked"}]
    /\ \A i \in Inst : Len(calls[i]) <= MaxCalls /\ Len(toWorker[i]) <= 1
    /\ down \in [Inst -> {"none", "aborting", "settling", "closing", "done"}]
    /\ why \in [Inst -> {"none", "reason", "close"}]
    /\ aborted \in [Inst -> {"none", "own", "joined", "ok", "failed"}]
    /\ mailbox \in [Inst -> [flag : {-1, 0, 1}, seq : Sequence]]
    /\ wk \in [Inst -> [at : {"none", "loading", "idle", "busy", "waiting", "freed", "dead"},
                        job : CallIds \cup {Mount}, seq : Sequence,
                        poisoned : BOOLEAN, retired : BOOLEAN]]

\* From openFilesystem until its shutdown is done.
Holds(i) == opened[i] # "none" /\ down[i] # "done"

\* The storage is closed by the one session that holds it.  An operation is
\* still inside only when the close is that session's way to abort this very
\* operation (filesystem.js:69, 129; browser/README.md:97-98); the close that
\* ends a shutdown waits for it to settle (126-132).
CloseIsExclusive ==
    store = "closing" =>
        \E i \in Inst :
            /\ \A j \in Inst : Holds(j) <=> j = i
            /\ op.st = "running" => ClosesToAbort /\ down[i] = "aborting" /\ op.by = i

\* An operation only starts on a storage that is open, idle, and in the hands
\* of the very session that starts it (filesystem.js:51, 70, 139, 157-165).
OpsAreExclusive ==
    [][(op' # op /\ op'.st = "running") =>
         /\ op.st # "running"
         /\ store = "open" /\ ~ consumed
         /\ \A j \in Inst : Holds(j) <=> j = op'.by]_vars

\* The worker goes on from a request only when the storage completed exactly
\* that request, however timeout, answer and teardown interleave
\* (filesystem.js:181-205, filesystem-worker.js:41-52).
OnlyServedRequestsReturn ==
    [][\A i \in Inst :
         (wk[i].at = "waiting" /\ wk'[i].at = "busy" /\ ~ wk'[i].retired) =>
            op = [by |-> i, seq |-> wk[i].seq, st |-> "ok"]]_vars

\* After an I/O of the engine failed no later call succeeds, even when the
\* call that met the failure did (filesystem-worker.js:107-117, 139).
NoSuccessAfterLostIo ==
    \A i \in Inst : \A k \in DOMAIN calls[i] : calls[i][k].tainted => calls[i][k].st # "ok"

\* A finish that resolves hands back a storage that is open and still, and
\* ends an engine none of whose I/O was lost (filesystem.js:244-250).
FinishIsIntact ==
    [][\A i \in Inst : (~ finished[i] /\ finished'[i]) =>
         /\ store' = "open" /\ ~ consumed' /\ ~ owned'
         /\ op'.st # "running"
         /\ ~ wk'[i].retired]_vars

\* A promise the application holds told it that the storage failed to close.
Told(i) ==
    \/ opened[i] = "rejected"
    \/ aborted[i] = "failed"
    \/ \E k \in DOMAIN calls[i] : calls[i][k].st = "lost"

\* "Teardown ... propagates failure instead of reporting a clean release"
\* (browser/README.md:98-99): abort() does not resolve on a failed close that
\* nobody has been told of.
AbortNeverHidesAFailedClose ==
    \A i \in Inst : (aborted[i] = "ok" /\ why[i] = "close") => Told(i)

\* Every call settles, every open settles, every abort settles: a dead worker
\* or a hung storage delays them no longer than the timers allow
\* (filesystem.js:100-115, 258-300).
CallsSettle ==
    \A i \in Inst : \A k \in CallIds :
        (k \in DOMAIN calls[i]) ~> (k \in DOMAIN calls[i] /\ Settled(calls[i][k]))
OpenSettles ==
    \A i \in Inst : (opened[i] = "pending") ~> (opened[i] \in {"resolved", "rejected"})
AbortSettles ==
    \A i \in Inst : (aborted[i] \in {"own", "joined"}) ~> (aborted[i] \in {"ok", "failed"})

\* "Delayed completions, short reads, failed writes/flushes and timeouts retire
\* the worker and close its transport" (browser/README.md:91-93): a worker that
\* gave up on a request is followed by the teardown of its session.
TimeoutClosesTheTransport ==
    \A i \in Inst : (opened[i] = "resolved" /\ wk[i].poisoned) ~> (down[i] # "none")

(***************************************************************************)
(* The lease of the storage, as its other users see it.                    *)
(***************************************************************************)
Lease == INSTANCE StorageLease WITH
    Users    <- Inst,
    Nobody   <- None,
    holder   <- IF \E i \in Inst : Holds(i) THEN CHOOSE i \in Inst : Holds(i) ELSE None,
    spent    <- consumed,
    touching <- op.st = "running"

\* openFilesystem lends the storage as StorageLease says, and a lease that was
\* spent ends (filesystem.js:51, 70, 116-148, 244-250).
HonoursLease == Lease!Spec
=============================================================================
