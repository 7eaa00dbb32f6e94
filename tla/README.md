# A verification project for canoe-nusb-storage

canoe-nusb-storage gives a browser page (and a native qualification program)
safe access to a phone's storage over USB: a SCSI-over-bulk-only transport, byte
ranges on top of it, file systems on top of those, and the WebUSB session that
carries all of it.  Its promise is not speed but honesty: whenever it is not
certain what happened on the medium, it says so and refuses to go on.  These
modules state that promise and check it.

All paths below are relative to the repository's root.

## The system

| part | source | state | operations |
|---|---|---|---|
| Bulk-only transport | `nusb-scsi/src/lib.rs` (`Scsi`) | `usable`, `tag` | `command` and what is built on it, `eject`, `into_inner` |
| Byte ranges | `nusb-scsi/src/range.rs` | geometry, access | `connect`, `read_range`, `write_range`, `sync`, `eject` |
| Managed WebUSB session | `canoe-usb-web/src/managed.rs`, `connect_web`/`close_web` in `nusb-scsi/src/lib.rs` | `client`, `interface_owner`, the local `claimed` | `open_managed_storage`, reads, writes, `sync`, `eject`, `close` |
| Fastboot session | `canoe-usb-web/src/lib.rs` | `client`, `interface` | `get_var`, `command`, `fetch`, `flash`, `close` |
| Filesystem broker | `browser/filesystem.js` | `owners`, `consumed`; per session `running`, `finished`, `ioBusy`/`activeIO`, `nextSequence`, `calls`, `shutdownPromise` | `openFilesystem`, calls, `abort`, message and timer handlers, `shutdown` |
| Filesystem worker | `browser/filesystem-worker.js` | `sequence`, `poisoned`, `filesystem`, the shared `control` words | mailbox requests, message loop |
| Filesystem engine session | `canoe-fs/src/lib.rs`, `wasm.rs` | `mounted`, `retired` | file operations, `flush`, `fresh_read`, `finish`, `abort` |
| ext4 admission | `nusb-ext4/src/lib.rs` | none | `inspect`, `mount`, `finish` |
| FAT composition | `nusb-fatfs/src/lib.rs` | none | `mount` |
| Native probe | `nusb-scsi/examples/managed_probe.rs`, `NusbIo::connect`/`close` in `nusb-scsi/src/lib.rs` | the claimed interface, the stage's result | `run`, `commands`, teardown |

How they interact: the application opens a managed session (WebUSB promises)
and lends it to `openFilesystem`.  That starts a worker; the engine in it runs
synchronously and blocks in `Atomics.wait` on a mailbox, while the main thread
performs the storage operation the mailbox asks for and stores the outcome.
Below, every storage operation is one or more SCSI commands, each a sequence of
bulk transfers.

What is hard: a future that is dropped while the device keeps working; a device
that sends less, more, or something else; two deadlines that race; a completion
and a timeout that write the same shared word; a browser that refuses a state
change because another one, which nobody waits for any more, is in progress;
teardown while an operation is still inside the storage; and an error whose only
witness is a promise that nobody holds.  `PROJECT.json` lists these hazards with
their lines.

What makes each part correct:

- transport: a verdict is the device's own verdict on that command; a session
  that takes another command has nothing of an earlier one on the wire;
- byte ranges: bytes outside a written range never change; what is returned is
  what the range holds; doubt retires the session;
- managed session: a receipt without cleanup trouble is true; a ready session
  owns its interface; every call returns;
- broker and worker: operations and close are exclusive; only a served request
  returns to the engine; a finished session hands back an intact storage; a spent
  one is never lent again; every promise settles;
- engine session: no I/O of any kind after the retirement; a read-only session
  publishes nothing; finish means flushed;
- admission: nothing is written before the inspection says it may be;
- fastboot session: a session that goes on has read the answer to everything it
  sent; a successful flash is this image, whole;
- native probe: exit code 0 is evidence, and teardown neither hangs nor lets go of
  the interface with transfers out.

## The modules

### CommandContract, BulkOnlyTransport, BulkOnlyTransportProofs, MCBulkOnlyTransport

`BulkOnlyTransport` is `Scsi::command` (`nusb-scsi/src/lib.rs:315-382`) with each
await a step: `Start` runs to the first await and clears `usable` (340),
`CbwDelivered`, `DataIn`, `CswReadAsData`, `DataOut`, `DataReadAsCsw` and `CswRead`
are the completions of the bulk transfers, `TransferFails` and `Cancel` the ways
out.  `pc` names the await.  The device is a part of the model with its own
state (`dev`): where it stands, how many units it will move for this command,
how many it has moved, the status it will report.  What arrives is decided by
where the *device* stands and how it is read by where the *host* stands, so
misframing is possible wherever the code allows it.  Bytes are counted in units,
a status wrapper is `CswLength` units.

The device may move fewer units than asked or try to send more, report any
status, and its status wrapper may be faithful, malformed, answer another tag, or
claim too much residue.  A failed or cancelled transfer may have reached it
whole, in part or not at all, and it goes on with the old command on its own.

`CommandContract` says what the layers above may rely on: nothing happens on the
medium while the session is ready; ok only after the full effect; a refusal keeps
the session; doubt retires it.  `MeetsContract` is the refinement.

Assumptions about the device, marked external in the map: it abandons the old
command when its interface is released and claimed again (the code sends no
reset; see the hazard at lib.rs:302), its data does not happen to be a
well-formed status wrapper with the current tag, and a well-formed status
wrapper with the right tag and a plausible residue tells the truth.

### RangeSession, RangeSessionProofs, MCRangeSession, ByteStore, ByteStoreProofs

`RangeSession` is `nusb-scsi/src/range.rs` and the `Scsi` operations it is made
of, over a transport that is *any* one `CommandContract` allows: its actions are
conjoined with the contract's, so nothing here depends on how `BulkOnlyTransport`
works.  `at` names the command whose turn it is: `ready`, `sense`, `readyAgain`
and `capacity` are `connect` (`initialize_ready`, `lib.rs:386-406`, with its one
retry after a UNIT ATTENTION), `fetch` and `store` the read-modify-write of
`write_range`, and so on; `Send` hands a command to the transport, `...Answered`,
`...Refused` and `InDoubt` are its three outcomes.

The medium is a function from byte addresses to the number of the write that put
the byte there, so a byte that moved, or that a write took with it, is seen.  It
can be replaced at any moment between two effects; the device owes a UNIT
ATTENTION then.  `Fits`, `First`, `Count` and `CountFits` are `span` with its
overflow checks on word sizes scaled down (`U16`, `U32`, `U64`).

Assumptions about the device: a command whose sector size is no longer that of
the medium is refused or has no effect; a write that is only partly done has
stored its first sectors; the old command is abandoned on reconnect.  After a
refusal was told to the caller the session goes on with its old geometry:
identifying the medium again is the caller's business (`range.rs` keeps no
identity), so `ReplacementIsTold` promises the report and nothing after it.

`ByteStore` is what all of this is to the caller: the bytes of a disk and calls on
ranges of them, with no sectors, commands or sense data.  A call is `Start`ed by the
caller, `Launch`ed on the disk when the command of its own kind is sent, `Land`s in
part or is `Perform`ed whole, and returns `Ok` (it was performed), `Refuse` (it was not,
and will not be), `Doubt` (it may still be, and was the session's last) or `Deny`.
Another disk is touched only after a refusal told the caller.  `Store` in
`RangeSession` is the refinement mapping, `ServesBytes` the property: the read of an
unaligned write, its patching and the whole connection are steps that do not show.
`Doubt` and a `Refuse` after `Land` are why `FilesystemSession` lets a request that
fails have any part of its effect.

### FilesystemBroker, FilesystemBrokerProofs, StorageLease

`FilesystemBroker` is `browser/filesystem.js` and `browser/filesystem-worker.js`
together, for any number of `openFilesystem` calls on one storage object.  A task
of the main thread is one action, because nothing can interrupt it, except where
the *worker* can see the gap: the check of a completion (`IoChecked`, lines
197-202) and its store (`IoAnswered`, 203-205) are two, and `main` keeps the
other tasks out in between.  `down` follows the awaits of `shutdown`: `aborting`,
`settling`, `closing`.  The variables that `down` replaces are noted where they
are declared; `io[i] # "none"` is both `ioBusy` and `activeIO`.

A pending operation is aborted in one of three ways (`filesystem.js:66-69`): by the
storage's own `abortPending()`, by closing its retained `usbDevice`, or, for a storage
that has neither, by `storage.close()` itself.  The constant `ClosesToAbort` says
whether the storage is of the third kind.  Its close is then called over the pending
operation (line 129; `browser/README.md:97-98` asks such a storage to settle it) and once
more when the operation settled (line 132).  `Closing` is true while either call
is awaited.  `CloseIsExclusive` says what remains true of both: only the session that
has the storage closes it, an operation that is still inside is that session's own and
the close is its abort, and the close that ends a shutdown meets none.

Timers have no durations: an armed timer may fire at any moment.  That only adds
behaviours.  `Worker.terminate()` is asynchronous: the worker runs on until
`WorkerStops`.  The engine in the worker is external: a call makes any number of
requests and then returns, throws, traps or kills the worker; that `finish` ends
with a device check (`canoe-fs/src/lib.rs:636-641`) is the one thing assumed.
`op` is the storage operation in progress or done last, wherever the promise
that waits for it went.  `TimeoutClosesTheTransport` states what
`browser/README.md:91-93` says of a request that times out; the worker alone knows
of such a timeout, so it is about the two sides together (finding 3).

`StorageLease` is the promise towards the other users of the storage.  Its
fairness condition (a spent storage does not stay held) makes the refinement a
liveness statement too.

### FilesystemSession, FilesystemSessionProofs

`Guarded` and `Session` of `canoe-fs/src/lib.rs` with the admission of
`nusb-ext4/src/lib.rs`.  `at` names the engine call or the direct device call in
progress.  The engine is external: inside a call it reads, writes and flushes the
guarded device as often as it likes and may keep a failure to itself; what is
assumed is in `EngineOk` (ok without a lost operation means its work is done),
`EngineErr` (with nothing to write a flush fails only if the device does) and
`BelievesWritable` (fs-ext4 asks `is_writable`, fatfs does not).  `GuardedRead`,
`GuardedWrite` and `GuardedFlush` are the three operations of `Guarded`;
`Settles` is `mutation`; `Mutate`, `CheckRefuses`, `CheckPasses`, `Created`,
`MutationReturns` and `LabelReturns` are the six mutating methods, which share
their shape: look first, act, and for a new ext4 inode label it in a second
operation.  `flaws` is what the session's own mutations left unfinished on the
medium, `dirty` the bookkeeping in memory (FSInfo, journal), `cached` what the
device was not told to flush.

`OkMeansPublished` has an exemption.  `mutation()` passes on what the engine returned and
does not look at `retired`, so an engine that keeps a failed device flush to itself
makes `flush` and `fresh_read` answer ok over data that is not on the medium; nothing in
`canoe-fs` excludes that.  (Both engines do report an injected failure:
`canoe-fs/tests/session.rs:211-213`.)  The property says what holds all the same: the
device is retired then, what was lost was lost in this very call, so this false ok is the
last one, and `finish`, which ends with a device flush of its own, is never falsely ok.

A FAT file has a destructor of its own: the handle a closure opened is dropped when
the closure ends, *before* `mutation` retires the session (`lib.rs:464-474`, 498,
520-528).  `HandleGoes` and `HandleGone` are that stage (`at = "handle"`): the
handle may still write its directory entry and flush, an error there is swallowed,
and `truncate` relies on it.  `canoe-fs/README.md` speaks of retirement preventing
destructor-time I/O; `WrittenOnlyWhenAsked` checks that for the engine's destructor, and the
handle's write is an effect of the mutation it belongs to.  A write that fails may
have had a part of its effect, because the broker sends a long one in several
requests.

### ManagedLifecycle, ManagedLifecycleProofs

`open_managed_storage`, `connect_web`, `close_web` and the operations of
`ManagedStorageSession`.  `at` names the await; `claimed`, `owner` and `client`
are the three places a handle can be in.  The browser has at most one change of
the device's state in progress and refuses another one (`refused`); a change
whose future was dropped settles by itself (`OrphanSettles`).  Time is counted in
ticks of 2.5 s because three deadlines can overtake one another: the 20 s limit
of the open (8 ticks), the 5 s of `connect_web` (2), the 5 s of each step of
`close_web` (2).  Time passes while a deadline runs, and never past one that has
expired.  What a dropped `connect_web` had to say of its own cleanup is dropped with it:
the receipt of the `close_web` that follows speaks only of that close
(`managed.rs:117-121`).

`AbortPending` composes the session with the broker: when an operation does not
return, `abortPending` of the broker closes the retained `usbDevice` under it
(`browser/filesystem.js` `shutdown`), without going through the session.  The
operation (`at = "aborted"`) then fails, which retires the session, or had succeeded
already, which leaves a session without its device (`"spent"`) that is used only to
close it.

### FastbootSession, FastbootSessionProofs

`canoe-usb-web/src/lib.rs`.  `stage` names the call and the reply it waits for,
`client` is `FastbootSession::client`: `take` removes it (`Begin`), and `finish` or
`flash` puts it back (`Keep`) or closes the device (`Retire`).  `Progress`,
`NextBlock`, `Failed`, `Unexpected` and `Doubt` are what can come back: the reply
hoped for, a block sent, a complete FAIL, any other reply, and an error of a transfer
or a deadline.  `fetch` is three replies, `hashRange` two commands, `flash` a
download in blocks and a second command.

The protocol engine and the device are external.  The device has its own state: what
it is busy with (`dev`), the blocks it still takes, the buffer it flashes from, the
medium.  It may refuse, answer something else, open a data stage nobody asked for,
stop for ever or be unplugged, and it finishes what it began after the host has
given up.  `wire` are the replies not yet read, `out` the packet on its way.  A
closed device aborts transfers; it does *not* forget the command, so a session may
start over a device that owes an old reply.  Nothing in the code can tell
(`PROJECT.json`, hazard at lib.rs:74); `sound` marks the sessions that began over an
idle device and an empty wire, and the framing properties are about those.
`close_web` is one await here (`CloseEnds`); `ManagedLifecycle` has its steps.

### NativeProbe, NativeProbeProofs

`nusb-scsi/examples/managed_probe.rs` with the native `connect` and `close` of
`NusbIo`.  It is composed with `CommandContract` (`Transport == INSTANCE ...`), the
abstract specification `BulkOnlyTransport` is proved to implement: each of
`Succeeds`, `Refused`, `Doubt` and `Sensed` is conjoined with the contract's step.
`stage` follows `run`: `commands`, `sense` (the request for sense data after an
error, asked only of a session whose framing is known), `draining` and `releasing`.
A deadline drops a command's future; the transfer stays `pending` until the drain
cancels and reaps it, or until the drain's own deadline passes.

## The runs

| run | constants | states | shows |
|---|---|---|---|
| `bot` | no data, an eject, reads of 1 and 4 units, a write of 3; chunk 2, wrapper 2, tags mod 3 | 4.9 k | framing, verdicts, refinement of the contract |
| `ranges` | four media (3x2, 4x1, 2x3, 8x1), words of 3, 8 and 8, offsets 1, 2, 7, lengths 2 to 4, two writes, one replacement | 601 k | spans, read-modify-write, exact Ok, a replacement is told, refinement of the byte store |
| `broker_lease` | two sessions, one call and one request each | 102 k | exclusive operations and close, the lease, its release |
| `broker_session` | one session, three calls, three requests, a storage whose close is its abort | 524 k | the two closes, the mailbox protocol, poisoning, finish |
| `broker_liveness` | one session, two calls, two requests | 66 k | every promise settles |
| `broker_abort` | one session, two calls, two requests | violation | finding 1 |
| `broker_timeout` | one session, one call, one request | violation | finding 3 |
| `fs_session` | both engines and an unknown one, read-only and writable, blocked or not, labels or not | 58 k | no publication unasked, usable means whole, ok means published |
| `managed` | 8, 2 and 2 ticks | 6.2 k | receipts, ownership, bounds, every call returns |
| `managed_release` | the same | violation | finding 2 |
| `fastboot` | images of two blocks, two replies on the wire | 78 k | what may keep a session, what a doubtful one closes, flash, every call returns |
| `native_probe` | none | 426 | exit code 0, release after drain, the probe ends |

Why these bounds are enough.  Transport: three or four units with a chunk of two give
commands of two chunks, a wrapper of two units fits into the rest of a read of
four (taken as data) and does not fit into a read of one (oversized); three tags
wrap and still tell the current, the last and another one apart.  Ranges: 3x2
has a range that starts and ends inside a sector and spans two, 4x1 is always
aligned, 2x3 has a sector size the code refuses and 8x1 more blocks than the word
holds; offset 7 with length 2 overflows; two writes can overlap, and one replacement
falls between any two commands, those of one read-modify-write included.  The
filesystem session has no bound: all its state is finite.  Broker: the
sequence number has to move twice for a late completion to meet a newer request,
and a third call is needed behind one that hangs and one that is queued; two
sessions contend for the one storage.  `ClosesToAbort` is TRUE in `broker_session`, FALSE
in the other broker runs; `ClosesAlone` is proved for both.  Managed session: the ticks are the code's
own ratios.  `age` is capped just above the bound it is compared with.
Fastboot: two blocks have a first and a last one, so a packet can be lost or taken
for data before, between and after them; a wire of two replies holds the answer to
the current command and one that nobody asked for.  The probe has no bound: its six
commands are the code's.  The five broker runs, `fs_session` and `native_probe` do not check deadlock,
because their sessions, and the probe, end for good; elsewhere the system may always
go on.

### Fairness

`FairSpec` of the broker assumes that the main thread's own tasks, its timers and
its message handlers run (the event loop), and *nothing* of the application, the
worker, the engine or the storage: they may stop for ever.  The managed
lifecycle assumes that deadlines expire and are acted upon, and that an operation
ends (each is wrapped in `bounded`, 30 to 120 s); nothing is assumed of the
browser or the device.  The fastboot session assumes the same two things: `bounded`
ends every call (`Doubt`) and `close_web`'s deadlines end every close.
`open_fastboot` has no deadline, so `CallsReturn` leaves the opening out.  The native probe
runs on by itself, its deadlines expire (that of GET_MAX_LUN is enforced by `nusb`
on the control transfer), and the operating system answers a claim and a release;
a transfer need never come back.  The weak fairness of a timer is justified because it
stays armed until the call it belongs to settles.

## Findings

1. `broker_abort`: `abort()` can resolve on a storage that failed to close with
   nobody told (`browser/filesystem.js:331` against `browser/README.md:98-99`).
2. `managed_release`: the outer limit of the open can drop an interface that only
   `connect_web` holds, so the close races with its release
   (`canoe-usb-web/src/managed.rs:80-121` against `nusb-scsi/src/lib.rs:16-18`).
3. `broker_timeout`: a mailbox request times out in the worker, the engine keeps the
   failure to itself and the call resolves; nothing then closes the transport
   (`browser/filesystem-worker.js:121-133` against `browser/README.md:91-93`).  The run
   lets the storage operation hang for ever; with operations that have their own deadlines, as
   `ManagedStorageSession`'s have, the late completion ends it.

## The proofs

`BulkOnlyTransportProofs` proves, for every set of commands, every chunk size,
wrapper length and tag width that satisfy the assumptions of the module:
`TypeCorrect`, `FramingStaysInSync`, `VerdictsAreTrue` and `TransportMeetsContract`.

The properties are not inductive.  `FramingInSync` speaks of an idle, usable
session, and to know that one is in sync after a status wrapper one has to know
what happened while the command ran.  `IInv` adds: a busy session is not usable
(`BusyIsUnusable`), so every way out but a conclusive wrapper leaves it retired;
before the command wrapper is delivered the device is idle and has not seen this
tag (`BeforeCbw`); afterwards it carries this tag (`CommandAnswered`); what the
host counted agrees with its stage (`StageCounts`) and with what the device moved
(`DeviceCounts`); and once a status wrapper was taken as data the device has
none left to give (`MixedIsSpent`), so no conclusive one can follow.  `StepPreserves`
has one lemma per action.  The verdict rests on `OnlyFaithfulIsConclusive`: of all
the wrappers that can arrive, only a faithful one is taken as ok or refused.  The
refinement shows, action by action, that the effect on the medium only grows and
that `ok` comes with the full effect.

`FastbootSessionProofs` proves, for images of every length and a wire that holds any
number of replies, `TypeCorrect`, `KeptSessionIsFramed` and `FlashIsTrue`.  A
session is kept when it has read an OKAY or a FAIL; the invariant says why that is
enough: such a reply is the last one the device owes (`AnswerIsLast`), nothing is
sent before it was read (`SentIsAlone`), and in a flash the blocks still to be sent
are those the device still takes (`DownloadStage`, `ImageStage`, `WholeStage`,
`FlashStage`).  `ClosedIsSilent` and `RoomWhileTaking` are what reopening and the
device need.  `sound` stays a hypothesis of both properties: nothing is proved of a
session that began over a device that still owed something.

`DoubtIsClosed`, which needs none of this but types, says the other half: a call that
gives its session up without a word of trouble has closed the device.

`NativeProbeProofs` proves `TypeCorrect`, `ExitIsEvidence` and `ReleaseComesLast` over
every transport that meets `CommandContract`, so with `TransportMeetsContract` over
`BulkOnlyTransport`.  An "ok" of the commands is remembered up to the exit while the
device may still work; `OkIsComplete` says that what it claims stays true until
then, which rests on the contract's rule that an effect never shrinks.

`RangeSessionProofs` proves `TypeCorrect`, `CommandsCover`, `RangeBoundsChange`,
`OkReportsAreExact` and `ReplacementsAreTold`, for media of every geometry, words of
every width, ranges of every offset and length, any number of writes and
replacements.  `KeepsToTheContract` adds that every step is one of `CommandContract`:
with `TransportMeetsContract`, nothing the theorems take from the transport is left
open.  The arithmetic comes first: `LawfulSpan` and `AlignedSpan` derive from the code's
checks (`Fits`, `CountFits`) that the sectors from `First` on are inside the capacity and
hold the range, with as little multiplication in a leaf as Z3 can stand.  The invariant
then follows the bytes.  A command belongs to the call it was made for and was checked
against the geometry the session still has (`Lawful`); what a finished command answered
is true as long as its medium is there, and once the medium was replaced the device
still owes a UNIT ATTENTION (`TrueToIt`); the sectors to be written hold the call's bytes
inside the range and the medium's outside it, or the device is going to refuse them
(`Right`).  That last part is what makes a read-modify-write safe and cannot be weakened:
the sectors fetched from a medium that is gone are wrong, and only the refusal
keeps them off the new one.

`ByteStoreProofs` proves with `SessionServesBytes` that `RangeSession` implements
`ByteStore`, for the same constants.  To `IInv` it adds that a capacity is that of the medium
which reported it (`CapacityIsTrue`), so the size a session was opened with is the
disk's, that nothing of a session outlives it and a call begins with no bytes
(`NothingLeft`), and that a WRITE is sent for write calls only (`WritesAreCalls`).
First come lemmas on what the store shows of a state (`ClosedView`,
`AwaitedView`, `NotBegunView`), then one lemma per kind of step.  `PerformsStep` and
`StoresStep` are the heart: whole sectors are written and only the range shows
(`WrittenBytes`), and the disk is the session's own because the device executes
nothing while it owes a UNIT ATTENTION (`RightDisk`, from `ReplacementIsTold`).

`FilesystemSessionProofs` proves `TypeCorrect`, `UsableIsWhole`, `OkIsPublished`,
`OnlyWrittenWhenAsked` and `ReadOnlyLastsUntilLoss` for engines that read, write and flush
inside a call as often as they like.  The properties speak of the session between two
calls; the invariant says what every stage knows: which method it belongs to
(`StageOfCall`, `StageOfAccess`), that a lost operation has retired the device
and that inside a method it was lost in this call (`LossRetires`), that an unfinished mutation is open or the session retired
(`FlawsInTheOpen`), that the engine `finish` took has nothing left to write
(`LastFlushIsClean`).  `EngineOutcome` sums up what one step of an external engine can do
in six cases, so that no later proof looks into the guarded operations again.

`FilesystemBrokerProofs` proves for any number of sessions, calls and requests
`TypeCorrect`, `ClosesAlone`, `OneOperationAtATime`, `ServedRequestsReturn`,
`LostIoIsFinal` and `FinishHandsBackIntact`, and with `LendsAsPromised` the safety part
of the refinement of `StorageLease`.  A step is one session's, the others stand still
(`StandsStill`), both kinds of storage are covered, and the invariant is a conjunction over the sessions but for two places
where they meet.  `Possession`: at most one session has the storage, from the open on
until its teardown is over, and a storage that is not open any more is consumed.
`CallsAreRight`: how the queue of calls and the queue of replies agree, the one call the
worker has, and that a call made by a poisoned worker carries that to its reply.
`Requests`: the way of one mailbox request from the worker through the storage and back;
the number in the mailbox, the message, the main thread's `next` and the operation are
that of this request or an older one, so an answer to a request that timed out
(`AnsweredIsDone`, `CheckedIsDone`) is never taken for the answer to the next one.

`ManagedLifecycleProofs` proves `TypeCorrect`, `ReadySessionOwns`, `ReceiptsAreTrue` and
`OpenReturnsInTime` for deadlines of every length.  `Owned` says at which await which of
the three places has the interface, `Settled` that no change of the device is on its
way while the session uses it.  `Clock` accounts for the time of an open: its age and what
is left of the outer limit add up to the limit, and each step of `close_web` has one
deadline more.  `ReceiptIsTrue` is inductive together with this.

Each inductive invariant was checked by TLC first.  With these, every safety invariant
and every action property of the passing runs is a theorem.  The theorems assume
of the constants what the modules' `ASSUME`s say and no more: sizes and limits that are
positive, inputs that fit their words.

Only model-checked: liveness (`CallsReturn` of two modules, `ProbeEnds`,
`CallsSettle`, `OpenSettles`, `AbortSettles`) and `HonoursLease` as a whole, whose
fairness condition `LendsAsPromised` leaves out; `ENABLED` and fairness are beyond the
prover.  So are the three runs that end in a violation.

## Not modelled

Every component with run-time behaviour of its own is modelled.  Left out of them:
file names, contents, error texts, argument validation, descriptor selection,
the journal and allocation inside `fs-ext4` and `fatfs` and the fastboot engine
(dependencies, modelled from how they are used), which file an I/O belongs to, the
argument parsing and printed evidence of the probe.  Not components of the running
system, and not modelled: the qualification harnesses and fakes, build, packaging.

Two things the code cannot see are excluded by assumption and listed as hazards: a
status wrapper, or a fastboot reply, that the device still owes from before a
reconnect.  A crash between the creation of an ext4 file and its label leaves an
unlabelled file; the code has no answer to it and no property is stated.  The
session's retirement and the broker's poisoning are modelled on their own side
each: the session sees any request fail with any part of its effect, the broker sees an
engine that makes any requests and may ignore their failure, so each model covers
what the other can do to it.

## Plan

Done: transport, its contract and proofs; byte ranges and the byte store they
implement; filesystem session with ext4 admission and the FAT handle; broker and
worker, the lease; managed lifecycle with the broker's abort; fastboot session and native
probe, with their proofs.

Proved: every safety property of the passing runs, the refinements of the command
contract and of the byte store, and that of the lease but for its fairness.

What is left:

1. the composition of `RangeSession` with `BulkOnlyTransport` itself, as a theorem on the
   conjunction of the two instead of one theorem on each side of the contract;
2. shorter proofs: the broker's are the longest, and their lemmas on posted and received
   messages could be stated once for all queues.
