------------------------- MODULE FilesystemSession -------------------------
(***************************************************************************)
(* The filesystem session (canoe-fs/src/lib.rs): Session over its Guarded  *)
(* device, with the admission of ext4 (nusb-ext4/src/lib.rs).              *)
(*                                                                         *)
(* The engines (fs-ext4, fatfs) are external.  Inside a call the engine    *)
(* reads, writes and flushes the guarded device as often as it likes; what *)
(* is assumed of it is what EngineOk, EngineErr and the guards of its I/O  *)
(* say.  Its destructor does I/O too.  `at` names the engine call, or the  *)
(* direct device call, that is in progress.                                *)
(***************************************************************************)

VARIABLES
    setup,     \* how the session is opened, and on what
    at,        \* "none", "idle" between calls, "closed" when there is no Session
    call,      \* the method in progress or the last one
    result,    \* what the last call returned
    mounted,   \* Session::mounted is Some
    retired,   \* Guarded::retired
    raised,    \* the guarded device returned an error during this call
    lost,      \* an operation of the underlying device has failed
    flaws,     \* what this session has left unfinished on the medium
    dirty,     \* bookkeeping of the engine not yet written (FSInfo, journal)
    cached,    \* writes the device has not flushed
    written    \* the values of `at` during which the medium was written

medium  == <<flaws, dirty, cached, written>>
guarded == <<retired, raised, lost>>
control == <<setup, at, call, result, mounted>>
vars    == <<control, guarded, medium>>

Views     == {"inspect", "stat", "list", "read"}
Creating  == {"create_file", "mkdir"}
Mutations == Creating \cup {"write", "truncate", "remove", "rename"}
Flushes   == {"flush", "fresh_read"}
Methods   == Views \cup Mutations \cup Flushes \cup {"finish"}
Opening   == {"none", "inspecting", "mounting"}
Serving   == {"viewing", "checking", "mutating", "handle", "labelling", "flushing",
              "deviceFlush"}
Leaving   == {"unmounting", "lastFlush", "dropping"}

Setups == [kind : {"fat", "ext4", "other"}, writable : BOOLEAN,
           deviceWritable : BOOLEAN,   \* is_writable of the underlying device
           blocked : BOOLEAN,          \* the inspection finds a write_blocker
           labels : BOOLEAN]           \* parent directories carry a label

Fat      == setup.kind = "fat"
Ext4     == setup.kind = "ext4"
Writable == setup.writable

Init ==
    /\ setup \in Setups
    /\ at = "none" /\ call = "none" /\ result = "none"
    /\ mounted = FALSE
    /\ retired = FALSE /\ raised = FALSE /\ lost = FALSE
    /\ flaws = {} /\ dirty = FALSE /\ cached = FALSE /\ written = {}

-----------------------------------------------------------------------------
(***************************************************************************)
(* The guarded device.  A retired one answers without asking the device    *)
(* below (check), and a failure below retires it (complete); a write that  *)
(* fails may have had its effect, or the part of it that the worker had    *)
(* sent in earlier mailbox requests.                                       *)
(***************************************************************************)
Complete(done) ==
    \/ done /\ UNCHANGED guarded
    \/ (done \/ UNCHANGED medium) /\ retired' = TRUE /\ raised' = TRUE /\ lost' = TRUE

Refuse == raised' = TRUE /\ UNCHANGED <<retired, lost, medium>>

GuardedRead == \/ retired /\ Refuse
               \/ ~retired /\ Complete(UNCHANGED medium)

GuardedWrite(done) ==
    \/ (retired \/ ~Writable) /\ Refuse
    \/ ~retired /\ Writable /\ Complete(done)

GuardedFlush == \/ retired /\ Refuse
                \/ ~retired /\ Complete(cached' = FALSE /\ UNCHANGED <<flaws, dirty, written>>)

-----------------------------------------------------------------------------
(***************************************************************************)
(* The engine.  The ext4 engine asks is_writable and never writes when it  *)
(* is false; the inspection hands it a ReadOnly device.  The FAT engine    *)
(* does not ask: Io always offers Write.                                   *)
(***************************************************************************)
InsideEngine == at \in {"inspecting", "mounting", "viewing", "checking", "mutating",
                        "handle", "labelling", "flushing", "unmounting", "dropping"}

BelievesWritable == IF Ext4 THEN Writable /\ at # "inspecting" ELSE Fat

Progress ==
    /\ cached' = TRUE /\ written' = written \cup {at}
    /\ CASE at = "mutating"  -> /\ flaws' \in {flaws \cup {"torn"}, flaws \ {"torn"}}
                                /\ dirty' = TRUE
         [] at = "labelling" -> flaws' \in {flaws \cup {"torn"}, {}} /\ dirty' = TRUE
         [] at = "handle"    -> flaws' \in {flaws, flaws \ {"torn"}} /\ UNCHANGED dirty
         [] at \in {"inspecting", "mounting"} -> dirty' \in BOOLEAN /\ UNCHANGED flaws
         [] OTHER            -> dirty' = FALSE /\ UNCHANGED flaws

\* A mount of ext4 may replay; a flush or a destructor writes what is dirty.
EngineWrites ==
    /\ BelievesWritable
    /\ \/ at \in {"mutating", "handle", "labelling"}
       \/ at \in {"inspecting", "mounting"} /\ Ext4
       \/ at \in {"flushing", "unmounting", "dropping"} /\ dirty
    /\ GuardedWrite(Progress)
    /\ UNCHANGED control

EngineReads == InsideEngine /\ GuardedRead /\ UNCHANGED control

\* Any FAT file or directory that is let go of flushes the device.
EngineFlushes ==
    /\ InsideEngine /\ BelievesWritable
    /\ Fat \/ at \notin {"viewing", "checking"}
    /\ GuardedFlush
    /\ UNCHANGED control

\* Counting the free space of FAT32 changes FSInfo in memory.
EngineCounts ==
    /\ at = "viewing" /\ call = "inspect" /\ Fat
    /\ dirty' = TRUE
    /\ UNCHANGED <<control, guarded, flaws, cached, written>>

\* When an engine call may return ok: it did its work, or it swallowed the
\* failure of a device operation.  Only flush promises to flush the device, and
\* truncate of FAT leaves the entry of the file to its handle.
EngineOk ==
    \/ lost
    \/ CASE at = "mutating"   -> "torn" \notin flaws \/ (Fat /\ call = "truncate")
         [] at = "handle"     -> "torn" \notin flaws
         [] at = "labelling"  -> flaws = {}
         [] at = "flushing"   -> ~dirty /\ ~cached
         [] at = "unmounting" -> ~dirty
         [] OTHER             -> TRUE

\* It may fail for reasons of its own (corruption, no space, not found); with
\* nothing to write, a flush fails only when the device does.
EngineErr == at = "flushing" => Writable \/ raised

Engine(r) == IF r = "ok" THEN EngineOk ELSE EngineErr

-----------------------------------------------------------------------------
(***************************************************************************)
(* Opening.                                                                *)
(***************************************************************************)
OpenEnds(r) == at' = (IF r = "ok" THEN "idle" ELSE "closed") /\ result' = r /\ mounted' = (r = "ok")

OpenRefused ==
    /\ at = "none"
    /\ setup.kind = "other" \/ (Writable /\ ~setup.deviceWritable)
    /\ call' = "open" /\ OpenEnds("err")
    /\ UNCHANGED <<setup, guarded, medium>>

OpenUninspected ==   \* slip: mounts without inspecting first
    /\ at = "none" /\ setup.kind # "other" /\ (Writable => setup.deviceWritable)
    /\ call' = "open" /\ at' = "mounting"
    /\ UNCHANGED <<setup, result, mounted, guarded, medium>>

Open ==
    /\ at = "none" /\ setup.kind # "other" /\ (Writable => setup.deviceWritable)
    /\ call' = "open"
    /\ at' = IF Ext4 /\ Writable THEN "inspecting" ELSE "mounting"
    /\ UNCHANGED <<setup, result, mounted, guarded, medium>>

\* inspect returns: an error or a write_blocker ends the open, no mount.
Inspected(r) ==
    /\ at = "inspecting" /\ Engine(r)
    /\ IF r = "ok" /\ ~setup.blocked THEN at' = "mounting" /\ UNCHANGED <<result, mounted>>
       ELSE OpenEnds("err")
    /\ UNCHANGED <<setup, call, guarded, medium>>

MountReturns(r) ==
    /\ at = "mounting" /\ Engine(r)
    /\ OpenEnds(r)
    /\ UNCHANGED <<setup, call, guarded, medium>>

-----------------------------------------------------------------------------
(***************************************************************************)
(* The methods.                                                            *)
(***************************************************************************)
Usable == mounted /\ ~retired

Returns(r) == at' = "idle" /\ result' = r /\ UNCHANGED <<setup, call>>

SettlesUnretired(r) == Returns(r) /\ UNCHANGED guarded   \* slip: the session lives on

\* mutation(): an error retires the session.
Settles(r) == retired' = (retired \/ r = "err") /\ Returns(r) /\ UNCHANGED <<raised, lost>>

StartsMounted(m, where) ==   \* slip: a retired session that is mounted takes the call
    /\ at = "idle" /\ mounted
    /\ call' = m /\ at' = where /\ raised' = FALSE
    /\ UNCHANGED <<setup, result, retired, lost>>

Starts(m, where) ==
    /\ at = "idle" /\ Usable
    /\ call' = m /\ at' = where /\ raised' = FALSE
    /\ UNCHANGED <<setup, result, retired, lost>>

\* Refused before any I/O: not usable, read-only, or a bad argument.
RefuseCall(m) ==
    /\ at = "idle"
    /\ \/ ~Usable
       \/ (m \in Mutations /\ ~Writable)
       \/ m \in Mutations \cup (Views \ {"inspect"})
    /\ call' = m /\ result' = "err" /\ raised' = FALSE
    /\ UNCHANGED <<setup, at, mounted, retired, lost, medium>>

View(m) == m \in Views /\ Starts(m, "viewing") /\ UNCHANGED <<mounted, medium>>

ViewReturns(r) ==
    /\ at = "viewing" /\ Engine(r)
    /\ Returns(r)
    /\ UNCHANGED <<mounted, guarded, medium>>

\* Every mutation looks first (stat): what it names exists or must not.
Mutate(m) == m \in Mutations /\ Writable /\ Starts(m, "checking") /\ UNCHANGED <<mounted, medium>>

CheckRefuses ==
    /\ at = "checking"
    /\ \/ Returns("err")
       \/ call = "truncate" /\ Returns("ok")      \* already that long
    /\ UNCHANGED <<mounted, guarded, medium>>

CheckPasses ==
    /\ at = "checking" /\ Engine("ok") /\ ~retired
    /\ at' = "mutating"
    /\ UNCHANGED <<setup, call, result, mounted, guarded, medium>>

\* A new inode of ext4 is labelled by a second operation of the engine.
Created ==
    /\ at = "mutating" /\ Ext4 /\ call \in Creating /\ Engine("ok")
    /\ at' = "labelling"
    /\ flaws' = IF setup.labels THEN flaws \cup {"unlabelled"} ELSE flaws
    /\ UNCHANGED <<setup, call, result, mounted, guarded, dirty, cached, written>>

MutationReturns(r) ==
    /\ at = "mutating" /\ Ext4 /\ Engine(r)
    /\ r = "ok" => call \notin Creating
    /\ Settles(r)
    /\ UNCHANGED <<mounted, medium>>

\* FAT: the file's handle goes out of scope, and may write the file's entry,
\* before mutation() hears of the outcome.
HandleGoes(r) ==
    /\ at = "mutating" /\ Fat /\ Engine(r)
    /\ at' = "handle" /\ result' = r
    /\ UNCHANGED <<setup, call, mounted, guarded, medium>>

\* Its destructor swallows a failure: the device alone remembers it.
HandleGone ==
    /\ at = "handle"
    /\ result = "ok" => EngineOk
    /\ Settles(result)
    /\ UNCHANGED <<mounted, medium>>

LabelReturns(r) ==
    /\ at = "labelling" /\ Engine(r)
    /\ Settles(r)
    /\ UNCHANGED <<mounted, medium>>

FlushWith(m, readOnlyFat) ==
    /\ m \in Flushes
    /\ Starts(m, IF readOnlyFat THEN "deviceFlush" ELSE "flushing")
    /\ UNCHANGED <<mounted, medium>>

FlushByEngine(m)   == FlushWith(m, FALSE)    \* slip: FAT like ext4
FlushFatDevice(m)  == FlushWith(m, Fat)      \* slip: FAT always directly

\* A read-only FAT must not publish FSInfo: only the device is flushed.
Flush(m) == FlushWith(m, Fat /\ ~Writable)

FlushReturns(r) ==
    /\ at = "flushing" /\ Engine(r)
    /\ Settles(r)
    /\ UNCHANGED <<mounted, medium>>

\* The session's own device.flush(): ok exactly when no error was raised.
DirectFlush(r) == GuardedFlush /\ r = IF raised' THEN "err" ELSE "ok"

DeviceFlushReturns(r) ==
    /\ at = "deviceFlush" /\ DirectFlush(r)
    /\ Returns(r)
    /\ UNCHANGED mounted

-----------------------------------------------------------------------------
(***************************************************************************)
(* The ways out.                                                           *)
(***************************************************************************)
\* Slip: the engine is not taken.
FinishKeepsEngine == Writable /\ Starts("finish", "unmounting") /\ UNCHANGED <<mounted, medium>>

\* finish of a writable session: the engine is consumed, then the device is
\* flushed; of a read-only one: abort, and ok whatever comes.
FinishWritable == Writable /\ Starts("finish", "unmounting") /\ mounted' = FALSE /\ UNCHANGED medium

UnmountedIsFinished(r) ==   \* slip: no device.flush at the end
    /\ at = "unmounting" /\ Engine(r) /\ Settles(r) /\ UNCHANGED <<mounted, medium>>

Unmounted(r) ==
    /\ at = "unmounting" /\ Engine(r)
    /\ IF r = "ok" THEN at' = "lastFlush" /\ UNCHANGED <<setup, call, result, guarded>>
       ELSE Settles("err")
    /\ UNCHANGED <<mounted, medium>>

FinishReturns(r) ==
    /\ at = "lastFlush" /\ DirectFlush(r)
    /\ Returns(r)
    /\ UNCHANGED mounted

\* abort: retire, then drop the engine, whose destructor may do I/O.
AbortAs(m, retires) ==
    /\ at = "idle"
    /\ call' = m /\ mounted' = FALSE /\ raised' = FALSE
    /\ retired' = (retired \/ retires)
    /\ at' = CASE mounted -> "dropping" [] m = "drop" -> "closed" [] OTHER -> "idle"
    /\ result' = "ok"
    /\ UNCHANGED <<setup, lost, medium>>

AbortDropsFirst(m) == AbortAs(m, FALSE)   \* slip: the engine is dropped unretired

Abort(m) == AbortAs(m, TRUE)

FinishReadOnly == Usable /\ ~Writable /\ Abort("finish")

Dropped ==
    /\ at = "dropping"
    /\ at' = IF call = "drop" THEN "closed" ELSE "idle"
    /\ UNCHANGED <<setup, call, result, mounted, guarded, medium>>

EngineSteps == EngineReads \/ EngineWrites \/ EngineFlushes \/ EngineCounts

Begins ==
    \/ OpenRefused \/ Open
    \/ \E m \in Methods : RefuseCall(m) \/ View(m) \/ Mutate(m) \/ Flush(m)
    \/ FinishWritable \/ FinishReadOnly \/ Abort("abort") \/ Abort("drop")

Ends ==
    \/ CheckRefuses \/ CheckPasses \/ Created \/ HandleGone \/ Dropped
    \/ \E r \in {"ok", "err"} :
          \/ Inspected(r) \/ MountReturns(r) \/ ViewReturns(r)
          \/ MutationReturns(r) \/ HandleGoes(r) \/ LabelReturns(r)
          \/ FlushReturns(r) \/ DeviceFlushReturns(r)
          \/ Unmounted(r) \/ FinishReturns(r)

Next == EngineSteps \/ Begins \/ Ends

Spec == Init /\ [][Next]_vars

-----------------------------------------------------------------------------
(***************************************************************************)
(* Types, and when there is an engine: during opening and once finish has  *)
(* taken it, there is none to call; while a method runs there is.          *)
(***************************************************************************)
TypeOK ==
    /\ setup \in Setups
    /\ at \in Opening \cup Serving \cup Leaving \cup {"idle", "closed"}
    /\ call \in Methods \cup {"none", "open", "abort", "drop"}
    /\ result \in {"none", "ok", "err"}
    /\ mounted \in BOOLEAN /\ retired \in BOOLEAN /\ raised \in BOOLEAN /\ lost \in BOOLEAN
    /\ flaws \subseteq {"torn", "unlabelled"}
    /\ dirty \in BOOLEAN /\ cached \in BOOLEAN
    /\ written \subseteq Opening \cup Serving \cup Leaving
    /\ at \in Serving => mounted
    /\ at \in Opening \cup Leaving \cup {"closed"} => ~mounted

(***************************************************************************)
(* The medium is written by a writable session only, by an ext4 mount only *)
(* after an inspection that found nothing against it, and never by an      *)
(* engine that is being dropped (canoe-fs/README.md: a failed session does *)
(* "preventing destructor-time retries or more device I/O").               *)
(***************************************************************************)
WrittenOnlyWhenAsked ==
    written # {} => /\ Writable
                    /\ ~(Ext4 /\ setup.blocked)
                    /\ written \cap {"inspecting", "dropping"} = {}

(***************************************************************************)
(* A session that takes another call has lost no device operation, has no  *)
(* mutation half done on the medium and has left no new file without the   *)
(* label of its directory (mutation, complete and create_file).            *)
(***************************************************************************)
UsableMeansWhole == at = "idle" /\ Usable => ~lost /\ flaws = {}

(***************************************************************************)
(* What ok means of a writable session.                                    *)
(* - flush, fresh_read: the data and its bookkeeping are on the medium,    *)
(*   except that the engine may have kept a lost device operation to       *)
(*   itself: mutation() returns the engine's ok and does not look at       *)
(*   `retired`.  Then the session is over.                                 *)
(* - finish: they are on the medium and no operation was ever lost, not    *)
(*   even one the engine kept to itself: the device.flush() that ends      *)
(*   finish does not get past a retired device.                            *)
(* - any method: what was lost was lost during this very call, so a false  *)
(*   ok is the last one.                                                   *)
(***************************************************************************)
OkMeansPublished ==
    at = "idle" /\ Writable /\ result = "ok" =>
        /\ call \in Flushes => (~dirty /\ ~cached) \/ (lost /\ retired)
        /\ call = "finish" => ~dirty /\ ~cached /\ ~lost /\ flaws = {}
        /\ call \in Methods /\ lost => raised

(***************************************************************************)
(* A read-only session stays usable until a device operation fails or its  *)
(* owner ends it: looking at a filesystem, and flushing afterwards, never  *)
(* costs the session (the FSInfo case of flush and fresh_read).            *)
(***************************************************************************)
ReadOnlyRetiresForCause == at = "idle" /\ ~Writable /\ mounted /\ retired => lost
=============================================================================
