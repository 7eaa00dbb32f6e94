--------------------------- MODULE ByteStoreProofs ---------------------------
(***************************************************************************)
(* RangeSession implements ByteStore, for media of every geometry, words   *)
(* of every width and ranges of every offset and length: its initial       *)
(* states are the store's, and each of its steps is a step of the store or *)
(* does not show.  The invariant of RangeSessionProofs says nearly all     *)
(* that this takes; what it does not say comes first.                      *)
(***************************************************************************)
EXTENDS RangeSessionProofs

\* What the last session read and was told went with it, and a call begins
\* with no bytes.
NothingLeft ==
    /\ ~ Connected => data = Nothing /\ told = FALSE
    /\ at \in Operating => data = Nothing

\* The capacity is that of the medium that reported it.
CapacityIsTrue ==
    effect = "full" /\ command.op = "capacity" /\ reply.gen = medium.gen
        => reply.value = medium.geo

WritesAreCalls == command.op = "write" => command.for.kind = "write"

Shown == NothingLeft /\ CapacityIsTrue /\ WritesAreCalls

LEMMA InitShown == Init => Shown
<1> SUFFICES ASSUME Init PROVE Shown
  OBVIOUS
<1>1. data = Nothing /\ at = "none" /\ command = NoCommand /\ effect = "none"
  BY DEF Init
<1>2. told = FALSE
  BY Zenon DEF Init
<1> QED
  BY <1>1, <1>2
     DEF Shown, NothingLeft, CapacityIsTrue, WritesAreCalls, NoCommand, Connected, Operating

LEMMA NothingLeftPreserved == Words /\ Places /\ NothingLeft /\ [Next]_vars => NothingLeft'
<1> SUFFICES ASSUME Words, Places, NothingLeft, [Next]_vars PROVE NothingLeft'
  OBVIOUS
<1> USE DEF NothingLeft, Connected, Connecting, Operating
<1>1. CASE Asks
  <2>1. CASE Disconnect
    BY <2>1 DEF Disconnect
  <2>2. CASE ~ Disconnect
    BY <1>1, <2>2 DEF Asks, Connect, CallRefused, ReadRange, WriteRange, SyncOrEject
  <2> QED  BY <2>1, <2>2
<1>2. CASE Send \/ SendDenied \/ UNCHANGED vars
  BY <1>2 DEF Send, SendDenied, Return, host, vars
<1>3. CASE ReadyAnswered \/ SenseAnswered \/ CapacityAnswered
  BY <1>3 DEF ReadyAnswered, SenseAnswered, CapacityAnswered, Return, host
<1>4. CASE ReadAnswered \/ FetchAnswered \/ DoneAnswered
  BY <1>4 DEF ReadAnswered, FetchAnswered, DoneAnswered, Return, host
<1>5. CASE ReadyRefused \/ ConnectRefused \/ OperationRefused
  BY <1>5 DEF ReadyRefused, ConnectRefused, OperationRefused, Return, host
<1>6. CASE InDoubt
  <2>1. UNCHANGED <<data, told>> /\ phase = "busy"
    BY <1>6, DoubtFrame
  <2>2. at' = IF at \in Connecting THEN "none" ELSE "idle"
    BY <1>6, DoubtFrame
  <2> QED  BY <2>1, <2>2 DEF Places
<1>7. CASE Executes \/ Explains \/ Stores \/ MediumChanges
  BY <1>7, DeviceFrame
<1> QED  BY <1>1, <1>2, <1>3, <1>4, <1>5, <1>6, <1>7, NextKinds

LEMMA CapacityPreserved ==
    Words /\ TheMedium /\ CommandIsRight /\ Answers /\ CapacityIsTrue /\ [Next]_vars
        => CapacityIsTrue'
<1> SUFFICES ASSUME Words, TheMedium, CommandIsRight, Answers, CapacityIsTrue, [Next]_vars,
                    effect' = "full", command'.op = "capacity", reply'.gen = medium'.gen
             PROVE  reply'.value = medium'.geo
  BY DEF CapacityIsTrue
<1>1. ~ (Send \/ Disconnect)
  BY DEF Send, Disconnect, Transport!Begin, Transport!Reopen
<1>2. UNCHANGED command
  BY <1>1, CommandFrame
<1>3. CASE Executes
  <2>1. medium'.geo = medium.geo
    BY <1>3, DeviceWrites
  <2> QED  BY <1>2, <1>3, <2>1, NewAnswer
<1>4. CASE MediumChanges
  <2>1. medium'.gen = medium.gen + 1 /\ UNCHANGED <<reply, effect>>
    BY <1>4, MediumReplaced DEF MediumChanges, transport
  <2>2. reply.gen \in 0 .. medium.gen /\ medium.gen \in Nat
    BY Numbers DEF Answers, TheMedium
  <2> QED  BY <2>1, <2>2
<1>5. CASE Quietly
  BY <1>5 DEF Quietly, CapacityIsTrue
<1>6. ~ (Explains \/ Stores)
  BY <1>2 DEF Explains, Stores
<1>7. ~ (effect # "full" /\ UNCHANGED effect)
  OBVIOUS
<1> QED  BY <1>1, <1>3, <1>4, <1>5, <1>6, <1>7, EffectKinds

LEMMA WritesPreservedAsCalls ==
    Words /\ TheGeometry /\ Places /\ CallIsLawful /\ WritesAreCalls /\ [Next]_vars
        => WritesAreCalls'
<1> SUFFICES ASSUME Words, TheGeometry, Places, CallIsLawful, WritesAreCalls, [Next]_vars
             PROVE  WritesAreCalls'
  OBVIOUS
<1>1. CASE Send
  BY <1>1, SentCommand DEF WritesAreCalls, Places
<1>2. CASE Disconnect
  BY <1>2 DEF Disconnect, WritesAreCalls, NoCommand
<1>3. CASE UNCHANGED command
  BY <1>3 DEF WritesAreCalls
<1> QED  BY <1>1, <1>2, <1>3, CommandFrame

LEMMA ShownPreserved == IInv /\ Shown /\ [Next]_vars => Shown'
BY NothingLeftPreserved, CapacityPreserved, WritesPreservedAsCalls
   DEF IInv, Typed, Lawful, TrueToIt, Right, Shown

-----------------------------------------------------------------------------
(***************************************************************************)
(* What the store shows of a state of the session.                         *)
(***************************************************************************)
LEMMA SameWords ==
    /\ Store!NoCall = NoCall /\ Store!Nothing = Nothing
    /\ \A c : Store!Extent(c) = InRange(c)
BY DEF Store!NoCall, Store!Nothing, Store!Extent, NoCall, Nothing, InRange

\* Without a connection there is nothing to see, whatever command is out.
LEMMA ClosedView ==
    ASSUME TheGeometry, NothingLeft, ~ Connected
    PROVE  Store!IsClosed
<1>1. call = NoCall /\ geometry = NoGeometry /\ data = Nothing /\ told = FALSE
  BY DEF TheGeometry, NothingLeft
<1>2. /\ Stage = "closed" /\ Returned = "none"
      /\ Started = NoCall
  BY DEF Stage, Returned, Started
<1>3. Writable = FALSE /\ Spent = FALSE
  BY Zenon DEF Writable, Spent
<1>4. Done = FALSE
  BY <1>2, Zenon DEF Done
<1>5. Found = Nothing
  BY <1>4, Zenon DEF Found
<1>6. Opened = [gen |-> 0, size |-> 0]
  BY <1>1 DEF Opened, NoGeometry
<1> QED
  BY <1>1, <1>2, <1>3, <1>4, <1>5, <1>6, SameWords, Zenon DEF Store!IsClosed, Store!NoDisk

LEMMA ClosedViewNext ==
    ASSUME TheGeometry', NothingLeft', ~ Connected'
    PROVE  Store!IsClosed'
<1>1. call' = NoCall /\ geometry' = NoGeometry /\ data' = Nothing /\ told' = FALSE
  BY DEF TheGeometry, NothingLeft
<1>2. /\ Stage' = "closed" /\ Returned' = "none"
      /\ Started' = NoCall
  BY DEF Stage, Returned, Started
<1>3. Writable' = FALSE /\ Spent' = FALSE
  BY Zenon DEF Writable, Spent
<1>4. Done' = FALSE
  BY <1>2, Zenon DEF Done
<1>5. Found' = Nothing
  BY <1>4, Zenon DEF Found
<1>6. Opened' = [gen |-> 0, size |-> 0]
  BY <1>1 DEF Opened, NoGeometry
<1> QED
  BY <1>1, <1>2, <1>3, <1>4, <1>5, <1>6, SameWords, Zenon DEF Store!IsClosed, Store!NoDisk

\* A transport that is ready carries nothing out.
NotBegun == Started = NoCall /\ Done = FALSE /\ Found = Nothing

LEMMA NotBegunView ==
    ASSUME phase = "ready" \/ command.op # command.for.kind \/ ~ Connected
    PROVE  NotBegun
<1>1. Started = NoCall
  BY DEF Started
<1>2. Done = FALSE
  BY <1>1, Zenon DEF Done
<1> QED  BY <1>1, <1>2, Zenon DEF NotBegun, Found

LEMMA NotBegunNext ==
    ASSUME phase' = "ready" \/ command'.op # command'.for.kind \/ ~ Connected'
    PROVE  NotBegun'
<1>1. Started' = NoCall
  BY DEF Started
<1>2. Done' = FALSE
  BY <1>1, Zenon DEF Done
<1> QED  BY <1>1, <1>2, Zenon DEF NotBegun, Found

\* What is seen of the command depends on these alone.
LEMMA SameEffect ==
    ASSUME UNCHANGED <<phase, effect, command, reply>>, Connected <=> Connected'
    PROVE  UNCHANGED <<Started, Done, Found>>
<1>1. Started' = Started
  BY DEF Started
<1>2. Done' = Done
  BY <1>1, Zenon DEF Done
<1>3. Found' = Found
  BY <1>2 DEF Found, InRange
<1> QED  BY <1>1, <1>2, <1>3

\* The command of an operation that is awaited is its call's, but for the read
\* before a write.
LEMMA AwaitedView ==
    ASSUME Words, Places, phase = "busy", at \in Operating
    PROVE  /\ at = "fetch" => NotBegun
           /\ at # "fetch" => Started = call /\ Done = (effect = "full") /\ call.kind = command.op
           /\ at = "read" /\ effect = "full" =>
                 Found = [a \in InRange(call) |-> reply.value[a]]
           /\ at # "read" => Found = Nothing
<1>1. Connected /\ command.op = Ops[at] /\ command.for = call
  BY DEF Places, Connected
<1>2. CASE at = "fetch"
  <2>1. command.op = "read" /\ call.kind = "write"
    BY <1>1, <1>2 DEF Ops, Places
  <2>2. NotBegun
    BY <1>1, <2>1, NotBegunView
  <2> QED  BY <1>2, <2>2, Zenon DEF NotBegun
<1>3. CASE at # "fetch"
  <2>1. command.op = call.kind /\ call.kind # "none" /\ (command.op = "read" <=> at = "read")
    BY <1>1, <1>3 DEF Ops, Places, Operating
  <2>2. Started = call
    BY <1>1, <2>1 DEF Started
  <2>3. Started # NoCall
    BY <2>1, <2>2 DEF NoCall
  <2>4. Done = (effect = "full")
    BY <2>3, Zenon DEF Done
  <2>5. at = "read" /\ effect = "full" => Found = [a \in InRange(call) |-> reply.value[a]]
    BY <1>1, <2>1, <2>4 DEF Found
  <2>6. at # "read" => Found = Nothing
    BY <2>1 DEF Found
  <2> QED  BY <1>3, <2>1, <2>2, <2>4, <2>5, <2>6
<1> QED  BY <1>2, <1>3

-----------------------------------------------------------------------------
(***************************************************************************)
(* The steps, one kind at a time.                                          *)
(***************************************************************************)
Shows == Store!Next \/ UNCHANGED Store!storeVars

LEMMA DiskView ==
    /\ Disk.gen = medium.gen /\ Disk.bytes = medium.bytes
    /\ Disk'.gen = medium'.gen /\ Disk'.bytes = medium'.bytes
    /\ UNCHANGED medium => UNCHANGED Disk
BY DEF Disk

\* Nothing shows before there is a geometry, except another medium.
LEMMA ClosedStep ==
    ASSUME IInv, Shown, [Next]_vars, TheGeometry', NothingLeft', ~ Connected, ~ Connected'
    PROVE  Shows
<1>1. Store!IsClosed /\ Store!IsClosed'
  BY ClosedView, ClosedViewNext DEF IInv, Typed, Shown
<1>2. UNCHANGED <<Store!session, call, Store!effect, Store!outcome>>
  BY <1>1, Zenon DEF Store!IsClosed, Store!session, Store!effect, Store!outcome
<1>3. CASE MediumChanges
  <2>1. Disk'.gen = Disk.gen + 1
    BY <1>3, MediumReplaced, DiskView DEF IInv, Typed
  <2>2. Store!Replace
    BY <1>2, <2>1, Zenon DEF Store!Replace
  <2> QED  BY <2>2, Zenon DEF Shows, Store!Next
<1>4. CASE ~ MediumChanges
  <2>1. command.op # "write"
    BY DEF IInv, Lawful, Orders
  <2>2. UNCHANGED medium
    <3>1. Executes => UNCHANGED medium
      BY <2>1 DEF Executes
    <3>2. ~ Stores
      BY <2>1 DEF Stores
    <3> QED  BY <1>4, <3>1, <3>2, Generations DEF IInv, Typed, Right
  <2>3. UNCHANGED Disk
    BY <2>2, DiskView
  <2> QED  BY <1>2, <2>3, Zenon DEF Shows, Store!storeVars
<1> QED  BY <1>3, <1>4

\* A supported capacity opens the store, with the size of the medium that
\* reported it.
LEMMA JoinsStep ==
    ASSUME IInv, Shown, Joins
    PROVE  Store!Open
<1>0. /\ Words /\ TheMedium /\ Places /\ Answers /\ TheGeometry /\ NothingLeft
      /\ CapacityIsTrue
  BY DEF IInv, Typed, Lawful, TrueToIt, Shown
<1>1. /\ CapacityAnswered /\ ~ Connected /\ at' = "idle" /\ at = "capacity" /\ Connected'
      /\ UNCHANGED <<call, command, reply, medium, effect>>
  BY DEF Joins, CapacityAnswered, Connected
<1>2. phase = "busy" /\ effect = "full" /\ phase' = "ready" /\ told' = told
  BY <1>1, AnswersFrame
<1>3. result' = "ok" /\ data' = data
  BY <1>1 DEF CapacityAnswered, Return
<1>4. Store!IsClosed
  BY <1>0, <1>1, ClosedView
<1>5. NotBegun'
  BY <1>2, NotBegunNext
<1>6. Stage' = "idle" /\ Returned' = "ok"
  BY <1>1, <1>3 DEF Stage, Returned
<1>7. Writable' \in BOOLEAN /\ Spent' = FALSE
  <2>1. phase' # "retired"
    BY <1>2
  <2> QED  BY <2>1, Zenon DEF Writable, Spent
<1>8. Opened'.gen = reply.gen /\ Opened'.size = reply.value.blocks * reply.value.size
  BY <1>0, <1>1, NewGeometry DEF Opened
<1>9. Opened'.gen \in 0 .. Disk.gen
  BY <1>0, <1>8, DiskView DEF Answers
<1>10. Opened'.gen = Disk.gen => DOMAIN Disk.bytes = 0 .. Opened'.size - 1
  <2> SUFFICES ASSUME Opened'.gen = Disk.gen
               PROVE  DOMAIN Disk.bytes = 0 .. Opened'.size - 1
    OBVIOUS
  <2>1. command.op = "capacity"
    BY <1>0, <1>1, <1>2 DEF Places, Ops
  <2>2. reply.value = medium.geo
    BY <1>0, <1>2, <1>8, <2>1, DiskView DEF CapacityIsTrue
  <2>3. DOMAIN medium.bytes = Bytes(medium.geo)
    BY <1>0 DEF TheMedium
  <2> QED  BY <1>8, <2>2, <2>3, DiskView DEF Bytes
<1>11. UNCHANGED <<Disk, told, Spent, call, Store!effect, data>>
  <2>1. UNCHANGED <<Disk, told, call, data>>
    BY <1>1, <1>2, <1>3, DiskView
  <2>2. UNCHANGED <<Spent, Store!effect>>
    BY <1>4, <1>5, <1>7, SameWords, Zenon DEF Store!IsClosed, Store!effect, NotBegun
  <2> QED  BY <2>1, <2>2
<1>12. Stage = "closed"
  BY <1>4, Zenon DEF Store!IsClosed
<1> QED
  BY <1>6, <1>7, <1>9, <1>10, <1>11, <1>12, Zenon DEF Store!Open

LEMMA DisconnectStep ==
    ASSUME Disconnect, Connected, TheGeometry', NothingLeft'
    PROVE  Store!Close
<1>1. at = "idle" /\ ~ Connected' /\ UNCHANGED medium
  BY DEF Disconnect, Connected, Operating
<1>2. Store!IsClosed'
  BY <1>1, ClosedViewNext
<1>3. Stage = "idle" /\ UNCHANGED Disk
  BY <1>1, DiskView DEF Stage
<1> QED  BY <1>2, <1>3, Zenon DEF Store!Close

LEMMA ConnectedView ==
    ASSUME Connected
    PROVE  /\ Stage = (IF at = "idle" THEN "idle" ELSE "calling")
           /\ Returned = result
           /\ Spent = (phase = "retired")
<1>1. Spent = (phase = "retired")
  BY Zenon DEF Spent
<1> QED  BY <1>1 DEF Stage, Returned

\* A step inside a connection that leaves the geometry and the access alone.
LEMMA ConnectedNext ==
    ASSUME Connected, Connected', UNCHANGED <<geometry, access>>
    PROVE  /\ UNCHANGED <<Opened, Writable>>
           /\ Stage' = (IF at' = "idle" THEN "idle" ELSE "calling")
           /\ Returned' = result'
           /\ Spent' = (phase' = "retired")
<1>1. Spent' = (phase' = "retired")
  BY Zenon DEF Spent
<1>2. UNCHANGED Opened
  BY DEF Opened
<1>3. UNCHANGED Writable
  BY Zenon DEF Writable
<1> QED  BY <1>1, <1>2, <1>3 DEF Stage, Returned

\* A call the session takes up, or turns down.
LEMMA AsksStep ==
    ASSUME IInv, Asks, ~ Disconnect, Connected
    PROVE  Store!Start \/ Store!Reject
<1>0. TheGeometry /\ geometry.size > 0
  BY DEF IInv, Typed, TheGeometry
<1>1. /\ UNCHANGED <<phase, effect, command, reply, told, geometry, access, medium>>
      /\ at = "idle" /\ Connected'
  <2>1. UNCHANGED <<phase, effect, command, reply, told, geometry, medium>>
    BY AsksFrame
  <2>2. UNCHANGED access /\ at = "idle" /\ Connected'
    BY DEF Asks, Connect, CallRefused, ReadRange, WriteRange, SyncOrEject, Connected, Operating
  <2> QED  BY <2>1, <2>2
<1>2. /\ UNCHANGED <<Opened, Writable, Spent>> /\ Stage = "idle"
      /\ Stage' = (IF at' = "idle" THEN "idle" ELSE "calling") /\ Returned' = result'
  BY <1>1, ConnectedView, ConnectedNext
<1>3. UNCHANGED <<Disk, Started, Done, Found>>
  BY <1>1, DiskView, SameEffect
<1>4. ASSUME NEW c, CallRefused(c)  PROVE Store!Reject
  <2>1. at' = "idle" /\ result' = "invalid" /\ call' = NoCall /\ data' = Nothing
    BY <1>1, <1>4 DEF CallRefused
  <2>2. Stage' = "idle" /\ Returned' = "invalid"
    BY <1>2, <2>1
  <2> QED
    BY <1>1, <1>2, <1>3, <2>1, <2>2, SameWords, Zenon
       DEF Store!Reject, Store!session, Store!effect
<1>5. ASSUME at' # "idle", result' = "none", data' = Nothing,
             call'.kind \in {"read", "write", "flush", "eject"},
             call'.kind = "write" => access = "read-write",
             call'.kind \in {"read", "write"} => call' \in CalledSet /\ Admissible(call')
      PROVE  Store!Start
  <2>1. Stage' = "calling" /\ Returned' = "none"
    BY <1>2, <1>5
  <2>2. call'.kind = "write" => Writable
    BY <1>5, Zenon DEF Writable
  <2>3. call'.kind \in {"read", "write"} => InRange(call') \subseteq 0 .. Opened.size - 1
    <3> SUFFICES ASSUME call'.kind \in {"read", "write"}
                 PROVE  InRange(call') \subseteq 0 .. Opened.size - 1
      OBVIOUS
    <3> DEFINE c == call'
    <3>1. c \in CalledSet /\ Admissible(c)
      BY <1>5
    <3> HIDE DEF c
    <3>2. InRange(c) \subseteq Bytes(geometry)
      BY <1>0, <3>1, LawfulSpan
    <3>3. Opened.size = geometry.blocks * geometry.size
      BY DEF Opened
    <3>4. Bytes(geometry) = 0 .. Opened.size - 1
      BY <3>3 DEF Bytes
    <3> QED  BY <3>2, <3>4 DEF c
  <2>4. Store!Extent(call') = InRange(call')
    BY SameWords
  <2> QED
    BY <1>1, <1>2, <1>3, <1>5, <2>1, <2>2, <2>3, <2>4, SameWords, Zenon
       DEF Store!Start, Store!effect
<1>6. ASSUME NEW c \in CalledSet, c.kind = "read", ReadRange(c)  PROVE Store!Start
  BY <1>5, <1>6 DEF ReadRange
<1>7. ASSUME NEW c \in CalledSet, c.kind = "write", WriteRange(c)  PROVE Store!Start
  <2>1. at' # "idle" /\ result' = "none" /\ data' = Nothing /\ call' = c
    BY <1>7 DEF WriteRange
  <2>2. access = "read-write" /\ Admissible(c)
    BY <1>7 DEF WriteRange
  <2> QED  BY <1>5, <1>7, <2>1, <2>2
<1>8. ASSUME NEW kind \in {"flush", "eject"}, SyncOrEject(kind)  PROVE Store!Start
  <2>1. at' = kind /\ result' = "none" /\ data' = Nothing /\ call'.kind = kind
    BY <1>8 DEF SyncOrEject, Called
  <2> QED  BY <1>5, <2>1
<1>9. ~ (\E mode \in {"read-only", "read-write"} : Connect(mode))
  BY <1>1 DEF Connect
<1> QED  BY <1>4, <1>6, <1>7, <1>8, <1>9 DEF Asks

\* The command of the call's own kind is where the store's call starts; the
\* read before a write does not show.
LEMMA SendStep ==
    ASSUME IInv, Send, Connected
    PROVE  Store!Launch \/ UNCHANGED Store!storeVars
<1>0. Words /\ Places /\ TheGeometry /\ CallIsLawful
  BY DEF IInv, Typed, Lawful
<1>1. /\ at \in Operating /\ phase = "ready" /\ phase' = "busy" /\ effect' = "none"
      /\ UNCHANGED <<at, call, access, geometry, data, told, result, medium>>
  BY DEF Send, Transport!Begin, Connected, Connecting, Operating, host
<1>2. Connected' /\ at # "idle"
  BY <1>1 DEF Connected, Operating
<1>3. /\ UNCHANGED <<Opened, Writable, Spent, Returned, Stage>> /\ Stage = "calling"
      /\ Spent = FALSE
  BY <1>1, <1>2, ConnectedView, ConnectedNext
<1>4. UNCHANGED <<Disk, told, call, data>>
  BY <1>1, DiskView
<1>5. NotBegun
  BY <1>1, NotBegunView
<1>6. command'.op = Ops[at] /\ command'.for = call
  BY <1>0, SentCommand
<1>7. CASE at = "fetch"
  <2>1. command'.op # command'.for.kind
    BY <1>0, <1>6, <1>7 DEF Ops, Places
  <2>2. NotBegun'
    BY <2>1, NotBegunNext
  <2>3. UNCHANGED <<Started, Done, Found>>
    BY <1>5, <2>2, Zenon DEF NotBegun
  <2> QED
    BY <1>3, <1>4, <2>3, Zenon
       DEF Store!storeVars, Store!session, Store!effect, Store!outcome
<1>8. CASE at # "fetch"
  <2>1. command'.op = call.kind
    BY <1>0, <1>1, <1>6, <1>8 DEF Ops, Places, Operating
  <2>2. Started' = call
    BY <1>1, <1>2, <1>6, <2>1 DEF Started
  <2>3. Done' = FALSE
    <3>1. effect' # "full"
      BY <1>1
    <3> QED  BY <3>1, Zenon DEF Done
  <2>4. Found' = Nothing
    BY <2>3, Zenon DEF Found
  <2>5. UNCHANGED <<Done, Found>> /\ Started = NoCall
    BY <1>5, <2>3, <2>4, Zenon DEF NotBegun
  <2> QED
    BY <1>3, <1>4, <2>2, <2>5, SameWords, Zenon
       DEF Store!Launch, Store!session, Store!outcome
<1> QED  BY <1>7, <1>8

LEMMA DeniedStep ==
    ASSUME SendDenied
    PROVE  Store!Deny
<1>1. /\ phase = "retired" /\ at \in Operating /\ at' = "idle" /\ result' = "retired"
      /\ UNCHANGED <<phase, effect, command, reply, call, access, geometry, data, told, medium>>
  BY DEF SendDenied, Transport!Denied, Return, device
<1>2. Connected /\ Connected' /\ at # "idle"
  BY <1>1 DEF Connected, Operating
<1>3. /\ UNCHANGED <<Opened, Writable, Spent>> /\ Stage = "calling" /\ Stage' = "idle"
      /\ Returned' = "retired" /\ Spent
  BY <1>1, <1>2, ConnectedView, ConnectedNext
<1>4. UNCHANGED <<Disk, Started, Done, Found>>
  BY <1>1, <1>2, DiskView, SameEffect
<1> QED
  BY <1>1, <1>3, <1>4, Zenon DEF Store!Deny, Store!Returns, Store!effect

LEMMA DoubtStep ==
    ASSUME IInv, InDoubt, Connected
    PROVE  Store!Doubt
<1>0. Places
  BY DEF IInv, Lawful
<1>1. /\ phase = "busy" /\ phase' = "retired" /\ result' = "uncertain"
      /\ UNCHANGED <<effect, command, reply, call, access, geometry, data, told, medium>>
  BY DoubtFrame
<1>2. at \in Operating /\ at' = "idle"
  <2>1. at \in Operating /\ at \notin Connecting
    BY <1>0, <1>1 DEF Places, Connected, Connecting, Operating
  <2> QED  BY <2>1, DoubtFrame
<1>3. Connected' /\ at # "idle"
  BY <1>2 DEF Connected, Operating
<1>4. /\ UNCHANGED <<Opened, Writable>> /\ Stage = "calling" /\ Stage' = "idle"
      /\ Returned' = "uncertain" /\ ~ Spent /\ Spent' = TRUE
  BY <1>1, <1>2, <1>3, ConnectedView, ConnectedNext
<1>5. Started' = Started
  BY <1>1, <1>3 DEF Started
<1>6. Done' = Done
  BY <1>1, <1>5, Zenon DEF Done
<1>7. Found' = Found
  BY <1>1, <1>6 DEF Found, InRange
<1>8. UNCHANGED <<Disk, told, call, data>>
  BY <1>1, DiskView
<1> QED
  BY <1>4, <1>5, <1>6, <1>7, <1>8, Zenon DEF Store!Doubt, Store!Returns, Store!effect

\* A refused read before a write is a write refused before it began.
LEMMA RefusedStep ==
    ASSUME IInv, OperationRefused
    PROVE  Store!Refuse
<1>0. Words /\ Places
  BY DEF IInv, Typed, Lawful
<1>1. /\ phase = "busy" /\ effect # "full" /\ phase' = "ready"
      /\ UNCHANGED <<call, access, geometry, data, command, medium, reply>>
  BY RefusedFrame
<1>2. /\ at \in Operating /\ at' = "idle" /\ result' = "refused"
  BY DEF OperationRefused, Return
<1>3. told' = TRUE
  BY Zenon DEF OperationRefused
<1>4. Connected /\ Connected' /\ at # "idle"
  BY <1>2 DEF Connected, Operating
<1>5. /\ UNCHANGED <<Opened, Writable, Spent>> /\ Stage = "calling" /\ Stage' = "idle"
      /\ Returned' = "refused" /\ ~ Spent
  BY <1>1, <1>2, <1>4, ConnectedView, ConnectedNext
<1>6. ~ Done
  BY <1>1, Zenon DEF Done
<1>7. NotBegun'
  BY <1>1, NotBegunNext
<1>8. UNCHANGED <<Disk, call, data>>
  BY <1>1, DiskView
<1> QED
  BY <1>3, <1>5, <1>6, <1>7, <1>8, SameWords, Zenon
     DEF Store!Refuse, Store!Returns, Store!Forgets, NotBegun

\* What has been read is laid under the range; the store sees nothing of it.
LEMMA FetchedStep ==
    ASSUME IInv, FetchAnswered
    PROVE  UNCHANGED Store!storeVars
<1>0. Words /\ Places
  BY DEF IInv, Typed, Lawful
<1>1. /\ at = "fetch" /\ at' = "store"
      /\ UNCHANGED <<call, access, geometry, result, data, told>>
  BY DEF FetchAnswered
<1>2. phase = "busy" /\ phase' = "ready" /\ UNCHANGED medium
  BY <1>1, AnswersFrame
<1>3. Connected /\ Connected' /\ at \in Operating
  BY <1>1 DEF Connected, Operating
<1>4. UNCHANGED <<Opened, Writable, Spent, Returned, Stage>>
  BY <1>1, <1>2, <1>3, ConnectedView, ConnectedNext
<1>5. NotBegun /\ NotBegun'
  BY <1>0, <1>1, <1>2, <1>3, AwaitedView, NotBegunNext
<1>6. UNCHANGED <<Started, Done, Found>>
  BY <1>5, Zenon DEF NotBegun
<1>7. UNCHANGED <<Disk, told, call, data>>
  BY <1>1, <1>2, DiskView
<1> QED
  BY <1>4, <1>6, <1>7, Zenon DEF Store!storeVars, Store!session, Store!effect, Store!outcome

LEMMA OkStep ==
    ASSUME IInv, NothingLeft, ReadAnswered \/ DoneAnswered
    PROVE  Store!Ok
<1>0. Words /\ Places
  BY DEF IInv, Typed, Lawful
<1>1. /\ at \in {"read", "store", "flush", "eject"} /\ at' = "idle" /\ result' = "ok"
      /\ UNCHANGED geometry
      /\ at = "read" => data' = [a \in InRange(call) |-> reply.value[a]]
      /\ at # "read" => data' = data
  BY DEF ReadAnswered, DoneAnswered, Return
<1>2. /\ phase = "busy" /\ effect = "full" /\ phase' = (IF at = "eject" THEN "retired" ELSE "ready")
      /\ UNCHANGED <<effect, call, access, told, command, medium, reply>>
  BY AnswersFrame
<1>3. Connected /\ Connected' /\ at # "idle" /\ at \in Operating
  BY <1>1 DEF Connected, Operating
<1>4. call.kind = "read" <=> at = "read"
  BY <1>0, <1>1 DEF Places
<1>5. call.kind = "eject" <=> at = "eject"
  BY <1>0, <1>1 DEF Places
<1>6. Started = call /\ Done /\ (at = "read" => Found = [a \in InRange(call) |-> reply.value[a]])
  BY <1>0, <1>1, <1>2, <1>3, AwaitedView
<1>7. data' = IF call.kind = "read" THEN Found ELSE Nothing
  <2>1. data = Nothing
    BY <1>3 DEF NothingLeft
  <2> QED  BY <1>1, <1>4, <1>6, <2>1
<1>8. /\ UNCHANGED <<Opened, Writable>> /\ Stage = "calling" /\ Stage' = "idle"
      /\ Returned' = "ok" /\ ~ Spent /\ Spent' = (phase' = "retired")
  BY <1>1, <1>2, <1>3, ConnectedView, ConnectedNext
<1>9. Spent' = (call.kind = "eject")
  BY <1>2, <1>5, <1>8
<1>10. UNCHANGED <<Disk, told, call>>
  BY <1>2, DiskView
<1>11. IF call.kind = "eject" THEN UNCHANGED <<Started, Done, Found>> ELSE NotBegun'
  <2>1. CASE call.kind = "eject"
    <3>1. Started' = Started
      BY <1>2, <1>3, <1>5, <2>1 DEF Started
    <3>2. Done' = Done
      BY <1>2, <3>1, Zenon DEF Done
    <3>3. Found' = Found
      BY <1>2, <3>2 DEF Found, InRange
    <3> QED  BY <2>1, <3>1, <3>2, <3>3
  <2>2. CASE call.kind # "eject"
    <3>1. NotBegun'
      BY <1>2, <1>5, <2>2, NotBegunNext
    <3> QED  BY <2>2, <3>1
  <2> QED  BY <2>1, <2>2
<1> QED
  BY <1>6, <1>7, <1>8, <1>9, <1>10, <1>11, SameWords, Zenon
     DEF Store!Ok, Store!Returns, Store!Forgets, Store!effect, NotBegun

-----------------------------------------------------------------------------
(***************************************************************************)
(* The device.                                                             *)
(***************************************************************************)
LEMMA DeviceView ==
    ASSUME Connected, Executes \/ Stores \/ MediumChanges
    PROVE  /\ UNCHANGED Store!session /\ UNCHANGED Store!outcome /\ UNCHANGED call
           /\ Started' = Started
<1>1. UNCHANGED <<phase, at, call, access, geometry, data, told, result, command>>
  BY DeviceFrame
<1>2. Connected'
  BY <1>1 DEF Connected
<1>3. UNCHANGED <<Opened, Writable, Spent, Returned, Stage>>
  BY <1>1, <1>2, ConnectedView, ConnectedNext
<1>4. Started' = Started
  BY <1>1, <1>2 DEF Started
<1> QED
  BY <1>1, <1>3, <1>4, Zenon DEF Store!session, Store!outcome

LEMMA ReplacesStep ==
    ASSUME IInv, MediumChanges, Connected
    PROVE  Store!Replace
<1>1. Disk'.gen = Disk.gen + 1
  BY MediumReplaced, DiskView DEF IInv, Typed
<1>2. UNCHANGED Store!session /\ UNCHANGED Store!outcome /\ UNCHANGED call
  BY DeviceView
<1>3. UNCHANGED <<phase, effect, command, reply>> /\ (Connected <=> Connected')
  <2>1. UNCHANGED <<phase, effect, command, reply, at>>
    BY DEF MediumChanges, transport
  <2> QED  BY <2>1 DEF Connected
<1>4. UNCHANGED <<Started, Done, Found>>
  BY <1>3, SameEffect
<1> QED
  BY <1>1, <1>2, <1>4, Zenon DEF Store!Replace, Store!effect

\* The device carries out nothing for a session it still owes a refusal, so
\* what it does, it does to the disk of the session or after a refusal.
LEMMA RightDisk ==
    ASSUME ReplacementIsTold, Connected, Executes \/ Stores
    PROVE  Disk.gen = Opened.gen \/ told
<1>1. ~ attention
  BY Zenon DEF Executes, Stores, Executable
<1>2. geometry.gen = medium.gen \/ told
  BY <1>1, Zenon DEF ReplacementIsTold
<1> QED  BY <1>2, DiskView DEF Opened

\* A command of the call's own kind is seen, and nothing else is.
LEMMA SeenCommand ==
    ASSUME IInv, Shown, Connected, Executes \/ Stores, command.op = command.for.kind
    PROVE  /\ Started = command.for /\ Started # NoCall
           /\ Done = (effect = "full") /\ effect # "full"
           /\ Done' = (effect' = "full")
<1>1. phase # "ready" /\ effect # "full"
  BY DEF Executes, Stores, Transport!Work
<1>2. Started = command.for
  BY <1>1 DEF Started
<1>3. Started # NoCall
  BY <1>2 DEF IInv, Lawful, Orders, NoCall
<1>4. Started' = Started
  BY DeviceView
<1>5. Done = (effect = "full") /\ Done' = (effect' = "full")
  BY <1>3, <1>4, Zenon DEF Done
<1> QED  BY <1>1, <1>2, <1>3, <1>5

\* Where a write of the device may have changed the disk, and to what.
LEMMA WrittenBytes ==
    ASSUME IInv, Executes \/ Stores
    PROVE  /\ Disk'.gen = Disk.gen /\ DOMAIN Disk'.bytes = DOMAIN Disk.bytes
           /\ \A a \in DOMAIN Disk.bytes :
                 \/ Disk'.bytes[a] = Disk.bytes[a]
                 \/ a \in InRange(command.for) /\ Disk'.bytes[a] = command.for.id
           /\ \E f \in [DOMAIN Disk.bytes -> Ids] : Disk' = [gen |-> Disk.gen, bytes |-> f]
<1>0. TheMedium /\ CommandIsRight
  BY DEF IInv, Typed, Right
<1>1. /\ TheMedium' /\ medium'.gen = medium.gen /\ medium'.geo = medium.geo
      /\ \A a \in Bytes(medium.geo) :
            \/ medium'.bytes[a] = medium.bytes[a]
            \/ /\ command.op = "write" /\ a \in DOMAIN command.bytes
               /\ medium'.bytes[a] = command.bytes[a]
  BY <1>0, DeviceWrites
<1>2. medium.bytes \in [Bytes(medium.geo) -> Ids] /\ medium'.bytes \in [Bytes(medium.geo) -> Ids]
  BY <1>0, <1>1 DEF TheMedium
<1>3. ~ attention /\ phase # "ready"
  <2>1. ~ attention
    BY Zenon DEF Executes, Stores, Executable
  <2> QED  BY <2>1 DEF Executes, Stores, Transport!Work
<1>4. ASSUME NEW a \in Bytes(medium.geo), medium'.bytes[a] # medium.bytes[a]
      PROVE  a \in InRange(command.for) /\ medium'.bytes[a] = command.for.id
  <2>1. /\ command.op = "write" /\ a \in DOMAIN command.bytes
        /\ medium'.bytes[a] = command.bytes[a]
    BY <1>1, <1>4
  <2>2. a \in InRange(command.for) \/ command.bytes[a] = medium.bytes[a]
    BY <1>0, <1>3, <2>1 DEF CommandIsRight, Faithful
  <2>3. a \in InRange(command.for) => command.bytes[a] = command.for.id
    BY <1>0, <2>1 DEF CommandIsRight, Image
  <2> QED  BY <1>4, <2>1, <2>2, <2>3
<1>5. \E f \in [DOMAIN Disk.bytes -> Ids] : Disk' = [gen |-> Disk.gen, bytes |-> f]
  BY <1>1, <1>2 DEF Disk
<1> QED  BY <1>1, <1>2, <1>4, <1>5, DiskView

\* The function a write leaves on the disk.
LEMMA OverwrittenIs ==
    ASSUME IInv, Executes \/ Stores, Started = command.for, NEW written,
           \A a \in DOMAIN Disk.bytes :
              Disk'.bytes[a] = IF a \in written THEN command.for.id ELSE Disk.bytes[a]
    PROVE  Disk' = [gen |-> Disk.gen, bytes |-> Store!Overwritten(written)]
<1>1. PICK f \in [DOMAIN Disk.bytes -> Ids] : Disk' = [gen |-> Disk.gen, bytes |-> f]
  BY WrittenBytes
<1>2. \A a \in DOMAIN Disk.bytes : f[a] = IF a \in written THEN Started.id ELSE Disk.bytes[a]
  BY <1>1
<1>3. f = [a \in DOMAIN Disk.bytes |-> IF a \in written THEN Started.id ELSE Disk.bytes[a]]
  BY <1>2
<1> QED  BY <1>1, <1>3 DEF Store!Overwritten

\* A write that is only partly done has written some bytes of its range.
LEMMA StoresStep ==
    ASSUME IInv, Shown, ReplacementIsTold, Stores, Connected
    PROVE  Store!Land
<1>1. command.op = "write" /\ command.op = command.for.kind /\ effect' # "full"
  BY DEF Stores, Shown, WritesAreCalls
<1>2. /\ Started = command.for /\ Started # NoCall /\ ~ Done
      /\ Done = FALSE /\ Done' = FALSE
  BY <1>1, SeenCommand, Zenon
<1>3. Disk.gen = Opened.gen \/ told
  BY RightDisk
<1>4. /\ UNCHANGED Store!session /\ UNCHANGED Store!outcome /\ UNCHANGED call
      /\ Started' = Started
  BY DeviceView
<1>5. Found = Nothing /\ Found' = Nothing
  BY <1>2, Zenon DEF Found
<1> DEFINE written == {a \in InRange(command.for) :
                          a \in DOMAIN Disk.bytes /\ Disk'.bytes[a] = command.for.id}
<1>6. Disk' = [gen |-> Disk.gen, bytes |-> Store!Overwritten(written)]
  <2>1. \A a \in DOMAIN Disk.bytes :
           Disk'.bytes[a] = IF a \in written THEN command.for.id ELSE Disk.bytes[a]
    BY WrittenBytes
  <2> HIDE DEF written
  <2> QED  BY <1>2, <2>1, OverwrittenIs
<1>7. written \in SUBSET Store!Extent(Started)
  BY <1>2, SameWords
<1>8. Started.kind = "write"
  BY <1>1, <1>2
<1> HIDE DEF written
<1> QED
  BY <1>2, <1>3, <1>4, <1>5, <1>6, <1>7, <1>8, SameWords, Zenon
     DEF Store!Land, Store!UnderWay, Store!effect

\* The read before a write and the connection's last command do not show.
LEMMA UnseenStep ==
    ASSUME IInv, Shown, Executes, Connected, command.op # command.for.kind
    PROVE  UNCHANGED Store!storeVars
<1>1. UNCHANGED command
  BY DeviceFrame
<1>2. NotBegun /\ NotBegun'
  BY <1>1, NotBegunView, NotBegunNext
<1>3. UNCHANGED <<Started, Done, Found>>
  BY <1>2, Zenon DEF NotBegun
<1>4. UNCHANGED medium
  BY DEF Executes, Shown, WritesAreCalls
<1>5. UNCHANGED Disk
  BY <1>4, DiskView
<1>6. UNCHANGED Store!session /\ UNCHANGED Store!outcome /\ UNCHANGED call
  BY DeviceView
<1> QED  BY <1>3, <1>5, <1>6, Zenon DEF Store!storeVars, Store!effect

LEMMA PerformsStep ==
    ASSUME IInv, Shown, ReplacementIsTold, Executes, Connected, command.op = command.for.kind
    PROVE  Store!Perform
<1>0. /\ TheMedium /\ TheGeometry /\ geometry.size > 0 /\ CommandIsRight /\ CommandIsLawful
      /\ command.for \in CalledSet
  BY DEF IInv, Typed, Lawful, Right, TheGeometry, Orders
<1>1. effect # "full" /\ effect' = "full" /\ UNCHANGED command
  BY <1>0, NewAnswer
<1>2. Started = command.for /\ Started # NoCall /\ ~ Done /\ Done' = TRUE
  BY <1>1, SeenCommand, Zenon
<1>3. Disk.gen = Opened.gen \/ told
  BY RightDisk
<1>4. /\ UNCHANGED Store!session /\ UNCHANGED Store!outcome /\ UNCHANGED call
      /\ Started' = Started
  BY DeviceView
<1>5. DOMAIN Disk.bytes = Bytes(medium.geo)
  BY <1>0, DiskView DEF TheMedium
<1>6. ASSUME command.op \in {"read", "write"}
      PROVE  /\ InRange(command.for) \subseteq DOMAIN command.bytes
             /\ DOMAIN command.bytes \subseteq DOMAIN Disk.bytes
  <2>1. DOMAIN command.bytes \subseteq Bytes(medium.geo)
    BY <1>0, <1>6, NewAnswer
  <2>2. DOMAIN command.bytes = Span(command.for) /\ Admissible(command.for)
    BY <1>0, <1>6 DEF CommandIsLawful, BlockOps
  <2>3. InRange(command.for) \subseteq Span(command.for)
    BY <1>0, <2>2, LawfulSpan
  <2> QED  BY <1>5, <2>1, <2>2, <2>3
<1>7. Started.kind \in {"read", "write"} => InRange(Started) \subseteq DOMAIN Disk.bytes
  BY <1>2, <1>6
<1>8. Disk' = IF Started.kind = "write"
              THEN [gen |-> Disk.gen, bytes |-> Store!Overwritten(InRange(Started))] ELSE Disk
  <2>1. CASE command.op = "write"
    <3>1. \A a \in InRange(command.for) : Disk'.bytes[a] = command.for.id
      <4>1. \A a \in DOMAIN command.bytes : medium'.bytes[a] = command.bytes[a]
        BY <1>0, <2>1, NewAnswer
      <4>2. \A a \in InRange(command.for) : command.bytes[a] = command.for.id
        BY <1>0, <1>6, <2>1 DEF CommandIsRight, Image
      <4> QED  BY <1>6, <2>1, <4>1, <4>2, DiskView
    <3>2. \A a \in DOMAIN Disk.bytes :
             Disk'.bytes[a] = IF a \in InRange(command.for) THEN command.for.id
                              ELSE Disk.bytes[a]
      BY <3>1, WrittenBytes
    <3> QED  BY <1>2, <2>1, <3>2, OverwrittenIs
  <2>2. CASE command.op # "write"
    <3>1. UNCHANGED medium
      BY <2>2 DEF Executes
    <3> QED  BY <1>2, <2>2, <3>1, DiskView
  <2> QED  BY <2>1, <2>2
<1>9. Found' = IF Started.kind = "read" THEN [a \in InRange(Started) |-> Disk.bytes[a]]
               ELSE Nothing
  <2>1. CASE command.op = "read"
    <3>1. \A a \in DOMAIN command.bytes : reply'.value[a] = medium'.bytes[a]
      BY <1>0, <2>1, NewAnswer
    <3>2. UNCHANGED medium
      BY <2>1 DEF Executes
    <3>3. Found' = [a \in InRange(command.for) |-> reply'.value[a]]
      BY <1>1, <1>2, <2>1 DEF Found, InRange
    <3>4. \A a \in InRange(command.for) : reply'.value[a] = Disk.bytes[a]
      BY <1>6, <2>1, <3>1, <3>2, DiskView
    <3> QED  BY <1>2, <2>1, <3>3, <3>4
  <2>2. CASE command.op # "read"
    BY <1>1, <1>2, <2>2 DEF Found
  <2> QED  BY <2>1, <2>2
<1>10. Store!Extent(Started) = InRange(Started)
  BY SameWords
<1> QED
  BY <1>2, <1>3, <1>4, <1>7, <1>8, <1>9, <1>10, SameWords, Zenon DEF Store!Perform, Store!UnderWay

-----------------------------------------------------------------------------
LEMMA ConnectedStep ==
    ASSUME IInv, Shown, ReplacementIsTold, [Next]_vars, Connected, Connected'
    PROVE  Shows
<1>0. Words /\ Places /\ NothingLeft /\ Orders
  BY DEF IInv, Typed, Lawful, Shown
<1>1. CASE Asks
  <2>1. ~ Disconnect
    BY DEF Disconnect, Connected, Operating
  <2> QED  BY <1>1, <2>1, AsksStep, Zenon DEF Shows, Store!Next
<1>2. CASE Send
  BY <1>2, SendStep, Zenon DEF Shows, Store!Next
<1>3. CASE SendDenied
  BY <1>3, DeniedStep, Zenon DEF Shows, Store!Next
<1>4. CASE ReadAnswered \/ DoneAnswered
  BY <1>0, <1>4, OkStep, Zenon DEF Shows, Store!Next
<1>5. CASE FetchAnswered
  BY <1>5, FetchedStep, Zenon DEF Shows
<1>6. CASE OperationRefused
  BY <1>6, RefusedStep, Zenon DEF Shows, Store!Next
<1>7. CASE InDoubt
  BY <1>7, DoubtStep, Zenon DEF Shows, Store!Next
<1>8. CASE Executes
  <2>1. CASE command.op = command.for.kind
    BY <1>8, <2>1, PerformsStep, Zenon DEF Shows, Store!Next
  <2>2. CASE command.op # command.for.kind
    BY <1>8, <2>2, UnseenStep, Zenon DEF Shows
  <2> QED  BY <2>1, <2>2
<1>9. CASE Stores
  BY <1>9, StoresStep, Zenon DEF Shows, Store!Next
<1>10. CASE MediumChanges
  BY <1>10, ReplacesStep, Zenon DEF Shows, Store!Next
<1>11. ~ Explains
  BY <1>0 DEF Explains, Orders
<1>12. CASE UNCHANGED vars
  <2>1. /\ UNCHANGED <<phase, effect, command, reply, at, call, access, geometry, data, told>>
        /\ UNCHANGED <<result, medium>>
    BY <1>12 DEF vars, transport, host, device
  <2>2. UNCHANGED <<Opened, Writable, Spent, Returned, Stage>>
    BY <2>1, ConnectedView, ConnectedNext
  <2>3. UNCHANGED <<Disk, Started, Done, Found>>
    BY <2>1, DiskView, SameEffect
  <2> QED
    BY <2>1, <2>2, <2>3, Zenon
       DEF Shows, Store!storeVars, Store!session, Store!effect, Store!outcome
<1>13. ~ (ReadyAnswered \/ SenseAnswered \/ CapacityAnswered \/ ReadyRefused \/ ConnectRefused)
  BY DEF ReadyAnswered, SenseAnswered, CapacityAnswered, ReadyRefused, ConnectRefused, Connected,
         Connecting, Operating
<1> QED
  BY <1>0, <1>1, <1>2, <1>3, <1>4, <1>5, <1>6, <1>7, <1>8, <1>9, <1>10, <1>11, <1>12, <1>13,
     NextKinds

LEMMA StepShows ==
    ASSUME IInv, Shown, ReplacementIsTold, [Next]_vars, IInv', Shown'
    PROVE  [Store!Next]_Store!storeVars
<1>0. Words /\ Places /\ TheGeometry' /\ NothingLeft'
  BY DEF IInv, Typed, Lawful, Shown
<1>1. CASE Joins
  BY <1>1, JoinsStep, Zenon DEF Store!Next
<1>2. CASE Disconnect
  <2>1. ~ Connected'
    BY <1>2 DEF Disconnect, Connected, Operating
  <2>2. CASE Connected
    BY <1>0, <1>2, <2>2, DisconnectStep, Zenon DEF Store!Next
  <2>3. CASE ~ Connected
    BY <1>0, <2>1, <2>3, ClosedStep, Zenon DEF Shows
  <2> QED  BY <2>2, <2>3
<1>3. CASE Stays
  <2>1. CASE Connected
    <3>1. Connected'
      BY <1>3, <2>1 DEF Stays
    <3> QED  BY <2>1, <3>1, ConnectedStep, Zenon DEF Shows
  <2>2. CASE ~ Connected
    <3>1. ~ Connected'
      BY <1>3, <2>2 DEF Stays
    <3> QED  BY <1>0, <2>2, <3>1, ClosedStep, Zenon DEF Shows
  <2> QED  BY <2>1, <2>2
<1> QED  BY <1>0, <1>1, <1>2, <1>3, Connection

\* A range session is a store of bytes to its caller: each of its steps is one
\* of the store's or does not show (range.rs:70-119, lib.rs:386-407).
THEOREM SessionServesBytes == Spec => ServesBytes
<1>1. Init => Store!Init
  <2> SUFFICES ASSUME Init PROVE Store!Init
    OBVIOUS
  <2>1. IInv /\ Shown /\ ~ Connected
    BY InitIInv, InitShown DEF Init, Connected, Operating
  <2>2. Store!IsClosed
    BY <2>1, ClosedView DEF IInv, Typed, Shown
  <2>3. Disk.gen = 1
    <3>1. PICK g \in Media : medium = Fresh(g, 1)
      BY DEF Init
    <3> QED  BY <3>1, DiskView DEF Fresh
  <2> QED  BY <2>2, <2>3, Zenon DEF Store!Init
<1>2. Spec => []Shown
  BY InitShown, ShownPreserved, InvariantHolds, PTL DEF Spec
<1>3. IInv /\ Shown /\ ReplacementIsTold /\ [Next]_vars /\ IInv' /\ Shown'
         => [Store!Next]_Store!storeVars
  BY StepShows
<1> QED
  BY <1>1, <1>2, <1>3, InvariantHolds, ReplacementsAreTold, PTL DEF Spec, ServesBytes, Store!Spec

=============================================================================
