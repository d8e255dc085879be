-------------------------- MODULE ActivityFeed_proofs --------------------------
(***************************************************************************)
(* Proofs about ActivityFeed, for any positions, windows and time-outs that *)
(* TimesAssumption admits, and for queues of any length (MaxPending only    *)
(* bounds what TLC explores; nothing is assumed of it).                     *)
(*                                                                          *)
(* RecordsKeepUp is the invariant behind RecentMotionIsOwn: a record is     *)
(* never older than the event it explains by more than the time a command   *)
(* may take, until the event is too old to be asked about.  It says so of   *)
(* ages that stop counting, which is why Settled must be as large as it is. *)
(***************************************************************************)
EXTENDS ActivityFeed, SequenceTheorems, WellFoundedInduction, TLAPS

-----------------------------------------------------------------------------
(* The inductive invariant *)

\* The command that an event reports has a record that is young enough.
Explained(event, records) ==
    event.pos # NoPosition =>
        /\ Command(event.type, event.pos) \in Commands
        /\ \/ records[Command(event.type, event.pos)] <= event.age + CommandTime
           \/ event.age + CommandTime > Window

\* ... and so does a command to the mount that is still on its way.
RecordsKeepUp ==
    /\ \A i \in 1..Len(mountFeed) : Explained(mountFeed[i], authored)
    /\ busy.command \in Mountings => authored[busy.command] <= CommandTime

IInv == TypeOK /\ RecordsKeepUp

-----------------------------------------------------------------------------
(* Ages, commands and queues *)

\* An event that has stopped ageing is too old for any record to matter.
LEMMA AgesSuffice ==
    /\ Window \in Nat /\ Settle \in Nat /\ CommandTime \in Nat
    /\ Settled \in Nat /\ Expired \in Nat /\ Expired = Window + 1
    /\ Settled + CommandTime > Window
BY TimesAssumption DEF Settled, Expired

LEMMA OlderStays ==
    ASSUME NEW last \in Nat, NEW age \in 0..last
    PROVE  /\ Older(age, last) \in 0..last
           /\ Older(age, last) = IF age = last THEN age ELSE age + 1
BY DEF Older

\* The parts of a command, and which commands go to the mount.
LEMMA CommandParts ==
    ASSUME NEW c \in Commands
    PROVE  /\ c = Command(c.type, c.pos)
           /\ c.type \in {"slew_started", "sync_applied", "capture_started"}
           /\ c.pos \in Positions \cup {NoPosition}
           /\ c.type = "slew_started" => c.pos \in Positions
           /\ c.type = "sync_applied" => c.pos \in Positions
           /\ c.type = "capture_started" => c.pos = NoPosition
BY DEF Commands, Command

\* A new event of a known type has its type.
LEMMA EventTyped ==
    ASSUME NEW type \in {"slew_started", "slew_completed", "sync_applied",
                         "capture_started", "capture_completed"},
           NEW pos \in Positions \cup {NoPosition}
    PROVE  /\ Event(type, pos) \in Events
           /\ Event(type, pos).type = type /\ Event(type, pos).pos = pos
           /\ Event(type, pos).age = 0
BY AgesSuffice DEF Event, Events

\* What the mount's adapter may leave of a poll: the queue, perhaps with one
\* event more, which has no coordinates.
LEMMA PollGrows ==
    ASSUME TypeOK, NEW poll \in Polls
    PROVE  /\ poll.mount \in [slewing: BOOLEAN, slewingTo: Positions \cup {NoPosition},
                              externalSeen: BOOLEAN]
           /\ poll.feed \in Seq(Events)
           /\ Len(poll.feed) \in {Len(mountFeed), Len(mountFeed) + 1}
           /\ \A i \in DOMAIN mountFeed : i \in DOMAIN poll.feed /\ poll.feed[i] = mountFeed[i]
           /\ \A i \in DOMAIN poll.feed :
                i \in DOMAIN mountFeed \/ poll.feed[i].pos = NoPosition
<1>1. /\ Event("slew_completed", NoPosition) \in Events
      /\ Event("slew_started", NoPosition) \in Events
      /\ Event("slew_completed", NoPosition).pos = NoPosition
      /\ Event("slew_started", NoPosition).pos = NoPosition
  BY EventTyped
<1>2. mountFeed \in Seq(Events)
  BY DEF TypeOK
<1> DEFINE Adapters == [slewing: BOOLEAN, slewingTo: Positions \cup {NoPosition},
                        externalSeen: BOOLEAN]
           ended == [mount EXCEPT !.slewingTo = NoPosition]
           still == [mount EXCEPT !.externalSeen = FALSE]
           moves == [mount EXCEPT !.externalSeen = TRUE]
           endFeed  == Append(mountFeed, Event("slew_completed", NoPosition))
           moveFeed == IF mount.externalSeen THEN mountFeed
                       ELSE Append(mountFeed, Event("slew_started", NoPosition))
<1>3. {mount, ended, still, moves} \subseteq Adapters
  <2>1. mount \in Adapters
    BY DEF TypeOK
  <2> QED
    BY <2>1
<1>4. \/ poll = [mount |-> mount, feed |-> mountFeed]
      \/ poll = [mount |-> ended, feed |-> endFeed]
      \/ poll = [mount |-> still, feed |-> mountFeed]
      \/ poll = [mount |-> moves, feed |-> moveFeed]
  <2> HIDE DEF ended, still, moves, endFeed, moveFeed
  <2>1. Polls = IF mount.slewingTo # NoPosition
                THEN {[mount |-> mount, feed |-> mountFeed], [mount |-> ended, feed |-> endFeed]}
                ELSE {[mount |-> still, feed |-> mountFeed]} \cup
                     {[mount |-> moves, feed |-> moveFeed] : m \in {mount.slewing} \ {FALSE}}
    BY DEF Polls, ended, still, moves, endFeed, moveFeed
  <2>2. ASSUME NEW S, poll \in {[mount |-> moves, feed |-> moveFeed] : m \in S}
        PROVE  poll = [mount |-> moves, feed |-> moveFeed]
    BY <2>2
  <2> QED
    BY <2>1, <2>2
<1>6. /\ poll.mount \in Adapters
      /\ \/ poll.feed = mountFeed
         \/ poll.feed = Append(mountFeed, Event("slew_completed", NoPosition))
         \/ poll.feed = Append(mountFeed, Event("slew_started", NoPosition))
  <2> HIDE DEF ended, still, moves, Adapters
  <2> QED
    BY <1>3, <1>4
<1>5. ASSUME NEW event \in Events, event.pos = NoPosition,
             poll.feed = Append(mountFeed, event)
      PROVE  /\ poll.feed \in Seq(Events)
             /\ Len(poll.feed) = Len(mountFeed) + 1
             /\ \A i \in DOMAIN mountFeed : i \in DOMAIN poll.feed /\ poll.feed[i] = mountFeed[i]
             /\ \A i \in DOMAIN poll.feed :
                  i \in DOMAIN mountFeed \/ poll.feed[i].pos = NoPosition
  BY <1>2, <1>5
<1> QED
  BY <1>1, <1>2, <1>5, <1>6

\* The last event of a queue that is not empty has an age.
LEMMA DrainedAge ==
    ASSUME NEW feed \in Seq(Events), NEW default \in 0..Settled
    PROVE  LastDrained(feed, default) \in 0..Settled
<1>1. CASE feed = <<>>
  BY <1>1 DEF LastDrained
<1>2. CASE feed # <<>>
  <2>1. Last(feed) \in Events
    BY <1>2 DEF Last
  <2> QED
    BY <1>2, <2>1 DEF LastDrained, Events
<1> QED
  BY <1>1, <1>2

\* A set of natural numbers has a smallest element.
LEMMA SmallestExists ==
    ASSUME NEW S \in SUBSET Nat, S # {}
    PROVE  \E n \in S : \A m \in S : n <= m
<1> DEFINE less == {pair \in Nat \X Nat : pair[1] < pair[2]}
<1>1. IsWellFoundedOn(less, Nat)
  BY NatLessThanWellFounded DEF OpToRel
<1>2. PICK n \in S : \A m \in S : <<m, n>> \notin less
  <2> HIDE DEF less
  <2> QED
    BY <1>1, WFMin
<1>3. \A m \in S : ~ (m < n) /\ n \in Nat /\ m \in Nat
  BY <1>2
<1> QED
  BY <1>3

\* A queue up to its first conflict is a queue of events.
LEMMA UpToConflictTyped ==
    ASSUME NEW feed \in Seq(Events), Conflicts(feed) # {}
    PROVE  UpToConflict(feed) \in Seq(Events)
<1> DEFINE first == CHOOSE i \in Conflicts(feed) : \A j \in Conflicts(feed) : i <= j
<1>1. Conflicts(feed) \in SUBSET (1..Len(feed)) /\ Len(feed) \in Nat
  BY DEF Conflicts
<1>2. first \in 1..Len(feed)
  <2>1. Conflicts(feed) \in SUBSET Nat
    BY <1>1
  <2>2. \E n \in Conflicts(feed) : \A m \in Conflicts(feed) : n <= m
    BY <2>1, SmallestExists
  <2> QED
    BY <1>1, <2>2
<1> HIDE DEF first
<1>3. SubSeq(feed, 1, first) \in Seq(Events)
  BY <1>1, <1>2
<1> QED
  BY <1>3 DEF UpToConflict, first

\* A record that is made again, or left alone, explains what it explained.
LEMMA YoungerExplains ==
    ASSUME NEW event \in Events,
           NEW old \in [Commands -> 0..Expired], NEW new \in [Commands -> 0..Expired],
           \A c \in Commands : new[c] <= old[c],
           Explained(event, old)
    PROVE  Explained(event, new)
<1> SUFFICES ASSUME event.pos # NoPosition,
                    ~ (event.age + CommandTime > Window)
             PROVE  /\ Command(event.type, event.pos) \in Commands
                    /\ new[Command(event.type, event.pos)] <= event.age + CommandTime
  BY DEF Explained
<1> DEFINE c == Command(event.type, event.pos)
<1>1. c \in Commands /\ old[c] <= event.age + CommandTime
  BY DEF Explained
<1>2. event.age \in Nat
  BY AgesSuffice DEF Events
<1> HIDE DEF c
<1>3. new[c] \in Nat /\ old[c] \in Nat /\ new[c] <= old[c] /\ CommandTime \in Nat
  BY <1>1, AgesSuffice
<1>4. new[c] <= event.age + CommandTime
  BY <1>1, <1>2, <1>3
<1> QED
  BY <1>1, <1>4 DEF c

\* A tick keeps event and record together, also where an age stops.
LEMMA TickExplains ==
    ASSUME NEW event \in Events, NEW old \in [Commands -> 0..Expired],
           Explained(event, old)
    PROVE  LET aged == [event EXCEPT !.age = Older(@, Settled)]
               new == [c \in Commands |-> Older(old[c], Expired)]
           IN  aged \in Events /\ Explained(aged, new)
<1> DEFINE aged == [event EXCEPT !.age = Older(@, Settled)]
           new == [c \in Commands |-> Older(old[c], Expired)]
           c == Command(event.type, event.pos)
<1>1. /\ event.age \in 0..Settled /\ Older(event.age, Settled) \in 0..Settled
      /\ Older(event.age, Settled) = IF event.age = Settled THEN event.age ELSE event.age + 1
  BY AgesSuffice, OlderStays DEF Events
<1>2. /\ aged \in Events /\ aged.type = event.type /\ aged.pos = event.pos
      /\ aged.age = Older(event.age, Settled)
  BY <1>1 DEF Events
<1>3. ASSUME event.pos # NoPosition, ~ (aged.age + CommandTime > Window)
      PROVE  c \in Commands /\ new[c] <= aged.age + CommandTime
  <2>1. c \in Commands
    BY <1>3 DEF Explained
  <2>2. /\ old[c] \in 0..Expired
        /\ new[c] = IF old[c] = Expired THEN old[c] ELSE old[c] + 1
    BY <2>1, AgesSuffice, OlderStays
  <2>3. /\ Window \in Nat /\ CommandTime \in Nat /\ Settled \in Nat /\ Expired = Window + 1
        /\ Settled + CommandTime > Window
    BY AgesSuffice
  <2>4. old[c] <= event.age + CommandTime \/ event.age + CommandTime > Window
    BY <1>3 DEF Explained
  <2> HIDE DEF c, new, aged
  <2>5. event.age # Settled /\ aged.age = event.age + 1
    BY <1>1, <1>2, <1>3, <2>3
  <2>6. old[c] <= event.age + CommandTime
    BY <1>1, <1>3, <2>3, <2>4, <2>5
  <2>7. new[c] <= aged.age + CommandTime
    BY <1>1, <2>2, <2>3, <2>5, <2>6
  <2> QED
    BY <2>1, <2>7
<1>4. Explained(aged, new)
  <2> HIDE DEF new
  <2>1. c = Command(aged.type, aged.pos)
    BY <1>2
  <2> HIDE DEF aged, c
  <2> QED
    BY <1>2, <1>3, <2>1 DEF Explained
<1> QED
  BY <1>2, <1>4

-----------------------------------------------------------------------------
(* Each action preserves it *)

\* What is to be shown of a step that leaves the records as they are.
LEMMA RecordsStand ==
    ASSUME IInv, TypeOK', UNCHANGED authored,
           \A i \in 1..Len(mountFeed') :
               \/ i \in 1..Len(mountFeed) /\ mountFeed'[i] = mountFeed[i]
               \/ Explained(mountFeed'[i], authored),
           busy'.command \in {busy.command, NotBusy.command, CaptureCommand}
    PROVE  IInv'
<1>1. \A i \in 1..Len(mountFeed') : Explained(mountFeed'[i], authored)
  BY DEF IInv, RecordsKeepUp
<1>2. NotBusy.command \notin Mountings /\ CaptureCommand \notin Mountings
  BY DEF NotBusy, CaptureCommand, Mountings, Commands, Command
<1>3. busy'.command \in Mountings => authored[busy'.command] <= CommandTime
  BY <1>2 DEF IInv, RecordsKeepUp
<1>4. RecordsKeepUp'
  BY <1>1, <1>3 DEF RecordsKeepUp, Mountings
<1> QED
  BY <1>4 DEF IInv

\* The queues are drained: nothing is left to explain.
LEMMA DrainedKeeps ==
    ASSUME IInv, TypeOK', UNCHANGED authored, mountFeed' = <<>>,
           busy'.command \in {busy.command, NotBusy.command, CaptureCommand}
    PROVE  IInv'
<1>1. 1..Len(mountFeed') = {}
  BY DEF TypeOK
<1> QED
  BY <1>1, RecordsStand

\* Making a record: of the command that is then on its way.
LEMMA RecordKeeps ==
    ASSUME TypeOK, NEW command \in Commands, Record(command)
    PROVE  /\ authored' \in [Commands -> 0..Expired] /\ authored'[command] = 0
           /\ \A c \in Commands : authored'[c] <= authored[c]
<1>1. authored \in [Commands -> 0..Expired] /\ Expired \in Nat
  BY AgesSuffice DEF TypeOK
<1> QED
  BY <1>1 DEF Record

LEMMA OrderedWork ==
    ASSUME NEW command \in Commands, NEW retry \in BOOLEAN,
           NEW step \in {"recorded", "acting"}
    PROVE  [step |-> step, command |-> command, retry |-> retry] \in Works
BY DEF Works

LEMMA OrderVerificationKeeps ==
    ASSUME IInv, NEW command \in Commands, OrderVerification(command)
    PROVE  IInv'
<1>1. /\ authored' \in [Commands -> 0..Expired] /\ authored'[command] = 0
      /\ \A c \in Commands : authored'[c] <= authored[c]
      /\ busy' = [step |-> "recorded", command |-> command, retry |-> FALSE]
  BY RecordKeeps DEF IInv, OrderVerification, Order
<1>2. TypeOK'
  <2>1. busy' \in Works
    BY <1>1, OrderedWork
  <2> QED
    BY <1>1, <2>1 DEF IInv, TypeOK, OrderVerification
<1>3. ASSUME NEW i \in 1..Len(mountFeed)
      PROVE  Explained(mountFeed[i], authored')
  <2>1. mountFeed[i] \in Events /\ authored \in [Commands -> 0..Expired]
    BY DEF IInv, TypeOK
  <2>2. Explained(mountFeed[i], authored)
    BY DEF IInv, RecordsKeepUp
  <2> QED
    BY <1>1, <2>1, <2>2, YoungerExplains
<1>4. RecordsKeepUp'
  <2>1. mountFeed' = mountFeed
    BY DEF OrderVerification
  <2>2. authored'[busy'.command] <= CommandTime
    BY <1>1, AgesSuffice
  <2> QED
    BY <1>3, <2>1, <2>2 DEF RecordsKeepUp
<1> QED
  BY <1>2, <1>4 DEF IInv

LEMMA NoConflictTyped ==
    ASSUME TypeOK, NEW poll \in Polls, NoConflict(poll)
    PROVE  /\ mount' \in [slewing: BOOLEAN, slewingTo: Positions \cup {NoPosition},
                          externalSeen: BOOLEAN]
           /\ mountFeed' = <<>> /\ cameraFeed' = <<>>
           /\ lastActivity' \in 0..Settled
<1>1. /\ poll.feed \in Seq(Events) /\ cameraFeed \in Seq(Events)
      /\ lastActivity \in 0..Settled
  BY PollGrows DEF TypeOK
<1>2. LastDrained(cameraFeed, LastDrained(poll.feed, lastActivity)) \in 0..Settled
  BY <1>1, DrainedAge
<1> QED
  BY <1>2, PollGrows DEF NoConflict

LEMMA OrderFrameKeeps ==
    ASSUME IInv, NEW poll \in Polls, OrderFrame(poll)
    PROVE  IInv'
<1>1. CaptureCommand \in Commands
  BY DEF CaptureCommand, Commands
<1>2. /\ authored' \in [Commands -> 0..Expired]
      /\ busy' = [step |-> "recorded", command |-> CaptureCommand, retry |-> TRUE]
  BY <1>1, RecordKeeps DEF IInv, OrderFrame, Order
<1>3. /\ mount' \in [slewing: BOOLEAN, slewingTo: Positions \cup {NoPosition},
                     externalSeen: BOOLEAN]
      /\ mountFeed' = <<>> /\ cameraFeed' = <<>>
      /\ lastActivity' \in 0..Settled
  BY NoConflictTyped DEF IInv, OrderFrame
<1>4. TypeOK'
  <2>1. busy' \in Works
    BY <1>1, <1>2, OrderedWork
  <2>2. control' \in {"locked", "paused", "open"}
    BY DEF OrderFrame, IInv, TypeOK
  <2>3. mountFeed' \in Seq(Events) /\ cameraFeed' \in Seq(Events)
    BY <1>3
  <2> QED
    BY <1>2, <1>3, <2>1, <2>2, <2>3 DEF TypeOK
<1>5. RecordsKeepUp'
  <2>1. 1..Len(mountFeed') = {}
    BY <1>3
  <2>2. busy'.command \notin Mountings
    BY <1>2 DEF CaptureCommand, Mountings, Command
  <2> QED
    BY <2>1, <2>2 DEF RecordsKeepUp, Mountings
<1> QED
  BY <1>4, <1>5 DEF IInv

LEMMA GuardKeeps ==
    ASSUME IInv, NEW poll \in Polls, Guard(poll)
    PROVE  IInv'
<1>1. /\ poll.feed \in Seq(Events) /\ cameraFeed \in Seq(Events)
      /\ lastActivity \in 0..Settled
  BY PollGrows DEF IInv, TypeOK
<1>2. /\ mount' \in [slewing: BOOLEAN, slewingTo: Positions \cup {NoPosition},
                     externalSeen: BOOLEAN]
      /\ mountFeed' = <<>> /\ cameraFeed' \in Seq(Events)
      /\ lastActivity' \in 0..Settled
      /\ control' \in {"locked", "paused", "open"}
  <2>1. CASE NoConflict(poll) /\ UNCHANGED control
    <3>1. control' \in {"locked", "paused", "open"} /\ <<>> \in Seq(Events)
      BY <2>1 DEF IInv, TypeOK
    <3> QED
      BY <2>1, <3>1, NoConflictTyped DEF IInv
  <2>2. CASE MountConflict(poll)
    <3>1. UpToConflict(poll.feed) \in Seq(Events)
      BY <1>1, <2>2, UpToConflictTyped DEF MountConflict
    <3>2. LastDrained(UpToConflict(poll.feed), lastActivity) \in 0..Settled
      BY <1>1, <3>1, DrainedAge
    <3> QED
      BY <1>1, <2>2, <3>2, PollGrows DEF IInv, MountConflict
  <2>3. CASE CameraConflict(poll)
    <3>1. UpToConflict(cameraFeed) \in Seq(Events)
      BY <1>1, <2>3, UpToConflictTyped DEF CameraConflict
    <3>2. LastDrained(UpToConflict(cameraFeed), lastActivity) \in 0..Settled
      BY <1>1, <3>1, DrainedAge
    <3>3. <<>> \in Seq(Events)
      OBVIOUS
    <3> QED
      BY <2>3, <3>2, <3>3, PollGrows DEF IInv, CameraConflict
  <2> QED
    BY <2>1, <2>2, <2>3 DEF Guard
<1>3. UNCHANGED <<authored, busy>> /\ mountFeed' \in Seq(Events)
  BY <1>2 DEF Guard
<1>4. TypeOK'
  BY <1>2, <1>3 DEF IInv, TypeOK
<1> QED
  BY <1>2, <1>3, <1>4, DrainedKeeps

LEMMA ConfirmKeeps ==
    ASSUME IInv, NEW poll \in Polls, Confirm(poll)
    PROVE  IInv'
<1>1. /\ poll.feed \in Seq(Events) /\ cameraFeed \in Seq(Events)
      /\ lastActivity \in 0..Settled
  BY PollGrows DEF IInv, TypeOK
<1>2. lastActivity' \in 0..Settled
  <2>1. LastDrained(cameraFeed, LastDrained(poll.feed, lastActivity)) \in 0..Settled
    BY <1>1, DrainedAge
  <2> QED
    BY <2>1 DEF Confirm
<1>3. /\ mount' = poll.mount /\ mountFeed' = <<>> /\ cameraFeed' = <<>>
      /\ control' \in {"locked", "paused", "open"}
      /\ UNCHANGED <<authored, busy>>
  BY DEF Confirm
<1>4. mountFeed' \in Seq(Events) /\ cameraFeed' \in Seq(Events)
  BY <1>3
<1>5. TypeOK'
  BY <1>2, <1>3, <1>4, PollGrows DEF IInv, TypeOK
<1> QED
  BY <1>3, <1>5, DrainedKeeps

LEMMA PollKeeps ==
    ASSUME IInv, NEW poll \in Polls, Poll(poll)
    PROVE  IInv'
<1>1. /\ mount' = poll.mount /\ mountFeed' = poll.feed
      /\ UNCHANGED <<cameraFeed, authored, lastActivity, control, busy>>
  BY DEF Poll
<1>2. TypeOK'
  BY <1>1, PollGrows DEF IInv, TypeOK
<1>3. ASSUME NEW i \in 1..Len(mountFeed')
      PROVE  \/ i \in 1..Len(mountFeed) /\ mountFeed'[i] = mountFeed[i]
             \/ Explained(mountFeed'[i], authored)
  <2>1. mountFeed \in Seq(Events) /\ mountFeed' \in Seq(Events)
    BY <1>2 DEF IInv, TypeOK
  <2>2. i \in DOMAIN mountFeed' /\ DOMAIN mountFeed = 1..Len(mountFeed)
    BY <2>1
  <2>3. i \in DOMAIN mountFeed \/ mountFeed'[i].pos = NoPosition
    BY <1>1, <2>2, PollGrows DEF IInv
  <2>4. i \in DOMAIN mountFeed => mountFeed'[i] = mountFeed[i]
    BY <1>1, PollGrows DEF IInv
  <2> QED
    BY <2>2, <2>3, <2>4 DEF Explained
<1> QED
  BY <1>1, <1>2, <1>3, RecordsStand

\* A command on its way is a command, with the parts its type asks for.
LEMMA BusyCommand ==
    ASSUME TypeOK, NEW type, NEW step \in {"recorded", "acting"}, Doing(type, step)
    PROVE  /\ busy \in [step: {"recorded", "acting"}, command: Commands, retry: BOOLEAN]
           /\ busy.command \in Commands /\ busy.command = Command(type, busy.command.pos)
           /\ type \in {"slew_started", "sync_applied"} =>
                busy.command.pos \in Positions /\ busy.command \in Mountings
<1>1. busy \in [step: {"recorded", "acting"}, command: Commands, retry: BOOLEAN]
  <2>1. NotBusy.step = "none"
    BY DEF NotBusy
  <2> QED
    BY <2>1 DEF TypeOK, Works, Doing
<1>2. busy.command \in Commands /\ busy.command.type = type
  BY <1>1 DEF Doing
<1> HIDE DEF Doing
<1>3. /\ busy.command = Command(type, busy.command.pos)
      /\ type \in {"slew_started", "sync_applied"} => busy.command.pos \in Positions
  BY <1>2, CommandParts
<1> QED
  BY <1>1, <1>2, <1>3, PositionsAssumption DEF Mountings

\* A queue with one event more.
LEMMA FeedAppended ==
    ASSUME NEW feed \in Seq(Events), NEW event \in Events
    PROVE  /\ Append(feed, event) \in Seq(Events)
           /\ Len(Append(feed, event)) = Len(feed) + 1
           /\ \A i \in 1..Len(Append(feed, event)) :
                \/ i \in 1..Len(feed) /\ Append(feed, event)[i] = feed[i]
                \/ Append(feed, event)[i] = event
OBVIOUS

\* The adapter notes the command that is on its way: its record explains it.
LEMMA NotedKeeps ==
    ASSUME IInv, NEW type \in {"slew_started", "sync_applied"},
           NEW step \in {"recorded", "acting"}, Doing(type, step),
           mountFeed' = Append(mountFeed, Event(type, busy.command.pos)),
           mount' \in [slewing: BOOLEAN, slewingTo: Positions \cup {NoPosition},
                       externalSeen: BOOLEAN],
           busy' = NotBusy,
           UNCHANGED <<cameraFeed, authored, lastActivity, control>>
    PROVE  IInv'
<1> DEFINE event == Event(type, busy.command.pos)
<1>1. /\ busy.command \in Commands /\ busy.command = Command(type, busy.command.pos)
      /\ busy.command.pos \in Positions /\ busy.command \in Mountings
  BY BusyCommand DEF IInv
<1>2. /\ event \in Events /\ event.type = type /\ event.pos = busy.command.pos
      /\ event.age = 0
  BY <1>1, EventTyped
<1>3. mountFeed \in Seq(Events)
  BY DEF IInv, TypeOK
<1>4. Explained(event, authored)
  <2>1. authored[busy.command] <= CommandTime /\ CommandTime \in Nat
    BY <1>1, AgesSuffice DEF IInv, RecordsKeepUp
  <2>2. 0 + CommandTime = CommandTime
    BY <2>1
  <2> HIDE DEF event
  <2> QED
    BY <1>1, <1>2, <2>1, <2>2 DEF Explained
<1> HIDE DEF event
<1>5. mountFeed' = Append(mountFeed, event)
  BY DEF event
<1>6. /\ mountFeed' \in Seq(Events)
      /\ \A i \in 1..Len(mountFeed') :
           \/ i \in 1..Len(mountFeed) /\ mountFeed'[i] = mountFeed[i]
           \/ mountFeed'[i] = event
  BY <1>2, <1>3, <1>5, FeedAppended
<1>7. TypeOK'
  <2>1. busy' \in Works
    BY DEF Works
  <2> QED
    BY <1>6, <2>1 DEF IInv, TypeOK
<1> QED
  BY <1>4, <1>6, <1>7, RecordsStand

LEMMA SlewNotedKeeps ==
    ASSUME IInv, SlewNoted
    PROVE  IInv'
<1>1. Doing("slew_started", "acting")
  BY DEF SlewNoted
<1>2. busy.command.pos \in Positions
  BY <1>1, BusyCommand DEF IInv
<1>3. mount' \in [slewing: BOOLEAN, slewingTo: Positions \cup {NoPosition},
                  externalSeen: BOOLEAN]
  BY <1>2 DEF SlewNoted, IInv, TypeOK
<1> QED
  BY <1>1, <1>3, NotedKeeps DEF SlewNoted

LEMMA SyncNotedKeeps ==
    ASSUME IInv, SyncNoted
    PROVE  IInv'
<1>1. Doing("sync_applied", "recorded")
  BY DEF SyncNoted
<1>2. mount' \in [slewing: BOOLEAN, slewingTo: Positions \cup {NoPosition},
                  externalSeen: BOOLEAN]
  BY DEF SyncNoted, IInv, TypeOK
<1> QED
  BY <1>1, <1>2, NotedKeeps DEF SyncNoted

\* Steps that leave the mount's queue and the records alone.
LEMMA AsideKeeps ==
    ASSUME IInv, TypeOK', UNCHANGED <<mountFeed, authored>>,
           busy'.command \in {busy.command, NotBusy.command}
    PROVE  IInv'
BY RecordsStand

LEMMA SlewMovesKeeps ==
    ASSUME IInv, SlewMoves
    PROVE  IInv'
<1>1. busy \in [step: {"recorded", "acting"}, command: Commands, retry: BOOLEAN]
  BY BusyCommand DEF IInv, SlewMoves
<1>2. busy' \in Works /\ busy'.command = busy.command
  BY <1>1 DEF SlewMoves, Works
<1>3. TypeOK'
  BY <1>2 DEF SlewMoves, IInv, TypeOK
<1> QED
  BY <1>2, <1>3, AsideKeeps DEF SlewMoves

LEMMA ShutterOpensKeeps ==
    ASSUME IInv, ShutterOpens
    PROVE  IInv'
<1>1. busy \in [step: {"recorded", "acting"}, command: Commands, retry: BOOLEAN]
  BY BusyCommand DEF IInv, ShutterOpens
<1>2. busy' \in Works /\ busy'.command = busy.command
  BY <1>1 DEF ShutterOpens, Works
<1>3. cameraFeed' \in Seq(Events)
  BY EventTyped, FeedAppended DEF ShutterOpens, IInv, TypeOK
<1>4. TypeOK'
  BY <1>2, <1>3 DEF ShutterOpens, IInv, TypeOK
<1> QED
  BY <1>2, <1>4, AsideKeeps DEF ShutterOpens

LEMMA DownloadedKeeps ==
    ASSUME IInv, Downloaded
    PROVE  IInv'
<1>1. busy' \in Works /\ busy'.command = NotBusy.command
  BY DEF Downloaded, Works
<1>2. cameraFeed' \in Seq(Events)
  BY EventTyped, FeedAppended DEF Downloaded, IInv, TypeOK
<1>3. TypeOK'
  BY <1>1, <1>2 DEF Downloaded, IInv, TypeOK
<1> QED
  BY <1>1, <1>3, AsideKeeps DEF Downloaded

LEMMA CommandFailsKeeps ==
    ASSUME IInv, CommandFails
    PROVE  IInv'
<1>1. busy \in [step: {"recorded", "acting"}, command: Commands, retry: BOOLEAN]
  BY DEF IInv, TypeOK, Works, CommandFails
<1>2. busy' \in Works /\ busy'.command \in {busy.command, NotBusy.command}
  BY <1>1 DEF CommandFails, Works
<1>3. TypeOK'
  BY <1>2 DEF CommandFails, IInv, TypeOK
<1> QED
  BY <1>2, <1>3, AsideKeeps DEF CommandFails

LEMMA SessionMovesKeeps ==
    ASSUME IInv, SessionMoves
    PROVE  IInv'
<1>1. TypeOK'
  BY DEF SessionMoves, IInv, TypeOK
<1> QED
  BY <1>1, AsideKeeps DEF SessionMoves

LEMMA MountMovesKeeps ==
    ASSUME IInv, MountMoves
    PROVE  IInv'
<1>1. mount' \in [slewing: BOOLEAN, slewingTo: Positions \cup {NoPosition},
                  externalSeen: BOOLEAN]
  BY DEF MountMoves, IInv, TypeOK
<1>2. TypeOK'
  BY <1>1 DEF MountMoves, IInv, TypeOK
<1> QED
  BY <1>2, AsideKeeps DEF MountMoves

LEMMA AgedFeed ==
    ASSUME NEW feed \in Seq(Events)
    PROVE  /\ AgeAll(feed) \in Seq(Events) /\ Len(AgeAll(feed)) = Len(feed)
           /\ \A i \in 1..Len(feed) :
                AgeAll(feed)[i] = [feed[i] EXCEPT !.age = Older(@, Settled)]
<1>1. ASSUME NEW event \in Events
      PROVE  [event EXCEPT !.age = Older(@, Settled)] \in Events
  <2>1. Older(event.age, Settled) \in 0..Settled
    BY AgesSuffice, OlderStays DEF Events
  <2> QED
    BY <2>1 DEF Events
<1>2. ASSUME NEW i \in 1..Len(feed)
      PROVE  feed[i] \in Events
  OBVIOUS
<1>3. ASSUME NEW i \in 1..Len(feed)
      PROVE  [feed[i] EXCEPT !.age = Older(@, Settled)] \in Events
  BY <1>1, <1>2
<1>4. /\ Len(feed) \in Nat
      /\ AgeAll(feed) = [i \in 1..Len(feed) |-> [feed[i] EXCEPT !.age = Older(@, Settled)]]
  BY DEF AgeAll
<1> QED
  BY <1>3, <1>4

LEMMA TickKeeps ==
    ASSUME IInv, Tick
    PROVE  IInv'
<1>1. /\ authored \in [Commands -> 0..Expired]
      /\ mountFeed \in Seq(Events) /\ cameraFeed \in Seq(Events)
      /\ lastActivity \in 0..Settled
  BY DEF IInv, TypeOK
<1>2. /\ authored' = [c \in Commands |-> Older(authored[c], Expired)]
      /\ mountFeed' = AgeAll(mountFeed) /\ cameraFeed' = AgeAll(cameraFeed)
      /\ lastActivity' = Older(lastActivity, Settled)
      /\ UNCHANGED <<mount, control, busy>>
  BY DEF Tick
<1>3. TypeOK'
  <2>1. authored' \in [Commands -> 0..Expired]
    BY <1>1, <1>2, AgesSuffice, OlderStays
  <2>2. lastActivity' \in 0..Settled
    BY <1>1, <1>2, AgesSuffice, OlderStays
  <2>3. mountFeed' \in Seq(Events) /\ cameraFeed' \in Seq(Events)
    BY <1>1, <1>2, AgedFeed
  <2> QED
    BY <1>2, <2>1, <2>2, <2>3 DEF IInv, TypeOK
<1>4. ASSUME NEW i \in 1..Len(mountFeed')
      PROVE  Explained(mountFeed'[i], authored')
  <2>1. i \in 1..Len(mountFeed) /\ mountFeed'[i] = [mountFeed[i] EXCEPT !.age = Older(@, Settled)]
    BY <1>1, <1>2, AgedFeed
  <2>2. mountFeed[i] \in Events /\ Explained(mountFeed[i], authored)
    BY <1>1, <2>1 DEF IInv, RecordsKeepUp
  <2> QED
    BY <1>1, <1>2, <2>1, <2>2, TickExplains
<1>5. ASSUME busy'.command \in Mountings
      PROVE  authored'[busy'.command] <= CommandTime
  <2>1. busy.command \in Mountings /\ authored[busy.command] < CommandTime
    BY <1>2, <1>5 DEF Tick
  <2>2. busy.command \in Commands
    BY <2>1 DEF Mountings
  <2>3. /\ authored[busy.command] \in 0..Expired
        /\ authored'[busy'.command] = IF authored[busy.command] = Expired
                                      THEN Expired ELSE authored[busy.command] + 1
    BY <1>1, <1>2, <2>2, AgesSuffice, OlderStays
  <2>4. CommandTime \in Nat /\ Expired = Window + 1 /\ Window \in Nat /\ CommandTime <= Window
    BY AgesSuffice, TimesAssumption
  <2> QED
    BY <2>1, <2>3, <2>4
<1>6. RecordsKeepUp'
  BY <1>4, <1>5 DEF RecordsKeepUp, Mountings
<1> QED
  BY <1>3, <1>6 DEF IInv

-----------------------------------------------------------------------------
(* The theorems *)

LEMMA Initially ==
    Init => IInv
<1> SUFFICES ASSUME Init PROVE IInv
  OBVIOUS
<1>1. mountFeed \in Seq(Events) /\ cameraFeed \in Seq(Events) /\ 1..Len(mountFeed) = {}
  BY DEF Init
<1>2. busy \in Works /\ busy.command \notin Mountings
  BY DEF Init, NotBusy, Works, Mountings, Commands, Command
<1>3. TypeOK
  BY <1>1, <1>2, AgesSuffice DEF Init, TypeOK
<1> QED
  BY <1>1, <1>2, <1>3 DEF IInv, RecordsKeepUp

LEMMA Invariant ==
    Spec => []IInv
<1>1. IInv /\ [Next]_vars => IInv'
  <2> SUFFICES ASSUME IInv, [Next]_vars PROVE IInv'
    OBVIOUS
  <2>1. ASSUME NEW command \in Commands, OrderVerification(command) PROVE IInv'
    BY <2>1, OrderVerificationKeeps
  <2>2. ASSUME NEW poll \in Polls, OrderFrame(poll) PROVE IInv'
    BY <2>2, OrderFrameKeeps
  <2>3. ASSUME NEW poll \in Polls, Guard(poll) PROVE IInv'
    BY <2>3, GuardKeeps
  <2>4. ASSUME NEW poll \in Polls, Confirm(poll) PROVE IInv'
    BY <2>4, ConfirmKeeps
  <2>5. ASSUME NEW poll \in Polls, Poll(poll) PROVE IInv'
    BY <2>5, PollKeeps
  <2>6. CASE SlewMoves \/ SlewNoted \/ SyncNoted
    BY <2>6, SlewMovesKeeps, SlewNotedKeeps, SyncNotedKeeps
  <2>7. CASE ShutterOpens \/ Downloaded \/ CommandFails
    BY <2>7, ShutterOpensKeeps, DownloadedKeeps, CommandFailsKeeps
  <2>8. CASE SessionMoves \/ MountMoves \/ Tick
    BY <2>8, SessionMovesKeeps, MountMovesKeeps, TickKeeps
  <2>9. CASE UNCHANGED vars
    BY <2>9 DEF vars, IInv, TypeOK, RecordsKeepUp
  <2> QED
    BY <2>1, <2>2, <2>3, <2>4, <2>5, <2>6, <2>7, <2>8, <2>9 DEF Next
<1> QED
  BY <1>1, Initially, PTL DEF Spec

\* Queues, records, ages and the command on its way keep their types, for queues of
\* any length and whatever the windows are.
THEOREM TypeCorrect == Spec => []TypeOK
BY Invariant, PTL DEF IInv

\* AuthorshipTracker: Kepler's own slews and syncs are recognized for as long as the
\* event and the two time-outs of its command fit into the window, for any window and
\* time-outs, however many commands follow one another and wherever polls fall.
THEOREM OwnMotionIsKnown == Spec => []RecentMotionIsOwn
<1>1. ASSUME IInv, NEW i \in DOMAIN mountFeed,
             mountFeed[i].pos # NoPosition, mountFeed[i].age + CommandTime <= Window
      PROVE  IsAuthored(mountFeed[i])
  <2> DEFINE event == mountFeed[i]
             c == Command(event.type, event.pos)
  <2>1. /\ event \in Events /\ authored \in [Commands -> 0..Expired]
        /\ Explained(event, authored)
    BY <1>1 DEF IInv, TypeOK, RecordsKeepUp
  <2>2. /\ event.age \in Nat /\ event.age + CommandTime \in Nat /\ Window \in Nat
    BY <2>1, AgesSuffice DEF Events
  <2>3. c \in Commands /\ authored[c] <= event.age + CommandTime
    BY <1>1, <2>1, <2>2 DEF Explained
  <2>4. authored[c] \in Nat
    BY <2>1, <2>3, AgesSuffice
  <2>5. authored[c] <= Window
    BY <1>1, <2>2, <2>3, <2>4
  <2>6. c.type = event.type /\ c.pos = event.pos
    BY DEF Command
  <2> QED
    BY <2>3, <2>5, <2>6 DEF IsAuthored, InWindow
<1>2. IInv => RecentMotionIsOwn
  BY <1>1 DEF RecentMotionIsOwn
<1> QED
  BY <1>2, Invariant, PTL

\* A conflict check before the frame sees every slew of somebody else's that is in the
\* queue, for queues of any length, unless a recent slew of Kepler's own hides it.
THEOREM ForeignSlewIsSeen == Spec => ForeignSlewStopsFrames
<1> DEFINE Stops ==
        control = "locked" /\ ~busy.retry /\ busy'.retry =>
            \A i \in DOMAIN mountFeed : Foreign(mountFeed[i]) =>
                \E p \in Positions : authored[Command("slew_started", p)] <= Window
<1>1. ASSUME IInv, NEW poll \in Polls, OrderFrame(poll),
             NEW i \in DOMAIN mountFeed, Foreign(mountFeed[i])
      PROVE  \E p \in Positions : authored[Command("slew_started", p)] <= Window
  <2>1. i \in DOMAIN poll.feed /\ poll.feed[i] = mountFeed[i]
    BY <1>1, PollGrows DEF IInv
  <2>2. Conflicts(poll.feed) = {}
    BY <1>1 DEF OrderFrame, NoConflict
  <2>3. mountFeed[i].type = "slew_started"
    BY <1>1 DEF Foreign
  <2>4. IsAuthored(mountFeed[i])
    BY <2>1, <2>2, <2>3 DEF Conflicts, Eligible
  <2>5. PICK c \in Commands : authored[c] <= Window /\ c.type = "slew_started"
    BY <2>3, <2>4 DEF IsAuthored, InWindow
  <2>6. c.pos \in Positions /\ c = Command("slew_started", c.pos)
    BY <2>5, CommandParts
  <2> QED
    BY <2>5, <2>6
<1>2. ASSUME IInv, [Next]_vars, control = "locked", ~busy.retry, busy'.retry
      PROVE  \E poll \in Polls : OrderFrame(poll)
  <2>1. busy \in Works /\ NotBusy.retry = FALSE
    BY <1>2 DEF IInv, TypeOK, NotBusy
  <2>2. ASSUME NEW command \in Commands, OrderVerification(command)
        PROVE  FALSE
    BY <1>2, <2>2 DEF OrderVerification, Order
  <2>3. ASSUME NEW poll \in Polls, Guard(poll) \/ Confirm(poll) \/ Poll(poll)
        PROVE  FALSE
    BY <1>2, <2>3 DEF Guard, Confirm, Poll
  <2>4. CASE SlewMoves \/ ShutterOpens
    <3>1. busy' = [busy EXCEPT !.step = "acting"]
      BY <2>4 DEF SlewMoves, ShutterOpens
    <3>2. busy'.retry = busy.retry
      BY <2>1, <3>1 DEF Works, NotBusy
    <3> QED
      BY <1>2, <3>2
  <2>5. CASE SlewNoted \/ SyncNoted \/ Downloaded
    BY <1>2, <2>1, <2>5 DEF SlewNoted, SyncNoted, Downloaded
  <2>6. CASE CommandFails
    BY <1>2, <2>1, <2>6 DEF CommandFails
  <2>7. CASE SessionMoves \/ MountMoves \/ Tick \/ UNCHANGED vars
    BY <1>2, <2>7 DEF SessionMoves, MountMoves, Tick, vars
  <2> QED
    BY <1>2, <2>2, <2>3, <2>4, <2>5, <2>6, <2>7 DEF Next
<1>3. IInv /\ [Next]_vars => [Stops]_vars
  BY <1>1, <1>2
<1> QED
  BY <1>3, Invariant, PTL DEF Spec, ForeignSlewStopsFrames

=============================================================================
