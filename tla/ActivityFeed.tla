----------------------------- MODULE ActivityFeed -----------------------------
(***************************************************************************)
(* How Kepler tells its own device activity from somebody else's.          *)
(*                                                                         *)
(* The adapters (mount/indi.py, camera/gphoto2.py) queue an event for what *)
(* the devices do.  ClawController records each command it gives in the    *)
(* AuthorshipTracker (agent/authorship.py), drains the queues before and   *)
(* after a production frame and pauses on an eligible event that matches   *)
(* no recent record; and it drains them in confirm_ekos_paused(), which    *)
(* opens the intervention window once activity has settled.                *)
(*                                                                         *)
(* Time is a Tick that ages everything; an age says how many ticks ago an  *)
(* event was observed or a command recorded, and stops counting where no   *)
(* comparison can tell it from a later age.  The mount observation loop    *)
(* (api/app.py) polls at any time; everything else is one thread.          *)
(*                                                                         *)
(* Left out: the Ekos feed, whose events are neither significant nor       *)
(* eligible, and what a pause does to the rest of the session.             *)
(***************************************************************************)
EXTENDS Naturals, SequencesExt

CONSTANTS
    Positions,    \* where the mount is sent
    NoPosition,   \* an event without coordinates; _slewing_to = None
    Window,       \* authorship window, in ticks
    Settle,       \* ACTIVITY_SETTLE_SECONDS, in ticks
    CommandTime,  \* the two time-outs of a command to the mount, in ticks
    MaxPending    \* bound of the model on each adapter's queue

ASSUME PositionsAssumption == NoPosition \notin Positions
ASSUME TimesAssumption ==
    {Window, Settle, CommandTime} \subseteq Nat /\ CommandTime <= Window

VARIABLES
    mount,        \* whether the mount slews, and what its adapter tracks of it
    mountFeed,    \* _pending_events of the mount adapter
    cameraFeed,   \* _pending_events of the camera adapter
    authored,     \* AuthorshipTracker: the age of the last record of a command
    lastActivity, \* age of _last_significant_activity_at
    control,      \* the run goes on, or is paused, or handed to Kepler (open)
    busy          \* the command the controller is in the middle of

vars == <<mount, mountFeed, cameraFeed, authored, lastActivity, control, busy>>

\* The last ages that are told apart: of a record, and of an event.
Expired == Window + 1
Settled == IF Window < Settle + CommandTime THEN Settle ELSE Window + 1 - CommandTime

Command(type, pos) == [type |-> type, pos |-> pos]
Commands == {Command("slew_started", p) : p \in Positions}
      \cup {Command("sync_applied", p) : p \in Positions}
      \cup {Command("capture_started", NoPosition)}

Events == [type: {"slew_started", "slew_completed", "sync_applied",
                  "capture_started", "capture_completed"},
           pos: Positions \cup {NoPosition}, age: 0..Settled]
Event(type, pos) == [type |-> type, pos |-> pos, age |-> 0]

\* recorded: the command is recorded, and on its way to the device;
\* acting: the mount carries it out, or the shutter is open;
\* retry: a production frame, whose exposure is tried again if it fails.
NotBusy == [step |-> "none", command |-> Command("none", NoPosition), retry |-> FALSE]
Works   == {NotBusy} \cup [step: {"recorded", "acting"}, command: Commands, retry: BOOLEAN]

TypeOK ==
    /\ mount \in [slewing: BOOLEAN, slewingTo: Positions \cup {NoPosition}, externalSeen: BOOLEAN]
    /\ mountFeed \in Seq(Events) /\ cameraFeed \in Seq(Events)
    /\ authored \in [Commands -> 0..Expired]
    /\ lastActivity \in 0..Settled
    /\ control \in {"locked", "paused", "open"}
    /\ busy \in Works

Init ==
    /\ mount = [slewing |-> FALSE, slewingTo |-> NoPosition, externalSeen |-> FALSE]
    /\ mountFeed = <<>> /\ cameraFeed = <<>>
    /\ authored = [c \in Commands |-> Expired]
    /\ lastActivity = Settled
    /\ control = "locked"
    /\ busy = NotBusy

-----------------------------------------------------------------------------
(* AuthorshipTracker *)

RecordOnly(command) ==             \* faulty: the record replaces all others
    authored' = [c \in {command} |-> 0]
\* record(): only the youngest record of a command can make a difference.
Record(command) == authored' = [authored EXCEPT ![command] = 0]

InWindowStrictly(age) ==           \* faulty: prunes one tick too early
    age < Window
\* _prune() has not removed the record yet.
InWindow(age) == age <= Window

IsAuthoredByAny(event) ==          \* faulty: the type is not compared
    \E c \in Commands : InWindow(authored[c]) /\ (event.pos = NoPosition \/ c.pos = event.pos)
\* The coordinates are the fingerprint that both sides can carry; an event
\* without them is matched by its type alone.
IsAuthored(event) ==
    \E c \in Commands :
        /\ InWindow(authored[c])
        /\ c.type = event.type
        /\ event.pos = NoPosition \/ c.pos = event.pos

Eligible == {"slew_started", "sync_applied", "capture_started"}
Conflicts(feed) ==
    {i \in DOMAIN feed : feed[i].type \in Eligible /\ ~IsAuthored(feed[i])}

-----------------------------------------------------------------------------
(* The queues *)

\* Bound of the model.
Room(feed) == Len(feed) < MaxPending

\* What poll_activity() may leave: nothing new (or an unreadable mount), the end
\* of Kepler's own slew, or motion although no slew of Kepler's is pending.
Polls ==
    IF mount.slewingTo # NoPosition
    THEN {[mount |-> mount, feed |-> mountFeed],
          [mount |-> [mount EXCEPT !.slewingTo = NoPosition],
           feed  |-> Append(mountFeed, Event("slew_completed", NoPosition))]}
    ELSE {[mount |-> [mount EXCEPT !.externalSeen = FALSE], feed |-> mountFeed]} \cup
         {[mount |-> [mount EXCEPT !.externalSeen = TRUE],
           feed  |-> IF mount.externalSeen THEN mountFeed
                     ELSE Append(mountFeed, Event("slew_started", NoPosition))]
             : m \in {mount.slewing} \ {FALSE}}

\* Every mount and camera event is significant: draining a queue leaves the
\* time of the event drained last, whatever the time was before.
LastDrained(feed, default) == IF feed = <<>> THEN default ELSE Last(feed).age
UpToConflict(feed) == SubSeq(feed, 1, CHOOSE i \in Conflicts(feed) :
                                         \A j \in Conflicts(feed) : i <= j)

\* _check_conflicts() after poll: nothing found, all queues drained.
NoConflict(poll) ==
    /\ Conflicts(poll.feed) = {} /\ Conflicts(cameraFeed) = {}
    /\ mount' = poll.mount /\ mountFeed' = <<>> /\ cameraFeed' = <<>>
    /\ lastActivity' = LastDrained(cameraFeed, LastDrained(poll.feed, lastActivity))

\* The first conflict ends the pass: what is left of that queue is lost, and
\* the camera's is not read.
MountConflict(poll) ==
    /\ Conflicts(poll.feed) # {}
    /\ mount' = poll.mount /\ mountFeed' = <<>>
    /\ lastActivity' = LastDrained(UpToConflict(poll.feed), lastActivity)
    /\ control' = "paused"
    /\ UNCHANGED cameraFeed

CameraConflict(poll) ==
    /\ Conflicts(poll.feed) = {} /\ Conflicts(cameraFeed) # {}
    /\ mount' = poll.mount /\ mountFeed' = <<>> /\ cameraFeed' = <<>>
    /\ lastActivity' = LastDrained(UpToConflict(cameraFeed), lastActivity)
    /\ control' = "paused"

-----------------------------------------------------------------------------
(* Commands *)

Mountings == {c \in Commands : c.pos # NoPosition}
CaptureCommand == Command("capture_started", NoPosition)

Order(command, retry) ==
    /\ Record(command)
    /\ busy' = [step |-> "recorded", command |-> command, retry |-> retry]

\* _do_correct() and _do_test_capture().
OrderVerification(command) ==
    /\ busy = NotBusy /\ control = "locked"
    /\ Order(command, FALSE)
    /\ UNCHANGED <<mount, mountFeed, cameraFeed, lastActivity, control>>

\* capture_one_frame(): the conflict check comes first.
OrderFrame(poll) ==
    /\ busy = NotBusy /\ control = "locked"
    /\ NoConflict(poll)
    /\ Order(CaptureCommand, TRUE)
    /\ UNCHANGED control

\* The check of evaluate_guard(), and a check that finds a conflict.
Guard(poll) ==
    /\ busy = NotBusy /\ control = "locked"
    /\ \/ NoConflict(poll) /\ UNCHANGED control
       \/ MountConflict(poll)
       \/ CameraConflict(poll)
    /\ UNCHANGED <<authored, busy>>

Doing(type, step) == busy.step = step /\ busy.command.type = type

\* indi_setprop has reached the mount; slew_to() has not noted it yet.
SlewMoves ==
    /\ Doing("slew_started", "recorded")
    /\ mount' = [mount EXCEPT !.slewing = TRUE]
    /\ busy' = [busy EXCEPT !.step = "acting"]
    /\ UNCHANGED <<mountFeed, cameraFeed, authored, lastActivity, control>>

SlewNoted ==
    /\ Doing("slew_started", "acting") /\ Room(mountFeed)
    /\ mount' = [mount EXCEPT !.slewingTo = busy.command.pos, !.externalSeen = FALSE]
    /\ mountFeed' = Append(mountFeed, Event("slew_started", busy.command.pos))
    /\ busy' = NotBusy
    /\ UNCHANGED <<cameraFeed, authored, lastActivity, control>>

SyncNoted ==
    /\ Doing("sync_applied", "recorded") /\ Room(mountFeed)
    /\ mountFeed' = Append(mountFeed, Event("sync_applied", busy.command.pos))
    /\ busy' = NotBusy
    /\ UNCHANGED <<mount, cameraFeed, authored, lastActivity, control>>

ShutterOpens ==
    /\ Doing("capture_started", "recorded") /\ Room(cameraFeed)
    /\ cameraFeed' = Append(cameraFeed, Event("capture_started", NoPosition))
    /\ busy' = [busy EXCEPT !.step = "acting"]
    /\ UNCHANGED <<mount, mountFeed, authored, lastActivity, control>>

Downloaded ==
    /\ Doing("capture_started", "acting") /\ Room(cameraFeed)
    /\ cameraFeed' = Append(cameraFeed, Event("capture_completed", NoPosition))
    /\ busy' = NotBusy
    /\ UNCHANGED <<mount, mountFeed, authored, lastActivity, control>>

\* A failed production exposure is tried once more, without a new record.
CommandFails ==
    /\ busy # NotBusy
    /\ busy' = IF busy.retry THEN [busy EXCEPT !.step = "recorded", !.retry = FALSE]
                             ELSE NotBusy
    /\ UNCHANGED <<mount, mountFeed, cameraFeed, authored, lastActivity, control>>

-----------------------------------------------------------------------------
(* The handover, and the session around it *)

\* confirm_ekos_paused() with Ekos paused, called while paused or, from
\* begin_intervention(), while monitoring: the queues are drained and no event
\* in them is looked at for a conflict.
Confirm(poll) ==
    /\ busy = NotBusy /\ control \in {"locked", "paused"}
    /\ mount' = poll.mount /\ mountFeed' = <<>> /\ cameraFeed' = <<>>
    /\ lastActivity' = LastDrained(cameraFeed, LastDrained(poll.feed, lastActivity))
    /\ control' = IF lastActivity' >= Settle THEN "open" ELSE "paused"
    /\ UNCHANGED <<authored, busy>>

\* pause(); resume() and complete_intervention().  Ending a session and starting
\* the next one changes nothing here: the queues and the records outlive it.
SessionMoves ==
    /\ busy = NotBusy
    /\ control' = IF control = "locked" THEN "paused" ELSE "locked"
    /\ UNCHANGED <<mount, mountFeed, cameraFeed, authored, lastActivity, busy>>

-----------------------------------------------------------------------------
(* The rest of the world *)

\* poll_mount_observation()
Poll(poll) ==
    /\ poll.feed = mountFeed \/ Room(mountFeed)
    /\ mount' = poll.mount /\ mountFeed' = poll.feed
    /\ UNCHANGED <<cameraFeed, authored, lastActivity, control, busy>>

\* Somebody else moves the mount, or it comes to rest.
MountMoves ==
    /\ mount' = [mount EXCEPT !.slewing = ~@]
    /\ UNCHANGED <<mountFeed, cameraFeed, authored, lastActivity, control, busy>>

Older(age, last) == IF age < last THEN age + 1 ELSE last
AgeAll(feed) == [i \in DOMAIN feed |-> [feed[i] EXCEPT !.age = Older(@, Settled)]]

\* A command to the mount returns or raises within its time-outs.
Tick ==
    /\ busy.command \in Mountings => authored[busy.command] < CommandTime
    /\ mountFeed' = AgeAll(mountFeed) /\ cameraFeed' = AgeAll(cameraFeed)
    /\ authored' = [c \in Commands |-> Older(authored[c], Expired)]
    /\ lastActivity' = Older(lastActivity, Settled)
    /\ UNCHANGED <<mount, control, busy>>

-----------------------------------------------------------------------------

Next ==
    \/ \E command \in Commands : OrderVerification(command)
    \/ \E poll \in Polls : OrderFrame(poll) \/ Guard(poll) \/ Confirm(poll) \/ Poll(poll)
    \/ SlewMoves \/ SlewNoted \/ SyncNoted \/ ShutterOpens \/ Downloaded \/ CommandFails
    \/ SessionMoves
    \/ MountMoves
    \/ Tick

Spec == Init /\ [][Next]_vars

-----------------------------------------------------------------------------
(* Safety *)

Foreign(event) == event.type = "slew_started" /\ event.pos = NoPosition

\* A slew or sync of Kepler's own is recognized as its own as long as it was
\* noted recently enough for its record, made before the command was sent and
\* possibly two time-outs older, to be in the authorship window.
RecentMotionIsOwn ==
    \A i \in DOMAIN mountFeed :
        LET event == mountFeed[i]
        IN  event.pos # NoPosition /\ event.age + CommandTime <= Window => IsAuthored(event)

\* A run that holds the lock starts no production frame while the mount's queue
\* reports a slew that is not Kepler's, unless a slew command of Kepler's own
\* in the authorship window passes for it.
ForeignSlewStopsFrames ==
    [][control = "locked" /\ ~busy.retry /\ busy'.retry =>
        \A i \in DOMAIN mountFeed : Foreign(mountFeed[i]) =>
            \E p \in Positions : authored[Command("slew_started", p)] <= Window]_vars

=============================================================================
