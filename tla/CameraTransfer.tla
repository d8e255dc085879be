---------------------------- MODULE CameraTransfer ----------------------------
(***************************************************************************)
(* Where the frames go: the gphoto2 adapter (camera/gphoto2.py) between    *)
(* the camera body and the disk.  Each step is one run of the gphoto2      *)
(* program, which may answer, fail, or be killed by its time-out.          *)
(*                                                                         *)
(*   capture    capture(): exposes and downloads; after a failure it       *)
(*              drains the transfer that the body may still hold           *)
(*   recovery   recover_stuck_camera_files(), and connect(), which the     *)
(*              controller calls after it and also on its own              *)
(*                                                                         *)
(* The body is external.  A frame that was exposed and not downloaded      *)
(* stays in its store; it may announce a transfer, at once or late, and    *)
(* refuses every exposure and setting as long as one is announced.         *)
(*                                                                         *)
(* Left out: the camera's settings, formats other than one file per frame, *)
(* more than one folder, the INDI driver, which recovery stops first, and  *)
(* the option, off by default, that lets connect() set its flag for a body *)
(* that shows only a focus-assist surface (677-679).                       *)
(***************************************************************************)
EXTENDS Integers, Sequences, SequencesExt

CONSTANTS
    MaxShots,      \* bound on the number of exposures
    Overlap        \* whether a capture may run beside a recovery or a connect

ASSUME MaxShotsAssumption == MaxShots \in Nat
ASSUME OverlapAssumption == Overlap \in BOOLEAN

VARIABLES
    shots,         \* exposures so far; frame n is the n-th
    store,         \* frames on the body, in the order in which it lists them
    announced,     \* those with a transfer that waits to be downloaded
    mode,          \* "remote", "autocapture" (self-timer) or another posture
    connected,     \* _connected
    verification,  \* the frame in the verification file
    attempt,       \* the frame in the file of a light that was not returned
    lights,        \* the frames returned by captures under a label of their own
    saved,         \* <<name, frame>>: files of the recovery directory
    deleted,       \* frames deleted by their index in the listing (history)
    capture,       \* the capture in progress
    result,        \* what the last capture returned
    recovery       \* the recovery or connect in progress

body  == <<shots, store, announced, mode>>
disk  == <<verification, attempt, lights, saved>>
vars  == <<body, disk, connected, deleted, capture, result, recovery>>

Frames  == 1..MaxShots
NoFrame == 0
Labels  == {"verification", "light"}

\* shot: the frame exposed by this call.
Captures == [step: {"idle", "shoot", "drain"}, label: Labels, shot: Frames \cup {NoFrame}]
NoCapture == [step |-> "idle", label |-> "light", shot |-> NoFrame]

\* todo: entries of the listing, in the order in which they are dealt with;
\* listed: the frames of the listing.
Recoveries == [step: {"idle", "drain", "list", "get", "delete", "connect", "setup"},
               todo: Seq(Frames \X Frames), listed: SUBSET Frames]
NoRecovery == [step |-> "idle", todo |-> <<>>, listed |-> {}]

TypeOK ==
    /\ shots \in 0..MaxShots
    /\ store \in Seq(Frames) /\ IsInjective(store)
    /\ announced \subseteq Range(store)
    /\ mode \in {"remote", "autocapture", "other"}
    /\ connected \in BOOLEAN
    /\ verification \in Frames \cup {NoFrame}
    /\ attempt \in Frames \cup {NoFrame}
    /\ lights \in Seq(Frames)
    /\ saved \subseteq Frames \X Frames
    /\ deleted \subseteq Frames
    /\ capture \in Captures
    /\ result \in Frames \cup {NoFrame}
    /\ recovery \in Recoveries

Init ==
    /\ shots = 0 /\ store = <<>> /\ announced = {} /\ mode = "remote"
    /\ connected = FALSE
    /\ verification = NoFrame /\ attempt = NoFrame /\ lights = <<>> /\ saved = {} /\ deleted = {}
    /\ capture = NoCapture /\ result = NoFrame /\ recovery = NoRecovery

-----------------------------------------------------------------------------
(* The body *)

\* A frame that was not downloaded announces its transfer, at some time.
BodyAnnounces ==
    /\ \E f \in Range(store) \ announced : announced' = announced \cup {f}
    /\ UNCHANGED <<shots, store, mode, disk, connected, deleted, capture, result, recovery>>

\* Its operator turns the drive dial, the cable is pulled or plugged in.
BodyTurned ==
    /\ mode' \in {"remote", "autocapture", "other"} \ {mode}
    /\ UNCHANGED <<shots, store, announced, disk, connected, deleted, capture, result, recovery>>

\* What remains of s; a recursive function, so that the proofs can unfold it.
Without(s, frames) ==
    LET kept[i \in 0..Len(s)] ==
          IF i = 0 THEN <<>>
          ELSE IF s[i] \in frames THEN kept[i - 1] ELSE Append(kept[i - 1], s[i])
    IN  kept[Len(s)]

\* gphoto2 downloads what is announced, and the body forgets it.
Drained == store' = Without(store, announced) /\ announced' = {}

\* A reset or a re-enumeration of the USB device: transfers may be forgotten.
Reset == announced' \in {announced, {}}

-----------------------------------------------------------------------------
(* Faulty variants, one for each property *)

MatchAnyName(f) ==                 \* globs the directory, not the name
    IF f # NoFrame THEN f
    ELSE IF capture.label = "verification" THEN verification
    ELSE IF lights = <<>> THEN NoFrame ELSE Last(lights)

InOrder(entries) == entries        \* deals with the listing in its own order

DeleteUnchecked ==                 \* goes on when the body refuses to delete
    /\ recovery.step = "delete"
    /\ recovery' = [recovery EXCEPT !.step = "get", !.todo = Tail(@)]
    /\ UNCHANGED <<body, disk, connected, deleted, capture, result>>

DeleteUnannounced ==               \* forgets that a transfer ends with its frame
    /\ recovery.step = "delete"
    /\ LET i == Head(recovery.todo)[1]
       IN  /\ i \in DOMAIN store
           /\ store' = RemoveAt(store, i)
           /\ deleted' = deleted \cup {store[i]}
    /\ recovery' = [recovery EXCEPT !.step = "get", !.todo = Tail(@)]
    /\ UNCHANGED <<shots, announced, mode, disk, connected, capture, result>>

-----------------------------------------------------------------------------
(* capture() *)

Idle(job) == job.step = "idle"
CaptureAt(step) == capture.step = step

\* _camera_io_lock keeps recoveries and connects apart, but captures do not take it.
Free(job, other) == Idle(job) /\ (Overlap \/ Idle(other))

\* diagnostic_status() sees a self-timer; --reset, or a re-enumeration, may help.
\* capture_one_frame() tries a light that raised again, with the same request: its
\* file may be there.  Any other light has a name that none was asked for under.
CaptureStart(label) ==
    /\ Free(capture, recovery)
    /\ \/ UNCHANGED attempt
       \/ label = "light" /\ attempt' = NoFrame
    /\ \/ mode # "autocapture" /\ UNCHANGED <<mode, announced>>
       \/ mode = "autocapture" /\ mode' = "remote" /\ Reset
    /\ capture' = [step |-> "shoot", label |-> label, shot |-> NoFrame]
    /\ result' = NoFrame
    /\ UNCHANGED <<shots, store, verification, lights, saved, connected, deleted, recovery>>

\* CameraAutocaptureModeBlocked.
CaptureBlocked ==
    /\ Free(capture, recovery)
    /\ mode = "autocapture" /\ Reset
    /\ result' = NoFrame
    /\ UNCHANGED <<shots, store, mode, disk, connected, deleted, capture, recovery>>

\* The file that the glob for this capture's name finds: frame f if the call has
\* just downloaded it, or what was there before.
Match(f) == IF f # NoFrame THEN f
            ELSE IF capture.label = "verification" THEN verification ELSE attempt

\* A light that is returned is not asked for again.
Return(f) ==
    /\ result' = f
    /\ IF capture.label = "verification"
       THEN verification' = f /\ UNCHANGED <<attempt, lights>>
       ELSE attempt' = NoFrame /\ lights' = Append(lights, f) /\ UNCHANGED verification
    /\ UNCHANGED saved

Raise == result' = NoFrame /\ UNCHANGED <<lights, saved>>

\* What a failed or killed exposure leaves on the body: nothing, or frame n.
LeavesFrame(n) ==
    /\ shots' = n
    /\ store' = Append(store, n)

Exposes == mode = "remote" /\ announced = {} /\ shots < MaxShots

Shot(n) == capture' = [capture EXCEPT !.step = "idle", !.shot = n]

\* The frame is exposed, downloaded and found; gphoto2's verdict does not matter.
ShotDownloaded ==
    /\ CaptureAt("shoot") /\ Exposes
    /\ shots' = shots + 1
    /\ Return(Match(shots + 1))
    /\ Shot(shots + 1)
    /\ UNCHANGED <<store, announced, mode, connected, deleted, recovery>>

\* gphoto2 ends without a file, and with or without a frame left on the body.
\* If the glob finds one all the same, that is returned; if not and gphoto2
\* reported a failure, the body is drained; if it reported success, this raises.
ShotFails ==
    /\ CaptureAt("shoot")
    /\ \/ UNCHANGED <<shots, store, announced>>
       \/ /\ Exposes /\ LeavesFrame(shots + 1)
          /\ announced' \in {announced, announced \cup {shots + 1}}
    /\ LET n == IF shots' = shots THEN NoFrame ELSE shots'
       IN  \/ Match(NoFrame) # NoFrame /\ Return(Match(NoFrame)) /\ Shot(n)
           \/ /\ Match(NoFrame) = NoFrame
              /\ capture' = [capture EXCEPT !.step = "drain", !.shot = n]
              /\ UNCHANGED <<result, disk>>
           \/ Match(NoFrame) = NoFrame /\ Raise /\ Shot(n) /\ UNCHANGED <<verification, attempt>>
    /\ UNCHANGED <<mode, connected, deleted, recovery>>

\* subprocess.TimeoutExpired is not caught: no glob and no drain.  What has been
\* downloaded stays under the capture's name.
ShotTimesOut ==
    /\ CaptureAt("shoot")
    /\ \/ UNCHANGED <<shots, store, announced, verification, attempt>>
       \/ /\ Exposes /\ LeavesFrame(shots + 1)
          /\ announced' \in {announced, announced \cup {shots + 1}}
          /\ UNCHANGED <<verification, attempt>>
       \/ /\ Exposes /\ shots' = shots + 1
          /\ IF capture.label = "verification"
             THEN verification' = shots + 1 /\ UNCHANGED attempt
             ELSE attempt' = shots + 1 /\ UNCHANGED verification
          /\ UNCHANGED <<store, announced>>
    /\ Raise
    /\ Shot(NoFrame)
    /\ UNCHANGED <<mode, connected, deleted, recovery>>

\* _drain_pending_transfer(): what is announced lands under the capture's name,
\* the last one on top of the others; nothing does if gphoto2 fails.
DrainFinds ==
    /\ CaptureAt("drain") /\ announced # {}
    /\ Drained
    /\ \E f \in announced : Return(f)
    /\ capture' = [capture EXCEPT !.step = "idle"]
    /\ UNCHANGED <<shots, mode, connected, deleted, recovery>>

DrainFindsNothing ==
    /\ CaptureAt("drain")
    /\ Raise
    /\ capture' = [capture EXCEPT !.step = "idle"]
    /\ UNCHANGED <<body, verification, attempt, connected, deleted, recovery>>

\* _release_session_resources(), at the end of a session.
SessionEnds ==
    /\ Idle(capture) /\ Idle(recovery)
    /\ verification' = NoFrame /\ connected' = FALSE
    /\ UNCHANGED <<body, attempt, lights, saved, deleted, capture, result, recovery>>

-----------------------------------------------------------------------------
(* recover_stuck_camera_files() *)

RecoveryAt(step) == recovery.step = step
Goto(step) == recovery' = [recovery EXCEPT !.step = step]

\* The controller disconnects after a recovery, whether it raised or not, and connects.
LeaveRecovery ==
    /\ recovery' = [NoRecovery EXCEPT !.step = "connect"]
    /\ connected' = FALSE

RecoveryStart ==
    /\ Free(recovery, capture)
    /\ Goto("drain")
    /\ UNCHANGED <<body, disk, connected, deleted, capture, result>>

\* Into one file, "recovered-pending-"; or gphoto2 fails, which nobody looks at.
RecoveryDrains ==
    /\ RecoveryAt("drain")
    /\ Drained \/ UNCHANGED <<store, announced>>
    /\ Goto("list")
    /\ UNCHANGED <<shots, mode, disk, connected, deleted, capture, result>>

\* Downloading and deleting by index: from the last to the first, so that no
\* deletion moves an entry that is still to be dealt with.
ByIndexDescending(entries) == Reverse(entries)

RecoveryLists ==
    /\ RecoveryAt("list")
    /\ recovery' = [step   |-> "get",
                    todo   |-> ByIndexDescending([i \in DOMAIN store |-> <<i, store[i]>>]),
                    listed |-> Range(store)]
    /\ UNCHANGED <<body, disk, connected, deleted, capture, result>>

\* --get-file: saved under the name of the entry, in a file that did not exist.
RecoveryGets ==
    /\ RecoveryAt("get") /\ recovery.todo # <<>>
    /\ LET entry == Head(recovery.todo)
       IN  /\ entry[1] \in DOMAIN store
           /\ saved' = saved \cup {<<entry[2], store[entry[1]]>>}
    /\ Goto("delete")
    /\ UNCHANGED <<body, verification, attempt, lights, connected, deleted, capture, result>>

\* --delete-file
RecoveryDeletes ==
    /\ RecoveryAt("delete")
    /\ LET i == Head(recovery.todo)[1]
       IN  /\ i \in DOMAIN store
           /\ store' = RemoveAt(store, i)
           /\ announced' = announced \ {store[i]}
           /\ deleted' = deleted \cup {store[i]}
    /\ recovery' = [recovery EXCEPT !.step = "get", !.todo = Tail(@)]
    /\ UNCHANGED <<shots, mode, disk, connected, capture, result>>

RecoveryReturns ==
    /\ RecoveryAt("get") /\ recovery.todo = <<>>
    /\ LeaveRecovery
    /\ UNCHANGED <<body, disk, deleted, capture, result>>

\* The listing, a download or a deletion fails or is not confirmed, or the drain
\* or any of them runs into its time-out.
RecoveryRaises ==
    /\ \/ RecoveryAt("drain") \/ RecoveryAt("list") \/ RecoveryAt("delete")
       \/ RecoveryAt("get") /\ recovery.todo # <<>>
    /\ LeaveRecovery
    /\ UNCHANGED <<body, disk, deleted, capture, result>>

-----------------------------------------------------------------------------
(* connect() *)

\* Called on its own, after a failed heartbeat or by an operator.
ConnectStart ==
    /\ Free(recovery, capture)
    /\ Goto("connect")
    /\ UNCHANGED <<body, disk, connected, deleted, capture, result>>

\* A camera with a remote-control surface, and no flag yet: what is pending is
\* downloaded to a temporary directory that is removed again.
ConnectDrains ==
    /\ RecoveryAt("connect") /\ ~connected /\ mode # "other"
    /\ Drained \/ UNCHANGED <<store, announced>>
    /\ Goto("setup")
    /\ UNCHANGED <<shots, mode, disk, connected, deleted, capture, result>>

\* The first settings are written, which an announced transfer makes fail.
ConnectSucceeds ==
    /\ RecoveryAt("setup") /\ announced = {}
    /\ \/ mode = "remote" /\ UNCHANGED mode
       \/ mode = "autocapture" /\ mode' = "remote"
    /\ connected' = TRUE
    /\ recovery' = NoRecovery
    /\ UNCHANGED <<shots, store, announced, disk, deleted, capture, result>>

\* Connected before, or no camera, a posture it cannot be used in, a setting
\* that is refused, a self-timer that no reset ends.
ConnectEnds ==
    /\ RecoveryAt("connect") \/ RecoveryAt("setup")
    /\ recovery' = NoRecovery
    /\ \/ UNCHANGED announced
       \/ RecoveryAt("setup") /\ mode = "autocapture" /\ Reset
    /\ UNCHANGED <<shots, store, mode, disk, connected, deleted, capture, result>>

-----------------------------------------------------------------------------

\* The process is killed and started again; body and disk stay as they are.
Crash ==
    /\ capture' = NoCapture /\ recovery' = NoRecovery
    /\ connected' = FALSE /\ result' = NoFrame
    /\ UNCHANGED <<body, disk, deleted>>

Capture ==
    \/ \E label \in Labels : CaptureStart(label)
    \/ CaptureBlocked \/ ShotDownloaded \/ ShotFails \/ ShotTimesOut
    \/ DrainFinds \/ DrainFindsNothing

Recovery ==
    \/ RecoveryStart \/ RecoveryDrains \/ RecoveryLists \/ RecoveryGets
    \/ RecoveryDeletes \/ RecoveryReturns \/ RecoveryRaises
    \/ ConnectStart \/ ConnectDrains \/ ConnectSucceeds \/ ConnectEnds

Next == BodyAnnounces \/ BodyTurned \/ Capture \/ Recovery \/ SessionEnds \/ Crash

Spec == Init /\ [][Next]_vars

-----------------------------------------------------------------------------
(* Safety *)

\* What recovery deletes from the camera by index is in the recovery directory,
\* under the name that the camera listed it with, through failed and killed
\* downloads and deletions, retries and crashes between the two.
DeletedIsSaved == \A f \in deleted : <<f, f>> \in saved

\* A recovery that returns has left on the camera nothing that it listed there
\* ("so subsequent PTP sessions start cleanly").
RecoveredIsClean ==
    [][RecoveryReturns => recovery.listed \cap Range(store) = {}]_vars

\* No exposure is delivered as two lights, although failed captures are tried
\* again, drained by later ones, and listed by recoveries.
NoLightTwice == IsInjective(lights)

-----------------------------------------------------------------------------
(* What comments and docstrings say that the code does not do *)

\* "Capture a single frame using the requested settings": what capture() returns
\* was exposed by this call.
FreshFrame ==
    [][result' # NoFrame /\ ~CaptureAt("idle") /\ capture'.step = "idle"
        => result' = capture'.shot]_vars

=============================================================================
