--------------------------- MODULE EquipmentProfiles ---------------------------
(***************************************************************************)
(* Equipment profiles: one JSON file each (storage/filesystem.py), one of  *)
(* them the default that a boot selects; the active profile, an object in  *)
(* the controller's memory (agent/claw.py); and the runtime file that      *)
(* shows the focus driver the active profile's calibration.  The endpoints *)
(* of api/app.py create, replace and select profiles and start a focus     *)
(* calibration, whose result is stored in the active profile.              *)
(*                                                                         *)
(* A request is split at each file it writes: the flag is moved in several *)
(* writes, the process may be restarted between any two of them, and each  *)
(* write may fail or be cut off, which leaves a file that cannot be read.  *)
(*                                                                         *)
(* A document is its default flag, what only the operator configures, the  *)
(* optics, and its focus calibration.  The optics are what a calibration   *)
(* fills in or overwrites: the focal length assumed, the names of camera   *)
(* and lens.  Every profile is of a Fuji camera with one lens.             *)
(* Left out: connect() failing at boot and what happens within a session   *)
(* (ManagedRun), and the camera and broker of a calibration (CameraPath).  *)
(***************************************************************************)
CONSTANTS
    Profiles,     \* profile ids
    NoProfile,
    Configs,      \* what only an operator configures
    Optics,       \* what the optics may be
    NoOptics,     \* the document does not say
    Ranges,       \* what a focus calibration may measure
    NoRange,
    Clients       \* the threads that run requests

ASSUME ProfileAssumption ==
    NoProfile \notin Profiles /\ NoRange \notin Ranges /\ NoOptics \notin Optics

VARIABLES
    files,        \* profiles/<id>.json
    active,       \* active_equipment_profile: the id and the document read
    runtime,      \* runtime/fuji_focus_calibration.json
    state,        \* the session, as far as profiles depend on it
    request,      \* what each client is in the middle of
    chosen,       \* history: the profile the operator last made the default,
                  \* and the one that a calibration has made it since; until he
                  \* takes the flag away or a write that moves it is cut off
    diskFailed,   \* history: a write has failed
    accepted      \* session.calibration_accepted, with what it was accepted for

vars == <<files, active, runtime, state, request, chosen, diskFailed, accepted>>

Documents == [default: BOOLEAN, config: Configs, optics: Optics \cup {NoOptics},
              focus: Ranges \cup {NoRange}]
Missing   == [kind |-> "missing"]
Torn      == [kind |-> "torn"]        \* cut off: exists and is not a profile
States    == {"down", "paused", "ready", "calibrate", "session"}

Inactive   == [id |-> NoProfile]
Activated  == [id: Profiles, doc: Documents]
NoRuntime  == [id |-> NoProfile]
Projections == [id: Profiles, config: Configs, optics: Optics \cup {NoOptics}, focus: Ranges]

Choices  == [id: Profiles, taken: Profiles \cup {NoProfile}]
NoChoice == [id |-> NoProfile]

\* clear, write: write_profile(); activate, project, ensure: the active profile
\* is set, projected and, if needed, calibrated; sweep: the camera measures;
\* reproject, settle: the end of an automatic calibration that failed, of one
\* that did not.
Steps == {"clear", "write", "activate", "project", "ensure", "sweep", "reproject", "settle"}
NoRequest == [at |-> "none"]

\* other: another profile has been selected since.
Acceptances == [config: Configs, other: BOOLEAN]
NotAccepted == [other |-> FALSE]
Requests  == [at: Steps, op: {"create", "replace", "select", "calibrate"},
              id: Profiles, doc: Documents, todo: SUBSET Profiles,
              isActive: BOOLEAN, sweeping: BOOLEAN]

TypeOK ==
    /\ files \in [Profiles -> Documents \cup {Missing, Torn}]
    /\ active \in Activated \cup {Inactive}
    /\ runtime \in Projections \cup {NoRuntime, Torn}
    /\ state \in States
    /\ request \in [Clients -> Requests \cup {NoRequest}]
    /\ chosen \in Choices \cup {NoChoice}
    /\ diskFailed \in BOOLEAN
    /\ accepted \in Acceptances \cup {NotAccepted}

Stored   == {p \in Profiles : files[p] \notin {Missing, Torn}}    \* list_profiles()
Defaults == {p \in Stored : files[p].default}

Init ==
    /\ files = [p \in Profiles |-> Missing]
    /\ active = Inactive
    /\ runtime = NoRuntime
    /\ state = "down"
    /\ request = [c \in Clients |-> NoRequest]
    /\ chosen = NoChoice
    /\ diskFailed = FALSE
    /\ accepted = NotAccepted

-----------------------------------------------------------------------------
(* Requests and their writes *)

Free(c)   == request[c] = NoRequest
AllFree   == \A c \in Clients : Free(c)
At(c, st) == request[c].at = st
Goto(c, st) == request' = [request EXCEPT ![c].at = st]
Return(c) == request' = [request EXCEPT ![c] = NoRequest]

Up == state # "down"
PreSessionPosture == state \in {"paused", "ready"}

\* The end of a request: replacing the active profile, if it was written, drops
\* the accepted calibration after everything else.
Answer(c) ==
    /\ Return(c)
    /\ accepted' = IF request[c].op = "replace" THEN NotAccepted ELSE accepted

\* Set, by write_profile(), before the profile's own file is written.
FlagsToClear(p, doc) == IF doc.default THEN Profiles \ {p} ELSE {}

\* Whether files[p] may be left as it was or cut off.
CutOff(p) == files' \in {files, [files EXCEPT ![p] = Torn]}

\* The profile that should carry the flag.
Holder == IF chosen.taken = NoProfile THEN chosen.id ELSE chosen.taken

\* This request moves the flag, or writes the file that carries it.
Disturbs(r) == r.doc.default \/ (chosen # NoChoice /\ r.id = Holder)

\* A calibration writes the document that is in memory, with the flag it was read
\* with: it takes the flag back from the profile that the operator has chosen since.
ChoiceAfter(r) ==
    CASE ~r.sweeping /\ r.doc.default -> [id |-> r.id, taken |-> NoProfile]
      [] ~r.sweeping /\ ~r.doc.default /\ chosen # NoChoice ->
            IF r.id \in {chosen.id, Holder} THEN NoChoice ELSE chosen
      [] r.sweeping /\ r.doc.default /\ chosen # NoChoice ->
            [chosen EXCEPT !.taken = IF r.id = chosen.id THEN NoProfile ELSE r.id]
      [] OTHER -> chosen

-----------------------------------------------------------------------------
(* Faulty variants of the definitions below, one for each property *)

\* write_profile() does not clear the other profiles.
WriteOnly(c, op, p, doc, isActive, sweeping) ==
    request' = [request EXCEPT ![c] =
        [at |-> "write", op |-> op, id |-> p, doc |-> doc,
         todo |-> FlagsToClear(p, doc), isActive |-> isActive, sweeping |-> sweeping]]

\* discover() takes the first of the stored profiles.
BootAny ==
    /\ state = "down"
    /\ \/ /\ Stored # {}
          /\ LET picked == CHOOSE p \in Stored : TRUE
             IN  active' = [id |-> picked, doc |-> files[picked]]
          /\ runtime' = IF active'.doc.focus = NoRange THEN NoRuntime
                        ELSE [id |-> active'.id, config |-> active'.doc.config,
                              optics |-> active'.doc.optics, focus |-> active'.doc.focus]
          /\ state' = "ready"
       \/ /\ Stored = {}
          /\ state' = "paused"
          /\ UNCHANGED <<active, runtime>>
    /\ UNCHANGED <<files, request, chosen, diskFailed, accepted>>

\* A replaced active profile is not set active again.
WrittenOnly(c) ==
    LET r == request[c] IN
    IF r.sweeping THEN Goto(c, "activate") ELSE Return(c)

\* A file that cannot be read is selected all the same.
SelectUnread(c, p) ==
    /\ Free(c)
    /\ PreSessionPosture
    /\ files[p] # Missing
    /\ request' = [request EXCEPT ![c] =
         [at |-> "activate", op |-> "select", id |-> p, doc |-> files[p],
          todo |-> {}, isActive |-> TRUE, sweeping |-> FALSE]]
    /\ UNCHANGED <<files, active, runtime, state, chosen, diskFailed, accepted>>

-----------------------------------------------------------------------------
(* Startup and restart *)

Projected(a) ==
    IF a.id = NoProfile THEN NoRuntime
    ELSE IF a.doc.focus = NoRange THEN NoRuntime
    ELSE [id |-> a.id, config |-> a.doc.config, optics |-> a.doc.optics,
          focus |-> a.doc.focus]

\* The file is written, or removed, and that fails or is cut off.
ProjectionCutOff(a) ==
    IF Projected(a) = NoRuntime THEN runtime # NoRuntime /\ UNCHANGED runtime
                                ELSE runtime' \in {runtime, Torn}

\* boot(), discover(), connect(): one default is activated, whether or not it can
\* be projected; none, or several, pause the session without a resume context.
Boot ==
    /\ state = "down"
    /\ \/ \E p \in Profiles :
            /\ Defaults = {p}
            /\ active' = [id |-> p, doc |-> files[p]]
            /\ \/ runtime' = Projected(active') /\ UNCHANGED diskFailed
               \/ ProjectionCutOff(active') /\ diskFailed' = TRUE
            /\ state' = "ready"
       \/ /\ \A p \in Profiles : Defaults # {p}
          /\ state' = "paused"
          /\ UNCHANGED <<active, runtime, diskFailed>>
    /\ UNCHANGED <<files, request, chosen, accepted>>

\* The process ends, in the middle of at most one write of each request.
Restart ==
    /\ state # "down"
    /\ state' = "down"
    /\ active' = Inactive
    /\ request' = [c \in Clients |-> NoRequest]
    /\ \E cut \in SUBSET {c \in Clients : request[c].at \in {"clear", "write"}} :
         \E hit \in [cut -> Profiles] :
            /\ \A c \in cut : \/ At(c, "clear") /\ hit[c] \in request[c].todo \cap Defaults
                              \/ At(c, "write") /\ hit[c] = request[c].id
            /\ files' = [p \in Profiles |-> IF \E c \in cut : hit[c] = p THEN Torn
                                                                        ELSE files[p]]
    /\ chosen' = IF \E c \in Clients : /\ request[c].at \in {"clear", "write"}
                                       /\ Disturbs(request[c])
                 THEN NoChoice ELSE chosen
    /\ accepted' = NotAccepted
    /\ runtime' = runtime
         \/ (runtime' = Torn /\ \E c \in Clients : /\ request[c].at \in {"project", "reproject"}
                                                 /\ Projected(active) # NoRuntime)
    /\ UNCHANGED diskFailed

-----------------------------------------------------------------------------
(* The endpoints.  A torn file cannot be read: every request for it fails. *)

Write(c, op, p, doc, isActive, sweeping) ==
    request' = [request EXCEPT ![c] =
        [at |-> IF doc.default THEN "clear" ELSE "write", op |-> op, id |-> p, doc |-> doc,
         todo |-> FlagsToClear(p, doc), isActive |-> isActive, sweeping |-> sweeping]]

\* 409 if the id is taken; the document comes from the operator.
Create(c, p, d, k, o) ==
    /\ Free(c) /\ Up
    /\ files[p] = Missing
    /\ Write(c, "create", p, [default |-> d, config |-> k, optics |-> o, focus |-> NoRange],
             FALSE, FALSE)
    /\ UNCHANGED <<files, active, runtime, state, chosen, diskFailed, accepted>>

\* The whole document is replaced, with or without its calibration.  The active
\* profile cannot be replaced during a session.
Replace(c, p, d, k, o) ==
    /\ Free(c) /\ Up
    /\ p \in Stored
    /\ active.id = p => PreSessionPosture
    /\ \E f \in {files[p].focus, NoRange} :
         Write(c, "replace", p, [default |-> d, config |-> k, optics |-> o, focus |-> f],
               active.id = p, FALSE)
    /\ UNCHANGED <<files, active, runtime, state, chosen, diskFailed, accepted>>

Select(c, p) ==
    /\ Free(c)
    /\ PreSessionPosture
    /\ p \in Stored
    /\ request' = [request EXCEPT ![c] =
         [at |-> "activate", op |-> "select", id |-> p, doc |-> files[p],
          todo |-> {}, isActive |-> TRUE, sweeping |-> FALSE]]
    /\ UNCHANGED <<files, active, runtime, state, chosen, diskFailed, accepted>>

\* run_focus_calibration(), by POST /focus-calibrate.
Calibrate(c) ==
    /\ Free(c)
    /\ state = "ready" /\ active # Inactive
    /\ state' = "calibrate"
    /\ request' = [request EXCEPT ![c] =
         [at |-> "sweep", op |-> "calibrate", id |-> active.id, doc |-> active.doc,
          todo |-> {}, isActive |-> TRUE, sweeping |-> TRUE]]
    /\ UNCHANGED <<files, active, runtime, chosen, diskFailed, accepted>>

-----------------------------------------------------------------------------
(* write_profile() *)

\* _clear_default_flag(): one file after the other.
ClearFlag(c) ==
    /\ At(c, "clear")
    /\ IF request[c].todo = {} THEN Goto(c, "write") /\ UNCHANGED files
       ELSE \E p \in request[c].todo :
              /\ request' = [request EXCEPT ![c].todo = @ \ {p}]
              /\ files' = IF p \in Defaults THEN [files EXCEPT ![p].default = FALSE]
                                            ELSE files
    /\ UNCHANGED <<active, runtime, state, chosen, diskFailed, accepted>>

\* "except Exception: pass": a flag that cannot be cleared is passed over.
ClearFails(c) ==
    /\ At(c, "clear")
    /\ \E p \in request[c].todo \cap Defaults :
         /\ CutOff(p)
         /\ request' = [request EXCEPT ![c].todo = @ \ {p}]
    /\ diskFailed' = TRUE
    /\ UNCHANGED <<active, runtime, state, chosen, accepted>>

\* What follows the write of the document.
Written(c) ==
    LET r == request[c] IN
    IF r.isActive THEN Goto(c, "activate") ELSE Return(c)

WriteDocument(c) ==
    LET r == request[c] IN
    /\ At(c, "write")
    /\ files' = [files EXCEPT ![r.id] = r.doc]
    /\ chosen' = ChoiceAfter(r)
    /\ Written(c)
    /\ UNCHANGED <<active, runtime, state, diskFailed, accepted>>

\* run_focus_calibration() fails and gives the session back; an automatic one
\* projects what is in memory.
CalibrationFails(c) ==
    /\ state' = "ready"
    /\ IF request[c].op = "calibrate" THEN Return(c) ELSE Goto(c, "reproject")

\* The endpoint answers 500, or the calibration fails.
WriteFails(c) ==
    LET r == request[c] IN
    /\ At(c, "write")
    /\ CutOff(r.id)
    /\ diskFailed' = TRUE
    /\ IF r.sweeping THEN CalibrationFails(c) ELSE Return(c) /\ UNCHANGED state
    /\ UNCHANGED <<active, runtime, chosen, accepted>>

-----------------------------------------------------------------------------
(* set_active_equipment_profile() *)

Activate(c) ==
    /\ At(c, "activate")
    /\ active' = [id |-> request[c].id, doc |-> request[c].doc]
    /\ Goto(c, "project")
    /\ accepted' = IF request[c].op = "select" /\ accepted # NotAccepted
                   THEN [accepted EXCEPT !.other = TRUE] ELSE accepted
    /\ UNCHANGED <<files, runtime, state, chosen, diskFailed>>

\* refresh_focus_calibration_projection()
Project(c) ==
    /\ At(c, "project")
    /\ runtime' = Projected(active)
    /\ Goto(c, IF request[c].sweeping THEN "settle" ELSE "ensure")
    /\ UNCHANGED <<files, active, state, chosen, diskFailed, accepted>>

\* The endpoint answers 500, also when the file is to be written a second time.
ProjectFails(c) ==
    /\ At(c, "project")
    /\ ProjectionCutOff(active)
    /\ diskFailed' = TRUE
    /\ IF request[c].sweeping THEN CalibrationFails(c) ELSE Return(c) /\ UNCHANGED state
    /\ UNCHANGED <<files, active, chosen, accepted>>

Reproject(c) ==
    /\ At(c, "reproject")
    /\ runtime' = Projected(active)
    /\ Answer(c)
    /\ UNCHANGED <<files, active, state, chosen, diskFailed>>
ReprojectFails(c) ==
    /\ At(c, "reproject")
    /\ ProjectionCutOff(active)
    /\ diskFailed' = TRUE
    /\ Return(c)
    /\ UNCHANGED <<files, active, state, chosen, accepted>>

\* ensure_focus_calibration_for_active_profile() assumes the lens's own focal
\* length, in memory, before it knows whether readiness lets it calibrate.
NeedsCalibration == active.doc.focus = NoRange /\ state = "ready"
FocalLengthAssumed ==
    \E o \in Optics \cup {NoOptics} :
        /\ active.doc.optics # NoOptics => o = active.doc.optics
        /\ active' = [active EXCEPT !.doc.optics = o]

EnsureSweeps(c) ==
    /\ At(c, "ensure")
    /\ NeedsCalibration
    /\ FocalLengthAssumed
    /\ state' = "calibrate"
    /\ request' = [request EXCEPT ![c] = [@ EXCEPT !.at = "sweep", !.sweeping = TRUE,
                                                   !.id = active.id, !.doc = active'.doc]]
    /\ UNCHANGED <<files, runtime, chosen, diskFailed, accepted>>
EnsureRefused(c) ==
    /\ At(c, "ensure")
    /\ NeedsCalibration
    /\ FocalLengthAssumed
    /\ Goto(c, "reproject")
    /\ UNCHANGED <<files, runtime, state, chosen, diskFailed, accepted>>

\* There is a calibration, or the camera is one that cannot be calibrated.
EnsureSkips(c) ==
    /\ At(c, "ensure")
    /\ Answer(c)
    /\ UNCHANGED <<files, active, runtime, state, chosen, diskFailed>>

\* _persist_focus_calibration_result() begins with the object in memory.  The
\* accepted calibration of the session is kept, though the focal length changes.
Swept(c, f) ==
    /\ At(c, "sweep")
    /\ \E o \in Optics \cup {active.doc.optics} :
         active' = [active EXCEPT !.doc.focus = f, !.doc.optics = o]
    /\ Write(c, request[c].op, active.id, active'.doc, TRUE, TRUE)
    /\ UNCHANGED <<files, runtime, state, chosen, diskFailed, accepted>>

SweepFails(c) ==
    /\ At(c, "sweep")
    /\ CalibrationFails(c)
    /\ UNCHANGED <<files, active, runtime, chosen, diskFailed, accepted>>

Settle(c) ==
    /\ At(c, "settle")
    /\ state' = "ready"
    /\ Answer(c)
    /\ UNCHANGED <<files, active, runtime, chosen, diskFailed>>

-----------------------------------------------------------------------------
(* Sessions, as far as profiles see them *)

StartSession ==
    /\ \E c \in Clients : Free(c)
    /\ state = "ready" /\ active # Inactive
    /\ state' = "session"
    /\ UNCHANGED <<files, active, runtime, request, chosen, diskFailed, accepted>>

\* A session may calibrate, and a mount recovery may undo that.
EndSession ==
    /\ \E c \in Clients : Free(c)
    /\ state = "session"
    /\ state' = "ready"
    /\ accepted' \in {accepted, NotAccepted, [config |-> active.doc.config, other |-> FALSE]}
    /\ UNCHANGED <<files, active, runtime, request, chosen, diskFailed>>

-----------------------------------------------------------------------------

Asks(c) ==
    \/ \E p \in Profiles, d \in BOOLEAN, k \in Configs, o \in Optics \cup {NoOptics} :
         Create(c, p, d, k, o) \/ Replace(c, p, d, k, o)
    \/ \E p \in Profiles : Select(c, p)
    \/ Calibrate(c)
Proceeds(c) ==
    \/ ClearFlag(c) \/ ClearFails(c) \/ WriteDocument(c) \/ WriteFails(c)
    \/ Activate(c) \/ Project(c) \/ ProjectFails(c) \/ Reproject(c) \/ ReprojectFails(c)
    \/ EnsureSweeps(c) \/ EnsureRefused(c) \/ EnsureSkips(c)
    \/ (\E f \in Ranges : Swept(c, f)) \/ SweepFails(c) \/ Settle(c)

Next ==
    \/ Boot \/ Restart \/ StartSession \/ EndSession
    \/ \E c \in Clients : Asks(c) \/ Proceeds(c)

Spec == Init /\ [][Next]_vars

-----------------------------------------------------------------------------
(* Properties *)

\* write_profile() moves the flag in several writes and may be cut off between
\* any two of them, and calibrations write a document that was read long ago:
\* still no two files carry it, unless a write fails and is passed over.
AtMostOneDefault == ~diskFailed => \A p, q \in Defaults : p = q

\* Between requests the active profile in memory is the stored one and the focus
\* driver is shown its calibration, through replacements, calibrations that fail
\* half-way, sessions and restarts.  The memory may say more of the optics than a
\* file that is silent about them (an automatic calibration was refused), and keep
\* a flag that the file has lost.  An accepted calibration is never that of an
\* earlier configuration by the operator; it may be that of other optics, for a
\* focus calibration overwrites them and keeps it.
SameProfile(doc, stored) ==
    /\ stored \in Documents
    /\ doc.config = stored.config /\ doc.focus = stored.focus
    /\ stored.optics \in {doc.optics, NoOptics}
    /\ stored.default => doc.default
ActiveAgrees ==
    AllFree /\ active # Inactive /\ ~diskFailed =>
        /\ SameProfile(active.doc, files[active.id])
        /\ runtime = Projected(active)
        /\ accepted # NotAccepted /\ ~accepted.other => accepted.config = active.doc.config

\* What the operator made the default is what a later boot comes up with, ready,
\* whatever was selected, replaced or cut off in other files since, unless a focus
\* calibration of a profile that was the default before wrote its old flag back:
\* then it is that profile, against his choice.
BootsIntoChosen ==
    [][state = "down" /\ state' # "down" /\ chosen # NoChoice /\ ~diskFailed =>
         state' = "ready" /\ active'.id = Holder]_vars

\* discover() pauses for the operator to select a profile ("POST
\* /api/v1/equipment/profiles/{id}/select to choose the active profile"): once
\* he has, the node is no longer paused.
SelectionLeavesPause == AllFree /\ active # Inactive => state # "paused"

-----------------------------------------------------------------------------
(* A bound of the runs.  The properties above are about a disk that works, so  *)
(* a request in which a write fails is followed to its end and no further.     *)

OneFailure == diskFailed => ~AllFree

=============================================================================
