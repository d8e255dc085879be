--------------------------- MODULE ControlHandoff ---------------------------
(***************************************************************************)
(* The supervised session of ClawController (agent/claw.py): how Kepler    *)
(* attaches to an observatory run by Ekos, takes the shared INDI device    *)
(* path from it for a bounded intervention, and gives it back, or pauses,  *)
(* resumes and ends the session, at the request of HTTP handlers           *)
(* (api/app.py) and of the supervision driver.                             *)
(*                                                                         *)
(* The controller has no lock.  A handler that waits for DBus or for the   *)
(* broker is split where it waits: what it read before the wait is kept in *)
(* call[c], and what it writes after the wait is written without looking   *)
(* again at the session.  A client is a thread that runs one handler at a  *)
(* time: FastAPI runs its synchronous endpoints in a thread pool.          *)
(*                                                                         *)
(*   SerialSpec    a request starts only when no other one is in flight    *)
(*                 (the UI waits for its answer, the driver is one loop)   *)
(*   FairSpec      SerialSpec with answers that come and callers that retry*)
(*   ThreadedSpec  every client may start a request at any time            *)
(*                                                                         *)
(* Left out: the events and records a handler writes about a transition,   *)
(* readiness (storage, power, time sync) beyond "may refuse", and the      *)
(* pauses of a ready or paused session by camera_keepalive() and           *)
(* recover_camera_session(), which CameraPath models.                      *)
(***************************************************************************)
EXTENDS KeplerSession, InterventionLedger, FiniteSets

CONSTANT Clients      \* the threads that run handlers

ASSUME ClientsAssumption == IsFiniteSet(Clients) /\ Clients # {}

VARIABLES
    session,    \* RuntimeSession
    ledger,     \* session.intervention_ledger
    window,     \* ClawController._intervention_window
    ekos,       \* what EkosAdapter.status() reports
    broker,     \* what canonical_state() makes of the broker snapshot
    call,       \* the handler each client is in the middle of
    yielded     \* history: Ekos has been paused since the handover began

system == <<session, ledger, window, ekos, broker, call>>
vars   == <<system, yielded>>

Windows      == {"closed", "requested", "open", "releasing"}
EkosStates   == {"idle", "running", "paused", "resuming", "aborted",
                 "unavailable", "unknown"}
BrokerStates == {"ready", "degraded", "unavailable", "unknown"}

\* What a handler is waiting for; "idle" is no handler.
Waits == {"idle", "attach", "advance", "pause",
          "begin_send", "begin_confirm", "begin_settle",
          "complete_send", "complete_confirm", "confirm", "confirm_settle",
          "resume_check", "resume_send", "resume_confirm"}

\* ctx: the resume target a handler read before it waited (pause, resume);
\* kind: the intervention it was asked to begin.
Calls == [wait: Waits, ctx: Contexts \cup {NoContext}, kind: Kinds \cup {NoKind}]
Idle  == [wait |-> "idle", ctx |-> NoContext, kind |-> NoKind]

TypeOK ==
    /\ session \in Sessions
    /\ ledger \in Ledgers
    /\ window \in Windows
    /\ ekos \in EkosStates
    /\ broker \in BrokerStates
    /\ call \in [Clients -> Calls]
    /\ yielded \in BOOLEAN

Init ==
    /\ session = ReadySession
    /\ ledger = NoRecords
    /\ window = "closed"
    /\ ekos \in EkosStates
    /\ broker = "ready"
    /\ call = [c \in Clients |-> Idle]
    /\ yielded = FALSE

-----------------------------------------------------------------------------
(* Calls and the Ekos adapter *)

Wait(c, wait)          == call' = [call EXCEPT ![c].wait = wait]
WaitWith(c, wait, ctx) == call' = [call EXCEPT ![c] = [@ EXCEPT !.wait = wait, !.ctx = ctx]]
Return(c)              == call' = [call EXCEPT ![c] = Idle]
At(c, wait)            == call[c].wait = wait

\* ekos.pause(): its result is ignored by every caller, and a request that
\* was lost, or came while nothing was executing, changes nothing.
PauseRequest ==
    \/ UNCHANGED ekos
    \/ ekos \in {"running", "resuming"} /\ ekos' = "paused"

\* ekos.resume() returned True: Ekos reports the new posture now or later.
ResumeAccepted ==
    /\ ekos # "unavailable"
    /\ IF ekos = "paused" THEN ekos' \in {"paused", "resuming", "running"}
                          ELSE UNCHANGED ekos

Handover == {"requested", "releasing"}

\* What every step adds to the history.  No guard reads it.
Observed ==
    yielded' = /\ window' \in Handover
               /\ \/ ekos' = "paused"
                  \/ yielded

-----------------------------------------------------------------------------
(* Faulty variants of the definitions below, one for each property: model  *)
(* checking with the variant in place must find that property violated.    *)

BeginSendSilently(c) ==         \* asks Ekos to pause, leaves the window closed
    /\ At(c, "begin_send")
    /\ PauseRequest
    /\ Wait(c, "begin_confirm")
    /\ UNCHANGED <<session, ledger, window, broker>>

BeginConfirmTrusts(c) ==        \* takes the pause request for a confirmation
    /\ At(c, "begin_confirm")
    /\ Wait(c, "begin_settle")
    /\ UNCHANGED <<session, ledger, window, ekos, broker>>

BeginUnconfirmedStays(c) ==     \* stays in monitoring, as the docstring says
    /\ \/ At(c, "begin_confirm") /\ ekos # "paused"
       \/ At(c, "begin_settle")
    /\ Return(c)
    /\ UNCHANGED <<session, ledger, window, ekos, broker>>

CompleteStartOnce(c) ==         \* does not accept a retry
    /\ session.state = "intervening"
    /\ window = "open"
    /\ ledger' = CloseIntervention(ledger)
    /\ window' = "releasing"
    /\ Wait(c, "complete_send")
    /\ UNCHANGED <<session, ekos, broker>>

CompleteSendReopens(c) ==       \* a failed resume restores the open window
    /\ At(c, "complete_send")
    /\ window' = "open"
    /\ Return(c)
    /\ UNCHANGED <<session, ledger, ekos, broker>>

ResumeStartForgets(c) ==        \* does not keep the context it read
    /\ session.state = "paused"
    /\ session.ctx # NoContext
    /\ Wait(c, "resume_check")
    /\ UNCHANGED <<session, ledger, window, ekos, broker>>

StopKeepsWindow ==
    /\ session.managed
    /\ session.state \notin PreSessionStates \cup TerminalStates
    /\ session' = Stopped(session)
    /\ UNCHANGED <<window, ledger, ekos, broker, call>>

\* confirm_ekos_resumed()
EkosResumed == ekos = "running"

\* What confirm_ekos_paused() asks of canonical_state().  It then drains the
\* activity queues, which polls the mount over INDI, and tests that activity has
\* settled, without asking again: the settle waits below.
PauseConfirmable == broker # "unknown" /\ ekos = "paused"

-----------------------------------------------------------------------------
(* Attach and advance *)

AttachStart(c) ==
    /\ session.state = "ready"
    /\ Wait(c, "attach")
    /\ UNCHANGED <<session, ledger, window, ekos, broker>>

\* The supervision blockers, once the broker and Ekos have answered.
SupervisionBlocked == ekos = "unavailable" \/ broker # "ready"

AttachCommit(c) ==
    /\ At(c, "attach")
    /\ ~SupervisionBlocked
    /\ session' = [session EXCEPT !.state = "ekos_wait", !.intent = "supervision",
                                  !.locked = TRUE, !.managed = TRUE]
    /\ ledger' = NoRecords
    /\ Return(c)
    /\ UNCHANGED <<window, ekos, broker>>

\* A blocker, or no active profile, or a readiness condition.
AttachRefused(c) ==
    /\ At(c, "attach")
    /\ Return(c)
    /\ UNCHANGED <<session, ledger, window, ekos, broker>>

\* write_session_record() raises: session_id is assigned, nothing else is.
AttachUnrecorded(c) ==
    /\ At(c, "attach")
    /\ ~SupervisionBlocked
    /\ session' = [session EXCEPT !.managed = TRUE]
    /\ Return(c)
    /\ UNCHANGED <<ledger, window, ekos, broker>>

AdvanceStart(c) ==
    /\ session.state = "ekos_wait"
    /\ Wait(c, "advance")
    /\ UNCHANGED <<session, ledger, window, ekos, broker>>

AdvanceCommit(c) ==
    /\ At(c, "advance")
    /\ session' = IF ekos = "running" THEN [session EXCEPT !.state = "monitoring"]
                                      ELSE session
    /\ Return(c)
    /\ UNCHANGED <<ledger, window, ekos, broker>>

-----------------------------------------------------------------------------
(* Pause: by the operator, on an external-control conflict, or because an  *)
(* intervention's retry budget is spent.  Each reads the resume target,    *)
(* asks Ekos to pause, and then pauses the session.                        *)

\* The endpoint rejects an unmanaged session; a paused one stays as it is.
PauseStart(c) ==
    /\ session.managed
    /\ session.state \notin PreSessionStates \cup TerminalStates \cup {"paused"}
    /\ WaitWith(c, "pause", PauseTarget(session))
    /\ UNCHANGED <<session, ledger, window, ekos, broker>>

\* check_and_handle_conflicts() finds an activity event Kepler did not author.
\* Its only guard is the control lock: a paused session still holds it.
ConflictStart(c) ==
    /\ session.locked
    /\ WaitWith(c, "pause", ConflictTarget(session))
    /\ UNCHANGED <<session, ledger, window, ekos, broker>>

PauseCommit(c) ==
    /\ At(c, "pause")
    /\ PauseRequest
    /\ window' = "requested"
    /\ session' = Paused(session, call[c].ctx.resume, call[c].ctx.intent)
    /\ Return(c)
    /\ UNCHANGED <<ledger, broker>>

-----------------------------------------------------------------------------
(* begin_intervention(): monitoring -> intervening *)

MonitoringTarget == [resume |-> "monitoring", intent |-> "supervision"]

BeginExhausted(c, k) ==
    /\ session.state = "monitoring"
    /\ IsRetryExhausted(ledger, k)
    /\ WaitWith(c, "pause", MonitoringTarget)
    /\ UNCHANGED <<session, ledger, window, ekos, broker>>

BeginStart(c, k) ==
    /\ session.state = "monitoring"
    /\ ~IsRetryExhausted(ledger, k)
    /\ call' = [call EXCEPT ![c] = [@ EXCEPT !.wait = "begin_send", !.kind = k]]
    /\ UNCHANGED <<session, ledger, window, ekos, broker>>

BeginSend(c) ==
    /\ At(c, "begin_send")
    /\ PauseRequest
    /\ window' = "requested"
    /\ Wait(c, "begin_confirm")
    /\ UNCHANGED <<session, ledger, broker>>

BeginConfirm(c) ==
    /\ At(c, "begin_confirm")
    /\ PauseConfirmable
    /\ Wait(c, "begin_settle")
    /\ UNCHANGED <<session, ledger, window, ekos, broker>>

BeginOpen(c) ==
    /\ At(c, "begin_settle")
    /\ window' = "open"
    /\ ledger' = OpenIntervention(ledger, call[c].kind)
    /\ session' = [session EXCEPT !.state = "intervening"]
    /\ Return(c)
    /\ UNCHANGED <<ekos, broker>>

\* Ekos is not confirmably paused, or device activity has not settled.
BeginUnconfirmed(c) ==
    /\ \/ At(c, "begin_confirm") /\ ~PauseConfirmable
       \/ At(c, "begin_settle")
    /\ session' = Paused(session, "monitoring", "supervision")
    /\ Return(c)
    /\ UNCHANGED <<ledger, window, ekos, broker>>

-----------------------------------------------------------------------------
(* complete_intervention(): intervening -> monitoring *)

CompleteStart(c) ==
    /\ session.state = "intervening"
    /\ ledger' = CloseIntervention(ledger)
    /\ window' = "releasing"
    /\ Wait(c, "complete_send")
    /\ UNCHANGED <<session, ekos, broker>>

CompleteSend(c) ==
    /\ At(c, "complete_send")
    /\ ResumeAccepted
    /\ Wait(c, "complete_confirm")
    /\ UNCHANGED <<session, ledger, window, broker>>

CompleteSendFails(c) ==
    /\ At(c, "complete_send")
    /\ window' = "requested"
    /\ Return(c)
    /\ UNCHANGED <<session, ledger, ekos, broker>>

CompleteConfirm(c) ==
    /\ At(c, "complete_confirm")
    /\ EkosResumed
    /\ window' = "closed"
    /\ session' = [session EXCEPT !.state = "monitoring"]
    /\ Return(c)
    /\ UNCHANGED <<ledger, ekos, broker>>

CompleteUnconfirmed(c) ==
    /\ At(c, "complete_confirm")
    /\ ~EkosResumed
    /\ window' = "releasing"
    /\ Return(c)
    /\ UNCHANGED <<session, ledger, ekos, broker>>

-----------------------------------------------------------------------------
(* confirm_ekos_paused() called while paused, before verification work *)

ConfirmStart(c) ==
    /\ session.state = "paused"
    /\ Wait(c, "confirm")
    /\ UNCHANGED <<session, ledger, window, ekos, broker>>

ConfirmRead(c) ==
    /\ At(c, "confirm")
    /\ PauseConfirmable
    /\ Wait(c, "confirm_settle")
    /\ UNCHANGED <<session, ledger, window, ekos, broker>>

ConfirmOpen(c) ==
    /\ At(c, "confirm_settle")
    /\ window' = "open"
    /\ Return(c)
    /\ UNCHANGED <<session, ledger, ekos, broker>>

ConfirmRefused(c) ==
    /\ \/ At(c, "confirm") /\ ~PauseConfirmable
       \/ At(c, "confirm_settle")
    /\ Return(c)
    /\ UNCHANGED <<session, ledger, window, ekos, broker>>

-----------------------------------------------------------------------------
(* resume(): paused -> the stored resume state *)

ResumeStart(c) ==
    /\ session.state = "paused"
    /\ session.ctx # NoContext
    /\ WaitWith(c, "resume_check", session.ctx)
    /\ UNCHANGED <<session, ledger, window, ekos, broker>>

ResumeBlocked == \/ ekos \in {"unknown", "unavailable", "running"}
                 \/ broker \in {"unknown", "unavailable"}

ResumeCheck(c) ==
    /\ At(c, "resume_check")
    /\ ~ResumeBlocked
    /\ window' = "releasing"
    /\ Wait(c, "resume_send")
    /\ UNCHANGED <<session, ledger, ekos, broker>>

ResumeRefused(c) ==
    /\ At(c, "resume_check")
    /\ ResumeBlocked
    /\ window' = "requested"
    /\ Return(c)
    /\ UNCHANGED <<session, ledger, ekos, broker>>

ResumeSend(c) ==
    /\ At(c, "resume_send")
    /\ ResumeAccepted
    /\ Wait(c, "resume_confirm")
    /\ UNCHANGED <<session, ledger, window, broker>>

ResumeSendFails(c) ==
    /\ At(c, "resume_send")
    /\ window' = "requested"
    /\ Return(c)
    /\ UNCHANGED <<session, ledger, ekos, broker>>

ResumeConfirm(c) ==
    /\ At(c, "resume_confirm")
    /\ EkosResumed
    /\ window' = "closed"
    /\ session' = [session EXCEPT !.state = call[c].ctx.resume,
                                  !.intent = call[c].ctx.intent,
                                  !.ctx = NoContext]
    /\ Return(c)
    /\ UNCHANGED <<ledger, ekos, broker>>

ResumeUnconfirmed(c) ==
    /\ At(c, "resume_confirm")
    /\ ~EkosResumed
    /\ window' = "releasing"
    /\ Return(c)
    /\ UNCHANGED <<session, ledger, ekos, broker>>

-----------------------------------------------------------------------------
(* Ending a session and clearing it.  These handlers write what decides    *)
(* control before they wait for anything.                                  *)

Stop ==
    /\ session.managed
    /\ session.state \notin PreSessionStates \cup TerminalStates
    /\ session' = Stopped(session)
    /\ window' = "closed"
    /\ UNCHANGED <<ledger, ekos, broker, call>>

ReleaseControl ==
    /\ session.state = "paused"
    /\ session.managed
    /\ session' = Released(session)
    /\ ledger' = NoRecords
    /\ window' = "closed"
    /\ UNCHANGED <<ekos, broker, call>>

\* fail() itself has no guard; the driver uses it on a session it runs.
Fail ==
    /\ session.locked
    /\ session' = Failed(session)
    /\ ledger' = NoRecords
    /\ window' = "closed"
    /\ UNCHANGED <<ekos, broker, call>>

CompleteSupervised ==
    /\ session.state \in {"monitoring", "ekos_wait"}
    /\ session' = Ended(session, "completed", "completed")
    /\ ledger' = NoRecords
    /\ window' = "closed"
    /\ UNCHANGED <<ekos, broker, call>>

AcknowledgeComplete ==
    /\ session.state = "completed"
    /\ session' = Cleared(session)
    /\ ledger' = NoRecords
    /\ UNCHANGED <<window, ekos, broker, call>>

ClearFailure ==
    /\ session.state = "failed"
    /\ session' = Cleared(session)
    /\ ledger' = NoRecords
    /\ UNCHANGED <<window, ekos, broker, call>>

-----------------------------------------------------------------------------
(* The environment: Ekos obeys its own operator too, and both Ekos and the *)
(* broker can become unreachable and come back.                            *)

Undisturbed == UNCHANGED <<session, ledger, window, call>>

EkosMoves   == ekos' \in EkosStates \ {ekos} /\ UNCHANGED broker /\ Undisturbed
EkosSettles == ekos = "resuming" /\ ekos' = "running" /\ UNCHANGED broker /\ Undisturbed
BrokerMoves == broker' \in BrokerStates \ {broker} /\ UNCHANGED ekos /\ Undisturbed

-----------------------------------------------------------------------------

\* A handler begins (and, if it waits for nothing, also ends).
Begins(c) ==
    \/ AttachStart(c) \/ AdvanceStart(c) \/ PauseStart(c)
    \/ \E k \in Kinds : BeginExhausted(c, k) \/ BeginStart(c, k)
    \/ CompleteStart(c) \/ ConfirmStart(c) \/ ResumeStart(c)
    \/ Stop \/ ReleaseControl \/ Fail \/ CompleteSupervised
    \/ AcknowledgeComplete \/ ClearFailure

\* A handler gets the answer it was waiting for.
Continues(c) ==
    \/ AttachCommit(c) \/ AttachRefused(c) \/ AttachUnrecorded(c)
    \/ AdvanceCommit(c) \/ PauseCommit(c)
    \/ BeginSend(c) \/ BeginConfirm(c) \/ BeginOpen(c) \/ BeginUnconfirmed(c)
    \/ CompleteSend(c) \/ CompleteSendFails(c)
    \/ CompleteConfirm(c) \/ CompleteUnconfirmed(c)
    \/ ConfirmRead(c) \/ ConfirmOpen(c) \/ ConfirmRefused(c)
    \/ ResumeCheck(c) \/ ResumeRefused(c) \/ ResumeSend(c) \/ ResumeSendFails(c)
    \/ ResumeConfirm(c) \/ ResumeUnconfirmed(c)

Free(c)  == call[c] = Idle
AllFree  == \A c \in Clients : Free(c)

Environment == EkosMoves \/ BrokerMoves

SerialNext ==
    /\ \/ \E c \in Clients : \/ AllFree /\ (Begins(c) \/ ConflictStart(c))
                            \/ Continues(c)
       \/ Environment
    /\ Observed
SerialSpec == Init /\ [][SerialNext]_vars

\* What the controller itself enforces on the order of requests: nothing.
ThreadedNext ==
    /\ \/ \E c \in Clients : \/ Free(c) /\ (Begins(c) \/ ConflictStart(c))
                            \/ Continues(c)
       \/ Environment
    /\ Observed
ThreadedSpec == Init /\ [][ThreadedNext]_vars

\* A handler that waits gets its answer; the driver retries
\* complete_intervention() and the operator resume(); and a resume request
\* that is sent again and again is carried out in the end.
Effective(A) == A /\ ekos' = "running"
FairSpec ==
    /\ SerialSpec
    /\ WF_system(EkosSettles)
    /\ \A c \in Clients :
        /\ WF_system(Continues(c))
        /\ SF_system(AllFree /\ CompleteStart(c))
        /\ SF_system(AllFree /\ ResumeStart(c))
        /\ SF_system(Effective(CompleteSend(c)))
        /\ SF_system(Effective(ResumeSend(c)))

-----------------------------------------------------------------------------
(* Safety *)

\* Whatever ends a session (stop, release, failure, normal completion) leaves
\* nothing of it in control: an outcome is recorded exactly in the terminal
\* states, and a session that does not own the devices has no open window and
\* nothing to resume (RuntimeSession.stop/fail/release_control, _release paths).
EndedMeansReleased ==
    /\ IsTerminal(session) <=> session.outcome # "none"
    /\ session.state \in TerminalStates \cup {"ready"} <=> ~session.locked
    /\ ~session.locked => window = "closed" /\ session.ctx = NoContext

\* A session is paused exactly when it can be resumed, so the resume endpoint's
\* "No resume context available" and resume()'s failure path for it are never
\* taken, and no stale context survives into an executing session.
PausedIffResumable == session.state = "paused" <=> session.ctx # NoContext

\* The window and the session agree between requests: Kepler only supervises
\* while the window is closed, and only a paused or intervening session may be
\* in the middle of a handover (begin/complete_intervention, pause, resume).
WindowMatchesSession ==
    /\ window = "open" => session.state \in {"intervening", "paused"} /\ session.locked
    /\ session.state = "paused" => window # "closed"
    /\ AllFree /\ window # "closed" => session.state \in {"intervening", "paused"}

\* While Kepler intervenes with an open window, the ledger holds an open record
\* of the intervention: GET .../intervention never answers "none active" then.
InterventionIsRecorded ==
    session.state = "intervening" /\ window = "open" =>
        ledger.active \in Kinds /\ ledger.unclosed[ledger.active] > 0

-----------------------------------------------------------------------------
(* Action properties *)

\* The device path changes hands on evidence, not on a request.  It goes back to
\* Ekos on a reading of RUNNING.  It goes to Kepler only if Ekos has been paused
\* at some moment of this handover, however many requests were lost, refused or
\* repeated on the way (resume, begin/complete_intervention,
\* confirm_ekos_paused).  That Ekos is still paused when the window opens is not
\* claimed: activity is drained between the reading and the opening.
HandoverConfirmed ==
    [][/\ session.locked' /\ window' = "closed" /\ window # "closed" => ekos = "running"
       /\ window' = "open" /\ window # "open" => yielded]_vars

-----------------------------------------------------------------------------
(* Refinement: who holds the shared device path *)

owner == CASE ~session.locked -> "none"
           [] session.locked /\ window = "open"   -> "kepler"
           [] session.locked /\ window = "closed" -> "ekos"
           [] OTHER -> "handover"

Semaphore == INSTANCE DeviceSemaphore WITH holder <- owner

\* The handoff implements the device semaphore: ownership never passes from
\* Ekos to Kepler or back except through a handover (Control Handoff Protocol).
ImplementsSemaphore == Semaphore!Spec

-----------------------------------------------------------------------------
(* Liveness *)

\* From some point on nobody but Kepler disturbs Ekos, no foreign motion is
\* seen, and Ekos is not off the sequence Kepler asked it to hold.
Cooperative ==
    /\ <>[][/\ ekos' # ekos => call' # call \/ EkosSettles
            /\ \A c \in Clients : ~ConflictStart(c)]_vars
    /\ <>[](ekos \in {"paused", "resuming", "running"} /\ broker = "ready")

\* An intervention does not last for ever: with a cooperative Ekos and a driver
\* that retries complete_intervention(), Kepler leaves intervening, whatever
\* Ekos and the broker did before that.
InterventionEnds ==
    Cooperative => (session.state = "intervening" ~> session.state # "intervening")

-----------------------------------------------------------------------------
(* What comments and docstrings say that the code does not do *)

\* resume(): "accepted but Ekos not yet confirmed running; call resume() again":
\* when Ekos does carry out the accepted request, calling it again resumes the
\* session.
ResumeCompletes ==
    Cooperative =>
        ((AllFree /\ session.state = "paused"
            /\ window = "releasing" /\ ekos \in {"resuming", "running"})
         ~> session.state # "paused")

=============================================================================
