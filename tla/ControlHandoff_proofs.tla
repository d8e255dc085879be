------------------------ MODULE ControlHandoff_proofs ------------------------
(***************************************************************************)
(* Proofs about ControlHandoff for any set of clients, any kinds of        *)
(* intervention and any retry budget.                                      *)
(*                                                                         *)
(* With one request at a time (SerialSpec), IInv strengthens the safety    *)
(* invariants until a step preserves them: it adds that at most one handler*)
(* is in flight, that what this handler read still holds, and that a paused*)
(* session resumes into an active state.  Two theorems at the end are about*)
(* overlapping requests (ThreadedSpec), where none of that is so.          *)
(***************************************************************************)
EXTENDS ControlHandoff, TLAPS, FiniteSetTheorems

\* TypeOK without the history.
SystemTypeOK ==
    /\ session \in Sessions
    /\ ledger \in Ledgers
    /\ window \in Windows
    /\ ekos \in EkosStates
    /\ broker \in BrokerStates
    /\ call \in [Clients -> Calls]

\* What a handler read before it waited still holds when its answer comes.
ActiveTargets == ClawStates \ ({"ready", "paused"} \cup TerminalStates)
StillValid(me) ==
    /\ me.wait = "attach"  => session.state = "ready"
    /\ me.wait = "advance" => session.state = "ekos_wait"
    /\ me.wait = "pause"   => session.locked /\ me.ctx.resume \in ActiveTargets
    /\ me.wait \in {"begin_send", "begin_confirm", "begin_settle"} =>
         session.state = "monitoring" /\ me.kind \in Kinds
    /\ me.wait \in {"begin_confirm", "begin_settle"} => window = "requested"
    /\ me.wait \in {"complete_send", "complete_confirm"} =>
         session.state = "intervening" /\ window = "releasing"
    /\ me.wait \in {"confirm", "confirm_settle"} => session.state = "paused"
    /\ me.wait \in {"resume_check", "resume_send", "resume_confirm"} =>
         session.state = "paused" /\ me.ctx = session.ctx
    /\ me.wait \in {"resume_send", "resume_confirm"} => window = "releasing"
InFlightStillValid == \A c \in Clients : StillValid(call[c])

OneInFlight ==
    /\ \A c, d \in Clients : call[c] # Idle /\ call[d] # Idle => c = d
    /\ \A c \in Clients : call[c].wait = "idle" => call[c] = Idle

ResumesActive == session.ctx # NoContext => session.ctx.resume \in ActiveTargets

\* WindowMatchesSession, for the states in which a handler is in flight too.
WindowPhase ==
    /\ window = "open" => session.state \in {"intervening", "paused"}
    /\ session.state = "paused" => window # "closed"
    /\ window # "closed" =>
         \/ session.state \in {"intervening", "paused"}
         \/ \E c \in Clients : call[c].wait \in {"begin_confirm", "begin_settle"}

IInv ==
    /\ SystemTypeOK
    /\ OneInFlight
    /\ InFlightStillValid
    /\ ResumesActive
    /\ EndedMeansReleased
    /\ PausedIffResumable
    /\ WindowPhase
    /\ InterventionIsRecorded

-----------------------------------------------------------------------------
(* The ledger *)

\* Opening an intervention counts one attempt of its kind and records it as active.
LEMMA OpenCounts ==
    ASSUME NEW l \in Ledgers, NEW k \in Kinds
    PROVE  LET o == OpenIntervention(l, k) IN
           /\ o \in Ledgers
           /\ o.attempts[k] = l.attempts[k] + 1
           /\ \A j \in Kinds \ {k} : o.attempts[j] = l.attempts[j]
           /\ o.active = k /\ o.unclosed[k] > 0
  BY DEF OpenIntervention, Ledgers

LEMMA OpenStaysTyped ==
    ASSUME NEW l \in Ledgers, NEW k \in Kinds \cup {NoKind}
    PROVE  OpenIntervention(l, k) \in Ledgers
<1>1. ASSUME NEW f \in [Kinds -> Nat]
      PROVE  [f EXCEPT ![k] = @ + 1] \in [Kinds -> Nat]
  <2> DEFINE g == [f EXCEPT ![k] = @ + 1]
  <2>1. \A j \in Kinds : g[j] = IF j = k THEN f[j] + 1 ELSE f[j]
    OBVIOUS
  <2>2. \A j \in Kinds : g[j] \in Nat
    BY <2>1
  <2>3. g = [j \in Kinds |-> g[j]]
    OBVIOUS
  <2> HIDE DEF g
  <2>4. g \in [Kinds -> Nat]
    BY <2>2, <2>3
  <2> QED BY <2>4 DEF g
<1>2. l.attempts \in [Kinds -> Nat] /\ l.unclosed \in [Kinds -> Nat]
  BY DEF Ledgers
<1>3. /\ [l.attempts EXCEPT ![k] = @ + 1] \in [Kinds -> Nat]
      /\ [l.unclosed EXCEPT ![k] = @ + 1] \in [Kinds -> Nat]
  BY <1>1, <1>2
<1> QED BY <1>3 DEF OpenIntervention, Ledgers

\* Closing one keeps the attempts, and never counts below zero.
LEMMA CloseKeepsAttempts ==
    ASSUME NEW l \in Ledgers
    PROVE  LET d == CloseIntervention(l) IN d \in Ledgers /\ d.attempts = l.attempts
<1> DEFINE u == [k \in Kinds |-> IF k = l.active /\ l.unclosed[k] > 0
                                THEN l.unclosed[k] - 1 ELSE l.unclosed[k]]
<1>1. u \in [Kinds -> Nat]
  BY DEF Ledgers
<1>2. CloseIntervention(l) = [l EXCEPT !.active = NoKind, !.unclosed = u]
  BY DEF CloseIntervention
<1> HIDE DEF u
<1> QED BY <1>1, <1>2 DEF Ledgers

-----------------------------------------------------------------------------
(* Calls: at most one handler is in flight, and a handler starts alone. *)

\* When the handler in flight returns, nobody is in flight.
LEMMA ReturnLeavesAllFree ==
    ASSUME NEW c \in Clients, call \in [Clients -> Calls], OneInFlight,
           call[c].wait # "idle", Return(c)
    PROVE  /\ call' \in [Clients -> Calls]
           /\ \A d \in Clients : call'[d] = Idle
  BY DEF OneInFlight, Return, Idle, Calls, Waits

\* Then whatever else the step did, the calls are consistent with it.
LEMMA AllFreeIsQuiet ==
    ASSUME \A d \in Clients : call'[d] = Idle
    PROVE  OneInFlight' /\ InFlightStillValid'
  BY DEF OneInFlight, InFlightStillValid, StillValid, Idle

\* A handler that starts alone, or goes on waiting, is the only one.
LEMMA WaitStaysAlone ==
    ASSUME NEW c \in Clients, call \in [Clients -> Calls],
           AllFree \/ (OneInFlight /\ call[c].wait # "idle"),
           NEW me \in Calls, me.wait # "idle",
           call' = [call EXCEPT ![c] = me], StillValid(me)'
    PROVE  /\ call' \in [Clients -> Calls]
           /\ OneInFlight'
           /\ InFlightStillValid'
           /\ call'[c] = me
<1>1. /\ call' \in [Clients -> Calls]
      /\ call'[c] = me
      /\ \A d \in Clients \ {c} : call'[d] = Idle
  BY DEF OneInFlight, AllFree, Free, Idle, Calls
<1>2. OneInFlight'
  BY <1>1 DEF OneInFlight, Idle
<1>3. InFlightStillValid'
  <2>1. \A d \in Clients \ {c} : StillValid(call[d])'
    BY <1>1 DEF StillValid, Idle
  <2>2. StillValid(call[c])'
    BY <1>1 DEF StillValid
  <2> QED BY <2>1, <2>2 DEF InFlightStillValid
<1> QED BY <1>1, <1>2, <1>3

\* A step that only starts a handler preserves the invariant, if what the
\* handler read is so.
LEMMA StartPreserves ==
    ASSUME IInv, AllFree, NEW c \in Clients, NEW me \in Calls,
           me.wait # "idle",
           call' = [call EXCEPT ![c] = me], StillValid(me),
           UNCHANGED <<session, ledger, window, ekos, broker>>
    PROVE  IInv'
<1>1. StillValid(me)'
  BY DEF StillValid
<1>2. call' \in [Clients -> Calls] /\ OneInFlight' /\ InFlightStillValid'
  BY <1>1, WaitStaysAlone DEF IInv, SystemTypeOK
<1>3. SystemTypeOK' /\ ResumesActive' /\ EndedMeansReleased' /\ PausedIffResumable'
      /\ InterventionIsRecorded'
  BY <1>2 DEF IInv, SystemTypeOK, ResumesActive, EndedMeansReleased, PausedIffResumable,
              InterventionIsRecorded, IsTerminal
<1>4. WindowPhase'
  BY DEF IInv, WindowPhase, AllFree, Free, Idle
<1> QED BY <1>2, <1>3, <1>4 DEF IInv


LEMMA AttachStartPreserves ==
    ASSUME IInv, AllFree, NEW c \in Clients, AttachStart(c)
    PROVE  IInv'
<1>1. call[c] = Idle /\ call[c] \in Calls
  BY DEF AllFree, Free, IInv, SystemTypeOK
<1>2. [Idle EXCEPT !.wait = "attach"] \in Calls
  BY <1>1 DEF AttachStart, Calls, Waits, Idle
<1>3. PICK me \in Calls : me = [Idle EXCEPT !.wait = "attach"]
  BY <1>2
<1>4. me.wait # "idle" /\ StillValid(me)
  BY <1>1, <1>3 DEF AttachStart, StillValid, Calls, Idle
<1>5. call' = [call EXCEPT ![c] = me]
  BY <1>1, <1>3 DEF IInv, SystemTypeOK, AttachStart, Wait, WaitWith, Idle, Calls
<1>6. UNCHANGED <<session, ledger, window, ekos, broker>>
  BY DEF AttachStart
<1> QED BY <1>4, <1>5, <1>6, StartPreserves

LEMMA AdvanceStartPreserves ==
    ASSUME IInv, AllFree, NEW c \in Clients, AdvanceStart(c)
    PROVE  IInv'
<1>1. call[c] = Idle /\ call[c] \in Calls
  BY DEF AllFree, Free, IInv, SystemTypeOK
<1>2. [Idle EXCEPT !.wait = "advance"] \in Calls
  BY <1>1 DEF AdvanceStart, Calls, Waits, Idle
<1>3. PICK me \in Calls : me = [Idle EXCEPT !.wait = "advance"]
  BY <1>2
<1>4. me.wait # "idle" /\ StillValid(me)
  BY <1>1, <1>3 DEF AdvanceStart, StillValid, Calls, Idle
<1>5. call' = [call EXCEPT ![c] = me]
  BY <1>1, <1>3 DEF IInv, SystemTypeOK, AdvanceStart, Wait, WaitWith, Idle, Calls
<1>6. UNCHANGED <<session, ledger, window, ekos, broker>>
  BY DEF AdvanceStart
<1> QED BY <1>4, <1>5, <1>6, StartPreserves

LEMMA PauseStartPreserves ==
    ASSUME IInv, AllFree, NEW c \in Clients, PauseStart(c)
    PROVE  IInv'
<1>1. call[c] = Idle /\ call[c] \in Calls
  BY DEF AllFree, Free, IInv, SystemTypeOK
<1>a. session.locked /\ PauseTarget(session).resume \in ActiveTargets
  BY DEF IInv, SystemTypeOK, Sessions, EndedMeansReleased, PauseStart, PauseTarget, ActiveTargets,
         ClawStates, PreSessionStates, LoopStates, CaptureStates, SupervisoryStates,
         TerminalStates
<1>b. PauseTarget(session) \in Contexts
  BY <1>a DEF IInv, SystemTypeOK, Sessions, PauseTarget, ActiveTargets, Contexts, Intents
<1>2. [Idle EXCEPT !.wait = "pause", !.ctx = PauseTarget(session)] \in Calls
  BY <1>a, <1>b, <1>1 DEF PauseStart, Calls, Waits, Idle
<1>3. PICK me \in Calls : me = [Idle EXCEPT !.wait = "pause", !.ctx = PauseTarget(session)]
  BY <1>2
<1>4. me.wait # "idle" /\ StillValid(me)
  BY <1>a, <1>b, <1>1, <1>3 DEF PauseStart, StillValid, Calls, Idle
<1>5. call' = [call EXCEPT ![c] = me]
  BY <1>1, <1>3 DEF IInv, SystemTypeOK, PauseStart, Wait, WaitWith, Idle, Calls
<1>6. UNCHANGED <<session, ledger, window, ekos, broker>>
  BY DEF PauseStart
<1> QED BY <1>4, <1>5, <1>6, StartPreserves

LEMMA ConflictStartPreserves ==
    ASSUME IInv, AllFree, NEW c \in Clients, ConflictStart(c)
    PROVE  IInv'
<1>1. call[c] = Idle /\ call[c] \in Calls
  BY DEF AllFree, Free, IInv, SystemTypeOK
<1>a. session.locked /\ ConflictTarget(session).resume \in ActiveTargets
  BY DEF IInv, SystemTypeOK, Sessions, EndedMeansReleased, ConflictStart, SafeResumeStates,
      ConflictTarget, ActiveTargets,
         ClawStates, PreSessionStates, LoopStates, CaptureStates, SupervisoryStates,
         TerminalStates
<1>b. ConflictTarget(session) \in Contexts
  BY <1>a DEF IInv, SystemTypeOK, Sessions, ConflictTarget, ActiveTargets, Contexts, Intents
<1>2. [Idle EXCEPT !.wait = "pause", !.ctx = ConflictTarget(session)] \in Calls
  BY <1>a, <1>b, <1>1 DEF ConflictStart, Calls, Waits, Idle
<1>3. PICK me \in Calls : me = [Idle EXCEPT !.wait = "pause", !.ctx = ConflictTarget(session)]
  BY <1>2
<1>4. me.wait # "idle" /\ StillValid(me)
  BY <1>a, <1>b, <1>1, <1>3 DEF ConflictStart, StillValid, Calls, Idle
<1>5. call' = [call EXCEPT ![c] = me]
  BY <1>1, <1>3 DEF IInv, SystemTypeOK, ConflictStart, Wait, WaitWith, Idle, Calls
<1>6. UNCHANGED <<session, ledger, window, ekos, broker>>
  BY DEF ConflictStart
<1> QED BY <1>4, <1>5, <1>6, StartPreserves

LEMMA BeginExhaustedPreserves ==
    ASSUME IInv, AllFree, NEW c \in Clients, NEW k \in Kinds, BeginExhausted(c, k)
    PROVE  IInv'
<1>1. call[c] = Idle /\ call[c] \in Calls
  BY DEF AllFree, Free, IInv, SystemTypeOK
<1>a. session.locked /\ MonitoringTarget.resume \in ActiveTargets
  BY DEF IInv, SystemTypeOK, Sessions, EndedMeansReleased, BeginExhausted, MonitoringTarget,
      ActiveTargets,
         ClawStates, PreSessionStates, LoopStates, CaptureStates, SupervisoryStates,
         TerminalStates
<1>b. MonitoringTarget \in Contexts
  BY <1>a DEF IInv, SystemTypeOK, Sessions, MonitoringTarget, ActiveTargets, Contexts, Intents
<1>2. [Idle EXCEPT !.wait = "pause", !.ctx = MonitoringTarget] \in Calls
  BY <1>a, <1>b, <1>1 DEF BeginExhausted, Calls, Waits, Idle
<1>3. PICK me \in Calls : me = [Idle EXCEPT !.wait = "pause", !.ctx = MonitoringTarget]
  BY <1>2
<1>4. me.wait # "idle" /\ StillValid(me)
  BY <1>a, <1>b, <1>1, <1>3 DEF BeginExhausted, StillValid, Calls, Idle
<1>5. call' = [call EXCEPT ![c] = me]
  BY <1>1, <1>3 DEF IInv, SystemTypeOK, BeginExhausted, Wait, WaitWith, Idle, Calls
<1>6. UNCHANGED <<session, ledger, window, ekos, broker>>
  BY DEF BeginExhausted
<1> QED BY <1>4, <1>5, <1>6, StartPreserves

LEMMA BeginStartPreserves ==
    ASSUME IInv, AllFree, NEW c \in Clients, NEW k \in Kinds, BeginStart(c, k)
    PROVE  IInv'
<1>1. call[c] = Idle /\ call[c] \in Calls
  BY DEF AllFree, Free, IInv, SystemTypeOK
<1>2. [Idle EXCEPT !.wait = "begin_send", !.kind = k] \in Calls
  BY <1>1 DEF BeginStart, Calls, Waits, Idle
<1>3. PICK me \in Calls : me = [Idle EXCEPT !.wait = "begin_send", !.kind = k]
  BY <1>2
<1>4. me.wait # "idle" /\ StillValid(me)
  BY <1>1, <1>3 DEF BeginStart, StillValid, Calls, Idle
<1>5. call' = [call EXCEPT ![c] = me]
  BY <1>1, <1>3 DEF IInv, SystemTypeOK, BeginStart, Wait, WaitWith, Idle, Calls
<1>6. UNCHANGED <<session, ledger, window, ekos, broker>>
  BY DEF BeginStart
<1> QED BY <1>4, <1>5, <1>6, StartPreserves

LEMMA ConfirmStartPreserves ==
    ASSUME IInv, AllFree, NEW c \in Clients, ConfirmStart(c)
    PROVE  IInv'
<1>1. call[c] = Idle /\ call[c] \in Calls
  BY DEF AllFree, Free, IInv, SystemTypeOK
<1>2. [Idle EXCEPT !.wait = "confirm"] \in Calls
  BY <1>1 DEF ConfirmStart, Calls, Waits, Idle
<1>3. PICK me \in Calls : me = [Idle EXCEPT !.wait = "confirm"]
  BY <1>2
<1>4. me.wait # "idle" /\ StillValid(me)
  BY <1>1, <1>3 DEF ConfirmStart, StillValid, Calls, Idle
<1>5. call' = [call EXCEPT ![c] = me]
  BY <1>1, <1>3 DEF IInv, SystemTypeOK, ConfirmStart, Wait, WaitWith, Idle, Calls
<1>6. UNCHANGED <<session, ledger, window, ekos, broker>>
  BY DEF ConfirmStart
<1> QED BY <1>4, <1>5, <1>6, StartPreserves

LEMMA ResumeStartPreserves ==
    ASSUME IInv, AllFree, NEW c \in Clients, ResumeStart(c)
    PROVE  IInv'
<1>1. call[c] = Idle /\ call[c] \in Calls
  BY DEF AllFree, Free, IInv, SystemTypeOK
<1>2. [Idle EXCEPT !.wait = "resume_check", !.ctx = session.ctx] \in Calls
  BY <1>1 DEF ResumeStart, Calls, Waits, Idle, IInv, SystemTypeOK, Sessions
<1>3. PICK me \in Calls : me = [Idle EXCEPT !.wait = "resume_check", !.ctx = session.ctx]
  BY <1>2
<1>4. me.wait # "idle" /\ StillValid(me)
  BY <1>1, <1>3 DEF ResumeStart, StillValid, Calls, Idle
<1>5. call' = [call EXCEPT ![c] = me]
  BY <1>1, <1>3 DEF IInv, SystemTypeOK, ResumeStart, Wait, WaitWith, Idle, Calls
<1>6. UNCHANGED <<session, ledger, window, ekos, broker>>
  BY DEF ResumeStart
<1> QED BY <1>4, <1>5, <1>6, StartPreserves

LEMMA CompleteStartPreserves ==
    ASSUME IInv, AllFree, NEW c \in Clients, CompleteStart(c)
    PROVE  IInv'
<1>1. call[c] = Idle
  BY DEF AllFree, Free
<1>a. PICK me \in Calls : me = [Idle EXCEPT !.wait = "complete_send"]
  BY DEF Calls, Waits, Idle
<1>2. me.wait # "idle" /\ StillValid(me)'
  BY <1>a DEF CompleteStart, StillValid, Calls, Idle
<1>3. call' = [call EXCEPT ![c] = me]
  BY <1>1, <1>a DEF IInv, SystemTypeOK, CompleteStart, Wait, Idle, Calls
<1>4. call' \in [Clients -> Calls] /\ OneInFlight' /\ InFlightStillValid'
  BY <1>2, <1>3, WaitStaysAlone DEF IInv, SystemTypeOK
<1>5. ledger' \in Ledgers
  BY CloseKeepsAttempts DEF IInv, SystemTypeOK, CompleteStart
<1>6. SystemTypeOK'
  BY <1>4, <1>5 DEF IInv, SystemTypeOK, CompleteStart, Windows
<1>7. ResumesActive' /\ EndedMeansReleased' /\ PausedIffResumable'
  BY DEF IInv, CompleteStart, ResumesActive, EndedMeansReleased, PausedIffResumable,
         IsTerminal, TerminalStates
<1>8. WindowPhase' /\ InterventionIsRecorded'
  BY DEF CompleteStart, WindowPhase, InterventionIsRecorded
<1> QED BY <1>4, <1>5, <1>6, <1>7, <1>8 DEF IInv

-----------------------------------------------------------------------------
(* The actions that take a waiting handler further *)

LEMMA BeginSendPreserves ==
    ASSUME IInv, NEW c \in Clients, BeginSend(c)
    PROVE  IInv'
<1>1. call[c] \in Calls /\ call[c].wait # "idle" /\ StillValid(call[c])
  BY DEF IInv, SystemTypeOK, BeginSend, At, InFlightStillValid
<1>2. PICK me \in Calls : me = [call[c] EXCEPT !.wait = "begin_confirm"]
  BY <1>1 DEF Calls, Waits
<1>3. me.wait = "begin_confirm" /\ StillValid(me)'
  BY <1>1, <1>2 DEF BeginSend, StillValid, At, Calls
<1>4. call' = [call EXCEPT ![c] = me]
  BY <1>1, <1>2 DEF IInv, SystemTypeOK, BeginSend, Wait, Calls
<1>5. call' \in [Clients -> Calls] /\ OneInFlight' /\ InFlightStillValid' /\ call'[c] = me
  BY <1>1, <1>3, <1>4, WaitStaysAlone DEF IInv, SystemTypeOK
<1>6. SystemTypeOK'
  BY <1>5 DEF IInv, SystemTypeOK, BeginSend, PauseRequest, ResumeAccepted, EkosStates, Windows
<1>7. ResumesActive' /\ EndedMeansReleased' /\ PausedIffResumable'
  BY <1>1 DEF IInv, BeginSend, At, StillValid, ResumesActive, EndedMeansReleased,
              PausedIffResumable, IsTerminal, TerminalStates
<1>8. WindowPhase' /\ InterventionIsRecorded'
  BY <1>1, <1>3, <1>5 DEF IInv, BeginSend, At, StillValid, OneInFlight, WindowPhase,
                          InterventionIsRecorded, Idle
<1> QED BY <1>5, <1>6, <1>7, <1>8 DEF IInv

LEMMA BeginConfirmPreserves ==
    ASSUME IInv, NEW c \in Clients, BeginConfirm(c)
    PROVE  IInv'
<1>1. call[c] \in Calls /\ call[c].wait # "idle" /\ StillValid(call[c])
  BY DEF IInv, SystemTypeOK, BeginConfirm, At, InFlightStillValid
<1>2. PICK me \in Calls : me = [call[c] EXCEPT !.wait = "begin_settle"]
  BY <1>1 DEF Calls, Waits
<1>3. me.wait = "begin_settle" /\ StillValid(me)'
  BY <1>1, <1>2 DEF BeginConfirm, StillValid, At, Calls
<1>4. call' = [call EXCEPT ![c] = me]
  BY <1>1, <1>2 DEF IInv, SystemTypeOK, BeginConfirm, Wait, Calls
<1>5. call' \in [Clients -> Calls] /\ OneInFlight' /\ InFlightStillValid' /\ call'[c] = me
  BY <1>1, <1>3, <1>4, WaitStaysAlone DEF IInv, SystemTypeOK
<1>6. SystemTypeOK'
  BY <1>5 DEF IInv, SystemTypeOK, BeginConfirm
<1>7. ResumesActive' /\ EndedMeansReleased' /\ PausedIffResumable'
  BY <1>1 DEF IInv, BeginConfirm, At, StillValid, ResumesActive, EndedMeansReleased,
              PausedIffResumable, IsTerminal, TerminalStates
<1>8. WindowPhase' /\ InterventionIsRecorded'
  BY <1>1, <1>3, <1>5 DEF IInv, BeginConfirm, At, StillValid, OneInFlight, WindowPhase,
                          InterventionIsRecorded, Idle
<1> QED BY <1>5, <1>6, <1>7, <1>8 DEF IInv

LEMMA ConfirmReadPreserves ==
    ASSUME IInv, NEW c \in Clients, ConfirmRead(c)
    PROVE  IInv'
<1>1. call[c] \in Calls /\ call[c].wait # "idle" /\ StillValid(call[c])
  BY DEF IInv, SystemTypeOK, ConfirmRead, At, InFlightStillValid
<1>2. PICK me \in Calls : me = [call[c] EXCEPT !.wait = "confirm_settle"]
  BY <1>1 DEF Calls, Waits
<1>3. me.wait = "confirm_settle" /\ StillValid(me)'
  BY <1>1, <1>2 DEF ConfirmRead, StillValid, At, Calls
<1>4. call' = [call EXCEPT ![c] = me]
  BY <1>1, <1>2 DEF IInv, SystemTypeOK, ConfirmRead, Wait, Calls
<1>5. call' \in [Clients -> Calls] /\ OneInFlight' /\ InFlightStillValid' /\ call'[c] = me
  BY <1>1, <1>3, <1>4, WaitStaysAlone DEF IInv, SystemTypeOK
<1>6. SystemTypeOK'
  BY <1>5 DEF IInv, SystemTypeOK, ConfirmRead
<1>7. ResumesActive' /\ EndedMeansReleased' /\ PausedIffResumable'
  BY <1>1 DEF IInv, ConfirmRead, At, StillValid, ResumesActive, EndedMeansReleased,
              PausedIffResumable, IsTerminal, TerminalStates
<1>8. WindowPhase' /\ InterventionIsRecorded'
  BY <1>1, <1>3, <1>5 DEF IInv, ConfirmRead, At, StillValid, OneInFlight, WindowPhase,
                          InterventionIsRecorded, Idle
<1> QED BY <1>5, <1>6, <1>7, <1>8 DEF IInv

LEMMA CompleteSendPreserves ==
    ASSUME IInv, NEW c \in Clients, CompleteSend(c)
    PROVE  IInv'
<1>1. call[c] \in Calls /\ call[c].wait # "idle" /\ StillValid(call[c])
  BY DEF IInv, SystemTypeOK, CompleteSend, At, InFlightStillValid
<1>2. PICK me \in Calls : me = [call[c] EXCEPT !.wait = "complete_confirm"]
  BY <1>1 DEF Calls, Waits
<1>3. me.wait = "complete_confirm" /\ StillValid(me)'
  BY <1>1, <1>2 DEF CompleteSend, StillValid, At, Calls
<1>4. call' = [call EXCEPT ![c] = me]
  BY <1>1, <1>2 DEF IInv, SystemTypeOK, CompleteSend, Wait, Calls
<1>5. call' \in [Clients -> Calls] /\ OneInFlight' /\ InFlightStillValid' /\ call'[c] = me
  BY <1>1, <1>3, <1>4, WaitStaysAlone DEF IInv, SystemTypeOK
<1>6. SystemTypeOK'
  BY <1>5 DEF IInv, SystemTypeOK, CompleteSend, PauseRequest, ResumeAccepted, EkosStates, Windows
<1>7. ResumesActive' /\ EndedMeansReleased' /\ PausedIffResumable'
  BY <1>1 DEF IInv, CompleteSend, At, StillValid, ResumesActive, EndedMeansReleased,
              PausedIffResumable, IsTerminal, TerminalStates
<1>8. WindowPhase' /\ InterventionIsRecorded'
  BY <1>1, <1>3, <1>5 DEF IInv, CompleteSend, At, StillValid, OneInFlight, WindowPhase,
                          InterventionIsRecorded, Idle
<1> QED BY <1>5, <1>6, <1>7, <1>8 DEF IInv

LEMMA ResumeCheckPreserves ==
    ASSUME IInv, NEW c \in Clients, ResumeCheck(c)
    PROVE  IInv'
<1>1. call[c] \in Calls /\ call[c].wait # "idle" /\ StillValid(call[c])
  BY DEF IInv, SystemTypeOK, ResumeCheck, At, InFlightStillValid
<1>2. PICK me \in Calls : me = [call[c] EXCEPT !.wait = "resume_send"]
  BY <1>1 DEF Calls, Waits
<1>3. me.wait = "resume_send" /\ StillValid(me)'
  BY <1>1, <1>2 DEF ResumeCheck, StillValid, At, Calls
<1>4. call' = [call EXCEPT ![c] = me]
  BY <1>1, <1>2 DEF IInv, SystemTypeOK, ResumeCheck, Wait, Calls
<1>5. call' \in [Clients -> Calls] /\ OneInFlight' /\ InFlightStillValid' /\ call'[c] = me
  BY <1>1, <1>3, <1>4, WaitStaysAlone DEF IInv, SystemTypeOK
<1>6. SystemTypeOK'
  BY <1>5 DEF IInv, SystemTypeOK, ResumeCheck, PauseRequest, ResumeAccepted, EkosStates, Windows
<1>7. ResumesActive' /\ EndedMeansReleased' /\ PausedIffResumable'
  BY <1>1 DEF IInv, ResumeCheck, At, StillValid, ResumesActive, EndedMeansReleased,
              PausedIffResumable, IsTerminal, TerminalStates
<1>8. WindowPhase' /\ InterventionIsRecorded'
  BY <1>1, <1>3, <1>5 DEF IInv, ResumeCheck, At, StillValid, OneInFlight, WindowPhase,
                          InterventionIsRecorded, Idle
<1> QED BY <1>5, <1>6, <1>7, <1>8 DEF IInv

LEMMA ResumeSendPreserves ==
    ASSUME IInv, NEW c \in Clients, ResumeSend(c)
    PROVE  IInv'
<1>1. call[c] \in Calls /\ call[c].wait # "idle" /\ StillValid(call[c])
  BY DEF IInv, SystemTypeOK, ResumeSend, At, InFlightStillValid
<1>2. PICK me \in Calls : me = [call[c] EXCEPT !.wait = "resume_confirm"]
  BY <1>1 DEF Calls, Waits
<1>3. me.wait = "resume_confirm" /\ StillValid(me)'
  BY <1>1, <1>2 DEF ResumeSend, StillValid, At, Calls
<1>4. call' = [call EXCEPT ![c] = me]
  BY <1>1, <1>2 DEF IInv, SystemTypeOK, ResumeSend, Wait, Calls
<1>5. call' \in [Clients -> Calls] /\ OneInFlight' /\ InFlightStillValid' /\ call'[c] = me
  BY <1>1, <1>3, <1>4, WaitStaysAlone DEF IInv, SystemTypeOK
<1>6. SystemTypeOK'
  BY <1>5 DEF IInv, SystemTypeOK, ResumeSend, PauseRequest, ResumeAccepted, EkosStates, Windows
<1>7. ResumesActive' /\ EndedMeansReleased' /\ PausedIffResumable'
  BY <1>1 DEF IInv, ResumeSend, At, StillValid, ResumesActive, EndedMeansReleased,
              PausedIffResumable, IsTerminal, TerminalStates
<1>8. WindowPhase' /\ InterventionIsRecorded'
  BY <1>1, <1>3, <1>5 DEF IInv, ResumeSend, At, StillValid, OneInFlight, WindowPhase,
                          InterventionIsRecorded, Idle
<1> QED BY <1>5, <1>6, <1>7, <1>8 DEF IInv

-----------------------------------------------------------------------------
(* The actions that end a handler *)

LEMMA AttachCommitPreserves ==
    ASSUME IInv, NEW c \in Clients, AttachCommit(c)
    PROVE  IInv'
<1>1. call[c] \in Calls /\ call[c].wait # "idle" /\ StillValid(call[c])
  BY DEF IInv, SystemTypeOK, AttachCommit, At, InFlightStillValid
<1>2. call' \in [Clients -> Calls] /\ \A d \in Clients : call'[d] = Idle
  BY <1>1, ReturnLeavesAllFree DEF IInv, SystemTypeOK, AttachCommit
<1>3. OneInFlight' /\ InFlightStillValid'
  BY <1>2, AllFreeIsQuiet
<1>4. SystemTypeOK'
  BY <1>1, <1>2 DEF IInv, SystemTypeOK, AttachCommit, At, StillValid, Calls, Sessions,
      Intents, ClawStates, SupervisoryStates, Ledgers, NoRecords
<1>5. ResumesActive' /\ EndedMeansReleased' /\ PausedIffResumable'
  BY <1>1 DEF IInv, SystemTypeOK, AttachCommit, At, StillValid, ResumesActive, EndedMeansReleased,
              PausedIffResumable, IsTerminal, TerminalStates, ActiveTargets,
              NoContext, Sessions
<1>6. WindowPhase'
  BY <1>1 DEF IInv, SystemTypeOK, AttachCommit, At, StillValid, OneInFlight, WindowPhase,
      Idle, Sessions
<1>7. InterventionIsRecorded'
  BY DEF IInv, SystemTypeOK, Sessions, AttachCommit, InterventionIsRecorded, NoRecords
<1> QED BY <1>2, <1>3, <1>4, <1>5, <1>6, <1>7 DEF IInv

LEMMA AttachRefusedPreserves ==
    ASSUME IInv, NEW c \in Clients, AttachRefused(c)
    PROVE  IInv'
<1>1. call[c] \in Calls /\ call[c].wait # "idle" /\ StillValid(call[c])
  BY DEF IInv, SystemTypeOK, AttachRefused, At, InFlightStillValid
<1>2. call' \in [Clients -> Calls] /\ \A d \in Clients : call'[d] = Idle
  BY <1>1, ReturnLeavesAllFree DEF IInv, SystemTypeOK, AttachRefused
<1>3. OneInFlight' /\ InFlightStillValid'
  BY <1>2, AllFreeIsQuiet
<1>4. SystemTypeOK'
  BY <1>1, <1>2 DEF IInv, SystemTypeOK, AttachRefused, At, StillValid, Calls
<1>5. ResumesActive' /\ EndedMeansReleased' /\ PausedIffResumable'
  BY <1>1 DEF IInv, SystemTypeOK, AttachRefused, At, StillValid, ResumesActive,
      EndedMeansReleased,
              PausedIffResumable, IsTerminal, TerminalStates, ActiveTargets, NoContext
<1>6. WindowPhase'
  BY <1>1 DEF IInv, SystemTypeOK, AttachRefused, At, StillValid, OneInFlight, WindowPhase, Idle
<1>7. InterventionIsRecorded'
  BY <1>1 DEF IInv, SystemTypeOK, AttachRefused, At, StillValid, InterventionIsRecorded
<1> QED BY <1>2, <1>3, <1>4, <1>5, <1>6, <1>7 DEF IInv

LEMMA AttachUnrecordedPreserves ==
    ASSUME IInv, NEW c \in Clients, AttachUnrecorded(c)
    PROVE  IInv'
<1>1. call[c] \in Calls /\ call[c].wait # "idle" /\ StillValid(call[c])
  BY DEF IInv, SystemTypeOK, AttachUnrecorded, At, InFlightStillValid
<1>2. call' \in [Clients -> Calls] /\ \A d \in Clients : call'[d] = Idle
  BY <1>1, ReturnLeavesAllFree DEF IInv, SystemTypeOK, AttachUnrecorded
<1>3. OneInFlight' /\ InFlightStillValid'
  BY <1>2, AllFreeIsQuiet
<1>4. SystemTypeOK'
  BY <1>1, <1>2 DEF IInv, SystemTypeOK, AttachUnrecorded, At, StillValid, Calls, Sessions
<1>5. ResumesActive' /\ EndedMeansReleased' /\ PausedIffResumable'
  BY <1>1 DEF IInv, SystemTypeOK, AttachUnrecorded, At, StillValid, ResumesActive,
      EndedMeansReleased,
              PausedIffResumable, IsTerminal, TerminalStates, ActiveTargets,
              NoContext, Sessions
<1>6. WindowPhase'
  BY <1>1 DEF IInv, SystemTypeOK, AttachUnrecorded, At, StillValid, OneInFlight, WindowPhase,
      Idle, Sessions
<1>7. InterventionIsRecorded'
  BY <1>1 DEF IInv, SystemTypeOK, AttachUnrecorded, At, StillValid, InterventionIsRecorded, Sessions
<1> QED BY <1>2, <1>3, <1>4, <1>5, <1>6, <1>7 DEF IInv

LEMMA AdvanceCommitPreserves ==
    ASSUME IInv, NEW c \in Clients, AdvanceCommit(c)
    PROVE  IInv'
<1>1. call[c] \in Calls /\ call[c].wait # "idle" /\ StillValid(call[c])
  BY DEF IInv, SystemTypeOK, AdvanceCommit, At, InFlightStillValid
<1>2. call' \in [Clients -> Calls] /\ \A d \in Clients : call'[d] = Idle
  BY <1>1, ReturnLeavesAllFree DEF IInv, SystemTypeOK, AdvanceCommit
<1>3. OneInFlight' /\ InFlightStillValid'
  BY <1>2, AllFreeIsQuiet
<1>4. SystemTypeOK'
  BY <1>1, <1>2 DEF IInv, SystemTypeOK, AdvanceCommit, At, StillValid, Calls, Sessions,
      ClawStates, SupervisoryStates
<1>5. ResumesActive' /\ EndedMeansReleased' /\ PausedIffResumable'
  BY <1>1 DEF IInv, SystemTypeOK, AdvanceCommit, At, StillValid, ResumesActive,
      EndedMeansReleased,
              PausedIffResumable, IsTerminal, TerminalStates, ActiveTargets,
              NoContext, Sessions
<1>6. WindowPhase'
  BY <1>1 DEF IInv, SystemTypeOK, AdvanceCommit, At, StillValid, OneInFlight, WindowPhase,
      Idle, Sessions
<1>7. InterventionIsRecorded'
  BY <1>1 DEF IInv, SystemTypeOK, AdvanceCommit, At, StillValid, InterventionIsRecorded, Sessions
<1> QED BY <1>2, <1>3, <1>4, <1>5, <1>6, <1>7 DEF IInv

LEMMA PauseCommitPreserves ==
    ASSUME IInv, NEW c \in Clients, PauseCommit(c)
    PROVE  IInv'
<1>1. call[c] \in Calls /\ call[c].wait # "idle" /\ StillValid(call[c])
  BY DEF IInv, SystemTypeOK, PauseCommit, At, InFlightStillValid
<1>2. call' \in [Clients -> Calls] /\ \A d \in Clients : call'[d] = Idle
  BY <1>1, ReturnLeavesAllFree DEF IInv, SystemTypeOK, PauseCommit
<1>3. OneInFlight' /\ InFlightStillValid'
  BY <1>2, AllFreeIsQuiet
<1>a. call[c].ctx \in Contexts
  BY <1>1 DEF PauseCommit, At, StillValid, Calls, ActiveTargets, NoContext, ClawStates,
              PreSessionStates, LoopStates, CaptureStates, SupervisoryStates, TerminalStates
<1>b. session' \in Sessions
  BY <1>a DEF IInv, SystemTypeOK, PauseCommit, Paused, Sessions, Contexts, ClawStates
<1>4. SystemTypeOK'
  BY <1>2, <1>b DEF IInv, SystemTypeOK, PauseCommit, PauseRequest, EkosStates, Windows
<1>5. ResumesActive' /\ EndedMeansReleased' /\ PausedIffResumable'
  BY <1>1 DEF IInv, SystemTypeOK, PauseCommit, At, StillValid, ResumesActive, EndedMeansReleased,
              PausedIffResumable, IsTerminal, TerminalStates, ActiveTargets,
              NoContext, Paused, Sessions, Contexts, Calls, ClawStates,
              PreSessionStates, LoopStates, CaptureStates, SupervisoryStates
<1>6. WindowPhase'
  BY <1>1 DEF IInv, SystemTypeOK, PauseCommit, At, StillValid, OneInFlight, WindowPhase, Idle,
      Paused, Sessions, Contexts, Calls, ClawStates, PreSessionStates, LoopStates,
      CaptureStates, SupervisoryStates
<1>7. InterventionIsRecorded'
  BY <1>1 DEF IInv, SystemTypeOK, PauseCommit, At, StillValid, InterventionIsRecorded, Paused, Sessions, Contexts, Calls,
              ClawStates, PreSessionStates, LoopStates, CaptureStates,
              SupervisoryStates
<1> QED BY <1>2, <1>3, <1>4, <1>5, <1>6, <1>7 DEF IInv

LEMMA BeginOpenPreserves ==
    ASSUME IInv, NEW c \in Clients, BeginOpen(c)
    PROVE  IInv'
<1>1. call[c] \in Calls /\ call[c].wait # "idle" /\ StillValid(call[c])
  BY DEF IInv, SystemTypeOK, BeginOpen, At, InFlightStillValid
<1>2. call' \in [Clients -> Calls] /\ \A d \in Clients : call'[d] = Idle
  BY <1>1, ReturnLeavesAllFree DEF IInv, SystemTypeOK, BeginOpen
<1>3. OneInFlight' /\ InFlightStillValid'
  BY <1>2, AllFreeIsQuiet
<1>4. SystemTypeOK'
  <2>1. ledger' \in Ledgers
    BY <1>1, OpenCounts DEF IInv, SystemTypeOK, BeginOpen, At, StillValid
  <2>2. session' \in Sessions
    BY DEF IInv, SystemTypeOK, BeginOpen, Sessions, ClawStates, SupervisoryStates
  <2> QED BY <1>2, <2>1, <2>2 DEF IInv, SystemTypeOK, BeginOpen, Windows
<1>5. ResumesActive' /\ EndedMeansReleased' /\ PausedIffResumable'
  BY <1>1 DEF IInv, SystemTypeOK, BeginOpen, At, StillValid, ResumesActive, EndedMeansReleased,
              PausedIffResumable, IsTerminal, TerminalStates, ActiveTargets,
              NoContext, Sessions
<1>6. WindowPhase'
  BY <1>1 DEF IInv, SystemTypeOK, BeginOpen, At, StillValid, OneInFlight, WindowPhase,
      Idle, Sessions
<1>7. InterventionIsRecorded'
  BY <1>1, OpenCounts DEF IInv, SystemTypeOK, BeginOpen, At, StillValid,
                               InterventionIsRecorded
<1> QED BY <1>2, <1>3, <1>4, <1>5, <1>6, <1>7 DEF IInv

LEMMA BeginUnconfirmedPreserves ==
    ASSUME IInv, NEW c \in Clients, BeginUnconfirmed(c)
    PROVE  IInv'
<1>1. call[c] \in Calls /\ call[c].wait # "idle" /\ StillValid(call[c])
  BY DEF IInv, SystemTypeOK, BeginUnconfirmed, At, InFlightStillValid
<1>2. call' \in [Clients -> Calls] /\ \A d \in Clients : call'[d] = Idle
  BY <1>1, ReturnLeavesAllFree DEF IInv, SystemTypeOK, BeginUnconfirmed
<1>3. OneInFlight' /\ InFlightStillValid'
  BY <1>2, AllFreeIsQuiet
<1>4. SystemTypeOK'
  BY <1>1, <1>2 DEF IInv, SystemTypeOK, BeginUnconfirmed, At, StillValid, Calls, Paused,
      Sessions, Contexts, ClawStates, SupervisoryStates, Intents
<1>5. ResumesActive' /\ EndedMeansReleased' /\ PausedIffResumable'
  BY <1>1 DEF IInv, SystemTypeOK, BeginUnconfirmed, At, StillValid, ResumesActive,
      EndedMeansReleased,
              PausedIffResumable, IsTerminal, TerminalStates, ActiveTargets,
              NoContext, Paused, Sessions, Contexts, ClawStates,
              PreSessionStates, LoopStates, CaptureStates, SupervisoryStates
<1>6. WindowPhase'
  BY <1>1 DEF IInv, SystemTypeOK, BeginUnconfirmed, At, StillValid, OneInFlight, WindowPhase,
      Idle, Paused, Sessions, Contexts, ClawStates, PreSessionStates, LoopStates,
      CaptureStates, SupervisoryStates
<1>7. InterventionIsRecorded'
  BY <1>1 DEF IInv, SystemTypeOK, BeginUnconfirmed, At, StillValid, InterventionIsRecorded, Paused, Sessions, Contexts,
              ClawStates, PreSessionStates, LoopStates, CaptureStates,
              SupervisoryStates
<1> QED BY <1>2, <1>3, <1>4, <1>5, <1>6, <1>7 DEF IInv

LEMMA CompleteSendFailsPreserves ==
    ASSUME IInv, NEW c \in Clients, CompleteSendFails(c)
    PROVE  IInv'
<1>1. call[c] \in Calls /\ call[c].wait # "idle" /\ StillValid(call[c])
  BY DEF IInv, SystemTypeOK, CompleteSendFails, At, InFlightStillValid
<1>2. call' \in [Clients -> Calls] /\ \A d \in Clients : call'[d] = Idle
  BY <1>1, ReturnLeavesAllFree DEF IInv, SystemTypeOK, CompleteSendFails
<1>3. OneInFlight' /\ InFlightStillValid'
  BY <1>2, AllFreeIsQuiet
<1>4. SystemTypeOK'
  BY <1>1, <1>2 DEF IInv, SystemTypeOK, CompleteSendFails, At, StillValid, Calls, Windows
<1>5. ResumesActive' /\ EndedMeansReleased' /\ PausedIffResumable'
  BY <1>1 DEF IInv, SystemTypeOK, CompleteSendFails, At, StillValid, ResumesActive,
      EndedMeansReleased,
              PausedIffResumable, IsTerminal, TerminalStates, ActiveTargets, NoContext
<1>6. WindowPhase'
  BY <1>1 DEF IInv, SystemTypeOK, CompleteSendFails, At, StillValid, OneInFlight, WindowPhase,
      Idle
<1>7. InterventionIsRecorded'
  BY <1>1 DEF IInv, SystemTypeOK, CompleteSendFails, At, StillValid, InterventionIsRecorded
<1> QED BY <1>2, <1>3, <1>4, <1>5, <1>6, <1>7 DEF IInv

LEMMA CompleteConfirmPreserves ==
    ASSUME IInv, NEW c \in Clients, CompleteConfirm(c)
    PROVE  IInv'
<1>1. call[c] \in Calls /\ call[c].wait # "idle" /\ StillValid(call[c])
  BY DEF IInv, SystemTypeOK, CompleteConfirm, At, InFlightStillValid
<1>2. call' \in [Clients -> Calls] /\ \A d \in Clients : call'[d] = Idle
  BY <1>1, ReturnLeavesAllFree DEF IInv, SystemTypeOK, CompleteConfirm
<1>3. OneInFlight' /\ InFlightStillValid'
  BY <1>2, AllFreeIsQuiet
<1>4. SystemTypeOK'
  BY <1>1, <1>2 DEF IInv, SystemTypeOK, CompleteConfirm, At, StillValid, Calls, Windows,
      Sessions, ClawStates, SupervisoryStates
<1>5. ResumesActive' /\ EndedMeansReleased' /\ PausedIffResumable'
  BY <1>1 DEF IInv, SystemTypeOK, CompleteConfirm, At, StillValid, ResumesActive,
      EndedMeansReleased,
              PausedIffResumable, IsTerminal, TerminalStates, ActiveTargets,
              NoContext, Sessions
<1>6. WindowPhase'
  BY <1>1 DEF IInv, SystemTypeOK, CompleteConfirm, At, StillValid, OneInFlight, WindowPhase,
      Idle, Sessions
<1>7. InterventionIsRecorded'
  BY <1>1 DEF IInv, SystemTypeOK, CompleteConfirm, At, StillValid, InterventionIsRecorded, Sessions
<1> QED BY <1>2, <1>3, <1>4, <1>5, <1>6, <1>7 DEF IInv

LEMMA CompleteUnconfirmedPreserves ==
    ASSUME IInv, NEW c \in Clients, CompleteUnconfirmed(c)
    PROVE  IInv'
<1>1. call[c] \in Calls /\ call[c].wait # "idle" /\ StillValid(call[c])
  BY DEF IInv, SystemTypeOK, CompleteUnconfirmed, At, InFlightStillValid
<1>2. call' \in [Clients -> Calls] /\ \A d \in Clients : call'[d] = Idle
  BY <1>1, ReturnLeavesAllFree DEF IInv, SystemTypeOK, CompleteUnconfirmed
<1>3. OneInFlight' /\ InFlightStillValid'
  BY <1>2, AllFreeIsQuiet
<1>4. SystemTypeOK'
  BY <1>1, <1>2 DEF IInv, SystemTypeOK, CompleteUnconfirmed, At, StillValid, Calls, Windows
<1>5. ResumesActive' /\ EndedMeansReleased' /\ PausedIffResumable'
  BY <1>1 DEF IInv, SystemTypeOK, CompleteUnconfirmed, At, StillValid, ResumesActive,
      EndedMeansReleased,
              PausedIffResumable, IsTerminal, TerminalStates, ActiveTargets, NoContext
<1>6. WindowPhase'
  BY <1>1 DEF IInv, SystemTypeOK, CompleteUnconfirmed, At, StillValid, OneInFlight,
      WindowPhase, Idle
<1>7. InterventionIsRecorded'
  BY <1>1 DEF IInv, SystemTypeOK, CompleteUnconfirmed, At, StillValid, InterventionIsRecorded
<1> QED BY <1>2, <1>3, <1>4, <1>5, <1>6, <1>7 DEF IInv

LEMMA ConfirmOpenPreserves ==
    ASSUME IInv, NEW c \in Clients, ConfirmOpen(c)
    PROVE  IInv'
<1>1. call[c] \in Calls /\ call[c].wait # "idle" /\ StillValid(call[c])
  BY DEF IInv, SystemTypeOK, ConfirmOpen, At, InFlightStillValid
<1>2. call' \in [Clients -> Calls] /\ \A d \in Clients : call'[d] = Idle
  BY <1>1, ReturnLeavesAllFree DEF IInv, SystemTypeOK, ConfirmOpen
<1>3. OneInFlight' /\ InFlightStillValid'
  BY <1>2, AllFreeIsQuiet
<1>4. SystemTypeOK'
  BY <1>1, <1>2 DEF IInv, SystemTypeOK, ConfirmOpen, At, StillValid, Calls, Windows
<1>5. ResumesActive' /\ EndedMeansReleased' /\ PausedIffResumable'
  BY <1>1 DEF IInv, SystemTypeOK, ConfirmOpen, At, StillValid, ResumesActive,
      EndedMeansReleased,
              PausedIffResumable, IsTerminal, TerminalStates, ActiveTargets, NoContext
<1>6. WindowPhase'
  BY <1>1 DEF IInv, SystemTypeOK, ConfirmOpen, At, StillValid, OneInFlight, WindowPhase, Idle
<1>7. InterventionIsRecorded'
  BY <1>1 DEF IInv, SystemTypeOK, ConfirmOpen, At, StillValid, InterventionIsRecorded
<1> QED BY <1>2, <1>3, <1>4, <1>5, <1>6, <1>7 DEF IInv

LEMMA ConfirmRefusedPreserves ==
    ASSUME IInv, NEW c \in Clients, ConfirmRefused(c)
    PROVE  IInv'
<1>1. call[c] \in Calls /\ call[c].wait # "idle" /\ StillValid(call[c])
  BY DEF IInv, SystemTypeOK, ConfirmRefused, At, InFlightStillValid
<1>2. call' \in [Clients -> Calls] /\ \A d \in Clients : call'[d] = Idle
  BY <1>1, ReturnLeavesAllFree DEF IInv, SystemTypeOK, ConfirmRefused
<1>3. OneInFlight' /\ InFlightStillValid'
  BY <1>2, AllFreeIsQuiet
<1>4. SystemTypeOK'
  BY <1>1, <1>2 DEF IInv, SystemTypeOK, ConfirmRefused, At, StillValid, Calls
<1>5. ResumesActive' /\ EndedMeansReleased' /\ PausedIffResumable'
  BY <1>1 DEF IInv, SystemTypeOK, ConfirmRefused, At, StillValid, ResumesActive,
      EndedMeansReleased,
              PausedIffResumable, IsTerminal, TerminalStates, ActiveTargets, NoContext
<1>6. WindowPhase'
  BY <1>1 DEF IInv, SystemTypeOK, ConfirmRefused, At, StillValid, OneInFlight, WindowPhase, Idle
<1>7. InterventionIsRecorded'
  BY <1>1 DEF IInv, SystemTypeOK, ConfirmRefused, At, StillValid, InterventionIsRecorded
<1> QED BY <1>2, <1>3, <1>4, <1>5, <1>6, <1>7 DEF IInv

LEMMA ResumeRefusedPreserves ==
    ASSUME IInv, NEW c \in Clients, ResumeRefused(c)
    PROVE  IInv'
<1>1. call[c] \in Calls /\ call[c].wait # "idle" /\ StillValid(call[c])
  BY DEF IInv, SystemTypeOK, ResumeRefused, At, InFlightStillValid
<1>2. call' \in [Clients -> Calls] /\ \A d \in Clients : call'[d] = Idle
  BY <1>1, ReturnLeavesAllFree DEF IInv, SystemTypeOK, ResumeRefused
<1>3. OneInFlight' /\ InFlightStillValid'
  BY <1>2, AllFreeIsQuiet
<1>4. SystemTypeOK'
  BY <1>1, <1>2 DEF IInv, SystemTypeOK, ResumeRefused, At, StillValid, Calls, Windows
<1>5. ResumesActive' /\ EndedMeansReleased' /\ PausedIffResumable'
  BY <1>1 DEF IInv, SystemTypeOK, ResumeRefused, At, StillValid, ResumesActive,
      EndedMeansReleased,
              PausedIffResumable, IsTerminal, TerminalStates, ActiveTargets, NoContext
<1>6. WindowPhase'
  BY <1>1 DEF IInv, SystemTypeOK, ResumeRefused, At, StillValid, OneInFlight, WindowPhase, Idle
<1>7. InterventionIsRecorded'
  BY <1>1 DEF IInv, SystemTypeOK, ResumeRefused, At, StillValid, InterventionIsRecorded
<1> QED BY <1>2, <1>3, <1>4, <1>5, <1>6, <1>7 DEF IInv

LEMMA ResumeSendFailsPreserves ==
    ASSUME IInv, NEW c \in Clients, ResumeSendFails(c)
    PROVE  IInv'
<1>1. call[c] \in Calls /\ call[c].wait # "idle" /\ StillValid(call[c])
  BY DEF IInv, SystemTypeOK, ResumeSendFails, At, InFlightStillValid
<1>2. call' \in [Clients -> Calls] /\ \A d \in Clients : call'[d] = Idle
  BY <1>1, ReturnLeavesAllFree DEF IInv, SystemTypeOK, ResumeSendFails
<1>3. OneInFlight' /\ InFlightStillValid'
  BY <1>2, AllFreeIsQuiet
<1>4. SystemTypeOK'
  BY <1>1, <1>2 DEF IInv, SystemTypeOK, ResumeSendFails, At, StillValid, Calls, Windows
<1>5. ResumesActive' /\ EndedMeansReleased' /\ PausedIffResumable'
  BY <1>1 DEF IInv, SystemTypeOK, ResumeSendFails, At, StillValid, ResumesActive,
      EndedMeansReleased,
              PausedIffResumable, IsTerminal, TerminalStates, ActiveTargets, NoContext
<1>6. WindowPhase'
  BY <1>1 DEF IInv, SystemTypeOK, ResumeSendFails, At, StillValid, OneInFlight, WindowPhase, Idle
<1>7. InterventionIsRecorded'
  BY <1>1 DEF IInv, SystemTypeOK, ResumeSendFails, At, StillValid, InterventionIsRecorded
<1> QED BY <1>2, <1>3, <1>4, <1>5, <1>6, <1>7 DEF IInv

LEMMA ResumeConfirmPreserves ==
    ASSUME IInv, NEW c \in Clients, ResumeConfirm(c)
    PROVE  IInv'
<1>1. call[c] \in Calls /\ call[c].wait # "idle" /\ StillValid(call[c])
  BY DEF IInv, SystemTypeOK, ResumeConfirm, At, InFlightStillValid
<1>2. call' \in [Clients -> Calls] /\ \A d \in Clients : call'[d] = Idle
  BY <1>1, ReturnLeavesAllFree DEF IInv, SystemTypeOK, ResumeConfirm
<1>3. OneInFlight' /\ InFlightStillValid'
  BY <1>2, AllFreeIsQuiet
<1>4. SystemTypeOK'
  BY <1>1, <1>2 DEF IInv, SystemTypeOK, ResumeConfirm, At, StillValid, Calls, Windows,
      PausedIffResumable, Sessions, Contexts
<1>5. ResumesActive' /\ EndedMeansReleased' /\ PausedIffResumable'
  BY <1>1 DEF IInv, SystemTypeOK, ResumeConfirm, At, StillValid, ResumesActive,
      EndedMeansReleased,
              PausedIffResumable, IsTerminal, TerminalStates, ActiveTargets,
              NoContext, Sessions, Contexts, ClawStates
<1>6. WindowPhase'
  BY <1>1 DEF IInv, SystemTypeOK, Sessions, ResumeConfirm, At, StillValid, WindowPhase,
              PausedIffResumable, ResumesActive, ActiveTargets
<1>7. InterventionIsRecorded'
  BY <1>1 DEF IInv, SystemTypeOK, ResumeConfirm, At, StillValid, InterventionIsRecorded, Sessions, Contexts, ClawStates
<1> QED BY <1>2, <1>3, <1>4, <1>5, <1>6, <1>7 DEF IInv

LEMMA ResumeUnconfirmedPreserves ==
    ASSUME IInv, NEW c \in Clients, ResumeUnconfirmed(c)
    PROVE  IInv'
<1>1. call[c] \in Calls /\ call[c].wait # "idle" /\ StillValid(call[c])
  BY DEF IInv, SystemTypeOK, ResumeUnconfirmed, At, InFlightStillValid
<1>2. call' \in [Clients -> Calls] /\ \A d \in Clients : call'[d] = Idle
  BY <1>1, ReturnLeavesAllFree DEF IInv, SystemTypeOK, ResumeUnconfirmed
<1>3. OneInFlight' /\ InFlightStillValid'
  BY <1>2, AllFreeIsQuiet
<1>4. SystemTypeOK'
  BY <1>1, <1>2 DEF IInv, SystemTypeOK, ResumeUnconfirmed, At, StillValid, Calls, Windows
<1>5. ResumesActive' /\ EndedMeansReleased' /\ PausedIffResumable'
  BY <1>1 DEF IInv, SystemTypeOK, ResumeUnconfirmed, At, StillValid, ResumesActive,
      EndedMeansReleased,
              PausedIffResumable, IsTerminal, TerminalStates, ActiveTargets, NoContext
<1>6. WindowPhase'
  BY <1>1 DEF IInv, SystemTypeOK, ResumeUnconfirmed, At, StillValid, OneInFlight, WindowPhase,
      Idle
<1>7. InterventionIsRecorded'
  BY <1>1 DEF IInv, SystemTypeOK, ResumeUnconfirmed, At, StillValid, InterventionIsRecorded
<1> QED BY <1>2, <1>3, <1>4, <1>5, <1>6, <1>7 DEF IInv

-----------------------------------------------------------------------------
(* The actions that wait for nothing: ending a session and clearing it *)

LEMMA StopPreserves ==
    ASSUME IInv, AllFree, Stop
    PROVE  IInv'
<1>1. OneInFlight' /\ InFlightStillValid'
  BY AllFreeIsQuiet DEF AllFree, Free, Stop
<1>2. SystemTypeOK'
  BY DEF IInv, SystemTypeOK, Stop, Stopped, Ended, Sessions, ClawStates, PreSessionStates,
         TerminalStates, Outcomes, Windows, NoRecords, Ledgers
<1>3. ResumesActive' /\ EndedMeansReleased' /\ PausedIffResumable'
  BY DEF IInv, SystemTypeOK, Sessions, Stop, Stopped, Ended, ResumesActive, EndedMeansReleased,
         PausedIffResumable, IsTerminal, TerminalStates, Outcomes
<1>4. WindowPhase'
  BY DEF IInv, SystemTypeOK, Sessions, Stop, Stopped, Ended, WindowPhase, EndedMeansReleased, TerminalStates
<1>5. InterventionIsRecorded'
  BY DEF IInv, SystemTypeOK, Sessions, Stop, Stopped, Ended, InterventionIsRecorded, NoRecords
<1> QED BY <1>1, <1>2, <1>3, <1>4, <1>5 DEF IInv

LEMMA ReleaseControlPreserves ==
    ASSUME IInv, AllFree, ReleaseControl
    PROVE  IInv'
<1>1. OneInFlight' /\ InFlightStillValid'
  BY AllFreeIsQuiet DEF AllFree, Free, ReleaseControl
<1>2. SystemTypeOK'
  BY DEF IInv, SystemTypeOK, ReleaseControl, Released, Ended, Sessions, ClawStates, PreSessionStates,
         TerminalStates, Outcomes, Windows, NoRecords, Ledgers
<1>3. ResumesActive' /\ EndedMeansReleased' /\ PausedIffResumable'
  BY DEF IInv, SystemTypeOK, Sessions, ReleaseControl, Released, Ended, ResumesActive, EndedMeansReleased,
         PausedIffResumable, IsTerminal, TerminalStates, Outcomes
<1>4. WindowPhase'
  BY DEF IInv, SystemTypeOK, Sessions, ReleaseControl, Released, Ended, WindowPhase, EndedMeansReleased, TerminalStates
<1>5. InterventionIsRecorded'
  BY DEF IInv, SystemTypeOK, Sessions, ReleaseControl, Released, Ended, InterventionIsRecorded, NoRecords
<1> QED BY <1>1, <1>2, <1>3, <1>4, <1>5 DEF IInv

LEMMA FailPreserves ==
    ASSUME IInv, AllFree, Fail
    PROVE  IInv'
<1>1. OneInFlight' /\ InFlightStillValid'
  BY AllFreeIsQuiet DEF AllFree, Free, Fail
<1>2. SystemTypeOK'
  BY DEF IInv, SystemTypeOK, Fail, Failed, Ended, Sessions, ClawStates, PreSessionStates,
         TerminalStates, Outcomes, Windows, NoRecords, Ledgers
<1>3. ResumesActive' /\ EndedMeansReleased' /\ PausedIffResumable'
  BY DEF IInv, SystemTypeOK, Sessions, Fail, Failed, Ended, ResumesActive, EndedMeansReleased,
         PausedIffResumable, IsTerminal, TerminalStates, Outcomes
<1>4. WindowPhase'
  BY DEF IInv, SystemTypeOK, Sessions, Fail, Failed, Ended, WindowPhase, EndedMeansReleased, TerminalStates
<1>5. InterventionIsRecorded'
  BY DEF IInv, SystemTypeOK, Sessions, Fail, Failed, Ended, InterventionIsRecorded, NoRecords
<1> QED BY <1>1, <1>2, <1>3, <1>4, <1>5 DEF IInv

LEMMA CompleteSupervisedPreserves ==
    ASSUME IInv, AllFree, CompleteSupervised
    PROVE  IInv'
<1>1. OneInFlight' /\ InFlightStillValid'
  BY AllFreeIsQuiet DEF AllFree, Free, CompleteSupervised
<1>2. SystemTypeOK'
  BY DEF IInv, SystemTypeOK, CompleteSupervised, Ended, Sessions, ClawStates, PreSessionStates,
         TerminalStates, Outcomes, Windows, NoRecords, Ledgers
<1>3. ResumesActive' /\ EndedMeansReleased' /\ PausedIffResumable'
  BY DEF IInv, SystemTypeOK, Sessions, CompleteSupervised, Ended, ResumesActive, EndedMeansReleased,
         PausedIffResumable, IsTerminal, TerminalStates, Outcomes
<1>4. WindowPhase'
  BY DEF IInv, SystemTypeOK, Sessions, CompleteSupervised, Ended, WindowPhase, EndedMeansReleased, TerminalStates
<1>5. InterventionIsRecorded'
  BY DEF IInv, SystemTypeOK, Sessions, CompleteSupervised, Ended, InterventionIsRecorded, NoRecords
<1> QED BY <1>1, <1>2, <1>3, <1>4, <1>5 DEF IInv

LEMMA AcknowledgeCompletePreserves ==
    ASSUME IInv, AllFree, AcknowledgeComplete
    PROVE  IInv'
<1>1. OneInFlight' /\ InFlightStillValid'
  BY AllFreeIsQuiet DEF AllFree, Free, AcknowledgeComplete
<1>2. SystemTypeOK'
  BY DEF IInv, SystemTypeOK, AcknowledgeComplete, Cleared, Sessions, ClawStates, PreSessionStates,
         TerminalStates, Outcomes, Windows, NoRecords, Ledgers
<1>3. ResumesActive' /\ EndedMeansReleased' /\ PausedIffResumable'
  BY DEF IInv, SystemTypeOK, Sessions, AcknowledgeComplete, Cleared, ResumesActive, EndedMeansReleased,
         PausedIffResumable, IsTerminal, TerminalStates, Outcomes
<1>4. WindowPhase'
  BY DEF IInv, SystemTypeOK, Sessions, AcknowledgeComplete, Cleared, WindowPhase, EndedMeansReleased, TerminalStates
<1>5. InterventionIsRecorded'
  BY DEF IInv, SystemTypeOK, Sessions, AcknowledgeComplete, Cleared, InterventionIsRecorded, NoRecords
<1> QED BY <1>1, <1>2, <1>3, <1>4, <1>5 DEF IInv

LEMMA ClearFailurePreserves ==
    ASSUME IInv, AllFree, ClearFailure
    PROVE  IInv'
<1>1. OneInFlight' /\ InFlightStillValid'
  BY AllFreeIsQuiet DEF AllFree, Free, ClearFailure
<1>2. SystemTypeOK'
  BY DEF IInv, SystemTypeOK, ClearFailure, Cleared, Sessions, ClawStates, PreSessionStates,
         TerminalStates, Outcomes, Windows, NoRecords, Ledgers
<1>3. ResumesActive' /\ EndedMeansReleased' /\ PausedIffResumable'
  BY DEF IInv, SystemTypeOK, Sessions, ClearFailure, Cleared, ResumesActive, EndedMeansReleased,
         PausedIffResumable, IsTerminal, TerminalStates, Outcomes
<1>4. WindowPhase'
  BY DEF IInv, SystemTypeOK, Sessions, ClearFailure, Cleared, WindowPhase, EndedMeansReleased, TerminalStates
<1>5. InterventionIsRecorded'
  BY DEF IInv, SystemTypeOK, Sessions, ClearFailure, Cleared, InterventionIsRecorded, NoRecords
<1> QED BY <1>1, <1>2, <1>3, <1>4, <1>5 DEF IInv

LEMMA EnvironmentPreserves ==
    ASSUME IInv, EkosMoves \/ BrokerMoves
    PROVE  IInv'
<1>1. SystemTypeOK'
  BY DEF IInv, SystemTypeOK, EkosMoves, BrokerMoves, Undisturbed
<1>2. OneInFlight' /\ InFlightStillValid' /\ ResumesActive' /\ EndedMeansReleased'
      /\ PausedIffResumable'
  BY DEF IInv, EkosMoves, BrokerMoves, Undisturbed, OneInFlight, InFlightStillValid, StillValid,
         ResumesActive, EndedMeansReleased, PausedIffResumable, IsTerminal
<1>3. WindowPhase' /\ InterventionIsRecorded'
  BY DEF IInv, EkosMoves, BrokerMoves, Undisturbed, WindowPhase, InterventionIsRecorded
<1> QED BY <1>1, <1>2, <1>3 DEF IInv

-----------------------------------------------------------------------------
(* The invariant is inductive *)

LEMMA InitEstablishes == Init => IInv
<1> SUFFICES ASSUME Init PROVE IInv
  OBVIOUS
<1>1. SystemTypeOK
  BY DEF Init, SystemTypeOK, ReadySession, Sessions, ClawStates, PreSessionStates, NoRecords, Ledgers,
         Windows, BrokerStates, Calls, Waits, Idle
<1>2. OneInFlight /\ InFlightStillValid
  BY DEF Init, OneInFlight, InFlightStillValid, StillValid, Idle
<1>3. ResumesActive /\ EndedMeansReleased /\ PausedIffResumable /\ WindowPhase
  BY DEF Init, ReadySession, ResumesActive, EndedMeansReleased, PausedIffResumable, WindowPhase,
         IsTerminal, TerminalStates
<1>4. InterventionIsRecorded
  BY DEF Init, ReadySession, NoRecords, InterventionIsRecorded
<1> QED BY <1>1, <1>2, <1>3, <1>4 DEF IInv

LEMMA StepPreserves == IInv /\ [SerialNext]_vars => IInv'
<1> SUFFICES ASSUME IInv, [SerialNext]_vars PROVE IInv'
  OBVIOUS
<1>1. ASSUME NEW c \in Clients, AllFree, Begins(c)
      PROVE  IInv'
  BY <1>1, AttachStartPreserves, AdvanceStartPreserves, PauseStartPreserves,
     CompleteStartPreserves, ConfirmStartPreserves, ResumeStartPreserves,
     BeginExhaustedPreserves, BeginStartPreserves, StopPreserves,
     ReleaseControlPreserves, FailPreserves, CompleteSupervisedPreserves,
     AcknowledgeCompletePreserves, ClearFailurePreserves
     DEF Begins
<1>2. ASSUME NEW c \in Clients, AllFree, ConflictStart(c)
      PROVE  IInv'
  BY <1>2, ConflictStartPreserves
<1>3. ASSUME NEW c \in Clients, Continues(c)
      PROVE  IInv'
  BY <1>3, AttachCommitPreserves, AttachRefusedPreserves, AttachUnrecordedPreserves,
     AdvanceCommitPreserves, PauseCommitPreserves, BeginSendPreserves,
     BeginConfirmPreserves, BeginOpenPreserves, BeginUnconfirmedPreserves,
     CompleteSendPreserves,
     CompleteSendFailsPreserves, CompleteConfirmPreserves, CompleteUnconfirmedPreserves,
     ConfirmReadPreserves, ConfirmOpenPreserves, ConfirmRefusedPreserves, ResumeCheckPreserves,
     ResumeRefusedPreserves, ResumeSendPreserves, ResumeSendFailsPreserves,
     ResumeConfirmPreserves, ResumeUnconfirmedPreserves
     DEF Continues
<1>4. CASE EkosMoves \/ BrokerMoves
  BY <1>4, EnvironmentPreserves
<1>5. CASE UNCHANGED vars
  BY <1>5 DEF vars, system, IInv, SystemTypeOK, OneInFlight, InFlightStillValid, StillValid,
              ResumesActive, EndedMeansReleased, PausedIffResumable, IsTerminal, WindowPhase,
              InterventionIsRecorded
<1> QED BY <1>1, <1>2, <1>3, <1>4, <1>5 DEF SerialNext, Environment

LEMMA Invariance == SerialSpec => []IInv
  BY InitEstablishes, StepPreserves, PTL DEF SerialSpec

-----------------------------------------------------------------------------
(* The history: a handler that is about to open the window has seen Ekos   *)
(* paused in this handover.                                                *)

Settling == {"begin_settle", "confirm_settle"}

SettlesOnEvidence ==
    /\ yielded \in BOOLEAN
    /\ \A c \in Clients : call[c].wait \in Settling /\ window # "open" => yielded

\* A handler reaches the settle test only on a reading of PAUSED, and nobody else
\* moves while it is there.
LEMMA EvidenceStep ==
    IInv /\ IInv' /\ SettlesOnEvidence /\ [SerialNext]_vars => SettlesOnEvidence'
<1> SUFFICES ASSUME IInv, IInv', SettlesOnEvidence, SerialNext PROVE SettlesOnEvidence'
  BY DEF SettlesOnEvidence, vars, system
<1>1. yielded' \in BOOLEAN
  BY DEF SerialNext, Observed
<1> SUFFICES ASSUME NEW c \in Clients, call'[c].wait \in Settling, window' # "open"
             PROVE  yielded'
  BY <1>1 DEF SettlesOnEvidence
<1>2. window' \in Handover
  BY DEF IInv, InFlightStillValid, StillValid, WindowPhase, SystemTypeOK, Windows, Handover, Settling
<1>3. CASE BeginConfirm(c) \/ ConfirmRead(c)
  BY <1>2, <1>3 DEF BeginConfirm, ConfirmRead, PauseConfirmable, SerialNext, Observed
<1>4. CASE ~(BeginConfirm(c) \/ ConfirmRead(c))
  <2>1. call[c].wait \in Settling /\ window = window'
    <3>1. CASE Environment
      BY <3>1 DEF Environment, EkosMoves, BrokerMoves, Undisturbed
    <3>2. ASSUME NEW d \in Clients, AllFree, Begins(d) \/ ConflictStart(d)
          PROVE  FALSE
      <4>1. call[c] = Idle /\ call[d] = Idle /\ call \in [Clients -> Calls]
        BY <3>2 DEF AllFree, Free, IInv, SystemTypeOK
      <4>2. CASE \/ Stop \/ ReleaseControl \/ Fail \/ CompleteSupervised
                 \/ AcknowledgeComplete \/ ClearFailure
        BY <4>1, <4>2 DEF Stop, ReleaseControl, Fail, CompleteSupervised, AcknowledgeComplete,
                          ClearFailure, Idle, Settling
      <4>3. CASE AttachStart(d) \/ AdvanceStart(d) \/ CompleteStart(d) \/ ConfirmStart(d)
        BY <4>1, <4>3 DEF AttachStart, AdvanceStart, CompleteStart, ConfirmStart, Wait, Idle, Settling
      <4>4. CASE \/ PauseStart(d) \/ ConflictStart(d) \/ ResumeStart(d)
                 \/ \E k \in Kinds : BeginExhausted(d, k)
        <5>1. PICK x : WaitWith(d, "pause", x) \/ WaitWith(d, "resume_check", x)
          BY <4>4 DEF PauseStart, ConflictStart, ResumeStart, BeginExhausted
        <5>2. PICK w \in {"pause", "resume_check"} : WaitWith(d, w, x)
          BY <5>1
        <5> DEFINE me == [Idle EXCEPT !.wait = w, !.ctx = x]
        <5>3. me.wait \notin Settling
          BY DEF Idle, Settling
        <5>4. call' = [call EXCEPT ![d] = me]
          BY <4>1, <5>2 DEF WaitWith
        <5> HIDE DEF me
        <5> QED BY <4>1, <5>3, <5>4 DEF Idle, Settling
      <4>5. CASE \E k \in Kinds : BeginStart(d, k)
        BY <4>1, <4>5 DEF BeginStart, Idle, Settling
      <4> QED BY <3>2, <4>2, <4>3, <4>4, <4>5 DEF Begins
    <3>3. ASSUME NEW d \in Clients, Continues(d)
          PROVE  FALSE
      <4>1. call[d].wait # "idle"
        BY <3>3 DEF Continues, At, AttachCommit, AttachRefused, AttachUnrecorded, AdvanceCommit,
                    PauseCommit, BeginSend, BeginConfirm, BeginOpen, BeginUnconfirmed,
                    CompleteSend, CompleteSendFails, CompleteConfirm, CompleteUnconfirmed,
                    ConfirmRead, ConfirmOpen, ConfirmRefused, ResumeCheck, ResumeRefused,
                    ResumeSend, ResumeSendFails, ResumeConfirm, ResumeUnconfirmed
      <4>2. d # c => call[c] = Idle
        BY <4>1 DEF IInv, OneInFlight, Idle
      <4>3. call'[d].wait \notin Settling \/ BeginConfirm(d) \/ ConfirmRead(d)
        BY <3>3 DEF IInv, SystemTypeOK, Calls, Settling, Idle, Wait, Return,
                    Continues, AttachCommit, AttachRefused, AttachUnrecorded, AdvanceCommit,
                    PauseCommit, BeginSend, BeginOpen, BeginUnconfirmed,
                    CompleteSend, CompleteSendFails, CompleteConfirm, CompleteUnconfirmed,
                    ConfirmOpen, ConfirmRefused, ResumeCheck, ResumeRefused,
                    ResumeSend, ResumeSendFails, ResumeConfirm, ResumeUnconfirmed
      <4>4. CASE d = c
        BY <1>4, <4>3, <4>4
      <4>5. CASE d # c
        <5>1. call'[c] = call[c]
          BY <3>3, <4>5 DEF IInv, SystemTypeOK, Wait, Return,
                    Continues, AttachCommit, AttachRefused, AttachUnrecorded, AdvanceCommit,
                    PauseCommit, BeginSend, BeginConfirm, BeginOpen, BeginUnconfirmed,
                    CompleteSend, CompleteSendFails, CompleteConfirm, CompleteUnconfirmed,
                    ConfirmRead, ConfirmOpen, ConfirmRefused, ResumeCheck, ResumeRefused,
                    ResumeSend, ResumeSendFails, ResumeConfirm, ResumeUnconfirmed
        <5> QED BY <4>2, <4>5, <5>1 DEF Idle, Settling
      <4> QED BY <4>4, <4>5
    <3> QED BY <3>1, <3>2, <3>3 DEF SerialNext
  <2> QED BY <1>2, <2>1 DEF SettlesOnEvidence, SerialNext, Observed
<1> QED BY <1>3, <1>4

LEMMA Evidence == SerialSpec => []SettlesOnEvidence
<1>1. Init => SettlesOnEvidence
  <2>1. Init => \A c \in Clients : call[c].wait \notin Settling
    BY DEF Init, Idle, Settling
  <2>2. Init => yielded \in BOOLEAN
    BY DEF Init
  <2> QED BY <2>1, <2>2 DEF SettlesOnEvidence
<1> QED BY <1>1, EvidenceStep, Invariance, PTL DEF SerialSpec

-----------------------------------------------------------------------------
(* What follows from the invariant *)

\* Every reachable state is well typed.
THEOREM TypeCorrect == SerialSpec => []TypeOK
<1>1. IInv /\ SettlesOnEvidence => TypeOK
  BY DEF IInv, SystemTypeOK, SettlesOnEvidence, TypeOK
<1> QED BY <1>1, Invariance, Evidence, PTL

\* A session that has ended owns nothing, whichever way it ended, and a session
\* is paused exactly when it can be resumed.
THEOREM SessionsEndClean == SerialSpec => [](EndedMeansReleased /\ PausedIffResumable)
<1>1. IInv => EndedMeansReleased /\ PausedIffResumable
  BY DEF IInv
<1> QED BY <1>1, Invariance, PTL

\* Between requests the window and the session agree.
THEOREM WindowAgrees == SerialSpec => []WindowMatchesSession
<1>1. IInv => WindowMatchesSession
  BY DEF IInv, SystemTypeOK, Sessions, WindowPhase, WindowMatchesSession, EndedMeansReleased,
         TerminalStates, AllFree, Free, Idle
<1> QED BY <1>1, Invariance, PTL

\* While Kepler intervenes with an open window, the ledger holds an open record of the
\* intervention.
THEOREM LedgerFaithful == SerialSpec => []InterventionIsRecorded
<1>1. IInv => InterventionIsRecorded
  BY DEF IInv
<1> QED BY <1>1, Invariance, PTL

-----------------------------------------------------------------------------
(* Action properties.  Each is a fact about one step from a state of IInv. *)

HandoverStep ==
    /\ session.locked' /\ window' = "closed" /\ window # "closed" => ekos = "running"
    /\ window' = "open" /\ window # "open" => yielded

\* What a step does to the window and the control lock, by kind of action.
LEMMA BeginsAndHandover ==
    ASSUME IInv, NEW c \in Clients, Begins(c) \/ ConflictStart(c)
    PROVE  HandoverStep
<1>1. CASE \/ AttachStart(c) \/ AdvanceStart(c) \/ PauseStart(c) \/ ConflictStart(c)
           \/ \E k \in Kinds : BeginExhausted(c, k) \/ BeginStart(c, k)
           \/ CompleteStart(c) \/ ConfirmStart(c) \/ ResumeStart(c)
  BY <1>1 DEF HandoverStep, AttachStart, AdvanceStart, PauseStart, ConflictStart, BeginExhausted,
              BeginStart, CompleteStart, ConfirmStart, ResumeStart
<1>2. CASE Stop \/ ReleaseControl \/ Fail \/ CompleteSupervised
  BY <1>2 DEF IInv, SystemTypeOK, Sessions, HandoverStep, Stop, Stopped, ReleaseControl, Released, Fail,
              Failed, CompleteSupervised, Ended
<1>3. CASE AcknowledgeComplete \/ ClearFailure
  BY <1>3 DEF HandoverStep, AcknowledgeComplete, ClearFailure
<1> QED BY <1>1, <1>2, <1>3 DEF Begins

LEMMA ContinuesAndHandover ==
    ASSUME IInv, SettlesOnEvidence, NEW c \in Clients, Continues(c)
    PROVE  HandoverStep
<1>1. CASE \/ AttachCommit(c) \/ AttachRefused(c) \/ AttachUnrecorded(c) \/ AdvanceCommit(c)
           \/ BeginConfirm(c) \/ BeginUnconfirmed(c) \/ CompleteSend(c) \/ ConfirmRead(c)
           \/ ConfirmRefused(c) \/ ResumeSend(c)
  BY <1>1 DEF HandoverStep, AttachCommit, AttachRefused, AttachUnrecorded, AdvanceCommit,
              BeginConfirm, BeginUnconfirmed, CompleteSend, ConfirmRead, ConfirmRefused, ResumeSend
<1>2. CASE \/ PauseCommit(c) \/ BeginSend(c) \/ CompleteSendFails(c) \/ CompleteUnconfirmed(c)
           \/ ResumeCheck(c) \/ ResumeRefused(c) \/ ResumeSendFails(c) \/ ResumeUnconfirmed(c)
  BY <1>2 DEF HandoverStep, PauseCommit, BeginSend, CompleteSendFails, CompleteUnconfirmed,
              ResumeCheck, ResumeRefused, ResumeSendFails, ResumeUnconfirmed
<1>3. CASE BeginOpen(c) \/ ConfirmOpen(c)
  BY <1>3 DEF HandoverStep, BeginOpen, ConfirmOpen, At, SettlesOnEvidence, Settling
<1>4. CASE CompleteConfirm(c) \/ ResumeConfirm(c)
  BY <1>4 DEF HandoverStep, CompleteConfirm, ResumeConfirm, EkosResumed
<1> QED BY <1>1, <1>2, <1>3, <1>4 DEF Continues

\* Ownership changes hands on evidence: back to Ekos on a reading of RUNNING, to
\* Kepler only if Ekos has been paused in this handover.
THEOREM HandoversConfirmed == SerialSpec => HandoverConfirmed
<1>1. IInv /\ SettlesOnEvidence /\ [SerialNext]_vars => [HandoverStep]_vars
  <2>1. ASSUME EkosMoves \/ BrokerMoves
        PROVE  HandoverStep
    BY <2>1 DEF HandoverStep, EkosMoves, BrokerMoves, Undisturbed
  <2> QED BY <2>1, BeginsAndHandover, ContinuesAndHandover DEF SerialNext, Environment
<1> QED BY <1>1, Invariance, Evidence, PTL DEF SerialSpec, HandoverConfirmed, HandoverStep

-----------------------------------------------------------------------------
(* The handoff implements the device semaphore *)

\* owner', step by step, from what a step does to the lock and the window.
LEMMA SameOwner ==
    ASSUME session'.locked = session.locked, window' = window
    PROVE  owner' = owner
  BY DEF owner

LEMMA IntoHandover ==
    ASSUME session.locked, session'.locked, window' \in {"requested", "releasing"}
    PROVE  [Semaphore!Next]_owner
  BY DEF owner, Semaphore!Next, Semaphore!Request

LEMMA OutOfHandover ==
    ASSUME session.locked, session'.locked, window \in {"requested", "releasing"},
           window' \in {"open", "closed"}
    PROVE  [Semaphore!Next]_owner
  BY DEF owner, Semaphore!Next, Semaphore!Grant, Semaphore!Return

LEMMA NoOwner ==
    ASSUME ~session'.locked
    PROVE  [Semaphore!Next]_owner
  BY DEF owner, Semaphore!Next, Semaphore!Drop

LEMMA BeginsImplements ==
    ASSUME IInv, NEW c \in Clients, Begins(c) \/ ConflictStart(c)
    PROVE  [Semaphore!Next]_owner
<1>1. CASE \/ AttachStart(c) \/ AdvanceStart(c) \/ PauseStart(c) \/ ConflictStart(c)
           \/ \E k \in Kinds : BeginExhausted(c, k) \/ BeginStart(c, k)
           \/ ConfirmStart(c) \/ ResumeStart(c)
  BY <1>1, SameOwner
     DEF AttachStart, AdvanceStart, PauseStart, ConflictStart, BeginExhausted, BeginStart,
         ConfirmStart, ResumeStart
<1>2. CASE CompleteStart(c)
  BY <1>2, IntoHandover DEF IInv, SystemTypeOK, Sessions, EndedMeansReleased, TerminalStates, CompleteStart
<1>3. CASE Stop \/ ReleaseControl \/ Fail \/ CompleteSupervised
  BY <1>3, NoOwner DEF IInv, SystemTypeOK, Sessions, Stop, Stopped, ReleaseControl, Released, Fail, Failed,
                       CompleteSupervised, Ended
<1>4. CASE AcknowledgeComplete \/ ClearFailure
  BY <1>4, NoOwner DEF IInv, SystemTypeOK, Sessions, EndedMeansReleased, TerminalStates,
                       AcknowledgeComplete, ClearFailure, Cleared
<1> QED BY <1>1, <1>2, <1>3, <1>4 DEF Begins

LEMMA ContinuesImplements ==
    ASSUME IInv, NEW c \in Clients, Continues(c)
    PROVE  [Semaphore!Next]_owner
<1>1. StillValid(call[c])
  BY DEF IInv, InFlightStillValid
<1>2. session.state \notin TerminalStates \cup {"ready"} => session.locked
  BY DEF IInv, SystemTypeOK, Sessions, EndedMeansReleased
<1>3. CASE AttachCommit(c)
  BY <1>1, <1>3 DEF IInv, SystemTypeOK, Sessions, EndedMeansReleased, At, StillValid, AttachCommit,
                    owner, Semaphore!Next, Semaphore!Attach, TerminalStates
<1>4. CASE \/ AttachRefused(c) \/ AttachUnrecorded(c) \/ AdvanceCommit(c)
           \/ BeginConfirm(c) \/ BeginUnconfirmed(c) \/ CompleteSend(c) \/ ConfirmRead(c)
           \/ ConfirmRefused(c) \/ ResumeSend(c)
  BY <1>4, SameOwner
     DEF IInv, SystemTypeOK, Sessions, AttachRefused, AttachUnrecorded, AdvanceCommit,
         BeginConfirm, ConfirmRead, BeginUnconfirmed, Paused, CompleteSend, ConfirmRefused, ResumeSend
<1>5. CASE \/ PauseCommit(c) \/ BeginSend(c) \/ CompleteSendFails(c) \/ CompleteUnconfirmed(c)
           \/ ResumeCheck(c) \/ ResumeRefused(c) \/ ResumeSendFails(c) \/ ResumeUnconfirmed(c)
  BY <1>1, <1>2, <1>5, IntoHandover
     DEF IInv, SystemTypeOK, Sessions, At, StillValid, TerminalStates, PauseCommit, Paused, BeginSend,
         CompleteSendFails, CompleteUnconfirmed, ResumeCheck, ResumeRefused, ResumeSendFails,
         ResumeUnconfirmed
<1>6. CASE BeginOpen(c) \/ CompleteConfirm(c) \/ ResumeConfirm(c)
  BY <1>1, <1>2, <1>6, OutOfHandover
     DEF IInv, SystemTypeOK, Sessions, At, StillValid, TerminalStates, BeginOpen, CompleteConfirm,
         ResumeConfirm
<1>7. CASE ConfirmOpen(c)
  BY <1>1, <1>2, <1>7, OutOfHandover, SameOwner
     DEF IInv, SystemTypeOK, Sessions, WindowPhase, Windows, At, StillValid, TerminalStates, ConfirmOpen
<1> QED BY <1>3, <1>4, <1>5, <1>6, <1>7 DEF Continues

\* Ekos and Kepler never swap the device path without a handover between them.
THEOREM HandoffImplementsSemaphore == SerialSpec => ImplementsSemaphore
<1>1. Init => Semaphore!Init
  BY DEF Init, ReadySession, owner, Semaphore!Init
<1>2. IInv /\ [SerialNext]_vars => [Semaphore!Next]_owner
  <2>1. ASSUME EkosMoves \/ BrokerMoves
        PROVE  owner' = owner
    BY <2>1, SameOwner DEF EkosMoves, BrokerMoves, Undisturbed
  <2>2. ASSUME UNCHANGED vars
        PROVE  owner' = owner
    BY <2>2, SameOwner DEF vars, system
  <2> QED BY <2>1, <2>2, BeginsImplements, ContinuesImplements DEF SerialNext, Environment
<1> QED BY <1>1, <1>2, Invariance, PTL DEF SerialSpec, ImplementsSemaphore, Semaphore!Spec

-----------------------------------------------------------------------------
(* Overlapping requests.  Under ThreadedSpec a handler may write after any *)
(* other has run, so the readings above do not hold; what is left is what  *)
(* the order of the code's own writes guarantees.                          *)

Resuming == {"pause", "resume_check", "resume_send", "resume_confirm"}

AtRestUnlocked  == session.state \in TerminalStates \cup {"ready"} => ~session.locked
CarriesTargets  == \A c \in Clients : call[c].wait \in Resuming =>
                      call[c].ctx \in Contexts /\ call[c].ctx.resume \in ActiveTargets

ThreadInv == SystemTypeOK /\ AtRestUnlocked /\ ResumesActive /\ CarriesTargets

\* What a handler that starts or ends a wait does to the calls.
LEMMA CallsStayTyped ==
    ASSUME SystemTypeOK, CarriesTargets, NEW c \in Clients, NEW me \in Calls,
           me.wait \in Resuming => me.ctx \in Contexts /\ me.ctx.resume \in ActiveTargets,
           call' = [call EXCEPT ![c] = me]
    PROVE  call' \in [Clients -> Calls] /\ CarriesTargets'
  BY DEF SystemTypeOK, CarriesTargets

LEMMA WaitStaysTyped ==
    ASSUME SystemTypeOK, CarriesTargets, NEW c \in Clients, NEW w \in Waits, Wait(c, w),
           w \in Resuming => call[c].wait \in Resuming
    PROVE  call' \in [Clients -> Calls] /\ CarriesTargets'
<1> DEFINE me == [call[c] EXCEPT !.wait = w]
<1>1. me \in Calls /\ me.wait = w /\ me.ctx = call[c].ctx
  BY DEF SystemTypeOK, Calls
<1>2. call' = [call EXCEPT ![c] = me]
  BY DEF Wait
<1> HIDE DEF me
<1> QED BY <1>1, <1>2, CallsStayTyped DEF CarriesTargets

LEMMA WaitWithStaysTyped ==
    ASSUME SystemTypeOK, CarriesTargets, NEW c \in Clients, NEW w \in Waits, NEW x \in Contexts,
           WaitWith(c, w, x), x.resume \in ActiveTargets
    PROVE  call' \in [Clients -> Calls] /\ CarriesTargets'
<1> DEFINE me == [call[c] EXCEPT !.wait = w, !.ctx = x]
<1>1. me \in Calls /\ me.wait = w /\ me.ctx = x
  BY DEF SystemTypeOK, Calls
<1>2. call' = [call EXCEPT ![c] = me]
  BY DEF WaitWith
<1> HIDE DEF me
<1> QED BY <1>1, <1>2, CallsStayTyped

LEMMA ReturnStaysTyped ==
    ASSUME SystemTypeOK, CarriesTargets, NEW c \in Clients, Return(c)
    PROVE  call' \in [Clients -> Calls] /\ CarriesTargets'
<1>1. Idle \in Calls /\ Idle.wait \notin Resuming
  BY DEF Idle, Calls, Waits, Resuming
<1> QED BY <1>1, CallsStayTyped DEF Return

\* The targets a handler picks up are active states.
LEMMA TargetsAreActive ==
    ASSUME ThreadInv
    PROVE  /\ session.state \notin PreSessionStates \cup TerminalStates \cup {"paused"} =>
                PauseTarget(session) \in Contexts /\ PauseTarget(session).resume \in ActiveTargets
           /\ session.locked =>
                ConflictTarget(session) \in Contexts /\ ConflictTarget(session).resume \in ActiveTargets
           /\ MonitoringTarget \in Contexts /\ MonitoringTarget.resume \in ActiveTargets
           /\ session.ctx # NoContext =>
                session.ctx \in Contexts /\ session.ctx.resume \in ActiveTargets
<1>1. session.state \notin PreSessionStates \cup TerminalStates \cup {"paused"} =>
        PauseTarget(session) \in Contexts /\ PauseTarget(session).resume \in ActiveTargets
  BY DEF ThreadInv, SystemTypeOK, Sessions, PauseTarget, Contexts, ActiveTargets, ClawStates,
         PreSessionStates, LoopStates, CaptureStates, SupervisoryStates, TerminalStates, Intents
<1>2. session.locked =>
        ConflictTarget(session) \in Contexts /\ ConflictTarget(session).resume \in ActiveTargets
  BY DEF ThreadInv, AtRestUnlocked, SystemTypeOK, Sessions, ConflictTarget, SafeResumeStates,
         Contexts, ActiveTargets, ClawStates, PreSessionStates, LoopStates, CaptureStates,
         SupervisoryStates, TerminalStates, Intents
<1>3. MonitoringTarget \in Contexts /\ MonitoringTarget.resume \in ActiveTargets
  BY DEF MonitoringTarget, Contexts, ActiveTargets, ClawStates, SupervisoryStates, TerminalStates,
         Intents
<1>4. session.ctx # NoContext => session.ctx \in Contexts /\ session.ctx.resume \in ActiveTargets
  BY DEF ThreadInv, ResumesActive, SystemTypeOK, Sessions
<1> QED BY <1>1, <1>2, <1>3, <1>4

LEMMA ThreadsKeepCalls ==
    ASSUME ThreadInv, ThreadedNext
    PROVE  call' \in [Clients -> Calls] /\ CarriesTargets'
<1>1. SystemTypeOK /\ CarriesTargets
  BY DEF ThreadInv
<1>2. ASSUME NEW c \in Clients,
             \/ AttachStart(c) \/ AdvanceStart(c) \/ CompleteStart(c) \/ ConfirmStart(c)
             \/ BeginSend(c) \/ BeginConfirm(c) \/ CompleteSend(c) \/ ConfirmRead(c)
             \/ ResumeCheck(c) \/ ResumeSend(c)
      PROVE  call' \in [Clients -> Calls] /\ CarriesTargets'
  <2>1. PICK w \in Waits : Wait(c, w) /\ (w \in Resuming => call[c].wait \in Resuming)
    BY <1>2 DEF AttachStart, AdvanceStart, CompleteStart, ConfirmStart, BeginSend, BeginConfirm,
                CompleteSend, ConfirmRead, ResumeCheck, ResumeSend, At, Waits, Resuming
  <2> QED BY <1>1, <2>1, WaitStaysTyped
<1>3. ASSUME NEW c \in Clients,
             \/ PauseStart(c) \/ ConflictStart(c) \/ ResumeStart(c)
             \/ \E k \in Kinds : BeginExhausted(c, k)
      PROVE  call' \in [Clients -> Calls] /\ CarriesTargets'
  <2>1. PICK x \in Contexts : /\ x.resume \in ActiveTargets
                              /\ WaitWith(c, "pause", x) \/ WaitWith(c, "resume_check", x)
    BY <1>3, TargetsAreActive DEF PauseStart, ConflictStart, ResumeStart, BeginExhausted
  <2>2. "pause" \in Waits /\ "resume_check" \in Waits
    BY DEF Waits
  <2> QED BY <1>1, <2>1, <2>2, WaitWithStaysTyped
<1>4. ASSUME NEW c \in Clients, NEW k \in Kinds, BeginStart(c, k)
      PROVE  call' \in [Clients -> Calls] /\ CarriesTargets'
  <2> DEFINE me == [call[c] EXCEPT !.wait = "begin_send", !.kind = k]
  <2>1. me \in Calls /\ me.wait \notin Resuming
    BY <1>1 DEF SystemTypeOK, Calls, Waits, Resuming
  <2>2. call' = [call EXCEPT ![c] = me]
    BY <1>4 DEF BeginStart
  <2> HIDE DEF me
  <2> QED BY <1>1, <2>1, <2>2, CallsStayTyped
<1>5. ASSUME NEW c \in Clients,
             \/ AttachCommit(c) \/ AttachRefused(c) \/ AttachUnrecorded(c) \/ AdvanceCommit(c)
             \/ PauseCommit(c) \/ BeginOpen(c) \/ BeginUnconfirmed(c) \/ CompleteSendFails(c)
             \/ CompleteConfirm(c) \/ CompleteUnconfirmed(c) \/ ConfirmOpen(c)
             \/ ConfirmRefused(c) \/ ResumeRefused(c) \/ ResumeSendFails(c)
             \/ ResumeConfirm(c) \/ ResumeUnconfirmed(c)
      PROVE  call' \in [Clients -> Calls] /\ CarriesTargets'
  <2>1. Return(c)
    BY <1>5 DEF AttachCommit, AttachRefused, AttachUnrecorded, AdvanceCommit, PauseCommit,
                BeginOpen, BeginUnconfirmed, CompleteSendFails, CompleteConfirm,
                CompleteUnconfirmed, ConfirmOpen, ConfirmRefused, ResumeRefused, ResumeSendFails,
                ResumeConfirm, ResumeUnconfirmed
  <2> QED BY <1>1, <2>1, ReturnStaysTyped
<1>6. CASE \/ Stop \/ ReleaseControl \/ Fail \/ CompleteSupervised \/ AcknowledgeComplete
           \/ ClearFailure \/ Environment
  <2>1. call' = call
    BY <1>6 DEF Stop, ReleaseControl, Fail, CompleteSupervised, AcknowledgeComplete,
                ClearFailure, Environment, EkosMoves, BrokerMoves, Undisturbed
  <2> QED BY <1>1, <2>1 DEF SystemTypeOK, CarriesTargets
<1> QED BY <1>2, <1>3, <1>4, <1>5, <1>6 DEF ThreadedNext, Begins, Continues

\* A write after a wait installs a state in which the lock may be held, or changes
\* neither; an end drops the lock with the state.
LEMMA ThreadsKeepSession ==
    ASSUME ThreadInv, ThreadedNext
    PROVE  session' \in Sessions /\ AtRestUnlocked' /\ ResumesActive'
<1> DEFINE Good == session' \in Sessions /\ AtRestUnlocked' /\ ResumesActive'
<1>1. session \in Sessions /\ AtRestUnlocked /\ ResumesActive
  BY DEF ThreadInv, SystemTypeOK
<1>2. ASSUME NEW c \in Clients, PauseCommit(c) PROVE Good
  <2>1. call[c].ctx \in Contexts /\ call[c].ctx.resume \in ActiveTargets
    BY <1>2 DEF ThreadInv, CarriesTargets, PauseCommit, At, Resuming
  <2> QED BY <1>1, <1>2, <2>1 DEF PauseCommit, Paused, Sessions, Contexts, ClawStates,
             AtRestUnlocked, ResumesActive, TerminalStates
<1>3. ASSUME NEW c \in Clients, ResumeConfirm(c) PROVE Good
  <2>1. call[c].ctx \in Contexts /\ call[c].ctx.resume \in ActiveTargets
    BY <1>3 DEF ThreadInv, CarriesTargets, ResumeConfirm, At, Resuming
  <2> QED BY <1>1, <1>3, <2>1 DEF ResumeConfirm, Sessions, Contexts, ActiveTargets,
             AtRestUnlocked, ResumesActive
<1>4. ASSUME NEW c \in Clients, BeginUnconfirmed(c) PROVE Good
  BY <1>1, <1>4 DEF BeginUnconfirmed, Paused, Sessions, Contexts, ClawStates, SupervisoryStates,
     Intents, AtRestUnlocked, ResumesActive, ActiveTargets, TerminalStates
<1>5. ASSUME NEW c \in Clients,
             AttachCommit(c) \/ AttachUnrecorded(c) \/ AdvanceCommit(c) \/ BeginOpen(c)
             \/ CompleteConfirm(c)
      PROVE  Good
  BY <1>1, <1>5 DEF AttachCommit, AttachUnrecorded, AdvanceCommit, BeginOpen, CompleteConfirm,
     Sessions, ClawStates, SupervisoryStates, Intents, AtRestUnlocked, ResumesActive,
     TerminalStates
<1>6. CASE Stop \/ ReleaseControl \/ Fail \/ CompleteSupervised
  BY <1>1, <1>6 DEF Stop, Stopped, ReleaseControl, Released, Fail, Failed, CompleteSupervised,
     Ended, Sessions, ClawStates, TerminalStates, Outcomes, AtRestUnlocked, ResumesActive
<1>7. CASE AcknowledgeComplete \/ ClearFailure
  BY <1>1, <1>7 DEF AcknowledgeComplete, ClearFailure, Cleared, Sessions, ClawStates,
     PreSessionStates, TerminalStates, AtRestUnlocked, ResumesActive
<1>8. CASE session' = session
  BY <1>1, <1>8 DEF AtRestUnlocked, ResumesActive
<1>9. ASSUME NEW c \in Clients,
             \/ AttachStart(c) \/ AdvanceStart(c) \/ PauseStart(c) \/ ConflictStart(c)
             \/ \E k \in Kinds : BeginExhausted(c, k) \/ BeginStart(c, k)
             \/ CompleteStart(c) \/ ConfirmStart(c) \/ ResumeStart(c)
             \/ AttachRefused(c) \/ BeginSend(c) \/ BeginConfirm(c) \/ CompleteSend(c)
             \/ CompleteSendFails(c) \/ CompleteUnconfirmed(c) \/ ConfirmRead(c)
             \/ ConfirmOpen(c) \/ ConfirmRefused(c) \/ ResumeCheck(c) \/ ResumeRefused(c)
             \/ ResumeSend(c) \/ ResumeSendFails(c) \/ ResumeUnconfirmed(c)
      PROVE  session' = session
  BY <1>9 DEF AttachStart, AdvanceStart, PauseStart, ConflictStart, BeginExhausted, BeginStart,
     CompleteStart, ConfirmStart, ResumeStart, AttachRefused, BeginSend, BeginConfirm,
     CompleteSend, CompleteSendFails, CompleteUnconfirmed, ConfirmRead, ConfirmOpen,
     ConfirmRefused, ResumeCheck, ResumeRefused, ResumeSend, ResumeSendFails, ResumeUnconfirmed
<1>10. CASE Environment
  BY <1>8, <1>10 DEF Environment, EkosMoves, BrokerMoves, Undisturbed
<1>11. ASSUME NEW c \in Clients, Begins(c) \/ ConflictStart(c) PROVE Good
  BY <1>6, <1>7, <1>8, <1>9, <1>11 DEF Begins
<1>12. ASSUME NEW c \in Clients, Continues(c) PROVE Good
  BY <1>2, <1>3, <1>4, <1>5, <1>8, <1>9, <1>12 DEF Continues
<1> QED BY <1>10, <1>11, <1>12 DEF ThreadedNext

\* How many handlers are past the budget test for kind k and have not opened yet.
Opening(k) == {c \in Clients : /\ call[c].kind = k
                               /\ call[c].wait \in {"begin_send", "begin_confirm", "begin_settle"}}

Spent(k) == ledger.attempts[k] + Cardinality(Opening(k))

BudgetInv ==
    /\ ledger \in Ledgers
    /\ \A k \in Kinds : /\ Opening(k) # {} => MaxRetries > 0
                        /\ Spent(k) <= MaxRetries + Cardinality(Clients) - 1

LEMMA OpeningIsFinite ==
    ASSUME NEW k
    PROVE  /\ IsFiniteSet(Opening(k)) /\ Cardinality(Opening(k)) \in Nat
           /\ Cardinality(Clients) \in Nat /\ Cardinality(Clients) > 0
           /\ Cardinality(Opening(k)) <= Cardinality(Clients)
<1>1. Opening(k) \in SUBSET Clients
  BY DEF Opening
<1>2. Cardinality(Clients) \in Nat /\ Cardinality(Clients) # 0
  BY ClientsAssumption, FS_CardinalityType, FS_EmptySet
<1> QED BY <1>1, <1>2, ClientsAssumption, FS_Subset, FS_CardinalityType

LEMMA ThreadsKeepLedger ==
    ASSUME ledger \in Ledgers, call \in [Clients -> Calls], ThreadedNext
    PROVE  ledger' \in Ledgers
<1>1. NoRecords \in Ledgers
  BY DEF NoRecords, Ledgers
<1>2. CloseIntervention(ledger) \in Ledgers
  BY CloseKeepsAttempts
<1>3. ASSUME NEW c \in Clients, BeginOpen(c)
      PROVE  ledger' \in Ledgers
  BY <1>3, OpenStaysTyped DEF BeginOpen, Calls
<1>4. ASSUME NEW c \in Clients, Begins(c) \/ ConflictStart(c)
      PROVE  ledger' \in {ledger, NoRecords, CloseIntervention(ledger)}
  BY <1>4 DEF Begins, ConflictStart, AttachStart, AdvanceStart, PauseStart, BeginExhausted,
     BeginStart, CompleteStart, ConfirmStart, ResumeStart, Stop, ReleaseControl, Fail,
     CompleteSupervised, AcknowledgeComplete, ClearFailure
<1>5. ASSUME NEW c \in Clients, Continues(c), ~BeginOpen(c)
      PROVE  ledger' \in {ledger, NoRecords}
  BY <1>5 DEF Continues, AttachCommit, AttachRefused, AttachUnrecorded, AdvanceCommit,
     PauseCommit, BeginSend, BeginConfirm, BeginUnconfirmed, CompleteSend, CompleteSendFails,
     CompleteConfirm, CompleteUnconfirmed, ConfirmRead, ConfirmOpen, ConfirmRefused, ResumeCheck,
     ResumeRefused, ResumeSend, ResumeSendFails, ResumeConfirm, ResumeUnconfirmed
<1>6. CASE Environment
  BY <1>6 DEF Environment, EkosMoves, BrokerMoves, Undisturbed
<1> QED BY <1>1, <1>2, <1>3, <1>4, <1>5, <1>6 DEF ThreadedNext

\* Every step but the start and the end of an opening leaves the attempts alone or
\* clears them, and adds no handler to those that are opening.
LEMMA OthersSpendNothing ==
    ASSUME SystemTypeOK, ThreadedNext, NEW k \in Kinds,
           ~ \E c \in Clients : BeginStart(c, k) \/ BeginOpen(c)
    PROVE  /\ Opening(k)' \subseteq Opening(k)
           /\ ledger'.attempts[k] \in {ledger.attempts[k], 0}
<1> DEFINE Quiet(d) == call'[d] = call[d] \/ d \notin Opening(k)'
                       \/ (d \in Opening(k) /\ call'[d].kind = call[d].kind)
<1>1. NoRecords.attempts[k] = 0 /\ CloseIntervention(ledger).attempts = ledger.attempts
  BY CloseKeepsAttempts DEF NoRecords, SystemTypeOK
<1>2. ASSUME NEW c \in Clients, Begins(c) \/ ConflictStart(c)
      PROVE  ledger'.attempts[k] \in {ledger.attempts[k], 0}
  BY <1>1, <1>2 DEF Begins, ConflictStart, AttachStart, AdvanceStart, PauseStart, BeginExhausted,
     BeginStart, CompleteStart, ConfirmStart, ResumeStart, Stop, ReleaseControl, Fail,
     CompleteSupervised, AcknowledgeComplete, ClearFailure
<1>3. ASSUME NEW c \in Clients, Continues(c)
      PROVE  ledger'.attempts[k] \in {ledger.attempts[k], 0}
  BY <1>1, <1>3 DEF Continues, AttachCommit, AttachRefused, AttachUnrecorded, AdvanceCommit,
     PauseCommit, BeginSend, BeginConfirm, BeginUnconfirmed, CompleteSend, CompleteSendFails,
     CompleteConfirm, CompleteUnconfirmed, ConfirmRead, ConfirmOpen, ConfirmRefused, ResumeCheck,
     ResumeRefused, ResumeSend, ResumeSendFails, ResumeConfirm, ResumeUnconfirmed
<1>4. CASE Environment
  BY <1>4 DEF Environment, EkosMoves, BrokerMoves, Undisturbed, Opening
<1>5. ledger'.attempts[k] \in {ledger.attempts[k], 0}
  BY <1>2, <1>3, <1>4 DEF ThreadedNext
<1>6. ASSUME NEW c \in Clients, Begins(c) \/ ConflictStart(c)
      PROVE  Opening(k)' \subseteq Opening(k)
  <2>1. CASE \/ Stop \/ ReleaseControl \/ Fail \/ CompleteSupervised
             \/ AcknowledgeComplete \/ ClearFailure
    BY <2>1 DEF Stop, ReleaseControl, Fail, CompleteSupervised, AcknowledgeComplete,
                ClearFailure, Opening
  <2>2. CASE AttachStart(c) \/ AdvanceStart(c) \/ CompleteStart(c) \/ ConfirmStart(c)
    BY <2>2 DEF AttachStart, AdvanceStart, CompleteStart, ConfirmStart, Wait, Opening,
                SystemTypeOK, Calls
  <2>3. CASE \/ PauseStart(c) \/ ConflictStart(c) \/ ResumeStart(c)
             \/ \E j \in Kinds : BeginExhausted(c, j)
    <3>1. PICK x : WaitWith(c, "pause", x) \/ WaitWith(c, "resume_check", x)
      BY <2>3 DEF PauseStart, ConflictStart, ResumeStart, BeginExhausted
    <3> QED BY <3>1 DEF WaitWith, Opening, SystemTypeOK, Calls
  <2>4. CASE \E j \in Kinds : BeginStart(c, j)
    <3>1. PICK j \in Kinds \ {k} : BeginStart(c, j)
      BY <2>4
    <3> DEFINE me == [call[c] EXCEPT !.wait = "begin_send", !.kind = j]
    <3>2. call' = [call EXCEPT ![c] = me] /\ me.kind = j
      BY <3>1 DEF BeginStart, SystemTypeOK, Calls
    <3> HIDE DEF me
    <3> QED BY <3>1, <3>2 DEF Opening, SystemTypeOK
  <2> QED BY <1>6, <2>1, <2>2, <2>3, <2>4 DEF Begins
<1>7. ASSUME NEW c \in Clients, Continues(c)
      PROVE  Opening(k)' \subseteq Opening(k)
  <2>1. CASE Return(c)
    BY <2>1 DEF Return, Idle, Opening, SystemTypeOK, Calls
  <2>2. CASE BeginSend(c) \/ BeginConfirm(c)
    BY <2>2 DEF BeginSend, BeginConfirm, At, Wait, Opening, SystemTypeOK, Calls
  <2>3. CASE CompleteSend(c) \/ ConfirmRead(c) \/ ResumeCheck(c) \/ ResumeSend(c)
    BY <2>3 DEF CompleteSend, ConfirmRead, ResumeCheck, ResumeSend, Wait, Opening,
                SystemTypeOK, Calls
  <2> QED BY <1>7, <2>1, <2>2, <2>3 DEF Continues, AttachCommit, AttachRefused, AttachUnrecorded,
     AdvanceCommit, PauseCommit, BeginUnconfirmed, CompleteSendFails, CompleteConfirm,
     CompleteUnconfirmed, ConfirmOpen, ConfirmRefused, ResumeRefused, ResumeSendFails,
     ResumeConfirm, ResumeUnconfirmed
<1> QED BY <1>4, <1>5, <1>6, <1>7 DEF ThreadedNext

LEMMA ThreadsKeepDevices ==
    ASSUME ThreadInv, ThreadedNext
    PROVE  window' \in Windows /\ ekos' \in EkosStates /\ broker' \in BrokerStates
<1>1. window \in Windows /\ ekos \in EkosStates /\ broker \in BrokerStates
  BY DEF ThreadInv, SystemTypeOK
<1>2. ASSUME NEW c \in Clients, Begins(c) \/ ConflictStart(c)
      PROVE  window' \in {window, "closed", "releasing"} /\ UNCHANGED <<ekos, broker>>
  BY <1>2 DEF Begins, ConflictStart, AttachStart, AdvanceStart, PauseStart, BeginExhausted,
     BeginStart, CompleteStart, ConfirmStart, ResumeStart, Stop, ReleaseControl, Fail,
     CompleteSupervised, AcknowledgeComplete, ClearFailure
<1>3. ASSUME NEW c \in Clients, Continues(c)
      PROVE  /\ window' \in {window, "requested", "releasing", "open", "closed"}
             /\ ekos' \in {ekos, "paused", "resuming", "running"}
             /\ broker' = broker
  BY <1>3 DEF Continues, AttachCommit, AttachRefused, AttachUnrecorded, AdvanceCommit,
     PauseCommit, BeginSend, BeginConfirm, BeginOpen, BeginUnconfirmed, CompleteSend,
     CompleteSendFails, CompleteConfirm, CompleteUnconfirmed, ConfirmRead, ConfirmOpen,
     ConfirmRefused, ResumeCheck, ResumeRefused, ResumeSend, ResumeSendFails, ResumeConfirm,
     ResumeUnconfirmed, PauseRequest, ResumeAccepted
<1>4. CASE Environment
  BY <1>1, <1>4 DEF Environment, EkosMoves, BrokerMoves, Undisturbed
<1> QED BY <1>1, <1>2, <1>3, <1>4 DEF ThreadedNext, Windows, EkosStates

\* A start of an opening is under the budget; its end trades the handler for an attempt.
LEMMA BudgetStep == ThreadInv /\ BudgetInv /\ [ThreadedNext]_vars => BudgetInv'
<1> SUFFICES ASSUME ThreadInv, BudgetInv, ThreadedNext PROVE BudgetInv'
  BY DEF BudgetInv, Spent, Opening, vars, system
<1>1. SystemTypeOK /\ ledger \in Ledgers /\ call \in [Clients -> Calls]
  BY DEF ThreadInv, SystemTypeOK
<1>2. ledger' \in Ledgers
  BY <1>1, ThreadsKeepLedger
<1>3. ASSUME NEW k \in Kinds
      PROVE  /\ Opening(k)' # {} => MaxRetries > 0
             /\ Spent(k)' <= MaxRetries + Cardinality(Clients) - 1
  <2> DEFINE C == Cardinality(Clients)
             O == Opening(k)
             A == ledger.attempts[k]
  <2>1. /\ C \in Nat /\ C > 0
        /\ IsFiniteSet(O) /\ Cardinality(O) \in Nat /\ Cardinality(O) <= C
        /\ IsFiniteSet(O') /\ Cardinality(O') \in Nat /\ Cardinality(O') <= C
    <3>1. O' = {c \in Clients : /\ call'[c].kind = k
                                /\ call'[c].wait \in {"begin_send", "begin_confirm", "begin_settle"}}
      BY DEF Opening
    <3>2. O' \in SUBSET Clients
      BY <3>1
    <3> QED BY <3>2, OpeningIsFinite, ClientsAssumption, FS_Subset, FS_CardinalityType
  <2>2. /\ A \in Nat /\ A' \in Nat /\ MaxRetries \in Nat
        /\ O # {} => MaxRetries > 0
        /\ A + Cardinality(O) <= MaxRetries + C - 1
    BY <1>1, <1>2, MaxRetriesAssumption DEF BudgetInv, Spent, Ledgers
  <2>3. CASE \E c \in Clients : BeginStart(c, k)
    <3>1. A < MaxRetries /\ A' = A
      BY <2>2, <2>3 DEF BeginStart, IsRetryExhausted
    <3> HIDE DEF A, C, O
    <3>2. MaxRetries > 0 /\ A' + Cardinality(O') <= MaxRetries + C - 1
      BY <2>1, <2>2, <3>1
    <3> QED BY <3>2 DEF A, C, O, Spent
  <2>4. CASE \E c \in Clients : BeginOpen(c) /\ call[c].kind = k
    <3>1. PICK c \in Clients : BeginOpen(c) /\ call[c].kind = k
      BY <2>4
    <3>2. c \in O /\ O' = O \ {c}
      BY <1>1, <3>1 DEF BeginOpen, At, Return, Idle, Opening, SystemTypeOK
    <3>3. A' = A + 1
      BY <1>1, <3>1, OpenCounts DEF BeginOpen
    <3>4. Cardinality(O') = Cardinality(O) - 1
      BY <2>1, <3>2, FS_RemoveElement
    <3> HIDE DEF A, C, O
    <3>5. MaxRetries > 0 /\ A' + Cardinality(O') <= MaxRetries + C - 1
      BY <2>1, <2>2, <3>2, <3>3, <3>4
    <3> QED BY <3>5 DEF A, C, O, Spent
  <2>5. CASE /\ ~ \E c \in Clients : BeginStart(c, k)
             /\ ~ \E c \in Clients : BeginOpen(c) /\ call[c].kind = k
    <3>1. O' \subseteq O /\ A' \in {A, 0}
      <4>1. ASSUME NEW c \in Clients, BeginOpen(c)
            PROVE  O' \subseteq O /\ A' = A
        <5>1. call[c].kind # k
          BY <2>5, <4>1
        <5>2. O' \subseteq O
          BY <1>1, <4>1 DEF BeginOpen, Return, Idle, Opening, SystemTypeOK
        <5>3. A' = A
          <6>1. ledger' = OpenIntervention(ledger, call[c].kind) /\ ledger \in Ledgers
            BY <1>1, <4>1 DEF BeginOpen
          <6>2. OpenIntervention(ledger, call[c].kind).attempts[k] = ledger.attempts[k]
            BY <5>1, <6>1 DEF OpenIntervention, Ledgers
          <6> QED BY <6>1, <6>2
        <5> QED BY <5>2, <5>3
      <4>2. CASE ~ \E c \in Clients : BeginOpen(c)
        BY <1>1, <2>5, <4>2, OthersSpendNothing
      <4> QED BY <4>1, <4>2
    <3>2. Cardinality(O') <= Cardinality(O)
      BY <2>1, <3>1, FS_Subset
    <3> HIDE DEF A, C, O
    <3>3. /\ O' # {} => MaxRetries > 0
          /\ A' + Cardinality(O') <= MaxRetries + C - 1
      BY <2>1, <2>2, <3>1, <3>2
    <3> QED BY <3>3 DEF A, C, O, Spent
  <2> QED BY <2>3, <2>4, <2>5
<1> QED BY <1>2, <1>3 DEF BudgetInv

LEMMA ThreadInvariance == ThreadedSpec => [](ThreadInv /\ BudgetInv)
<1>1. Init => ThreadInv
  BY DEF Init, ThreadInv, SystemTypeOK, ReadySession, Sessions, ClawStates, PreSessionStates,
         NoRecords, Ledgers, Windows, BrokerStates, Calls, Waits, Idle, AtRestUnlocked,
         ResumesActive, CarriesTargets, Resuming
<1>2. Init => BudgetInv
  <2> SUFFICES ASSUME Init PROVE BudgetInv
    OBVIOUS
  <2>1. ledger \in Ledgers /\ \A k \in Kinds : ledger.attempts[k] = 0 /\ Opening(k) = {}
    BY DEF Init, NoRecords, Ledgers, Opening, Idle
  <2>2. Cardinality(Clients) \in Nat /\ Cardinality(Clients) > 0
    BY OpeningIsFinite
  <2>3. \A k \in Kinds : Cardinality(Opening(k)) = 0
    BY <2>1, FS_EmptySet
  <2>4. \A k \in Kinds : Spent(k) <= MaxRetries + Cardinality(Clients) - 1
    BY <2>1, <2>2, <2>3, MaxRetriesAssumption DEF Spent
  <2> QED BY <2>1, <2>4 DEF BudgetInv
<1>3. ThreadInv /\ [ThreadedNext]_vars => ThreadInv'
  <2>1. ASSUME ThreadInv, ThreadedNext
        PROVE  window' \in Windows /\ ekos' \in EkosStates /\ broker' \in BrokerStates
    BY <2>1, ThreadsKeepDevices
  <2>2. ASSUME ThreadInv, ThreadedNext
        PROVE  ThreadInv'
    BY <2>1, <2>2, ThreadsKeepCalls, ThreadsKeepSession, ThreadsKeepLedger
       DEF ThreadInv, SystemTypeOK
  <2> QED BY <2>2 DEF ThreadInv, SystemTypeOK, AtRestUnlocked, ResumesActive, CarriesTargets,
                      vars, system
<1> QED BY <1>1, <1>2, <1>3, BudgetStep, PTL DEF ThreadedSpec

\* However requests overlap, a kind of intervention is attempted at most as often in one
\* session as the retry budget allows, plus once for every client beyond the first: each of
\* them may have passed the budget test while the others were still waiting for Ekos
\* (begin_intervention).
THEOREM OverlapOverspends ==
    ThreadedSpec => [](\A k \in Kinds :
                          ledger.attempts[k] <= MaxRetries + Cardinality(Clients) - 1)
<1>1. BudgetInv => \A k \in Kinds : ledger.attempts[k] <= MaxRetries + Cardinality(Clients) - 1
  BY OpeningIsFinite, MaxRetriesAssumption DEF BudgetInv, Spent, Ledgers
<1> QED BY <1>1, ThreadInvariance, PTL

\* However requests overlap, a session that has ended or has been cleared does not hold
\* the control lock: every late write of the state that could revive a session installs a
\* state in which the lock is allowed, and none takes the lock back but attach_session().
THEOREM AtRestWithoutLock ==
    ThreadedSpec => [](session.state \in TerminalStates \cup {"ready"} => ~session.locked)
<1>1. ThreadInv => (session.state \in TerminalStates \cup {"ready"} => ~session.locked)
  BY DEF ThreadInv, AtRestUnlocked
<1> QED BY <1>1, ThreadInvariance, PTL

=============================================================================
