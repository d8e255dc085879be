---------------------- MODULE EquipmentProfiles_proofs ----------------------
(***************************************************************************)
(* Proofs about EquipmentProfiles for any profiles, documents and clients. *)
(*                                                                         *)
(* Well-formedness holds whatever the clients do.  The other results hold  *)
(* as long as no two requests are under way at once (OneInFlight): two     *)
(* overlapping requests that make different profiles the default leave     *)
(* two of them, as the README shows.                                       *)
(*                                                                         *)
(* The moved flag, the memory and the operator's choice are wrong for a    *)
(* while in the middle of every request.  Fit(r) says how far each is      *)
(* right while request r is at its step; with no request it says what the  *)
(* properties claim.                                                       *)
(***************************************************************************)
EXTENDS EquipmentProfiles, TLAPS

OneInFlight == \A c, d \in Clients : ~Free(c) /\ ~Free(d) => c = d

\* While the node is down nothing runs and nothing is accepted, and what works on the active profile has one.
WInv ==
    /\ TypeOK
    /\ state = "down" => AllFree /\ accepted = NotAccepted
    /\ state \in {"session", "calibrate"} => active # Inactive
    /\ \A c \in Clients : request[c].at \in {"project", "ensure", "sweep"} => active # Inactive

-----------------------------------------------------------------------------

InStep == SameProfile(active.doc, files[active.id])
Shown  == runtime = Projected(active)
AcceptanceFits == accepted # NotAccepted /\ ~accepted.other => accepted.config = active.doc.config
Agrees == InStep /\ Shown /\ AcceptanceFits

\* Past _clear_default_flag() no other file carries the flag; on the way there
\* only those that are still to be cleared.
FlagFits(r) ==
    /\ \A p, q \in Defaults : p = q
    /\ r.at = "clear" => r.doc.default /\ r.id \notin r.todo /\ Defaults \subseteq r.todo \cup {r.id}
    /\ r.at = "write" /\ r.doc.default => Defaults \subseteq {r.id}

\* Until its document is written a request leaves the memory alone, but a
\* calibration, which is ahead of the disk; then the disk is ahead, the memory
\* and the focus driver's file follow, and replacing drops the acceptance last.
MemoryFits(r) ==
    /\ r.at = "none" /\ active # Inactive => Agrees
    /\ r.at \in {"clear", "write"} /\ ~r.sweeping =>
         /\ r.isActive <=> active.id = r.id
         /\ r.isActive => r.op = "replace"
         /\ active # Inactive => Agrees
    /\ r.at \in {"clear", "write"} /\ r.sweeping =>
         /\ r.isActive /\ active = [id |-> r.id, doc |-> r.doc] /\ files[r.id] \in Documents
         /\ files[r.id].default => r.doc.default
         /\ r.op # "replace" => AcceptanceFits
    /\ r.at = "activate" =>
         /\ SameProfile(r.doc, files[r.id])
         /\ r.op \in {"select", "replace"}
              \/ (active # Inactive /\ active.doc.config = r.doc.config /\ AcceptanceFits)
    /\ r.at = "project" =>
         /\ active = [id |-> r.id, doc |-> r.doc] /\ InStep
         /\ r.op # "replace" => AcceptanceFits
    /\ r.at \in {"ensure", "sweep", "reproject", "settle"} =>
         /\ active # Inactive /\ InStep /\ Shown
         /\ r.op # "replace" => AcceptanceFits

\* The profile that should carry the flag is the one that does, except while it
\* is moved.
Moving(r) == r.at = "clear" \/ (r.at = "write" /\ r.doc.default)
ChoiceFits(r) == chosen # NoChoice /\ ~Moving(r) => Defaults = {Holder}

Fit(r) == ~diskFailed => FlagFits(r) /\ MemoryFits(r) /\ ChoiceFits(r)

SInv ==
    /\ AllFree => Fit(NoRequest)
    /\ \A c \in Clients : ~Free(c) => Fit(request[c])

-----------------------------------------------------------------------------
(* Well-formedness *)

\* The projection of an active profile is a file the focus driver can read.
LEMMA ProjectedIsTyped ==
    ASSUME NEW a \in Activated \cup {Inactive}
    PROVE  Projected(a) \in Projections \cup {NoRuntime}
<1>1. CASE a = Inactive
  BY <1>1 DEF Projected, Inactive
<1>2. CASE a \in Activated
  BY <1>2 DEF Projected, Activated, Documents, Projections
<1> QED BY <1>1, <1>2

\* A file that is neither missing nor cut off holds a document.
LEMMA StoredIsDocument ==
    ASSUME TypeOK, NEW p \in Stored
    PROVE  p \in Profiles /\ files[p] \in Documents
  BY DEF TypeOK, Stored

\* The focus driver's file is projected, or that fails.
LEMMA ProjectionTyped ==
    ASSUME TypeOK, NEW a \in Activated \cup {Inactive},
           runtime' = Projected(a) \/ ProjectionCutOff(a)
    PROVE  runtime' \in Projections \cup {NoRuntime, Torn}
  BY ProjectedIsTyped DEF TypeOK, ProjectionCutOff

LEMMA CutOffIsTyped ==
    ASSUME TypeOK, NEW p \in Profiles, CutOff(p)
    PROVE  files' \in [Profiles -> Documents \cup {Missing, Torn}]
  BY DEF TypeOK, CutOff

\* One client goes on; nobody deactivates the profile under the others.
LEMMA MoveTyped ==
    ASSUME WInv, NEW c \in Clients, NEW n \in Requests \cup {NoRequest},
           request' = [request EXCEPT ![c] = n],
           files' \in [Profiles -> Documents \cup {Missing, Torn}],
           active' \in Activated \cup {Inactive},
           active # Inactive => active' # Inactive,
           runtime' \in Projections \cup {NoRuntime, Torn},
           chosen' \in Choices \cup {NoChoice}, diskFailed' \in BOOLEAN,
           accepted' \in Acceptances \cup {NotAccepted},
           state' \in States \ {"down"},
           state' \in {"session", "calibrate"} => active' # Inactive,
           n.at \in {"project", "ensure", "sweep"} => active' # Inactive
    PROVE  WInv'
<1>1. TypeOK'
  BY DEF WInv, TypeOK
<1>2. request'[c] = n /\ \A d \in Clients \ {c} : request'[d] = request[d]
  BY DEF WInv, TypeOK
<1>3. \A d \in Clients : request'[d].at \in {"project", "ensure", "sweep"} => active' # Inactive
  BY <1>2 DEF WInv
<1> QED BY <1>1, <1>3 DEF WInv

\* The record of a request is made of its parts.
LEMMA RequestTyped ==
    ASSUME NEW st \in Steps, NEW op \in {"create", "replace", "select", "calibrate"},
           NEW p \in Profiles, NEW doc \in Documents, NEW todo \in SUBSET Profiles,
           NEW i \in BOOLEAN, NEW w \in BOOLEAN
    PROVE  [at |-> st, op |-> op, id |-> p, doc |-> doc, todo |-> todo,
            isActive |-> i, sweeping |-> w] \in Requests
  BY DEF Requests

\* What Write() starts with: the flags of the others, if the document is the default.
Begun(op, p, doc, i, w) ==
    [at |-> IF doc.default THEN "clear" ELSE "write", op |-> op, id |-> p, doc |-> doc,
     todo |-> FlagsToClear(p, doc), isActive |-> i, sweeping |-> w]

LEMMA BegunTyped ==
    ASSUME NEW op \in {"create", "replace", "select", "calibrate"},
           NEW p \in Profiles, NEW doc \in Documents, NEW i \in BOOLEAN, NEW w \in BOOLEAN
    PROVE  Begun(op, p, doc, i, w) \in Requests
<1>1. FlagsToClear(p, doc) \in SUBSET Profiles
  BY DEF FlagsToClear
<1>2. (IF doc.default THEN "clear" ELSE "write") \in Steps
  BY DEF Steps
<1> QED BY <1>1, <1>2, RequestTyped DEF Begun

\* A request under way keeps its record when it goes on to another step.
LEMMA GotoTyped ==
    ASSUME WInv, NEW c \in Clients, ~Free(c), NEW st \in Steps
    PROVE  /\ state # "down"
           /\ request[c] \in Requests
           /\ [request[c] EXCEPT !.at = st] \in Requests
           /\ [request EXCEPT ![c].at = st] = [request EXCEPT ![c] = [request[c] EXCEPT !.at = st]]
<1>1. request[c] \in Requests /\ state # "down"
  BY DEF WInv, TypeOK, Free, AllFree
<1>2. [request[c] EXCEPT !.at = st] \in Requests
  BY <1>1 DEF Requests
<1> QED BY <1>1, <1>2

LEMMA AsksTyped ==
    ASSUME WInv, NEW c \in Clients, Asks(c)
    PROVE  WInv'
<1>1. TypeOK
  BY DEF WInv
<1>2. CASE \E p \in Profiles, d \in BOOLEAN, k \in Configs, o \in Optics \cup {NoOptics} :
              Create(c, p, d, k, o)
  <2>1. PICK p \in Profiles, d \in BOOLEAN, k \in Configs, o \in Optics \cup {NoOptics} :
             Create(c, p, d, k, o)
    BY <1>2
  <2> DEFINE doc == [default |-> d, config |-> k, optics |-> o, focus |-> NoRange]
             n == Begun("create", p, doc, FALSE, FALSE)
  <2>2. doc \in Documents
    BY DEF Documents
  <2>3. n \in Requests /\ n.at \in {"clear", "write"}
    BY <2>2, BegunTyped DEF Begun
  <2>4. request' = [request EXCEPT ![c] = n] /\ state # "down"
        /\ UNCHANGED <<files, active, runtime, state, chosen, diskFailed, accepted>>
    BY <2>1 DEF Create, Write, Begun, Up
  <2> HIDE DEF n
  <2> QED BY <1>1, <2>3, <2>4, MoveTyped DEF TypeOK, WInv
<1>3. CASE \E p \in Profiles, d \in BOOLEAN, k \in Configs, o \in Optics \cup {NoOptics} :
              Replace(c, p, d, k, o)
  <2>1. PICK p \in Profiles, d \in BOOLEAN, k \in Configs, o \in Optics \cup {NoOptics} :
             Replace(c, p, d, k, o)
    BY <1>3
  <2>2. files[p] \in Documents
    BY <1>1, <2>1, StoredIsDocument DEF Replace
  <2>3. PICK f \in {files[p].focus, NoRange} :
          Write(c, "replace", p, [default |-> d, config |-> k, optics |-> o, focus |-> f],
                active.id = p, FALSE)
    BY <2>1 DEF Replace
  <2> DEFINE doc == [default |-> d, config |-> k, optics |-> o, focus |-> f]
             n == Begun("replace", p, doc, active.id = p, FALSE)
  <2>4. doc \in Documents
    BY <2>2 DEF Documents
  <2>5. n \in Requests /\ n.at \in {"clear", "write"}
    BY <2>4, BegunTyped DEF Begun
  <2>6. request' = [request EXCEPT ![c] = n] /\ state # "down"
        /\ UNCHANGED <<files, active, runtime, state, chosen, diskFailed, accepted>>
    BY <2>1, <2>3 DEF Replace, Write, Begun, Up
  <2> HIDE DEF n
  <2> QED BY <1>1, <2>5, <2>6, MoveTyped DEF TypeOK, WInv
<1>4. CASE \E p \in Profiles : Select(c, p)
  <2>1. PICK p \in Profiles : Select(c, p)
    BY <1>4
  <2> DEFINE n == [at |-> "activate", op |-> "select", id |-> p, doc |-> files[p],
                   todo |-> {}, isActive |-> TRUE, sweeping |-> FALSE]
  <2>2. files[p] \in Documents
    BY <1>1, <2>1, StoredIsDocument DEF Select
  <2>3. n \in Requests /\ n.at = "activate"
    BY <2>2 DEF Requests, Steps
  <2>4. request' = [request EXCEPT ![c] = n] /\ state # "down"
        /\ UNCHANGED <<files, active, runtime, state, chosen, diskFailed, accepted>>
    BY <2>1 DEF Select, PreSessionPosture
  <2> HIDE DEF n
  <2> QED BY <1>1, <2>3, <2>4, MoveTyped DEF TypeOK, WInv
<1>5. CASE Calibrate(c)
  <2> DEFINE n == [at |-> "sweep", op |-> "calibrate", id |-> active.id, doc |-> active.doc,
                   todo |-> {}, isActive |-> TRUE, sweeping |-> TRUE]
  <2>1. active # Inactive /\ active \in Activated
    BY <1>1, <1>5 DEF TypeOK, Calibrate
  <2>2. n \in Requests
    BY <2>1 DEF Requests, Steps, Activated
  <2>3. request' = [request EXCEPT ![c] = n] /\ state' = "calibrate"
        /\ UNCHANGED <<files, active, runtime, chosen, diskFailed, accepted>>
    BY <1>5 DEF Calibrate
  <2> HIDE DEF n
  <2> QED BY <1>1, <2>1, <2>2, <2>3, MoveTyped DEF TypeOK, States
<1> QED BY <1>2, <1>3, <1>4, <1>5 DEF Asks

\* Only a request under way proceeds.
LEMMA UnderWay ==
    ASSUME NEW c \in Clients, Proceeds(c)
    PROVE  ~Free(c)
<1>1. ASSUME NEW st \in Steps, At(c, st)
      PROVE  ~Free(c)
  BY <1>1 DEF Steps, At, Free, NoRequest
<1>2. \E st \in Steps : At(c, st)
  BY DEF Proceeds, ClearFlag, ClearFails, WriteDocument, WriteFails, Activate, Project,
         ProjectFails, Reproject, ReprojectFails, EnsureSweeps, EnsureRefused, EnsureSkips,
         Swept, SweepFails, Settle, Steps
<1> QED BY <1>1, <1>2

LEMMA ChoiceTyped ==
    ASSUME TypeOK, NEW r \in Requests
    PROVE  ChoiceAfter(r) \in Choices \cup {NoChoice}
<1>1. r.id \in Profiles /\ NoProfile \notin Profiles
  BY ProfileAssumption DEF Requests
<1>2. chosen # NoChoice => chosen \in Choices
  BY DEF TypeOK
<1>3. [id |-> r.id, taken |-> NoProfile] \in Choices
  BY <1>1 DEF Choices
<1>4. ASSUME chosen # NoChoice, NEW t \in Profiles \cup {NoProfile}
      PROVE  [chosen EXCEPT !.taken = t] \in Choices
  BY <1>2, <1>4 DEF Choices
<1> QED BY <1>1, <1>2, <1>3, <1>4 DEF ChoiceAfter

\* A calibration that fails is over, or goes on to project what is in memory.
LEMMA FailureTyped ==
    ASSUME WInv, NEW c \in Clients, ~Free(c), CalibrationFails(c)
    PROVE  /\ state' = "ready"
           /\ \E n \in Requests \cup {NoRequest} : /\ request' = [request EXCEPT ![c] = n]
                                                  /\ n.at \in {"reproject", "none"}
<1>1. [request[c] EXCEPT !.at = "reproject"] \in Requests
      /\ [request EXCEPT ![c].at = "reproject"] =
           [request EXCEPT ![c] = [request[c] EXCEPT !.at = "reproject"]]
  BY GotoTyped DEF Steps
<1>2. [request[c] EXCEPT !.at = "reproject"].at = "reproject"
  BY GotoTyped DEF Requests, Steps
<1> QED BY <1>1, <1>2 DEF CalibrationFails, Goto, Return, NoRequest

\* The optics that an automatic calibration assumes are those of a document.
LEMMA AssumedTyped ==
    ASSUME NEW o \in Optics \cup {NoOptics}, active \in Activated,
           active' = [active EXCEPT !.doc.optics = o]
    PROVE  /\ active' = [id |-> active.id, doc |-> [active.doc EXCEPT !.optics = o]]
           /\ active' \in Activated /\ active' # Inactive /\ active'.id = active.id
           /\ active'.doc \in Documents /\ active'.doc.optics = o
           /\ active'.doc.default = active.doc.default /\ active'.doc.config = active.doc.config
           /\ active'.doc.focus = active.doc.focus
  BY DEF Activated, Documents, Inactive

\* What has been measured becomes part of the same profile's document.
LEMMA MeasuredTyped ==
    ASSUME NEW f \in Ranges, NEW c, Swept(c, f), active \in Activated
    PROVE  /\ active' \in Activated /\ active' # Inactive /\ active'.id = active.id
           /\ active'.doc.default = active.doc.default /\ active'.doc.config = active.doc.config
<1>1. PICK o \in Optics \cup {active.doc.optics} :
        active' = [active EXCEPT !.doc.focus = f, !.doc.optics = o]
  BY DEF Swept
<1>2. PICK doc : doc = [active.doc EXCEPT !.focus = f, !.optics = o]
  OBVIOUS
<1>3. active.doc \in Documents /\ o \in Optics \cup {NoOptics}
  BY DEF Activated, Documents
<1>4. doc \in Documents /\ doc.default = active.doc.default /\ doc.config = active.doc.config
  BY <1>2, <1>3 DEF Documents
<1>5. active' = [id |-> active.id, doc |-> doc]
  BY <1>1, <1>2, <1>3 DEF Activated, Documents
<1> QED BY <1>4, <1>5 DEF Activated, Inactive

LEMMA ProceedsTyped ==
    ASSUME WInv, NEW c \in Clients, Proceeds(c)
    PROVE  WInv'
<1> DEFINE r == request[c]
<1>1. TypeOK /\ ~Free(c)
  BY UnderWay DEF WInv
<1>2. r \in Requests /\ state \in States \ {"down"} /\ r.id \in Profiles /\ r.doc \in Documents
  <2>1. r \in Requests /\ state # "down"
    BY <1>1, GotoTyped DEF Steps
  <2> QED BY <1>1, <2>1 DEF TypeOK, Requests
<1>3. active \in Activated \cup {Inactive} /\ Projected(active) \in Projections \cup {NoRuntime}
  BY <1>1, ProjectedIsTyped DEF TypeOK
<1>4. NotAccepted \in Acceptances \cup {NotAccepted} /\ NoRequest.at = "none"
  BY DEF NoRequest
<1>5. CASE ClearFlag(c) \/ ClearFails(c)
  <2>1. CASE r.todo = {} /\ Goto(c, "write") /\ UNCHANGED files
    <3> DEFINE n == [r EXCEPT !.at = "write"]
    <3>1. n \in Requests /\ request' = [request EXCEPT ![c] = n]
      BY <1>1, <2>1, GotoTyped DEF Goto, Steps
    <3>2. n.at = "write"
      BY <1>2 DEF Requests
    <3> HIDE DEF n
    <3> QED BY <1>1, <1>2, <1>5, <2>1, <3>1, <3>2, MoveTyped
            DEF ClearFlag, ClearFails, TypeOK, WInv
  <2>2. ASSUME NEW p \in r.todo, request' = [request EXCEPT ![c].todo = @ \ {p}],
               files' \in [Profiles -> Documents \cup {Missing, Torn}]
        PROVE  WInv'
    <3> DEFINE n == [r EXCEPT !.todo = @ \ {p}]
    <3>1. n \in Requests /\ request' = [request EXCEPT ![c] = n] /\ n.at = r.at
      BY <1>2, <2>2 DEF Requests
    <3>2. n.at = "clear"
      BY <1>5, <3>1 DEF ClearFlag, ClearFails, At
    <3>3. diskFailed' \in BOOLEAN /\ UNCHANGED <<active, runtime, state, chosen, accepted>>
      BY <1>1, <1>5 DEF ClearFlag, ClearFails, TypeOK
    <3> HIDE DEF n
    <3> QED BY <1>1, <1>2, <2>2, <3>1, <3>2, <3>3, MoveTyped DEF TypeOK, WInv
  <2>3. CASE ClearFlag(c) /\ r.todo # {}
    <3>1. PICK p \in r.todo : /\ request' = [request EXCEPT ![c].todo = @ \ {p}]
                              /\ files' = IF p \in Defaults THEN [files EXCEPT ![p].default = FALSE]
                                                            ELSE files
      BY <2>3 DEF ClearFlag
    <3>2. p \in Profiles
      BY <1>2 DEF Requests
    <3>3. p \in Defaults => [files[p] EXCEPT !.default = FALSE] \in Documents
      BY <1>1, StoredIsDocument DEF Defaults, Documents
    <3>4. files' \in [Profiles -> Documents \cup {Missing, Torn}]
      BY <1>1, <3>1, <3>2, <3>3 DEF TypeOK
    <3> QED BY <2>2, <3>1, <3>4
  <2>4. CASE ClearFails(c)
    <3>1. PICK p \in r.todo : CutOff(p) /\ request' = [request EXCEPT ![c].todo = @ \ {p}]
      BY <2>4 DEF ClearFails
    <3> QED BY <1>1, <1>2, <2>2, <3>1, CutOffIsTyped DEF Requests
  <2> QED BY <1>5, <2>1, <2>3, <2>4 DEF ClearFlag
<1>6. CASE WriteDocument(c)
  <2>1. files' \in [Profiles -> Documents \cup {Missing, Torn}]
        /\ chosen' \in Choices \cup {NoChoice}
    BY <1>1, <1>2, <1>6, ChoiceTyped DEF WriteDocument, TypeOK
  <2>2. PICK n \in Requests \cup {NoRequest} : /\ request' = [request EXCEPT ![c] = n]
                                             /\ n.at \in {"activate", "none"}
    <3>1. [r EXCEPT !.at = "activate"].at = "activate"
      BY <1>2 DEF Requests
    <3> QED BY <1>1, <1>4, <1>6, <3>1, GotoTyped DEF WriteDocument, Written, Return, Goto, Steps
  <2> QED BY <1>1, <1>2, <1>6, <2>1, <2>2, MoveTyped DEF WriteDocument, TypeOK, WInv
<1>7. CASE EnsureSkips(c) \/ Settle(c) \/ Reproject(c) \/ ReprojectFails(c)
  <2>1. request' = [request EXCEPT ![c] = NoRequest] /\ UNCHANGED <<files, active, chosen>>
        /\ accepted' \in {accepted, NotAccepted} /\ state' \in {state, "ready"}
        /\ diskFailed' \in BOOLEAN
    BY <1>1, <1>7 DEF EnsureSkips, Settle, Reproject, ReprojectFails, Answer, Return, TypeOK
  <2>2. runtime' \in Projections \cup {NoRuntime, Torn}
    BY <1>1, <1>3, <1>7, ProjectionTyped
       DEF EnsureSkips, Settle, Reproject, ReprojectFails, TypeOK
  <2>3. state' \in States \ {"down"} /\ (state' \in {"session", "calibrate"} => active' # Inactive)
    BY <1>2, <2>1 DEF States, WInv
  <2> QED BY <1>1, <1>4, <2>1, <2>2, <2>3, MoveTyped DEF TypeOK
<1>12. CASE WriteFails(c) \/ ProjectFails(c) \/ SweepFails(c)
  <2>1. UNCHANGED <<active, chosen, accepted>> /\ diskFailed' \in BOOLEAN
    BY <1>1, <1>12 DEF WriteFails, ProjectFails, SweepFails, TypeOK
  <2>2. files' \in [Profiles -> Documents \cup {Missing, Torn}]
    BY <1>1, <1>2, <1>12, CutOffIsTyped DEF WriteFails, ProjectFails, SweepFails, TypeOK
  <2>3. runtime' \in Projections \cup {NoRuntime, Torn}
    BY <1>1, <1>3, <1>12, ProjectionTyped DEF WriteFails, ProjectFails, SweepFails, TypeOK
  <2>4. PICK n \in Requests \cup {NoRequest} : /\ request' = [request EXCEPT ![c] = n]
                                             /\ n.at \in {"reproject", "none"}
    BY <1>1, <1>4, <1>12, FailureTyped DEF WriteFails, ProjectFails, SweepFails, Return
  <2>5. state' \in {state, "ready"}
    BY <1>12 DEF WriteFails, ProjectFails, SweepFails, CalibrationFails
  <2>6. state' \in States \ {"down"} /\ (state' \in {"session", "calibrate"} => active' # Inactive)
    BY <1>2, <2>1, <2>5 DEF States, WInv
  <2> QED BY <1>1, <2>1, <2>2, <2>3, <2>4, <2>6, MoveTyped DEF TypeOK
<1>8. CASE Activate(c)
  <2> DEFINE n == [r EXCEPT !.at = "project"]
  <2>1. n \in Requests /\ request' = [request EXCEPT ![c] = n]
    BY <1>1, <1>8, GotoTyped DEF Activate, Goto, Steps
  <2>2. active' = [id |-> r.id, doc |-> r.doc] /\ UNCHANGED <<files, runtime, state, chosen, diskFailed>>
    BY <1>8 DEF Activate
  <2>3. active' \in Activated /\ active' # Inactive
    BY <1>2, <2>2 DEF Activated, Inactive
  <2>4. accepted' \in Acceptances \cup {NotAccepted}
    BY <1>1, <1>8 DEF Activate, TypeOK, Acceptances
  <2> HIDE DEF n
  <2> QED BY <1>1, <1>2, <2>1, <2>2, <2>3, <2>4, MoveTyped DEF TypeOK
<1>9. CASE Project(c)
  <2> DEFINE st == IF r.sweeping THEN "settle" ELSE "ensure"
             n == [r EXCEPT !.at = st]
  <2>1. n \in Requests /\ request' = [request EXCEPT ![c] = n]
    BY <1>1, <1>9, GotoTyped DEF Project, Goto, Steps
  <2>2. runtime' = Projected(active) /\ active # Inactive
        /\ UNCHANGED <<files, active, state, chosen, diskFailed, accepted>>
    BY <1>9 DEF Project, At, WInv
  <2> HIDE DEF n
  <2> QED BY <1>1, <1>2, <1>3, <2>1, <2>2, MoveTyped DEF TypeOK
<1>10. CASE EnsureSweeps(c) \/ EnsureRefused(c)
  <2>1. active # Inactive /\ active \in Activated
    BY <1>3, <1>10 DEF EnsureSweeps, EnsureRefused, At, WInv
  <2>2. PICK o \in Optics \cup {NoOptics} : active' = [active EXCEPT !.doc.optics = o]
    BY <1>10 DEF EnsureSweeps, EnsureRefused, FocalLengthAssumed
  <2>3. active' \in Activated /\ active' # Inactive /\ active.id \in Profiles
        /\ active'.doc \in Documents
    BY <2>1, <2>2, AssumedTyped DEF Activated
  <2>4. UNCHANGED <<files, runtime, chosen, diskFailed, accepted>>
    BY <1>10 DEF EnsureSweeps, EnsureRefused
  <2>5. CASE EnsureSweeps(c)
    <3> DEFINE n == [r EXCEPT !.at = "sweep", !.sweeping = TRUE,
                              !.id = active.id, !.doc = active'.doc]
    <3>1. n \in Requests
      BY <1>2, <2>3 DEF Requests, Steps
    <3>2. request' = [request EXCEPT ![c] = n] /\ state' = "calibrate"
      BY <2>5 DEF EnsureSweeps
    <3> HIDE DEF n
    <3> QED BY <1>1, <2>3, <2>4, <3>1, <3>2, MoveTyped DEF TypeOK, States
  <2>6. CASE EnsureRefused(c)
    <3> DEFINE n == [r EXCEPT !.at = "reproject"]
    <3>1. n \in Requests /\ request' = [request EXCEPT ![c] = n] /\ UNCHANGED state
      BY <1>1, <2>6, GotoTyped DEF EnsureRefused, Goto, Steps
    <3> HIDE DEF n
    <3> QED BY <1>1, <1>2, <2>3, <2>4, <3>1, MoveTyped DEF TypeOK
  <2> QED BY <1>10, <2>5, <2>6
<1>11. CASE \E f \in Ranges : Swept(c, f)
  <2>1. PICK f \in Ranges : Swept(c, f)
    BY <1>11
  <2>2. active # Inactive /\ active \in Activated
    BY <1>3, <2>1 DEF Swept, At, WInv
  <2>3. active' \in Activated /\ active' # Inactive /\ active'.id = active.id
    BY <2>1, <2>2, MeasuredTyped
  <2> DEFINE n == Begun(r.op, active.id, active'.doc, TRUE, TRUE)
  <2>4. request' = [request EXCEPT ![c] = n]
        /\ UNCHANGED <<files, runtime, state, chosen, diskFailed, accepted>>
    BY <2>1 DEF Swept, Write, Begun
  <2>5. n \in Requests /\ n.at \in {"clear", "write"}
    <3>1. active.id \in Profiles /\ active'.doc \in Documents
      BY <2>2, <2>3 DEF Activated
    <3>2. r.op \in {"create", "replace", "select", "calibrate"}
      BY <1>2 DEF Requests
    <3>3. n \in Requests
      BY <3>1, <3>2, BegunTyped
    <3> QED BY <3>3 DEF Begun
  <2> HIDE DEF n
  <2> QED BY <1>1, <1>2, <2>3, <2>4, <2>5, MoveTyped DEF TypeOK
<1> QED BY <1>5, <1>6, <1>7, <1>8, <1>9, <1>10, <1>11, <1>12 DEF Proceeds

LEMMA BootTyped ==
    ASSUME WInv, Boot
    PROVE  WInv'
<1>1. TypeOK /\ state = "down" /\ AllFree
  BY DEF WInv, Boot
<1>2. UNCHANGED <<files, request, chosen, accepted>> /\ state' \in {"ready", "paused"}
      /\ diskFailed' \in BOOLEAN
  BY <1>1 DEF Boot, TypeOK
<1>3. active' \in Activated \cup {Inactive} /\ runtime' \in Projections \cup {NoRuntime, Torn}
  <2>1. CASE \E p \in Profiles : /\ Defaults = {p}
                                 /\ active' = [id |-> p, doc |-> files[p]]
                                 /\ runtime' = Projected(active') \/ ProjectionCutOff(active')
    <3>1. active' \in Activated
      BY <1>1, <2>1, StoredIsDocument DEF Defaults, Activated
    <3> QED BY <1>1, <2>1, <3>1, ProjectionTyped
  <2>2. CASE UNCHANGED <<active, runtime>>
    BY <1>1, <2>2 DEF TypeOK
  <2> QED BY <2>1, <2>2 DEF Boot
<1>4. TypeOK'
  BY <1>1, <1>2, <1>3 DEF TypeOK, States
<1> QED BY <1>1, <1>2, <1>4 DEF WInv, AllFree, Free, NoRequest

LEMMA RestartTyped ==
    ASSUME WInv, Restart
    PROVE  WInv'
<1>1. TypeOK
  BY DEF WInv
<1>2. /\ state' = "down" /\ active' = Inactive /\ accepted' = NotAccepted
      /\ request' = [c \in Clients |-> NoRequest] /\ runtime' \in {runtime, Torn}
      /\ UNCHANGED diskFailed
  BY DEF Restart
<1>3. files' \in [Profiles -> Documents \cup {Missing, Torn}]
  <2>1. PICK cut \in SUBSET {c \in Clients : request[c].at \in {"clear", "write"}} :
        \E hit \in [cut -> Profiles] :
            files' = [p \in Profiles |-> IF \E c \in cut : hit[c] = p THEN Torn ELSE files[p]]
    BY DEF Restart
  <2> QED BY <1>1, <2>1 DEF TypeOK
<1>4. chosen' \in Choices \cup {NoChoice}
  BY <1>1 DEF Restart, TypeOK
<1>5. TypeOK'
  BY <1>1, <1>2, <1>3, <1>4 DEF TypeOK, States
<1> QED BY <1>2, <1>5 DEF WInv, AllFree, Free, NoRequest

LEMMA SessionTyped ==
    ASSUME WInv, StartSession \/ EndSession
    PROVE  WInv'
<1>1. TypeOK /\ active # Inactive /\ active \in Activated /\ state \in {"ready", "session"}
  BY DEF WInv, TypeOK, StartSession, EndSession
<1>2. /\ UNCHANGED <<files, active, runtime, request, chosen, diskFailed>>
      /\ state' \in {"ready", "session"}
      /\ accepted' \in {accepted, NotAccepted, [config |-> active.doc.config, other |-> FALSE]}
  BY DEF StartSession, EndSession
<1>3. [config |-> active.doc.config, other |-> FALSE] \in Acceptances
  BY <1>1 DEF Acceptances, Activated, Documents
<1>4. TypeOK'
  BY <1>1, <1>2, <1>3 DEF TypeOK, States
<1> QED BY <1>1, <1>2, <1>4 DEF WInv

LEMMA InitTyped == Init => WInv
<1> SUFFICES ASSUME Init PROVE WInv
  OBVIOUS
<1>1. TypeOK
  BY DEF Init, TypeOK, States
<1> QED BY <1>1 DEF Init, WInv, AllFree, Free, NoRequest

LEMMA StepTyped == WInv /\ [Next]_vars => WInv'
<1> SUFFICES ASSUME WInv, [Next]_vars PROVE WInv'
  OBVIOUS
<1>1. CASE UNCHANGED vars
  BY <1>1 DEF vars, WInv, TypeOK, AllFree, Free
<1> QED BY <1>1, BootTyped, RestartTyped, SessionTyped, AsksTyped, ProceedsTyped DEF Next

LEMMA WellFormed == Spec => []WInv
  BY InitTyped, StepTyped, PTL DEF Spec

\* Whatever requests overlap, fail or are cut off by a restart, every file holds a
\* document or cannot be read, and the memory, the focus driver's file and every
\* request under way hold what came out of a document.
THEOREM TypeCorrect == Spec => []TypeOK
<1>1. WInv => TypeOK
  BY DEF WInv
<1> QED BY <1>1, WellFormed, PTL

-----------------------------------------------------------------------------
(* One request at a time *)

\* The request that moves is the only one: what it relied on holds, and nothing
\* but its next record has to fit.
LEMMA AloneFits ==
    ASSUME WInv, SInv, OneInFlight, OneInFlight', NEW c \in Clients, NEW n,
           request' = [request EXCEPT ![c] = n],
           ~Free(c) \/ n # NoRequest
    PROVE  Fit(request[c]) /\ (Fit(n)' => SInv')
<1>1. request'[c] = n /\ \A d \in Clients \ {c} : request'[d] = request[d]
  BY DEF WInv, TypeOK
<1>2. \A d \in Clients \ {c} : request[d] = NoRequest
  BY <1>1 DEF OneInFlight, Free
<1>3. Fit(request[c])
  <2>1. CASE Free(c)
    BY <1>2, <2>1 DEF SInv, AllFree, Free
  <2> QED BY <2>1 DEF SInv
<1>4. ASSUME Fit(n)'
      PROVE  SInv'
  <2>1. \A d \in Clients : ~Free(d)' => request'[d] = n
    BY <1>1, <1>2 DEF Free
  <2>2. (AllFree)' => n = NoRequest
    BY <1>1 DEF AllFree, Free
  <2>3. (AllFree)' => Fit(NoRequest)'
    BY <1>4, <2>2
  <2>4. \A d \in Clients : ~Free(d)' => Fit(request[d])'
    BY <1>4, <2>1
  <2> QED BY <2>3, <2>4 DEF SInv
<1> QED BY <1>3, <1>4

LEMMA NoDocument == Missing \notin Documents /\ Torn \notin Documents
  BY DEF Missing, Torn, Documents

\* What a document that is about to be written finds, in terms of the flag.
LEMMA BegunFlags ==
    ASSUME TypeOK, NEW q, FlagFits(q), ChoiceFits(q), q.at \notin {"clear", "write"},
           NEW op, NEW p \in Profiles, NEW doc \in Documents, NEW i, NEW w \in BOOLEAN,
           NEW n, n = Begun(op, p, doc, i, w),
           UNCHANGED <<files, chosen>>
    PROVE  FlagFits(n)' /\ ChoiceFits(n)'
<1>1. /\ n.at = IF doc.default THEN "clear" ELSE "write"
      /\ n.id = p /\ n.doc = doc /\ n.sweeping = w
      /\ n.todo = IF doc.default THEN Profiles \ {p} ELSE {}
  BY DEF Begun, FlagsToClear
<1>2. Defaults' = Defaults /\ Defaults \subseteq Profiles
  BY DEF Defaults, Stored
<1>3. FlagFits(n)'
  BY <1>1, <1>2 DEF FlagFits, Documents
<1>4. chosen # NoChoice => Defaults = {Holder}
  BY DEF ChoiceFits, Moving
<1>5. ChoiceFits(n)'
  BY <1>2, <1>4 DEF ChoiceFits, Holder
<1> QED BY <1>3, <1>5

\* A request that starts writes, selects or measures what the memory and the
\* disk agree on.
LEMMA AsksFits ==
    ASSUME WInv, SInv, OneInFlight, OneInFlight', NEW c \in Clients, Asks(c)
    PROVE  SInv'
<1>1. TypeOK
  BY DEF WInv
<1>2. UNCHANGED <<files, active, runtime, chosen, diskFailed, accepted>> /\ Free(c)
  BY DEF Asks, Create, Replace, Select, Calibrate
<1>3. NoRequest.at = "none"
  BY DEF NoRequest
<1>4. ASSUME Fit(NoRequest), ~diskFailed
      PROVE  FlagFits(NoRequest) /\ ChoiceFits(NoRequest) /\ (active # Inactive => Agrees)
  BY <1>3, <1>4 DEF Fit, MemoryFits
<1>5. (Agrees <=> Agrees') /\ (active # Inactive <=> active' # Inactive)
  BY <1>2 DEF Agrees, InStep, Shown, AcceptanceFits, SameProfile, Projected
<1>6. ASSUME NEW op \in {"create", "replace"}, NEW p \in Profiles, NEW doc \in Documents, NEW i \in BOOLEAN,
             NEW n, n = Begun(op, p, doc, i, FALSE), request' = [request EXCEPT ![c] = n],
             i => op = "replace", ~diskFailed /\ (active # Inactive => Agrees) => (i <=> active.id = p)
      PROVE  SInv'
  <2>1. /\ n.at \in {"clear", "write"} /\ ~n.sweeping
        /\ n.id = p /\ n.isActive = i /\ n.op = op
    BY <1>6 DEF Begun
  <2>2. n # NoRequest
    BY <1>3, <2>1
  <2>3. Fit(NoRequest) /\ (Fit(n)' => SInv')
    BY <1>2, <1>6, <2>2, AloneFits DEF Free
  <2>4. ASSUME ~diskFailed
        PROVE  FlagFits(n)' /\ ChoiceFits(n)'
    BY <1>1, <1>2, <1>3, <1>4, <1>6, <2>3, <2>4, BegunFlags
  <2>5. ASSUME ~diskFailed
        PROVE  MemoryFits(n)'
    BY <1>2, <1>4, <1>5, <1>6, <2>1, <2>3, <2>5 DEF MemoryFits
  <2> QED BY <1>2, <2>3, <2>4, <2>5 DEF Fit
<1>7. CASE \E p \in Profiles, d \in BOOLEAN, k \in Configs, o \in Optics \cup {NoOptics} :
              Create(c, p, d, k, o)
  <2>1. PICK p \in Profiles, d \in BOOLEAN, k \in Configs, o \in Optics \cup {NoOptics} :
             Create(c, p, d, k, o)
    BY <1>7
  <2>2. PICK doc \in Documents : doc = [default |-> d, config |-> k, optics |-> o, focus |-> NoRange]
    BY DEF Documents
  <2>3. PICK n : n = Begun("create", p, doc, FALSE, FALSE)
    OBVIOUS
  <2>4. request' = [request EXCEPT ![c] = n]
    BY <2>1, <2>2, <2>3 DEF Create, Write, Begun
  <2>5. ASSUME active # Inactive => Agrees
        PROVE  active.id # p
    <3>1. CASE active = Inactive
      BY <3>1, ProfileAssumption DEF Inactive
    <3>2. CASE active # Inactive
      BY <2>1, <2>5, <3>2, NoDocument DEF Agrees, InStep, SameProfile, Create
    <3> QED BY <3>1, <3>2
  <2> QED BY <1>6, <2>3, <2>4, <2>5
<1>8. CASE \E p \in Profiles, d \in BOOLEAN, k \in Configs, o \in Optics \cup {NoOptics} :
              Replace(c, p, d, k, o)
  <2>1. PICK p \in Profiles, d \in BOOLEAN, k \in Configs, o \in Optics \cup {NoOptics} :
             Replace(c, p, d, k, o)
    BY <1>8
  <2>2. PICK f \in {files[p].focus, NoRange} :
          Write(c, "replace", p, [default |-> d, config |-> k, optics |-> o, focus |-> f],
                active.id = p, FALSE)
    BY <2>1 DEF Replace
  <2>3. PICK doc \in Documents : doc = [default |-> d, config |-> k, optics |-> o, focus |-> f]
    BY <1>1, <2>1, StoredIsDocument DEF Replace, Documents
  <2>4. PICK i \in BOOLEAN : i <=> active.id = p
    OBVIOUS
  <2>5. PICK n : n = Begun("replace", p, doc, i, FALSE)
    OBVIOUS
  <2>6. request' = [request EXCEPT ![c] = n]
    BY <2>2, <2>3, <2>4, <2>5 DEF Write, Begun
  <2> QED BY <1>6, <2>4, <2>5, <2>6
<1>9. CASE \E p \in Profiles : Select(c, p)
  <2>1. PICK p \in Profiles : Select(c, p)
    BY <1>9
  <2>2. PICK n : n = [at |-> "activate", op |-> "select", id |-> p, doc |-> files[p],
                      todo |-> {}, isActive |-> TRUE, sweeping |-> FALSE]
    OBVIOUS
  <2>3. n.at = "activate" /\ n.op = "select" /\ n.id = p /\ n.doc = files[p] /\ n # NoRequest
    BY <1>3, <2>2
  <2>4. Fit(NoRequest) /\ (Fit(n)' => SInv')
    BY <1>2, <2>1, <2>2, <2>3, AloneFits DEF Free, Select
  <2>5. SameProfile(n.doc, files[n.id])'
    BY <1>1, <1>2, <2>1, <2>3, StoredIsDocument DEF SameProfile, Select
  <2>6. ASSUME ~diskFailed
        PROVE  FlagFits(n)' /\ ChoiceFits(n)'
    BY <1>2, <1>3, <1>4, <2>3, <2>4, <2>6 DEF FlagFits, ChoiceFits, Moving, Holder, Defaults, Stored
  <2>7. MemoryFits(n)'
    BY <2>3, <2>5 DEF MemoryFits
  <2> QED BY <1>2, <2>4, <2>6, <2>7 DEF Fit
<1>10. CASE Calibrate(c)
  <2>1. PICK n : n = [at |-> "sweep", op |-> "calibrate", id |-> active.id, doc |-> active.doc,
                      todo |-> {}, isActive |-> TRUE, sweeping |-> TRUE]
    OBVIOUS
  <2>2. n.at = "sweep" /\ n.op = "calibrate" /\ n # NoRequest
    BY <1>3, <2>1
  <2>3. Fit(NoRequest) /\ (Fit(n)' => SInv')
    BY <1>2, <1>10, <2>1, <2>2, AloneFits DEF Free, Calibrate
  <2>4. ASSUME ~diskFailed
        PROVE  FlagFits(n)' /\ ChoiceFits(n)'
    BY <1>2, <1>3, <1>4, <2>2, <2>3, <2>4 DEF FlagFits, ChoiceFits, Moving, Holder, Defaults, Stored
  <2>5. ASSUME ~diskFailed
        PROVE  MemoryFits(n)'
    BY <1>2, <1>4, <1>5, <1>10, <2>2, <2>3, <2>5 DEF MemoryFits, Calibrate, Agrees
  <2> QED BY <1>2, <2>3, <2>4, <2>5 DEF Fit
<1> QED BY <1>7, <1>8, <1>9, <1>10 DEF Asks

\* A request that goes on: what it finds, and what its next record has to fit.
LEMMA Finds ==
    ASSUME WInv, SInv, NEW c \in Clients, ~Free(c), NEW r, r = request[c]
    PROVE  r \in Requests /\ (~diskFailed => FlagFits(r) /\ MemoryFits(r) /\ ChoiceFits(r))
  BY DEF WInv, TypeOK, Free, SInv, Fit

LEMMA GoesOn ==
    ASSUME WInv, SInv, OneInFlight, OneInFlight', NEW c \in Clients, ~Free(c),
           NEW n, request' = [request EXCEPT ![c] = n],
           ~diskFailed' => FlagFits(n)' /\ MemoryFits(n)' /\ ChoiceFits(n)'
    PROVE  SInv'
  BY AloneFits DEF Fit

\* Taking the flag from one of the other profiles.
LEMMA ClearFits ==
    ASSUME WInv, SInv, OneInFlight, OneInFlight', NEW c \in Clients, ClearFlag(c)
    PROVE  SInv'
<1>1. TypeOK /\ ~Free(c)
  BY UnderWay DEF WInv, Proceeds
<1>2. PICK r : r = request[c]
  OBVIOUS
<1>3. r \in Requests /\ r.at = "clear" /\ (~diskFailed => FlagFits(r) /\ MemoryFits(r) /\ ChoiceFits(r))
  BY <1>1, <1>2, Finds DEF ClearFlag, At
<1>4. UNCHANGED <<active, runtime, state, chosen, diskFailed, accepted>>
  BY DEF ClearFlag
<1>5. CASE r.todo = {} /\ Goto(c, "write") /\ UNCHANGED files
  <2>1. PICK n : n = [r EXCEPT !.at = "write"]
    OBVIOUS
  <2>2. n = [r EXCEPT !.at = "write"] /\ n.at = "write" /\ n.id = r.id /\ n.doc = r.doc
        /\ n.sweeping = r.sweeping /\ n.isActive = r.isActive /\ n.op = r.op
    BY <1>3, <2>1 DEF Requests
  <2>3. request' = [request EXCEPT ![c] = n]
    BY <1>1, <1>2, <1>5, <2>1, GotoTyped DEF Goto, Steps, WInv
  <2>4. ASSUME ~diskFailed
        PROVE  FlagFits(n)' /\ ChoiceFits(n)'
    BY <1>3, <1>4, <1>5, <2>2, <2>4 DEF FlagFits, ChoiceFits, Moving, Holder, Defaults, Stored
  <2>5. ASSUME ~diskFailed
        PROVE  MemoryFits(n)'
    BY <1>3, <1>4, <1>5, <2>2, <2>5
       DEF MemoryFits, Agrees, InStep, Shown, AcceptanceFits, SameProfile, Projected
  <2> QED BY <1>1, <1>2, <1>4, <2>3, <2>4, <2>5, GoesOn
<1>6. CASE r.todo # {}
  <2>1. PICK p \in r.todo : /\ request' = [request EXCEPT ![c].todo = @ \ {p}]
                            /\ files' = IF p \in Defaults THEN [files EXCEPT ![p].default = FALSE]
                                                          ELSE files
    BY <1>2, <1>6 DEF ClearFlag
  <2>2. PICK n : n = [r EXCEPT !.todo = @ \ {p}]
    OBVIOUS
  <2>3. n.at = "clear" /\ n.id = r.id /\ n.doc = r.doc /\ n.todo = r.todo \ {p}
        /\ n.sweeping = r.sweeping /\ n.isActive = r.isActive /\ n.op = r.op
    BY <1>3, <2>2 DEF Requests
  <2>4. request' = [request EXCEPT ![c] = n]
    BY <1>2, <2>1, <2>2
  <2>5. p \in Profiles /\ r.id \in Profiles
    BY <1>3 DEF Requests
  <2>6. Defaults' = Defaults \ {p} /\ \A q \in Profiles \ {p} : files'[q] = files[q]
    <3>1. CASE p \in Defaults
      <4>1. files[p] \in Documents
        BY <1>1, <3>1, StoredIsDocument DEF Defaults
      <4>2. files'[p] \in Documents /\ ~files'[p].default
            /\ \A q \in Profiles \ {p} : files'[q] = files[q]
        BY <1>1, <2>1, <2>5, <3>1, <4>1 DEF TypeOK, Documents
      <4> QED BY <4>2, <2>5 DEF Defaults, Stored
    <3>2. CASE p \notin Defaults
      BY <2>1, <3>2 DEF Defaults, Stored
    <3> QED BY <3>1, <3>2
  <2>7. \A q \in Profiles : files[q] \in Documents =>
          files'[q] \in Documents /\ files'[q].config = files[q].config
            /\ files'[q].focus = files[q].focus /\ files'[q].optics = files[q].optics
            /\ (files'[q].default => files[q].default)
    <3> SUFFICES ASSUME files[p] \in Documents
                 PROVE  files'[p] \in Documents /\ files'[p].config = files[p].config
                          /\ files'[p].focus = files[p].focus
                          /\ files'[p].optics = files[p].optics
                          /\ (files'[p].default => files[p].default)
      BY <2>6
    <3> QED BY <1>1, <2>1, <2>5 DEF TypeOK, Documents
  <2>9. ASSUME ~diskFailed
        PROVE  FlagFits(n)' /\ ChoiceFits(n)'
    BY <1>3, <1>4, <2>3, <2>5, <2>6, <2>9 DEF FlagFits, ChoiceFits, Moving, Holder
  <2>10. ASSUME ~diskFailed
         PROVE  MemoryFits(n)'
    <3>1. active # Inactive => active.id \in Profiles
      BY <1>1 DEF TypeOK, Activated
    <3>2. (active # Inactive /\ Agrees => Agrees') /\ (AcceptanceFits <=> AcceptanceFits')
      BY <1>4, <2>7, <3>1 DEF Agrees, InStep, Shown, AcceptanceFits, Projected, SameProfile
    <3> QED BY <1>3, <1>4, <2>3, <2>5, <2>7, <2>10, <3>2 DEF MemoryFits
  <2> QED BY <1>1, <1>2, <1>4, <2>4, <2>9, <2>10, GoesOn
<1> QED BY <1>2, <1>5, <1>6 DEF ClearFlag

\* Writing the document itself.
LEMMA WriteFits ==
    ASSUME WInv, SInv, OneInFlight, OneInFlight', NEW c \in Clients, WriteDocument(c)
    PROVE  SInv'
<1>1. TypeOK /\ ~Free(c)
  BY UnderWay DEF WInv, Proceeds
<1>2. PICK r : r = request[c]
  OBVIOUS
<1>3. r \in Requests /\ r.at = "write" /\ (~diskFailed => FlagFits(r) /\ MemoryFits(r) /\ ChoiceFits(r))
  BY <1>1, <1>2, Finds DEF WriteDocument, At
<1>4. /\ UNCHANGED <<active, runtime, state, diskFailed, accepted>>
      /\ files' = [files EXCEPT ![r.id] = r.doc]
      /\ chosen' = ChoiceAfter(r)
  BY <1>2 DEF WriteDocument
<1>5. r.id \in Profiles /\ r.doc \in Documents /\ r.doc.default \in BOOLEAN
      /\ r.isActive \in BOOLEAN /\ r.sweeping \in BOOLEAN
  BY <1>3 DEF Requests, Documents
<1>6. files'[r.id] = r.doc /\ \A q \in Profiles \ {r.id} : files'[q] = files[q]
  BY <1>1, <1>4, <1>5 DEF TypeOK
<1>7. Defaults' = IF r.doc.default THEN Defaults \cup {r.id} ELSE Defaults \ {r.id}
  BY <1>5, <1>6, NoDocument DEF Defaults, Stored
<1>8. PICK n : n = IF r.isActive THEN [r EXCEPT !.at = "activate"] ELSE NoRequest
  OBVIOUS
<1>9. /\ n.at = IF r.isActive THEN "activate" ELSE "none"
      /\ r.isActive => n.id = r.id /\ n.doc = r.doc /\ n.op = r.op
  BY <1>3, <1>8 DEF Requests, NoRequest
<1>10. request' = [request EXCEPT ![c] = n]
  BY <1>1, <1>2, <1>8, GotoTyped DEF WriteDocument, Written, Return, Goto, Steps
<1>11. ASSUME ~diskFailed
       PROVE  FlagFits(n)'
  BY <1>3, <1>5, <1>7, <1>9, <1>11 DEF FlagFits
<1>12. ASSUME ~diskFailed, chosen' # NoChoice
       PROVE  Defaults' = {Holder'}
  <2>1. CASE r.doc.default
    <3>1. Defaults' = {r.id}
      BY <1>3, <1>7, <1>12, <2>1 DEF FlagFits
    <3>2. Holder' = r.id
      <4>1. CASE ~r.sweeping
        BY <1>4, <2>1, <4>1 DEF ChoiceAfter, Holder
      <4>2. CASE r.sweeping
        <5>1. chosen # NoChoice
              /\ chosen' = [chosen EXCEPT !.taken = IF r.id = chosen.id THEN NoProfile ELSE r.id]
          BY <1>4, <1>12, <2>1, <4>2 DEF ChoiceAfter
        <5>2. chosen'.id = chosen.id
              /\ chosen'.taken = IF r.id = chosen.id THEN NoProfile ELSE r.id
          BY <1>1, <5>1 DEF TypeOK, Choices
        <5> QED BY <1>5, <5>2, ProfileAssumption DEF Holder
      <4> QED BY <4>1, <4>2
    <3> QED BY <3>1, <3>2
  <2>2. CASE ~r.doc.default
    <3>1. chosen # NoChoice /\ chosen' = chosen /\ (~r.sweeping => r.id # Holder)
      BY <1>4, <1>12, <2>2 DEF ChoiceAfter
    <3>2. Defaults = {Holder} /\ Holder' = Holder
      BY <1>3, <1>12, <2>2, <3>1 DEF ChoiceFits, Moving, Holder
    <3>3. r.id \notin Defaults
      <4>1. CASE r.sweeping
        BY <1>3, <1>12, <2>2, <4>1 DEF MemoryFits, Defaults
      <4>2. CASE ~r.sweeping
        BY <3>1, <3>2, <4>2
      <4> QED BY <4>1, <4>2
    <3> QED BY <1>7, <2>2, <3>2, <3>3
  <2> QED BY <2>1, <2>2
<1>13. ASSUME ~diskFailed
       PROVE  ChoiceFits(n)'
  BY <1>9, <1>12, <1>13 DEF ChoiceFits, Moving, Holder
<1>14. ASSUME ~diskFailed
       PROVE  MemoryFits(n)'
  <2>1. CASE r.isActive
    <3>1. SameProfile(n.doc, files[n.id])'
      BY <1>5, <1>6, <1>9, <2>1 DEF SameProfile
    <3>2. CASE r.sweeping
      <4>1. active = [id |-> r.id, doc |-> r.doc] /\ (r.op # "replace" => AcceptanceFits)
        BY <1>3, <1>14, <3>2 DEF MemoryFits
      <4>2. active' # Inactive /\ active'.doc.config = r.doc.config
            /\ (r.op # "replace" => AcceptanceFits')
        BY <1>4, <4>1 DEF Inactive, AcceptanceFits
      <4> QED BY <1>9, <2>1, <3>1, <4>2 DEF MemoryFits
    <3>3. CASE ~r.sweeping
      <4>1. r.op = "replace"
        BY <1>3, <1>14, <2>1, <3>3 DEF MemoryFits
      <4> QED BY <1>9, <2>1, <3>1, <4>1 DEF MemoryFits
    <3> QED BY <3>2, <3>3
  <2>2. CASE ~r.isActive
    <3>1. active.id # r.id /\ (active # Inactive => Agrees)
      BY <1>3, <1>5, <1>14, <2>2 DEF MemoryFits
    <3>2. active # Inactive => active.id \in Profiles
      BY <1>1 DEF TypeOK, Activated
    <3>3. active' # Inactive => Agrees'
      BY <1>4, <1>6, <3>1, <3>2
         DEF Agrees, InStep, Shown, AcceptanceFits, SameProfile, Projected
    <3> QED BY <1>9, <2>2, <3>3 DEF MemoryFits
  <2> QED BY <2>1, <2>2
<1> QED BY <1>1, <1>4, <1>10, <1>11, <1>13, <1>14, GoesOn

\* A step that writes no profile, before and after which the flag is not moving.
LEMMA QuietFits ==
    ASSUME NEW r, NEW n, FlagFits(r), ChoiceFits(r),
           r.at \notin {"clear", "write"}, n.at \notin {"clear", "write"},
           UNCHANGED <<files, chosen>>
    PROVE  FlagFits(n)' /\ ChoiceFits(n)'
  BY DEF FlagFits, ChoiceFits, Moving, Holder, Defaults, Stored

\* set_active_equipment_profile() and the end of a request.
LEMMA ActivateFits ==
    ASSUME WInv, SInv, OneInFlight, OneInFlight', NEW c \in Clients,
           Activate(c) \/ Project(c)
    PROVE  SInv'
<1>1. TypeOK /\ ~Free(c)
  BY UnderWay DEF WInv, Proceeds
<1>2. PICK r : r = request[c]
  OBVIOUS
<1>3. r \in Requests /\ (~diskFailed => FlagFits(r) /\ MemoryFits(r) /\ ChoiceFits(r))
  BY <1>1, <1>2, Finds
<1>4. CASE Activate(c)
  <2>1. /\ UNCHANGED <<files, runtime, state, chosen, diskFailed>> /\ r.at = "activate"
        /\ active' = [id |-> r.id, doc |-> r.doc]
        /\ accepted' = IF r.op = "select" /\ accepted # NotAccepted
                       THEN [accepted EXCEPT !.other = TRUE] ELSE accepted
    BY <1>2, <1>4 DEF Activate, At
  <2>2. PICK n : n = [r EXCEPT !.at = "project"]
    OBVIOUS
  <2>3. n.at = "project" /\ n.id = r.id /\ n.doc = r.doc /\ n.op = r.op
    BY <1>3, <2>2 DEF Requests
  <2>4. request' = [request EXCEPT ![c] = n]
    BY <1>2, <1>4, <2>2 DEF Activate, Goto
  <2>5. active'.doc = r.doc /\ active'.id = r.id
    BY <2>1
  <2>6. ASSUME ~diskFailed
        PROVE  InStep' /\ (n.op # "replace" => AcceptanceFits')
    <3>1. InStep'
      BY <1>3, <2>1, <2>5, <2>6 DEF MemoryFits, InStep, SameProfile
    <3>2. CASE n.op = "select"
      <4>1. accepted' # NotAccepted => accepted'.other
        BY <1>1, <2>1, <2>3, <3>2 DEF TypeOK, Acceptances
      <4> QED BY <3>1, <4>1 DEF AcceptanceFits
    <3>3. CASE n.op \notin {"select", "replace"}
      <4>1. active.doc.config = r.doc.config /\ AcceptanceFits /\ accepted' = accepted
        BY <1>3, <2>1, <2>3, <2>6, <3>3 DEF MemoryFits
      <4> QED BY <2>5, <3>1, <4>1 DEF AcceptanceFits
    <3> QED BY <3>1, <3>2, <3>3
  <2>7. ASSUME ~diskFailed
        PROVE  FlagFits(n)' /\ ChoiceFits(n)' /\ MemoryFits(n)'
    <3>1. MemoryFits(n)'
      BY <2>1, <2>3, <2>6, <2>7 DEF MemoryFits
    <3> QED BY <1>3, <2>1, <2>3, <2>7, <3>1, QuietFits
  <2> QED BY <1>1, <2>1, <2>4, <2>7, GoesOn
<1>5. CASE Project(c)
  <2>1. UNCHANGED <<files, active, state, chosen, diskFailed, accepted>> /\ r.at = "project"
        /\ runtime' = Projected(active)
    BY <1>2, <1>5 DEF Project, At
  <2>2. PICK st \in {"settle", "ensure"} : st = IF r.sweeping THEN "settle" ELSE "ensure"
    OBVIOUS
  <2>3. PICK n : n = [r EXCEPT !.at = st]
    OBVIOUS
  <2>4. n.at = st /\ n.op = r.op
    BY <1>3, <2>3 DEF Requests
  <2>5. request' = [request EXCEPT ![c] = n]
    BY <1>2, <1>5, <2>2, <2>3 DEF Project, Goto
  <2>6. ASSUME ~diskFailed
        PROVE  MemoryFits(n)'
    <3>1. active = [id |-> r.id, doc |-> r.doc] /\ InStep /\ (r.op # "replace" => AcceptanceFits)
      BY <1>3, <2>1, <2>6 DEF MemoryFits
    <3>2. active' # Inactive /\ InStep' /\ Shown' /\ (r.op # "replace" => AcceptanceFits')
      BY <2>1, <3>1 DEF Inactive, InStep, Shown, AcceptanceFits, SameProfile, Projected
    <3> QED BY <2>4, <3>2 DEF MemoryFits
  <2>7. ASSUME ~diskFailed
        PROVE  FlagFits(n)' /\ ChoiceFits(n)'
    BY <1>3, <2>1, <2>2, <2>4, <2>7, QuietFits
  <2> QED BY <1>1, <2>1, <2>5, <2>6, <2>7, GoesOn
<1> QED BY <1>4, <1>5

LEMMA EndFits ==
    ASSUME WInv, SInv, OneInFlight, OneInFlight', NEW c \in Clients,
           EnsureSkips(c) \/ Settle(c) \/ Reproject(c)
    PROVE  SInv'
<1>1. TypeOK /\ ~Free(c)
  BY UnderWay DEF WInv, Proceeds
<1>2. PICK r : r = request[c]
  OBVIOUS
<1>3. r \in Requests /\ (~diskFailed => FlagFits(r) /\ MemoryFits(r) /\ ChoiceFits(r))
  BY <1>1, <1>2, Finds
<1>4. /\ r.at \in {"ensure", "reproject", "settle"}
      /\ request' = [request EXCEPT ![c] = NoRequest]
      /\ UNCHANGED <<files, active, chosen, diskFailed>> /\ runtime' \in {runtime, Projected(active)}
      /\ accepted' = IF r.op = "replace" THEN NotAccepted ELSE accepted
  BY <1>2 DEF EnsureSkips, Settle, Reproject, Answer, Return, At
<1>5. NoRequest.at = "none"
  BY DEF NoRequest
<1>6. ASSUME ~diskFailed
      PROVE  MemoryFits(NoRequest)'
  <2>1. InStep /\ Shown /\ (r.op # "replace" => AcceptanceFits)
    BY <1>3, <1>4, <1>6 DEF MemoryFits
  <2>2. InStep' /\ Shown'
    BY <1>4, <2>1 DEF InStep, Shown, SameProfile, Projected
  <2>3. AcceptanceFits'
    BY <1>4, <2>1 DEF AcceptanceFits
  <2> QED BY <1>5, <2>2, <2>3 DEF MemoryFits, Agrees
<1>7. ASSUME ~diskFailed
      PROVE  FlagFits(NoRequest)' /\ ChoiceFits(NoRequest)'
  BY <1>3, <1>4, <1>5, <1>7, QuietFits
<1> QED BY <1>1, <1>4, <1>6, <1>7, GoesOn

\* A measurement that fails has touched nothing: the request of the operator is
\* over, one that calibrated by itself projects what it found.
LEMMA SweepFailsFits ==
    ASSUME WInv, SInv, OneInFlight, OneInFlight', NEW c \in Clients, SweepFails(c)
    PROVE  SInv'
<1>1. TypeOK /\ ~Free(c)
  BY UnderWay DEF WInv, Proceeds
<1>2. PICK r : r = request[c]
  OBVIOUS
<1>3. r \in Requests /\ (~diskFailed => FlagFits(r) /\ MemoryFits(r) /\ ChoiceFits(r))
  BY <1>1, <1>2, Finds
<1>4. r.at = "sweep" /\ UNCHANGED <<files, active, runtime, chosen, diskFailed, accepted>>
  BY <1>2 DEF SweepFails, At
<1>5. PICK n : n = IF r.op = "calibrate" THEN NoRequest ELSE [r EXCEPT !.at = "reproject"]
  OBVIOUS
<1>6. /\ n.at = IF r.op = "calibrate" THEN "none" ELSE "reproject"
      /\ r.op # "calibrate" => n.op = r.op
  BY <1>3, <1>5 DEF Requests, NoRequest
<1>7. request' = [request EXCEPT ![c] = n]
  BY <1>2, <1>5 DEF SweepFails, CalibrationFails, Goto, Return
<1>8. ASSUME ~diskFailed
      PROVE  MemoryFits(n)'
  <2>1. active # Inactive /\ InStep /\ Shown /\ (r.op # "replace" => AcceptanceFits)
    BY <1>3, <1>4, <1>8 DEF MemoryFits
  <2>2. active' # Inactive /\ InStep' /\ Shown' /\ (r.op # "replace" => AcceptanceFits')
    BY <1>4, <2>1 DEF InStep, Shown, AcceptanceFits, SameProfile, Projected
  <2> QED BY <1>6, <2>2 DEF MemoryFits, Agrees
<1>9. ASSUME ~diskFailed
      PROVE  FlagFits(n)' /\ ChoiceFits(n)'
  BY <1>3, <1>4, <1>6, <1>9, QuietFits
<1> QED BY <1>1, <1>4, <1>7, <1>8, <1>9, GoesOn

\* The automatic calibration, and the document that a calibration writes.
LEMMA SweepFits ==
    ASSUME WInv, SInv, OneInFlight, OneInFlight', NEW c \in Clients,
           EnsureSweeps(c) \/ EnsureRefused(c) \/ \E f \in Ranges : Swept(c, f)
    PROVE  SInv'
<1>1. TypeOK /\ ~Free(c)
  BY UnderWay DEF WInv, Proceeds
<1>2. PICK r : r = request[c]
  OBVIOUS
<1>3. r \in Requests /\ (~diskFailed => FlagFits(r) /\ MemoryFits(r) /\ ChoiceFits(r))
  BY <1>1, <1>2, Finds
<1>4. active \in Activated /\ r.at \in {"ensure", "sweep"}
      /\ UNCHANGED <<files, runtime, chosen, diskFailed, accepted>>
  BY <1>1, <1>2 DEF EnsureSweeps, EnsureRefused, Swept, At, WInv, TypeOK
<1>5. ASSUME ~diskFailed
      PROVE  InStep /\ Shown /\ (r.op # "replace" => AcceptanceFits)
  BY <1>3, <1>4, <1>5 DEF MemoryFits
<1>6. CASE EnsureSweeps(c) \/ EnsureRefused(c)
  <2>1. r.at = "ensure" /\ active.doc.focus = NoRange
    BY <1>2, <1>6 DEF EnsureSweeps, EnsureRefused, NeedsCalibration, At
  <2>2. PICK o \in Optics \cup {NoOptics} :
          /\ active.doc.optics # NoOptics => o = active.doc.optics
          /\ active' = [active EXCEPT !.doc.optics = o]
    BY <1>6 DEF EnsureSweeps, EnsureRefused, FocalLengthAssumed
  <2>3. PICK n : n = IF EnsureSweeps(c)
                     THEN [r EXCEPT !.at = "sweep", !.sweeping = TRUE,
                                    !.id = active.id, !.doc = active'.doc]
                     ELSE [r EXCEPT !.at = "reproject"]
    OBVIOUS
  <2>4. n.at \in {"sweep", "reproject"} /\ n.op = r.op
    BY <1>3, <2>3 DEF Requests
  <2>5. request' = [request EXCEPT ![c] = n]
    BY <1>2, <1>6, <2>3 DEF EnsureSweeps, EnsureRefused, Goto
  <2>6. ASSUME ~diskFailed
        PROVE  MemoryFits(n)'
    <3>1. /\ active' # Inactive /\ active'.id = active.id /\ active'.doc.optics = o
          /\ active'.doc.default = active.doc.default /\ active'.doc.config = active.doc.config
          /\ active'.doc.focus = active.doc.focus
      BY <1>4, <2>2, AssumedTyped
    <3>2. InStep'
      BY <1>4, <1>5, <2>2, <2>6, <3>1 DEF InStep, SameProfile
    <3>3. Shown' /\ (r.op # "replace" => AcceptanceFits')
      BY <1>4, <1>5, <2>1, <2>6, <3>1 DEF Shown, AcceptanceFits, Projected
    <3> QED BY <2>4, <3>1, <3>2, <3>3 DEF MemoryFits
  <2>7. ASSUME ~diskFailed
        PROVE  FlagFits(n)' /\ ChoiceFits(n)'
    BY <1>3, <1>4, <2>4, <2>7, QuietFits
  <2> QED BY <1>1, <1>4, <2>5, <2>6, <2>7, GoesOn
<1>7. CASE \E f \in Ranges : Swept(c, f)
  <2>1. PICK f \in Ranges : Swept(c, f)
    BY <1>7
  <2>2. /\ active' \in Activated /\ active'.id = active.id
        /\ active'.doc.config = active.doc.config
        /\ active'.doc.default = active.doc.default
    BY <1>4, <2>1, MeasuredTyped
  <2>3. PICK p \in Profiles, doc \in Documents : active' = [id |-> p, doc |-> doc]
    BY <2>2 DEF Activated
  <2>4. PICK n : n = Begun(r.op, p, doc, TRUE, TRUE)
    OBVIOUS
  <2>5. n.at \in {"clear", "write"} /\ n.op = r.op /\ n.id = p /\ n.doc = doc
        /\ n.isActive /\ n.sweeping
    BY <2>4 DEF Begun
  <2>6. request' = [request EXCEPT ![c] = n]
    <3>1. active.id = p /\ active'.doc = doc
      BY <2>2, <2>3
    <3>2. Write(c, r.op, p, doc, TRUE, TRUE)
      BY <1>2, <2>1, <3>1 DEF Swept
    <3> QED BY <2>4, <3>2 DEF Write, Begun
  <2>7. ASSUME ~diskFailed
        PROVE  files[p] \in Documents /\ (files[p].default => doc.default)
    BY <1>5, <2>2, <2>3, <2>7 DEF InStep, SameProfile
  <2>8. ASSUME ~diskFailed
        PROVE  MemoryFits(n)'
    <3>1. r.op # "replace" => AcceptanceFits'
      BY <1>4, <1>5, <2>2, <2>8 DEF AcceptanceFits
    <3> QED BY <1>4, <2>3, <2>5, <2>7, <2>8, <3>1 DEF MemoryFits
  <2>9. ASSUME ~diskFailed
        PROVE  FlagFits(n)' /\ ChoiceFits(n)'
    BY <1>1, <1>3, <1>4, <2>4, <2>7, <2>9, BegunFlags
  <2> QED BY <1>1, <1>4, <2>6, <2>8, <2>9, GoesOn
<1> QED BY <1>6, <1>7

LEMMA ProceedsFits ==
    ASSUME WInv, SInv, OneInFlight, OneInFlight', NEW c \in Clients, Proceeds(c)
    PROVE  SInv'
\* A failed write ends what the properties promise.
<1>1. CASE ClearFails(c) \/ WriteFails(c) \/ ProjectFails(c) \/ ReprojectFails(c)
  <2>1. PICK n : request' = [request EXCEPT ![c] = n]
    <3>1. CASE ClearFails(c)
      BY <3>1 DEF ClearFails
    <3>2. CASE WriteFails(c) \/ ProjectFails(c) \/ ReprojectFails(c)
      BY <3>2 DEF WriteFails, ProjectFails, ReprojectFails, CalibrationFails, Goto, Return
    <3> QED BY <1>1, <3>1, <3>2
  <2>2. diskFailed' /\ ~Free(c)
    BY <1>1, UnderWay DEF ClearFails, WriteFails, ProjectFails, ReprojectFails
  <2> QED BY <2>1, <2>2, GoesOn
<1> QED BY <1>1, ClearFits, WriteFits, ActivateFits, EndFits, SweepFailsFits, SweepFits DEF Proceeds

-----------------------------------------------------------------------------
(* Boot, restart and sessions *)

LEMMA BootFits ==
    ASSUME WInv, SInv, Boot
    PROVE  SInv'
<1>1. TypeOK /\ AllFree /\ Fit(NoRequest) /\ NoRequest.at = "none"
  BY DEF WInv, Boot, SInv, NoRequest
<1>2. UNCHANGED <<files, request, chosen, accepted>> /\ (~diskFailed' => ~diskFailed)
  BY <1>1 DEF Boot, TypeOK
<1>3. \A c \in Clients : Free(c)'
  BY <1>1, <1>2 DEF AllFree, Free
<1>4. ASSUME ~diskFailed'
      PROVE  Fit(NoRequest)'
  <2>1. FlagFits(NoRequest)' /\ ChoiceFits(NoRequest)' /\ (active # Inactive => Agrees)
    BY <1>1, <1>2, <1>4, QuietFits DEF Fit, MemoryFits
  <2>2. CASE \E p \in Profiles : /\ Defaults = {p}
                                 /\ active' = [id |-> p, doc |-> files[p]]
                                 /\ runtime' = Projected(active')
    <3>1. PICK p \in Profiles : /\ Defaults = {p}
                                /\ active' = [id |-> p, doc |-> files[p]]
                                /\ runtime' = Projected(active')
      BY <2>2
    <3>2. files[p] \in Documents
      BY <1>1, <3>1, StoredIsDocument DEF Defaults
    <3>3. InStep' /\ Shown'
      BY <1>2, <3>1, <3>2 DEF InStep, Shown, SameProfile
    <3>4. AcceptanceFits'
      BY <1>1, <1>2 DEF WInv, AcceptanceFits, Boot
    <3> QED BY <1>1, <2>1, <3>3, <3>4 DEF Fit, MemoryFits, Agrees
  <2>3. CASE UNCHANGED <<active, runtime>>
    <3>1. active' # Inactive => Agrees'
      BY <1>2, <2>1, <2>3 DEF Agrees, InStep, Shown, AcceptanceFits, SameProfile, Projected
    <3> QED BY <1>1, <2>1, <3>1 DEF Fit, MemoryFits
  <2> QED BY <1>4, <2>2, <2>3 DEF Boot
<1> QED BY <1>2, <1>3, <1>4 DEF SInv, Fit

\* The process ends in the middle of at most one write, which cuts off a file
\* whose flag was to go, or the file being written.
LEMMA RestartFits ==
    ASSUME WInv, SInv, OneInFlight, Restart
    PROVE  SInv'
<1>1. TypeOK /\ NoRequest.at = "none"
  BY DEF WInv, NoRequest
<1>2. /\ active' = Inactive /\ request' = [c \in Clients |-> NoRequest]
      /\ UNCHANGED diskFailed
  BY DEF Restart
<1>3. \A c \in Clients : Free(c)'
  BY <1>2 DEF Free
<1>4. ASSUME ~diskFailed, AllFree \/ \E c \in Clients : ~Free(c)
      PROVE  Fit(NoRequest)'
  <2>1. PICK r : /\ FlagFits(r) /\ ChoiceFits(r)
                 /\ \/ r = NoRequest /\ AllFree
                    \/ \E c \in Clients : r = request[c] /\ ~Free(c)
    BY <1>4 DEF SInv, Fit
  <2>a. PICK cut \in SUBSET {c \in Clients : request[c].at \in {"clear", "write"}} :
        \E hit \in [cut -> Profiles] :
          /\ \A c \in cut : \/ At(c, "clear") /\ hit[c] \in request[c].todo \cap Defaults
                            \/ At(c, "write") /\ hit[c] = request[c].id
          /\ files' = [p \in Profiles |-> IF \E c \in cut : hit[c] = p THEN Torn ELSE files[p]]
    BY DEF Restart
  <2>2. PICK hit \in [cut -> Profiles] :
          /\ \A c \in cut : \/ At(c, "clear") /\ hit[c] \in request[c].todo \cap Defaults
                            \/ At(c, "write") /\ hit[c] = request[c].id
          /\ files' = [p \in Profiles |-> IF \E c \in cut : hit[c] = p THEN Torn ELSE files[p]]
    BY <2>a
  <2>3. Defaults' = {p \in Defaults : \A c \in cut : hit[c] # p}
    BY <1>1, <2>2, NoDocument DEF Defaults, Stored
  <2>4. FlagFits(NoRequest)'
    BY <1>1, <2>1, <2>3 DEF FlagFits
  <2>5. ASSUME chosen' # NoChoice
        PROVE  Defaults' = {Holder'}
    <3>1. /\ chosen' = chosen /\ Holder' = Holder
          /\ \A c \in Clients : request[c].at \in {"clear", "write"} => ~Disturbs(request[c])
      BY <2>5 DEF Restart, Holder
    <3>2. \A c \in Clients : request[c].at = "clear" => request[c].doc.default
      BY <1>1, <1>4, <3>1 DEF SInv, Fit, FlagFits, Free
    <3>3. \A c \in Clients : /\ request[c].at # "clear"
                             /\ request[c].at = "write" => request[c].id # Holder
                                                           /\ ~request[c].doc.default
      BY <2>5, <3>1, <3>2 DEF Disturbs
    <3>4. Defaults = {Holder}
      BY <1>1, <2>1, <2>5, <3>1, <3>3 DEF ChoiceFits, Moving
    <3>5. \A c \in cut : hit[c] # Holder
      BY <2>2, <3>3 DEF At
    <3> QED BY <2>3, <3>1, <3>4, <3>5
  <2>6. MemoryFits(NoRequest)'
    BY <1>1, <1>2 DEF MemoryFits
  <2>7. ChoiceFits(NoRequest)'
    BY <1>1, <2>5 DEF ChoiceFits, Moving, Holder
  <2> QED BY <2>4, <2>6, <2>7 DEF Fit
<1> QED BY <1>2, <1>3, <1>4 DEF SInv, Fit, AllFree

LEMMA SessionFits ==
    ASSUME WInv, SInv, StartSession \/ EndSession
    PROVE  SInv'
<1>1. /\ UNCHANGED <<files, active, runtime, request, chosen, diskFailed>>
      /\ accepted' \in {accepted, NotAccepted, [config |-> active.doc.config, other |-> FALSE]}
  BY DEF StartSession, EndSession
<1>2. AcceptanceFits => AcceptanceFits'
  BY <1>1 DEF AcceptanceFits
<1>3. (InStep <=> InStep') /\ (Shown <=> Shown')
  BY <1>1 DEF InStep, Shown, SameProfile, Projected
<1>4. ASSUME NEW r, Fit(r)
      PROVE  Fit(r)'
  <2>1. FlagFits(r) /\ ChoiceFits(r) => FlagFits(r)' /\ ChoiceFits(r)'
    BY <1>1 DEF FlagFits, ChoiceFits, Moving, Holder, Defaults, Stored
  <2>2. MemoryFits(r) => MemoryFits(r)'
    BY <1>1, <1>2, <1>3 DEF MemoryFits, Agrees, SameProfile
  <2> QED BY <1>1, <1>4, <2>1, <2>2 DEF Fit
<1> QED BY <1>1, <1>4 DEF SInv, AllFree, Free

-----------------------------------------------------------------------------
(* The theorems *)

LEMMA InitFits == Init => SInv
<1> SUFFICES ASSUME Init PROVE SInv
  OBVIOUS
<1>1. \A c \in Clients : Free(c)
  BY DEF Init, Free
<1>2. Defaults = {} /\ NoRequest.at = "none" /\ active = Inactive /\ chosen = NoChoice
  BY DEF Init, Defaults, Stored, NoRequest
<1>3. Fit(NoRequest)
  BY <1>2 DEF Fit, FlagFits, MemoryFits, ChoiceFits
<1> QED BY <1>1, <1>3 DEF SInv

LEMMA StepFits == WInv /\ SInv /\ OneInFlight /\ OneInFlight' /\ [Next]_vars => SInv'
<1> SUFFICES ASSUME WInv, SInv, OneInFlight, OneInFlight', [Next]_vars PROVE SInv'
  OBVIOUS
<1>1. CASE UNCHANGED vars
  <2>1. ASSUME NEW r, Fit(r)
        PROVE  Fit(r)'
    BY <1>1, <2>1 DEF vars, Fit, FlagFits, MemoryFits, ChoiceFits, Moving, Holder, Defaults, Stored, Agrees,
                      InStep, Shown, AcceptanceFits, SameProfile, Projected
  <2> QED BY <1>1, <2>1 DEF vars, SInv, AllFree, Free
<1> QED BY <1>1, BootFits, RestartFits, SessionFits, AsksFits, ProceedsFits DEF Next

LEMMA Serial == Spec /\ []OneInFlight => [](WInv /\ SInv)
  BY WellFormed, InitFits, StepFits, PTL DEF Spec

\* While requests do not overlap, write_profile() leaves one default at most, at
\* every one of its writes and through every restart, unless a write has failed.
THEOREM OneDefault == Spec /\ []OneInFlight => []AtMostOneDefault
<1>1. WInv /\ SInv => AtMostOneDefault
  BY DEF SInv, AllFree, Fit, FlagFits, AtMostOneDefault
<1> QED BY <1>1, Serial, PTL

\* While requests do not overlap, the memory, the disk and the focus driver's file
\* agree between any two of them, but for a flag that the file has lost and for
\* optics that it does not say; the accepted calibration is not for what the
\* operator configured before, though perhaps for optics that have changed since.
THEOREM MemoryAgrees == Spec /\ []OneInFlight => []ActiveAgrees
<1>1. SInv => ActiveAgrees
  BY DEF SInv, Fit, MemoryFits, Agrees, InStep, Shown, AcceptanceFits, ActiveAgrees, NoRequest
<1> QED BY <1>1, Serial, PTL

\* While requests do not overlap, a boot comes up ready with the profile that the
\* operator last made the default, unless a calibration wrote an old flag back
\* since: then with that profile.
THEOREM BootFindsChosen == Spec /\ []OneInFlight => BootsIntoChosen
<1> DEFINE Boots == state = "down" /\ state' # "down" /\ chosen # NoChoice /\ ~diskFailed =>
                      state' = "ready" /\ active'.id = Holder
<1>1. WInv /\ SInv /\ [Next]_vars => [Boots]_vars
  <2> SUFFICES ASSUME WInv, SInv, Next, state = "down", state' # "down",
                      chosen # NoChoice, ~diskFailed
               PROVE  state' = "ready" /\ active'.id = Holder
    BY DEF Boots
  <2>1. AllFree /\ chosen \in Choices
    BY DEF WInv, TypeOK
  <2>2. Boot
    BY <2>1, UnderWay DEF Next, Restart, StartSession, EndSession, Asks, AllFree,
       Create, Replace, Select, Calibrate, Up, PreSessionPosture
  <2>3. Defaults = {Holder} /\ Holder \in Profiles
    <3>1. Defaults = {Holder}
      BY <2>1 DEF SInv, Fit, ChoiceFits, Moving, NoRequest
    <3> QED BY <3>1 DEF Defaults, Stored
  <2> QED BY <2>2, <2>3 DEF Boot
<1> QED BY <1>1, Serial, PTL DEF Spec, BootsIntoChosen

=============================================================================
