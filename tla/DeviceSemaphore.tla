--------------------------- MODULE DeviceSemaphore ---------------------------
(***************************************************************************)
(* What the control handoff promises about the shared INDI device path:    *)
(* who holds it.  Ekos and Kepler never swap the path directly.  It always *)
(* goes through "handover", the phase in which neither side's ownership is *)
(* confirmed (active_owner = unknown in CanonicalAbsoluteState), and it    *)
(* becomes free only when the supervised session ends.                     *)
(*                                                                         *)
(* ControlHandoff is shown to implement this specification.                *)
(***************************************************************************)

VARIABLE holder

Holders == {"none", "ekos", "handover", "kepler"}

TypeOK == holder \in Holders

Init == holder = "none"

\* Supervision attaches to a running observatory: Ekos is the default owner.
Attach == holder = "none" /\ holder' = "ekos"

\* A pause is requested, or a resume is, and is not confirmed yet.
Request == holder \in {"ekos", "kepler"} /\ holder' = "handover"

\* The pause is confirmed: Kepler may act.
Grant == holder = "handover" /\ holder' = "kepler"

\* The resume is confirmed: Ekos executes again.
Return == holder = "handover" /\ holder' = "ekos"

\* The session ends, whoever held the path.
Drop == holder # "none" /\ holder' = "none"

Next == Attach \/ Request \/ Grant \/ Return \/ Drop

Spec == Init /\ [][Next]_holder

=============================================================================
