--------------------------- MODULE InterventionLedger ---------------------------
(***************************************************************************)
(* InterventionLedger of agent/session.py: the bounded interventions of a  *)
(* supervised session.  Records of one kind are interchangeable, so a      *)
(* ledger is, for each kind, how many records there are and how many of    *)
(* them still have outcome = None.  A session without a ledger behaves as  *)
(* one with an empty ledger: begin_intervention() creates it on demand.    *)
(***************************************************************************)
EXTENDS Naturals

CONSTANTS
    Kinds,        \* the kinds of bounded intervention (InterventionKind)
    NoKind,       \* stands for active_kind = None
    MaxRetries    \* max_retries_per_kind

ASSUME KindsAssumption == NoKind \notin Kinds
ASSUME MaxRetriesAssumption == MaxRetries \in Nat

Ledgers == [active:   Kinds \cup {NoKind},
            attempts: [Kinds -> Nat],
            unclosed: [Kinds -> Nat]]

NoRecords == [active   |-> NoKind,
              attempts |-> [k \in Kinds |-> 0],
              unclosed |-> [k \in Kinds |-> 0]]

IsRetryExhausted(l, k) == l.attempts[k] >= MaxRetries

OpenIntervention(l, k) ==
    [active   |-> k,
     attempts |-> [l.attempts EXCEPT ![k] = @ + 1],
     unclosed |-> [l.unclosed EXCEPT ![k] = @ + 1]]

\* Closes the newest open record of the active kind, if there is one.
CloseIntervention(l) ==
    [l EXCEPT !.active   = NoKind,
              !.unclosed = [k \in Kinds |->
                  IF k = l.active /\ l.unclosed[k] > 0
                  THEN l.unclosed[k] - 1 ELSE l.unclosed[k]]]

=============================================================================
