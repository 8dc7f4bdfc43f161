----------------------------- MODULE AuditedCalls -----------------------------
(***************************************************************************)
(* What a ledger of paid requests can promise when the provider shares no  *)
(* transaction with it.  A call is announced for its subjects, requested   *)
(* once at most, and given a verdict for each subject.  Nothing is         *)
(* requested unannounced; "void" is said only of a call that never was and *)
(* never will be requested, "confirmed" and "refused" only of one that     *)
(* was; verdicts are final, and after any but "confirmed" no other call is *)
(* announced for the subject.                                              *)
(***************************************************************************)
EXTENDS Naturals

CONSTANTS Calls, Subjects

VARIABLES
  requests,  \* how often each call was requested
  verdict    \* what the ledger says of a call and a subject

auditVars == <<requests, verdict>>

Verdicts == {"none", "open", "confirmed", "refused", "unknown", "void"}

AuditInit ==
  /\ requests = [k \in Calls |-> 0]
  /\ verdict = [k \in Calls |-> [s \in Subjects |-> "none"]]

\* A call for subjects of which nothing is open, failed or in doubt.
Announce(k, S) ==
  /\ S # {}
  /\ requests[k] = 0
  /\ \A s \in Subjects : verdict[k][s] = "none"
  /\ \A s \in S, j \in Calls : verdict[j][s] \in {"none", "confirmed"}
  /\ verdict' = [verdict EXCEPT ![k] = [s \in Subjects |-> IF s \in S THEN "open" ELSE "none"]]
  /\ UNCHANGED requests

\* The request; the ledger may have lost patience with the call before.
Ask(k) ==
  /\ requests[k] = 0
  /\ \E s \in Subjects : verdict[k][s] # "none"
  /\ \A s \in Subjects : verdict[k][s] \in {"none", "open", "unknown"}
  /\ requests' = [requests EXCEPT ![k] = 1]
  /\ UNCHANGED verdict

Possible(k) ==
  IF requests[k] = 0 THEN {"void", "unknown"} ELSE {"confirmed", "refused", "unknown"}

\* Any number of open verdicts are given, of any calls.
Settle ==
  /\ verdict' \in [Calls -> [Subjects -> Verdicts]]
  /\ \A k \in Calls, s \in Subjects :
       \/ verdict'[k][s] = verdict[k][s]
       \/ verdict[k][s] = "open" /\ verdict'[k][s] \in Possible(k)
  /\ UNCHANGED requests

AuditNext ==
  \/ \E k \in Calls, S \in SUBSET Subjects : Announce(k, S)
  \/ \E k \in Calls : Ask(k)
  \/ Settle

AuditSpec == AuditInit /\ [][AuditNext]_auditVars
=============================================================================
