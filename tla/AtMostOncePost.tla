--------------------------- MODULE AtMostOncePost ---------------------------
(***************************************************************************)
(* What an outbox in front of a chat without transactions can promise.     *)
(* A delivery is posted at most once; its verdict is "confirmed" only for  *)
(* a message that is in the chat, "refused" only for one that is not and   *)
(* never will be, and "unknown" for ever once nobody can tell.             *)
(***************************************************************************)
CONSTANT Deliveries

VARIABLES
  inChat,   \* the deliveries whose message is in the chat
  verdict   \* what the sender says of each delivery

absVars == <<inChat, verdict>>

AbsInit ==
  /\ inChat = {}
  /\ verdict = [d \in Deliveries |-> "open"]

\* The message appears; it may do so after the sender gave up knowing.
Appear(d) ==
  /\ d \notin inChat
  /\ verdict[d] \in {"open", "unknown"}
  /\ inChat' = inChat \cup {d}
  /\ UNCHANGED verdict

Decide(d, v) ==
  /\ verdict[d] = "open"
  /\ v = "confirmed" => d \in inChat
  /\ v = "refused" => d \notin inChat
  /\ verdict' = [verdict EXCEPT ![d] = v]
  /\ UNCHANGED inChat

\* Several deliveries may be given up in one sweep.
GiveUp(S) ==
  /\ \A d \in S : verdict[d] = "open"
  /\ verdict' = [d \in Deliveries |-> IF d \in S THEN "unknown" ELSE verdict[d]]
  /\ UNCHANGED inChat

AbsNext ==
  \/ \E d \in Deliveries : Appear(d)
  \/ \E d \in Deliveries, v \in {"confirmed", "refused"} : Decide(d, v)
  \/ \E S \in SUBSET Deliveries : GiveUp(S)

AbsSpec == AbsInit /\ [][AbsNext]_absVars
=============================================================================
