------------------------ MODULE DeliveryOutbox_proofs ------------------------
(* Proofs about DeliveryOutbox for every value of its constants. *)
EXTENDS DeliveryOutbox, TLAPS

\* What holds between the steps of a call of send.  A call works on a row
\* that nobody else works on and that is SENDING, or was swept; until the
\* request returned nothing is in the chat, and then the outcome says so.
CallInv ==
  \A s \in Senders, d \in Deliveries :
    Active(s, d) =>
      /\ state[d] \in {"SENDING", "DELIVERY_AMBIGUOUS"}
      /\ \A r \in Senders : Active(r, d) => r = s
      /\ sender[s].stage = "claimed" => posts[d] = 0
      /\ sender[s].stage = "answered" => posts[d] \in PostedBy(sender[s].outcome)

OutboxInv == TypeOK /\ AtMostOnce /\ RowTellsTruth /\ CallInv

-----------------------------------------------------------------------------
(* Type correctness.                                                       *)

LEMMA NextTypeOK == TypeOK /\ [Next]_vars => TypeOK'
<1> SUFFICES ASSUME TypeOK, [Next]_vars
             PROVE  TypeOK'
  OBVIOUS
<1> USE OutboxAssumption DEF TypeOK, RowsTypeOK, CallsTypeOK, State, Final, rows
<1>1. ASSUME NEW d \in Deliveries,
             EnsurePending(d) \/ LeaseExpires(d) \/ BackoffElapses(d)
      PROVE  TypeOK'
  BY <1>1 DEF EnsurePending, LeaseExpires, BackoffElapses
<1>2. CASE ChangePolicy
  BY <1>2 DEF ChangePolicy
<1>3. ASSUME NEW s \in Senders, NEW d \in Deliveries, Claim(s, d)
      PROVE  TypeOK'
  <2>1. RowsTypeOK'
    BY <1>3 DEF Claim, Claimable
  <2>2. CallsTypeOK'
    BY <1>3 DEF Claim, SenderState
  <2> QED
    BY <2>1, <2>2
<1>4. ASSUME NEW s \in Senders, Transport(s)
      PROVE  TypeOK'
  <2>1. PICK outcome \in Outcome : \E n \in PostedBy(outcome) :
          /\ sender' = [sender EXCEPT ![s].stage = "answered", ![s].outcome = outcome]
          /\ posts' = [posts EXCEPT ![sender[s].delivery] = @ + n]
    BY <1>4 DEF Transport
  <2>9. PICK n \in PostedBy(outcome) :
          /\ sender' = [sender EXCEPT ![s].stage = "answered", ![s].outcome = outcome]
          /\ posts' = [posts EXCEPT ![sender[s].delivery] = @ + n]
    BY <2>1
  <2>2. n \in {0, 1} /\ sender[s].delivery \in Deliveries
    BY <1>4 DEF PostedBy, Transport
  <2>3. RowsTypeOK' /\ UNCHANGED publishable
    BY <1>4 DEF Transport
  <2>4. posts' \in [Deliveries -> Nat]
    BY <2>9, <2>2
  <2>5. sender' \in [Senders -> SenderState]
    <3>1. [sender[s] EXCEPT !.stage = "answered", !.outcome = outcome] \in SenderState
      BY DEF SenderState
    <3>2. sender' = [sender EXCEPT
            ![s] = [sender[s] EXCEPT !.stage = "answered", !.outcome = outcome]]
      BY <2>9
    <3> QED
      BY <3>1, <3>2
  <2>6. \A r \in Senders : sender'[r].stage # "idle" => sender'[r].delivery \in Deliveries
    BY <2>9, <2>2 DEF SenderState
  <2>7. \A r \in Senders : sender'[r].stage = "answered" => sender'[r].outcome \in Outcome
    BY <2>9 DEF SenderState
  <2> QED
    BY <2>3, <2>4, <2>5, <2>6, <2>7
<1>5. ASSUME NEW s \in Senders, Abandon(s)
      PROVE  TypeOK'
  <2>1. PICK n \in {0, 1} : posts' = [posts EXCEPT ![sender[s].delivery] = @ + n]
    BY <1>5 DEF Abandon
  <2>2. posts' \in [Deliveries -> Nat]
    BY <1>5, <2>1 DEF Abandon
  <2> QED
    BY <1>5, <2>2 DEF Abandon, IdleSender, SenderState
<1>6. ASSUME NEW s \in Senders, Finish(s)
      PROVE  TypeOK'
  <2>1. RowsTypeOK'
    BY <1>6 DEF Finish, RecordedState
  <2>2. CallsTypeOK'
    BY <1>6 DEF Finish, IdleSender, SenderState
  <2> QED
    BY <2>1, <2>2
<1>7. CASE MarkStaleAmbiguous
  BY <1>7 DEF MarkStaleAmbiguous
<1>8. CASE UNCHANGED vars
  BY <1>8 DEF vars
<1> QED
  BY <1>1, <1>2, <1>3, <1>4, <1>5, <1>6, <1>7, <1>8 DEF Next

LEMMA InitOutboxInv == Init => OutboxInv
BY OutboxAssumption
   DEF Init, OutboxInv, TypeOK, RowsTypeOK, CallsTypeOK, State, Final, SenderState,
       IdleSender, AtMostOnce, RowTellsTruth, CallInv, Active, Outcome

-----------------------------------------------------------------------------
(* The steps that change neither the chat nor the calls.                   *)

LEMMA QuietStep ==
  ASSUME OutboxInv, UNCHANGED <<sender, posts>>,
         \A d \in Deliveries :
           \/ state'[d] = state[d]
           \/ state[d] = "absent" /\ state'[d] = "PENDING"
           \/ state[d] = "SENDING" /\ state'[d] = "DELIVERY_AMBIGUOUS"
  PROVE  AtMostOnce' /\ RowTellsTruth' /\ CallInv'
<1>1. \A s \in Senders, d \in Deliveries : Active(s, d)' <=> Active(s, d)
  BY DEF Active
<1> QED
  BY <1>1 DEF OutboxInv, AtMostOnce, RowTellsTruth, CallInv

LEMMA NextOutboxInv == OutboxInv /\ [Next]_vars => OutboxInv'
<1> SUFFICES ASSUME OutboxInv, [Next]_vars
             PROVE  AtMostOnce' /\ RowTellsTruth' /\ CallInv'
  BY NextTypeOK DEF OutboxInv
<1> USE DEF OutboxInv, TypeOK, RowsTypeOK, CallsTypeOK
<1>1. ASSUME NEW d \in Deliveries,
             EnsurePending(d) \/ LeaseExpires(d) \/ BackoffElapses(d)
      PROVE  AtMostOnce' /\ RowTellsTruth' /\ CallInv'
  BY <1>1, QuietStep DEF EnsurePending, LeaseExpires, BackoffElapses
<1>2. CASE ChangePolicy
  BY <1>2, QuietStep DEF ChangePolicy, rows
<1>3. ASSUME NEW s \in Senders, NEW d \in Deliveries, Claim(s, d)
      PROVE  AtMostOnce' /\ RowTellsTruth' /\ CallInv'
  <2>1. state[d] \in {"PENDING", "FAILED_RETRYABLE"}
    BY <1>3 DEF Claim, Claimable
  <2>2. posts[d] = 0 /\ \A r \in Senders : ~Active(r, d)
    BY <2>1 DEF RowTellsTruth
  <2>3. /\ UNCHANGED posts
        /\ state'[d] = "SENDING"
        /\ \A e \in Deliveries \ {d} : state'[e] = state[e]
    BY <1>3 DEF Claim
  <2>4. /\ sender'[s].stage = "claimed"
        /\ \A e \in Deliveries : Active(s, e)' <=> e = d
        /\ \A e \in Deliveries : ~Active(s, e)
    BY <1>3 DEF Claim, Active
  <2>5. \A r \in Senders \ {s} : sender'[r] = sender[r]
    BY <1>3 DEF Claim
  <2>6. \A r \in Senders \ {s}, e \in Deliveries : Active(r, e)' <=> Active(r, e)
    BY <2>5 DEF Active
  <2>7. AtMostOnce'
    BY <2>3 DEF AtMostOnce
  <2>8. RowTellsTruth'
    BY <2>3, <2>4, <2>6 DEF RowTellsTruth
  <2>9. CallInv'
    BY <2>2, <2>3, <2>4, <2>5, <2>6 DEF CallInv
  <2> QED
    BY <2>7, <2>8, <2>9
<1>4. ASSUME NEW s \in Senders, Transport(s)
      PROVE  AtMostOnce' /\ RowTellsTruth' /\ CallInv'
  <2> DEFINE d == sender[s].delivery
  <2>1. PICK outcome \in Outcome : \E n \in PostedBy(outcome) :
          /\ sender' = [sender EXCEPT ![s].stage = "answered", ![s].outcome = outcome]
          /\ posts' = [posts EXCEPT ![d] = @ + n]
    BY <1>4 DEF Transport
  <2>0. PICK n \in PostedBy(outcome) :
          /\ sender' = [sender EXCEPT ![s].stage = "answered", ![s].outcome = outcome]
          /\ posts' = [posts EXCEPT ![d] = @ + n]
    BY <2>1
  <2>2. d \in Deliveries /\ Active(s, d) /\ sender[s].stage = "claimed"
    BY <1>4 DEF Transport, Active
  <2>3. n \in {0, 1} /\ UNCHANGED state
    BY <1>4 DEF PostedBy, Transport, rows
  <2>4. posts[d] = 0 /\ state[d] \in {"SENDING", "DELIVERY_AMBIGUOUS"}
    BY <2>2 DEF CallInv
  <2>5. posts'[d] = n /\ \A e \in Deliveries \ {d} : posts'[e] = posts[e]
    BY <2>0, <2>2, <2>3, <2>4
  <2>6. /\ \A r \in Senders \ {s} : sender'[r] = sender[r]
        /\ sender'[s].stage = "answered"
        /\ sender'[s].outcome = outcome
        /\ sender'[s].delivery = d
    BY <2>0 DEF SenderState
  <2>7. \A r \in Senders, e \in Deliveries : Active(r, e)' <=> Active(r, e)
    BY <2>2, <2>6 DEF Active
  <2>8. AtMostOnce'
    BY <2>3, <2>5 DEF AtMostOnce
  <2>9. RowTellsTruth'
    BY <2>3, <2>4, <2>5, <2>7 DEF RowTellsTruth
  <2>10. CallInv'
    <3> SUFFICES ASSUME NEW r \in Senders, NEW e \in Deliveries, Active(r, e)'
                 PROVE  /\ state'[e] \in {"SENDING", "DELIVERY_AMBIGUOUS"}
                        /\ \A q \in Senders : Active(q, e)' => q = r
                        /\ sender'[r].stage = "claimed" => posts'[e] = 0
                        /\ sender'[r].stage = "answered" =>
                             posts'[e] \in PostedBy(sender'[r].outcome)
      BY DEF CallInv, PostedBy
    <3>1. Active(r, e)
      BY <2>7
    <3>2. CASE r = s
      <4>1. e = d
        BY <3>1, <3>2 DEF Active
      <4> QED
        BY <3>1, <3>2, <4>1, <2>3, <2>5, <2>6, <2>7 DEF CallInv
    <3>3. CASE r # s
      <4>1. e # d
        BY <3>1, <3>3, <2>2 DEF CallInv
      <4> QED
        BY <3>1, <3>3, <4>1, <2>3, <2>5, <2>6, <2>7 DEF CallInv
    <3> QED
      BY <3>2, <3>3
  <2> QED
    BY <2>8, <2>9, <2>10
<1>5. ASSUME NEW s \in Senders, Abandon(s)
      PROVE  AtMostOnce' /\ RowTellsTruth' /\ CallInv'
  <2> DEFINE d == sender[s].delivery
  <2>1. d \in Deliveries /\ Active(s, d)
    BY <1>5 DEF Abandon, Active
  <2>2. state[d] \in {"SENDING", "DELIVERY_AMBIGUOUS"} /\ UNCHANGED state
    BY <1>5, <2>1 DEF CallInv, Abandon, rows
  <2>3. /\ posts'[d] \in {0, 1}
        /\ \A e \in Deliveries \ {d} : posts'[e] = posts[e]
    <3>1. CASE sender[s].stage = "claimed"
      BY <1>5, <2>1, <3>1 DEF Abandon, CallInv
    <3>2. CASE sender[s].stage # "claimed"
      BY <1>5, <2>1, <3>2 DEF Abandon, AtMostOnce
    <3> QED
      BY <3>1, <3>2
  <2>4. /\ \A e \in Deliveries : ~Active(s, e)'
        /\ \A r \in Senders \ {s} : sender'[r] = sender[r]
    BY <1>5 DEF Abandon, IdleSender, Active
  <2>5. \A r \in Senders \ {s}, e \in Deliveries : Active(r, e)' <=> Active(r, e)
    BY <2>4 DEF Active
  <2>6. \A r \in Senders \ {s} : ~Active(r, d)
    BY <2>1 DEF CallInv
  <2>7. AtMostOnce'
    BY <2>3 DEF AtMostOnce
  <2>8. RowTellsTruth'
    BY <2>2, <2>3, <2>4, <2>5 DEF RowTellsTruth
  <2>9. CallInv'
    BY <2>2, <2>3, <2>4, <2>5, <2>6 DEF CallInv
  <2> QED
    BY <2>7, <2>8, <2>9
<1>6. ASSUME NEW s \in Senders, Finish(s)
      PROVE  AtMostOnce' /\ RowTellsTruth' /\ CallInv'
  <2>1. PICK d \in Deliveries : d = sender[s].delivery
    BY <1>6 DEF Finish
  <2>0. PICK next \in State : next = RecordedState(sender[s].outcome)
    BY DEF RecordedState, State, Final
  <2>11. Active(s, d) /\ sender[s].outcome \in Outcome
    BY <1>6, <2>1 DEF Finish, Active
  <2>2. /\ posts[d] \in PostedBy(sender[s].outcome)
        /\ state[d] \in {"SENDING", "DELIVERY_AMBIGUOUS"}
    BY <1>6, <2>1, <2>11 DEF CallInv, Finish
  <2>3. /\ next = "SENT" => posts[d] = 1
        /\ next \in {"FAILED_RETRYABLE", "FAILED_PERMANENT"} => posts[d] = 0
        /\ next \in {"SENT", "FAILED_RETRYABLE", "FAILED_PERMANENT", "DELIVERY_AMBIGUOUS"}
    BY <2>0, <2>11, <2>2 DEF PostedBy, RecordedState, Outcome
  <2>4. /\ UNCHANGED posts
        /\ state'[d] \in {next, state[d]}
        /\ \A e \in Deliveries \ {d} : state'[e] = state[e]
    BY <1>6, <2>1, <2>0 DEF Finish
  <2>5. /\ \A e \in Deliveries : ~Active(s, e)'
        /\ \A r \in Senders \ {s} : sender'[r] = sender[r]
    BY <1>6 DEF Finish, IdleSender, Active
  <2>6. \A r \in Senders \ {s}, e \in Deliveries : Active(r, e)' <=> Active(r, e)
    BY <2>5 DEF Active
  <2>7. \A r \in Senders : ~Active(r, d)'
    BY <2>11, <2>5, <2>6 DEF CallInv
  <2>8. AtMostOnce'
    BY <2>4 DEF AtMostOnce
  <2>9. RowTellsTruth'
    BY <2>2, <2>3, <2>4, <2>5, <2>6, <2>7 DEF RowTellsTruth
  <2>10. CallInv'
    BY <2>4, <2>5, <2>6, <2>7 DEF CallInv
  <2> QED
    BY <2>8, <2>9, <2>10
<1>7. CASE MarkStaleAmbiguous
  BY <1>7, QuietStep DEF MarkStaleAmbiguous, Stale
<1>8. CASE UNCHANGED vars
  BY <1>8, QuietStep DEF vars, rows
<1> QED
  BY <1>1, <1>2, <1>3, <1>4, <1>5, <1>6, <1>7, <1>8 DEF Next

LEMMA OutboxInvAlways == Spec => []OutboxInv
<1>1. Init => OutboxInv
  BY InitOutboxInv
<1>2. OutboxInv /\ [Next]_vars => OutboxInv'
  BY NextOutboxInv
<1> QED
  BY <1>1, <1>2, PTL DEF Spec

\* Every reachable state is typed: attempts never pass the budget and an
\* answered call has one of the outcomes send tells apart.
THEOREM TypeCorrect == Spec => []TypeOK
BY OutboxInvAlways, PTL DEF OutboxInv

\* No deal is posted twice, for any number of rows, calls and attempts.
THEOREM AtMostOnceHolds == Spec => []AtMostOnce
BY OutboxInvAlways, PTL DEF OutboxInv

\* SENT means posted; a row that may be claimed, or that says the message was
\* refused, has nothing in the chat and no call that could still put it there.
THEOREM RowTellsTruthHolds == Spec => []RowTellsTruth
BY OutboxInvAlways, PTL DEF OutboxInv

-----------------------------------------------------------------------------
(* Action properties and the refinement.                                   *)

\* SENT, FAILED_PERMANENT and DELIVERY_AMBIGUOUS are never left.
THEOREM FinalStaysFinalHolds == Spec => FinalStaysFinal
<1> DEFINE Step == \A d \in Deliveries : state[d] \in Final => state'[d] = state[d]
<1>1. OutboxInv /\ [Next]_vars => [Step]_vars
  <2> SUFFICES ASSUME OutboxInv, Next
               PROVE  Step
    OBVIOUS
  <2> USE DEF OutboxInv, TypeOK, RowsTypeOK, Final, State
  <2>1. ASSUME NEW d \in Deliveries,
               EnsurePending(d) \/ LeaseExpires(d) \/ BackoffElapses(d)
        PROVE  Step
    BY <2>1 DEF EnsurePending, LeaseExpires, BackoffElapses
  <2>2. CASE ChangePolicy
    BY <2>2 DEF ChangePolicy, rows
  <2>3. ASSUME NEW s \in Senders, NEW d \in Deliveries, Claim(s, d)
        PROVE  Step
    BY <2>3 DEF Claim, Claimable
  <2>4. ASSUME NEW s \in Senders, Transport(s) \/ Abandon(s)
        PROVE  Step
    BY <2>4 DEF Transport, Abandon, rows
  <2>5. ASSUME NEW s \in Senders, Finish(s)
        PROVE  Step
    BY <2>5 DEF Finish
  <2>6. CASE MarkStaleAmbiguous
    BY <2>6 DEF MarkStaleAmbiguous, Stale
  <2> QED
    BY <2>1, <2>2, <2>3, <2>4, <2>5, <2>6 DEF Next
<1>2. Spec => [][Step]_vars
  BY <1>1, OutboxInvAlways, PTL DEF Spec
<1> QED
  BY <1>2 DEF FinalStaysFinal

LEMMA InitMaps == Init => Promise!AbsInit
BY DEF Init, Promise!AbsInit, Verdict

\* A step that posts nothing and moves no row into or out of a final state.
LEMMA StutterMaps ==
  ASSUME UNCHANGED posts,
         \A d \in Deliveries : state'[d] = state[d] \/ {state[d], state'[d]} \cap Final = {}
  PROVE  UNCHANGED Promise!absVars
<1>1. \A d \in Deliveries : Verdict(d)' = Verdict(d)
  BY DEF Verdict, Final
<1> QED
  BY <1>1 DEF Promise!absVars

\* A step that posts the delivery of a call at work on it.
LEMMA PostMaps ==
  ASSUME OutboxInv, NEW d \in Deliveries, UNCHANGED state, posts[d] = 0,
         state[d] \in {"SENDING", "DELIVERY_AMBIGUOUS"},
         NEW n \in {0, 1}, posts' = [posts EXCEPT ![d] = @ + n]
  PROVE  [Promise!AbsNext]_(Promise!absVars)
<1> USE DEF OutboxInv, TypeOK, RowsTypeOK, CallsTypeOK
<1>1. \A e \in Deliveries : Verdict(e)' = Verdict(e)
  BY DEF Verdict
<1>2. CASE n = 0
  BY <1>2, StutterMaps
<1>3. CASE n = 1
  <2>1. posts'[d] = 1 /\ \A e \in Deliveries \ {d} : posts'[e] = posts[e]
    BY <1>3
  <2>2. {e \in Deliveries : posts[e] > 0}' = {e \in Deliveries : posts[e] > 0} \cup {d}
    BY <2>1
  <2>3. Verdict(d) \in {"open", "unknown"}
    BY DEF Verdict
  <2>4. Promise!Appear(d)
    BY <1>1, <2>2, <2>3 DEF Promise!Appear
  <2> QED
    BY <2>4 DEF Promise!AbsNext
<1> QED
  BY <1>2, <1>3

LEMMA StepMaps == OutboxInv /\ [Next]_vars => [Promise!AbsNext]_(Promise!absVars)
<1> SUFFICES ASSUME OutboxInv, [Next]_vars
             PROVE  [Promise!AbsNext]_(Promise!absVars)
  OBVIOUS
<1> USE DEF OutboxInv, TypeOK, RowsTypeOK, CallsTypeOK
<1>1. ASSUME NEW d \in Deliveries,
             EnsurePending(d) \/ LeaseExpires(d) \/ BackoffElapses(d)
      PROVE  [Promise!AbsNext]_(Promise!absVars)
  BY <1>1, StutterMaps DEF EnsurePending, LeaseExpires, BackoffElapses, Final
<1>2. CASE ChangePolicy
  BY <1>2, StutterMaps DEF ChangePolicy, rows
<1>3. ASSUME NEW s \in Senders, NEW d \in Deliveries, Claim(s, d)
      PROVE  [Promise!AbsNext]_(Promise!absVars)
  BY <1>3, StutterMaps DEF Claim, Claimable, Final
<1>4. ASSUME NEW s \in Senders, Transport(s)
      PROVE  [Promise!AbsNext]_(Promise!absVars)
  <2>1. PICK d \in Deliveries : d = sender[s].delivery
    BY <1>4 DEF Transport
  <2>2. PICK outcome \in Outcome :
          \E n \in PostedBy(outcome) : posts' = [posts EXCEPT ![d] = @ + n]
    BY <1>4, <2>1 DEF Transport
  <2>3. \E n \in {0, 1} : posts' = [posts EXCEPT ![d] = @ + n]
    BY <2>2 DEF PostedBy
  <2>4. posts[d] = 0 /\ state[d] \in {"SENDING", "DELIVERY_AMBIGUOUS"}
    BY <1>4, <2>1 DEF Transport, Active, CallInv
  <2> QED
    BY <1>4, <2>3, <2>4, PostMaps DEF Transport, rows
<1>5. ASSUME NEW s \in Senders, Abandon(s)
      PROVE  [Promise!AbsNext]_(Promise!absVars)
  <2>1. PICK d \in Deliveries : d = sender[s].delivery
    BY <1>5 DEF Abandon
  <2>2. UNCHANGED state
    BY <1>5 DEF Abandon, rows
  <2>3. CASE sender[s].stage = "claimed"
    <3>1. posts[d] = 0 /\ state[d] \in {"SENDING", "DELIVERY_AMBIGUOUS"}
      BY <2>1, <2>3 DEF Active, CallInv
    <3>2. \E n \in {0, 1} : posts' = [posts EXCEPT ![d] = @ + n]
      BY <1>5, <2>1, <2>3 DEF Abandon
    <3> QED
      BY <2>2, <3>1, <3>2, PostMaps
  <2>4. CASE sender[s].stage # "claimed"
    <3>1. posts' = posts
      BY <1>5, <2>4 DEF Abandon
    <3> QED
      BY <2>2, <3>1, StutterMaps
  <2> QED
    BY <2>3, <2>4
<1>6. ASSUME NEW s \in Senders, Finish(s)
      PROVE  [Promise!AbsNext]_(Promise!absVars)
  <2>1. PICK d \in Deliveries : d = sender[s].delivery
    BY <1>6 DEF Finish
  <2>2. PICK next \in State : next = RecordedState(sender[s].outcome)
    BY DEF RecordedState, State, Final
  <2>3. posts[d] \in PostedBy(sender[s].outcome) /\ UNCHANGED posts
    BY <1>6, <2>1 DEF Finish, Active, CallInv
  <2>4. CASE UNCHANGED state
    BY <2>3, <2>4, StutterMaps
  <2>5. CASE state[d] = "SENDING" /\ state' = [state EXCEPT ![d] = next]
    <3>1. /\ state'[d] = next
          /\ \A e \in Deliveries \ {d} : state'[e] = state[e]
      BY <2>5
    <3>2. /\ Verdict(d) = "open"
          /\ \A e \in Deliveries \ {d} : Verdict(e)' = Verdict(e)
      BY <2>5, <3>1 DEF Verdict
    <3>3. CASE next = "FAILED_RETRYABLE"
      BY <2>3, <2>5, <3>1, <3>3, StutterMaps DEF Final
    <3>4. CASE next = "SENT"
      <4>1. posts[d] = 1
        BY <1>6, <2>2, <2>3, <3>4 DEF Finish, RecordedState, PostedBy
      <4>2. Verdict(d)' = "confirmed"
        BY <3>1, <3>4 DEF Verdict
      <4>3. [e \in Deliveries |-> Verdict(e)]' =
              [[e \in Deliveries |-> Verdict(e)] EXCEPT ![d] = "confirmed"]
        BY <3>2, <4>2
      <4>4. d \in {e \in Deliveries : posts[e] > 0} <=> "confirmed" = "confirmed"
        BY <4>1
      <4>5. Promise!Decide(d, "confirmed")
        BY <2>3, <3>2, <4>3, <4>4 DEF Promise!Decide
      <4> QED
        BY <4>5 DEF Promise!AbsNext
    <3>5. CASE next = "FAILED_PERMANENT"
      <4>1. posts[d] = 0
        BY <1>6, <2>2, <2>3, <3>5 DEF Finish, RecordedState, PostedBy, Outcome
      <4>2. Verdict(d)' = "refused"
        BY <3>1, <3>5 DEF Verdict
      <4>3. [e \in Deliveries |-> Verdict(e)]' =
              [[e \in Deliveries |-> Verdict(e)] EXCEPT ![d] = "refused"]
        BY <3>2, <4>2
      <4>4. d \in {e \in Deliveries : posts[e] > 0} <=> "refused" = "confirmed"
        BY <4>1
      <4>5. Promise!Decide(d, "refused")
        BY <2>3, <3>2, <4>3, <4>4 DEF Promise!Decide
      <4> QED
        BY <4>5 DEF Promise!AbsNext
    <3>6. CASE next = "DELIVERY_AMBIGUOUS"
      <4>1. Verdict(d)' = "unknown"
        BY <3>1, <3>6 DEF Verdict
      <4>2. Promise!GiveUp({d})
        BY <2>3, <3>2, <4>1 DEF Promise!GiveUp
      <4> QED
        BY <4>2 DEF Promise!AbsNext
    <3> QED
      BY <2>2, <3>3, <3>4, <3>5, <3>6 DEF RecordedState
  <2> QED
    BY <1>6, <2>1, <2>2, <2>4, <2>5 DEF Finish
<1>7. CASE MarkStaleAmbiguous
  <2>1. PICK S \in SUBSET Deliveries : S = {d \in Deliveries : Stale(d)}
    OBVIOUS
  <2>2. \A d \in S : Verdict(d) = "open" /\ Verdict(d)' = "unknown"
    BY <1>7, <2>1 DEF MarkStaleAmbiguous, Stale, Verdict
  <2>3. \A d \in Deliveries \ S : Verdict(d)' = Verdict(d)
    BY <1>7, <2>1 DEF MarkStaleAmbiguous, Verdict
  <2>4. Promise!GiveUp(S)
    BY <1>7, <2>2, <2>3 DEF Promise!GiveUp, MarkStaleAmbiguous
  <2> QED
    BY <2>4 DEF Promise!AbsNext
<1>8. CASE UNCHANGED vars
  BY <1>8, StutterMaps DEF vars, rows
<1> QED
  BY <1>1, <1>2, <1>3, <1>4, <1>5, <1>6, <1>7, <1>8 DEF Next

\* The outbox keeps the promise of AtMostOncePost: whatever the rows and the
\* calls do, the chat and the verdicts change only as that module allows.
THEOREM OutboxImplementsPromise == Spec => ImplementsPromise
<1>1. Spec => Promise!AbsInit /\ [][Promise!AbsNext]_(Promise!absVars)
  BY InitMaps, StepMaps, OutboxInvAlways, PTL DEF Spec
<1> QED
  BY <1>1 DEF ImplementsPromise, Promise!AbsSpec
=============================================================================
