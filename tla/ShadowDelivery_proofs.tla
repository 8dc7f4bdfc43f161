------------------------ MODULE ShadowDelivery_proofs ------------------------
(* Proofs about ShadowDelivery for every value of its constants. *)
EXTENDS ShadowDelivery, FiniteSetTheorems, TLAPS

Busy(k) == task[k].stage # "idle"

Quiet(t) == posts[t] = 0 /\ wire[t] = 0

\* What a delivery may rely on between its transactions: nobody reported its
\* target, its row is pending until it is marked and sending from then on, and
\* nothing was requested before it waits or when it knows of a rejection.
TaskOK(k) ==
  LET t == task[k].target IN
  /\ task[k].verdict # "none" <=> task[k].stage = "settling"
  /\ Busy(k) =>
       /\ told[t] = "none"
       /\ row[t] = IF task[k].sending THEN "sending" ELSE "pending"
       /\ task[k].stage \in {"marked", "armed", "waiting"} => task[k].sending
       /\ task[k].stage \in {"reserved", "validated", "inspected", "cleared", "granted"} =>
            ~task[k].sending
       /\ task[k].stage \notin {"waiting", "settling"} => Quiet(t)
       /\ task[k].verdict = "sent" => task[k].sending /\ posts[t] = 1
       /\ task[k].verdict = "uncertain" => task[k].sending
       /\ task[k].verdict = "failed_safe" => Quiet(t)

\* A target is in the hands of one delivery.
OneTask ==
  \A j, k \in Tasks : Busy(j) /\ Busy(k) /\ task[j].target = task[k].target => j = k

Paired ==
  {<<"none", "none">>, <<"pending", "SEND_RESERVED">>, <<"sending", "SEND_IN_FLIGHT">>,
   <<"sent", "SEND_CONFIRMED">>, <<"failed_safe", "SEND_FAILED">>,
   <<"uncertain", "SEND_UNCERTAIN">>}

\* The two checked properties for one target, and that nothing is reported of a
\* target that has no row.
TargetOK(t) ==
  /\ posts[t] + wire[t] <= 1
  /\ row[t] = "sent" \/ told[t] = "sent" => posts[t] = 1
  /\ row[t] \in {"none", "pending", "failed_safe"} \/ told[t] = "failed_safe" => Quiet(t)
  /\ told[t] = "sent" => row[t] = "sent"
  /\ <<row[t], use[t]>> \in Paired
  /\ row[t] = "none" => told[t] = "none"

DeliveryInv ==
  /\ OneTask
  /\ \A k \in Tasks : TaskOK(k)
  /\ \A t \in Target : TargetOK(t)

\* Deliveries that were granted a request and did not make it yet.
Granted == {k \in Tasks : task[k].automatic
                            /\ \/ task[k].stage = "granted"
                               \/ task[k].stage = "armed"}

BudgetInv == IsFiniteSet(Granted) /\ dispatched + Cardinality(Granted) <= counted

-----------------------------------------------------------------------------
(* Type correctness.                                                       *)

TaskType == [stage : Stage, target : Target, version : 0..MaxVersions,
             automatic : BOOLEAN, sending : BOOLEAN, verdict : Verdict]

LEMMA NoTaskType == NoTask \in TaskType
<1>1. (CHOOSE t \in Target : TRUE) \in Target
  BY DeliveryAssumption DEF Target
<1>2. 0 \in 0..MaxVersions
  BY DeliveryAssumption
<1> QED
  BY <1>1, <1>2 DEF NoTask, TaskType, Stage, Verdict

LEMMA InitTypeOK == Init => TypeOK
BY NoTaskType, DeliveryAssumption
   DEF Init, TypeOK, TaskType, RowState, UseState, Verdict, PreviewRow

LEMMA DeliverTypeOK ==
  ASSUME TypeOK, NEW k \in Tasks, Deliver(k)
  PROVE  TypeOK'
<1> USE DEF TypeOK, RowState, UseState, Verdict, Stage
<1>0. task[k] \in TaskType /\ task[k].target \in Target
  BY DEF TaskType
<1>1. ASSUME NEW t \in Target, NEW automatic \in BOOLEAN,
             ReserveCanonical(k, t, automatic) \/ ReserveCoin(k, t, automatic)
      PROVE  TypeOK'
  <2>1. Reserved(k, t, automatic)
    BY <1>1 DEF ReserveCanonical, ReserveCoin
  <2>2. preview[t].version \in 0..MaxVersions
    BY DEF PreviewRow
  <2>3. [NoTask EXCEPT !.stage = "reserved", !.target = t, !.version = preview[t].version,
                       !.automatic = automatic] \in TaskType
    BY <2>2, NoTaskType DEF TaskType
  <2>4. task' \in [Tasks -> TaskType]
    BY <2>1, <2>3 DEF Reserved, TaskType
  <2> QED
    BY <2>1, <2>4 DEF Reserved, UseIsRecorded, chat, TaskType
<1>2. CASE Validate(k)
  <2>1. preview[task[k].target].version \in 0..MaxVersions
    BY <1>0 DEF PreviewRow
  <2>2. task' \in [Tasks -> TaskType]
    <3>1. [task[k] EXCEPT !.stage = "validated",
                          !.version = preview[task[k].target].version] \in TaskType
      BY <1>0, <2>1 DEF TaskType
    <3> QED
      BY <1>2, <3>1 DEF Validate, TaskType
  <2> QED
    BY <1>2, <2>2 DEF Validate, rows, chat, TaskType
<1>3. ASSUME NEW from, NEW to \in Stage, Move(k, from, to),
             UNCHANGED <<preview, rows, counted, dispatched, chat>>
      PROVE  TypeOK'
  BY <1>3 DEF Move, rows, chat
<1>4. CASE MarkSending(k) \/ CoinMarkSending(k)
  BY <1>4, SMTT(30) DEF MarkSending, CoinMarkSending, MarkRow, UseMoves, chat
<1>5. CASE Grant(k)
  <2>1. task' \in [Tasks -> TaskType]
    BY <1>5 DEF Grant, Move, TaskType
  <2>2. counted' \in 0..MaxSends
    BY <1>5, DeliveryAssumption DEF Grant, BeforeSendMessage
  <2> QED
    BY <1>5, <2>1, <2>2 DEF Grant, rows, chat, TaskType
<1>6. CASE Request(k)
  BY <1>6 DEF Request, Move, rows
<1>7. CASE Confirmed(k) \/ Stop(k)
  <2>1. PICK v \in Verdict : Settle(k, v)
    BY <1>7 DEF Confirmed, Stop, Stopped
  <2>2. [task[k] EXCEPT !.stage = "settling", !.verdict = v] \in TaskType
    BY <1>0 DEF TaskType
  <2>3. task' \in [Tasks -> TaskType]
    BY <2>1, <2>2 DEF Settle, TaskType
  <2>4. UNCHANGED <<preview, rows, counted, dispatched, chat>>
    BY <1>7 DEF Confirmed, Stop
  <2> QED
    BY <2>3, <2>4 DEF rows, chat, TaskType
<1>8. CASE DefinitivelyRejected(k)
  <2>1. wire' \in [Target -> Nat]
    BY <1>0, <1>8 DEF DefinitivelyRejected
  <2>2. [task[k] EXCEPT !.stage = "settling", !.verdict = "failed_safe"] \in TaskType
    BY <1>0 DEF TaskType
  <2>3. task' \in [Tasks -> TaskType]
    BY <1>8, <2>2 DEF DefinitivelyRejected, Settle, TaskType
  <2> QED
    BY <1>8, <2>1, <2>3 DEF DefinitivelyRejected, rows, TaskType
<1>9. CASE Finish(k)
  <2>1. task' \in [Tasks -> TaskType]
    BY <1>9, NoTaskType DEF Finish, Report, TaskType
  <2>2. task[k].verdict \in RowState
    BY <1>0
  <2>3. UNCHANGED <<preview, counted, dispatched, chat>>
        /\ row' \in [Target -> RowState] /\ told' \in [Target -> Verdict]
        /\ use' \in [Target -> UseState]
    BY <1>9, <2>2 DEF Finish, Report, UseMoves
  <2> QED
    BY <2>1, <2>3 DEF chat, TaskType
<1>10. CASE FinishFails(k)
  <2>1. task' \in [Tasks -> TaskType]
    BY <1>10, NoTaskType DEF FinishFails, Report, TaskType
  <2>2. told' \in [Target -> Verdict]
    BY <1>10 DEF FinishFails, Report, Stopped
  <2> QED
    BY <1>10, <2>1, <2>2 DEF FinishFails, chat, TaskType
<1>11. CASE GetChat(k) \/ InspectChannel(k) \/ Revalidate(k)
  BY <1>3, <1>11 DEF GetChat, InspectChannel, Revalidate
<1> QED
  BY <1>1, <1>2, <1>4, <1>5, <1>6, <1>7, <1>8, <1>9, <1>10, <1>11 DEF Deliver

LEMMA NextTypeOK == TypeOK /\ [Next]_vars => TypeOK'
<1> SUFFICES ASSUME TypeOK, [Next]_vars
             PROVE  TypeOK'
  OBVIOUS
<1>1. ASSUME NEW t \in Target,
             SaveCanonical(t) \/ SaveCoin(t) \/ Expire(t) \/ PurgeExpired(t)
               \/ GenerationChanges(t)
      PROVE  TypeOK'
  <2>1. preview[t] \in PreviewRow
    BY DEF TypeOK
  <2>3. preview[t].version < MaxVersions => preview[t].version + 1 \in 0..MaxVersions
    BY <2>1, DeliveryAssumption DEF PreviewRow
  <2>4. \E new \in PreviewRow : preview' = [preview EXCEPT ![t] = new]
    <3>1. ASSUME Save(t)
          PROVE  <2>4
      <4>1. [version |-> preview[t].version + 1, status |-> "READY"] \in PreviewRow
        BY <2>3, <3>1 DEF PreviewRow, Save
      <4> QED
        BY <3>1, <4>1 DEF Save
    <3>2. ASSUME NEW s \in {"expired", "purged", "changed"},
                 preview' = [preview EXCEPT ![t].status = s]
          PROVE  <2>4
      <4>1. [preview[t] EXCEPT !.status = s] \in PreviewRow
        BY <2>1 DEF PreviewRow
      <4> QED
        BY <3>2, <4>1
    <3> QED
      BY <1>1, <3>1, <3>2 DEF SaveCanonical, SaveCoin, Expire, PurgeExpired, GenerationChanges
  <2>2. preview' \in [Target -> PreviewRow]
    BY <2>4 DEF TypeOK
  <2> QED
    BY <1>1, <2>2 DEF TypeOK, SaveCanonical, SaveCoin, Save, Expire, PurgeExpired,
                      GenerationChanges, rows, chat
<1>2. ASSUME NEW t \in Target, Post(t)
      PROVE  TypeOK'
  BY <1>2 DEF TypeOK, Post, rows
<1>3. ASSUME NEW k \in Tasks, Deliver(k)
      PROVE  TypeOK'
  BY <1>3, DeliverTypeOK
<1>4. CASE Crash
  BY <1>4, NoTaskType, DeliveryAssumption DEF TypeOK, TaskType, Crash, rows, chat
<1>5. CASE UNCHANGED vars
  BY <1>5 DEF TypeOK, vars, rows, chat
<1> QED
  BY <1>1, <1>2, <1>3, <1>4, <1>5 DEF Next

\* Every reachable state is typed.
THEOREM TypeCorrect == Spec => []TypeOK
BY InitTypeOK, NextTypeOK, PTL DEF Spec

-----------------------------------------------------------------------------
(* One delivery at a target, and what it relies on.                        *)

LEMMA InitDeliveryInv == Init => DeliveryInv
BY DEF Init, DeliveryInv, OneTask, TaskOK, TargetOK, Busy, Quiet, Paired, NoTask

\* A step of a delivery at its target disturbs no other one.
LEMMA TargetStep ==
  ASSUME DeliveryInv, NEW k \in Tasks, NEW t \in Target,
         Busy(k) => task[k].target = t,
         Busy(k)' => task'[k].target = t,
         ~Busy(k) => \A j \in Tasks : Busy(j) => task[j].target # t,
         \A j \in Tasks \ {k} : task'[j] = task[j],
         \A u \in Target \ {t} :
           /\ row'[u] = row[u] /\ use'[u] = use[u] /\ told'[u] = told[u]
           /\ posts'[u] = posts[u] /\ wire'[u] = wire[u],
         TaskOK(k)', TargetOK(t)',
         Busy(k) \/ Busy(k)',
         \A j \in Tasks : task[j].target \in Target
  PROVE  DeliveryInv'
<1>1. OneTask'
  BY DEF DeliveryInv, OneTask, Busy
<1>2. ASSUME NEW j \in Tasks, j # k
      PROVE  TaskOK(j)'
  <2>1. TaskOK(j) /\ task'[j] = task[j]
    BY <1>2 DEF DeliveryInv
  <2>2. CASE Busy(j)
    <3>1. task[j].target # t
      BY <1>2, <2>2 DEF DeliveryInv, OneTask
    <3> QED
      BY <2>1, <3>1 DEF TaskOK, Busy, Quiet
  <2>3. CASE ~Busy(j)
    BY <2>1, <2>3 DEF TaskOK, Busy
  <2> QED
    BY <2>2, <2>3
<1>3. ASSUME NEW u \in Target, u # t
      PROVE  TargetOK(u)'
  <2>1. TargetOK(u)
    BY DEF DeliveryInv
  <2>2. row'[u] = row[u] /\ use'[u] = use[u] /\ told'[u] = told[u]
        /\ posts'[u] = posts[u] /\ wire'[u] = wire[u]
    BY <1>3
  <2> QED
    BY <2>1, <2>2 DEF TargetOK, Quiet
<1> QED
  BY <1>1, <1>2, <1>3 DEF DeliveryInv

\* A step of a delivery that only moves on, without touching rows or chat.
LEMMA MovesOn ==
  ASSUME TypeOK, DeliveryInv, NEW k \in Tasks, UNCHANGED <<rows, chat>>,
         Busy(k), NEW new \in TaskType, task' = [task EXCEPT ![k] = new],
         new.target = task[k].target,
         new.sending = task[k].sending,
         new.stage # "idle",
         new.verdict # "none" <=> new.stage = "settling",
         new.stage \in {"marked", "armed", "waiting"} => new.sending,
         new.stage \in {"reserved", "validated", "inspected", "cleared", "granted"} =>
            ~new.sending,
         new.stage \notin {"waiting", "settling"} => Quiet(new.target),
         new.verdict = "sent" => new.sending /\ posts[new.target] = 1,
         new.verdict = "uncertain" => new.sending,
         new.verdict = "failed_safe" => Quiet(new.target)
  PROVE  DeliveryInv'
<1>1. PICK t \in Target : t = task[k].target
  BY DEF TypeOK
<1>2. task'[k] = new /\ \A j \in Tasks \ {k} : task'[j] = task[j]
  BY DEF TypeOK
<1>3. row' = row /\ use' = use /\ told' = told /\ posts' = posts /\ wire' = wire
  BY DEF rows, chat
<1>4. TaskOK(k) /\ TargetOK(t)
  BY DEF DeliveryInv
<1>5. TargetOK(t)'
  BY <1>3, <1>4 DEF TargetOK, Quiet
<1>6. TaskOK(k)'
  BY <1>1, <1>2, <1>3, <1>4 DEF TaskOK, Busy, Quiet
<1>7. \A j \in Tasks : task[j].target \in Target
  BY DEF TypeOK
<1> QED
  BY <1>1, <1>2, <1>3, <1>5, <1>6, <1>7, TargetStep DEF Busy

\* A report ends a delivery.
LEMMA ReportEnds ==
  ASSUME TypeOK, DeliveryInv, NEW k \in Tasks, NEW t \in Target, t = task[k].target,
         Busy(k), NEW v \in Verdict, Report(k, v), UNCHANGED chat,
         \A u \in Target \ {t} : row'[u] = row[u] /\ use'[u] = use[u],
         TargetOK(t)'
  PROVE  DeliveryInv'
<1>1. task'[k] = NoTask /\ \A j \in Tasks \ {k} : task'[j] = task[j]
  BY DEF TypeOK, Report
<1>2. \A u \in Target \ {t} : told'[u] = told[u]
  BY DEF TypeOK, Report
<1>3. ~Busy(k)' /\ TaskOK(k)'
  BY <1>1 DEF NoTask, Busy, TaskOK
<1>4. \A j \in Tasks : task[j].target \in Target
  BY DEF TypeOK
<1>5. posts' = posts /\ wire' = wire
  BY DEF chat
<1> QED
  BY <1>1, <1>2, <1>3, <1>4, <1>5, TargetStep

\* The actions of a delivery.
LEMMA DeliverDeliveryInv ==
  ASSUME TypeOK, DeliveryInv, NEW k \in Tasks, Deliver(k)
  PROVE  DeliveryInv'
<1>a. PICK t \in Target : t = task[k].target
  BY DEF TypeOK
<1>0. /\ task[k] \in TaskType
      /\ t = task[k].target
      /\ task[k].sending \in BOOLEAN
      /\ \A j \in Tasks : task[j].target \in Target
  BY <1>a DEF TypeOK, TaskType
<1>t. TaskOK(k) /\ TargetOK(t) /\ t = task[k].target
  BY <1>0 DEF DeliveryInv
<1>1. ASSUME NEW u \in Target, NEW automatic \in BOOLEAN,
             ReserveCanonical(k, u, automatic) \/ ReserveCoin(k, u, automatic)
      PROVE  DeliveryInv'
  <2>1. Reserved(k, u, automatic)
    BY <1>1 DEF ReserveCanonical, ReserveCoin
  <2>2. row[u] = "none" /\ ~Busy(k) /\ TargetOK(u)
    BY <2>1 DEF Reserved, Free, Busy, DeliveryInv
  <2>3. \A j \in Tasks : Busy(j) => task[j].target # u
    BY <2>2 DEF DeliveryInv, TaskOK
  <2>4. /\ task'[k] = [NoTask EXCEPT !.stage = "reserved", !.target = u,
                                     !.version = preview[u].version, !.automatic = automatic]
        /\ \A j \in Tasks \ {k} : task'[j] = task[j]
    BY <2>1 DEF Reserved, TypeOK
  <2>5. row'[u] = "pending" /\ use'[u] = "SEND_RESERVED"
        /\ UNCHANGED <<told, posts, wire>>
    BY <2>1 DEF Reserved, UseIsRecorded, TypeOK, chat
  <2>6. \A v \in Target \ {u} : row'[v] = row[v] /\ use'[v] = use[v]
    BY <2>1 DEF Reserved, UseIsRecorded, TypeOK
  <2>7. /\ task'[k].stage = "reserved" /\ task'[k].target = u
        /\ task'[k].sending = FALSE /\ task'[k].verdict = "none"
    BY <2>4 DEF NoTask
  <2>8. TargetOK(u)'
    BY <2>2, <2>5 DEF TargetOK, Quiet, Paired
  <2>9. TaskOK(k)'
    BY <2>2, <2>5, <2>7 DEF TaskOK, TargetOK, Quiet, Busy
  <2> QED
    BY <1>0, <2>2, <2>3, <2>4, <2>5, <2>6, <2>7, <2>8, <2>9, TargetStep DEF Busy
<1>2. ASSUME NEW to \in Stage, NEW version \in 0..MaxVersions, Busy(k),
             task' = [task EXCEPT ![k] = [task[k] EXCEPT !.stage = to, !.version = version]],
             UNCHANGED <<rows, chat>>,
             \/ /\ task[k].stage \in {"reserved", "validated", "inspected", "cleared"}
                /\ to \in {"validated", "inspected", "cleared", "granted"}
             \/ task[k].stage = "marked" /\ to = "armed"
      PROVE  DeliveryInv'
  <2> DEFINE new == [task[k] EXCEPT !.stage = to, !.version = version]
  <2>1. /\ new \in TaskType
        /\ new.stage = to /\ new.target = t
        /\ new.sending = task[k].sending /\ new.verdict = task[k].verdict
    BY <1>0 DEF TaskType
  <2>2. task[k].verdict = "none" /\ Quiet(t)
    BY <1>t, <1>2 DEF TaskOK
  <2>3. task[k].sending = (to = "armed")
    BY <1>t, <1>0, <1>2 DEF TaskOK
  <2>4. task' = [task EXCEPT ![k] = new]
    BY <1>2
  <2> HIDE DEF new
  <2> QED
    BY <1>0, <1>2, <2>1, <2>2, <2>3, <2>4, MovesOn
<1>3. CASE Validate(k)
  <2>1. preview[t].version \in 0..MaxVersions
    BY <1>0 DEF TypeOK, PreviewRow
  <2>2. task' = [task EXCEPT ![k] = [task[k] EXCEPT !.stage = "validated",
                                                    !.version = preview[t].version]]
    BY <1>0, <1>3 DEF Validate
  <2> QED
    BY <1>2, <1>3, <2>1, <2>2 DEF Validate, Stage, Busy
<1>4. ASSUME NEW from, NEW to \in Stage, Move(k, from, to), UNCHANGED <<rows, chat>>,
             \/ /\ from \in {"reserved", "validated", "inspected", "cleared"}
                /\ to \in {"validated", "inspected", "cleared", "granted"}
             \/ from = "marked" /\ to = "armed"
      PROVE  DeliveryInv'
  <2>1. task[k].stage = from /\ Busy(k)
    BY <1>4 DEF Move, Busy
  <2>2. task[k].version \in 0..MaxVersions
    BY <1>0 DEF TaskType
  <2>3. task[k] = [task[k] EXCEPT !.version = task[k].version]
    BY <1>0 DEF TaskType
  <2>4. [task[k] EXCEPT !.stage = to] = [task[k] EXCEPT !.stage = to, !.version = task[k].version]
    BY <1>0 DEF TaskType
  <2>5. task' = [task EXCEPT ![k] = [task[k] EXCEPT !.stage = to, !.version = task[k].version]]
    BY <1>4, <2>4 DEF Move
  <2> QED
    BY <1>2, <1>4, <2>1, <2>2, <2>5
<1>5. CASE GetChat(k) \/ InspectChannel(k) \/ Revalidate(k)
  BY <1>4, <1>5 DEF GetChat, InspectChannel, Revalidate, Stage
<1>6. CASE Grant(k)
  BY <1>4, <1>6 DEF Grant, Stage
<1>7. ASSUME NEW to \in {"marked", "armed"}, MarkRow(k), Busy(k),
             task[k].stage \in {"cleared", "granted"},
             task' = [task EXCEPT ![k].stage = to, ![k].sending = TRUE]
      PROVE  DeliveryInv'
  <2>1. /\ task'[k].stage = to /\ task'[k].sending /\ task'[k].target = t
        /\ task'[k].verdict = task[k].verdict
        /\ \A j \in Tasks \ {k} : task'[j] = task[j]
    BY <1>0, <1>7 DEF TaskType, TypeOK
  <2>2. task[k].verdict = "none" /\ Quiet(t) /\ told[t] = "none"
    BY <1>t, <1>7 DEF TaskOK
  <2>3. /\ row'[t] = "sending" /\ use'[t] = "SEND_IN_FLIGHT"
        /\ UNCHANGED <<told, posts, wire>>
        /\ \A u \in Target \ {t} : row'[u] = row[u] /\ use'[u] = use[u]
    BY <1>0, <1>7 DEF MarkRow, UseMoves, TypeOK, chat
  <2>4. TargetOK(t)'
    BY <1>t, <2>2, <2>3 DEF TargetOK, Quiet, Paired
  <2>5. TaskOK(k)'
    BY <2>1, <2>2, <2>3 DEF TaskOK, Busy, Quiet
  <2> QED
    BY <1>0, <1>7, <2>1, <2>3, <2>4, <2>5, TargetStep
<1>8. CASE MarkSending(k) \/ CoinMarkSending(k)
  BY <1>7, <1>8 DEF MarkSending, CoinMarkSending, Busy
<1>9. CASE Request(k)
  <2>1. /\ task[k].stage = "armed" /\ Busy(k)
        /\ task'[k] = [task[k] EXCEPT !.stage = "waiting"]
        /\ \A j \in Tasks \ {k} : task'[j] = task[j]
    BY <1>9 DEF Request, Move, TypeOK, Busy
  <2>2. /\ task'[k].stage = "waiting" /\ task'[k].target = t
        /\ task'[k].sending = task[k].sending /\ task'[k].verdict = task[k].verdict
    BY <1>0, <2>1 DEF TaskType
  <2>3. /\ task[k].sending /\ task[k].verdict = "none" /\ Quiet(t)
        /\ told[t] = "none" /\ row[t] = "sending"
    BY <1>t, <2>1 DEF TaskOK
  <2>4. /\ wire'[t] = 1 /\ UNCHANGED <<row, use, told, posts>>
        /\ \A u \in Target \ {t} : wire'[u] = wire[u]
    BY <1>0, <1>9, <2>3 DEF Request, TypeOK, Quiet, rows
  <2>5. TargetOK(t)'
    BY <1>t, <2>3, <2>4 DEF TargetOK, Quiet
  <2>6. TaskOK(k)'
    BY <2>2, <2>3, <2>4 DEF TaskOK, Busy
  <2> QED
    BY <1>0, <2>1, <2>2, <2>4, <2>5, <2>6, TargetStep
<1>10. CASE Confirmed(k) \/ Stop(k)
  <2>1. PICK v \in {"sent", "uncertain", "failed_safe"} :
          /\ Settle(k, v)
          /\ (Confirmed(k) /\ v = "sent") \/ v = Stopped(k)
    BY <1>10 DEF Confirmed, Stop, Stopped
  <2> DEFINE new == [task[k] EXCEPT !.stage = "settling", !.verdict = v]
  <2>2. /\ new \in TaskType /\ new.target = t /\ new.sending = task[k].sending
        /\ new.stage = "settling" /\ new.verdict = v
    BY <1>0 DEF TaskType, Stage, Verdict
  <2>3. Busy(k) /\ UNCHANGED <<rows, chat>>
    BY <1>10, <1>t DEF Confirmed, Stop, Busy, TaskOK
  <2>4. task' = [task EXCEPT ![k] = new]
    BY <2>1 DEF Settle
  <2>5. v = "sent" => task[k].sending /\ posts[t] = 1
    <3>1. CASE Confirmed(k)
      <4>1. posts[t] > 0 /\ task[k].stage = "waiting"
        BY <1>0, <3>1 DEF Confirmed
      <4>2. posts[t] + wire[t] <= 1 /\ posts[t] \in Nat /\ wire[t] \in Nat
        BY <1>0, <1>t DEF TargetOK, TypeOK
      <4>3. task[k].sending
        BY <1>t, <2>3, <4>1 DEF TaskOK
      <4> QED
        BY <4>1, <4>2, <4>3
    <3>2. CASE v = Stopped(k)
      BY <3>2 DEF Stopped
    <3> QED
      BY <2>1, <3>1, <3>2
  <2>6. v = "uncertain" => task[k].sending
    BY <2>1 DEF Stopped
  <2>7. v = "failed_safe" => Quiet(t)
    BY <1>t, <2>1, <2>3 DEF Stopped, TaskOK, TargetOK
  <2> HIDE DEF new
  <2> QED
    BY <1>0, <2>1, <2>2, <2>3, <2>4, <2>5, <2>6, <2>7, MovesOn
<1>11. CASE DefinitivelyRejected(k)
  <2>1. /\ task[k].stage = "waiting" /\ Busy(k)
        /\ task'[k] = [task[k] EXCEPT !.stage = "settling", !.verdict = "failed_safe"]
        /\ \A j \in Tasks \ {k} : task'[j] = task[j]
    BY <1>11 DEF DefinitivelyRejected, Settle, TypeOK, Busy
  <2>2. /\ task'[k].stage = "settling" /\ task'[k].target = t
        /\ task'[k].sending = task[k].sending /\ task'[k].verdict = "failed_safe"
    BY <1>0, <2>1 DEF TaskType
  <2>3. posts[t] + wire[t] <= 1 /\ posts[t] \in Nat /\ wire[t] \in Nat /\ wire[t] > 0
    BY <1>0, <1>t, <1>11 DEF TargetOK, TypeOK, DefinitivelyRejected
  <2>7. posts[t] = 0 /\ wire[t] = 1
    BY <2>3
  <2>4. /\ posts[t] = 0 /\ wire'[t] = 0 /\ UNCHANGED <<row, use, told, posts>>
        /\ \A u \in Target \ {t} : wire'[u] = wire[u]
    BY <1>0, <1>11, <2>7 DEF DefinitivelyRejected, TypeOK, rows
  <2>5. TargetOK(t)'
    BY <1>t, <2>4 DEF TargetOK, Quiet
  <2>6. TaskOK(k)'
    BY <1>t, <2>1, <2>2, <2>4 DEF TaskOK, Busy, Quiet
  <2> QED
    BY <1>0, <2>1, <2>2, <2>4, <2>5, <2>6, TargetStep
<1>12. CASE Finish(k)
  <2>1. PICK v \in {"sent", "uncertain", "failed_safe"} : v = task[k].verdict
    BY <1>t, <1>0, <1>12 DEF Finish, TaskOK, TaskType, Verdict
  <2>2. Busy(k) /\ Report(k, v) /\ UNCHANGED chat
    BY <1>12, <2>1 DEF Finish, Busy
  <2>3. /\ row'[t] = v /\ told'[t] = v /\ UNCHANGED <<posts, wire>>
        /\ use'[t] = CASE v = "sent" -> "SEND_CONFIRMED" [] v = "failed_safe" -> "SEND_FAILED"
                       [] OTHER -> "SEND_UNCERTAIN"
        /\ \A u \in Target \ {t} : row'[u] = row[u] /\ use'[u] = use[u]
    BY <1>0, <1>12, <2>1 DEF Finish, Report, UseMoves, TypeOK, chat
  <2>4. v = "sent" => posts[t] = 1
    BY <1>t, <2>1, <2>2 DEF TaskOK
  <2>5. v = "failed_safe" => Quiet(t)
    BY <1>t, <2>1, <2>2 DEF TaskOK
  <2>6. TargetOK(t)'
    BY <1>t, <2>1, <2>3, <2>4, <2>5 DEF TargetOK, Quiet, Paired
  <2> QED
    BY <1>0, <2>1, <2>2, <2>3, <2>6, ReportEnds DEF Verdict
<1>13. CASE FinishFails(k)
  <2>1. PICK v \in Verdict :
          v = IF t \in Canonical \/ task[k].verdict = "sent" THEN Stopped(k) ELSE task[k].verdict
    BY <1>0 DEF Stopped, Verdict, TaskType
  <2>2. Busy(k) /\ Report(k, v) /\ UNCHANGED chat /\ UNCHANGED <<row, use, posts, wire>>
    BY <1>0, <1>13, <2>1 DEF FinishFails, Busy, chat
  <2>3. told'[t] = v
    BY <1>0, <2>2 DEF Report, TypeOK
  <2>4. v # "sent"
    BY <1>t, <1>13, <2>1 DEF Stopped, FinishFails, TaskOK
  <2>5. v = "failed_safe" => Quiet(t)
    BY <1>t, <2>1, <2>2 DEF Stopped, TaskOK, TargetOK
  <2>6. row[t] \in {"pending", "sending"}
    BY <1>t, <2>2 DEF TaskOK
  <2>7. TargetOK(t)'
    BY <1>t, <2>2, <2>3, <2>4, <2>5, <2>6 DEF TargetOK, Quiet
  <2> QED
    BY <1>0, <2>1, <2>2, <2>7, ReportEnds
<1> QED
  BY <1>1, <1>3, <1>5, <1>6, <1>8, <1>9, <1>10, <1>11, <1>12, <1>13 DEF Deliver

LEMMA NextDeliveryInv == TypeOK /\ DeliveryInv /\ [Next]_vars => DeliveryInv'
<1> SUFFICES ASSUME TypeOK, DeliveryInv, [Next]_vars
             PROVE  DeliveryInv'
  OBVIOUS
<1>1. CASE UNCHANGED <<rows, task, chat>>
  BY <1>1 DEF DeliveryInv, OneTask, TaskOK, TargetOK, Busy, Quiet, rows, chat
<1>2. ASSUME NEW t \in Target,
             SaveCanonical(t) \/ SaveCoin(t) \/ Expire(t) \/ PurgeExpired(t)
               \/ GenerationChanges(t)
      PROVE  DeliveryInv'
  BY <1>1, <1>2 DEF SaveCanonical, SaveCoin, Save, Expire, PurgeExpired, GenerationChanges
<1>3. ASSUME NEW t \in Target, Post(t)
      PROVE  DeliveryInv'
  <2>1. TargetOK(t)
    BY DEF DeliveryInv
  <2>7. posts[t] + wire[t] <= 1 /\ posts[t] \in Nat /\ wire[t] \in Nat /\ wire[t] > 0
    BY <1>3, <2>1 DEF Post, TargetOK, TypeOK
  <2>2. posts[t] = 0 /\ wire[t] = 1
    BY <2>7
  <2>3. /\ posts'[t] = 1 /\ wire'[t] = 0 /\ UNCHANGED <<row, use, told, task>>
        /\ \A u \in Target \ {t} : posts'[u] = posts[u] /\ wire'[u] = wire[u]
    BY <1>3, <2>2 DEF Post, TypeOK, rows
  <2>4. \A u \in Target : TargetOK(u)'
    BY <2>1, <2>2, <2>3 DEF DeliveryInv, TargetOK, Quiet
  <2>5. ASSUME NEW k \in Tasks
        PROVE  TaskOK(k)'
    <3>1. TaskOK(k)
      BY DEF DeliveryInv
    <3>2. task[k].target \in Target
      BY DEF TypeOK
    <3>3. CASE task[k].target = t
      BY <2>2, <2>3, <3>1, <3>3 DEF TaskOK, Busy, Quiet
    <3>4. CASE task[k].target # t
      BY <2>3, <3>1, <3>2, <3>4 DEF TaskOK, Busy, Quiet
    <3> QED
      BY <3>3, <3>4
  <2>6. OneTask'
    BY <2>3 DEF DeliveryInv, OneTask, Busy
  <2> QED
    BY <2>4, <2>5, <2>6 DEF DeliveryInv
<1>4. ASSUME NEW k \in Tasks, Deliver(k)
      PROVE  DeliveryInv'
  BY <1>4, DeliverDeliveryInv
<1>5. CASE Crash
  <2>1. \A k \in Tasks : task'[k] = NoTask
    BY <1>5 DEF Crash
  <2>2. ASSUME NEW k \in Tasks
        PROVE  ~Busy(k)' /\ TaskOK(k)'
    <3>1. task'[k].stage = "idle" /\ task'[k].verdict = "none"
      <4>1. task'[k] = NoTask
        BY <2>1
      <4>2. NoTask.stage = "idle" /\ NoTask.verdict = "none"
        BY DEF NoTask
      <4> QED
        BY <4>1, <4>2
    <3> QED
      BY <3>1 DEF Busy, TaskOK
  <2>3. UNCHANGED <<row, use, told, posts, wire>>
    BY <1>5 DEF Crash, rows, chat
  <2> QED
    BY <2>2, <2>3 DEF DeliveryInv, OneTask, TargetOK, Quiet
<1>6. CASE UNCHANGED vars
  BY <1>1, <1>6 DEF vars
<1> QED
  BY <1>2, <1>3, <1>4, <1>5, <1>6 DEF Next

LEMMA DeliveryInvAlways == Spec => [](TypeOK /\ DeliveryInv)
BY InitTypeOK, NextTypeOK, InitDeliveryInv, NextDeliveryInv, PTL DEF Spec

\* No message is requested or posted twice in a destination, for any number of
\* targets, deliveries and previews.
THEOREM AtMostOnePostHolds == Spec => []AtMostOnePost
<1>1. DeliveryInv => AtMostOnePost
  BY DEF DeliveryInv, TargetOK, AtMostOnePost
<1> QED
  BY <1>1, DeliveryInvAlways, PTL

\* Row, use and report never say what the channel contradicts, now or later.
THEOREM RowsTellTheTruthHolds == Spec => []RowsTellTheTruth
<1>1. DeliveryInv => RowsTellTheTruth
  BY DEF DeliveryInv, TargetOK, RowsTellTheTruth, Quiet, Paired
<1> QED
  BY <1>1, DeliveryInvAlways, PTL

-----------------------------------------------------------------------------
(* The budget.                                                             *)

\* Deliveries that stop, or ask for nothing, need no more of the budget.
LEMMA FewerGranted ==
  ASSUME TypeOK, BudgetInv, Granted' \subseteq Granted, UNCHANGED <<counted, dispatched>>
  PROVE  BudgetInv'
<1>1. IsFiniteSet(Granted)' /\ Cardinality(Granted') <= Cardinality(Granted)
  BY FS_Subset DEF BudgetInv
<1>2. Cardinality(Granted) \in Nat /\ Cardinality(Granted') \in Nat
  BY <1>1, FS_CardinalityType DEF BudgetInv
<1>3. dispatched \in Nat /\ counted \in Nat
  BY DEF TypeOK
<1>4. dispatched + Cardinality(Granted') <= counted
  BY <1>1, <1>2, <1>3 DEF BudgetInv
<1> QED
  BY <1>1, <1>4 DEF BudgetInv

\* A step of one delivery that leaves the others alone.
LEMMA OthersGranted ==
  ASSUME NEW k \in Tasks, \A j \in Tasks \ {k} : task'[j] = task[j]
  PROVE  Granted' \ {k} = Granted \ {k}
BY DEF Granted

LEMMA NextBudgetInv == TypeOK /\ BudgetInv /\ [Next]_vars => BudgetInv'
<1> SUFFICES ASSUME TypeOK, BudgetInv, [Next]_vars
             PROVE  BudgetInv'
  OBVIOUS
<1>1. CASE UNCHANGED <<task, counted, dispatched>>
  <2>1. Granted' = Granted
    BY <1>1 DEF Granted
  <2> QED
    BY <1>1, <2>1, FewerGranted
<1>2. ASSUME NEW t \in Target,
             SaveCanonical(t) \/ SaveCoin(t) \/ Expire(t) \/ PurgeExpired(t)
               \/ GenerationChanges(t) \/ Post(t)
      PROVE  BudgetInv'
  BY <1>1, <1>2 DEF SaveCanonical, SaveCoin, Save, Expire, PurgeExpired, GenerationChanges, Post
<1>3. ASSUME NEW k \in Tasks, Deliver(k)
      PROVE  BudgetInv'
  <2>1. ASSUME UNCHANGED <<counted, dispatched>>,
               \A j \in Tasks \ {k} : task'[j] = task[j],
               k \in Granted' => k \in Granted
        PROVE  BudgetInv'
    BY <2>1, FewerGranted, OthersGranted
  <2>2. ASSUME NEW t \in Target, NEW automatic \in BOOLEAN,
               ReserveCanonical(k, t, automatic) \/ ReserveCoin(k, t, automatic)
        PROVE  BudgetInv'
    <3>1. Reserved(k, t, automatic)
      BY <2>2 DEF ReserveCanonical, ReserveCoin
    <3>2. task'[k].stage = "reserved" /\ \A j \in Tasks \ {k} : task'[j] = task[j]
      BY <3>1 DEF Reserved, TypeOK, NoTask
    <3> QED
      BY <2>1, <3>1, <3>2 DEF Reserved, Granted
  <2>3. CASE Validate(k) \/ GetChat(k) \/ InspectChannel(k) \/ Revalidate(k)
    <3>1. task'[k].stage \in {"validated", "inspected", "cleared"}
          /\ \A j \in Tasks \ {k} : task'[j] = task[j]
      BY <2>3 DEF Validate, GetChat, InspectChannel, Revalidate, Move, TypeOK
    <3> QED
      BY <2>1, <2>3, <3>1 DEF Validate, GetChat, InspectChannel, Revalidate, Granted
  <2>4. CASE MarkSending(k)
    <3>1. task'[k].stage = "marked" /\ \A j \in Tasks \ {k} : task'[j] = task[j]
      BY <2>4 DEF MarkSending, TypeOK
    <3> QED
      BY <2>1, <2>4, <3>1 DEF MarkSending, MarkRow, Granted
  <2>5. CASE CoinMarkSending(k)
    <3>1. /\ task[k].stage = "granted" /\ task'[k].automatic = task[k].automatic
          /\ \A j \in Tasks \ {k} : task'[j] = task[j]
      BY <2>5 DEF CoinMarkSending, TypeOK
    <3> QED
      BY <2>1, <2>5, <3>1 DEF CoinMarkSending, MarkRow, Granted
  <2>6. CASE Grant(k)
    <3>1. /\ task[k].stage \in {"marked", "cleared"} /\ task'[k].stage \in {"armed", "granted"}
          /\ task'[k].automatic = task[k].automatic
          /\ \A j \in Tasks \ {k} : task'[j] = task[j]
      BY <2>6 DEF Grant, Move, TypeOK
    <3>2. CASE ~task[k].automatic
      BY <2>1, <2>6, <3>1, <3>2 DEF Grant, BeforeSendMessage, Granted
    <3>3. CASE task[k].automatic
      <4>1. counted' = counted + 1 /\ UNCHANGED dispatched
        BY <2>6, <3>3 DEF Grant, BeforeSendMessage
      <4>2. k \notin Granted /\ k \in Granted'
        BY <3>1, <3>3 DEF Granted
      <4>3. Granted' = Granted \cup {k}
        BY <3>1, <4>2, OthersGranted
      <4>4. IsFiniteSet(Granted') /\ Cardinality(Granted') = Cardinality(Granted) + 1
        BY <4>2, <4>3, FS_AddElement DEF BudgetInv
      <4>5. Cardinality(Granted) \in Nat /\ dispatched \in Nat /\ counted \in Nat
        BY FS_CardinalityType DEF BudgetInv, TypeOK
      <4> QED
        BY <4>1, <4>4, <4>5 DEF BudgetInv
    <3> QED
      BY <3>2, <3>3
  <2>7. CASE Request(k)
    <3>1. /\ task[k].stage = "armed" /\ task'[k].stage = "waiting"
          /\ \A j \in Tasks \ {k} : task'[j] = task[j]
      BY <2>7 DEF Request, Move, TypeOK
    <3>2. CASE ~task[k].automatic
      BY <2>1, <2>7, <3>1, <3>2 DEF Request, Granted
    <3>3. CASE task[k].automatic
      <4>1. dispatched' = dispatched + 1 /\ UNCHANGED counted
        BY <2>7, <3>3 DEF Request
      <4>2. k \in Granted /\ k \notin Granted'
        BY <3>1, <3>3 DEF Granted
      <4>3. Granted' = Granted \ {k}
        BY <3>1, <4>2, OthersGranted
      <4>4. IsFiniteSet(Granted') /\ Cardinality(Granted') = Cardinality(Granted) - 1
        BY <4>2, <4>3, FS_RemoveElement DEF BudgetInv
      <4>5. Cardinality(Granted) \in Nat /\ dispatched \in Nat /\ counted \in Nat
        BY FS_CardinalityType DEF BudgetInv, TypeOK
      <4> QED
        BY <4>1, <4>4, <4>5 DEF BudgetInv
    <3> QED
      BY <3>2, <3>3
  <2>8. CASE Confirmed(k) \/ DefinitivelyRejected(k) \/ Stop(k)
    <3>1. task'[k].stage = "settling" /\ \A j \in Tasks \ {k} : task'[j] = task[j]
      BY <2>8 DEF Confirmed, DefinitivelyRejected, Stop, Settle, TypeOK
    <3> QED
      BY <2>1, <2>8, <3>1 DEF Confirmed, DefinitivelyRejected, Stop, Granted
  <2>9. CASE Finish(k) \/ FinishFails(k)
    <3>1. task'[k].stage = "idle" /\ \A j \in Tasks \ {k} : task'[j] = task[j]
      BY <2>9 DEF Finish, FinishFails, Report, NoTask, TypeOK
    <3> QED
      BY <2>1, <2>9, <3>1 DEF Finish, FinishFails, Granted
  <2> QED
    BY <1>3, <2>2, <2>3, <2>4, <2>5, <2>6, <2>7, <2>8, <2>9 DEF Deliver
<1>4. CASE Crash
  <2>1. Granted' = {}
    BY <1>4 DEF Crash, NoTask, Granted
  <2> QED
    BY <1>4, <2>1, FS_EmptySet DEF Crash, BudgetInv
<1>5. CASE UNCHANGED vars
  BY <1>1, <1>5 DEF vars
<1> QED
  BY <1>2, <1>3, <1>4, <1>5 DEF Next

\* A bounded run makes no request that its budget does not cover, whatever
\* MaxSends is and however many deliveries ask at once.
THEOREM BudgetCoversRequestsHolds == Spec => []BudgetCoversRequests
<1>1. Init => BudgetInv
  <2>1. Init => Granted = {}
    BY DEF Init, NoTask, Granted
  <2> QED
    BY <2>1, FS_EmptySet DEF Init, BudgetInv
<1>2. TypeOK /\ BudgetInv => BudgetCoversRequests
  <2> SUFFICES ASSUME TypeOK, BudgetInv
               PROVE  BudgetCoversRequests
    OBVIOUS
  <2>1. Cardinality(Granted) \in Nat /\ dispatched \in Nat /\ counted \in Nat
    BY FS_CardinalityType DEF BudgetInv, TypeOK
  <2> QED
    BY <2>1 DEF BudgetInv, BudgetCoversRequests
<1> QED
  BY <1>1, <1>2, NextBudgetInv, TypeCorrect, PTL DEF Spec

-----------------------------------------------------------------------------
(* The refinement of AtMostOncePost.                                       *)

\* What the refinement mapping says of a row.
Says(t) == CASE row[t] = "sent" -> "confirmed"
             [] row[t] = "failed_safe" -> "refused"
             [] row[t] = "uncertain" -> "unknown"
             [] OTHER -> "open"

LEMMA InitMaps == Init => Outbox!AbsInit
BY DEF Init, Outbox!AbsInit

\* Steps that post nothing and settle no row.
LEMMA StutterMaps ==
  ASSUME UNCHANGED posts,
         \A t \in Target : Says(t)' = Says(t)
  PROVE  UNCHANGED Outbox!absVars
BY DEF Outbox!absVars, Says

LEMMA StepMaps == TypeOK /\ DeliveryInv /\ [Next]_vars => [Outbox!AbsNext]_(Outbox!absVars)
<1> SUFFICES ASSUME TypeOK, DeliveryInv, [Next]_vars
             PROVE  [Outbox!AbsNext]_(Outbox!absVars)
  OBVIOUS
<1>1. CASE UNCHANGED <<row, posts>>
  BY <1>1, StutterMaps DEF Says
<1>2. ASSUME NEW t \in Target,
             SaveCanonical(t) \/ SaveCoin(t) \/ Expire(t) \/ PurgeExpired(t)
               \/ GenerationChanges(t)
      PROVE  [Outbox!AbsNext]_(Outbox!absVars)
  BY <1>1, <1>2 DEF SaveCanonical, SaveCoin, Save, Expire, PurgeExpired, GenerationChanges,
                    rows, chat
<1>3. ASSUME NEW t \in Target, Post(t)
      PROVE  [Outbox!AbsNext]_(Outbox!absVars)
  <2>1. TargetOK(t) /\ wire[t] > 0 /\ wire[t] \in Nat /\ posts[t] \in Nat
    BY <1>3 DEF Post, TypeOK, DeliveryInv
  <2>2. posts[t] = 0 /\ row[t] \in {"sending", "uncertain"}
    <3>1. posts[t] = 0 /\ wire[t] = 1
      BY <2>1 DEF TargetOK
    <3>2. row[t] \in RowState
      BY DEF TypeOK
    <3> QED
      BY <2>1, <3>1, <3>2 DEF TargetOK, Quiet, RowState
  <2>3. /\ posts'[t] = 1 /\ UNCHANGED row
        /\ \A u \in Target \ {t} : posts'[u] = posts[u]
    BY <1>3, <2>2 DEF Post, TypeOK, rows
  <2>4. {u \in Target : posts[u] > 0}' = {u \in Target : posts[u] > 0} \cup {t}
    BY <2>3
  <2>5. Outbox!Appear(t)
    BY <2>2, <2>3, <2>4 DEF Outbox!Appear
  <2> QED
    BY <2>5 DEF Outbox!AbsNext
<1>4. ASSUME NEW k \in Tasks, Deliver(k)
      PROVE  [Outbox!AbsNext]_(Outbox!absVars)
  <2>1. ASSUME NEW t \in Target, NEW automatic \in BOOLEAN,
               ReserveCanonical(k, t, automatic) \/ ReserveCoin(k, t, automatic)
        PROVE  [Outbox!AbsNext]_(Outbox!absVars)
    <3>1. Reserved(k, t, automatic)
      BY <2>1 DEF ReserveCanonical, ReserveCoin
    <3>2. \A u \in Target : Says(u)' = Says(u)
      BY <3>1 DEF Reserved, Free, TypeOK, Says
    <3> QED
      BY <3>1, <3>2, StutterMaps DEF Reserved, chat
  <2>2. CASE \/ Validate(k) \/ GetChat(k) \/ InspectChannel(k) \/ Revalidate(k)
             \/ Grant(k) \/ Request(k) \/ Confirmed(k) \/ DefinitivelyRejected(k) \/ Stop(k)
             \/ FinishFails(k)
    BY <1>1, <2>2 DEF Validate, GetChat, InspectChannel, Revalidate, Grant, Request, Confirmed,
                      DefinitivelyRejected, Stop, FinishFails, rows, chat
  <2>3. CASE MarkSending(k) \/ CoinMarkSending(k)
    <3>1. MarkRow(k)
      BY <2>3 DEF MarkSending, CoinMarkSending
    <3>2. \A u \in Target : Says(u)' = Says(u)
      BY <3>1 DEF MarkRow, TypeOK, Says
    <3> QED
      BY <3>1, <3>2, StutterMaps DEF MarkRow, chat
  <2>4. CASE Finish(k)
    <3>1. PICK t \in Target : t = task[k].target
      BY DEF TypeOK
    <3>2. TaskOK(k) /\ TargetOK(t) /\ task[k].stage = "settling" /\ task[k].verdict \in Verdict
      BY <2>4 DEF DeliveryInv, Finish, TypeOK
    <3>3. PICK v \in {"sent", "failed_safe", "uncertain"} : v = task[k].verdict
      BY <3>2 DEF TaskOK, Verdict
    <3>4. /\ Says(t) = "open"
          /\ row'[t] = v /\ UNCHANGED posts
          /\ \A u \in Target \ {t} : row'[u] = row[u]
      BY <2>4, <3>1, <3>2, <3>3 DEF Finish, TypeOK, Says, chat
    <3>5. \A u \in Target \ {t} : Says(u)' = Says(u)
      BY <3>4 DEF Says
    <3>6. CASE v = "uncertain"
      <4>1. Says(t)' = "unknown"
        BY <3>4, <3>6 DEF Says
      <4>2. Outbox!GiveUp({t})
        BY <3>4, <3>5, <4>1 DEF Outbox!GiveUp, Says
      <4> QED
        BY <4>2 DEF Outbox!AbsNext
    <3>7. CASE v = "sent"
      <4>1. posts[t] = 1
        BY <3>1, <3>2, <3>3, <3>7 DEF TaskOK, Busy
      <4>2. Says(t)' = "confirmed"
        BY <3>4, <3>7 DEF Says
      <4>4. t \in {u \in Target : posts[u] > 0}
        BY <4>1
      <4>5. [u \in Target |-> Says(u)]' = [[u \in Target |-> Says(u)] EXCEPT ![t] = "confirmed"]
        BY <3>5, <4>2
      <4>3. Outbox!Decide(t, "confirmed")
        BY <3>4, <4>4, <4>5 DEF Outbox!Decide, Says
      <4> QED
        BY <4>3 DEF Outbox!AbsNext
    <3>8. CASE v = "failed_safe"
      <4>1. posts[t] = 0
        BY <3>1, <3>2, <3>3, <3>8 DEF TaskOK, Busy, Quiet
      <4>2. Says(t)' = "refused"
        BY <3>4, <3>8 DEF Says
      <4>4. t \notin {u \in Target : posts[u] > 0}
        BY <4>1
      <4>5. [u \in Target |-> Says(u)]' = [[u \in Target |-> Says(u)] EXCEPT ![t] = "refused"]
        BY <3>5, <4>2
      <4>3. Outbox!Decide(t, "refused")
        BY <3>4, <4>4, <4>5 DEF Outbox!Decide, Says
      <4> QED
        BY <4>3 DEF Outbox!AbsNext
    <3> QED
      BY <3>6, <3>7, <3>8
  <2> QED
    BY <1>4, <2>1, <2>2, <2>3, <2>4 DEF Deliver
<1>5. CASE Crash
  BY <1>1, <1>5 DEF Crash, rows, chat
<1>6. CASE UNCHANGED vars
  BY <1>1, <1>6 DEF vars, rows, chat
<1> QED
  BY <1>2, <1>3, <1>4, <1>5, <1>6 DEF Next

\* Whatever previews, deliveries and the channel do, rows and channel change
\* only as the abstract outbox allows: no verdict is revised.
THEOREM ShadowDeliveryImplementsOutbox == Spec => ImplementsAtMostOncePost
<1>1. Spec => Outbox!AbsInit /\ [][Outbox!AbsNext]_(Outbox!absVars)
  BY InitMaps, StepMaps, DeliveryInvAlways, PTL DEF Spec
<1> QED
  BY <1>1 DEF ImplementsAtMostOncePost, Outbox!AbsSpec
=============================================================================
