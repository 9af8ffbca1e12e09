--------------------- MODULE NotificationDeliveryProofs ---------------------
(***************************************************************************)
(* Proofs about NotificationDelivery for any deliveries, devices, callers, *)
(* batch, number of attempts and of crashes: types, the lease, and that it *)
(* implements DeliveryQueue wherever a call cannot outlast its lease.      *)
(***************************************************************************)
EXTENDS NotificationDelivery, TLAPS

-----------------------------------------------------------------------------
(* The inductive invariant, in named parts.                                *)

\* Deliveries whose calls are over before their lease is.
Prompt == Delivery \ Slow

\* The lease: a call past its claim has the delivery, pending and freshly claimed, to
\* itself, unless the delivery was removed under it.
Leases ==
    \A d \in Prompt :
        /\ \A c \in Caller : Holds(c, d) =>
              \/ deliveries[d].status = "removed"
              \/ deliveries[d].status = "pending" /\ deliveries[d].claim = "fresh"
        /\ \A b, c \in Caller : Holds(b, d) /\ Holds(c, d) => b = c

\* Targets are in hand while a call is sending, Hook or devices by kind of delivery.
InHand ==
    \A c \in Caller, d \in Delivery, t \in Target :
        calls[c][d].answer[t] # "none" =>
            calls[c][d].pc = "sending" /\ (t = Hook <=> d \notin Push)

\* Whatever counts as delivered was accepted.
HeardOf ==
    \A d \in Delivery :
        /\ \A e \in Device : parts[d][e].status = "delivered" => accepted[d][e] > 0
        /\ \A c \in Caller, t \in Target : calls[c][d].answer[t] = "ok" => accepted[d][t] > 0
        /\ \A c \in Caller : calls[c][d].pc = "summed" /\ calls[c][d].result = "delivered" =>
              \E t \in Target : accepted[d][t] > 0

\* A delivery is fanned out by one caller at most, when it has no parts yet.
Fans(c, d) == calls[c][d].pc = "fanning"

FanOuts ==
    /\ \A d \in Delivery : deliveries[d].status = "absent" =>
          \A e \in Device : parts[d][e].status = "absent"
    /\ \A c \in Caller, d \in Delivery : Fans(c, d) =>
          /\ c \in Operator /\ d \in Push /\ deliveries[d].status # "absent"
          /\ \A e \in Device : parts[d][e].status = "absent"
          /\ \A b \in Caller : Fans(b, d) => b = c

\* Until it is queued, and fanned out, nothing of it is in hand.
Unqueued(d) == deliveries[d].status = "absent" \/ \E c \in Caller : Fans(c, d)

NotInHandYet ==
    \A d \in Prompt : Unqueued(d) =>
        \A c \in Caller, t \in Target : calls[c][d].answer[t] = "none"

\* What is still to be tried has attempts left.
AttemptsLeft ==
    \A d \in Prompt :
        /\ deliveries[d].attempts <= MaxAttempts
        /\ deliveries[d].status = "pending" => deliveries[d].attempts < MaxAttempts
        /\ \A e \in Device :
              /\ parts[d][e].attempts <= MaxAttempts
              /\ parts[d][e].status = "pending" => parts[d][e].attempts < MaxAttempts
        /\ \A c \in Caller, t \in Target :
              calls[c][d].answer[t] # "none" => calls[c][d].tries[t] < MaxAttempts

\* A target still to be sent to has taken the message only when its answer was lost.
ToSend(d, t) == \/ Unqueued(d)
                \/ t \in Device /\ parts[d][t].status = "pending"
                \/ t = Hook /\ d \notin Push /\ deliveries[d].status = "pending"

Owed(d, t) == accepted[d][t] <= missed[d][t]

Repeats ==
    \A d \in Prompt, t \in Target :
        /\ accepted[d][t] <= 1 + missed[d][t]
        /\ \A c \in Caller : calls[c][d].answer[t] \notin {"none", "ok"} => Owed(d, t)
        /\ ToSend(d, t) /\ (\A c \in Caller : calls[c][d].answer[t] # "ok") => Owed(d, t)

\* A settled summary saw every part settled, and no part is to come.
AllSettled(d) == /\ \A e \in Device : parts[d][e].status # "pending"
                 /\ \A c \in Caller : ~Fans(c, d)

SummaryKept(d) ==
    /\ deliveries[d].status \in {"delivered", "failed"} => AllSettled(d)
    /\ \A c \in Caller : calls[c][d].pc = "summed" =>
          /\ \A b \in Caller : ~Fans(b, d)
          /\ calls[c][d].result # "pending" => AllSettled(d)

Summaries == \A d \in Push \ (Slow \cup hurried) : SummaryKept(d)

-----------------------------------------------------------------------------
(* Types.                                                                  *)

\* The calls a caller can be given.
LEMMA CallTypes ==
    /\ Idle \in Call
    /\ \A pc \in {"fanning", "called", "claimed", "sending", "summed"} :
          /\ At(pc) \in Call
          /\ At(pc).pc = pc
          /\ At(pc).answer = [t \in Target |-> "none"]
          /\ At(pc).tries = [t \in Target |-> 0]
<1>1. 0 \in Nat
  BY DeliveryAssumption
<1>2. Idle \in Call
  BY <1>1 DEF Idle, Call, Answer
<1>3. QED
  BY <1>1, <1>2 DEF At, Idle, Call, Answer

\* What giving one caller a call for one delivery does.
LEMMA BecomesEffect ==
    ASSUME TypeOK, NEW c \in Caller, NEW d \in Delivery, NEW call, Becomes(c, d, call)
    PROVE  /\ call \in Call => calls' \in [Caller -> [Delivery -> Call]]
           /\ calls'[c][d] = call
           /\ \A b \in Caller, x \in Delivery : b # c \/ x # d => calls'[b][x] = calls[b][x]
BY DEF TypeOK, Becomes

OtherCalls(c, d) == \A b \in Caller, x \in Delivery : b # c \/ x # d => calls'[b][x] = calls[b][x]

\* Target t of the call gets an answer.
Answers(c, d, t, answer) ==
    /\ calls'[c][d].pc = calls[c][d].pc
    /\ calls'[c][d].result = calls[c][d].result
    /\ calls'[c][d].tries = calls[c][d].tries
    /\ calls'[c][d].answer[t] = answer
    /\ \A u \in Target : u # t => calls'[c][d].answer[u] = calls[c][d].answer[u]
    /\ OtherCalls(c, d)

\* What an answer of one target does.
LEMMA AnswerEffect ==
    ASSUME TypeOK, NEW c \in Caller, NEW d \in Delivery, NEW t \in Target,
           NEW answer \in Answer,
           calls' = [calls EXCEPT ![c][d].answer[t] = answer]
    PROVE  calls' \in [Caller -> [Delivery -> Call]] /\ Answers(c, d, t, answer)
<1> DEFINE call == [calls[c][d] EXCEPT !.answer[t] = answer]
<1>1. calls[c][d] \in Call /\ calls \in [Caller -> [Delivery -> Call]]
  BY DEF TypeOK
<1>2. /\ call \in Call
      /\ call.pc = calls[c][d].pc /\ call.tries = calls[c][d].tries
      /\ call.result = calls[c][d].result
      /\ call.answer[t] = answer
      /\ \A u \in Target : u # t => call.answer[u] = calls[c][d].answer[u]
  BY <1>1 DEF Call
<1>3. calls' = [calls EXCEPT ![c] = [calls[c] EXCEPT ![d] = call]]
  BY <1>1
<1> HIDE DEF call
<1>4. /\ calls' \in [Caller -> [Delivery -> Call]]
      /\ calls'[c][d] = call
      /\ \A b \in Caller, x \in Delivery : b # c \/ x # d => calls'[b][x] = calls[b][x]
  BY <1>1, <1>2, <1>3
<1>5. /\ calls'[c][d].pc = calls[c][d].pc
      /\ calls'[c][d].tries = calls[c][d].tries
      /\ calls'[c][d].result = calls[c][d].result
      /\ calls'[c][d].answer[t] = answer
      /\ \A u \in Target : u # t => calls'[c][d].answer[u] = calls[c][d].answer[u]
  <2>1. calls'[c][d] = call
    BY <1>4
  <2>2. calls'[c][d].pc = calls[c][d].pc /\ calls'[c][d].tries = calls[c][d].tries
    BY <2>1, <1>2, Zenon
  <2>3. calls'[c][d].result = calls[c][d].result /\ calls'[c][d].answer[t] = answer
    BY <2>1, <1>2, Zenon
  <2>4. ASSUME NEW u \in Target, u # t
        PROVE  calls'[c][d].answer[u] = calls[c][d].answer[u]
    BY <2>1, <2>4, <1>2, Zenon
  <2>5. QED
    BY <2>2, <2>3, <2>4
<1>6. OtherCalls(c, d)
  BY <1>4 DEF OtherCalls
<1>7. QED
  BY <1>4, <1>5, <1>6, Zenon DEF Answers

LEMMA RowTypes ==
    /\ NoDelivery \in DeliveryRow /\ NewDelivery \in DeliveryRow
    /\ [NoDelivery EXCEPT !.status = "removed"] \in DeliveryRow
    /\ NoPart \in PartRow /\ NewPart \in PartRow
<1>1. 0 \in Nat
  BY DeliveryAssumption
<1>2. QED
  BY <1>1 DEF NoDelivery, NewDelivery, DeliveryRow, NoPart, NewPart, PartRow

LEMMA FannedOutType == \A d \in Delivery : FannedOut(d) \in [Device -> PartRow]
BY RowTypes DEF FannedOut

LEMMA TypeInit == Init => TypeOK
<1>1. 0 \in Nat /\ 0 \in 0 .. MaxCrashes
  BY DeliveryAssumption
<1>2. QED
  BY <1>1, CallTypes, RowTypes DEF Init, TypeOK

LEMMA TypeStep == TypeOK /\ [Next]_vars => TypeOK'
<1> SUFFICES ASSUME TypeOK, [Next]_vars PROVE TypeOK'
  OBVIOUS
<1>0. MaxAttempts \in Nat \ {0} /\ Push \subseteq Delivery /\ Dispatcher \subseteq Caller /\ Operator \subseteq Caller
  BY DeliveryAssumption DEF Caller
<1>1. ASSUME NEW d \in Delivery, Enqueue(d)
      PROVE  TypeOK'
  BY <1>1, <1>0, RowTypes, FannedOutType DEF TypeOK, Enqueue, rows, targets, history, Queue
<1>2. ASSUME NEW d \in Delivery, ExpireLease(d)
      PROVE  TypeOK'
  BY <1>2, <1>0 DEF TypeOK, ExpireLease, rows, targets, history, DeliveryRow
<1>3. ASSUME NEW d \in Delivery, Elapse(d)
      PROVE  TypeOK'
  BY <1>3, <1>0 DEF TypeOK, Elapse, rows, targets, history, DeliveryRow
<1>4. ASSUME NEW d \in Delivery, Remove(d)
      PROVE  TypeOK'
  BY <1>4, <1>0, RowTypes, FannedOutType DEF TypeOK, Remove, rows, targets, history, DeliveryRow
<1>5. ASSUME NEW d \in Delivery, NEW e \in Device, ElapsePart(d, e)
      PROVE  TypeOK'
  <2>1. parts' \in [Delivery -> [Device -> PartRow]]
    <3>1. parts[d] \in [Device -> PartRow] /\ parts[d][e] \in PartRow
      BY DEF TypeOK
    <3>2. [parts[d][e] EXCEPT !.due = TRUE] \in PartRow
      BY <3>1 DEF PartRow
    <3>3. QED
      BY <1>5, <3>1, <3>2 DEF ElapsePart, TypeOK
  <2>2. QED
    BY <1>5, <2>1 DEF ElapsePart, TypeOK, targets, history
<1>6. ASSUME NEW o \in Operator, NEW d \in Delivery, Test(o, d)
      PROVE  TypeOK'
  BY <1>6, <1>0, RowTypes, FannedOutType, CallTypes, BecomesEffect DEF TypeOK, Test, rows,
     targets, history, Queue
<1>7. ASSUME NEW o \in Operator, NEW d \in Delivery, FanOut(o, d)
      PROVE  TypeOK'
  BY <1>7, <1>0, RowTypes, FannedOutType, CallTypes, BecomesEffect DEF TypeOK, FanOut, rows,
     targets, history
<1>8. ASSUME NEW o \in Operator, NEW d \in Delivery, FanOutFails(o, d)
      PROVE  TypeOK'
  BY <1>8, <1>0, CallTypes, BecomesEffect DEF TypeOK, FanOutFails, rows, targets, history
<1>9. ASSUME NEW o \in Operator, NEW old \in Delivery, NEW d \in Delivery, Retry(o, old, d)
      PROVE  TypeOK'
  BY <1>9, <1>0, RowTypes, FannedOutType, CallTypes, BecomesEffect DEF TypeOK, Retry, rows,
     targets, history
<1>10. ASSUME NEW p \in Dispatcher, Dispatch(p)
      PROVE  TypeOK'
  BY <1>10, <1>0, CallTypes DEF TypeOK, Dispatch, rows, targets, history
<1>11. ASSUME NEW p \in Dispatcher, EndPass(p)
      PROVE  TypeOK'
  BY <1>11, <1>0 DEF TypeOK, EndPass, rows, targets, history
<1>12. ASSUME NEW c \in Caller, NEW d \in Delivery, Claim(c, d)
      PROVE  TypeOK'
  <2>1. deliveries' \in [Delivery -> DeliveryRow]
    BY <1>12 DEF Claim, TypeOK, DeliveryRow
  <2>2. calls' \in [Caller -> [Delivery -> Call]]
    BY <1>12, CallTypes, BecomesEffect DEF Claim
  <2>3. QED
    BY <1>12, <2>1, <2>2 DEF Claim, TypeOK, targets, history
<1>13. ASSUME NEW c \in Caller, NEW d \in Delivery, Skip(c, d)
      PROVE  TypeOK'
  BY <1>13, <1>0, CallTypes, BecomesEffect DEF TypeOK, Skip, rows, targets, history
<1>14. ASSUME NEW c \in Caller, NEW d \in Delivery, ReadFails(c, d)
      PROVE  TypeOK'
  BY <1>14, <1>0, CallTypes, BecomesEffect DEF TypeOK, ReadFails, rows, targets, history
<1>15. ASSUME NEW c \in Caller, NEW d \in Delivery, ReadHook(c, d)
      PROVE  TypeOK'
  <2>1. [At("sending") EXCEPT !.tries[Hook] = deliveries[d].attempts, !.answer[Hook] = "waiting"]
            \in Call
    <3>1. deliveries[d].attempts \in Nat
      BY DEF TypeOK, DeliveryRow
    <3>2. QED
      BY <3>1, CallTypes DEF Call, Answer
  <2>2. calls' \in [Caller -> [Delivery -> Call]]
    BY <1>15, <2>1, BecomesEffect DEF ReadHook
  <2>3. QED
    BY <1>15, <2>2 DEF ReadHook, TypeOK, rows, targets, history
<1>16. ASSUME NEW c \in Caller, NEW d \in Delivery, ReadParts(c, d)
      PROVE  TypeOK'
  <2> DEFINE tries  == [t \in Target |-> IF t \in OpenParts(d) THEN parts[d][t].attempts ELSE 0]
             answer == [t \in Target |-> IF t \in OpenParts(d) THEN "waiting" ELSE "none"]
             kicked == [x \in Device |-> IF x \in PendingParts(d) \ members
                           THEN [parts[d][x] EXCEPT !.status = "failed"] ELSE parts[d][x]]
  <2>1. \A x \in Device : parts[d][x] \in PartRow
    BY DEF TypeOK
  <2>2. tries \in [Target -> Nat]
    <3>1. OpenParts(d) \subseteq Device
      BY DEF OpenParts, PendingParts
    <3>2. 0 \in Nat
      BY <1>0
    <3>3. \A x \in Device : parts[d][x].attempts \in Nat
      BY <2>1 DEF PartRow
    <3>4. QED
      BY <3>1, <3>2, <3>3
  <2>3. answer \in [Target -> Answer]
    BY DEF Answer
  <2>4. [At("sending") EXCEPT !.tries = tries, !.answer = answer] \in Call
    BY <2>2, <2>3, CallTypes DEF Call
  <2>5. calls' \in [Caller -> [Delivery -> Call]]
    BY <1>16, <2>4, BecomesEffect DEF ReadParts
  <2>6. kicked \in [Device -> PartRow]
    <3>1. \A x \in Device : [parts[d][x] EXCEPT !.status = "failed"] \in PartRow
      BY <2>1 DEF PartRow
    <3>2. QED
      BY <2>1, <3>1
  <2>7. parts' \in [Delivery -> [Device -> PartRow]]
    BY <1>16, <2>6 DEF ReadParts, TypeOK
  <2>8. QED
    BY <1>16, <2>5, <2>7 DEF ReadParts, TypeOK, targets, history
<1>17. ASSUME NEW c \in Caller, NEW d \in Delivery, NEW t \in Target,
              NEW answer \in {"ok", "retry", "refused", "invalid"}, NEW taken \in BOOLEAN,
              Send(c, d, t, answer, taken)
      PROVE  TypeOK'
  <2>1. calls' \in [Caller -> [Delivery -> Call]]
    BY <1>17, AnswerEffect DEF Send, Answer
  <2>2. accepted[d][t] \in Nat /\ missed[d][t] \in Nat
    BY DEF TypeOK
  <2>3. /\ accepted' \in [Delivery -> [Target -> Nat]]
        /\ missed' \in [Delivery -> [Target -> Nat]]
    BY <1>17, <2>2 DEF Send, TypeOK
  <2>4. QED
    BY <1>17, <2>1, <2>3 DEF Send, TypeOK, rows, targets
<1>18. ASSUME NEW c \in Caller, NEW d \in Delivery, NEW e \in Device, Invalidate(c, d, e)
      PROVE  TypeOK'
  <2>1. calls' \in [Caller -> [Delivery -> Call]]
    BY <1>18, AnswerEffect DEF Invalidate, Answer, Target
  <2>2. QED
    BY <1>18, <2>1 DEF Invalidate, TypeOK, rows, history
<1>19. ASSUME NEW c \in Caller, NEW d \in Delivery, NEW e \in Device, NotePart(c, d, e)
      PROVE  TypeOK'
  <2> DEFINE call == calls[c][d]
             row  == [status |-> AfterAnswer(call.tries[e], call.answer[e]),
                      attempts |-> call.tries[e] + 1,
                      due |-> parts[d][e].due /\ call.answer[e] = "ok"]
  <2>1. calls' \in [Caller -> [Delivery -> Call]]
    BY <1>19, AnswerEffect DEF NotePart, Answer, Target
  <2>2. call \in Call /\ call.answer[e] # "none" /\ e \in Target
    BY <1>19 DEF NotePart, Answered, TypeOK, Target
  <2>3. call.tries[e] + 1 \in Nat
    BY <2>2 DEF Call
  <2>4. row \in PartRow
    <3>1. AfterAnswer(call.tries[e], call.answer[e]) \in {"pending", "delivered", "failed"}
      BY DEF AfterAnswer
    <3>2. QED
      BY <2>3, <3>1 DEF PartRow
  <2>5. parts' = parts \/ parts' = [parts EXCEPT ![d][e] = row]
    BY <1>19 DEF NotePart, TypeOK
  <2> HIDE DEF row
  <2>6. parts' \in [Delivery -> [Device -> PartRow]]
    <3>1. [parts[d] EXCEPT ![e] = row] \in [Device -> PartRow]
      BY <2>4 DEF TypeOK
    <3>2. parts' = parts \/ parts' = [parts EXCEPT ![d] = [parts[d] EXCEPT ![e] = row]]
      BY <2>5
    <3>3. QED
      BY <3>1, <3>2 DEF TypeOK
  <2>7. QED
    BY <1>19, <2>1, <2>6 DEF NotePart, TypeOK, targets, history
<1>20. ASSUME NEW c \in Caller, NEW d \in Delivery, Summarise(c, d)
      PROVE  TypeOK'
  <2> DEFINE due == PendingParts(d) = {} \/ \E e \in PendingParts(d) : parts[d][e].due
             call == [At("summed") EXCEPT !.result = Summary(d), !.due = due]
  <2>1. Summary(d) \in {"pending", "delivered", "failed"} /\ due \in BOOLEAN
    BY DEF Summary
  <2> HIDE DEF due
  <2>2. call \in Call
    BY <2>1, CallTypes DEF Call
  <2>3. calls' \in [Caller -> [Delivery -> Call]]
    BY <1>20, <2>2, BecomesEffect DEF Summarise, due
  <2>4. QED
    BY <1>20, <2>3 DEF Summarise, TypeOK, rows, targets
<1>21. ASSUME NEW c \in Caller, NEW d \in Delivery, FinishPush(c, d)
      PROVE  TypeOK'
  <2> DEFINE row == [deliveries[d] EXCEPT !.status = calls[c][d].result,
                                         !.due = calls[c][d].due, !.claim = "none"]
  <2>1. row \in DeliveryRow
    <3>1. deliveries[d] \in DeliveryRow /\ calls[c][d] \in Call
      BY DEF TypeOK
    <3>2. QED
      BY <3>1 DEF DeliveryRow, Call
  <2>2. deliveries' = deliveries \/ deliveries' = [deliveries EXCEPT ![d] = row]
    BY <1>21 DEF FinishPush, Release
  <2> HIDE DEF row
  <2>3. deliveries' \in [Delivery -> DeliveryRow]
    BY <2>1, <2>2 DEF TypeOK
  <2>4. calls' \in [Caller -> [Delivery -> Call]]
    BY <1>21, CallTypes, BecomesEffect DEF FinishPush
  <2>5. QED
    BY <1>21, <2>3, <2>4 DEF FinishPush, TypeOK, targets, history
<1>22. ASSUME NEW c \in Caller, NEW d \in Delivery, FinishHook(c, d)
      PROVE  TypeOK'
  <2> DEFINE call == calls[c][d]
             row  == [status |-> AfterAnswer(call.tries[Hook], call.answer[Hook]),
                      attempts |-> call.tries[Hook] + 1,
                      due |-> deliveries[d].due /\ call.answer[Hook] = "ok",
                      claim |-> "none"]
  <2>1. row \in DeliveryRow
    <3>1. deliveries[d] \in DeliveryRow /\ call \in Call
      BY DEF TypeOK
    <3>2. call.tries[Hook] + 1 \in Nat
      BY <3>1 DEF Call, Target
    <3>3. AfterAnswer(call.tries[Hook], call.answer[Hook]) \in {"pending", "delivered", "failed"}
      BY DEF AfterAnswer
    <3>4. QED
      BY <3>1, <3>2, <3>3 DEF DeliveryRow
  <2>2. deliveries' = deliveries \/ deliveries' = [deliveries EXCEPT ![d] = row]
    BY <1>22 DEF FinishHook, Release
  <2> HIDE DEF row
  <2>3. deliveries' \in [Delivery -> DeliveryRow]
    BY <2>1, <2>2 DEF TypeOK
  <2>4. calls' \in [Caller -> [Delivery -> Call]]
    BY <1>22, CallTypes, BecomesEffect DEF FinishHook
  <2>5. QED
    BY <1>22, <2>3, <2>4 DEF FinishHook, TypeOK, targets, history
<1>23. ASSUME NEW e \in Device, RemoveDevice(e)
      PROVE  TypeOK'
  BY <1>23, <1>0, RowTypes, FannedOutType DEF TypeOK, RemoveDevice, rows, targets, history
<1>24. ASSUME NEW e \in Device, Register(e)
      PROVE  TypeOK'
  BY <1>24, <1>0 DEF TypeOK, Register, rows, targets, history
<1>25. ASSUME NEW e \in Device, LeaveTeam(e)
      PROVE  TypeOK'
  BY <1>25, <1>0 DEF TypeOK, LeaveTeam, rows, targets, history
<1>26. ASSUME NEW c \in Caller, Crash(c)
      PROVE  TypeOK'
  <2>1. calls' \in [Caller -> [Delivery -> Call]]
    BY <1>26, CallTypes DEF Crash, TypeOK
  <2>2. missed' \in [Delivery -> [Target -> Nat]]
    <3>1. \A d \in Delivery, t \in Target : missed[d][t] \in Nat /\ missed[d][t] + 1 \in Nat
      BY DEF TypeOK
    <3>2. QED
      BY <1>26, <3>1 DEF Crash
  <2>3. crashes' \in 0 .. MaxCrashes
    BY <1>26, DeliveryAssumption DEF Crash, TypeOK
  <2>4. QED
    BY <1>26, <2>1, <2>2, <2>3 DEF Crash, TypeOK, rows, targets
<1>27. CASE UNCHANGED vars
  BY <1>27, <1>0 DEF TypeOK, vars, rows, targets, history
<1>28. QED
  BY <1>1, <1>2, <1>3, <1>4, <1>5, <1>6, <1>7, <1>8, <1>9, <1>10, <1>11, <1>12, <1>13, <1>14,
     <1>15, <1>16, <1>17, <1>18, <1>19, <1>20, <1>21, <1>22, <1>23, <1>24, <1>25, <1>26,
     <1>27 DEF Next, Work

\* Every state is well typed, slow targets or not.
THEOREM TypeCorrect == Spec => []TypeOK
<1>1. QED
  BY TypeInit, TypeStep, PTL DEF Spec

-----------------------------------------------------------------------------
(* What each action does, row by row and call by call: the lemmas below read  *)
(* these effects instead of the actions.                                      *)

OtherRows(d) == \A x \in Delivery : x # d => deliveries'[x] = deliveries[x] /\ parts'[x] = parts[x]

SameButClaim(d) == /\ deliveries'[d].status = deliveries[d].status
                   /\ deliveries'[d].attempts = deliveries[d].attempts

\* The call of c for d comes to pc, with no target in hand.
Sets(c, d, pc) ==
    /\ calls'[c][d].pc = pc
    /\ \A t \in Target : calls'[c][d].answer[t] = "none"
    /\ OtherCalls(c, d)

LEMMA SetsAt ==
    ASSUME TypeOK, NEW c \in Caller, NEW d \in Delivery,
           NEW pc \in {"fanning", "called", "claimed"}, Becomes(c, d, At(pc))
    PROVE  Sets(c, d, pc)
BY BecomesEffect, CallTypes DEF Sets, OtherCalls

LEMMA SetsIdle ==
    ASSUME TypeOK, NEW c \in Caller, NEW d \in Delivery, Becomes(c, d, Idle)
    PROVE  Sets(c, d, "idle")
<1>1. calls'[c][d] = Idle
  BY BecomesEffect
<1>2. OtherCalls(c, d)
  BY BecomesEffect DEF OtherCalls
<1>3. QED
  BY <1>1, <1>2 DEF Sets, Idle

LEMMA EnqueueEffect ==
    ASSUME TypeOK, NEW d \in Delivery, Enqueue(d)
    PROVE  /\ deliveries[d].status = "absent"
           /\ deliveries'[d].status = "pending"
           /\ deliveries'[d].attempts = 0
           /\ deliveries'[d].claim = "none"
           /\ \A e \in Device : parts'[d][e].status \in {"absent", "pending"} /\ parts'[d][e].attempts = 0
           /\ OtherRows(d)
           /\ UNCHANGED calls
           /\ UNCHANGED history
BY DEF Enqueue, TypeOK, rows, targets, history, OtherRows, Queue, FannedOut, NewPart, NoPart,
   NewDelivery

LEMMA ExpireLeaseEffect ==
    ASSUME TypeOK, NEW d \in Delivery, ExpireLease(d)
    PROVE  /\ \A c \in Caller : Holds(c, d) => d \in Slow
           /\ deliveries[d].claim = "fresh"
           /\ deliveries'[d].claim = "stale"
           /\ SameButClaim(d)
           /\ OtherRows(d)
           /\ UNCHANGED parts
           /\ UNCHANGED calls
           /\ UNCHANGED history
BY DEF ExpireLease, TypeOK, rows, targets, history, OtherRows, DeliveryRow, SameButClaim

LEMMA ElapseEffect ==
    ASSUME TypeOK, NEW d \in Delivery, Elapse(d)
    PROVE  /\ deliveries'[d].claim = deliveries[d].claim
           /\ SameButClaim(d)
           /\ OtherRows(d)
           /\ UNCHANGED parts
           /\ UNCHANGED calls
           /\ UNCHANGED history
BY DEF Elapse, TypeOK, rows, targets, history, OtherRows, DeliveryRow, SameButClaim

LEMMA RemoveEffect ==
    ASSUME TypeOK, NEW d \in Delivery, Remove(d)
    PROVE  /\ deliveries[d].status # "absent"
           /\ deliveries'[d].status = "removed"
           /\ deliveries'[d].attempts = 0
           /\ \A e \in Device : parts'[d][e].status = "absent" /\ parts'[d][e].attempts = 0
           /\ OtherRows(d)
           /\ UNCHANGED calls
           /\ UNCHANGED history
BY DEF Remove, TypeOK, rows, targets, history, OtherRows, NoDelivery, NoPart

LEMMA ElapsePartEffect ==
    ASSUME TypeOK, NEW d \in Delivery, NEW e \in Device, ElapsePart(d, e)
    PROVE  /\ UNCHANGED deliveries
           /\ \A x \in Delivery, f \in Device : /\ parts'[x][f].status = parts[x][f].status
                                              /\ parts'[x][f].attempts = parts[x][f].attempts
           /\ UNCHANGED calls
           /\ UNCHANGED history
<1>1. parts[d] \in [Device -> PartRow] /\ parts[d][e] \in PartRow
  BY DEF TypeOK
<1> DEFINE row == [parts[d][e] EXCEPT !.due = TRUE]
<1>2. row.status = parts[d][e].status /\ row.attempts = parts[d][e].attempts
  BY <1>1 DEF PartRow
<1>3. parts' = [parts EXCEPT ![d] = [parts[d] EXCEPT ![e] = row]]
  BY DEF ElapsePart
<1> HIDE DEF row
<1>4. \A x \in Delivery, f \in Device : parts'[x][f] = IF x = d /\ f = e THEN row ELSE parts[x][f]
  BY <1>1, <1>3 DEF TypeOK
<1>5. QED
  BY <1>2, <1>4 DEF ElapsePart

LEMMA TestEffect ==
    ASSUME TypeOK, NEW o \in Operator, NEW d \in Delivery, Test(o, d)
    PROVE  /\ deliveries[d].status = "absent"
           /\ deliveries'[d].status = "pending"
           /\ deliveries'[d].attempts = 0
           /\ deliveries'[d].claim = "none"
           /\ \A e \in Device : parts'[d][e].status \in {"absent", "pending"} /\ parts'[d][e].attempts = 0
           /\ OtherRows(d)
           /\ calls[o][d].pc = "idle"
           /\ Sets(o, d, "called")
           /\ UNCHANGED history
BY SetsAt DEF Test, TypeOK, rows, targets, history, OtherRows, Queue, Caller, Quiet, Idle,
   FannedOut, NewPart, NoPart, NewDelivery

LEMMA FanOutEffect ==
    ASSUME TypeOK, NEW o \in Operator, NEW d \in Delivery, FanOut(o, d)
    PROVE  /\ calls[o][d].pc = "fanning"
           /\ deliveries[d].status # "removed"
           /\ UNCHANGED deliveries
           /\ \A e \in Device : parts'[d][e].status \in {"absent", "pending"} /\ parts'[d][e].attempts = 0
           /\ OtherRows(d)
           /\ Sets(o, d, "called")
           /\ UNCHANGED history
BY SetsAt DEF FanOut, TypeOK, rows, targets, history, OtherRows, Caller, FannedOut, NewPart,
   NoPart

LEMMA FanOutFailsEffect ==
    ASSUME TypeOK, NEW o \in Operator, NEW d \in Delivery, FanOutFails(o, d)
    PROVE  /\ calls[o][d].pc = "fanning"
           /\ deliveries[d].status = "removed"
           /\ UNCHANGED rows
           /\ Sets(o, d, "idle")
           /\ UNCHANGED history
BY SetsIdle DEF FanOutFails, TypeOK, rows, targets, history, OtherRows, Caller

LEMMA RetryEffect ==
    ASSUME TypeOK, NEW o \in Operator, NEW old \in Delivery, NEW d \in Delivery,
           Retry(o, old, d)
    PROVE  /\ deliveries[d].status = "absent"
           /\ deliveries'[d].status = "pending"
           /\ deliveries'[d].attempts = 0
           /\ deliveries'[d].claim = "none"
           /\ OtherRows(d)
           /\ UNCHANGED parts
           /\ calls[o][d].pc = "idle"
           /\ d \in Push => Sets(o, d, "fanning")
           /\ d \notin Push => Sets(o, d, "called")
           /\ UNCHANGED history
BY SetsAt DEF Retry, TypeOK, rows, targets, history, OtherRows, Caller, Quiet, Idle, NewDelivery

LEMMA DispatchEffect ==
    ASSUME TypeOK, NEW p \in Dispatcher, Dispatch(p)
    PROVE  /\ UNCHANGED rows
           /\ UNCHANGED history
           /\ \A c \in Caller, d \in Delivery :
              \/ calls'[c][d] = calls[c][d]
              \/ calls[c][d].pc = "idle" /\ calls'[c][d] = At("called")
<1>1. PICK listed \in SUBSET Due :
        calls' = [calls EXCEPT ![p] = [d \in Delivery |->
            IF d \in listed /\ calls[p][d] = Idle THEN At("called") ELSE calls[p][d]]]
  BY DEF Dispatch
<1>2. p \in Caller /\ calls \in [Caller -> [Delivery -> Call]]
  BY DEF Caller, TypeOK
<1>3. \A c \in Caller, d \in Delivery :
        calls'[c][d] = IF c = p /\ d \in listed /\ calls[p][d] = Idle
                       THEN At("called") ELSE calls[c][d]
  BY <1>1, <1>2
<1>4. Idle.pc = "idle"
  BY DEF Idle
<1>5. QED
  BY <1>3, <1>4 DEF Dispatch, history

LEMMA EndPassEffect ==
    ASSUME TypeOK, NEW p \in Dispatcher, EndPass(p)
    PROVE  /\ UNCHANGED rows
           /\ UNCHANGED history
           /\ UNCHANGED calls
BY DEF EndPass, TypeOK, rows, targets, history, OtherRows

LEMMA ClaimEffect ==
    ASSUME TypeOK, NEW c \in Caller, NEW d \in Delivery, Claim(c, d)
    PROVE  /\ calls[c][d].pc = "called"
           /\ deliveries[d].status = "pending"
           /\ deliveries[d].claim # "fresh"
           /\ deliveries'[d].status = "pending"
           /\ deliveries'[d].claim = "fresh"
           /\ deliveries'[d].attempts = deliveries[d].attempts
           /\ OtherRows(d)
           /\ UNCHANGED parts
           /\ Sets(c, d, "claimed")
           /\ UNCHANGED history
BY SetsAt DEF Claim, TypeOK, rows, targets, history, OtherRows, Claimable, Due, DeliveryRow

LEMMA SkipEffect ==
    ASSUME TypeOK, NEW c \in Caller, NEW d \in Delivery, Skip(c, d)
    PROVE  /\ calls[c][d].pc = "called"
           /\ UNCHANGED rows
           /\ Sets(c, d, "idle")
           /\ UNCHANGED history
BY SetsIdle DEF Skip, TypeOK, rows, targets, history, OtherRows

LEMMA ReadFailsEffect ==
    ASSUME TypeOK, NEW c \in Caller, NEW d \in Delivery, ReadFails(c, d)
    PROVE  /\ calls[c][d].pc = "claimed"
           /\ deliveries[d].status = "removed"
           /\ UNCHANGED rows
           /\ Sets(c, d, "idle")
           /\ UNCHANGED history
BY SetsIdle DEF ReadFails, TypeOK, rows, targets, history, OtherRows

LEMMA ReadHookEffect ==
    ASSUME TypeOK, NEW c \in Caller, NEW d \in Delivery, ReadHook(c, d)
    PROVE  /\ calls[c][d].pc = "claimed"
           /\ d \notin Push
           /\ deliveries[d].status # "removed"
           /\ UNCHANGED rows
           /\ calls'[c][d].pc = "sending"
           /\ calls'[c][d].answer[Hook] = "waiting"
           /\ calls'[c][d].tries[Hook] = deliveries[d].attempts
           /\ \A t \in Device : calls'[c][d].answer[t] = "none"
           /\ OtherCalls(c, d)
           /\ UNCHANGED history
<1> DEFINE call == [At("sending") EXCEPT !.tries[Hook] = deliveries[d].attempts, !.answer[Hook] = "waiting"]
<1>1. Becomes(c, d, call)
  BY DEF ReadHook
<1>2. At("sending") \in Call /\ At("sending").pc = "sending" /\ At("sending").answer = [t \in Target |-> "none"]
  BY CallTypes
<1>3. /\ call.pc = "sending" /\ call.answer[Hook] = "waiting"
      /\ call.tries[Hook] = deliveries[d].attempts
      /\ \A t \in Device : call.answer[t] = "none"
  BY <1>2, DeliveryAssumption DEF Call, Target
<1> HIDE DEF call
<1>4. calls'[c][d] = call /\ OtherCalls(c, d)
  BY <1>1, BecomesEffect DEF OtherCalls
<1>5. QED
  BY <1>3, <1>4 DEF ReadHook

LEMMA ReadPartsEffect ==
    ASSUME TypeOK, NEW c \in Caller, NEW d \in Delivery, ReadParts(c, d)
    PROVE  /\ calls[c][d].pc = "claimed"
           /\ d \in Push
           /\ deliveries[d].status # "removed"
           /\ UNCHANGED deliveries
           /\ \A e \in Device : \/ parts'[d][e] = parts[d][e]
                              \/ /\ parts'[d][e].status = "failed"
                                 /\ parts'[d][e].attempts = parts[d][e].attempts
                                 /\ parts[d][e].status = "pending"
                                 /\ calls'[c][d].answer[e] = "none"
           /\ OtherRows(d)
           /\ calls'[c][d].pc = "sending"
           /\ calls'[c][d].answer[Hook] = "none"
           /\ \A e \in Device : \/ calls'[c][d].answer[e] = "none"
                              \/ /\ calls'[c][d].answer[e] = "waiting"
                                 /\ parts[d][e].status = "pending"
                                 /\ calls'[c][d].tries[e] = parts[d][e].attempts
           /\ OtherCalls(c, d)
           /\ UNCHANGED history
<1> DEFINE tries  == [t \in Target |-> IF t \in OpenParts(d) THEN parts[d][t].attempts ELSE 0]
           answer == [t \in Target |-> IF t \in OpenParts(d) THEN "waiting" ELSE "none"]
           call   == [At("sending") EXCEPT !.tries = tries, !.answer = answer]
<1>1. Becomes(c, d, call)
  BY DEF ReadParts
<1>2. At("sending") \in Call /\ At("sending").pc = "sending"
  BY CallTypes
<1>3. call.pc = "sending" /\ call.answer = answer /\ call.tries = tries
  BY <1>2 DEF Call
<1> HIDE DEF call
<1>4. calls'[c][d] = call /\ OtherCalls(c, d)
  BY <1>1, BecomesEffect DEF OtherCalls
<1>5. /\ answer[Hook] = "none"
      /\ \A e \in Device : \/ answer[e] = "none"
                          \/ /\ e \in OpenParts(d)
                             /\ answer[e] = "waiting"
                             /\ parts[d][e].status = "pending"
                             /\ tries[e] = parts[d][e].attempts
  BY DeliveryAssumption DEF Target, OpenParts, PendingParts
<1>6. \A e \in Device : \/ parts'[d][e] = parts[d][e]
                        \/ /\ parts'[d][e] = [parts[d][e] EXCEPT !.status = "failed"]
                           /\ e \in PendingParts(d) \ members
  BY DEF ReadParts, TypeOK
<1>7. \A e \in PendingParts(d) \ members : answer[e] = "none" /\ parts[d][e].status = "pending"
  BY DEF OpenParts, PendingParts, Target
<1>8. \A e \in Device : parts[d][e] \in PartRow
  BY DEF TypeOK
<1>9. \A e \in Device : LET row == [parts[d][e] EXCEPT !.status = "failed"] IN
                        row.status = "failed" /\ row.attempts = parts[d][e].attempts
  BY <1>8 DEF PartRow
<1>10. \A x \in Delivery : x # d => deliveries'[x] = deliveries[x] /\ parts'[x] = parts[x]
  BY DEF ReadParts, TypeOK
<1> HIDE DEF answer, tries
<1>11. QED
  BY <1>3, <1>4, <1>5, <1>6, <1>7, <1>9, <1>10 DEF ReadParts, OtherRows

LEMMA SendEffect ==
    ASSUME TypeOK, NEW c \in Caller, NEW d \in Delivery, NEW t \in Target,
           NEW answer \in {"ok", "retry", "refused", "invalid"}, NEW taken \in BOOLEAN,
           Send(c, d, t, answer, taken)
    PROVE  /\ calls[c][d].answer[t] = "waiting"
           /\ answer = "ok" => taken
           /\ UNCHANGED rows
           /\ Answers(c, d, t, answer)
           /\ accepted'[d][t] = IF taken THEN accepted[d][t] + 1 ELSE accepted[d][t]
           /\ missed'[d][t] = IF taken /\ answer # "ok" THEN missed[d][t] + 1 ELSE missed[d][t]
           /\ \A x \in Delivery, u \in Target : x # d \/ u # t =>
              accepted'[x][u] = accepted[x][u] /\ missed'[x][u] = missed[x][u]
           /\ UNCHANGED hurried
<1>1. answer \in Answer /\ calls' = [calls EXCEPT ![c][d].answer[t] = answer]
  BY DEF Send, Answer
<1>2. Answers(c, d, t, answer)
  BY <1>1, AnswerEffect
<1>3. /\ accepted'[d][t] = IF taken THEN accepted[d][t] + 1 ELSE accepted[d][t]
      /\ missed'[d][t] = IF taken /\ answer # "ok" THEN missed[d][t] + 1 ELSE missed[d][t]
      /\ \A x \in Delivery, u \in Target : x # d \/ u # t =>
            accepted'[x][u] = accepted[x][u] /\ missed'[x][u] = missed[x][u]
  BY DEF Send, TypeOK
<1>4. QED
  BY <1>2, <1>3 DEF Send

LEMMA InvalidateEffect ==
    ASSUME TypeOK, NEW c \in Caller, NEW d \in Delivery, NEW e \in Device, Invalidate(c, d, e)
    PROVE  /\ calls[c][d].answer[e] = "invalid"
           /\ UNCHANGED rows
           /\ Answers(c, d, e, "refused")
           /\ UNCHANGED history
BY AnswerEffect DEF Invalidate, TypeOK, rows, targets, history, OtherRows, Answer, Target

LEMMA NotePartEffect ==
    ASSUME TypeOK, NEW c \in Caller, NEW d \in Delivery, NEW e \in Device, NotePart(c, d, e)
    PROVE  /\ calls[c][d].answer[e] \in Answered
           /\ UNCHANGED deliveries
           /\ \A x \in Delivery, f \in Device : x # d \/ f # e => parts'[x][f] = parts[x][f]
           /\ parts[d][e].status = "absent" => parts'[d][e] = parts[d][e]
           /\ parts[d][e].status # "absent" =>
              /\ parts'[d][e].status = AfterAnswer(calls[c][d].tries[e], calls[c][d].answer[e])
              /\ parts'[d][e].attempts = calls[c][d].tries[e] + 1
           /\ Answers(c, d, e, "none")
           /\ UNCHANGED history
<1> DEFINE row  == [status |-> AfterAnswer(calls[c][d].tries[e], calls[c][d].answer[e]),
                    attempts |-> calls[c][d].tries[e] + 1,
                    due |-> parts[d][e].due /\ calls[c][d].answer[e] = "ok"]
<1>1. Answers(c, d, e, "none")
  BY AnswerEffect DEF NotePart, Answer, Target
<1>2. parts[d][e].status # "absent" => parts' = [parts EXCEPT ![d] = [parts[d] EXCEPT ![e] = row]]
  BY DEF NotePart, TypeOK
<1>3. parts[d][e].status = "absent" => parts' = parts
  BY DEF NotePart
<1>4. /\ row.status = AfterAnswer(calls[c][d].tries[e], calls[c][d].answer[e])
      /\ row.attempts = calls[c][d].tries[e] + 1
  OBVIOUS
<1> HIDE DEF row
<1>5. /\ parts[d][e].status # "absent" => parts'[d][e] = row
      /\ \A x \in Delivery, f \in Device : x # d \/ f # e => parts'[x][f] = parts[x][f]
  BY <1>2, <1>3 DEF TypeOK
<1>6. QED
  BY <1>1, <1>3, <1>4, <1>5 DEF NotePart, history

LEMMA SummariseEffect ==
    ASSUME TypeOK, NEW c \in Caller, NEW d \in Delivery, Summarise(c, d)
    PROVE  /\ calls[c][d].pc = "sending"
           /\ d \in Push
           /\ UNCHANGED rows
           /\ calls'[c][d].pc = "summed"
           /\ calls'[c][d].result = Summary(d)
           /\ \A t \in Target : calls'[c][d].answer[t] = "none"
           /\ OtherCalls(c, d)
           /\ hurried' = IF Fanning(d) THEN hurried \cup {d} ELSE hurried
           /\ UNCHANGED <<accepted, missed>>
<1> DEFINE call == [At("summed") EXCEPT
               !.result = Summary(d),
               !.due = PendingParts(d) = {} \/ \E e \in PendingParts(d) : parts[d][e].due]
<1>1. Becomes(c, d, call)
  BY DEF Summarise
<1>2. At("summed") \in Call /\ At("summed").pc = "summed" /\ At("summed").answer = [t \in Target |-> "none"]
  BY CallTypes
<1>3. call.pc = "summed" /\ call.result = Summary(d) /\ \A t \in Target : call.answer[t] = "none"
  BY <1>2 DEF Call
<1> HIDE DEF call
<1>4. calls'[c][d] = call /\ OtherCalls(c, d)
  BY <1>1, BecomesEffect DEF OtherCalls
<1>5. QED
  BY <1>3, <1>4 DEF Summarise

LEMMA FinishPushEffect ==
    ASSUME TypeOK, NEW c \in Caller, NEW d \in Delivery, FinishPush(c, d)
    PROVE  /\ calls[c][d].pc = "summed"
           /\ UNCHANGED parts
           /\ deliveries[d].status = "removed" => deliveries'[d] = deliveries[d]
           /\ deliveries[d].status # "removed" =>
              /\ deliveries'[d].status = calls[c][d].result
              /\ deliveries'[d].attempts = deliveries[d].attempts
              /\ deliveries'[d].claim = "none"
           /\ OtherRows(d)
           /\ Sets(c, d, "idle")
           /\ UNCHANGED history
<1>1. Sets(c, d, "idle")
  BY SetsIdle DEF FinishPush
<1>2. deliveries[d] \in DeliveryRow /\ deliveries \in [Delivery -> DeliveryRow]
  BY DEF TypeOK
<1>3. deliveries[d].status # "removed" =>
        deliveries' = [deliveries EXCEPT ![d] = [deliveries[d] EXCEPT
            !.status = calls[c][d].result, !.due = calls[c][d].due, !.claim = "none"]]
  BY DEF FinishPush, Release
<1>4. LET row == [deliveries[d] EXCEPT
                     !.status = calls[c][d].result, !.due = calls[c][d].due, !.claim = "none"]
      IN  row.status = calls[c][d].result /\ row.attempts = deliveries[d].attempts /\ row.claim = "none"
  BY <1>2 DEF DeliveryRow
<1>5. deliveries[d].status # "removed" =>
        /\ deliveries'[d].status = calls[c][d].result
        /\ deliveries'[d].attempts = deliveries[d].attempts
        /\ deliveries'[d].claim = "none"
  BY <1>2, <1>3, <1>4
<1>6. OtherRows(d) /\ (deliveries[d].status = "removed" => deliveries'[d] = deliveries[d])
  BY <1>2, <1>3 DEF FinishPush, Release, OtherRows
<1>7. QED
  BY <1>1, <1>5, <1>6 DEF FinishPush

LEMMA FinishHookEffect ==
    ASSUME TypeOK, NEW c \in Caller, NEW d \in Delivery, FinishHook(c, d)
    PROVE  /\ d \notin Push
           /\ calls[c][d].answer[Hook] \in Answered
           /\ UNCHANGED parts
           /\ deliveries[d].status = "removed" => deliveries'[d] = deliveries[d]
           /\ deliveries[d].status # "removed" =>
              /\ deliveries'[d].status = AfterAnswer(calls[c][d].tries[Hook], calls[c][d].answer[Hook])
              /\ deliveries'[d].attempts = calls[c][d].tries[Hook] + 1
              /\ deliveries'[d].claim = "none"
           /\ OtherRows(d)
           /\ Sets(c, d, "idle")
           /\ UNCHANGED history
BY SetsIdle DEF FinishHook, TypeOK, rows, targets, history, OtherRows, Release

LEMMA RemoveDeviceEffect ==
    ASSUME TypeOK, NEW e \in Device, RemoveDevice(e)
    PROVE  /\ UNCHANGED deliveries
           /\ \A x \in Delivery, f \in Device : 
              \/ parts'[x][f].status = "absent" /\ parts'[x][f].attempts = 0
              \/ parts'[x][f] = parts[x][f]
           /\ UNCHANGED calls
           /\ UNCHANGED history
BY DEF RemoveDevice, TypeOK, rows, targets, history, OtherRows, NoPart

LEMMA RegisterEffect ==
    ASSUME TypeOK, NEW e \in Device, Register(e)
    PROVE  /\ UNCHANGED rows
           /\ UNCHANGED calls
           /\ UNCHANGED history
BY DEF Register, TypeOK, rows, targets, history, OtherRows

LEMMA LeaveTeamEffect ==
    ASSUME TypeOK, NEW e \in Device, LeaveTeam(e)
    PROVE  /\ UNCHANGED rows
           /\ UNCHANGED calls
           /\ UNCHANGED history
BY DEF LeaveTeam, TypeOK, rows, targets, history, OtherRows

LEMMA CrashEffect ==
    ASSUME TypeOK, NEW c \in Caller, Crash(c)
    PROVE  /\ UNCHANGED rows
           /\ \A d \in Delivery : calls'[c][d] = Idle
           /\ \A b \in Caller, x \in Delivery : b # c => calls'[b][x] = calls[b][x]
           /\ UNCHANGED <<accepted, hurried>>
           /\ \A d \in Delivery, t \in Target : missed'[d][t] =
              IF calls[c][d].answer[t] = "ok" THEN missed[d][t] + 1 ELSE missed[d][t]
BY DEF Crash, TypeOK, rows, targets, history, OtherRows

-----------------------------------------------------------------------------
(* Each part of the invariant is kept by every step.                       *)

LEMMA NoTargetInHand ==
    /\ Idle.pc = "idle" /\ \A t \in Target : Idle.answer[t] = "none"
    /\ At("called").pc = "called" /\ \A t \in Target : At("called").answer[t] = "none"
BY CallTypes DEF Idle

LEMMA LeaseStep == TypeOK /\ InHand /\ Leases /\ [Next]_vars => Leases'
<1> SUFFICES ASSUME TypeOK, InHand, Leases, [Next]_vars PROVE Leases'
  OBVIOUS
<1> USE DEF Leases, Holds, Prompt
<1>0. Dispatcher \subseteq Caller /\ Operator \subseteq Caller /\ Push \subseteq Delivery
  BY DeliveryAssumption DEF Caller
<1>1. ASSUME NEW d \in Delivery, Enqueue(d)
      PROVE  Leases'
  BY <1>1, <1>0, EnqueueEffect DEF Leases, history, OtherRows
<1>2. ASSUME NEW d \in Delivery, ExpireLease(d)
      PROVE  Leases'
  BY <1>2, <1>0, ExpireLeaseEffect DEF Leases, history, OtherRows, SameButClaim
<1>3. ASSUME NEW d \in Delivery, Elapse(d)
      PROVE  Leases'
  BY <1>3, <1>0, ElapseEffect DEF Leases, history, OtherRows, SameButClaim
<1>4. ASSUME NEW d \in Delivery, Remove(d)
      PROVE  Leases'
  BY <1>4, <1>0, RemoveEffect DEF Leases, history, OtherRows
<1>5. ASSUME NEW d \in Delivery, NEW e \in Device, ElapsePart(d, e)
      PROVE  Leases'
  BY <1>5, <1>0, ElapsePartEffect DEF Leases, history
<1>6. ASSUME NEW o \in Operator, NEW d \in Delivery, Test(o, d)
      PROVE  Leases'
  BY <1>6, <1>0, TestEffect DEF Leases, history, OtherRows, OtherCalls, Sets
<1>7. ASSUME NEW o \in Operator, NEW d \in Delivery, FanOut(o, d)
      PROVE  Leases'
  BY <1>7, <1>0, FanOutEffect DEF Leases, history, OtherRows, OtherCalls, Sets
<1>8. ASSUME NEW o \in Operator, NEW d \in Delivery, FanOutFails(o, d)
      PROVE  Leases'
  BY <1>8, <1>0, FanOutFailsEffect DEF Leases, rows, history, OtherCalls, Sets
<1>9. ASSUME NEW o \in Operator, NEW old \in Delivery, NEW d \in Delivery, Retry(o, old, d)
      PROVE  Leases'
  BY <1>9, <1>0, RetryEffect DEF Leases, history, OtherRows, OtherCalls, Sets
<1>10. ASSUME NEW p \in Dispatcher, Dispatch(p)
      PROVE  Leases'
  BY <1>10, <1>0, DispatchEffect, NoTargetInHand DEF Leases, rows, history
<1>11. ASSUME NEW p \in Dispatcher, EndPass(p)
      PROVE  Leases'
  BY <1>11, <1>0, EndPassEffect DEF Leases, rows, history
<1>12. ASSUME NEW c \in Caller, NEW d \in Delivery, Claim(c, d)
      PROVE  Leases'
  BY <1>12, <1>0, ClaimEffect DEF Leases, history, OtherRows, OtherCalls, Sets
<1>13. ASSUME NEW c \in Caller, NEW d \in Delivery, Skip(c, d)
      PROVE  Leases'
  BY <1>13, <1>0, SkipEffect DEF Leases, rows, history, OtherCalls, Sets
<1>14. ASSUME NEW c \in Caller, NEW d \in Delivery, ReadFails(c, d)
      PROVE  Leases'
  BY <1>14, <1>0, ReadFailsEffect DEF Leases, rows, history, OtherCalls, Sets
<1>15. ASSUME NEW c \in Caller, NEW d \in Delivery, ReadHook(c, d)
      PROVE  Leases'
  BY <1>15, <1>0, ReadHookEffect DEF Leases, rows, history, OtherCalls
<1>16. ASSUME NEW c \in Caller, NEW d \in Delivery, ReadParts(c, d)
      PROVE  Leases'
  BY <1>16, <1>0, ReadPartsEffect DEF Leases, history, OtherRows, OtherCalls
<1>17. ASSUME NEW c \in Caller, NEW d \in Delivery, NEW t \in Target,
              NEW answer \in {"ok", "retry", "refused", "invalid"}, NEW taken \in BOOLEAN,
              Send(c, d, t, answer, taken)
      PROVE  Leases'
  <2>1. \A b \in Caller, x \in Delivery : calls'[b][x].pc = calls[b][x].pc
    BY <1>17, SendEffect DEF Answers, OtherCalls
  <2>2. UNCHANGED rows
    BY <1>17, SendEffect
  <2>3. QED
    BY <2>1, <2>2 DEF rows
<1>18. ASSUME NEW c \in Caller, NEW d \in Delivery, NEW e \in Device, Invalidate(c, d, e)
      PROVE  Leases'
  BY <1>18, <1>0, InvalidateEffect DEF Leases, rows, history, OtherCalls, Answers
<1>19. ASSUME NEW c \in Caller, NEW d \in Delivery, NEW e \in Device, NotePart(c, d, e)
      PROVE  Leases'
  BY <1>19, <1>0, NotePartEffect DEF Leases, history, OtherCalls, Answers
<1>20. ASSUME NEW c \in Caller, NEW d \in Delivery, Summarise(c, d)
      PROVE  Leases'
  BY <1>20, <1>0, SummariseEffect DEF Leases, rows, OtherCalls
<1>21. ASSUME NEW c \in Caller, NEW d \in Delivery, FinishPush(c, d)
      PROVE  Leases'
  BY <1>21, <1>0, FinishPushEffect DEF Leases, history, OtherRows, OtherCalls, Sets
<1>22. ASSUME NEW c \in Caller, NEW d \in Delivery, FinishHook(c, d)
      PROVE  Leases'
  <2>1. calls[c][d].pc = "sending"
    BY <1>22, FinishHookEffect DEF InHand, Answered, Target
  <2>2. QED
    BY <1>22, <2>1, FinishHookEffect DEF OtherRows, OtherCalls, Sets
<1>23. ASSUME NEW e \in Device, RemoveDevice(e)
      PROVE  Leases'
  BY <1>23, <1>0, RemoveDeviceEffect DEF Leases, history
<1>24. ASSUME NEW e \in Device, Register(e)
      PROVE  Leases'
  BY <1>24, <1>0, RegisterEffect DEF Leases, rows, history
<1>25. ASSUME NEW e \in Device, LeaveTeam(e)
      PROVE  Leases'
  BY <1>25, <1>0, LeaveTeamEffect DEF Leases, rows, history
<1>26. ASSUME NEW c \in Caller, Crash(c)
      PROVE  Leases'
  BY <1>26, <1>0, CrashEffect, NoTargetInHand DEF Leases, rows
<1>27. CASE UNCHANGED vars
  BY <1>27, <1>0 DEF Leases, rows, history, vars
<1>28. QED
  BY <1>1, <1>2, <1>3, <1>4, <1>5, <1>6, <1>7, <1>8, <1>9, <1>10, <1>11, <1>12, <1>13, <1>14,
     <1>15, <1>16, <1>17, <1>18, <1>19, <1>20, <1>21, <1>22, <1>23, <1>24, <1>25, <1>26,
     <1>27 DEF Next, Work

LEMMA InHandStep == TypeOK /\ InHand /\ [Next]_vars => InHand'
<1> SUFFICES ASSUME TypeOK, InHand, [Next]_vars PROVE InHand'
  OBVIOUS
<1>0. Dispatcher \subseteq Caller /\ Operator \subseteq Caller /\ Push \subseteq Delivery
  BY DeliveryAssumption DEF Caller
<1>1. ASSUME NEW d \in Delivery, Enqueue(d)
      PROVE  InHand'
  BY <1>1, <1>0, EnqueueEffect DEF InHand, history, OtherRows
<1>2. ASSUME NEW d \in Delivery, ExpireLease(d)
      PROVE  InHand'
  BY <1>2, <1>0, ExpireLeaseEffect DEF InHand, history, OtherRows, SameButClaim
<1>3. ASSUME NEW d \in Delivery, Elapse(d)
      PROVE  InHand'
  BY <1>3, <1>0, ElapseEffect DEF InHand, history, OtherRows, SameButClaim
<1>4. ASSUME NEW d \in Delivery, Remove(d)
      PROVE  InHand'
  BY <1>4, <1>0, RemoveEffect DEF InHand, history, OtherRows
<1>5. ASSUME NEW d \in Delivery, NEW e \in Device, ElapsePart(d, e)
      PROVE  InHand'
  BY <1>5, <1>0, ElapsePartEffect DEF InHand, history
<1>6. ASSUME NEW o \in Operator, NEW d \in Delivery, Test(o, d)
      PROVE  InHand'
  BY <1>6, <1>0, TestEffect DEF InHand, history, OtherRows, OtherCalls, Sets
<1>7. ASSUME NEW o \in Operator, NEW d \in Delivery, FanOut(o, d)
      PROVE  InHand'
  BY <1>7, <1>0, FanOutEffect DEF InHand, history, OtherRows, OtherCalls, Sets
<1>8. ASSUME NEW o \in Operator, NEW d \in Delivery, FanOutFails(o, d)
      PROVE  InHand'
  BY <1>8, <1>0, FanOutFailsEffect DEF InHand, rows, history, OtherCalls, Sets
<1>9. ASSUME NEW o \in Operator, NEW old \in Delivery, NEW d \in Delivery, Retry(o, old, d)
      PROVE  InHand'
  BY <1>9, <1>0, RetryEffect DEF InHand, history, OtherRows, OtherCalls, Sets
<1>10. ASSUME NEW p \in Dispatcher, Dispatch(p)
      PROVE  InHand'
  BY <1>10, <1>0, DispatchEffect, NoTargetInHand DEF InHand, rows, history
<1>11. ASSUME NEW p \in Dispatcher, EndPass(p)
      PROVE  InHand'
  BY <1>11, <1>0, EndPassEffect DEF InHand, rows, history
<1>12. ASSUME NEW c \in Caller, NEW d \in Delivery, Claim(c, d)
      PROVE  InHand'
  BY <1>12, <1>0, ClaimEffect DEF InHand, history, OtherRows, OtherCalls, Sets
<1>13. ASSUME NEW c \in Caller, NEW d \in Delivery, Skip(c, d)
      PROVE  InHand'
  BY <1>13, <1>0, SkipEffect DEF InHand, rows, history, OtherCalls, Sets
<1>14. ASSUME NEW c \in Caller, NEW d \in Delivery, ReadFails(c, d)
      PROVE  InHand'
  BY <1>14, <1>0, ReadFailsEffect DEF InHand, rows, history, OtherCalls, Sets
<1>15. ASSUME NEW c \in Caller, NEW d \in Delivery, ReadHook(c, d)
      PROVE  InHand'
  BY <1>15, ReadHookEffect, DeliveryAssumption DEF InHand, OtherCalls, Target
<1>16. ASSUME NEW c \in Caller, NEW d \in Delivery, ReadParts(c, d)
      PROVE  InHand'
  BY <1>16, <1>0, ReadPartsEffect DEF InHand, history, OtherRows, OtherCalls
<1>17. ASSUME NEW c \in Caller, NEW d \in Delivery, NEW t \in Target,
              NEW answer \in {"ok", "retry", "refused", "invalid"}, NEW taken \in BOOLEAN,
              Send(c, d, t, answer, taken)
      PROVE  InHand'
  BY <1>17, <1>0, SendEffect DEF InHand, rows, OtherCalls, Answers
<1>18. ASSUME NEW c \in Caller, NEW d \in Delivery, NEW e \in Device, Invalidate(c, d, e)
      PROVE  InHand'
  BY <1>18, <1>0, InvalidateEffect DEF InHand, rows, history, OtherCalls, Answers
<1>19. ASSUME NEW c \in Caller, NEW d \in Delivery, NEW e \in Device, NotePart(c, d, e)
      PROVE  InHand'
  BY <1>19, <1>0, NotePartEffect DEF InHand, history, OtherCalls, Answers
<1>20. ASSUME NEW c \in Caller, NEW d \in Delivery, Summarise(c, d)
      PROVE  InHand'
  BY <1>20, <1>0, SummariseEffect DEF InHand, rows, OtherCalls
<1>21. ASSUME NEW c \in Caller, NEW d \in Delivery, FinishPush(c, d)
      PROVE  InHand'
  BY <1>21, <1>0, FinishPushEffect DEF InHand, history, OtherRows, OtherCalls, Sets
<1>22. ASSUME NEW c \in Caller, NEW d \in Delivery, FinishHook(c, d)
      PROVE  InHand'
  BY <1>22, <1>0, FinishHookEffect DEF InHand, history, OtherRows, OtherCalls, Sets
<1>23. ASSUME NEW e \in Device, RemoveDevice(e)
      PROVE  InHand'
  BY <1>23, <1>0, RemoveDeviceEffect DEF InHand, history
<1>24. ASSUME NEW e \in Device, Register(e)
      PROVE  InHand'
  BY <1>24, <1>0, RegisterEffect DEF InHand, rows, history
<1>25. ASSUME NEW e \in Device, LeaveTeam(e)
      PROVE  InHand'
  BY <1>25, <1>0, LeaveTeamEffect DEF InHand, rows, history
<1>26. ASSUME NEW c \in Caller, Crash(c)
      PROVE  InHand'
  BY <1>26, <1>0, CrashEffect, NoTargetInHand DEF InHand, rows
<1>27. CASE UNCHANGED vars
  BY <1>27, <1>0 DEF InHand, rows, history, vars
<1>28. QED
  BY <1>1, <1>2, <1>3, <1>4, <1>5, <1>6, <1>7, <1>8, <1>9, <1>10, <1>11, <1>12, <1>13, <1>14,
     <1>15, <1>16, <1>17, <1>18, <1>19, <1>20, <1>21, <1>22, <1>23, <1>24, <1>25, <1>26,
     <1>27 DEF Next, Work

\* Steps that send nothing, note nothing and settle nothing: rows keep status and
\* attempts or go, calls change with no target in hand.
Inert ==
    /\ \A d \in Delivery :
          \/ /\ deliveries'[d].status = deliveries[d].status
             /\ deliveries'[d].attempts = deliveries[d].attempts
          \/ /\ deliveries'[d].status = "removed"
             /\ deliveries'[d].attempts = 0
    /\ \A d \in Delivery, e \in Device :
          \/ /\ parts'[d][e].status = parts[d][e].status
             /\ parts'[d][e].attempts = parts[d][e].attempts
          \/ /\ parts'[d][e].status = "absent"
             /\ parts'[d][e].attempts = 0
    /\ \A c \in Caller, d \in Delivery :
          \/ calls'[c][d] = calls[c][d]
          \/ /\ calls'[c][d].pc \in {"idle", "called", "claimed"}
             /\ \A t \in Target : calls[c][d].answer[t] = "none" /\ calls'[c][d].answer[t] = "none"
    /\ UNCHANGED history

LEMMA StepKinds ==
    ASSUME TypeOK, InHand, [Next]_vars
    PROVE  \/ Inert
           \/ \E d \in Delivery : Enqueue(d)
           \/ \E o \in Operator, d \in Delivery :
                 Test(o, d) \/ FanOut(o, d) \/ \E old \in Delivery : Retry(o, old, d)
           \/ \E c \in Caller, d \in Delivery :
                 \/ ReadHook(c, d) \/ ReadParts(c, d)
                 \/ \E t \in Target, answer \in {"ok", "retry", "refused", "invalid"}, taken \in BOOLEAN :
                       Send(c, d, t, answer, taken)
                 \/ \E e \in Device : Invalidate(c, d, e) \/ NotePart(c, d, e)
                 \/ Summarise(c, d) \/ FinishPush(c, d) \/ FinishHook(c, d)
           \/ \E c \in Caller : Crash(c)
<1>0. Dispatcher \subseteq Caller /\ Operator \subseteq Caller /\ Push \subseteq Delivery
  BY DeliveryAssumption DEF Caller
<1>1. ASSUME NEW d \in Delivery, ExpireLease(d)
      PROVE  Inert
  BY <1>1, <1>0, ExpireLeaseEffect DEF Inert, InHand, history, OtherRows, SameButClaim
<1>2. ASSUME NEW d \in Delivery, Elapse(d)
      PROVE  Inert
  BY <1>2, <1>0, ElapseEffect DEF Inert, InHand, history, OtherRows, SameButClaim
<1>3. ASSUME NEW d \in Delivery, Remove(d)
      PROVE  Inert
  BY <1>3, <1>0, RemoveEffect DEF Inert, InHand, history, OtherRows
<1>4. ASSUME NEW d \in Delivery, NEW e \in Device, ElapsePart(d, e)
      PROVE  Inert
  BY <1>4, <1>0, ElapsePartEffect DEF Inert, InHand, history
<1>5. ASSUME NEW o \in Operator, NEW d \in Delivery, FanOutFails(o, d)
      PROVE  Inert
  BY <1>5, <1>0, FanOutFailsEffect DEF Inert, InHand, rows, history, OtherCalls, Sets
<1>6. ASSUME NEW p \in Dispatcher, Dispatch(p)
      PROVE  Inert
  BY <1>6, <1>0, DispatchEffect, NoTargetInHand DEF Inert, InHand, rows, history
<1>7. ASSUME NEW p \in Dispatcher, EndPass(p)
      PROVE  Inert
  BY <1>7, <1>0, EndPassEffect DEF Inert, InHand, rows, history
<1>8. ASSUME NEW c \in Caller, NEW d \in Delivery, Claim(c, d)
      PROVE  Inert
  BY <1>8, <1>0, ClaimEffect DEF Inert, InHand, history, OtherRows, OtherCalls, Sets
<1>9. ASSUME NEW c \in Caller, NEW d \in Delivery, Skip(c, d)
      PROVE  Inert
  BY <1>9, <1>0, SkipEffect DEF Inert, InHand, rows, history, OtherCalls, Sets
<1>10. ASSUME NEW c \in Caller, NEW d \in Delivery, ReadFails(c, d)
      PROVE  Inert
  BY <1>10, <1>0, ReadFailsEffect DEF Inert, InHand, rows, history, OtherCalls, Sets
<1>11. ASSUME NEW e \in Device, RemoveDevice(e)
      PROVE  Inert
  BY <1>11, <1>0, RemoveDeviceEffect DEF Inert, InHand, history
<1>12. ASSUME NEW e \in Device, Register(e)
      PROVE  Inert
  BY <1>12, <1>0, RegisterEffect DEF Inert, InHand, rows, history
<1>13. ASSUME NEW e \in Device, LeaveTeam(e)
      PROVE  Inert
  BY <1>13, <1>0, LeaveTeamEffect DEF Inert, InHand, rows, history
<1>14. CASE UNCHANGED vars
  BY <1>14 DEF Inert, vars, rows, history
<1>15. QED
  BY <1>1, <1>2, <1>3, <1>4, <1>5, <1>6, <1>7, <1>8, <1>9, <1>10, <1>11, <1>12, <1>13,
     <1>14 DEF Next, Work

LEMMA HeardStep == TypeOK /\ InHand /\ HeardOf /\ [Next]_vars => HeardOf'
<1> SUFFICES ASSUME TypeOK, InHand, HeardOf, [Next]_vars PROVE HeardOf'
  OBVIOUS
<1>0. /\ Dispatcher \subseteq Caller /\ Operator \subseteq Caller /\ Push \subseteq Delivery
      /\ \A d \in Delivery, t \in Target : accepted[d][t] \in Nat /\ missed[d][t] \in Nat
      /\ MaxAttempts \in Nat \ {0}
  BY DeliveryAssumption DEF Caller, TypeOK
<1>1. ASSUME NEW d \in Delivery, Enqueue(d)
      PROVE  HeardOf'
  BY <1>1, <1>0, EnqueueEffect DEF HeardOf, history, OtherRows
<1>2. ASSUME NEW o \in Operator, NEW d \in Delivery, Test(o, d)
      PROVE  HeardOf'
  BY <1>2, <1>0, TestEffect DEF HeardOf, history, OtherRows, OtherCalls, Sets
<1>3. ASSUME NEW o \in Operator, NEW d \in Delivery, FanOut(o, d)
      PROVE  HeardOf'
  BY <1>3, <1>0, FanOutEffect DEF HeardOf, history, OtherRows, OtherCalls, Sets
<1>4. ASSUME NEW o \in Operator, NEW old \in Delivery, NEW d \in Delivery, Retry(o, old, d)
      PROVE  HeardOf'
  BY <1>4, <1>0, RetryEffect DEF HeardOf, history, OtherRows, OtherCalls, Sets
<1>5. ASSUME NEW c \in Caller, NEW d \in Delivery, ReadHook(c, d)
      PROVE  HeardOf'
  BY <1>5, <1>0, ReadHookEffect DEF HeardOf, rows, history, OtherCalls, Target
<1>6. ASSUME NEW c \in Caller, NEW d \in Delivery, ReadParts(c, d)
      PROVE  HeardOf'
  BY <1>6, <1>0, ReadPartsEffect DEF HeardOf, history, OtherRows, OtherCalls, Target
<1>7. ASSUME NEW c \in Caller, NEW d \in Delivery, NEW t \in Target,
             NEW answer \in {"ok", "retry", "refused", "invalid"}, NEW taken \in BOOLEAN,
             Send(c, d, t, answer, taken)
      PROVE  HeardOf'
  <2>1. \A x \in Delivery, u \in Target : accepted'[x][u] >= accepted[x][u] /\ accepted'[x][u] \in Nat
    BY <1>7, <1>0, SendEffect
  <2>2. answer = "ok" => accepted'[d][t] > 0
    BY <1>7, <1>0, SendEffect
  <2>3. \A b \in Caller, x \in Delivery, u \in Target : calls'[b][x].answer[u] = "ok" =>
          calls[b][x].answer[u] = "ok" \/ (x = d /\ u = t /\ answer = "ok")
    <3>1. Answers(c, d, t, answer)
      BY <1>7, SendEffect
    <3>2. SUFFICES ASSUME NEW b \in Caller, NEW x \in Delivery, NEW u \in Target,
                          calls'[b][x].answer[u] = "ok"
                   PROVE  calls[b][x].answer[u] = "ok" \/ (x = d /\ u = t /\ answer = "ok")
      OBVIOUS
    <3>3. CASE b = c /\ x = d
      BY <3>1, <3>2, <3>3 DEF Answers
    <3>4. CASE ~(b = c /\ x = d)
      BY <3>1, <3>2, <3>4 DEF Answers, OtherCalls
    <3>5. QED
      BY <3>3, <3>4
  <2>4. \A b \in Caller, x \in Delivery : /\ calls'[b][x].pc = calls[b][x].pc
                                         /\ calls'[b][x].result = calls[b][x].result
    BY <1>7, SendEffect DEF Answers, OtherCalls
  <2>5. UNCHANGED parts
    BY <1>7, SendEffect DEF rows
  <2>6. \A x \in Delivery, e \in Device : parts'[x][e].status = "delivered" => accepted'[x][e] > 0
    BY <2>1, <2>5, <1>0 DEF HeardOf, Target
  <2>7. \A x \in Delivery, b \in Caller, u \in Target :
          calls'[b][x].answer[u] = "ok" => accepted'[x][u] > 0
    BY <2>1, <2>2, <2>3, <1>0 DEF HeardOf
  <2>8. \A x \in Delivery, b \in Caller :
          calls'[b][x].pc = "summed" /\ calls'[b][x].result = "delivered" =>
              \E u \in Target : accepted'[x][u] > 0
    BY <2>1, <2>4, <1>0 DEF HeardOf
  <2>9. QED
    BY <2>6, <2>7, <2>8 DEF HeardOf
<1>8. ASSUME NEW c \in Caller, NEW d \in Delivery, NEW e \in Device, Invalidate(c, d, e)
      PROVE  HeardOf'
  BY <1>8, <1>0, InvalidateEffect DEF HeardOf, rows, history, OtherCalls, Answers, Target
<1>9. ASSUME NEW c \in Caller, NEW d \in Delivery, NEW e \in Device, NotePart(c, d, e)
      PROVE  HeardOf'
  BY <1>9, <1>0, NotePartEffect DEF HeardOf, history, OtherCalls, Answers, AfterAnswer,
     Answered, Target
<1>10. ASSUME NEW c \in Caller, NEW d \in Delivery, Summarise(c, d)
      PROVE  HeardOf'
  BY <1>10, <1>0, SummariseEffect DEF HeardOf, rows, OtherCalls, Summary, Target
<1>11. ASSUME NEW c \in Caller, NEW d \in Delivery, FinishPush(c, d)
      PROVE  HeardOf'
  BY <1>11, <1>0, FinishPushEffect DEF HeardOf, history, OtherRows, OtherCalls, Sets
<1>12. ASSUME NEW c \in Caller, NEW d \in Delivery, FinishHook(c, d)
      PROVE  HeardOf'
  BY <1>12, <1>0, FinishHookEffect DEF HeardOf, history, OtherRows, OtherCalls, Sets,
     AfterAnswer, Answered, Target
<1>13. ASSUME NEW c \in Caller, Crash(c)
      PROVE  HeardOf'
  BY <1>13, <1>0, CrashEffect, NoTargetInHand DEF HeardOf, rows
<1>14. CASE Inert
  BY <1>14, <1>0 DEF Inert, history, HeardOf
<1>15. QED
  BY <1>1, <1>2, <1>3, <1>4, <1>5, <1>6, <1>7, <1>8, <1>9, <1>10, <1>11, <1>12, <1>13, <1>14,
     StepKinds

LEMMA FanOutStep == TypeOK /\ InHand /\ Leases /\ FanOuts /\ [Next]_vars => FanOuts'
<1> SUFFICES ASSUME TypeOK, InHand, Leases, FanOuts, [Next]_vars PROVE FanOuts'
  OBVIOUS
<1>0. /\ Dispatcher \subseteq Caller /\ Operator \subseteq Caller /\ Push \subseteq Delivery
      /\ \A d \in Delivery, t \in Target : accepted[d][t] \in Nat /\ missed[d][t] \in Nat
      /\ MaxAttempts \in Nat \ {0}
  BY DeliveryAssumption DEF Caller, TypeOK
<1>1. ASSUME NEW d \in Delivery, Enqueue(d)
      PROVE  FanOuts'
  BY <1>1, <1>0, EnqueueEffect DEF FanOuts, Fans, history, OtherRows
<1>2. ASSUME NEW o \in Operator, NEW d \in Delivery, Test(o, d)
      PROVE  FanOuts'
  BY <1>2, <1>0, TestEffect DEF FanOuts, Fans, history, OtherRows, OtherCalls, Sets
<1>3. ASSUME NEW o \in Operator, NEW d \in Delivery, FanOut(o, d)
      PROVE  FanOuts'
  BY <1>3, <1>0, FanOutEffect DEF FanOuts, Fans, history, OtherRows, OtherCalls, Sets
<1>4. ASSUME NEW o \in Operator, NEW old \in Delivery, NEW d \in Delivery, Retry(o, old, d)
      PROVE  FanOuts'
  BY <1>4, <1>0, RetryEffect DEF FanOuts, Fans, history, OtherRows, OtherCalls, Sets
<1>5. ASSUME NEW c \in Caller, NEW d \in Delivery, ReadHook(c, d)
      PROVE  FanOuts'
  BY <1>5, <1>0, ReadHookEffect DEF FanOuts, Fans, rows, history, OtherCalls, Target
<1>6. ASSUME NEW c \in Caller, NEW d \in Delivery, ReadParts(c, d)
      PROVE  FanOuts'
  BY <1>6, <1>0, ReadPartsEffect DEF FanOuts, Fans, history, OtherRows, OtherCalls, Target
<1>7. ASSUME NEW c \in Caller, NEW d \in Delivery, NEW t \in Target,
             NEW answer \in {"ok", "retry", "refused", "invalid"}, NEW taken \in BOOLEAN,
             Send(c, d, t, answer, taken)
      PROVE  FanOuts'
  BY <1>7, <1>0, SendEffect DEF FanOuts, Fans, rows, OtherCalls, Answers
<1>8. ASSUME NEW c \in Caller, NEW d \in Delivery, NEW e \in Device, Invalidate(c, d, e)
      PROVE  FanOuts'
  BY <1>8, <1>0, InvalidateEffect DEF FanOuts, Fans, rows, history, OtherCalls, Answers, Target
<1>9. ASSUME NEW c \in Caller, NEW d \in Delivery, NEW e \in Device, NotePart(c, d, e)
      PROVE  FanOuts'
  BY <1>9, <1>0, NotePartEffect DEF FanOuts, Fans, history, OtherCalls, Answers, AfterAnswer,
     Answered, Target
<1>10. ASSUME NEW c \in Caller, NEW d \in Delivery, Summarise(c, d)
      PROVE  FanOuts'
  BY <1>10, <1>0, SummariseEffect DEF FanOuts, Fans, rows, OtherCalls, Summary, Target
<1>11. ASSUME NEW c \in Caller, NEW d \in Delivery, FinishPush(c, d)
      PROVE  FanOuts'
  <2>1. calls[c][d].result # "absent"
    BY DEF TypeOK, Call
  <2>2. QED
    BY <1>11, <1>0, <2>1, FinishPushEffect DEF FanOuts, Fans, OtherRows, OtherCalls, Sets
<1>12. ASSUME NEW c \in Caller, NEW d \in Delivery, FinishHook(c, d)
      PROVE  FanOuts'
  BY <1>12, <1>0, FinishHookEffect DEF FanOuts, Fans, history, OtherRows, OtherCalls, Sets,
     AfterAnswer, Answered, Target
<1>13. ASSUME NEW c \in Caller, Crash(c)
      PROVE  FanOuts'
  BY <1>13, <1>0, CrashEffect, NoTargetInHand DEF FanOuts, Fans, rows
<1>14. CASE Inert
  BY <1>14, <1>0 DEF Inert, history, FanOuts, Fans
<1>15. QED
  BY <1>1, <1>2, <1>3, <1>4, <1>5, <1>6, <1>7, <1>8, <1>9, <1>10, <1>11, <1>12, <1>13, <1>14,
     StepKinds

\* A delivery is queued once and fanned out once.
QueuedOnce == \A x \in Delivery : Unqueued(x)' => Unqueued(x)

LEMMA QueuedOnceStep == TypeOK /\ InHand /\ [Next]_vars => QueuedOnce
<1> SUFFICES ASSUME TypeOK, InHand, [Next]_vars PROVE QueuedOnce
  OBVIOUS
<1>0. /\ Dispatcher \subseteq Caller /\ Operator \subseteq Caller /\ Push \subseteq Delivery
      /\ \A d \in Delivery, t \in Target : accepted[d][t] \in Nat /\ missed[d][t] \in Nat
      /\ MaxAttempts \in Nat \ {0}
  BY DeliveryAssumption DEF Caller, TypeOK
<1>1. ASSUME NEW d \in Delivery, Enqueue(d)
      PROVE  QueuedOnce
  BY <1>1, <1>0, EnqueueEffect DEF QueuedOnce, Unqueued, Fans, history, OtherRows
<1>2. ASSUME NEW o \in Operator, NEW d \in Delivery, Test(o, d)
      PROVE  QueuedOnce
  BY <1>2, <1>0, TestEffect DEF QueuedOnce, Unqueued, Fans, history, OtherRows, OtherCalls, Sets
<1>3. ASSUME NEW o \in Operator, NEW d \in Delivery, FanOut(o, d)
      PROVE  QueuedOnce
  BY <1>3, <1>0, FanOutEffect DEF QueuedOnce, Unqueued, Fans, history, OtherRows, OtherCalls,
     Sets
<1>4. ASSUME NEW o \in Operator, NEW old \in Delivery, NEW d \in Delivery, Retry(o, old, d)
      PROVE  QueuedOnce
  BY <1>4, <1>0, RetryEffect DEF QueuedOnce, Unqueued, Fans, history, OtherRows, OtherCalls,
     Sets
<1>5. ASSUME NEW c \in Caller, NEW d \in Delivery, ReadHook(c, d)
      PROVE  QueuedOnce
  BY <1>5, <1>0, ReadHookEffect DEF QueuedOnce, Unqueued, Fans, rows, history, OtherCalls,
     Target
<1>6. ASSUME NEW c \in Caller, NEW d \in Delivery, ReadParts(c, d)
      PROVE  QueuedOnce
  BY <1>6, <1>0, ReadPartsEffect DEF QueuedOnce, Unqueued, Fans, history, OtherRows,
     OtherCalls, Target
<1>7. ASSUME NEW c \in Caller, NEW d \in Delivery, NEW t \in Target,
             NEW answer \in {"ok", "retry", "refused", "invalid"}, NEW taken \in BOOLEAN,
             Send(c, d, t, answer, taken)
      PROVE  QueuedOnce
  BY <1>7, <1>0, SendEffect DEF QueuedOnce, Unqueued, Fans, rows, OtherCalls, Answers
<1>8. ASSUME NEW c \in Caller, NEW d \in Delivery, NEW e \in Device, Invalidate(c, d, e)
      PROVE  QueuedOnce
  BY <1>8, <1>0, InvalidateEffect DEF QueuedOnce, Unqueued, Fans, rows, history, OtherCalls,
     Answers, Target
<1>9. ASSUME NEW c \in Caller, NEW d \in Delivery, NEW e \in Device, NotePart(c, d, e)
      PROVE  QueuedOnce
  BY <1>9, <1>0, NotePartEffect DEF QueuedOnce, Unqueued, Fans, history, OtherCalls, Answers,
     AfterAnswer, Answered, Target
<1>10. ASSUME NEW c \in Caller, NEW d \in Delivery, Summarise(c, d)
      PROVE  QueuedOnce
  BY <1>10, <1>0, SummariseEffect DEF QueuedOnce, Unqueued, Fans, rows, OtherCalls, Summary,
     Target
<1>11. ASSUME NEW c \in Caller, NEW d \in Delivery, FinishPush(c, d)
      PROVE  QueuedOnce
  <2>1. calls[c][d].result # "absent"
    BY DEF TypeOK, Call
  <2>2. QED
    BY <1>11, <1>0, <2>1, FinishPushEffect DEF QueuedOnce, Unqueued, Fans, OtherRows,
       OtherCalls, Sets
<1>12. ASSUME NEW c \in Caller, NEW d \in Delivery, FinishHook(c, d)
      PROVE  QueuedOnce
  BY <1>12, <1>0, FinishHookEffect DEF QueuedOnce, Unqueued, Fans, history, OtherRows,
     OtherCalls, Sets, AfterAnswer, Answered, Target
<1>13. ASSUME NEW c \in Caller, Crash(c)
      PROVE  QueuedOnce
  BY <1>13, <1>0, CrashEffect, NoTargetInHand DEF QueuedOnce, Unqueued, Fans, rows
<1>14. CASE Inert
  BY <1>14, <1>0 DEF Inert, history, QueuedOnce, Unqueued, Fans
<1>15. QED
  BY <1>1, <1>2, <1>3, <1>4, <1>5, <1>6, <1>7, <1>8, <1>9, <1>10, <1>11, <1>12, <1>13, <1>14,
     StepKinds

NoneInHand(d) == \A c \in Caller, t \in Target : calls[c][d].answer[t] = "none"

StillNone == \A x \in Prompt : Unqueued(x) /\ NoneInHand(x) => NoneInHand(x)'

LEMMA StillNoneStep == TypeOK /\ InHand /\ Leases /\ FanOuts /\ [Next]_vars => StillNone
<1> SUFFICES ASSUME TypeOK, InHand, Leases, FanOuts, [Next]_vars PROVE StillNone
  OBVIOUS
<1>0. /\ Dispatcher \subseteq Caller /\ Operator \subseteq Caller /\ Push \subseteq Delivery
      /\ \A d \in Delivery, t \in Target : accepted[d][t] \in Nat /\ missed[d][t] \in Nat
      /\ MaxAttempts \in Nat \ {0}
  BY DeliveryAssumption DEF Caller, TypeOK
<1>1. ASSUME NEW d \in Delivery, Enqueue(d)
      PROVE  StillNone
  BY <1>1, <1>0, EnqueueEffect DEF StillNone, Unqueued, NoneInHand, Prompt, history, OtherRows
<1>2. ASSUME NEW o \in Operator, NEW d \in Delivery, Test(o, d)
      PROVE  StillNone
  BY <1>2, <1>0, TestEffect DEF StillNone, Unqueued, NoneInHand, Prompt, history, OtherRows,
     OtherCalls, Sets
<1>3. ASSUME NEW o \in Operator, NEW d \in Delivery, FanOut(o, d)
      PROVE  StillNone
  BY <1>3, <1>0, FanOutEffect DEF StillNone, Unqueued, NoneInHand, Prompt, history, OtherRows,
     OtherCalls, Sets
<1>4. ASSUME NEW o \in Operator, NEW old \in Delivery, NEW d \in Delivery, Retry(o, old, d)
      PROVE  StillNone
  BY <1>4, <1>0, RetryEffect DEF StillNone, Unqueued, NoneInHand, Prompt, history, OtherRows,
     OtherCalls, Sets
<1>5. ASSUME NEW c \in Caller, NEW d \in Delivery, ReadHook(c, d)
      PROVE  StillNone
  <2>1. ~Unqueued(d) \/ d \notin Prompt
    BY <1>5, <1>0, ReadHookEffect DEF Unqueued, Leases, Holds, FanOuts
  <2>2. QED
    BY <1>5, <2>1, <1>0, ReadHookEffect DEF StillNone, NoneInHand, Prompt, OtherCalls
<1>6. ASSUME NEW c \in Caller, NEW d \in Delivery, ReadParts(c, d)
      PROVE  StillNone
  <2>1. ~Unqueued(d) \/ d \notin Prompt \/ \A e \in Device : parts[d][e].status = "absent"
    BY <1>6, <1>0, ReadPartsEffect DEF Unqueued, Leases, Holds, FanOuts
  <2>2. QED
    BY <1>6, <2>1, <1>0, ReadPartsEffect DEF StillNone, NoneInHand, Prompt, OtherCalls, Target
<1>7. ASSUME NEW c \in Caller, NEW d \in Delivery, NEW t \in Target,
             NEW answer \in {"ok", "retry", "refused", "invalid"}, NEW taken \in BOOLEAN,
             Send(c, d, t, answer, taken)
      PROVE  StillNone
  <2>1. ~NoneInHand(d)
    BY <1>7, SendEffect DEF NoneInHand
  <2>2. QED
    BY <1>7, <2>1, <1>0, SendEffect DEF StillNone, NoneInHand, Prompt, Answers, OtherCalls
<1>8. ASSUME NEW c \in Caller, NEW d \in Delivery, NEW e \in Device, Invalidate(c, d, e)
      PROVE  StillNone
  <2>1. ~NoneInHand(d)
    BY <1>8, InvalidateEffect DEF NoneInHand, Target
  <2>2. QED
    BY <1>8, <2>1, <1>0, InvalidateEffect DEF StillNone, NoneInHand, Prompt, Answers, OtherCalls
<1>9. ASSUME NEW c \in Caller, NEW d \in Delivery, NEW e \in Device, NotePart(c, d, e)
      PROVE  StillNone
  <2>1. ~NoneInHand(d)
    BY <1>9, NotePartEffect DEF NoneInHand, Target, Answered
  <2>2. QED
    BY <1>9, <2>1, <1>0, NotePartEffect DEF StillNone, NoneInHand, Prompt, Answers, OtherCalls
<1>10. ASSUME NEW c \in Caller, NEW d \in Delivery, Summarise(c, d)
      PROVE  StillNone
  BY <1>10, <1>0, SummariseEffect DEF StillNone, Unqueued, NoneInHand, Prompt, rows,
     OtherCalls, Summary, Target
<1>11. ASSUME NEW c \in Caller, NEW d \in Delivery, FinishPush(c, d)
      PROVE  StillNone
  BY <1>11, <1>0, FinishPushEffect DEF StillNone, Unqueued, NoneInHand, Prompt, history,
     OtherRows, OtherCalls, Sets
<1>12. ASSUME NEW c \in Caller, NEW d \in Delivery, FinishHook(c, d)
      PROVE  StillNone
  BY <1>12, <1>0, FinishHookEffect DEF StillNone, Unqueued, NoneInHand, Prompt, history,
     OtherRows, OtherCalls, Sets, AfterAnswer, Answered, Target
<1>13. ASSUME NEW c \in Caller, Crash(c)
      PROVE  StillNone
  BY <1>13, <1>0, CrashEffect, NoTargetInHand DEF StillNone, Unqueued, NoneInHand, Prompt, rows
<1>14. CASE Inert
  BY <1>14, <1>0 DEF Inert, history, StillNone, Unqueued, NoneInHand, Prompt
<1>15. QED
  BY <1>1, <1>2, <1>3, <1>4, <1>5, <1>6, <1>7, <1>8, <1>9, <1>10, <1>11, <1>12, <1>13, <1>14,
     StepKinds

LEMMA NotInHandStep ==
    TypeOK /\ InHand /\ Leases /\ FanOuts /\ NotInHandYet /\ [Next]_vars => NotInHandYet'
BY QueuedOnceStep, StillNoneStep DEF QueuedOnce, StillNone, NoneInHand, NotInHandYet, Prompt

\* An answer to a target in hand puts no other target in hand.
LEMMA AnswerKept ==
    ASSUME NEW c \in Caller, NEW d \in Delivery, NEW t \in Target, NEW answer,
           calls[c][d].answer[t] # "none", Answers(c, d, t, answer)
    PROVE  \A b \in Caller, x \in Delivery, u \in Target :
              /\ calls'[b][x].pc = calls[b][x].pc
              /\ calls'[b][x].tries = calls[b][x].tries
              /\ calls'[b][x].result = calls[b][x].result
              /\ calls'[b][x].answer[u] # "none" => calls[b][x].answer[u] # "none"
              /\ calls'[b][x].answer[u] = IF b = c /\ x = d /\ u = t THEN answer
                                         ELSE calls[b][x].answer[u]
<1>1. ASSUME NEW b \in Caller, NEW x \in Delivery, NEW u \in Target
      PROVE  /\ calls'[b][x].pc = calls[b][x].pc
             /\ calls'[b][x].tries = calls[b][x].tries
             /\ calls'[b][x].result = calls[b][x].result
             /\ calls'[b][x].answer[u] = IF b = c /\ x = d /\ u = t THEN answer
                                        ELSE calls[b][x].answer[u]
  <2>1. CASE b = c /\ x = d
    BY <2>1 DEF Answers
  <2>2. CASE b # c \/ x # d
    BY <2>2 DEF Answers, OtherCalls
  <2>3. QED
    BY <2>1, <2>2
<1>2. QED
  BY <1>1

LEMMA AttemptsStep == TypeOK /\ InHand /\ Leases /\ AttemptsLeft /\ [Next]_vars => AttemptsLeft'
<1> SUFFICES ASSUME TypeOK, InHand, Leases, AttemptsLeft, [Next]_vars PROVE AttemptsLeft'
  OBVIOUS
<1>0. /\ Dispatcher \subseteq Caller /\ Operator \subseteq Caller /\ Push \subseteq Delivery
      /\ \A d \in Delivery, t \in Target : accepted[d][t] \in Nat /\ missed[d][t] \in Nat
      /\ MaxAttempts \in Nat \ {0}
  BY DeliveryAssumption DEF Caller, TypeOK
<1>a. /\ \A d \in Delivery : deliveries[d].attempts \in Nat
      /\ \A d \in Delivery, e \in Device : parts[d][e].attempts \in Nat
      /\ \A c \in Caller, d \in Delivery, t \in Target : calls[c][d].tries[t] \in Nat
  BY DEF TypeOK, DeliveryRow, PartRow, Call
<1>1. ASSUME NEW d \in Delivery, Enqueue(d)
      PROVE  AttemptsLeft'
  BY <1>1, <1>0, <1>a, EnqueueEffect DEF AttemptsLeft, Prompt, history, OtherRows
<1>2. ASSUME NEW o \in Operator, NEW d \in Delivery, Test(o, d)
      PROVE  AttemptsLeft'
  BY <1>2, <1>0, <1>a, TestEffect DEF AttemptsLeft, Prompt, history, OtherRows, OtherCalls, Sets
<1>3. ASSUME NEW o \in Operator, NEW d \in Delivery, FanOut(o, d)
      PROVE  AttemptsLeft'
  BY <1>3, <1>0, <1>a, FanOutEffect DEF AttemptsLeft, Prompt, history, OtherRows, OtherCalls,
     Sets
<1>4. ASSUME NEW o \in Operator, NEW old \in Delivery, NEW d \in Delivery, Retry(o, old, d)
      PROVE  AttemptsLeft'
  BY <1>4, <1>0, <1>a, RetryEffect DEF AttemptsLeft, Prompt, history, OtherRows, OtherCalls,
     Sets
<1>5. ASSUME NEW c \in Caller, NEW d \in Delivery, ReadHook(c, d)
      PROVE  AttemptsLeft'
  <2>1. d \in Prompt => deliveries[d].attempts < MaxAttempts
    BY <1>5, ReadHookEffect DEF Leases, Holds, AttemptsLeft
  <2>2. \A b \in Caller, x \in Prompt, t \in Target :
          calls'[b][x].answer[t] # "none" => calls'[b][x].tries[t] < MaxAttempts
    BY <1>5, <2>1, <1>a, ReadHookEffect DEF AttemptsLeft, Prompt, OtherCalls, Target
  <2>3. QED
    BY <1>5, <2>2, ReadHookEffect DEF AttemptsLeft, rows
<1>6. ASSUME NEW c \in Caller, NEW d \in Delivery, ReadParts(c, d)
      PROVE  AttemptsLeft'
  BY <1>6, <1>0, <1>a, ReadPartsEffect DEF AttemptsLeft, Prompt, history, OtherRows,
     OtherCalls, Target
<1>7. ASSUME NEW c \in Caller, NEW d \in Delivery, NEW t \in Target,
             NEW answer \in {"ok", "retry", "refused", "invalid"}, NEW taken \in BOOLEAN,
             Send(c, d, t, answer, taken)
      PROVE  AttemptsLeft'
  <2>1. \A b \in Caller, x \in Delivery, u \in Target :
          /\ calls'[b][x].answer[u] # "none" => calls[b][x].answer[u] # "none"
          /\ calls'[b][x].tries = calls[b][x].tries
    BY <1>7, SendEffect, AnswerKept
  <2>2. QED
    BY <1>7, <2>1, SendEffect DEF AttemptsLeft, Prompt, rows
<1>8. ASSUME NEW c \in Caller, NEW d \in Delivery, NEW e \in Device, Invalidate(c, d, e)
      PROVE  AttemptsLeft'
  BY <1>8, <1>0, <1>a, InvalidateEffect DEF AttemptsLeft, Prompt, rows, history, OtherCalls,
     Answers, Target
<1>9. ASSUME NEW c \in Caller, NEW d \in Delivery, NEW e \in Device, NotePart(c, d, e)
      PROVE  AttemptsLeft'
  <2>1. d \in Prompt => calls[c][d].tries[e] < MaxAttempts
    BY <1>9, NotePartEffect DEF AttemptsLeft, Answered, Target
  <2>2. d \in Prompt => /\ parts'[d][e].attempts <= MaxAttempts
                        /\ parts'[d][e].status = "pending" => parts'[d][e].attempts < MaxAttempts
    <3>1. calls[c][d].tries[e] \in Nat
      BY <1>a DEF Target
    <3>2. \A n \in Nat, a \in Answered : AfterAnswer(n, a) = "pending" => n + 1 < MaxAttempts
      BY <1>0 DEF AfterAnswer, Answered
    <3>3. QED
      BY <1>9, <2>1, <3>1, <3>2, <1>0, NotePartEffect DEF AttemptsLeft, Prompt
  <2>3. \A x \in Delivery, f \in Device : x # d \/ f # e => parts'[x][f] = parts[x][f]
    BY <1>9, NotePartEffect
  <2>4. \A b \in Caller, x \in Delivery, u \in Target :
          /\ calls'[b][x].answer[u] # "none" => calls[b][x].answer[u] # "none"
          /\ calls'[b][x].tries = calls[b][x].tries
    BY <1>9, NotePartEffect, AnswerKept DEF Answered, Target
  <2>5. UNCHANGED deliveries
    BY <1>9, NotePartEffect
  <2>6. QED
    BY <2>2, <2>3, <2>4, <2>5 DEF AttemptsLeft, Prompt
<1>10. ASSUME NEW c \in Caller, NEW d \in Delivery, Summarise(c, d)
      PROVE  AttemptsLeft'
  BY <1>10, <1>0, <1>a, SummariseEffect DEF AttemptsLeft, Prompt, rows, OtherCalls, Summary,
     Target
<1>11. ASSUME NEW c \in Caller, NEW d \in Delivery, FinishPush(c, d)
      PROVE  AttemptsLeft'
  <2>1. d \in Prompt => deliveries[d].status = "removed" \/ deliveries[d].attempts < MaxAttempts
    BY <1>11, FinishPushEffect DEF Leases, Holds, AttemptsLeft
  <2>2. QED
    BY <1>11, <2>1, <1>0, <1>a, FinishPushEffect DEF AttemptsLeft, Prompt, OtherRows,
       OtherCalls, Sets
<1>12. ASSUME NEW c \in Caller, NEW d \in Delivery, FinishHook(c, d)
      PROVE  AttemptsLeft'
  <2>1. d \in Prompt => calls[c][d].tries[Hook] < MaxAttempts
    BY <1>12, FinishHookEffect DEF AttemptsLeft, Answered, Target
  <2>2. deliveries[d].status # "removed" /\ d \in Prompt =>
          /\ deliveries'[d].attempts <= MaxAttempts
          /\ deliveries'[d].status = "pending" => deliveries'[d].attempts < MaxAttempts
    <3>1. calls[c][d].tries[Hook] \in Nat
      BY <1>a, DeliveryAssumption DEF Target
    <3>2. \A n \in Nat, a \in Answered : AfterAnswer(n, a) = "pending" => n + 1 < MaxAttempts
      BY <1>0 DEF AfterAnswer, Answered
    <3>3. QED
      BY <1>12, <2>1, <3>1, <3>2, <1>0, FinishHookEffect
  <2>3. QED
    BY <1>12, <2>2, <1>0, <1>a, FinishHookEffect DEF AttemptsLeft, Prompt, OtherRows,
       OtherCalls, Sets
<1>13. ASSUME NEW c \in Caller, Crash(c)
      PROVE  AttemptsLeft'
  BY <1>13, <1>0, <1>a, CrashEffect, NoTargetInHand DEF AttemptsLeft, Prompt, rows
<1>14. CASE Inert
  BY <1>14, <1>0, <1>a DEF Inert, AttemptsLeft, Prompt
<1>15. QED
  BY <1>1, <1>2, <1>3, <1>4, <1>5, <1>6, <1>7, <1>8, <1>9, <1>10, <1>11, <1>12, <1>13, <1>14,
     StepKinds

\* A target in hand is in the hand of the call that has the delivery.
LEMMA OneHand ==
    ASSUME InHand, Leases, NEW d \in Prompt, NEW b \in Caller, NEW c \in Caller,
           NEW t \in Target, calls[b][d].answer[t] # "none", Holds(c, d)
    PROVE  b = c
BY DEF InHand, Leases, Holds, Prompt

\* With what was accepted unchanged, it is enough that no target comes into hand or
\* is to be sent to again that was not owed the message.
LEMMA RepeatsKept ==
    ASSUME Repeats, UNCHANGED <<accepted, missed>>,
           \A d \in Prompt, t \in Target :
               /\ \A c \in Caller :
                     calls'[c][d].answer[t] = calls[c][d].answer[t] \/ Owed(d, t)
               /\ ToSend(d, t)' => ToSend(d, t)
    PROVE  Repeats'
BY DEF Repeats, Owed

LEMMA RepeatStep == TypeOK /\ InHand /\ Leases /\ FanOuts /\ NotInHandYet /\ Repeats /\ [Next]_vars => Repeats'
<1> SUFFICES ASSUME TypeOK, InHand, Leases, FanOuts, NotInHandYet, Repeats, [Next]_vars PROVE Repeats'
  OBVIOUS
<1>0. /\ Dispatcher \subseteq Caller /\ Operator \subseteq Caller /\ Push \subseteq Delivery
      /\ \A d \in Delivery, t \in Target : accepted[d][t] \in Nat /\ missed[d][t] \in Nat
      /\ MaxAttempts \in Nat \ {0}
  BY DeliveryAssumption DEF Caller, TypeOK
<1>q. \A x \in Delivery : Unqueued(x)' => Unqueued(x)
  BY QueuedOnceStep DEF QueuedOnce
<1>n. \A x \in Prompt : Unqueued(x) => \A c \in Caller, t \in Target : calls[c][x].answer[t] = "none"
  BY DEF NotInHandYet
<1>h. \A x \in Prompt, b, c \in Caller, t \in Target :
        calls[b][x].answer[t] # "none" /\ Holds(c, x) => b = c
  BY OneHand
<1>p. Prompt \subseteq Delivery
  BY DEF Prompt
<1>1. ASSUME NEW d \in Delivery, Enqueue(d)
      PROVE  Repeats'
  <2>1. \A x \in Prompt, u \in Target, b \in Caller :
          calls'[b][x].answer[u] = calls[b][x].answer[u]
    BY <1>1, <1>0, <1>p, EnqueueEffect DEF InHand
  <2>2. \A x \in Prompt, u \in Target : ToSend(x, u)' => ToSend(x, u)
    BY <1>1, <1>0, <1>p, <1>q, EnqueueEffect DEF ToSend, Unqueued, OtherRows
  <2>3. UNCHANGED <<accepted, missed>>
    BY <1>1, <1>0, EnqueueEffect DEF history
  <2>4. QED
    BY <2>1, <2>2, <2>3, RepeatsKept
<1>2. ASSUME NEW o \in Operator, NEW d \in Delivery, Test(o, d)
      PROVE  Repeats'
  <2>1. \A x \in Prompt, u \in Target, b \in Caller :
          calls'[b][x].answer[u] = calls[b][x].answer[u]
    BY <1>2, <1>0, <1>p, TestEffect DEF InHand, Sets, OtherCalls
  <2>2. \A x \in Prompt, u \in Target : ToSend(x, u)' => ToSend(x, u)
    BY <1>2, <1>0, <1>p, <1>q, TestEffect DEF ToSend, Unqueued, OtherRows
  <2>3. UNCHANGED <<accepted, missed>>
    BY <1>2, <1>0, TestEffect DEF history
  <2>4. QED
    BY <2>1, <2>2, <2>3, RepeatsKept
<1>3. ASSUME NEW o \in Operator, NEW d \in Delivery, FanOut(o, d)
      PROVE  Repeats'
  <2>1. \A x \in Prompt, u \in Target, b \in Caller :
          calls'[b][x].answer[u] = calls[b][x].answer[u]
    BY <1>3, <1>0, <1>p, FanOutEffect DEF InHand, Sets, OtherCalls
  <2>2. \A x \in Prompt, u \in Target : ToSend(x, u)' => ToSend(x, u)
    BY <1>3, <1>0, <1>p, <1>q, FanOutEffect DEF ToSend, Unqueued, OtherRows, Fans
  <2>3. UNCHANGED <<accepted, missed>>
    BY <1>3, <1>0, FanOutEffect DEF history
  <2>4. QED
    BY <2>1, <2>2, <2>3, RepeatsKept
<1>4. ASSUME NEW o \in Operator, NEW old \in Delivery, NEW d \in Delivery, Retry(o, old, d)
      PROVE  Repeats'
  <2>1. \A x \in Prompt, u \in Target, b \in Caller :
          calls'[b][x].answer[u] = calls[b][x].answer[u]
    BY <1>4, <1>0, <1>p, RetryEffect DEF InHand, Sets, OtherCalls
  <2>2. \A x \in Prompt, u \in Target : ToSend(x, u)' => ToSend(x, u)
    BY <1>4, <1>0, <1>p, <1>q, RetryEffect DEF ToSend, Unqueued, OtherRows
  <2>3. UNCHANGED <<accepted, missed>>
    BY <1>4, <1>0, RetryEffect DEF history
  <2>4. QED
    BY <2>1, <2>2, <2>3, RepeatsKept
<1>5. ASSUME NEW c \in Caller, NEW d \in Delivery, ReadHook(c, d)
      PROVE  Repeats'
  <2>1. d \in Prompt => ToSend(d, Hook) /\ \A b \in Caller : calls[b][d].answer[Hook] = "none"
    BY <1>5, <1>0, <1>h, ReadHookEffect DEF ToSend, Leases, Holds, InHand, Target
  <2>2. d \in Prompt => Owed(d, Hook)
    BY <2>1 DEF Repeats, Target
  <2>3. \A x \in Prompt, u \in Target, b \in Caller :
          calls'[b][x].answer[u] = calls[b][x].answer[u] \/ Owed(x, u)
    BY <1>5, <1>0, <1>p, <2>2, ReadHookEffect DEF InHand, OtherCalls, Target
  <2>4. \A x \in Prompt, u \in Target : ToSend(x, u)' => ToSend(x, u)
    BY <1>5, <1>0, <1>p, <1>q, ReadHookEffect DEF ToSend, rows
  <2>5. UNCHANGED <<accepted, missed>>
    BY <1>5, <1>0, ReadHookEffect DEF history
  <2>6. QED
    BY <2>3, <2>4, <2>5, RepeatsKept
<1>6. ASSUME NEW c \in Caller, NEW d \in Delivery, ReadParts(c, d)
      PROVE  Repeats'
  <2>1. d \in Prompt => \A e \in Device : calls'[c][d].answer[e] # "none" =>
          ToSend(d, e) /\ \A b \in Caller : calls[b][d].answer[e] = "none"
    BY <1>6, <1>0, <1>h, ReadPartsEffect DEF ToSend, Holds, InHand, Target
  <2>2. d \in Prompt => \A e \in Device : calls'[c][d].answer[e] # "none" => Owed(d, e)
    BY <2>1 DEF Repeats, Target
  <2>3. \A x \in Prompt, u \in Target, b \in Caller :
          calls'[b][x].answer[u] = calls[b][x].answer[u] \/ Owed(x, u)
    BY <1>6, <1>0, <1>p, <2>2, ReadPartsEffect DEF InHand, OtherCalls, Target
  <2>4. \A x \in Prompt, u \in Target : ToSend(x, u)' => ToSend(x, u)
    BY <1>6, <1>0, <1>p, <1>q, ReadPartsEffect DEF ToSend, OtherRows
  <2>5. UNCHANGED <<accepted, missed>>
    BY <1>6, <1>0, ReadPartsEffect DEF history
  <2>6. QED
    BY <2>3, <2>4, <2>5, RepeatsKept
<1>7. ASSUME NEW c \in Caller, NEW d \in Delivery, NEW t \in Target,
             NEW answer \in {"ok", "retry", "refused", "invalid"}, NEW taken \in BOOLEAN,
             Send(c, d, t, answer, taken)
      PROVE  Repeats'
  <2>1. \A b \in Caller, x \in Delivery, u \in Target :
          calls'[b][x].answer[u] = IF b = c /\ x = d /\ u = t THEN answer ELSE calls[b][x].answer[u]
    BY <1>7, SendEffect, AnswerKept
  <2>2. \A x \in Prompt, u \in Target : ToSend(x, u)' => ToSend(x, u)
    BY <1>7, <1>0, <1>p, <1>q, SendEffect DEF ToSend, rows
  <2>3. d \in Prompt => Owed(d, t) /\ \A b \in Caller : calls[b][d].answer[t] # "none" => b = c
    BY <1>7, <1>0, <1>h, SendEffect DEF Repeats, Holds, InHand
  <2>4. ASSUME NEW x \in Prompt, NEW u \in Target, x # d \/ u # t
        PROVE  /\ accepted'[x][u] = accepted[x][u] /\ missed'[x][u] = missed[x][u]
               /\ \A b \in Caller : calls'[b][x].answer[u] = calls[b][x].answer[u]
    BY <1>7, <2>1, <2>4, <1>p, SendEffect
  <2>5. ASSUME NEW x \in Prompt, NEW u \in Target, x # d \/ u # t
        PROVE  /\ accepted'[x][u] <= 1 + missed'[x][u]
               /\ \A b \in Caller : calls'[b][x].answer[u] \notin {"none", "ok"} => Owed(x, u)'
               /\ ToSend(x, u)' /\ (\A b \in Caller : calls'[b][x].answer[u] # "ok") => Owed(x, u)'
    BY <2>2, <2>4, <2>5 DEF Repeats, Owed
  <2>6. ASSUME d \in Prompt
        PROVE  /\ accepted'[d][t] <= 1 + missed'[d][t]
               /\ \A b \in Caller : calls'[b][d].answer[t] \notin {"none", "ok"} => Owed(d, t)'
               /\ ToSend(d, t)' /\ (\A b \in Caller : calls'[b][d].answer[t] # "ok") => Owed(d, t)'
    <3>1. /\ accepted[d][t] \in Nat /\ missed[d][t] \in Nat
          /\ accepted[d][t] <= missed[d][t]
      BY <2>3, <2>6, <1>0 DEF Owed
    <3>2. CASE answer = "ok"
      <4>1. accepted'[d][t] <= 1 + missed'[d][t]
        BY <1>7, <3>1, <3>2, SendEffect
      <4>2. \A b \in Caller : calls'[b][d].answer[t] \in {"none", "ok"}
        BY <2>1, <2>3, <2>6, <3>2
      <4>3. calls'[c][d].answer[t] = "ok"
        BY <2>1, <3>2
      <4>4. QED
        BY <4>1, <4>2, <4>3
    <3>3. CASE answer # "ok"
      <4>1. accepted'[d][t] <= missed'[d][t] /\ accepted'[d][t] <= 1 + missed'[d][t]
        BY <1>7, <3>1, <3>3, SendEffect
      <4>2. QED
        BY <4>1 DEF Owed
    <3>4. QED
      BY <3>2, <3>3
  <2>7. QED
    BY <2>5, <2>6 DEF Repeats
<1>8. ASSUME NEW c \in Caller, NEW d \in Delivery, NEW e \in Device, Invalidate(c, d, e)
      PROVE  Repeats'
  <2>1. \A b \in Caller, x \in Delivery, u \in Target :
          calls'[b][x].answer[u] = IF b = c /\ x = d /\ u = e THEN "refused" ELSE calls[b][x].answer[u]
    BY <1>8, InvalidateEffect, AnswerKept DEF Target
  <2>2. \A x \in Prompt, u \in Target : ToSend(x, u)' => ToSend(x, u)
    BY <1>8, <1>0, <1>p, <1>q, InvalidateEffect DEF ToSend, rows
  <2>3. d \in Prompt => Owed(d, e)
    BY <1>8, <1>0, InvalidateEffect DEF Repeats, Target
  <2>4. UNCHANGED <<accepted, missed>>
    BY <1>8, InvalidateEffect DEF history
  <2>5. QED
    BY <2>1, <2>2, <2>3, <2>4, <1>p, RepeatsKept
<1>9. ASSUME NEW c \in Caller, NEW d \in Delivery, NEW e \in Device, NotePart(c, d, e)
      PROVE  Repeats'
  <2>1. \A b \in Caller, x \in Delivery, u \in Target :
          calls'[b][x].answer[u] = IF b = c /\ x = d /\ u = e THEN "none" ELSE calls[b][x].answer[u]
    BY <1>9, NotePartEffect, AnswerKept DEF Target, Answered
  <2>2. calls[c][d].answer[e] # "none" /\ e \in Target
    BY <1>9, NotePartEffect DEF Target, Answered
  <2>3. d \in Prompt => ~Unqueued(d)'
    BY <1>9, <2>2, <1>n, <1>q
  <2>4. UNCHANGED deliveries /\ \A x \in Delivery, f \in Device : x # d \/ f # e => parts'[x][f] = parts[x][f]
    BY <1>9, NotePartEffect
  <2>5. \A x \in Prompt, u \in Target : x # d \/ u # e => (ToSend(x, u)' => ToSend(x, u))
    BY <1>p, <1>q, <2>4 DEF ToSend
  <2>6. d \in Prompt => Owed(d, e) \/ ~ToSend(d, e)'
    <3>1. CASE calls[c][d].answer[e] = "ok"
      <4>1. parts'[d][e].status # "pending"
        BY <1>9, <3>1, NotePartEffect DEF AfterAnswer
      <4>2. QED
        BY <2>3, <4>1, DeliveryAssumption DEF ToSend
    <3>2. CASE calls[c][d].answer[e] # "ok"
      BY <1>9, <2>2, <3>2 DEF Repeats
    <3>3. QED
      BY <3>1, <3>2
  <2>7. \A x \in Prompt, u \in Target : x # d \/ u # e =>
          \A b \in Caller : calls'[b][x].answer[u] = calls[b][x].answer[u]
    BY <2>1, <1>p
  <2>8. UNCHANGED <<accepted, missed>>
    BY <1>9, NotePartEffect DEF history
  <2>9. ASSUME NEW x \in Prompt, NEW u \in Target
        PROVE  /\ accepted'[x][u] <= 1 + missed'[x][u]
               /\ \A b \in Caller : calls'[b][x].answer[u] \notin {"none", "ok"} => Owed(x, u)'
               /\ ToSend(x, u)' /\ (\A b \in Caller : calls'[b][x].answer[u] # "ok") => Owed(x, u)'
    <3>1. CASE x # d \/ u # e
      BY <3>1, <2>5, <2>7, <2>8 DEF Repeats, Owed
    <3>2. CASE x = d /\ u = e
      BY <3>2, <2>1, <2>6, <2>8, <1>p DEF Repeats, Owed
    <3>3. QED
      BY <3>1, <3>2
  <2>10. QED
    BY <2>9 DEF Repeats
<1>10. ASSUME NEW c \in Caller, NEW d \in Delivery, Summarise(c, d)
      PROVE  Repeats'
  <2>1. \A x \in Prompt, u \in Target, b \in Caller :
          calls'[b][x].answer[u] = calls[b][x].answer[u]
    <3>1. \A u \in Target : calls[c][d].answer[u] = "none"
      BY <1>10 DEF Summarise
    <3>2. QED
      BY <1>10, <3>1, <1>p, SummariseEffect DEF OtherCalls
  <2>2. \A x \in Prompt, u \in Target : ToSend(x, u)' => ToSend(x, u)
    BY <1>10, <1>0, <1>p, <1>q, SummariseEffect DEF ToSend, rows
  <2>3. UNCHANGED <<accepted, missed>>
    BY <1>10, <1>0, SummariseEffect DEF history
  <2>4. QED
    BY <2>1, <2>2, <2>3, RepeatsKept
<1>11. ASSUME NEW c \in Caller, NEW d \in Delivery, FinishPush(c, d)
      PROVE  Repeats'
  <2>1. \A x \in Prompt, u \in Target, b \in Caller :
          calls'[b][x].answer[u] = calls[b][x].answer[u]
    BY <1>11, <1>0, <1>p, FinishPushEffect DEF InHand, Sets, OtherCalls
  <2>2. \A x \in Prompt, u \in Target : ToSend(x, u)' => ToSend(x, u)
    <3>1. UNCHANGED parts /\ \A x \in Delivery : x # d => deliveries'[x] = deliveries[x]
      BY <1>11, FinishPushEffect DEF OtherRows
    <3>2. d \in Prompt /\ deliveries'[d].status = "pending" => deliveries[d].status = "pending"
      BY <1>11, FinishPushEffect DEF Leases, Holds
    <3>3. QED
      BY <3>1, <3>2, <1>p, <1>q DEF ToSend
  <2>3. UNCHANGED <<accepted, missed>>
    BY <1>11, <1>0, FinishPushEffect DEF history
  <2>4. QED
    BY <2>1, <2>2, <2>3, RepeatsKept
<1>12. ASSUME NEW c \in Caller, NEW d \in Delivery, FinishHook(c, d)
      PROVE  Repeats'
  <2>1. \A b \in Caller, x \in Delivery, u \in Target :
          calls'[b][x].answer[u] = IF b = c /\ x = d /\ u = Hook THEN "none" ELSE calls[b][x].answer[u]
    <3>1. \A u \in Target : u # Hook => calls[c][d].answer[u] = "none"
      BY <1>12, <1>0, FinishHookEffect DEF InHand
    <3>2. QED
      BY <1>12, <3>1, FinishHookEffect DEF Sets, OtherCalls
  <2>2. calls[c][d].answer[Hook] # "none" /\ Hook \in Target
    BY <1>12, FinishHookEffect DEF Target, Answered
  <2>3. d \in Prompt => ~Unqueued(d)'
    BY <1>12, <2>2, <1>n, <1>q
  <2>4. UNCHANGED parts /\ \A x \in Delivery : x # d => deliveries'[x] = deliveries[x]
    BY <1>12, FinishHookEffect DEF OtherRows
  <2>5. \A x \in Prompt, u \in Target : x # d \/ u # Hook => (ToSend(x, u)' => ToSend(x, u))
    BY <1>p, <1>q, <2>4 DEF ToSend
  <2>6. d \in Prompt => Owed(d, Hook) \/ ~ToSend(d, Hook)'
    <3>1. CASE calls[c][d].answer[Hook] = "ok"
      <4>1. deliveries'[d].status # "pending"
        BY <1>12, <3>1, FinishHookEffect DEF AfterAnswer
      <4>2. QED
        BY <2>3, <4>1, DeliveryAssumption DEF ToSend
    <3>2. CASE calls[c][d].answer[Hook] # "ok"
      BY <1>12, <2>2, <3>2 DEF Repeats
    <3>3. QED
      BY <3>1, <3>2
  <2>7. \A x \in Prompt, u \in Target : x # d \/ u # Hook =>
          \A b \in Caller : calls'[b][x].answer[u] = calls[b][x].answer[u]
    BY <2>1, <1>p
  <2>8. UNCHANGED <<accepted, missed>>
    BY <1>12, FinishHookEffect DEF history
  <2>9. ASSUME NEW x \in Prompt, NEW u \in Target
        PROVE  /\ accepted'[x][u] <= 1 + missed'[x][u]
               /\ \A b \in Caller : calls'[b][x].answer[u] \notin {"none", "ok"} => Owed(x, u)'
               /\ ToSend(x, u)' /\ (\A b \in Caller : calls'[b][x].answer[u] # "ok") => Owed(x, u)'
    <3>1. CASE x # d \/ u # Hook
      BY <3>1, <2>5, <2>7, <2>8 DEF Repeats, Owed
    <3>2. CASE x = d /\ u = Hook
      BY <3>2, <2>1, <2>6, <2>8, <1>p DEF Repeats, Owed
    <3>3. QED
      BY <3>1, <3>2
  <2>10. QED
    BY <2>9 DEF Repeats
<1>13. ASSUME NEW c \in Caller, Crash(c)
      PROVE  Repeats'
  BY <1>13, <1>0, <1>q, <1>n, <1>p, CrashEffect, NoTargetInHand DEF Repeats, ToSend, Owed, rows
<1>14. CASE Inert
  BY <1>14, <1>0, <1>q, <1>n, <1>p DEF Inert, history, Repeats, Owed, ToSend, Target
<1>15. QED
  BY <1>1, <1>2, <1>3, <1>4, <1>5, <1>6, <1>7, <1>8, <1>9, <1>10, <1>11, <1>12, <1>13, <1>14,
     StepKinds

LEMMA SummaryStep == TypeOK /\ InHand /\ Leases /\ FanOuts /\ Summaries /\ [Next]_vars => Summaries'
<1> SUFFICES ASSUME TypeOK, InHand, Leases, FanOuts, Summaries, [Next]_vars PROVE Summaries'
  OBVIOUS
<1>0. /\ Dispatcher \subseteq Caller /\ Operator \subseteq Caller /\ Push \subseteq Delivery
      /\ \A d \in Delivery, t \in Target : accepted[d][t] \in Nat /\ missed[d][t] \in Nat
      /\ MaxAttempts \in Nat \ {0}
  BY DeliveryAssumption DEF Caller, TypeOK
<1>l. \A x \in Prompt, c \in Caller : Holds(c, x) => deliveries[x].status \in {"pending", "removed"}
  BY DEF Leases
<1>u. \A x \in Prompt, b, c \in Caller : Holds(b, x) /\ Holds(c, x) => b = c
  BY DEF Leases
<1>p. Push \ (Slow \cup hurried) \subseteq Prompt /\ Prompt \subseteq Delivery
  BY DeliveryAssumption DEF Prompt
<1>1. ASSUME NEW d \in Delivery, Enqueue(d)
      PROVE  Summaries'
  <2>1. d \in Prompt => \A c \in Caller : calls[c][d].pc # "summed"
    BY <1>1, <1>l, EnqueueEffect DEF Holds
  <2>2. \A c \in Caller, x \in Delivery :
          /\ calls'[c][x].pc = "summed" => calls[c][x].pc = "summed" /\ calls'[c][x] = calls[c][x]
          /\ x # d => (Fans(c, x)' => Fans(c, x))
    BY <1>1, <1>0, EnqueueEffect DEF Fans
  <2>3. deliveries'[d].status = "pending" /\ UNCHANGED hurried
    BY <1>1, EnqueueEffect DEF history
  <2>4. \A x \in Delivery : x # d => deliveries'[x] = deliveries[x] /\ parts'[x] = parts[x]
    BY <1>1, EnqueueEffect DEF OtherRows
  <2>5. \A x \in Push \ (Slow \cup hurried) : SummaryKept(x)'
    <3>1. SUFFICES ASSUME NEW x \in Push \ (Slow \cup hurried) PROVE SummaryKept(x)'
      OBVIOUS
    <3>2. CASE x = d
      BY <3>1, <3>2, <2>1, <2>2, <2>3, <1>p DEF SummaryKept
    <3>3. CASE x # d
      BY <3>1, <3>3, <2>2, <2>4, <1>p DEF Summaries, SummaryKept, AllSettled
    <3>4. QED
      BY <3>2, <3>3
  <2>6. QED
    BY <2>3, <2>5 DEF Summaries
<1>2. ASSUME NEW o \in Operator, NEW d \in Delivery, Test(o, d)
      PROVE  Summaries'
  <2>1. d \in Prompt => \A c \in Caller : calls[c][d].pc # "summed"
    BY <1>2, <1>l, TestEffect DEF Holds
  <2>2. \A c \in Caller, x \in Delivery :
          /\ calls'[c][x].pc = "summed" => calls[c][x].pc = "summed" /\ calls'[c][x] = calls[c][x]
          /\ x # d => (Fans(c, x)' => Fans(c, x))
    BY <1>2, <1>0, TestEffect DEF Fans, Sets, OtherCalls
  <2>3. deliveries'[d].status = "pending" /\ UNCHANGED hurried
    BY <1>2, TestEffect DEF history
  <2>4. \A x \in Delivery : x # d => deliveries'[x] = deliveries[x] /\ parts'[x] = parts[x]
    BY <1>2, TestEffect DEF OtherRows
  <2>5. \A x \in Push \ (Slow \cup hurried) : SummaryKept(x)'
    <3>1. SUFFICES ASSUME NEW x \in Push \ (Slow \cup hurried) PROVE SummaryKept(x)'
      OBVIOUS
    <3>2. CASE x = d
      BY <3>1, <3>2, <2>1, <2>2, <2>3, <1>p DEF SummaryKept
    <3>3. CASE x # d
      BY <3>1, <3>3, <2>2, <2>4, <1>p DEF Summaries, SummaryKept, AllSettled
    <3>4. QED
      BY <3>2, <3>3
  <2>6. QED
    BY <2>3, <2>5 DEF Summaries
<1>3. ASSUME NEW o \in Operator, NEW d \in Delivery, FanOut(o, d)
      PROVE  Summaries'
  BY <1>3, <1>0, <1>l, <1>p, FanOutEffect DEF Summaries, SummaryKept, AllSettled, Fans,
     history, OtherRows, OtherCalls, Sets
<1>4. ASSUME NEW o \in Operator, NEW old \in Delivery, NEW d \in Delivery, Retry(o, old, d)
      PROVE  Summaries'
  <2>1. d \in Prompt => \A c \in Caller : calls[c][d].pc # "summed"
    BY <1>4, <1>l, RetryEffect DEF Holds
  <2>2. \A c \in Caller, x \in Delivery :
          /\ calls'[c][x].pc = "summed" => calls[c][x].pc = "summed" /\ calls'[c][x] = calls[c][x]
          /\ x # d => (Fans(c, x)' => Fans(c, x))
    BY <1>4, <1>0, RetryEffect DEF Fans, Sets, OtherCalls
  <2>3. deliveries'[d].status = "pending" /\ UNCHANGED hurried
    BY <1>4, RetryEffect DEF history
  <2>4. \A x \in Delivery : x # d => deliveries'[x] = deliveries[x] /\ parts'[x] = parts[x]
    BY <1>4, RetryEffect DEF OtherRows
  <2>5. \A x \in Push \ (Slow \cup hurried) : SummaryKept(x)'
    <3>1. SUFFICES ASSUME NEW x \in Push \ (Slow \cup hurried) PROVE SummaryKept(x)'
      OBVIOUS
    <3>2. CASE x = d
      BY <3>1, <3>2, <2>1, <2>2, <2>3, <1>p DEF SummaryKept
    <3>3. CASE x # d
      BY <3>1, <3>3, <2>2, <2>4, <1>p DEF Summaries, SummaryKept, AllSettled
    <3>4. QED
      BY <3>2, <3>3
  <2>6. QED
    BY <2>3, <2>5 DEF Summaries
<1>5. ASSUME NEW c \in Caller, NEW d \in Delivery, ReadHook(c, d)
      PROVE  Summaries'
  BY <1>5, <1>0, <1>l, <1>p, ReadHookEffect DEF Summaries, SummaryKept, AllSettled, Fans, rows,
     history, OtherCalls, Target
<1>6. ASSUME NEW c \in Caller, NEW d \in Delivery, ReadParts(c, d)
      PROVE  Summaries'
  BY <1>6, <1>0, <1>l, <1>p, ReadPartsEffect DEF Summaries, SummaryKept, AllSettled, Fans,
     history, OtherRows, OtherCalls, Target
<1>7. ASSUME NEW c \in Caller, NEW d \in Delivery, NEW t \in Target,
             NEW answer \in {"ok", "retry", "refused", "invalid"}, NEW taken \in BOOLEAN,
             Send(c, d, t, answer, taken)
      PROVE  Summaries'
  <2>1. \A b \in Caller, x \in Delivery :
          calls'[b][x].pc = calls[b][x].pc /\ calls'[b][x].result = calls[b][x].result
    BY <1>7, SendEffect, AnswerKept
  <2>2. UNCHANGED <<deliveries, parts, hurried>>
    BY <1>7, SendEffect DEF rows
  <2>3. QED
    BY <2>1, <2>2, <1>p DEF Summaries, SummaryKept, AllSettled, Fans
<1>8. ASSUME NEW c \in Caller, NEW d \in Delivery, NEW e \in Device, Invalidate(c, d, e)
      PROVE  Summaries'
  BY <1>8, <1>0, <1>l, <1>p, InvalidateEffect DEF Summaries, SummaryKept, AllSettled, Fans,
     rows, history, OtherCalls, Answers, Target
<1>9. ASSUME NEW c \in Caller, NEW d \in Delivery, NEW e \in Device, NotePart(c, d, e)
      PROVE  Summaries'
  <2>1. \A b \in Caller, x \in Delivery :
          calls'[b][x].pc = calls[b][x].pc /\ calls'[b][x].result = calls[b][x].result
    BY <1>9, NotePartEffect, AnswerKept DEF Answered, Target
  <2>2. /\ UNCHANGED <<deliveries, hurried>>
        /\ \A x \in Delivery, f \in Device : x # d => parts'[x][f] = parts[x][f]
    BY <1>9, NotePartEffect DEF history
  <2>3. calls[c][d].pc = "sending"
    BY <1>9, NotePartEffect DEF InHand, Answered, Target
  <2>4. d \in Prompt => /\ deliveries[d].status \notin {"delivered", "failed"}
                        /\ \A b \in Caller : calls[b][d].pc # "summed"
    BY <2>3, <1>l, <1>u DEF Holds
  <2>5. \A x \in Push \ (Slow \cup hurried) : SummaryKept(x)'
    <3>1. SUFFICES ASSUME NEW x \in Push \ (Slow \cup hurried) PROVE SummaryKept(x)'
      OBVIOUS
    <3>2. CASE x = d
      BY <3>1, <3>2, <2>1, <2>2, <2>4, <1>p DEF SummaryKept
    <3>3. CASE x # d
      BY <3>1, <3>3, <2>1, <2>2, <1>p DEF Summaries, SummaryKept, AllSettled, Fans
    <3>4. QED
      BY <3>2, <3>3
  <2>6. QED
    BY <2>2, <2>5 DEF Summaries
<1>10. ASSUME NEW c \in Caller, NEW d \in Delivery, Summarise(c, d)
      PROVE  Summaries'
  <2>1. UNCHANGED <<deliveries, parts>> /\ hurried' = IF Fanning(d) THEN hurried \cup {d} ELSE hurried
    BY <1>10, SummariseEffect DEF rows
  <2>2. \A b \in Caller, x \in Delivery : b # c \/ x # d => calls'[b][x] = calls[b][x]
    BY <1>10, SummariseEffect DEF OtherCalls
  <2>3. /\ calls'[c][d].pc = "summed" /\ calls[c][d].pc = "sending"
        /\ calls'[c][d].result # "pending" => \A e \in Device : parts[d][e].status # "pending"
    BY <1>10, SummariseEffect DEF Summary, PendingParts
  <2>4. \A b \in Caller, x \in Delivery : Fans(b, x)' => Fans(b, x)
    BY <2>2, <2>3 DEF Fans
  <2>5. ~Fanning(d) => \A b \in Caller : ~Fans(b, d)
    BY DEF FanOuts, Fanning, Fans
  <2>6. d \in Prompt => deliveries[d].status \notin {"delivered", "failed"}
    BY <2>3, <1>l DEF Holds
  <2>7. \A x \in Push \ (Slow \cup hurried') : SummaryKept(x)'
    <3>1. SUFFICES ASSUME NEW x \in Push \ (Slow \cup hurried') PROVE SummaryKept(x)'
      OBVIOUS
    <3>2. x \in Push \ (Slow \cup hurried) /\ (x = d => ~Fanning(d)) /\ x \in Prompt
      BY <3>1, <2>1, <1>p
    <3>3. CASE x = d
      <4>1. \A b \in Caller : ~Fans(b, d)'
        BY <3>2, <3>3, <2>4, <2>5
      <4>2. deliveries'[d].status \notin {"delivered", "failed"}
        BY <2>1, <2>6, <3>2, <3>3
      <4>3. \A b \in Caller : calls'[b][d].pc = "summed" => b = c
        BY <2>2, <2>3, <3>2, <3>3, <1>u DEF Holds
      <4>4. QED
        BY <3>3, <4>1, <4>2, <4>3, <2>1, <2>3 DEF SummaryKept, AllSettled
    <3>4. CASE x # d
      BY <3>2, <3>4, <2>1, <2>2, <1>p DEF Summaries, SummaryKept, AllSettled, Fans
    <3>5. QED
      BY <3>3, <3>4
  <2>8. QED
    BY <2>7 DEF Summaries
<1>11. ASSUME NEW c \in Caller, NEW d \in Delivery, FinishPush(c, d)
      PROVE  Summaries'
  BY <1>11, <1>0, <1>l, <1>p, FinishPushEffect DEF Summaries, SummaryKept, AllSettled, Fans,
     history, OtherRows, OtherCalls, Sets
<1>12. ASSUME NEW c \in Caller, NEW d \in Delivery, FinishHook(c, d)
      PROVE  Summaries'
  BY <1>12, <1>0, <1>l, <1>p, FinishHookEffect DEF Summaries, SummaryKept, AllSettled, Fans,
     history, OtherRows, OtherCalls, Sets, AfterAnswer, Answered, Target
<1>13. ASSUME NEW c \in Caller, Crash(c)
      PROVE  Summaries'
  BY <1>13, <1>0, <1>l, <1>p, CrashEffect, NoTargetInHand DEF Summaries, SummaryKept,
     AllSettled, Fans, rows
<1>14. CASE Inert
  BY <1>14, <1>0, <1>p DEF Inert, history, Summaries, SummaryKept, AllSettled, Fans
<1>15. QED
  BY <1>1, <1>2, <1>3, <1>4, <1>5, <1>6, <1>7, <1>8, <1>9, <1>10, <1>11, <1>12, <1>13, <1>14,
     StepKinds

-----------------------------------------------------------------------------
(* The theorems.                                                           *)

IInv == /\ TypeOK /\ InHand /\ Leases /\ HeardOf /\ FanOuts /\ NotInHandYet
        /\ AttemptsLeft /\ Repeats /\ Summaries

LEMMA IInvInit == Init => IInv
<1> SUFFICES ASSUME Init PROVE IInv
  OBVIOUS
<1>1. TypeOK
  BY TypeInit
<1>2. /\ \A d \in Delivery : deliveries[d] = NoDelivery
      /\ \A d \in Delivery, e \in Device : parts[d][e] = NoPart
      /\ \A c \in Caller, d \in Delivery : calls[c][d] = Idle
      /\ \A d \in Delivery, t \in Target : accepted[d][t] = 0 /\ missed[d][t] = 0
  BY DEF Init
<1>3. \A c \in Caller, d \in Delivery :
        calls[c][d].pc = "idle" /\ \A t \in Target : calls[c][d].answer[t] = "none"
  BY <1>2 DEF Idle
<1>4. Prompt \subseteq Delivery /\ Push \subseteq Delivery /\ 0 < MaxAttempts
  BY DeliveryAssumption DEF Prompt
<1>5. /\ NoDelivery.status = "absent" /\ NoDelivery.attempts = 0
      /\ NoPart.status = "absent" /\ NoPart.attempts = 0
  BY DEF NoDelivery, NoPart
<1>6. /\ \A d \in Delivery : deliveries[d].status = "absent" /\ deliveries[d].attempts = 0
      /\ \A d \in Delivery, e \in Device : parts[d][e].status = "absent" /\ parts[d][e].attempts = 0
  BY <1>2, <1>5
<1>7. InHand
  BY <1>3 DEF InHand
<1>8. Leases
  BY <1>3, <1>4 DEF Leases, Holds
<1>9. HeardOf
  BY <1>3, <1>6 DEF HeardOf
<1>10. FanOuts
  BY <1>3, <1>6 DEF FanOuts, Fans
<1>11. NotInHandYet
  BY <1>3, <1>4 DEF NotInHandYet
<1>12. AttemptsLeft
  BY <1>3, <1>4, <1>6, DeliveryAssumption DEF AttemptsLeft
<1>13. Repeats
  BY <1>2, <1>3, <1>4 DEF Repeats, Owed
<1>14. Summaries
  BY <1>3, <1>4, <1>6 DEF Summaries, SummaryKept
<1>15. QED
  BY <1>1, <1>7, <1>8, <1>9, <1>10, <1>11, <1>12, <1>13, <1>14 DEF IInv

LEMMA IInvStep == IInv /\ [Next]_vars => IInv'
BY TypeStep, InHandStep, LeaseStep, HeardStep, FanOutStep, NotInHandStep, AttemptsStep,
   RepeatStep, SummaryStep DEF IInv

LEMMA Invariant == Spec => []IInv
<1>1. Init => IInv
  BY IInvInit
<1>2. IInv /\ [Next]_vars => IInv'
  BY IInvStep
<1>3. QED
  BY <1>1, <1>2, PTL DEF Spec

\* One call at a time has a delivery in hand, and while it has, the delivery is pending
\* under a lease or was removed: the claim of deliverById, over all callers.
OneCallAtATime ==
    \A d \in Delivery \ Slow, b, c \in Caller : Holds(b, d) /\ Holds(c, d) => b = c

\* Two calls of deliverById never have the same delivery in hand within its lease.
THEOREM ClaimsExclude == Spec => []OneCallAtATime
<1>1. IInv => OneCallAtATime
  BY DEF IInv, Leases, OneCallAtATime, Prompt
<1>2. QED
  BY <1>1, Invariant, PTL

\* A target takes a delivery once, and once more for each acceptance whose answer was
\* lost: retries, concurrent passes and claims taken over add nothing (deliverById).
THEOREM RepeatsAreNeeded == Spec => []NoNeedlessRepeat
<1>1. IInv => NoNeedlessRepeat
  BY DEF IInv, Repeats, NoNeedlessRepeat, Prompt
<1>2. QED
  BY <1>1, Invariant, PTL

\* No delivery and no part is attempted beyond the limit (deliverById, deliverEndpoint).
THEOREM AttemptsAreBounded == Spec => []WithinAttempts
<1>1. IInv => WithinAttempts
  BY DEF IInv, AttemptsLeft, WithinAttempts, Prompt
<1>2. QED
  BY <1>1, Invariant, PTL

\* A settled push delivery leaves no part pending (PushDeliveryService.result), unless
\* it was summed up before retry had fanned it out.
THEOREM SettledIsComplete == Spec => []SettledLeavesNothing
<1>1. IInv => SettledLeavesNothing
  BY DEF IInv, Summaries, SummaryKept, AllSettled, SettledLeavesNothing, PendingParts
<1>2. QED
  BY <1>1, Invariant, PTL

-----------------------------------------------------------------------------
(* NotificationDelivery implements DeliveryQueue.                           *)

PhaseOf(d) ==
    IF deliveries[d].status = "pending" /\ deliveries[d].claim = "fresh" THEN "taken"
    ELSE IF deliveries[d].status = "pending" THEN "waiting"
    ELSE deliveries[d].status

Heard == {d \in Delivery \ Slow : \E t \in Target : accepted[d][t] > 0}

\* Where one delivery moves and no target hears anything, the queue moves.
LEMMA QueueMoves ==
    ASSUME NEW d \in Delivery,
           \A x \in Delivery : x # d => PhaseOf(x)' = PhaseOf(x),
           UNCHANGED accepted,
           d \notin Slow =>
              \/ PhaseOf(d)' = PhaseOf(d)
              \/ PhaseOf(d) = "absent" /\ PhaseOf(d)' = "waiting"
              \/ PhaseOf(d) = "waiting" /\ PhaseOf(d)' = "taken"
              \/ PhaseOf(d) = "taken" /\ PhaseOf(d)' \in {"waiting", "failed"}
              \/ PhaseOf(d) = "taken" /\ PhaseOf(d)' = "delivered" /\ d \in Heard
              \/ PhaseOf(d) \in {"waiting", "taken", "delivered", "failed"} /\ PhaseOf(d)' = "removed"
    PROVE  [Queues!Next]_(Queues!vars)
<1> DEFINE phase == [x \in Delivery \ Slow |-> PhaseOf(x)]
<1>1. Heard' = Heard
  BY DEF Heard
<1>2. CASE d \in Slow \/ PhaseOf(d)' = PhaseOf(d)
  <2>1. phase' = phase
    BY <1>2
  <2>2. QED
    BY <1>1, <2>1 DEF PhaseOf, Heard, Queues!vars
<1>3. CASE d \in Delivery \ Slow /\ PhaseOf(d)' # PhaseOf(d)
  <2>1. phase' = [phase EXCEPT ![d] = PhaseOf(d)'] /\ phase[d] = PhaseOf(d)
    BY <1>3
  <2>2. \/ Queues!Add(d) \/ Queues!Take(d) \/ Queues!GiveBack(d) \/ Queues!GiveUp(d)
        \/ Queues!Deliver(d) \/ Queues!Remove(d)
    BY <1>1, <1>3, <2>1 DEF PhaseOf, Heard, Queues!Add, Queues!Take, Queues!GiveBack,
       Queues!GiveUp, Queues!Deliver, Queues!Remove, Queues!Move
  <2>3. QED
    BY <1>3, <2>2 DEF Queues!Next
<1>4. QED
  BY <1>2, <1>3

\* Where no delivery moves and nothing is heard, the queue does not move.
LEMMA QueueStays ==
    ASSUME UNCHANGED <<deliveries, accepted>>
    PROVE  [Queues!Next]_(Queues!vars)
BY DEF Queues!vars

LEMMA QueueStep ==
    TypeOK /\ InHand /\ Leases /\ HeardOf /\ [Next]_vars => [Queues!Next]_(Queues!vars)
<1> SUFFICES ASSUME TypeOK, InHand, Leases, HeardOf, [Next]_vars
             PROVE  [Queues!Next]_(Queues!vars)
  OBVIOUS
<1>1. ASSUME NEW d \in Delivery, Enqueue(d)
      PROVE  [Queues!Next]_(Queues!vars)
  <2>1. \A x \in Delivery : x # d => PhaseOf(x)' = PhaseOf(x)
    BY <1>1, EnqueueEffect DEF PhaseOf, OtherRows
  <2>2. UNCHANGED accepted
    BY <1>1, EnqueueEffect DEF history
  <2>3. PhaseOf(d) = "absent" /\ PhaseOf(d)' = "waiting"
    BY <1>1, EnqueueEffect DEF PhaseOf
  <2>9. QED
    BY <2>1, <2>2, <2>3, QueueMoves
<1>2. ASSUME NEW d \in Delivery, ExpireLease(d)
      PROVE  [Queues!Next]_(Queues!vars)
  <2>1. \A x \in Delivery : x # d => PhaseOf(x)' = PhaseOf(x)
    BY <1>2, ExpireLeaseEffect DEF PhaseOf, OtherRows
  <2>2. UNCHANGED accepted
    BY <1>2, ExpireLeaseEffect DEF history
  <2>3. \/ PhaseOf(d)' = PhaseOf(d)
        \/ PhaseOf(d) = "taken" /\ PhaseOf(d)' = "waiting"
    BY <1>2, ExpireLeaseEffect DEF PhaseOf, SameButClaim
  <2>9. QED
    BY <2>1, <2>2, <2>3, QueueMoves
<1>3. ASSUME NEW d \in Delivery, Elapse(d)
      PROVE  [Queues!Next]_(Queues!vars)
  <2>1. \A x \in Delivery : x # d => PhaseOf(x)' = PhaseOf(x)
    BY <1>3, ElapseEffect DEF PhaseOf, OtherRows
  <2>2. UNCHANGED accepted
    BY <1>3, ElapseEffect DEF history
  <2>3. PhaseOf(d)' = PhaseOf(d)
    BY <1>3, ElapseEffect DEF PhaseOf, SameButClaim
  <2>9. QED
    BY <2>1, <2>2, <2>3, QueueMoves
<1>4. ASSUME NEW d \in Delivery, Remove(d)
      PROVE  [Queues!Next]_(Queues!vars)
  <2>1. \A x \in Delivery : x # d => PhaseOf(x)' = PhaseOf(x)
    BY <1>4, RemoveEffect DEF PhaseOf, OtherRows
  <2>2. UNCHANGED accepted
    BY <1>4, RemoveEffect DEF history
  <2>3. \/ PhaseOf(d)' = PhaseOf(d)
        \/ PhaseOf(d) \in {"waiting", "taken", "delivered", "failed"} /\ PhaseOf(d)' = "removed"
    BY <1>4, RemoveEffect DEF PhaseOf, TypeOK, DeliveryRow
  <2>9. QED
    BY <2>1, <2>2, <2>3, QueueMoves
<1>5. ASSUME NEW d \in Delivery, NEW e \in Device, ElapsePart(d, e)
      PROVE  [Queues!Next]_(Queues!vars)
  BY <1>5, ElapsePartEffect, QueueStays DEF rows, history
<1>6. ASSUME NEW o \in Operator, NEW d \in Delivery, Test(o, d)
      PROVE  [Queues!Next]_(Queues!vars)
  <2>1. \A x \in Delivery : x # d => PhaseOf(x)' = PhaseOf(x)
    BY <1>6, TestEffect DEF PhaseOf, OtherRows
  <2>2. UNCHANGED accepted
    BY <1>6, TestEffect DEF history
  <2>3. PhaseOf(d) = "absent" /\ PhaseOf(d)' = "waiting"
    BY <1>6, TestEffect DEF PhaseOf
  <2>9. QED
    BY <2>1, <2>2, <2>3, QueueMoves
<1>7. ASSUME NEW o \in Operator, NEW d \in Delivery, FanOut(o, d)
      PROVE  [Queues!Next]_(Queues!vars)
  BY <1>7, FanOutEffect, QueueStays DEF rows, history
<1>8. ASSUME NEW o \in Operator, NEW d \in Delivery, FanOutFails(o, d)
      PROVE  [Queues!Next]_(Queues!vars)
  BY <1>8, FanOutFailsEffect, QueueStays DEF rows, history
<1>9. ASSUME NEW o \in Operator, NEW old \in Delivery, NEW d \in Delivery, Retry(o, old, d)
      PROVE  [Queues!Next]_(Queues!vars)
  <2>1. \A x \in Delivery : x # d => PhaseOf(x)' = PhaseOf(x)
    BY <1>9, RetryEffect DEF PhaseOf, OtherRows
  <2>2. UNCHANGED accepted
    BY <1>9, RetryEffect DEF history
  <2>3. PhaseOf(d) = "absent" /\ PhaseOf(d)' = "waiting"
    BY <1>9, RetryEffect DEF PhaseOf
  <2>9. QED
    BY <2>1, <2>2, <2>3, QueueMoves
<1>10. ASSUME NEW p \in Dispatcher, Dispatch(p)
      PROVE  [Queues!Next]_(Queues!vars)
  BY <1>10, DispatchEffect, QueueStays DEF rows, history
<1>11. ASSUME NEW p \in Dispatcher, EndPass(p)
      PROVE  [Queues!Next]_(Queues!vars)
  BY <1>11, EndPassEffect, QueueStays DEF rows, history
<1>12. ASSUME NEW c \in Caller, NEW d \in Delivery, Claim(c, d)
      PROVE  [Queues!Next]_(Queues!vars)
  <2>1. \A x \in Delivery : x # d => PhaseOf(x)' = PhaseOf(x)
    BY <1>12, ClaimEffect DEF PhaseOf, OtherRows
  <2>2. UNCHANGED accepted
    BY <1>12, ClaimEffect DEF history
  <2>3. PhaseOf(d) = "waiting" /\ PhaseOf(d)' = "taken"
    BY <1>12, ClaimEffect DEF PhaseOf
  <2>9. QED
    BY <2>1, <2>2, <2>3, QueueMoves
<1>13. ASSUME NEW c \in Caller, NEW d \in Delivery, Skip(c, d)
      PROVE  [Queues!Next]_(Queues!vars)
  BY <1>13, SkipEffect, QueueStays DEF rows, history
<1>14. ASSUME NEW c \in Caller, NEW d \in Delivery, ReadFails(c, d)
      PROVE  [Queues!Next]_(Queues!vars)
  BY <1>14, ReadFailsEffect, QueueStays DEF rows, history
<1>15. ASSUME NEW c \in Caller, NEW d \in Delivery, ReadHook(c, d)
      PROVE  [Queues!Next]_(Queues!vars)
  BY <1>15, ReadHookEffect, QueueStays DEF rows, history
<1>16. ASSUME NEW c \in Caller, NEW d \in Delivery, ReadParts(c, d)
      PROVE  [Queues!Next]_(Queues!vars)
  BY <1>16, ReadPartsEffect, QueueStays DEF rows, history
<1>17. ASSUME NEW c \in Caller, NEW d \in Delivery, NEW t \in Target,
              NEW answer \in {"ok", "retry", "refused", "invalid"}, NEW taken \in BOOLEAN,
              Send(c, d, t, answer, taken)
      PROVE  [Queues!Next]_(Queues!vars)
  <2>1. UNCHANGED deliveries
    BY <1>17, SendEffect DEF rows
  <2>2. Heard' = Heard \/ (d \notin Slow /\ Heard' = Heard \cup {d})
    <3>1. \A x \in Delivery, u \in Target : accepted[x][u] \in Nat
      BY DEF TypeOK
    <3>2. \A x \in Delivery, u \in Target : accepted'[x][u] =
            IF x = d /\ u = t /\ taken THEN accepted[x][u] + 1 ELSE accepted[x][u]
      BY <1>17, SendEffect
    <3>3. \A x \in Delivery \ Slow : x \in Heard' <=> x \in Heard \/ (x = d /\ taken)
      BY <3>1, <3>2 DEF Heard
    <3>4. Heard \subseteq Delivery \ Slow /\ Heard' \subseteq Delivery \ Slow
      BY DEF Heard
    <3>5. QED
      BY <3>3, <3>4
  <2>3. d \notin Slow => PhaseOf(d) \in {"taken", "removed"}
    BY <1>17, SendEffect DEF InHand, Leases, Holds, Prompt, PhaseOf
  <2>4. CASE Heard' = Heard
    BY <2>1, <2>4 DEF Heard, Queues!vars
  <2>5. CASE d \notin Slow /\ Heard' = Heard \cup {d}
    <3>1. Queues!Hear(d)
      BY <2>1, <2>3, <2>5 DEF Heard, PhaseOf, Queues!Hear
    <3>2. QED
      BY <3>1, <2>5 DEF Queues!Next
  <2>6. QED
    BY <2>2, <2>4, <2>5
<1>18. ASSUME NEW c \in Caller, NEW d \in Delivery, NEW e \in Device, Invalidate(c, d, e)
      PROVE  [Queues!Next]_(Queues!vars)
  BY <1>18, InvalidateEffect, QueueStays DEF rows, history
<1>19. ASSUME NEW c \in Caller, NEW d \in Delivery, NEW e \in Device, NotePart(c, d, e)
      PROVE  [Queues!Next]_(Queues!vars)
  BY <1>19, NotePartEffect, QueueStays DEF rows, history
<1>20. ASSUME NEW c \in Caller, NEW d \in Delivery, Summarise(c, d)
      PROVE  [Queues!Next]_(Queues!vars)
  BY <1>20, SummariseEffect, QueueStays DEF rows, history
<1>21. ASSUME NEW c \in Caller, NEW d \in Delivery, FinishPush(c, d)
      PROVE  [Queues!Next]_(Queues!vars)
  <2>1. \A x \in Delivery : x # d => PhaseOf(x)' = PhaseOf(x)
    BY <1>21, FinishPushEffect DEF PhaseOf, OtherRows
  <2>2. UNCHANGED accepted
    BY <1>21, FinishPushEffect DEF history
  <2>3. d \notin Slow =>
           \/ PhaseOf(d)' = PhaseOf(d)
           \/ PhaseOf(d) = "taken" /\ PhaseOf(d)' \in {"waiting", "failed"}
           \/ PhaseOf(d) = "taken" /\ PhaseOf(d)' = "delivered" /\ d \in Heard
    <3>1. calls[c][d].result \in {"pending", "delivered", "failed"}
      BY DEF TypeOK, Call
    <3>2. calls[c][d].result = "delivered" /\ d \notin Slow => d \in Heard
      BY <1>21, FinishPushEffect DEF HeardOf, Heard
    <3>3. CASE deliveries[d].status = "removed"
      BY <1>21, <3>3, FinishPushEffect DEF PhaseOf
    <3>4. CASE deliveries[d].status # "removed"
      <4>1. d \notin Slow => PhaseOf(d) = "taken"
        BY <1>21, <3>4, FinishPushEffect DEF Leases, Holds, Prompt, PhaseOf
      <4>2. PhaseOf(d)' = IF calls[c][d].result = "pending" THEN "waiting" ELSE calls[c][d].result
        BY <1>21, <3>1, <3>4, FinishPushEffect DEF PhaseOf
      <4>3. QED
        BY <3>1, <3>2, <4>1, <4>2
    <3>5. QED
      BY <3>3, <3>4
  <2>9. QED
    BY <2>1, <2>2, <2>3, QueueMoves
<1>22. ASSUME NEW c \in Caller, NEW d \in Delivery, FinishHook(c, d)
      PROVE  [Queues!Next]_(Queues!vars)
  <2>1. \A x \in Delivery : x # d => PhaseOf(x)' = PhaseOf(x)
    BY <1>22, FinishHookEffect DEF PhaseOf, OtherRows
  <2>2. UNCHANGED accepted
    BY <1>22, FinishHookEffect DEF history
  <2>3. d \notin Slow =>
           \/ PhaseOf(d)' = PhaseOf(d)
           \/ PhaseOf(d) = "taken" /\ PhaseOf(d)' \in {"waiting", "failed"}
           \/ PhaseOf(d) = "taken" /\ PhaseOf(d)' = "delivered" /\ d \in Heard
    <3> DEFINE status == AfterAnswer(calls[c][d].tries[Hook], calls[c][d].answer[Hook])
    <3>1. status \in {"pending", "delivered", "failed"}
      BY DEF AfterAnswer
    <3>2. status = "delivered" /\ d \notin Slow => d \in Heard
      BY <1>22, FinishHookEffect DEF HeardOf, Heard, AfterAnswer, Target
    <3> HIDE DEF status
    <3>3. CASE deliveries[d].status = "removed"
      BY <1>22, <3>3, FinishHookEffect DEF PhaseOf
    <3>4. CASE deliveries[d].status # "removed"
      <4>1. calls[c][d].pc = "sending"
        BY <1>22, FinishHookEffect DEF InHand, Answered, Target
      <4>2. d \notin Slow => PhaseOf(d) = "taken"
        BY <4>1, <3>4 DEF Leases, Holds, Prompt, PhaseOf
      <4>3. PhaseOf(d)' = IF status = "pending" THEN "waiting" ELSE status
        BY <1>22, <3>1, <3>4, FinishHookEffect DEF PhaseOf, status
      <4>4. QED
        BY <3>1, <3>2, <4>2, <4>3
    <3>5. QED
      BY <3>3, <3>4
  <2>9. QED
    BY <2>1, <2>2, <2>3, QueueMoves
<1>23. ASSUME NEW e \in Device, RemoveDevice(e)
      PROVE  [Queues!Next]_(Queues!vars)
  BY <1>23, RemoveDeviceEffect, QueueStays DEF rows, history
<1>24. ASSUME NEW e \in Device, Register(e)
      PROVE  [Queues!Next]_(Queues!vars)
  BY <1>24, RegisterEffect, QueueStays DEF rows, history
<1>25. ASSUME NEW e \in Device, LeaveTeam(e)
      PROVE  [Queues!Next]_(Queues!vars)
  BY <1>25, LeaveTeamEffect, QueueStays DEF rows, history
<1>26. ASSUME NEW c \in Caller, Crash(c)
      PROVE  [Queues!Next]_(Queues!vars)
  BY <1>26, CrashEffect, QueueStays DEF rows, history
<1>27. CASE UNCHANGED vars
  BY <1>27, QueueStays DEF vars, rows, history
<1>28. QED
  BY <1>1, <1>2, <1>3, <1>4, <1>5, <1>6, <1>7, <1>8, <1>9, <1>10, <1>11, <1>12, <1>13, <1>14,
     <1>15, <1>16, <1>17, <1>18, <1>19, <1>20, <1>21, <1>22, <1>23, <1>24, <1>25, <1>26,
     <1>27 DEF Next, Work

\* Over all callers, a delivery is taken by one of them at a time, settled once, and
\* counts as delivered only after a target took it (deliverById).
THEOREM ImplementsQueue == Spec => SettledOnceByOne
<1>1. Init => Queues!Init
  <2> SUFFICES ASSUME Init PROVE Queues!Init
    OBVIOUS
  <2>1. \A d \in Delivery : PhaseOf(d) = "absent"
    BY DEF Init, PhaseOf, NoDelivery
  <2>2. Heard = {}
    BY DEF Init, Heard
  <2>3. QED
    BY <2>1, <2>2 DEF PhaseOf, Heard, Queues!Init
<1>2. IInv /\ [Next]_vars => [Queues!Next]_(Queues!vars)
  BY QueueStep DEF IInv
<1>3. QED
  BY <1>1, <1>2, Invariant, PTL DEF Spec, Queues!Spec, SettledOnceByOne

=============================================================================
