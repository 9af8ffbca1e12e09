------------------------ MODULE NotificationDelivery ------------------------
(***************************************************************************)
(* The delivery of queued notifications: NotificationsService.dispatch,    *)
(* test, retry and deliverById with PushDeliveryService.fanOut and deliver. *)
(*                                                                         *)
(* A delivery to a webhook or by e-mail has one target, Hook.  A push      *)
(* delivery has a row of notification_endpoint_deliveries, its part, for   *)
(* each device it was fanned out to.  Callers work on deliveries at once,  *)
(* in one process or several: each statement runs on its own, and only the *)
(* claim of deliverById keeps two of them off one delivery, for as long as *)
(* its lease lasts.                                                        *)
(***************************************************************************)
EXTENDS Integers, FiniteSets

CONSTANTS
    Delivery,     \* deliveries
    Push,         \* those to a channel of browsers and Android devices
    Slow,         \* those whose targets may outlast the lease of 2 minutes
    Device,       \* notification_endpoints
    Hook,         \* the target of a delivery that is not push
    Dispatcher,   \* processes running dispatch every 5 seconds
    Operator,     \* concurrent requests of test and retry
    Batch,        \* how many deliveries a pass lists (20 in the code)
    MaxAttempts,  \* answers after which a target is given up (5 in the code)
    MaxCrashes    \* bound: how often a caller is lost with its process

ASSUME DeliveryAssumption ==
    /\ Push \subseteq Delivery /\ Slow \subseteq Delivery
    /\ Hook \notin Device
    /\ Dispatcher \cap Operator = {}
    /\ MaxAttempts \in Nat \ {0}
    /\ MaxCrashes \in Nat

Caller == Dispatcher \cup Operator
Target == Device \cup {Hook}

VARIABLES
    deliveries,   \* Delivery -> row of notification_deliveries
    parts,        \* Delivery -> Device -> row of notification_endpoint_deliveries
    devices,      \* Device -> status of the endpoint
    members,      \* devices whose user belongs to the team
    calls,        \* Caller -> Delivery -> call of deliverById
    dispatching,  \* dispatchers in a pass
    crashes,      \* how many callers were lost
    (* History: read by the properties only. *)
    accepted,     \* Delivery -> Target -> how often the target took the message
    missed,       \* Delivery -> Target -> acceptances the caller never learned of
    hurried       \* push deliveries summed up before their fan-out

rows    == <<deliveries, parts>>
targets == <<devices, members>>
history == <<accepted, missed, hurried>>
vars    == <<rows, targets, calls, dispatching, crashes, history>>

-----------------------------------------------------------------------------
(* Rows and calls. *)

\* due is next_attempt_at <= now.  claim: claimed_at is NULL, within the lease or
\* older.  attempts counts for a delivery that is not push; what a push delivery
\* shows there is the maximum of its parts' and decides nothing.
DeliveryRow == [status: {"absent", "pending", "delivered", "failed", "removed"},
                attempts: Nat, due: BOOLEAN, claim: {"none", "fresh", "stale"}]
PartRow     == [status: {"absent", "pending", "delivered", "failed"},
                attempts: Nat, due: BOOLEAN]

NoDelivery  == [status |-> "absent", attempts |-> 0, due |-> FALSE, claim |-> "none"]
NewDelivery == [status |-> "pending", attempts |-> 0, due |-> TRUE, claim |-> "none"]
NoPart      == [status |-> "absent", attempts |-> 0, due |-> FALSE]
NewPart     == [status |-> "pending", attempts |-> 0, due |-> TRUE]

\* "none": the target is not in hand; "waiting": it is being sent to; the others
\* are what send came back with: done, an error to retry, a permanent one, or that
\* the endpoint is not valid.
Answer == {"none", "waiting", "ok", "retry", "refused", "invalid"}

\* A call goes from "called" (its delivery listed or just queued) over "claimed" and
\* "sending" to "summed" for push; retry starts as "fanning", before its fan-out.
Call == [pc: {"idle", "fanning", "called", "claimed", "sending", "summed"},
         tries: [Target -> Nat], answer: [Target -> Answer],
         result: {"pending", "delivered", "failed"}, due: BOOLEAN]

Idle == [pc |-> "idle", tries |-> [t \in Target |-> 0],
         answer |-> [t \in Target |-> "none"], result |-> "pending", due |-> FALSE]

At(pc) == [Idle EXCEPT !.pc = pc]

TypeOK ==
    /\ deliveries \in [Delivery -> DeliveryRow]
    /\ parts \in [Delivery -> [Device -> PartRow]]
    /\ devices \in [Device -> {"active", "invalid", "gone"}]
    /\ members \subseteq Device
    /\ calls \in [Caller -> [Delivery -> Call]]
    /\ dispatching \subseteq Dispatcher
    /\ crashes \in 0 .. MaxCrashes
    /\ accepted \in [Delivery -> [Target -> Nat]]
    /\ missed \in [Delivery -> [Target -> Nat]]
    /\ hurried \subseteq Push

Init ==
    /\ deliveries = [d \in Delivery |-> NoDelivery]
    /\ parts = [d \in Delivery |-> [e \in Device |-> NoPart]]
    /\ devices = [e \in Device |-> "active"]
    /\ members = Device
    /\ calls = [c \in Caller |-> [d \in Delivery |-> Idle]]
    /\ dispatching = {}
    /\ crashes = 0
    /\ accepted = [d \in Delivery |-> [t \in Target |-> 0]]
    /\ missed = [d \in Delivery |-> [t \in Target |-> 0]]
    /\ hurried = {}

Fanning(d) == \E o \in Operator : calls[o][d].pc = "fanning"
Holds(c, d) == calls[c][d].pc \in {"claimed", "sending", "summed"}
Quiet(c)    == \A d \in Delivery : calls[c][d] = Idle

Becomes(c, d, call) == calls' = [calls EXCEPT ![c][d] = call]

-----------------------------------------------------------------------------
(* Queueing a delivery. *)

\* The endpoints a push delivery is fanned out to; every device here belongs to a
\* recipient of the channel.
FannedOut(d) == [e \in Device |->
    IF d \in Push /\ devices[e] = "active" /\ e \in members THEN NewPart ELSE NoPart]

\* enqueueChannel: delivery and parts in one transaction.
Queue(d) ==
    /\ deliveries[d].status = "absent"
    /\ deliveries' = [deliveries EXCEPT ![d] = NewDelivery]
    /\ parts' = [parts EXCEPT ![d] = FannedOut(d)]

Enqueue(d) ==
    /\ Queue(d)
    /\ UNCHANGED <<targets, calls, dispatching, crashes, history>>

Test(o, d) ==
    /\ Quiet(o)
    /\ Queue(d)
    /\ Becomes(o, d, At("called"))
    /\ UNCHANGED <<targets, dispatching, crashes, history>>

\* retry queues a copy of a failed delivery; a push copy is fanned out afterwards, by
\* statements of their own.
Retry(o, old, d) ==
    /\ Quiet(o)
    /\ deliveries[old].status = "failed"
    /\ (old \in Push) = (d \in Push)
    /\ deliveries[d].status = "absent"
    /\ deliveries' = [deliveries EXCEPT ![d] = NewDelivery]
    /\ Becomes(o, d, At(IF d \in Push THEN "fanning" ELSE "called"))
    /\ UNCHANGED <<parts, targets, dispatching, crashes, history>>

\* The SELECT of devices and the INSERTs are one step.
FanOut(o, d) ==
    /\ calls[o][d].pc = "fanning"
    /\ deliveries[d].status # "removed"
    /\ parts' = [parts EXCEPT ![d] = FannedOut(d)]
    /\ Becomes(o, d, At("called"))
    /\ UNCHANGED <<deliveries, targets, dispatching, crashes, history>>

\* The channel was removed meanwhile: the insert violates its foreign key.
FanOutFails(o, d) ==
    /\ calls[o][d].pc = "fanning"
    /\ deliveries[d].status = "removed"
    /\ Becomes(o, d, Idle)
    /\ UNCHANGED <<rows, targets, dispatching, crashes, history>>

-----------------------------------------------------------------------------
(* A pass of dispatch. *)

Due == {d \in Delivery : deliveries[d].status = "pending" /\ deliveries[d].due}

\* The pass lists due deliveries, claimed or not, and calls deliverById for each (a
\* delivery an earlier pass of this process still works on is left to that call).
\* The oldest come first; any choice of as many is taken.
Dispatch(p) ==
    /\ p \notin dispatching
    /\ \E listed \in SUBSET Due \ {{}} :
           /\ Cardinality(listed) <= Batch
           /\ Cardinality(listed) < Batch => listed = Due
           /\ calls' = [calls EXCEPT ![p] = [d \in Delivery |->
                  IF d \in listed /\ calls[p][d] = Idle THEN At("called") ELSE calls[p][d]]]
    /\ dispatching' = dispatching \cup {p}
    /\ UNCHANGED <<rows, targets, crashes, history>>

\* Promise.all has waited for every call.
EndPass(p) ==
    /\ p \in dispatching
    /\ Quiet(p)
    /\ dispatching' = dispatching \ {p}
    /\ UNCHANGED <<rows, targets, calls, crashes, history>>

-----------------------------------------------------------------------------
(* deliverById. *)

\* Mutants: a delivery in hand is claimed again; a claim is never taken over.
ClaimableInHand(d)  == d \in Due
ClaimableOnce(d)    == d \in Due /\ deliveries[d].claim = "none"

Claimable(d) == d \in Due /\ deliveries[d].claim # "fresh"

Claim(c, d) ==
    /\ calls[c][d].pc = "called"
    /\ Claimable(d)
    /\ deliveries' = [deliveries EXCEPT ![d].claim = "fresh"]
    /\ Becomes(c, d, At("claimed"))
    /\ UNCHANGED <<parts, targets, dispatching, crashes, history>>

\* The claim changes no row: another call has it, or it is not due any more.
Skip(c, d) ==
    /\ calls[c][d].pc = "called"
    /\ ~Claimable(d)
    /\ Becomes(c, d, Idle)
    /\ UNCHANGED <<rows, targets, dispatching, crashes, history>>

\* The delivery was removed with its channel after the claim: deliveryRow throws,
\* which ends a pass whose other calls go on.
ReadFails(c, d) ==
    /\ calls[c][d].pc = "claimed"
    /\ deliveries[d].status = "removed"
    /\ Becomes(c, d, Idle)
    /\ dispatching' = dispatching \ {c}
    /\ UNCHANGED <<rows, targets, crashes, history>>

ReadHook(c, d) ==
    /\ calls[c][d].pc = "claimed"
    /\ d \notin Push /\ deliveries[d].status # "removed"
    /\ Becomes(c, d, [At("sending") EXCEPT !.tries[Hook] = deliveries[d].attempts,
                                           !.answer[Hook] = "waiting"])
    /\ UNCHANGED <<rows, targets, dispatching, crashes, history>>

PendingParts(d) == {e \in Device : parts[d][e].status = "pending"}

\* Mutant: parts that are settled are sent as well.
OpenPartsOfAll(d) == {e \in members : parts[d][e].status # "absent"}

OpenParts(d) == {e \in PendingParts(d) \cap members : parts[d][e].due}

\* Parts of users who left the team fail; the others that are due are sent.  The UPDATE and
\* the SELECT are one step.
ReadParts(c, d) ==
    /\ calls[c][d].pc = "claimed"
    /\ d \in Push /\ deliveries[d].status # "removed"
    /\ parts' = [parts EXCEPT ![d] = [e \in Device |->
           IF e \in PendingParts(d) \ members
           THEN [parts[d][e] EXCEPT !.status = "failed"] ELSE parts[d][e]]]
    /\ Becomes(c, d,
           [At("sending") EXCEPT
               !.tries = [t \in Target |-> IF t \in OpenParts(d) THEN parts[d][t].attempts ELSE 0],
               !.answer = [t \in Target |-> IF t \in OpenParts(d) THEN "waiting" ELSE "none"]])
    /\ UNCHANGED <<deliveries, targets, dispatching, crashes, history>>

\* One target is sent to, and answers.  After an error the caller retries, the
\* target may still have taken the message (a time-out).
Send(c, d, t, answer, taken) ==
    /\ calls[c][d].answer[t] = "waiting"
    /\ answer = "ok" => taken
    /\ answer \in {"refused", "invalid"} => ~taken
    /\ answer = "invalid" => t # Hook
    /\ calls' = [calls EXCEPT ![c][d].answer[t] = answer]
    /\ accepted' = [accepted EXCEPT ![d][t] = IF taken THEN @ + 1 ELSE @]
    /\ missed' = [missed EXCEPT ![d][t] = IF taken /\ answer # "ok" THEN @ + 1 ELSE @]
    /\ UNCHANGED <<rows, targets, dispatching, crashes, hurried>>

\* An endpoint that is not valid is marked so first, and its part fails after that as
\* after any permanent error.
Invalidate(c, d, e) ==
    /\ calls[c][d].answer[e] = "invalid"
    /\ devices' = [devices EXCEPT ![e] = IF @ = "gone" THEN @ ELSE "invalid"]
    /\ calls' = [calls EXCEPT ![c][d].answer[e] = "refused"]
    /\ UNCHANGED <<rows, members, dispatching, crashes, history>>

Answered == {"ok", "retry", "refused"}

\* Mutants: a status the table does not have; the attempts are compared before the
\* failed one is counted.
AfterAnswerWaiting(tries, answer) ==
    IF answer = "ok" THEN "delivered"
    ELSE IF answer = "refused" \/ tries + 1 >= MaxAttempts THEN "failed" ELSE "waiting"
AfterAnswerUncounted(tries, answer) ==
    IF answer = "ok" THEN "delivered"
    ELSE IF answer = "refused" \/ tries >= MaxAttempts THEN "failed" ELSE "pending"

\* The status an answered attempt leaves; tries is the count before it.
AfterAnswer(tries, answer) ==
    IF answer = "ok" THEN "delivered"
    ELSE IF answer = "refused" \/ tries + 1 >= MaxAttempts THEN "failed" ELSE "pending"

\* Both UPDATEs name the row by its id only; next_attempt_at is ahead after an error
\* and stays after a success.
NotePart(c, d, e) ==
    LET call == calls[c][d] IN
    /\ call.answer[e] \in Answered
    /\ parts' = IF parts[d][e].status = "absent" THEN parts
                ELSE [parts EXCEPT ![d][e] =
                         [status |-> AfterAnswer(call.tries[e], call.answer[e]),
                          attempts |-> call.tries[e] + 1,
                          due |-> @.due /\ call.answer[e] = "ok"]]
    /\ calls' = [calls EXCEPT ![c][d].answer[e] = "none"]
    /\ UNCHANGED <<deliveries, targets, dispatching, crashes, history>>

\* Mutant: parts that wait for their next attempt are not counted as pending.
SummaryOfDue(d) ==
    IF \E e \in PendingParts(d) : parts[d][e].due THEN "pending"
    ELSE IF \E e \in Device : parts[d][e].status = "delivered" THEN "delivered" ELSE "failed"

\* result: with no parts at all, or none delivered, a settled delivery has failed.
Summary(d) ==
    IF PendingParts(d) # {} THEN "pending"
    ELSE IF \E e \in Device : parts[d][e].status = "delivered" THEN "delivered" ELSE "failed"

Summarise(c, d) ==
    /\ calls[c][d].pc = "sending"
    /\ d \in Push
    /\ \A t \in Target : calls[c][d].answer[t] = "none"
    /\ Becomes(c, d, [At("summed") EXCEPT
           !.result = Summary(d),
           !.due = PendingParts(d) = {} \/ \E e \in PendingParts(d) : parts[d][e].due])
    /\ hurried' = IF Fanning(d) THEN hurried \cup {d} ELSE hurried
    /\ UNCHANGED <<rows, targets, dispatching, crashes, accepted, missed>>

\* The last UPDATE of deliverById: unconditional, it also clears the claim.
Release(d, row) ==
    deliveries' = IF deliveries[d].status = "removed" THEN deliveries
                  ELSE [deliveries EXCEPT ![d] = row]

FinishPush(c, d) ==
    /\ calls[c][d].pc = "summed"
    /\ Release(d, [deliveries[d] EXCEPT !.status = calls[c][d].result,
                                        !.due = calls[c][d].due, !.claim = "none"])
    /\ Becomes(c, d, Idle)
    /\ UNCHANGED <<parts, targets, dispatching, crashes, history>>

FinishHook(c, d) ==
    LET call == calls[c][d] IN
    /\ d \notin Push
    /\ call.answer[Hook] \in Answered
    /\ Release(d, [status |-> AfterAnswer(call.tries[Hook], call.answer[Hook]),
                   attempts |-> call.tries[Hook] + 1,
                   due |-> deliveries[d].due /\ call.answer[Hook] = "ok",
                   claim |-> "none"])
    /\ Becomes(c, d, Idle)
    /\ UNCHANGED <<parts, targets, dispatching, crashes, history>>

-----------------------------------------------------------------------------
(* Time, users, and crashes. *)

\* Two minutes after the claim.  Calls are over by then, unless a target is slow.
ExpireLease(d) ==
    /\ deliveries[d].claim = "fresh"
    /\ \A c \in Caller : Holds(c, d) => d \in Slow /\ calls[c][d].pc = "sending"
    /\ deliveries' = [deliveries EXCEPT ![d].claim = "stale"]
    /\ UNCHANGED <<parts, targets, calls, dispatching, crashes, history>>

\* A next attempt becomes due.  The times of a delivery and its parts are related
\* in the code; here each comes when it likes.
Elapse(d) ==
    /\ deliveries[d].status = "pending" /\ ~deliveries[d].due
    /\ deliveries' = [deliveries EXCEPT ![d].due = TRUE]
    /\ UNCHANGED <<parts, targets, calls, dispatching, crashes, history>>

ElapsePart(d, e) ==
    /\ parts[d][e].status = "pending" /\ ~parts[d][e].due
    /\ parts' = [parts EXCEPT ![d][e].due = TRUE]
    /\ UNCHANGED <<deliveries, targets, calls, dispatching, crashes, history>>

\* The channel of the delivery is removed, or retention deletes it: its rows go.
Remove(d) ==
    /\ deliveries[d].status \notin {"absent", "removed"}
    /\ deliveries' = [deliveries EXCEPT ![d] = [NoDelivery EXCEPT !.status = "removed"]]
    /\ parts' = [parts EXCEPT ![d] = [e \in Device |-> NoPart]]
    /\ UNCHANGED <<targets, calls, dispatching, crashes, history>>

\* A user signs the device out, or another account registers it: the parts go too.
RemoveDevice(e) ==
    /\ devices[e] # "gone"
    /\ devices' = [devices EXCEPT ![e] = "gone"]
    /\ parts' = [d \in Delivery |-> [parts[d] EXCEPT ![e] = NoPart]]
    /\ UNCHANGED <<deliveries, members, calls, dispatching, crashes, history>>

\* The device registers again under the same key.
Register(e) ==
    /\ devices[e] = "invalid"
    /\ devices' = [devices EXCEPT ![e] = "active"]
    /\ UNCHANGED <<rows, members, calls, dispatching, crashes, history>>

LeaveTeam(e) ==
    /\ e \in members
    /\ members' = members \ {e}
    /\ UNCHANGED <<rows, devices, calls, dispatching, crashes, history>>

\* The process of a caller stops: what it was told and did not note is lost.
Crash(c) ==
    /\ crashes < MaxCrashes
    /\ ~Quiet(c)
    /\ calls' = [calls EXCEPT ![c] = [d \in Delivery |-> Idle]]
    /\ dispatching' = dispatching \ {c}
    /\ crashes' = crashes + 1
    /\ missed' = [d \in Delivery |-> [t \in Target |->
           IF calls[c][d].answer[t] = "ok" THEN missed[d][t] + 1 ELSE missed[d][t]]]
    /\ UNCHANGED <<rows, targets, accepted, hurried>>

-----------------------------------------------------------------------------
(* A step of a call once it has begun. *)
Work(c, d) ==
    \/ Claim(c, d) \/ Skip(c, d) \/ ReadFails(c, d) \/ ReadHook(c, d) \/ ReadParts(c, d)
    \/ \E t \in Target, answer \in {"ok", "retry", "refused", "invalid"}, taken \in BOOLEAN :
           Send(c, d, t, answer, taken)
    \/ \E e \in Device : Invalidate(c, d, e) \/ NotePart(c, d, e)
    \/ Summarise(c, d) \/ FinishPush(c, d) \/ FinishHook(c, d)

Next ==
    \/ \E d \in Delivery : Enqueue(d) \/ ExpireLease(d) \/ Elapse(d) \/ Remove(d)
    \/ \E d \in Delivery, e \in Device : ElapsePart(d, e)
    \/ \E o \in Operator, d \in Delivery :
           \/ Test(o, d) \/ FanOut(o, d) \/ FanOutFails(o, d)
           \/ \E old \in Delivery : Retry(o, old, d)
    \/ \E p \in Dispatcher : Dispatch(p) \/ EndPass(p)
    \/ \E c \in Caller, d \in Delivery : Work(c, d)
    \/ \E e \in Device : RemoveDevice(e) \/ Register(e) \/ LeaveTeam(e)
    \/ \E c \in Caller : Crash(c)

Spec == Init /\ [][Next]_vars

\* Passes come every 5 seconds, requests to targets time out, statements end, leases
\* and delays run out.  Nothing is assumed of operators, users and crashes.
Fairness ==
    /\ \A p \in Dispatcher : WF_vars(Dispatch(p)) /\ WF_vars(EndPass(p))
    /\ \A c \in Caller, d \in Delivery : WF_vars(Work(c, d))
    /\ \A d \in Delivery : WF_vars(ExpireLease(d)) /\ WF_vars(Elapse(d))
    /\ \A d \in Delivery, e \in Device : WF_vars(ElapsePart(d, e))

FairSpec == Spec /\ Fairness

-----------------------------------------------------------------------------
(* Properties. *)

\* A target that has taken the message is not sent it again, except for every time it
\* took it and its answer was lost, by a time-out or a crash: not by the retries of
\* other devices, by two dispatchers or by a claim taken over.  (deliverById with
\* deliver: claims, and the parts' own status.)
NoNeedlessRepeat ==
    \A d \in Delivery \ Slow, t \in Target : accepted[d][t] <= 1 + missed[d][t]

\* No target is tried more often than the limit, whoever counts: an attempt is counted
\* from the row as it was read, by a call that has the delivery to itself.
WithinAttempts ==
    \A d \in Delivery \ Slow :
        /\ deliveries[d].attempts <= MaxAttempts
        /\ \A e \in Device : parts[d][e].attempts <= MaxAttempts

\* When a push delivery is settled, so is each of its parts: no device is forgotten
\* that nobody will send to any more.  Except for the race of retry, which fans out
\* after the delivery can be claimed.  (PushDeliveryService.result.)
SettledLeavesNothing ==
    \A d \in Push \ (Slow \cup hurried) :
        deliveries[d].status \in {"delivered", "failed"} => PendingParts(d) = {}

Queues == INSTANCE DeliveryQueue WITH
    Delivery <- Delivery \ Slow,
    phase <- [d \in Delivery \ Slow |->
                 IF deliveries[d].status = "pending" /\ deliveries[d].claim = "fresh" THEN "taken"
                 ELSE IF deliveries[d].status = "pending" THEN "waiting"
                 ELSE deliveries[d].status],
    heard <- {d \in Delivery \ Slow : \E t \in Target : accepted[d][t] > 0}

\* Deliveries are worked on by one call at a time, settled for good, and delivered
\* only if a target heard of them.  (deliverById, over all callers.)
SettledOnceByOne == Queues!Spec

\* Every delivery is settled in the end, or its channel removed, whatever crashes.
DeliveriesSettle ==
    \A d \in Delivery : deliveries[d].status = "pending" ~> deliveries[d].status # "pending"
=============================================================================
