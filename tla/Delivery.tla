------------------------------ MODULE Delivery ------------------------------
(***************************************************************************)
(* The notifier of internal/notifier: a durable JetStream consumer whose   *)
(* callback sends each e-mail over SMTP and then acknowledges it, asks for *)
(* a redelivery, or parks it in the NOTIFY_DLQ stream.                      *)
(*                                                                         *)
(* JetStream itself is external and modelled as far as subscriber.go       *)
(* relies on it: a message is delivered at most MaxDeliver times, each     *)
(* delivery starts an AckWait timer, and when the timer ends the message   *)
(* becomes deliverable again or, after its last delivery, stays where it   *)
(* is for good.  NakWithDelay only shortens that timer.                    *)
(***************************************************************************)
EXTENDS Integers, FiniteSets

CONSTANTS
    Msgs,           \* the e-mail commands in the stream
    Malformed,      \* those without a recipient, or that are not JSON
    MaxDeliver      \* NATS_MAX_DELIVER

ASSUME MalformedAssumption  == Malformed \subseteq Msgs
ASSUME MaxDeliverAssumption == MaxDeliver \in Nat \ {0}

Numbers    == 1 .. MaxDeliver
Deliveries == Msgs \X Numbers

VARIABLES
    status,     \* server: what the consumer state says of a message
    count,      \* server: how often the message was delivered
    stage,      \* client: where each delivery stands
    orphans,    \* client: deliveries whose SMTP goroutine outlived the handler
    draining,   \* client: has SIGTERM stopped the pulling?
    mailed,     \* history: deliveries whose e-mail the SMTP server accepted
    parked,     \* DLQ: deliveries whose message was published there
    stable      \* the environment has stopped failing

server == <<status, count>>
client == <<stage, orphans, draining>>
vars   == <<server, client, mailed, parked, stable>>

Statuses == {"ready", "sent", "settled", "exhausted"}
Callback == {"sending", "ack", "park", "term"}
Stages   == Callback \cup {"none", "buffered"}

\* Consume runs its callback for one message at a time.
CallbackFree_Always == TRUE
CallbackFree        == \A d \in Deliveries : stage[d] \notin Callback

Become(d, s) == stage' = [stage EXCEPT ![d] = s]

-----------------------------------------------------------------------------
Init ==
    /\ status = [m \in Msgs |-> "ready"]
    /\ count = [m \in Msgs |-> 0]
    /\ stage = [d \in Deliveries |-> "none"]
    /\ orphans = {}
    /\ draining = FALSE
    /\ mailed = {}
    /\ parked = {}
    /\ stable = FALSE

-----------------------------------------------------------------------------
(* The server.                                                             *)

\* The message goes to the client's buffer, or is lost on the way there.
Deliver(m) ==
    /\ status[m] = "ready" /\ count[m] < MaxDeliver
    /\ ~draining
    /\ status' = [status EXCEPT ![m] = "sent"]
    /\ count' = [count EXCEPT ![m] = @ + 1]
    /\ \/ Become(<<m, count[m] + 1>>, "buffered")
       \/ ~stable /\ UNCHANGED stage
    /\ UNCHANGED <<orphans, draining, mailed, parked, stable>>

\* AckWait, or the delay of a nak, is over.  The timer runs from the delivery,
\* also while the message waits in the buffer or the handler is still busy.
Expire(m) ==
    /\ status[m] = "sent"
    /\ status' = [status EXCEPT ![m] = IF count[m] < MaxDeliver THEN "ready" ELSE "exhausted"]
    /\ UNCHANGED <<count, client, mailed, parked, stable>>

-----------------------------------------------------------------------------
(* The callback, one delivery d = <<message, NumDelivered>> at a time.     *)

\* NewHandler: a malformed command fails for good, any other is sent.
AfterDecode(d) == IF d[1] \in Malformed THEN "park" ELSE "sending"

Start(d) ==
    /\ stage[d] = "buffered"
    /\ CallbackFree
    /\ Become(d, AfterDecode(d))
    /\ UNCHANGED <<server, orphans, draining, mailed, parked, stable>>

SendSucceeds(d) ==
    /\ stage[d] = "sending"
    /\ mailed' = mailed \cup {d}
    /\ Become(d, "ack")
    /\ UNCHANGED <<server, orphans, draining, parked, stable>>

\* classify, for an error that is not permanent: park on the last delivery,
\* before that ask for another one.  The nak itself changes nothing here.  A
\* message of a consumer carries its NumDelivered: the 1 that Subscribe would
\* take for one without metadata does not occur.
AfterFailure_Permanent(d) == "park"
AfterFailure_Late(d)      == IF d[2] > MaxDeliver THEN "park" ELSE "none"
AfterFailure_Early(d)     == IF d[2] + 1 >= MaxDeliver THEN "park" ELSE "none"
AfterFailure(d)           == IF d[2] >= MaxDeliver THEN "park" ELSE "none"

\* smtp.SendMail reports an error, perhaps of a mail that was accepted; or the
\* handler's deadline ends first and the send goes on without it.
SendFails(d) ==
    /\ ~stable
    /\ stage[d] = "sending"
    /\ Become(d, AfterFailure(d))
    /\ \/ mailed' \in {mailed, mailed \cup {d}} /\ UNCHANGED orphans
       \/ orphans' = orphans \cup {d} /\ UNCHANGED mailed
    /\ UNCHANGED <<server, draining, parked, stable>>

OrphanEnds(d) ==
    /\ d \in orphans
    /\ orphans' = orphans \ {d}
    /\ mailed' \in {mailed, mailed \cup {d}}
    /\ UNCHANGED <<server, stage, draining, parked, stable>>

\* js.Publish to the DLQ.  Its failure, which may hide that the message was
\* stored, ends in a nak instead of a term.
AfterFailedPark_Term == "term"
AfterFailedPark      == "none"

Park(d) ==
    /\ stage[d] = "park"
    /\ \/ parked' = parked \cup {d} /\ Become(d, "term")
       \/ /\ ~stable
          /\ parked' \in {parked, parked \cup {d}}
          /\ Become(d, AfterFailedPark)
    /\ UNCHANGED <<server, orphans, draining, mailed, stable>>

\* Ack or Term.  Their errors are ignored.  The server takes them for the
\* message, whichever delivery they answer, unless it has given it up.
Settle(d) ==
    /\ stage[d] \in {"ack", "term"}
    /\ Become(d, "none")
    /\ \/ status' = [status EXCEPT ![d[1]] = IF @ = "exhausted" THEN @ ELSE "settled"]
       \/ ~stable /\ UNCHANGED status
    /\ UNCHANGED <<count, orphans, draining, mailed, parked, stable>>

-----------------------------------------------------------------------------
(* The notifier's process.                                                 *)

\* SIGTERM: no message is pulled any more, those at hand are still handled.
Drain ==
    /\ ~stable /\ ~draining
    /\ draining' = TRUE
    /\ UNCHANGED <<server, stage, orphans, mailed, parked, stable>>

\* The process ends, drained or at drainTimeout or by a crash, and starts
\* again.  Whatever it had at hand waits for its AckWait timer.
Restart ==
    /\ ~stable \/ draining
    /\ stage' = [d \in Deliveries |-> "none"]
    /\ orphans' = {}
    /\ draining' = FALSE
    /\ UNCHANGED <<server, mailed, parked, stable>>

Stabilise ==
    /\ ~stable
    /\ stable' = TRUE
    /\ UNCHANGED <<server, client, mailed, parked>>

-----------------------------------------------------------------------------
Handle(d) ==
    Start(d) \/ SendSucceeds(d) \/ SendFails(d) \/ Park(d) \/ Settle(d)

Next ==
    \/ \E m \in Msgs : Deliver(m) \/ Expire(m)
    \/ \E d \in Deliveries : Handle(d) \/ OrphanEnds(d)
    \/ Drain \/ Restart \/ Stabilise

Spec == Init /\ [][Next]_vars

\* Timers end, the callback and the orphans run, a drained process is started
\* again, and a message the server may deliver again and again, to a notifier
\* that restarts again and again, is delivered.  Failures need never stop.
Fairness ==
    /\ \A m \in Msgs : SF_vars(Deliver(m)) /\ WF_vars(Expire(m))
    /\ \A d \in Deliveries : WF_vars(Handle(d)) /\ WF_vars(OrphanEnds(d))
    /\ WF_vars(draining /\ Restart)

FairSpec == Spec /\ Fairness

-----------------------------------------------------------------------------
(* Properties.                                                             *)

Handled(m) == \E n \in Numbers : <<m, n>> \in mailed \cup parked

\* Every variable has a value the program can give it, and the one callback of
\* the consumer is never busy with two deliveries.
TypeOK ==
    /\ status \in [Msgs -> Statuses]
    /\ count \in [Msgs -> 0 .. MaxDeliver]
    /\ stage \in [Deliveries -> Stages]
    /\ \A d, e \in Deliveries : stage[d] \in Callback /\ stage[e] \in Callback => d = e
    /\ orphans \subseteq Deliveries
    /\ draining \in BOOLEAN
    /\ mailed \subseteq Deliveries
    /\ parked \subseteq Deliveries
    /\ stable \in BOOLEAN

\* The consumer never gets rid of a message by an ack or a term unless its
\* e-mail was accepted or it is in the DLQ, whatever crashed in between.
SettledMeansHandled == \A m \in Msgs : status[m] = "settled" => Handled(m)

\* Only a malformed command, or one that was delivered for the last time,
\* reaches the DLQ.
ParkedOnlyWhenDue ==
    \A d \in parked : d[1] \in Malformed \/ count[d[1]] = MaxDeliver

\* Once failures stop, a well-formed command with a delivery left is mailed,
\* however many of its deliveries waited, failed or were lost before.
HealthyMeansMailed ==
    \A m \in Msgs \ Malformed :
        (stable /\ ~draining /\ count[m] < MaxDeliver) ~> \E n \in Numbers : <<m, n>> \in mailed

\* A command has a delivery left, or the client holds its last one, or it has
\* been handled.
HasChance(m) ==
    count[m] < MaxDeliver \/ stage[<<m, MaxDeliver>>] # "none" \/ Handled(m)

\* The last delivery got lost: on its way to the client, with the process, or
\* by the nak after a failed DLQ publish.
LastOneLost(m) ==
    \/ Deliver(m) /\ UNCHANGED stage
    \/ Restart
    \/ Park(<<m, MaxDeliver>>)

\* The callback itself gives no command up: it mails or parks the last delivery,
\* whatever the send answers, also one the consumer gave up long before.
LastChanceKept ==
    [][\A m \in Msgs : HasChance(m) => HasChance(m)' \/ LastOneLost(m)]_vars

-----------------------------------------------------------------------------
(* What the repository says of the notifier and the code does not keep.    *)

AtHand(m) == \E n \in Numbers : stage[<<m, n>>] # "none" \/ <<m, n>> \in orphans

Redeliverable(m) == status[m] \in {"ready", "sent"} /\ count[m] < MaxDeliver

\* subscriber.go:108: the nak after a failed DLQ publish is there "so a failed
\* park stays redeliverable instead of being lost".
FailedParkIsRetried ==
    [][\A d \in Deliveries :
         Park(d) /\ stage'[d] = "none"
           => (Redeliverable(d[1]) \/ AtHand(d[1]) \/ Handled(d[1]))']_vars
=============================================================================
