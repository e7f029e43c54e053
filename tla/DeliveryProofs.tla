--------------------------- MODULE DeliveryProofs ---------------------------
(* What holds of Delivery for every set of messages and every MaxDeliver.   *)
EXTENDS Delivery, TLAPS

-----------------------------------------------------------------------------
(* The inductive invariant.                                                *)

\* A delivery the client holds is one the server has made.
HeldIsMade ==
    \A d \in Deliveries : stage[d] # "none" => d[2] <= count[d[1]]

\* A delivery is on its way to the DLQ only if it is malformed or the last one.
ParkingIsDue ==
    \A d \in Deliveries : stage[d] = "park" => d[1] \in Malformed \/ d[2] = MaxDeliver

\* What is about to be acknowledged or terminated has been handled.
SettlingIsHandled ==
    \A d \in Deliveries :
        /\ stage[d] = "ack" => d \in mailed
        /\ stage[d] = "term" => d \in parked

DeliveryInv ==
    /\ TypeOK
    /\ HeldIsMade
    /\ ParkingIsDue
    /\ SettlingIsHandled
    /\ SettledMeansHandled
    /\ ParkedOnlyWhenDue

-----------------------------------------------------------------------------
\* What a delivery consists of.
LEMMA DeliveryParts ==
    ASSUME NEW d \in Deliveries
    PROVE  d[1] \in Msgs /\ d[2] \in 1 .. MaxDeliver /\ d = <<d[1], d[2]>>
BY DEF Deliveries, Numbers

\* The program starts in the invariant.
LEMMA InitDelivery == Init => DeliveryInv
<1> SUFFICES ASSUME Init PROVE DeliveryInv
    OBVIOUS
<1>1. TypeOK
    <2>1. draining \in BOOLEAN /\ stable \in BOOLEAN
        BY Zenon DEF Init
    <2>2. count \in [Msgs -> 0 .. MaxDeliver]
        BY MaxDeliverAssumption DEF Init
    <2>3. status \in [Msgs -> Statuses] /\ stage \in [Deliveries -> Stages]
        BY DEF Init, Statuses, Stages
    <2>4. \A d, e \in Deliveries : stage[d] \in Callback /\ stage[e] \in Callback => d = e
        BY DEF Init, Callback
    <2>5. orphans \subseteq Deliveries /\ mailed \subseteq Deliveries /\ parked \subseteq Deliveries
        BY DEF Init
    <2> QED BY <2>1, <2>2, <2>3, <2>4, <2>5 DEF TypeOK
<1>2. HeldIsMade /\ ParkingIsDue /\ SettlingIsHandled
    BY DEF Init, HeldIsMade, ParkingIsDue, SettlingIsHandled
<1>3. SettledMeansHandled /\ ParkedOnlyWhenDue
    BY DEF Init, SettledMeansHandled, ParkedOnlyWhenDue
<1> QED BY <1>1, <1>2, <1>3 DEF DeliveryInv

-----------------------------------------------------------------------------
(* Each action keeps the invariant.                                        *)

\* The server hands out the next delivery of a message, or loses it.
LEMMA DeliverKeeps ==
    ASSUME DeliveryInv, NEW m \in Msgs, Deliver(m)
    PROVE  DeliveryInv'
<1> DEFINE e == <<m, count[m] + 1>>
<1>1. e \in Deliveries /\ count[m] \in Nat
    BY MaxDeliverAssumption DEF DeliveryInv, TypeOK, Deliver, Deliveries, Numbers
<1>2. stage' = stage \/ stage' = [stage EXCEPT ![e] = "buffered"]
    BY DEF Deliver, Become
<1>3. TypeOK'
    <2>1. stage' \in [Deliveries -> Stages]
        BY <1>1, <1>2 DEF DeliveryInv, TypeOK, Stages
    <2>2. \A c, d \in Deliveries : stage'[c] \in Callback /\ stage'[d] \in Callback => c = d
        BY <1>1, <1>2 DEF DeliveryInv, TypeOK, Callback
    <2>3. status' \in [Msgs -> Statuses] /\ count' \in [Msgs -> 0 .. MaxDeliver]
        BY MaxDeliverAssumption DEF DeliveryInv, TypeOK, Deliver, Statuses
    <2> QED BY <2>1, <2>2, <2>3 DEF DeliveryInv, TypeOK, Deliver
<1>4. \A d \in Deliveries : count[d[1]] \in 0 .. MaxDeliver /\ count[d[1]] <= count'[d[1]]
    BY DeliveryParts, MaxDeliverAssumption DEF DeliveryInv, TypeOK, Deliver
<1>5. HeldIsMade'
    <2> SUFFICES ASSUME NEW d \in Deliveries, stage'[d] # "none"
                 PROVE  d[2] <= count'[d[1]]
        BY DEF HeldIsMade
    <2>1. CASE d = e
        BY <1>1, <2>1 DEF Deliver, DeliveryInv, TypeOK
    <2>2. CASE d # e
        <3>1. d[2] <= count[d[1]]
            BY <1>1, <1>2, <2>2 DEF DeliveryInv, TypeOK, HeldIsMade
        <3> QED BY <3>1, <1>3, <1>4, DeliveryParts DEF TypeOK
    <2> QED BY <2>1, <2>2
<1>6. ParkingIsDue' /\ SettlingIsHandled'
    BY <1>1, <1>2 DEF DeliveryInv, TypeOK, Deliver, ParkingIsDue, SettlingIsHandled
<1>7. SettledMeansHandled'
    BY DEF DeliveryInv, TypeOK, Deliver, SettledMeansHandled, Handled
<1>8. ParkedOnlyWhenDue'
    BY MaxDeliverAssumption, DeliveryParts
       DEF DeliveryInv, TypeOK, Deliver, ParkedOnlyWhenDue
<1> QED BY <1>3, <1>5, <1>6, <1>7, <1>8 DEF DeliveryInv

\* The timer of a message ends.
LEMMA ExpireKeeps ==
    ASSUME DeliveryInv, NEW m \in Msgs, Expire(m)
    PROVE  DeliveryInv'
<1>1. TypeOK'
    BY DEF DeliveryInv, TypeOK, Expire, client, Statuses
<1>2. (HeldIsMade /\ ParkingIsDue /\ SettlingIsHandled /\ ParkedOnlyWhenDue)'
    BY DEF DeliveryInv, Expire, client, HeldIsMade, ParkingIsDue, SettlingIsHandled,
           ParkedOnlyWhenDue
<1>3. SettledMeansHandled'
    BY DEF DeliveryInv, TypeOK, Expire, client, SettledMeansHandled, Handled
<1> QED BY <1>1, <1>2, <1>3 DEF DeliveryInv

\* Whatever the client does with one delivery d it holds: it moves d to stage s,
\* if at all, and perhaps mails or parks it.  Each handler step is an instance.
LEMMA ClientKeeps ==
    ASSUME DeliveryInv,
           NEW d \in Deliveries, stage[d] # "none",
           NEW s \in Stages, Become(d, s),
           s \in Callback => stage[d] \in Callback \/ CallbackFree,
           s = "park" => d[1] \in Malformed \/ d[2] = MaxDeliver,
           s = "ack" => d \in mailed',
           s = "term" => d \in parked',
           mailed' \in {mailed, mailed \cup {d}},
           parked' = parked \/ (stage[d] = "park" /\ parked' = parked \cup {d}),
           orphans' \in {orphans, orphans \cup {d}},
           UNCHANGED <<server, draining, stable>>
    PROVE  DeliveryInv'
<1>1. stage' = [stage EXCEPT ![d] = s] /\ count' = count /\ status' = status
    BY DEF Become, server
<1>2. mailed \subseteq mailed' /\ parked \subseteq parked'
    OBVIOUS
<1>3. TypeOK'
    <2>1. stage' \in [Deliveries -> Stages]
        BY <1>1 DEF DeliveryInv, TypeOK
    <2>2. \A c, e \in Deliveries : stage'[c] \in Callback /\ stage'[e] \in Callback => c = e
        BY <1>1 DEF DeliveryInv, TypeOK, CallbackFree
    <2>3. /\ mailed' \subseteq Deliveries
          /\ parked' \subseteq Deliveries
          /\ orphans' \subseteq Deliveries
        BY DEF DeliveryInv, TypeOK
    <2> QED BY <1>1, <2>1, <2>2, <2>3 DEF DeliveryInv, TypeOK
<1>4. HeldIsMade'
    BY <1>1 DEF DeliveryInv, TypeOK, HeldIsMade
<1>5. ParkingIsDue'
    BY <1>1 DEF DeliveryInv, TypeOK, ParkingIsDue
<1>6. SettlingIsHandled'
    BY <1>1, <1>2 DEF DeliveryInv, TypeOK, SettlingIsHandled
<1>7. SettledMeansHandled'
    BY <1>1, <1>2 DEF DeliveryInv, SettledMeansHandled, Handled
<1>8. ParkedOnlyWhenDue'
    <2>1. stage[d] = "park" => d[1] \in Malformed \/ count[d[1]] = MaxDeliver
        BY DeliveryParts, MaxDeliverAssumption
           DEF DeliveryInv, TypeOK, HeldIsMade, ParkingIsDue
    <2> QED BY <1>1, <2>1 DEF DeliveryInv, ParkedOnlyWhenDue
<1> QED BY <1>3, <1>4, <1>5, <1>6, <1>7, <1>8 DEF DeliveryInv

\* The callback's steps up to the acknowledgement.
LEMMA CallbackKeeps ==
    ASSUME DeliveryInv, NEW d \in Deliveries,
           Start(d) \/ SendSucceeds(d) \/ SendFails(d) \/ Park(d)
    PROVE  DeliveryInv'
<1>1. CASE Start(d)
    <2>1. CASE d[1] \in Malformed
        BY <1>1, <2>1, ClientKeeps DEF Start, AfterDecode, Stages, Callback
    <2>2. CASE d[1] \notin Malformed
        BY <1>1, <2>2, ClientKeeps DEF Start, AfterDecode, Stages, Callback
    <2> QED BY <2>1, <2>2
<1>2. CASE SendSucceeds(d)
    BY <1>2, ClientKeeps DEF SendSucceeds, Stages, Callback
<1>3. CASE SendFails(d)
    <2>1. /\ AfterFailure(d) \in {"park", "none"}
          /\ AfterFailure(d) = "park" => d[2] = MaxDeliver
        BY DeliveryParts, MaxDeliverAssumption DEF AfterFailure
    <2>2. UNCHANGED <<server, draining, stable>> /\ parked' = parked
        BY <1>3 DEF SendFails
    <2> QED BY <1>3, <2>1, <2>2, ClientKeeps DEF SendFails, Stages, Callback
<1>4. CASE Park(d)
    BY <1>4, ClientKeeps DEF Park, AfterFailedPark, Stages, Callback
<1> QED BY <1>1, <1>2, <1>3, <1>4

\* Ack or Term is for a message that has been handled.
LEMMA SettleKeeps ==
    ASSUME DeliveryInv, NEW d \in Deliveries, Settle(d)
    PROVE  DeliveryInv'
<1>1. stage' = [stage EXCEPT ![d] = "none"]
    BY DEF Settle, Become
<1>2. Handled(d[1])
    BY DeliveryParts DEF Settle, DeliveryInv, SettlingIsHandled, Handled, Numbers
<1>3. TypeOK'
    <2>1. stage' \in [Deliveries -> Stages]
        BY <1>1 DEF DeliveryInv, TypeOK, Stages
    <2>2. \A c, e \in Deliveries : stage'[c] \in Callback /\ stage'[e] \in Callback => c = e
        BY <1>1 DEF DeliveryInv, TypeOK, Callback
    <2>3. status' \in [Msgs -> Statuses]
        BY DeliveryParts DEF Settle, DeliveryInv, TypeOK, Statuses
    <2> QED BY <2>1, <2>2, <2>3 DEF Settle, DeliveryInv, TypeOK
<1>4. (HeldIsMade /\ ParkingIsDue /\ SettlingIsHandled)'
    BY <1>1 DEF Settle, DeliveryInv, TypeOK, HeldIsMade, ParkingIsDue, SettlingIsHandled
<1>5. SettledMeansHandled'
    BY <1>2, DeliveryParts DEF Settle, DeliveryInv, TypeOK, SettledMeansHandled, Handled
<1>6. ParkedOnlyWhenDue'
    BY DEF Settle, DeliveryInv, ParkedOnlyWhenDue
<1> QED BY <1>3, <1>4, <1>5, <1>6 DEF DeliveryInv

\* An SMTP goroutine the handler left behind ends.
LEMMA OrphanKeeps ==
    ASSUME DeliveryInv, NEW d \in Deliveries, OrphanEnds(d)
    PROVE  DeliveryInv'
<1>1. mailed \subseteq mailed' /\ mailed' \subseteq Deliveries /\ orphans' \subseteq Deliveries
    BY DEF OrphanEnds, DeliveryInv, TypeOK
<1>2. UNCHANGED <<status, count, stage, draining, parked, stable>>
    BY DEF OrphanEnds, server
<1>3. TypeOK'
    BY <1>1, <1>2 DEF DeliveryInv, TypeOK
<1>4. (HeldIsMade /\ ParkingIsDue /\ ParkedOnlyWhenDue)'
    BY <1>2 DEF DeliveryInv, HeldIsMade, ParkingIsDue, ParkedOnlyWhenDue
<1>5. (SettlingIsHandled /\ SettledMeansHandled)'
    BY <1>1, <1>2 DEF DeliveryInv, SettlingIsHandled, SettledMeansHandled, Handled
<1> QED BY <1>3, <1>4, <1>5 DEF DeliveryInv

\* A restart forgets what the client held, and nothing else.
LEMMA RestartKeeps ==
    ASSUME DeliveryInv, Restart
    PROVE  DeliveryInv'
<1>1. UNCHANGED <<status, count, mailed, parked, stable>>
    BY DEF Restart, server
<1>2. stage' \in [Deliveries -> Stages] /\ \A d \in Deliveries : stage'[d] = "none"
    BY DEF Restart, Stages
<1>3. TypeOK'
    <2>1. draining' \in BOOLEAN /\ orphans' \subseteq Deliveries
        BY DEF Restart
    <2>2. \A c, e \in Deliveries : stage'[c] \in Callback /\ stage'[e] \in Callback => c = e
        BY <1>2 DEF Callback
    <2> QED BY <1>1, <1>2, <2>1, <2>2 DEF DeliveryInv, TypeOK
<1>4. (HeldIsMade /\ ParkingIsDue /\ SettlingIsHandled)'
    BY <1>2 DEF HeldIsMade, ParkingIsDue, SettlingIsHandled
<1>5. (SettledMeansHandled /\ ParkedOnlyWhenDue)'
    BY <1>1 DEF DeliveryInv, SettledMeansHandled, Handled, ParkedOnlyWhenDue
<1> QED BY <1>3, <1>4, <1>5 DEF DeliveryInv

\* Steps that touch none of the invariant's variables, but for the flags.
LEMMA RestKeeps ==
    ASSUME DeliveryInv, draining' \in BOOLEAN, stable' \in BOOLEAN,
           UNCHANGED <<server, stage, orphans, mailed, parked>>
    PROVE  DeliveryInv'
<1>1. TypeOK'
    BY DEF DeliveryInv, TypeOK, server
<1>2. (HeldIsMade /\ ParkingIsDue /\ SettlingIsHandled)'
    BY DEF DeliveryInv, server, HeldIsMade, ParkingIsDue, SettlingIsHandled
<1>3. (SettledMeansHandled /\ ParkedOnlyWhenDue)'
    BY DEF DeliveryInv, server, SettledMeansHandled, Handled, ParkedOnlyWhenDue
<1> QED BY <1>1, <1>2, <1>3 DEF DeliveryInv

\* Every step of the server, the callback and the process keeps the invariant.
LEMMA NextKeeps == DeliveryInv /\ [Next]_vars => DeliveryInv'
<1> SUFFICES ASSUME DeliveryInv, [Next]_vars PROVE DeliveryInv'
    OBVIOUS
<1>1. ASSUME NEW m \in Msgs, Deliver(m) \/ Expire(m) PROVE DeliveryInv'
    BY <1>1, DeliverKeeps, ExpireKeeps
<1>2. ASSUME NEW d \in Deliveries, Handle(d) \/ OrphanEnds(d) PROVE DeliveryInv'
    BY <1>2, CallbackKeeps, SettleKeeps, OrphanKeeps DEF Handle
<1>3. CASE Drain
    <2>1. draining' \in BOOLEAN
        BY <1>3, Zenon DEF Drain
    <2> QED BY <1>3, <2>1, RestKeeps DEF Drain, DeliveryInv, TypeOK
<1>4. CASE Restart
    BY <1>4, RestartKeeps
<1>5. CASE Stabilise
    <2>1. stable' \in BOOLEAN
        BY <1>5, Zenon DEF Stabilise
    <2> QED BY <1>5, <2>1, RestKeeps DEF Stabilise, client, DeliveryInv, TypeOK
<1>6. CASE UNCHANGED vars
    BY <1>6, RestKeeps DEF vars, client, DeliveryInv, TypeOK
<1> QED BY <1>1, <1>2, <1>3, <1>4, <1>5, <1>6 DEF Next

-----------------------------------------------------------------------------
(* The last chance of a command.                                           *)

\* A step of the callback moves the delivery it works on towards its end.  It
\* ends the last one only when the message has been handled, or by a nak.
LEMMA HandleKeepsChance ==
    ASSUME DeliveryInv, NEW m \in Msgs, HasChance(m), NEW d \in Deliveries, Handle(d)
    PROVE  HasChance(m)' \/ LastOneLost(m)
<1>1. count' = count
    BY DEF Handle, Start, SendSucceeds, SendFails, Park, Settle, server
<1>2. mailed \subseteq mailed' /\ parked \subseteq parked'
    BY DEF Handle, Start, SendSucceeds, SendFails, Park, Settle
<1>3. Handled(m) => Handled(m)'
    BY <1>2 DEF Handled
<1>4. stage[d] # "none" /\ stage \in [Deliveries -> Stages]
    BY DEF DeliveryInv, TypeOK, Handle, Start, SendSucceeds, SendFails, Park, Settle
<1>5. stage' = [stage EXCEPT ![d] = stage'[d]]
    BY <1>4 DEF Handle, Start, SendSucceeds, SendFails, Park, Settle, Become
<1>6. CASE d = <<m, MaxDeliver>>
    <2>1. CASE Start(d) \/ SendSucceeds(d) \/ SendFails(d)
        <3>1. AfterFailure(d) = "park"
            BY <1>6, MaxDeliverAssumption DEF AfterFailure
        <3>2. stage'[d] # "none"
            BY <1>4, <2>1, <3>1 DEF Start, AfterDecode, SendSucceeds, SendFails, Become
        <3> QED BY <1>6, <3>2 DEF HasChance
    <2>2. CASE Park(d)
        BY <1>6, <2>2 DEF LastOneLost
    <2>3. CASE Settle(d)
        <3>1. d \in mailed \cup parked
            BY <2>3 DEF Settle, DeliveryInv, SettlingIsHandled
        <3>2. Handled(m)
            BY <1>6, <3>1, MaxDeliverAssumption DEF Handled, Numbers
        <3> QED BY <1>3, <3>2 DEF HasChance
    <2> QED BY <2>1, <2>2, <2>3 DEF Handle
<1>7. CASE d # <<m, MaxDeliver>>
    <2>1. <<m, MaxDeliver>> \in Deliveries
        BY MaxDeliverAssumption DEF Deliveries, Numbers
    <2>2. stage'[<<m, MaxDeliver>>] = stage[<<m, MaxDeliver>>]
        BY <1>4, <1>5, <1>7, <2>1
    <2> QED BY <1>1, <1>3, <2>2 DEF HasChance
<1> QED BY <1>6, <1>7

\* The last delivery of a message reaches the client, or is lost on the way.
LEMMA DeliverKeepsChance ==
    ASSUME DeliveryInv, NEW m \in Msgs, HasChance(m), NEW n \in Msgs, Deliver(n)
    PROVE  HasChance(m)' \/ LastOneLost(m)
<1>1. Handled(m)' = Handled(m)
    BY DEF Deliver, Handled
<1>2. <<n, count[n] + 1>> \in Deliveries /\ count[n] \in Nat /\ count[n] < MaxDeliver
    BY MaxDeliverAssumption DEF DeliveryInv, TypeOK, Deliver, Deliveries, Numbers
<1>3. /\ stage' = stage \/ stage' = [stage EXCEPT ![<<n, count[n] + 1>>] = "buffered"]
      /\ count' = [count EXCEPT ![n] = @ + 1]
    BY DEF Deliver, Become
<1>4. /\ stage \in [Deliveries -> Stages] /\ count \in [Msgs -> 0 .. MaxDeliver]
      /\ <<m, MaxDeliver>> \in Deliveries
    BY MaxDeliverAssumption DEF DeliveryInv, TypeOK, Deliveries, Numbers
<1>5. CASE n = m
    <2>1. CASE count[m] + 1 = MaxDeliver
        BY <1>2, <1>3, <1>4, <1>5, <2>1 DEF HasChance, LastOneLost
    <2>2. CASE count[m] + 1 # MaxDeliver
        BY <1>2, <1>3, <1>4, <1>5, <2>2, MaxDeliverAssumption DEF HasChance
    <2> QED BY <2>1, <2>2
<1>6. CASE n # m
    <2>1. count'[m] = count[m] /\ stage'[<<m, MaxDeliver>>] = stage[<<m, MaxDeliver>>]
        BY <1>2, <1>3, <1>4, <1>6
    <2> QED BY <1>1, <2>1 DEF HasChance
<1> QED BY <1>5, <1>6

\* Neither a timer, a late SMTP goroutine nor any other step costs it.
LEMMA StepKeepsChance ==
    ASSUME DeliveryInv, NEW m \in Msgs, HasChance(m), [Next]_vars
    PROVE  HasChance(m)' \/ LastOneLost(m)
<1>1. ASSUME NEW n \in Msgs, Expire(n) PROVE HasChance(m)'
    BY <1>1 DEF Expire, client, HasChance, Handled
<1>2. ASSUME NEW d \in Deliveries, OrphanEnds(d) PROVE HasChance(m)'
    <2>1. mailed \subseteq mailed' /\ UNCHANGED <<count, stage, parked>>
        BY <1>2 DEF OrphanEnds, server
    <2> QED BY <2>1 DEF HasChance, Handled
<1>3. ASSUME Drain \/ Stabilise \/ UNCHANGED vars PROVE HasChance(m)'
    BY <1>3 DEF Drain, Stabilise, vars, server, client, HasChance, Handled
<1>4. CASE Restart
    BY <1>4 DEF LastOneLost
<1> QED BY <1>1, <1>2, <1>3, <1>4, HandleKeepsChance, DeliverKeepsChance DEF Next

\* The chance of a command that failures can no longer hurt.
Safe(m) == stable /\ ~draining /\ HasChance(m)

\* Without failures there is no way to lose it.
LEMMA StepKeepsSafe ==
    ASSUME DeliveryInv, NEW m \in Msgs, Safe(m), [Next]_vars
    PROVE  Safe(m)'
<1>1. stable' /\ ~draining'
    <2>1. UNCHANGED <<draining, stable>>
        <3>1. ASSUME NEW n \in Msgs, Deliver(n) \/ Expire(n) PROVE UNCHANGED <<draining, stable>>
            BY <3>1 DEF Deliver, Expire, client
        <3>2. ASSUME NEW d \in Deliveries, Handle(d) \/ OrphanEnds(d)
              PROVE  UNCHANGED <<draining, stable>>
            BY <3>2 DEF Handle, Start, SendSucceeds, SendFails, Park, Settle, OrphanEnds
        <3>3. ~Drain /\ ~Restart /\ ~Stabilise
            BY DEF Safe, Drain, Restart, Stabilise
        <3> QED BY <3>1, <3>2, <3>3 DEF Next, vars, client
    <2> QED BY <2>1 DEF Safe
<1>2. CASE Deliver(m) /\ UNCHANGED stage
    <2>1. <<m, count[m] + 1>> \in Deliveries /\ stage \in [Deliveries -> Stages]
        BY <1>2, MaxDeliverAssumption DEF DeliveryInv, TypeOK, Deliver, Deliveries, Numbers
    <2>2. stage[<<m, count[m] + 1>>] = "none"
        BY <2>1, MaxDeliverAssumption DEF DeliveryInv, TypeOK, HeldIsMade
    <2> QED BY <1>2, <2>1, <2>2 DEF Safe, Deliver, Become
<1>3. CASE Restart
    BY <1>3 DEF Safe, Restart
<1>4. CASE Park(<<m, MaxDeliver>>)
    BY <1>1, <1>4, MaxDeliverAssumption DEF Safe, Park, HasChance, Handled, Numbers
<1> QED BY <1>1, <1>2, <1>3, <1>4, StepKeepsChance DEF Safe, LastOneLost

-----------------------------------------------------------------------------
(* Theorems.                                                               *)

\* The notifier never leaves the inductive invariant.
THEOREM DeliveryInvariant == Spec => []DeliveryInv
BY InitDelivery, NextKeeps, PTL DEF Spec

\* Every variable of the notifier and of its consumer keeps its type, and the
\* callback works on one delivery at a time.
THEOREM DeliveryTypeCorrect == Spec => []TypeOK
<1>1. DeliveryInv => TypeOK
    BY DEF DeliveryInv
<1> QED BY <1>1, DeliveryInvariant, PTL

\* A message leaves the consumer by an ack or a term only when its e-mail was
\* accepted or it is in the DLQ.
THEOREM NothingSettledUnhandled == Spec => []SettledMeansHandled
<1>1. DeliveryInv => SettledMeansHandled
    BY DEF DeliveryInv
<1> QED BY <1>1, DeliveryInvariant, PTL

\* Only malformed commands and last deliveries are parked.
THEOREM NothingParkedEarly == Spec => []ParkedOnlyWhenDue
<1>1. DeliveryInv => ParkedOnlyWhenDue
    BY DEF DeliveryInv
<1> QED BY <1>1, DeliveryInvariant, PTL

\* Only a lost delivery, the end of the process or a failed DLQ publish can cost
\* a command its last chance to be mailed or parked, never the callback itself.
THEOREM NoLastChanceLost == Spec => LastChanceKept
<1>1. DeliveryInv /\ [Next]_vars
        => [\A m \in Msgs : HasChance(m) => HasChance(m)' \/ LastOneLost(m)]_vars
    BY StepKeepsChance
<1> QED BY <1>1, DeliveryInvariant, PTL DEF Spec, LastChanceKept

\* From a moment without failures on, a command with a delivery left is never
\* given up, unless it has been mailed or parked, or the client still holds it.
\* This is what remains true of subscriber.go:108, "instead of being lost".
THEOREM StableLosesNothing ==
    ASSUME NEW m \in Msgs
    PROVE  Spec => []((stable /\ ~draining /\ count[m] < MaxDeliver)
                         => [](count[m] = MaxDeliver => AtHand(m) \/ Handled(m)))
<1>1. stable /\ ~draining /\ count[m] < MaxDeliver => Safe(m)
    BY DEF Safe, HasChance
<1>2. DeliveryInv /\ Safe(m) /\ [Next]_vars => Safe(m)'
    BY StepKeepsSafe
<1>3. DeliveryInv /\ Safe(m) => (count[m] = MaxDeliver => AtHand(m) \/ Handled(m))
    BY MaxDeliverAssumption DEF Safe, HasChance, AtHand, Numbers
<1> QED BY <1>1, <1>2, <1>3, DeliveryInvariant, PTL DEF Spec
=============================================================================
