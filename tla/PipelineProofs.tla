--------------------------- MODULE PipelineProofs ---------------------------
(***************************************************************************)
(* Theorems about Pipeline for every set of repositories and users, every  *)
(* pool size, dedup window and number of deliveries: neither process is    *)
(* disturbed by the other, and together they keep what Notifications       *)
(* promises.                                                               *)
(***************************************************************************)
EXTENDS Pipeline, ScannerProofs

-----------------------------------------------------------------------------
(* The two processes in the composition.                                   *)

\* A step of the scanner leaves the end of the outages to OutagesEnd.
LEMMA ScannerKeepsStable == Next => stable' = stable
  BY DEF Next, StartScan, EndScan, Cancel, Restart, Job, Dispatch, FetchHit, FetchMiss, FetchFails,
     Load, List, Send, Save, JobFails, Environment, Tick, PublishRelease, ExpireCache, Confirm,
     Unsubscribe

\* So does a step of the notifier.
LEMMA NotifierKeepsStable == NotifierStep => stable' = stable
  BY DEF NotifierStep, Deliver, D!Deliver, D!Expire, D!Handle, D!Start, D!SendSucceeds, D!SendFails,
     D!Park, D!Settle, D!OrphanEnds, D!Drain, D!Restart

\* Every step is, for the scanner's variables, one of the scanner's or none.
LEMMA ScannerView == [PipelineNext]_everything => [LiveNext]_vars
<1>1. CASE ScannerStep
  BY <1>1 DEF ScannerStep, LiveNext
<1>2. CASE NotifierStep
  BY <1>2, NotifierKeepsStable DEF NotifierStep, scanning, vars
<1>3. CASE OutagesEnd
  BY <1>3 DEF OutagesEnd, LiveNext
<1>4. CASE UNCHANGED everything
  BY <1>4 DEF everything
<1> QED BY <1>1, <1>2, <1>3, <1>4 DEF PipelineNext

\* The scanner behaves in the pipeline as it does alone, outages included: what
\* is proved and checked of it alone holds of it here.
THEOREM ScannerUndisturbed == PipelineSpec => Init /\ [][LiveNext]_vars
<1>1. PipelineInit => Init
  BY DEF PipelineInit
<1> QED BY <1>1, ScannerView, PTL DEF PipelineSpec

\* Every step is, for the notifier's variables, one of the notifier's or none.
LEMMA NotifierView == [PipelineNext]_everything => [D!Next]_(D!vars)
<1> USE DEF D!vars, D!server, D!client
<1>1. CASE ScannerStep
  BY <1>1, ScannerKeepsStable DEF ScannerStep, delivering
<1>2. CASE NotifierStep
  BY <1>2 DEF NotifierStep, Deliver, D!Next
<1>3. CASE OutagesEnd
  BY <1>3 DEF OutagesEnd, D!Next
<1>4. CASE UNCHANGED everything
  BY <1>4 DEF everything, delivering, vars
<1> QED BY <1>1, <1>2, <1>3, <1>4 DEF PipelineNext

\* The notifier behaves in the pipeline as it does alone, with a stream that
\* fills while it runs.
THEOREM NotifierUndisturbed == PipelineSpec => D!Spec
<1>1. PipelineInit => D!Init
  BY DEF PipelineInit
<1> QED BY <1>1, NotifierView, PTL DEF PipelineSpec, D!Spec

-----------------------------------------------------------------------------
(* What links the two.                                                     *)

\* A delivery the client still has to do something about.
Held(d) == stage[d] # "none" \/ d \in orphans

\* Recipients at hand once confirmed.
PeopleInv ==
    /\ \A r \in Repos : \A u \in subs[r] : <<u, r>> \in knew
    /\ \A r \in Repos : worker[r].pc = "send" => \A u \in worker[r].todo : <<u, r>> \in knew

\* The client holds nothing that was not stored.
StreamInv ==
    /\ \A m \in Mails : copies[m] >= 1 => Stored(m)
    /\ stage \in [D!Deliveries -> D!Stages]
    /\ \A d \in D!Deliveries : Held(d) => InStream(d[1])

Ordered == \A r \in Repos : OrderInv(r)

LinkInv == TypeOK /\ MailInv /\ Ordered /\ PeopleInv /\ NotifyInv /\ StreamInv

-----------------------------------------------------------------------------
(* Steps of the notifier.                                                  *)

\* What one step of the notifier does to the deliveries it holds, and to what
\* was mailed and parked.
LEMMA NotifierEffect ==
  ASSUME StreamInv, NotifierStep
  PROVE  /\ stage' \in [D!Deliveries -> D!Stages]
         /\ \A d \in D!Deliveries : Held(d)' => Held(d) \/ InStream(d[1])
         /\ \/ UNCHANGED <<mailed, parked>>
            \/ \E d \in D!Deliveries : Held(d) /\ mailed' = mailed \cup {d} /\ parked' = parked
            \/ \E d \in D!Deliveries : Held(d) /\ parked' = parked \cup {d} /\ mailed' = mailed
<1> USE DEF StreamInv, Held, D!Stages, D!Callback, D!Become, D!client, D!server
<1>1. ASSUME NEW c \in Messages, Deliver(c) PROVE
         /\ stage' \in [D!Deliveries -> D!Stages]
         /\ \A d \in D!Deliveries : Held(d)' => Held(d) \/ InStream(d[1])
         /\ UNCHANGED <<mailed, parked>>
  <2> DEFINE e == <<c, count[c] + 1>>
  <2>1. stage' = stage \/ stage' = [stage EXCEPT ![e] = "buffered"]
    BY <1>1 DEF Deliver, D!Deliver
  <2>2. e[1] = c /\ InStream(c) /\ UNCHANGED <<orphans, mailed, parked>>
    BY <1>1 DEF Deliver, D!Deliver
  <2> HIDE DEF e
  <2> QED BY <2>1, <2>2
<1>2. ASSUME NEW c \in Messages, D!Expire(c) PROVE UNCHANGED <<stage, orphans, mailed, parked>>
  BY <1>2 DEF D!Expire
<1>3. ASSUME NEW d \in D!Deliveries, D!Handle(d) \/ D!OrphanEnds(d) PROVE
         /\ Held(d)
         /\ stage' \in [D!Deliveries -> D!Stages]
         /\ \A e \in D!Deliveries \ {d} : Held(e)' => Held(e)
         /\ \/ UNCHANGED <<mailed, parked>>
            \/ mailed' = mailed \cup {d} /\ parked' = parked
            \/ parked' = parked \cup {d} /\ mailed' = mailed
  <2>1. CASE D!Start(d)
    BY <2>1 DEF D!Start, D!AfterDecode
  <2>2. CASE D!SendSucceeds(d)
    BY <2>2 DEF D!SendSucceeds
  <2>3. CASE D!SendFails(d)
    BY <2>3 DEF D!SendFails, D!AfterFailure
  <2>4. CASE D!Park(d)
    BY <2>4 DEF D!Park, D!AfterFailedPark
  <2>5. CASE D!Settle(d)
    BY <2>5 DEF D!Settle
  <2>6. CASE D!OrphanEnds(d)
    BY <2>6 DEF D!OrphanEnds
  <2> QED BY <1>3, <2>1, <2>2, <2>3, <2>4, <2>5, <2>6 DEF D!Handle
<1>4. CASE D!Drain
  BY <1>4 DEF D!Drain
<1>5. CASE D!Restart
  BY <1>5 DEF D!Restart
<1> QED BY <1>1, <1>2, <1>3, <1>4, <1>5 DEF NotifierStep

-----------------------------------------------------------------------------
(* Steps of the scanner.                                                   *)

\* Whoever is confirmed, or on a list of recipients, confirmed at some time.
LEMMA PeopleStep ==
  ASSUME TypeOK, PeopleInv, ScannerStep PROVE PeopleInv'
<1>1. \A r \in Repos : \A u \in subs'[r] : <<u, r>> \in knew'
  BY DEF ScannerStep, Remember
<1>2. knew \subseteq knew'
  BY DEF ScannerStep, Remember
<1>3. ASSUME NEW q \in Repos, worker'[q].pc = "send", NEW u \in worker'[q].todo
      PROVE  <<u, q>> \in knew'
  <2>1. CASE StartScan \/ EndScan \/ Cancel \/ Restart \/ Environment
    BY <1>2, <1>3, <2>1, OutsideJobs DEF PeopleInv
  <2>2. ASSUME NEW r \in Repos, Job(r) PROVE <<u, q>> \in knew'
    <3>1. CASE q # r
      BY <1>2, <1>3, <2>2, <3>1, JobStep DEF PeopleInv
    <3>2. CASE q = r
      BY <1>2, <1>3, <2>2, <3>2, JobEffect DEF PeopleInv
    <3> QED BY <3>1, <3>2
  <2> QED BY <2>1, <2>2 DEF ScannerStep, Next
<1> QED BY <1>1, <1>3 DEF PeopleInv

\* What the stream took is stored, and stays in the stream.
LEMMA StreamGrows ==
  ASSUME TypeOK, Next, \A m \in Mails : copies[m] >= 1 => Stored(m)
  PROVE  /\ \A m \in Mails : copies'[m] >= copies[m]
         /\ \A m \in Mails : Stored(m) => Stored(m)'
         /\ \A m \in Mails : copies'[m] >= 1 => Stored(m)'
<1>1. /\ age \in [Mails -> 0 .. Window \cup {NotStored}]
      /\ copies \in [Mails -> 0 .. MaxCopies]
  BY DEF TypeOK
<1>2. CASE UNCHANGED broker
  BY <1>1, <1>2 DEF broker, Stored
<1>3. CASE Tick
  BY <1>1, <1>3 DEF Tick, Stored, NotStored
<1>4. ASSUME NEW m \in Mails, Store(m)
      PROVE  /\ \A n \in Mails : copies'[n] >= copies[n]
             /\ \A n \in Mails : Stored(n) => Stored(n)'
             /\ \A n \in Mails : copies'[n] >= 1 => Stored(n)'
  BY <1>1, <1>4 DEF Store, Stored, NotStored
<1> QED BY <1>2, <1>3, <1>4, BrokerEffect DEF LiveNext

\* Whichever process moves, the notifier holds only what was stored.
LEMMA StreamStep ==
  ASSUME TypeOK, StreamInv, ScannerStep \/ NotifierStep PROVE StreamInv'
<1>1. CASE NotifierStep
  <2>1. UNCHANGED broker
    BY <1>1 DEF NotifierStep, scanning
  <2>2. \A d \in D!Deliveries : Held(d)' => InStream(d[1])
    BY <1>1, NotifierEffect DEF StreamInv
  <2> QED BY <1>1, <2>1, <2>2, NotifierEffect DEF StreamInv, broker, InStream, Stored
<1>2. CASE ScannerStep
  <2>1. Next /\ UNCHANGED delivering
    BY <1>2 DEF ScannerStep
  <2>2. ASSUME NEW d \in D!Deliveries, InStream(d[1]) PROVE InStream(d[1])'
    <3>1. d[1][1] \in Mails /\ d[1][2] \in 1 .. MaxCopies
      BY DEF D!Deliveries, Messages
    <3>2. copies'[d[1][1]] >= copies[d[1][1]] /\ copies[d[1][1]] \in Int
      BY <2>1, <3>1, StreamGrows DEF StreamInv, TypeOK
    <3>3. copies'[d[1][1]] \in Int
      BY <2>1, <3>1, TypeStep DEF LiveNext, TypeOK
    <3> QED BY <2>2, <3>1, <3>2, <3>3 DEF InStream
  <2> QED BY <2>1, <2>2, StreamGrows DEF StreamInv, delivering, Held
<1> QED BY <1>1, <1>2

\* The inductive invariant of the composition.
LEMMA LinkHolds == PipelineSpec => []LinkInv
<1>1. PipelineInit => LinkInv
  <2> SUFFICES ASSUME PipelineInit PROVE LinkInv
    OBVIOUS
  <2>1. Init /\ D!Init /\ knew = {}
    BY DEF PipelineInit
  <2>2. TypeOK /\ MailInv /\ Ordered
    BY <2>1, TypeInit, MailInit, OrderInit DEF Ordered
  <2>3. \A r \in Repos : subs[r] = {} /\ worker[r].pc = "none"
    BY <2>1 DEF Init, Idle
  <2>4. PeopleInv /\ NotifyInv
    BY <2>1, <2>3 DEF PeopleInv, NotifyInv, Init
  <2>5. \A m \in Mails : copies[m] = 0
    BY <2>1 DEF Init
  <2>6. stage = [d \in D!Deliveries |-> "none"] /\ orphans = {}
    BY <2>1 DEF D!Init
  <2>7. StreamInv
    BY <2>5, <2>6 DEF StreamInv, Held, D!Stages
  <2> QED BY <2>2, <2>4, <2>7 DEF LinkInv
<1>2. LinkInv /\ [PipelineNext]_everything => LinkInv'
  <2> SUFFICES ASSUME LinkInv, [PipelineNext]_everything PROVE LinkInv'
    OBVIOUS
  <2>1. TypeOK' /\ MailInv'
    BY ScannerView, TypeStep, MailStep DEF LinkInv
  <2>2. Ordered'
    BY ScannerView, OrderStep DEF LinkInv, Ordered
  <2>3. NotifyInv'
    BY ScannerView, NotifyStep DEF LinkInv
  <2>4. CASE ScannerStep
    BY <2>1, <2>2, <2>4, <2>3, PeopleStep, StreamStep DEF LinkInv
  <2>5. CASE NotifierStep
    <3>1. UNCHANGED <<subs, knew, worker, watched, outlived>>
      BY <2>5 DEF NotifierStep, scanning, github, db
    <3>2. PeopleInv'
      BY <3>1 DEF LinkInv, PeopleInv
    <3> QED BY <2>1, <2>2, <2>5, <2>3, <3>2, StreamStep DEF LinkInv
  <2>6. CASE OutagesEnd \/ UNCHANGED everything
    <3>1. UNCHANGED <<subs, knew, worker, watched, outlived, age, copies, stage, orphans>>
      BY <2>6 DEF OutagesEnd, Stabilise, D!Stabilise, D!client, D!server, everything, vars,
         delivering, github, db, broker
    <3>2. PeopleInv'
      BY <3>1 DEF LinkInv, PeopleInv
    <3>3. StreamInv'
      BY <3>1 DEF LinkInv, StreamInv, Held, InStream, Stored
    <3> QED BY <2>1, <2>2, <2>3, <3>2, <3>3 DEF LinkInv
  <2> QED BY <2>4, <2>5, <2>6 DEF PipelineNext
<1> QED BY <1>1, <1>2, PTL DEF PipelineSpec

-----------------------------------------------------------------------------
(* The refinement.                                                         *)

\* The e-mails Notifications calls handed over, mailed and parked.
HandedSet == {m \in Mails : Stored(m)}
MailedSet == {m \in Mails : Mailed(m)}
ParkedSet == {m \in Mails : Parked(m)}

\* The pipeline starts as Notifications does.
LEMMA PromiseInit == PipelineInit => Promise!Init
<1> SUFFICES ASSUME PipelineInit PROVE Promise!Init
  OBVIOUS
<1>1. Init /\ D!Init /\ knew = {}
  BY DEF PipelineInit
<1>2. \A m \in Mails : ~Stored(m)
  BY <1>1 DEF Init, Stored
<1>3. mailed = {} /\ parked = {}
  BY <1>1 DEF D!Init
<1>4. \A m \in Mails : ~Mailed(m) /\ ~Parked(m)
  BY <1>3 DEF Mailed, Parked
<1> QED BY <1>1, <1>2, <1>4 DEF Init, Promise!Init, Promise!NoTag, Promise!NoRow, NoTag, NoRow

\* A step of the notifier mails or parks at most one e-mail, which was stored.
LEMMA NotifierRefines ==
  ASSUME LinkInv, NotifierStep PROVE [Promise!Next]_(Promise!vars)
<1>1. UNCHANGED <<latest, subs, base, knew, watched, broker>>
  BY DEF NotifierStep, scanning, github, db
<1>2. HandedSet' = HandedSet
  BY <1>1 DEF HandedSet, Stored, broker
<1>3. ASSUME NEW d \in D!Deliveries, Held(d) PROVE d[1][1] \in HandedSet
  <2>1. d[1][1] \in Mails /\ d[1][2] \in 1 .. MaxCopies /\ InStream(d[1])
    BY <1>3 DEF D!Deliveries, Messages, LinkInv, StreamInv
  <2>2. copies[d[1][1]] \in 0 .. MaxCopies
    BY <2>1 DEF LinkInv, TypeOK
  <2>3. copies[d[1][1]] >= 1
    BY <2>1, <2>2 DEF InStream
  <2> QED BY <2>1, <2>3 DEF HandedSet, LinkInv, StreamInv
<1>4. CASE UNCHANGED <<mailed, parked>>
  BY <1>1, <1>2, <1>4 DEF HandedSet, Mailed, Parked, Promise!vars, Promise!people, Promise!outcome
<1>5. ASSUME NEW d \in D!Deliveries, Held(d), mailed' = mailed \cup {d}, parked' = parked
      PROVE  Promise!Next
  <2> DEFINE m == d[1][1]
  <2>1. m \in HandedSet /\ m \in Mails
    BY <1>3, <1>5 DEF HandedSet
  <2>2. MailedSet' = MailedSet \cup {m}
    BY <1>5, <2>1 DEF MailedSet, Mailed
  <2>3. ParkedSet' = ParkedSet
    BY <1>5 DEF ParkedSet, Parked
  <2>4. Promise!Mail(m)
    BY <1>1, <1>2, <2>1, <2>2, <2>3 DEF Promise!Mail, Promise!people, HandedSet, MailedSet, ParkedSet
  <2> QED BY <2>1, <2>4 DEF Promise!Next, Promise!Mails, Mails, Tags
<1>6. ASSUME NEW d \in D!Deliveries, Held(d), parked' = parked \cup {d}, mailed' = mailed
      PROVE  Promise!Next
  <2> DEFINE m == d[1][1]
  <2>1. m \in HandedSet /\ m \in Mails
    BY <1>3, <1>6 DEF HandedSet
  <2>2. ParkedSet' = ParkedSet \cup {m}
    BY <1>6, <2>1 DEF ParkedSet, Parked
  <2>3. MailedSet' = MailedSet
    BY <1>6 DEF MailedSet, Mailed
  <2>4. Promise!Park(m)
    BY <1>1, <1>2, <2>1, <2>2, <2>3 DEF Promise!Park, Promise!people, HandedSet, MailedSet, ParkedSet
  <2> QED BY <2>1, <2>4 DEF Promise!Next, Promise!Mails, Mails, Tags
<1> QED BY <1>4, <1>5, <1>6, NotifierEffect DEF LinkInv

\* What the e-mail commands say after a step of the scanner that stores none.
LEMMA SameOutcome ==
  ASSUME UNCHANGED delivering
  PROVE  MailedSet' = MailedSet /\ ParkedSet' = ParkedSet
  BY DEF delivering, MailedSet, ParkedSet, Mailed, Parked

\* The people Remember adds are those confirmed already, unless one confirms.
LEMMA SameKnown ==
  ASSUME PeopleInv, Remember, subs' = subs PROVE knew' = knew
  BY DEF PeopleInv, Remember

\* A job moves a known cursor, or publishes, only for a release that follows it.
LEMMA NotifiesWhatFollows ==
  ASSUME LinkInv, NEW r \in Repos, worker[r].pc \in {"list", "send", "save"}
  PROVE  /\ worker[r].tag \in 1 .. MaxTag /\ worker[r].tag <= latest[r]
         /\ watched[r] # NoRow /\ Promise!Follows(worker[r].tag, r)
<1>1. worker[r] \in Workers /\ worker[r].tag \in 1 .. MaxTag
  BY DEF LinkInv, TypeOK, Workers, Running, Tags
<1>2. worker[r].tag <= latest[r]
  BY DEF LinkInv, MailInv, JobInv, Running
<1>3. watched[r] # NoRow /\ watched[r] # worker[r].tag
  BY DEF LinkInv, NotifyInv
<1>4. ~RedisFaults => watched[r] <= worker[r].tag
  BY DEF LinkInv, NotifyInv, Ordered, OrderInv, Running
<1>5. watched[r] \in Int /\ worker[r].tag \in Int
  BY <1>1, OrderNumbers DEF LinkInv
<1> QED BY <1>1, <1>2, <1>3, <1>4, <1>5 DEF Promise!Follows

\* Publishing and saving are what Notifications calls handing over, seeing for
\* the first time, and advancing; the other steps of a job do not show.
LEMMA JobRefines ==
  ASSUME LinkInv, ScannerStep, NEW r \in Repos, Job(r)
  PROVE  [Promise!Next]_(Promise!vars)
<1> USE DEF Promise!people, Promise!outcome
<1>1. /\ UNCHANGED <<latest, subs, base, knew>>
      /\ \A q \in Repos \ {r} : watched'[q] = watched[q]
      /\ MailedSet' = MailedSet /\ ParkedSet' = ParkedSet
  BY JobKeeps, SameKnown, SameOutcome DEF LinkInv, ScannerStep
<1>2. CASE Save(r)
  <2> DEFINE t == worker[r].tag
  <2>1. /\ watched' = [watched EXCEPT ![r] = t] /\ HandedSet' = HandedSet
        /\ worker[r].pc \in {"silent", "save"}
    BY <1>2 DEF Save, HandedSet, Stored, broker
  <2>2. t \in 1 .. MaxTag /\ t <= latest[r]
    BY <2>1 DEF LinkInv, TypeOK, MailInv, JobInv, Workers, Running, Tags
  <2>3. CASE worker[r].pc = "silent" /\ watched[r] = NoRow
    <3>1. Promise!FirstSight(r, t)
      BY <1>1, <2>1, <2>2, <2>3 DEF Promise!FirstSight, Promise!NoRow, NoRow, HandedSet, MailedSet, ParkedSet
    <3> QED BY <2>2, <3>1 DEF Promise!Next
  <2>4. CASE worker[r].pc = "silent" /\ watched[r] # NoRow
    <3>1. watched[r] = t
      BY <2>4 DEF LinkInv, MailInv, JobInv
    <3>2. watched' = watched
      BY <2>1, <3>1 DEF LinkInv, TypeOK
    <3> QED BY <1>1, <2>1, <3>2 DEF Promise!vars, HandedSet, MailedSet, ParkedSet
  <2>5. CASE worker[r].pc = "save"
    <3>1. watched[r] # NoRow /\ Promise!Follows(t, r)
      BY <2>5, NotifiesWhatFollows
    <3>2. ASSUME NEW u \in subs[r], base[u][r] < t PROVE <<u, r, t>> \in HandedSet
      <4>1. Stored(<<u, r, t>>)
        BY <2>5, <3>2 DEF LinkInv, MailInv, JobInv
      <4>2. <<u, r, t>> \in Mails
        BY <2>2 DEF LinkInv, TypeOK, Mails, Tags
      <4> QED BY <4>1, <4>2 DEF HandedSet
    <3>3. Promise!Advance(r, t)
      BY <1>1, <2>1, <2>2, <3>1, <3>2 DEF Promise!Advance, Promise!NoRow, NoRow, HandedSet, MailedSet, ParkedSet
    <3> QED BY <2>2, <3>3 DEF Promise!Next
  <2> QED BY <2>1, <2>3, <2>4, <2>5
<1>3. CASE ~Save(r) /\ HandedSet' = HandedSet
  <2>1. watched' = watched
    BY <1>3 DEF Job, Dispatch, FetchHit, FetchMiss, FetchFails, Load, List, Send, JobFails, db
  <2> QED BY <1>1, <1>3, <2>1 DEF Promise!vars, HandedSet, MailedSet, ParkedSet
<1>4. ASSUME NEW q \in Repos, NEW u \in Users, Send(q, u), Store(<<u, q, worker[q].tag>>),
             <<u, q, worker[q].tag>> \in Mails
      PROVE  Promise!Next
  <2> DEFINE t == worker[q].tag
  <2>1. worker[q].pc = "send" /\ u \in worker[q].todo /\ watched' = watched
    BY <1>4 DEF Send, db
  <2>2. <<u, q>> \in knew
    BY <2>1 DEF LinkInv, PeopleInv
  <2>3. /\ t \in 1 .. MaxTag /\ t <= latest[q]
        /\ watched[q] # NoRow /\ Promise!Follows(t, q)
    BY <2>1, NotifiesWhatFollows
  <2>4. HandedSet' = HandedSet \cup {<<u, q, t>>}
    <3> DEFINE m == <<u, q, t>>
    <3>1. m \in Mails /\ age' = [age EXCEPT ![m] = 0]
      BY <1>4 DEF Store
    <3>2. age \in [Mails -> 0 .. Window \cup {NotStored}]
      BY DEF LinkInv, TypeOK
    <3> HIDE DEF m
    <3>3. \A n \in Mails : age'[n] # NotStored <=> age[n] # NotStored \/ n = m
      BY <3>1, <3>2 DEF NotStored
    <3>4. HandedSet' = HandedSet \cup {m}
      BY <3>1, <3>3 DEF HandedSet, Stored
    <3> QED BY <3>4 DEF m
  <2>5. Promise!HandOver(u, q, t)
    BY <1>1, <2>1, <2>2, <2>3, <2>4 DEF Promise!HandOver, Promise!NoRow, NoRow, HandedSet, MailedSet, ParkedSet
  <2> QED BY <2>3, <2>5 DEF Promise!Next
<1>5. CASE UNCHANGED broker \/ Tick
  <2>1. HandedSet' = HandedSet
    BY <1>5 DEF broker, Tick, HandedSet, Stored, NotStored, LinkInv, TypeOK
  <2> QED BY <1>2, <1>3, <2>1
<1> QED BY <1>4, <1>5, BrokerEffect DEF LinkInv, ScannerStep, LiveNext

\* People and GitHub act on their own; ticks and the cache do not show.
LEMMA EnvironmentRefines ==
  ASSUME LinkInv, ScannerStep, Environment
  PROVE  [Promise!Next]_(Promise!vars)
<1> USE DEF Promise!people, Promise!outcome
<1>1. MailedSet' = MailedSet /\ ParkedSet' = ParkedSet
  BY SameOutcome DEF ScannerStep
<1>2. CASE Tick
  <2>1. UNCHANGED <<latest, subs, base, watched>> /\ HandedSet' = HandedSet
    BY <1>2 DEF Tick, HandedSet, Stored, NotStored, LinkInv, TypeOK, github, db
  <2>2. knew' = knew
    BY <2>1, SameKnown DEF LinkInv, ScannerStep
  <2> QED BY <1>1, <2>1, <2>2 DEF Promise!vars, HandedSet, MailedSet, ParkedSet
<1>3. ASSUME NEW r \in Repos, PublishRelease(r) \/ ExpireCache(r)
      PROVE  [Promise!Next]_(Promise!vars)
  <2>1. UNCHANGED <<subs, base, watched>> /\ HandedSet' = HandedSet
    BY <1>3 DEF PublishRelease, ExpireCache, HandedSet, Stored, broker, db
  <2>2. knew' = knew
    BY <2>1, SameKnown DEF LinkInv, ScannerStep
  <2>3. CASE ExpireCache(r)
    BY <1>1, <2>1, <2>2, <2>3 DEF ExpireCache, Promise!vars, HandedSet, MailedSet, ParkedSet
  <2>4. CASE PublishRelease(r)
    <3>1. Promise!PublishRelease(r)
      BY <1>1, <2>1, <2>2, <2>4 DEF PublishRelease, Promise!PublishRelease, HandedSet, MailedSet, ParkedSet
    <3> QED BY <3>1 DEF Promise!Next
  <2> QED BY <1>3, <2>3, <2>4
<1>4. ASSUME NEW r \in Repos, NEW u \in Users, Confirm(u, r) \/ Unsubscribe(u, r)
      PROVE  Promise!Next
  <2>1. UNCHANGED <<latest, watched>> /\ HandedSet' = HandedSet
    BY <1>4 DEF Confirm, Unsubscribe, HandedSet, Stored, broker, github
  <2>2. subs \in [Repos -> SUBSET Users]
    BY DEF LinkInv, TypeOK
  <2>3. CASE Confirm(u, r)
    <3>1. knew' = knew \cup {<<u, r>>}
      BY <2>2, <2>3 DEF Confirm, LinkInv, PeopleInv, ScannerStep, Remember
    <3>2. Promise!Confirm(u, r)
      BY <1>1, <2>1, <2>3, <3>1 DEF Confirm, Promise!Confirm, HandedSet, MailedSet, ParkedSet
    <3> QED BY <3>2 DEF Promise!Next
  <2>4. CASE Unsubscribe(u, r)
    <3>1. knew' = knew
      BY <2>2, <2>4 DEF Unsubscribe, LinkInv, PeopleInv, ScannerStep, Remember
    <3>2. Promise!Unsubscribe(u, r)
      BY <1>1, <2>1, <2>4, <3>1 DEF Unsubscribe, Promise!Unsubscribe, Promise!NoTag, NoTag,
         HandedSet, MailedSet, ParkedSet
    <3> QED BY <3>2 DEF Promise!Next
  <2> QED BY <1>4, <2>3, <2>4
<1> QED BY <1>2, <1>3, <1>4 DEF Environment

\* Scanner, stream and notifier together implement Notifications.
THEOREM RefinesNotifications == PipelineSpec => ImplementsNotifications
<1>1. LinkInv /\ [PipelineNext]_everything => [Promise!Next]_(Promise!vars)
  <2> SUFFICES ASSUME LinkInv, [PipelineNext]_everything PROVE [Promise!Next]_(Promise!vars)
    OBVIOUS
  <2>1. CASE ScannerStep
    <3>1. ASSUME StartScan \/ EndScan \/ Cancel \/ Restart PROVE UNCHANGED Promise!vars
      <4>1. UNCHANGED <<latest, subs, base, watched, broker>>
        BY <3>1 DEF StartScan, EndScan, Cancel, Restart, github, db
      <4>2. knew' = knew /\ MailedSet' = MailedSet /\ ParkedSet' = ParkedSet
        BY <2>1, <4>1, SameKnown, SameOutcome DEF LinkInv, ScannerStep
      <4> QED BY <4>1, <4>2 DEF Promise!vars, Promise!people, Promise!outcome, MailedSet, ParkedSet,
                 Stored, broker
    <3> QED BY <2>1, <3>1, JobRefines, EnvironmentRefines DEF ScannerStep, Next
  <2>2. CASE NotifierStep
    BY <2>2, NotifierRefines
  <2>3. CASE OutagesEnd \/ UNCHANGED everything
    <3>1. UNCHANGED <<latest, subs, base, knew, watched, age, mailed, parked>>
      BY <2>3 DEF OutagesEnd, Stabilise, D!Stabilise, everything, vars, delivering, github, db, broker
    <3> QED BY <3>1 DEF Promise!vars, Promise!people, Promise!outcome, Stored, Mailed, Parked
  <2> QED BY <2>1, <2>2, <2>3 DEF PipelineNext
<1> QED BY <1>1, PromiseInit, LinkHolds, PTL DEF PipelineSpec, ImplementsNotifications, Promise!Spec

-----------------------------------------------------------------------------
(* What holds from the release on GitHub to the mail server.                *)

\* The scanner keeps in the pipeline all that it keeps alone: the notifier, its
\* outages and its restarts take nothing away from it.
THEOREM ScannerIsSafeHere ==
  PipelineSpec => /\ []TypeOK /\ []PoolBounded /\ []RateLimitStopsCalls
                  /\ CursorOnlyAfterMail /\ CursorMovesForward
                  /\ NoCopyInsideWindow /\ NoMailBehindCursor
<1>1. PipelineSpec => WideSpec
  BY ScannerUndisturbed DEF WideSpec
<1> QED BY <1>1, ScannerIsSafe

\* An SMTP server, or the dead-letter stream, gets release e-mails only for
\* people who confirmed, of releases that are out.
THEOREM OnlySubscribersAreMailed == PipelineSpec => []Promise!OnlyWhoConfirmed
  BY RefinesNotifications, Promise!NobodyElseIsMailed, PTL DEF ImplementsNotifications

\* Once the cursor of r is known and whoever waited has its release in the
\* stream, that stays so: no release, crash, retry or late subscriber leaves
\* somebody behind the cursor without the e-mail.
THEOREM NobodyIsPassedOver ==
  ASSUME NEW r \in Repos
  PROVE  PipelineSpec => [](Promise!Served(r) => []Promise!Served(r))
  BY RefinesNotifications, Promise!ServedForGood, PTL DEF ImplementsNotifications

-----------------------------------------------------------------------------
(* What is proved of the notifier alone, for the pipeline's messages.      *)

Notifier == INSTANCE DeliveryProofs
              WITH Msgs <- Messages, Malformed <- {}, MaxDeliver <- MaxDeliver,
                   status <- status, count <- count, stage <- stage, orphans <- orphans,
                   draining <- draining, mailed <- mailed, parked <- parked, stable <- stable

\* The notifier the proofs are about is the one of the pipeline.
LEMMA SameNotifier == D!Spec => Notifier!Spec
<1>1. D!Init => Notifier!Init
  BY DEF D!Init, D!Deliveries, D!Numbers, Notifier!Init, Notifier!Deliveries, Notifier!Numbers
<1>2. [D!Next]_(D!vars) => [Notifier!Next]_(Notifier!vars)
  BY DEF
      D!Next, D!Deliver, D!Expire, D!Handle, D!Start, D!SendSucceeds, D!SendFails, D!Park,
      D!Settle, D!OrphanEnds, D!Drain, D!Restart, D!Stabilise, D!Become, D!AfterDecode,
      D!AfterFailure, D!AfterFailedPark, D!CallbackFree, D!Callback, D!Deliveries, D!Numbers,
      D!vars, D!server, D!client,
      Notifier!Next, Notifier!Deliver, Notifier!Expire, Notifier!Handle, Notifier!Start,
      Notifier!SendSucceeds, Notifier!SendFails, Notifier!Park, Notifier!Settle,
      Notifier!OrphanEnds, Notifier!Drain, Notifier!Restart, Notifier!Stabilise, Notifier!Become,
      Notifier!AfterDecode, Notifier!AfterFailure, Notifier!AfterFailedPark,
      Notifier!CallbackFree, Notifier!Callback, Notifier!Deliveries, Notifier!Numbers,
      Notifier!vars, Notifier!server, Notifier!client
<1> QED BY <1>1, <1>2, PTL DEF D!Spec, Notifier!Spec

\* A release e-mail leaves the consumer only mailed or parked, is parked only
\* after its last delivery, and is never given up by the callback itself.
THEOREM NotifierIsSafeHere ==
  PipelineSpec => /\ []Notifier!SettledMeansHandled
                  /\ []Notifier!ParkedOnlyWhenDue
                  /\ Notifier!LastChanceKept
<1>1. MaxDeliver \in Nat \ {0} /\ {} \subseteq Messages
  BY MaxDeliverAssumption
<1>2. /\ Notifier!Spec => []Notifier!SettledMeansHandled
      /\ Notifier!Spec => []Notifier!ParkedOnlyWhenDue
      /\ Notifier!Spec => Notifier!LastChanceKept
  BY <1>1, Notifier!NothingSettledUnhandled, Notifier!NothingParkedEarly,
     Notifier!NoLastChanceLost
<1> QED BY <1>2, NotifierUndisturbed, SameNotifier, PTL
=============================================================================
