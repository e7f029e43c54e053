------------------------------ MODULE Pipeline ------------------------------
(***************************************************************************)
(* The scanner and the notifier as the deployment runs them: two processes *)
(* that share nothing but the NOTIFICATIONS stream.  Scanner writes it,    *)
(* Delivery reads it.  Every step is a step of one of the two, at any time,*)
(* but for the end of the outages, which both see.                         *)
(*                                                                         *)
(* Copy k of a release e-mail is in the stream once the scanner's publishes*)
(* have stored it k times.                                                 *)
(***************************************************************************)
EXTENDS Scanner

CONSTANTS
    MaxDeliver      \* NATS_MAX_DELIVER

ASSUME MaxDeliverAssumption == MaxDeliver \in Nat \ {0}

Messages == Mails \X (1 .. MaxCopies)

VARIABLES
    knew,           \* history: everybody who ever confirmed
    status, count, stage, orphans, draining, mailed, parked

scanning   == <<github, db, broker, loop, budget, worker>>
delivering == <<status, count, stage, orphans, draining, mailed, parked>>
everything == <<vars, delivering, knew>>

\* The notifier.  The scanner publishes to confirmed addresses only, so none
\* of its commands is malformed.
D == INSTANCE Delivery
       WITH Msgs <- Messages, Malformed <- {}, MaxDeliver <- MaxDeliver,
            status <- status, count <- count, stage <- stage, orphans <- orphans,
            draining <- draining, mailed <- mailed, parked <- parked, stable <- stable

\* The stream keeps what it took; the consumer starts with its first message.
InStream(c) == copies[c[1]] >= c[2]

-----------------------------------------------------------------------------
PipelineInit == Init /\ D!Init /\ knew = {}

\* Who is confirmed now is somebody who ever was.
Remember == knew' = knew \cup UNION {subs'[r] \X {r} : r \in Repos}

ScannerStep == Next /\ Remember /\ UNCHANGED delivering

Deliver(c) == InStream(c) /\ D!Deliver(c)

NotifierStep ==
    /\ \/ \E c \in Messages : Deliver(c) \/ D!Expire(c)
       \/ \E d \in D!Deliveries : D!Handle(d) \/ D!OrphanEnds(d)
       \/ D!Drain \/ D!Restart
    /\ UNCHANGED <<scanning, knew>>

OutagesEnd == Stabilise /\ D!Stabilise /\ UNCHANGED knew

PipelineNext == ScannerStep \/ NotifierStep \/ OutagesEnd

PipelineSpec == PipelineInit /\ [][PipelineNext]_everything

\* What has to happen time and again, whichever of its steps it is: the app's
\* process goes on, so does the notifier's, and so does the server behind it.
AppRuns == StartScan \/ EndScan \/ (\E r \in Repos : Job(r)) \/ (cancelled /\ Restart)

NotifierRuns ==
    \/ \E d \in D!Deliveries : D!Handle(d) \/ D!OrphanEnds(d)
    \/ draining /\ D!Restart

ServerRuns == \E c \in Messages : Deliver(c) \/ D!Expire(c)

PipelineFairness ==
    /\ WF_vars(Tick) /\ WF_vars(Stabilise)
    /\ WF_vars(\E r \in Repos : ExpireCache(r))
    /\ WF_vars(AppRuns)
    /\ WF_delivering(NotifierRuns)
    /\ WF_delivering(ServerRuns)

FairPipeline == PipelineSpec /\ PipelineFairness

-----------------------------------------------------------------------------
(* Properties.                                                             *)

Mailed(m) == \E d \in mailed : d[1][1] = m
Parked(m) == \E d \in parked : d[1][1] = m

\* The consumer spent every delivery of a copy of m.
UsedUp(m) == \E c \in Messages : c[1] = m /\ count[c] = MaxDeliver

\* Whatever the two processes and their crashes do in between, people see what
\* Notifications says: only who confirmed is mailed; a release is announced
\* after the one before it, and an older one again only if Redis can fail; the
\* cursor passes nobody who waited; nothing is sent that was not handed over.
Promise == INSTANCE Notifications
             WITH Relapses <- RedisFaults, cursor <- watched,
                  handed <- {m \in Mails : Stored(m)},
                  mailed <- {m \in Mails : Mailed(m)},
                  parked <- {m \in Mails : Parked(m)}

ImplementsNotifications == Promise!Spec

\* From GitHub to the mail server: a new release of a repository whose cursor
\* is known is mailed to everybody who waits for it, unless it is replaced, or
\* its reader leaves, before the e-mail is in the stream, or the notifier
\* needed every delivery it has.
ReleaseIsMailed ==
    \A r \in Repos, u \in Users, t \in Tags :
        (latest[r] = t /\ u \in subs[r] /\ base[u][r] < t /\ watched[r] \in 0 .. t - 1)
          ~> \/ Mailed(<<u, r, t>>) \/ UsedUp(<<u, r, t>>)
             \/ ~Stored(<<u, r, t>>) /\ (latest[r] # t \/ u \notin subs[r])
=============================================================================
