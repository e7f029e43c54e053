------------------------------ MODULE Scanner ------------------------------
(***************************************************************************)
(* The release scanner of internal/app/scanner together with what it       *)
(* touches on every step: the worker pool it fans out over, the Redis      *)
(* cache in front of GitHub, the watched_repos cursor and the confirmed    *)
(* subscriptions in Postgres, and the NOTIFICATIONS stream that takes its  *)
(* release e-mails and drops duplicates by Nats-Msg-Id.                    *)
(*                                                                         *)
(* Releases of a repository are numbered in the order of publication, so   *)
(* a tag is a number, NoTag is the empty string GetLatestRelease returns   *)
(* for a repository without releases, and the cursor of a row that was     *)
(* made without a scan; NoRow says that watched_repos has no row.  The     *)
(* program itself compares tags only for equality.                         *)
(***************************************************************************)
EXTENDS Integers, FiniteSets

CONSTANTS
    Repos,          \* the repositories somebody may subscribe to
    Users,          \* the e-mail addresses that may subscribe
    Backfilled,     \* those that may have a row made by migration 0003
    MaxTag,         \* bound: releases published per repository
    Concurrency,    \* SCAN_CONCURRENCY, as NewWorkerPool receives it
    Window,         \* broker dedup window, in scan intervals
    MaxCopies,      \* bound: copies of one e-mail are counted up to here
    RedisFaults     \* may GET and SETEX of the release cache fail?

ASSUME ReposAssumption       == IsFiniteSet(Repos)
ASSUME BackfilledAssumption  == Backfilled \subseteq Repos
ASSUME MaxTagAssumption      == MaxTag \in Nat
ASSUME ConcurrencyAssumption == Concurrency \in Int
ASSUME WindowAssumption      == Window \in Nat \ {0}
ASSUME MaxCopiesAssumption   == MaxCopies \in Nat \ {0}
ASSUME RedisFaultsAssumption == RedisFaults \in BOOLEAN

NoTag == 0
NoRow == -1
Tags  == 1 .. MaxTag

NotCached == -1     \* the release key is absent from Redis
NotStored == -1     \* the stream never took this e-mail

\* A release e-mail is known by its recipient and the release it announces.
Mails == Users \X Repos \X Tags

VARIABLES
    latest,     \* GitHub: latest[r] is the newest release of r
    cached,     \* Redis: the answer kept under gh:latest:r
    outlived,   \* history: a cached answer was left beside a newer one
    subs,       \* Postgres: subs[r] are the confirmed subscribers of r
    base,       \* history: base[u][r] is latest[r] when u in subs[r] confirmed
    watched,    \* Postgres: watched[r] is r's last_seen_tag
    age,        \* broker: whole intervals since e-mail m was last stored
    copies,     \* history: copies of m the stream took
    scan,       \* where Scanner.Run stands
    tick,       \* is a tick waiting in the ticker's channel?
    worker,     \* worker[r]: the pool's goroutine for job r
    limited,    \* rateLimitHit of the current runOnce
    lateCalls,  \* history: upstream calls begun with rateLimitHit set
    cancelled,  \* is the process context cancelled?
    stable      \* the environment has stopped failing

github == <<latest, cached, outlived>>
db     == <<subs, base, watched>>
broker == <<age, copies>>
loop   == <<scan, tick, cancelled>>
budget == <<limited, lateCalls>>
vars   == <<github, db, broker, loop, budget, worker, stable>>

-----------------------------------------------------------------------------
(* Helpers, and the values a worker may have.                              *)

Running == {"fetch", "load", "silent", "list", "send", "save"}
PCs     == Running \cup {"none", "queued"}
Records == [pc : PCs, tag : Tags \cup {NoTag}, todo : SUBSET Users,
            allSent : BOOLEAN]

\* Past its fetch, a job holds the tag of a release.
Workers == {w \in Records : w.pc \in Running \ {"fetch"} => w.tag \in Tags}

Idle   == [pc |-> "none", tag |-> NoTag, todo |-> {}, allSent |-> TRUE]
Queued == [Idle EXCEPT !.pc = "queued"]

\* NewWorkerPool raises a size below one to one.
PoolSize == IF Concurrency < 1 THEN 1 ELSE Concurrency

\* The holders of a slot of the pool's semaphore.
InFlight == {r \in Repos : worker[r].pc \in Running}

SlotFree_OffByOne == Cardinality(InFlight) <= PoolSize
SlotFree          == Cardinality(InFlight) < PoolSize

\* A call of the scanner may fail while the environment is unreliable, and
\* after SIGTERM because its context is cancelled.
MayFail == ~stable \/ cancelled

-----------------------------------------------------------------------------
\* A database that was in use before watched_repos may have rows with an empty
\* cursor, for repositories that had subscribers but were never scanned.
Init ==
    /\ latest = [r \in Repos |-> NoTag]
    /\ cached = [r \in Repos |-> NotCached]
    /\ outlived = FALSE
    /\ subs = [r \in Repos |-> {}]
    /\ base = [u \in Users |-> [r \in Repos |-> NoTag]]
    /\ watched \in [Repos -> {NoRow, NoTag}]
    /\ \A r \in Repos \ Backfilled : watched[r] = NoRow
    /\ age = [m \in Mails |-> NotStored]
    /\ copies = [m \in Mails |-> 0]
    /\ scan = "boot"
    /\ tick = FALSE
    /\ cancelled = FALSE
    /\ limited = FALSE
    /\ lateCalls = 0
    /\ worker = [r \in Repos |-> Idle]
    /\ stable = FALSE

-----------------------------------------------------------------------------
(* What happens around the scanner.                                        *)

\* /releases/latest answers newer and newer releases: that one is deleted or
\* withdrawn, after which GitHub answers an older tag, is left out.
PublishRelease(r) ==
    /\ latest[r] < MaxTag
    /\ latest' = [latest EXCEPT ![r] = @ + 1]
    /\ UNCHANGED <<cached, outlived, db, broker, loop, budget, worker, stable>>

\* The entry's ten minutes are over.
ExpireCache(r) ==
    /\ cached[r] # NotCached
    /\ cached' = [cached EXCEPT ![r] = NotCached]
    /\ UNCHANGED <<latest, outlived, db, broker, loop, budget, worker, stable>>

\* A new subscription is confirmed.
Confirm(u, r) ==
    /\ u \notin subs[r]
    /\ subs' = [subs EXCEPT ![r] = @ \cup {u}]
    /\ base' = [base EXCEPT ![u][r] = latest[r]]
    /\ UNCHANGED <<github, watched, broker, loop, budget, worker, stable>>

\* The subscription's row is deleted; the cursor's row stays.
Unsubscribe(u, r) ==
    /\ u \in subs[r]
    /\ subs' = [subs EXCEPT ![r] = @ \ {u}]
    /\ base' = [base EXCEPT ![u][r] = NoTag]
    /\ UNCHANGED <<github, watched, broker, loop, budget, worker, stable>>

\* One scan interval passes.  The ticker's channel has room for one tick and
\* drops the others.
Tick ==
    /\ age' = [m \in Mails |->
                 IF age[m] \in 0 .. Window - 1 THEN age[m] + 1 ELSE age[m]]
    /\ tick' = TRUE
    /\ UNCHANGED <<github, db, copies, scan, cancelled, budget, worker, stable>>

\* From now on nothing fails and nobody stops the process anew.
Stabilise ==
    /\ ~stable
    /\ stable' = TRUE
    /\ UNCHANGED <<github, db, broker, loop, budget, worker>>

-----------------------------------------------------------------------------
(* Scanner.Run and runOnce.                                                *)

\* rateLimitHit is a variable of runOnce, so every run starts with it unset.
FlagAtStart_Kept == limited
FlagAtStart      == FALSE

\* runOnce at start-up, then once per tick received.  The list holds every
\* repository with a confirmed subscriber once; if reading it fails there is
\* nothing to do.
StartScan ==
    /\ ~cancelled
    /\ \/ scan = "boot" /\ UNCHANGED tick
       \/ scan = "idle" /\ tick /\ tick' = FALSE
    /\ scan' = "busy"
    /\ \/ worker' = [r \in Repos |-> IF subs[r] # {} THEN Queued ELSE Idle]
       \/ MayFail /\ UNCHANGED worker
    /\ limited' = FlagAtStart
    /\ lateCalls' = 0
    /\ UNCHANGED <<github, db, broker, cancelled, stable>>

\* wg.Wait returns.  A run that took more than 0.8 intervals drops the tick
\* that came meanwhile; time within an interval is not measured here.
EndScan ==
    /\ scan = "busy"
    /\ \A r \in Repos : worker[r] = Idle
    /\ scan' = "idle"
    /\ tick' \in {tick, FALSE}
    /\ UNCHANGED <<github, db, broker, cancelled, budget, worker, stable>>

\* SIGTERM cancels the context.  The pool dispatches no further job.
Cancel ==
    /\ ~cancelled /\ ~stable
    /\ cancelled' = TRUE
    /\ worker' = [r \in Repos |-> IF worker[r] = Queued THEN Idle ELSE worker[r]]
    /\ UNCHANGED <<github, db, broker, scan, tick, budget, stable>>

\* The process ends, after SIGTERM or by a crash, without waiting for the
\* scanner, and a new one starts.
Restart ==
    /\ MayFail
    /\ scan' = "boot"
    /\ tick' = FALSE
    /\ cancelled' = FALSE
    /\ limited' = FALSE
    /\ lateCalls' = 0
    /\ worker' = [r \in Repos |-> Idle]
    /\ UNCHANGED <<github, db, broker, stable>>

-----------------------------------------------------------------------------
(* One job: the handler of runOnce, safeCheckRepo and checkRepo.  Its end,  *)
(* in whatever way, frees the slot.                                        *)

Become(r, w) == worker' = [worker EXCEPT ![r] = w]

JobSkipped_Never == FALSE
JobSkipped       == limited

\* A slot is free; the handler reads rateLimitHit before anything else.
Dispatch(r) ==
    /\ worker[r] = Queued
    /\ ~cancelled
    /\ SlotFree
    /\ Become(r, IF JobSkipped THEN Idle ELSE [Idle EXCEPT !.pc = "fetch"])
    /\ UNCHANGED <<github, db, broker, loop, budget, stable>>

\* A database call fails, or a panic is recovered.
JobFails(r) ==
    /\ MayFail
    /\ worker[r].pc \in Running \ {"fetch"}
    /\ Become(r, Idle)
    /\ UNCHANGED <<github, db, broker, loop, budget, stable>>

\* CachedClient.GetLatestRelease gives `tag`.  No release: done.
Answer_NoEmptyCheck(r, tag) == Become(r, [Idle EXCEPT !.pc = "load", !.tag = tag])

Answer(r, tag) ==
    Become(r, IF tag = NoTag THEN Idle ELSE [Idle EXCEPT !.pc = "load", !.tag = tag])

FetchHit(r) ==
    /\ worker[r].pc = "fetch"
    /\ cached[r] # NotCached
    /\ Answer(r, cached[r])
    /\ UNCHANGED <<github, db, broker, loop, budget, stable>>

\* GitHub is asked: on a miss, or because GET failed.
AskGitHub(r) ==
    /\ worker[r].pc = "fetch"
    /\ cached[r] = NotCached \/ (RedisFaults /\ MayFail)
    /\ lateCalls' = IF limited THEN lateCalls + 1 ELSE lateCalls

\* SETEX replaces what is there.
Cache_IfAbsent(r) == cached' = [cached EXCEPT ![r] = IF @ = NotCached THEN latest[r] ELSE @]
Cache(r)          == cached' = [cached EXCEPT ![r] = latest[r]]

\* The answer is written to the cache, unless SETEX fails too.  If both calls
\* failed, an older answer may stay there.
FetchMiss(r) ==
    /\ AskGitHub(r)
    /\ Answer(r, latest[r])
    /\ \/ Cache(r) /\ UNCHANGED outlived
       \/ /\ RedisFaults /\ MayFail
          /\ UNCHANGED cached
          /\ outlived' = (outlived \/ cached[r] \notin {NotCached, latest[r]})
    /\ UNCHANGED <<latest, db, broker, loop, limited, stable>>

\* Errors are never cached.  ErrRateLimited makes the other jobs of this run
\* end before they start.
FetchFails(r) ==
    /\ MayFail
    /\ AskGitHub(r)
    /\ limited' \in {limited, TRUE}
    /\ Become(r, Idle)
    /\ UNCHANGED <<github, db, broker, loop, stable>>

\* WatchedRepo.IsNewRelease; empty tags do not reach it.
IsNewRelease_Always(seen, tag) == TRUE
IsNewRelease(seen, tag)        == tag # seen

\* GetWatchedRepo, and the choice between notifying and recording silently.
Load(r) ==
    /\ worker[r].pc = "load"
    /\ LET notify == watched[r] # NoRow /\ IsNewRelease(watched[r], worker[r].tag)
       IN  Become(r, [worker[r] EXCEPT !.pc = IF notify THEN "list" ELSE "silent"])
    /\ UNCHANGED <<github, db, broker, loop, budget, stable>>

\* What follows the send loop: the cursor moves only if every send succeeded.
AfterSends_Always(w) == [w EXCEPT !.pc = "save"]
AfterSends(w)        == IF w.allSent THEN [w EXCEPT !.pc = "save"] ELSE Idle

InLoop(w) == IF w.todo = {} THEN AfterSends(w) ELSE w

\* FindConfirmedSubscriptionsByRepo.
List(r) ==
    /\ worker[r].pc = "list"
    /\ Become(r, InLoop([worker[r] EXCEPT !.pc = "send", !.todo = subs[r]]))
    /\ UNCHANGED <<github, db, broker, loop, budget, stable>>

\* The Nats-Msg-Id of a release e-mail.
ReleaseDedupID(m) == <<m[2], m[3], m[1]>>

\* The stored e-mails whose id is that of m, the id the publisher passes.
SameID_NoMsgID(m) == {}
SameID(m)         == {n \in Mails : ReleaseDedupID(n) = ReleaseDedupID(m)}

\* The stream takes m, unless it remembers the id.  It surely does while less
\* than Window intervals have begun since it stored it, perhaps thereafter.
Store(m) ==
    /\ age' = [age EXCEPT ![m] = 0]
    /\ copies' = [copies EXCEPT ![m] = IF @ < MaxCopies THEN @ + 1 ELSE @]

Remembered(m) == \E n \in SameID(m) : age[n] \in 0 .. Window - 1
Possibly(m)   == \E n \in SameID(m) : age[n] # NotStored

Publish(m) ==
    \/ ~Remembered(m) /\ Store(m)
    \/ Possibly(m) /\ UNCHANGED broker

\* One SendReleaseNotification.  A failed publish may have been stored all
\* the same: its acknowledgement was lost, or came after the deadline.  It is
\* stored within the step or never; that the client keeps it in its buffer and
\* the server stores it after later steps is left out.
Send(r, u) ==
    /\ worker[r].pc = "send"
    /\ u \in worker[r].todo
    /\ LET w  == [worker[r] EXCEPT !.todo = @ \ {u}]
           m  == <<u, r, w.tag>>
       IN  \/ Publish(m) /\ Become(r, InLoop(w))
           \/ /\ MayFail
              /\ Publish(m) \/ UNCHANGED broker
              /\ Become(r, InLoop([w EXCEPT !.allSent = FALSE]))
    /\ UNCHANGED <<github, db, loop, budget, stable>>

\* SaveWatchedRepoTag, silently or after the sends.  An error that comes back
\* after the commit changes nothing more: it is only logged.
Save(r) ==
    /\ worker[r].pc \in {"silent", "save"}
    /\ watched' = [watched EXCEPT ![r] = worker[r].tag]
    /\ Become(r, Idle)
    /\ UNCHANGED <<github, subs, base, broker, loop, budget, stable>>

-----------------------------------------------------------------------------
Job(r) ==
    \/ Dispatch(r)
    \/ FetchHit(r) \/ FetchMiss(r) \/ FetchFails(r)
    \/ Load(r) \/ List(r) \/ (\E u \in Users : Send(r, u)) \/ Save(r)
    \/ JobFails(r)

Environment ==
    \/ Tick
    \/ \E r \in Repos : PublishRelease(r) \/ ExpireCache(r)
    \/ \E r \in Repos, u \in Users : Confirm(u, r) \/ Unsubscribe(u, r)

Next ==
    \/ StartScan \/ EndScan \/ Cancel \/ Restart
    \/ \E r \in Repos : Job(r)
    \/ Environment

Spec == Init /\ [][Next]_vars

\* For liveness, failures come to an end.  A step of a stable environment is
\* also a step of an unstable one, so safety needs Spec alone.
LiveNext == Next \/ Stabilise

\* Go runs every goroutine, calls have deadlines, time passes, cache entries
\* expire, a cancelled process ends, and failures do not go on for ever.
Fairness ==
    /\ WF_vars(Tick) /\ WF_vars(Stabilise)
    /\ WF_vars(StartScan) /\ WF_vars(EndScan)
    /\ WF_vars(cancelled /\ Restart)
    /\ \A r \in Repos : WF_vars(Job(r)) /\ WF_vars(ExpireCache(r))

FairSpec == Init /\ [][LiveNext]_vars /\ Fairness

-----------------------------------------------------------------------------
(* Properties.                                                             *)

Stored(m) == age[m] # NotStored

\* Every variable has a value the program can give it.
TypeOK ==
    /\ latest \in [Repos -> Tags \cup {NoTag}]
    /\ cached \in [Repos -> Tags \cup {NoTag, NotCached}]
    /\ outlived \in BOOLEAN
    /\ subs \in [Repos -> SUBSET Users]
    /\ base \in [Users -> [Repos -> Tags \cup {NoTag}]]
    /\ watched \in [Repos -> Tags \cup {NoTag, NoRow}]
    /\ age \in [Mails -> 0 .. Window \cup {NotStored}]
    /\ copies \in [Mails -> 0 .. MaxCopies]
    /\ scan \in {"boot", "idle", "busy"}
    /\ tick \in BOOLEAN
    /\ cancelled \in BOOLEAN
    /\ limited \in BOOLEAN
    /\ lateCalls \in Nat
    /\ worker \in [Repos -> Workers]
    /\ stable \in BOOLEAN

\* WorkerPool.Run keeps at most `size` jobs in flight, and none outlives the
\* run that dispatched it: the next scan never overlaps it.
PoolBounded ==
    /\ Cardinality(InFlight) <= PoolSize
    /\ scan \in {"boot", "idle"} => InFlight = {}

\* Once a job has met the rate limit, only jobs that had read the flag before
\* still call GitHub: fewer than the pool has slots.
RateLimitStopsCalls == limited => lateCalls < PoolSize

\* The cursor of a repository it already knew moves to a release only when
\* everybody who is confirmed, and was before the release came out, has that
\* release's e-mail in the stream: whatever failed, crashed or was retried,
\* and whoever subscribed or left meanwhile.
CursorOnlyAfterMail ==
    [][\A r \in Repos :
         watched[r] # NoRow /\ watched'[r] # watched[r]
           => \A u \in subs[r] :
                base[u][r] < watched'[r] => Stored(<<u, r, watched'[r]>>)]_vars

\* No repository goes back to an older release, which would then be announced
\* to everybody once more, as long as no fetch failed both to read a cached
\* answer and to replace it: a cache that lags behind GitHub, a crash between
\* sends and save, and jobs cut off anywhere do not suffice.  It rests on a
\* latest release that only grows (PublishRelease).
CursorMovesForward ==
    [][\A r \in Repos : watched'[r] >= watched[r] \/ outlived]_vars

\* The retries of an e-mail that the next scans make while the dedup window
\* lasts add no copy of it to the stream: its age goes on, its copies do not.
NoCopyInsideWindow ==
    [][\A m \in Mails : age[m] \in 0 .. Window - 1
         => age'[m] \in {age[m], age[m] + 1} /\ copies'[m] = copies[m]]_vars

\* The cursor a job read at its start is still behind when it mails, list and
\* earlier sends later: only a release beyond a known cursor is announced, also
\* to somebody who subscribed long after the repository was last scanned.
NoMailBehindCursor ==
    [][\A m \in Mails : age[m] # 0 /\ age'[m] = 0
         => watched[m[2]] # NoRow /\ (watched[m[2]] < m[3] \/ outlived)]_vars

\* A release of a repository whose cursor is known reaches every subscriber
\* who stays, unless a newer one replaces it first.
ReleaseReachesSubscriber ==
    \A r \in Repos, u \in Users, t \in Tags :
        (latest[r] = t /\ u \in subs[r] /\ base[u][r] < t /\ watched[r] \in 0 .. t - 1)
          ~> (Stored(<<u, r, t>>) \/ latest[r] # t \/ u \notin subs[r])

-----------------------------------------------------------------------------
(* What the repository says of the scanner and the code does not keep.     *)

\* scanner.go:156-157: the first sighting is silent because "the release
\* predates every subscription".
FirstSightingMissesNobody ==
    [][\A r \in Repos :
         watched[r] = NoRow /\ watched'[r] # NoRow
           => \A u \in subs[r] : watched'[r] <= base[u][r]]_vars

\* scanner.go:167-169: the dedup id makes redelivery idempotent, "exactly one
\* email per subscriber".
ExactlyOneEmail == \A m \in Mails : copies[m] <= 1
=============================================================================
