--------------------------- MODULE ScannerProofs ---------------------------
(***************************************************************************)
(* Theorems about Scanner for every set of repositories and users, every   *)
(* pool size, every dedup window and with or without Redis faults.         *)
(***************************************************************************)
EXTENDS Scanner, FiniteSetTheorems, TLAPS

USE ReposAssumption, MaxTagAssumption, ConcurrencyAssumption,
    WindowAssumption, MaxCopiesAssumption, RedisFaultsAssumption

-----------------------------------------------------------------------------
(* The inductive invariant, in named parts.                                *)

\* The jobs about to call GitHub.
Calling == {r \in Repos : worker[r].pc = "fetch"}

\* No job without a run, and no more jobs than slots.
PoolInv ==
    /\ scan \in {"boot", "idle"} => \A r \in Repos : worker[r] = Idle
    /\ Cardinality(InFlight) <= PoolSize

\* After the limit, the calls made and those still to come leave one slot out:
\* that of the job that met it.
LimitInv ==
    /\ ~limited => lateCalls = 0
    /\ limited => lateCalls + Cardinality(Calling) < PoolSize

\* What a job holds of its release, against GitHub, the cursor and the stream.
JobInv(r) ==
    LET w == worker[r]
    IN  /\ w.pc \in Running \ {"fetch"} => w.tag <= latest[r]
        /\ w.pc = "silent" => watched[r] \in {NoRow, w.tag}
        /\ w.pc = "save" => w.todo = {} /\ w.allSent
        /\ w.pc \in {"send", "save"} /\ w.allSent
             => \A u \in subs[r] :
                  base[u][r] < w.tag => u \in w.todo \/ Stored(<<u, r, w.tag>>)

MailInv == \A r \in Repos : cached[r] <= latest[r] /\ JobInv(r)

-----------------------------------------------------------------------------
(* Type correctness.                                                       *)

\* A free slot and a queued job are worker records.
LEMMA IdleType == Idle \in Workers /\ Queued \in Workers
  BY DEF Idle, Queued, Workers, Records, PCs, Running

\* A job that moves to a worker record leaves the pool well typed.
LEMMA BecomeType ==
  ASSUME TypeOK, NEW r \in Repos, NEW w \in Workers, Become(r, w)
  PROVE  worker' \in [Repos -> Workers]
  BY DEF TypeOK, Become

\* Leaving the send loop gives a worker record.
LEMMA InLoopType ==
  ASSUME NEW w \in Workers, w.pc = "send" PROVE InLoop(w) \in Workers
  BY IdleType DEF InLoop, AfterSends, Workers, Records, PCs, Running

\* The two values Send may leave in the loop.
LEMMA SendType ==
  ASSUME TypeOK, NEW r \in Repos, NEW u \in Users, worker[r].pc = "send"
  PROVE  LET w == [worker[r] EXCEPT !.todo = @ \ {u}]
             x == [w EXCEPT !.allSent = FALSE]
         IN  /\ w \in Workers /\ w.pc = "send" /\ w.tag \in Tags
             /\ x \in Workers /\ x.pc = "send" /\ x.tag \in Tags
             /\ <<u, r, w.tag>> \in Mails
  BY DEF TypeOK, Workers, Records, Running, Mails

\* A publish keeps the types of the stream.
LEMMA PublishType ==
  ASSUME TypeOK, NEW m \in Mails, Publish(m) \/ UNCHANGED broker
  PROVE  age' \in [Mails -> 0 .. Window \cup {NotStored}] /\ copies' \in [Mails -> 0 .. MaxCopies]
  BY DEF TypeOK, Publish, Store, broker

\* The process starts well typed.
LEMMA TypeInit == Init => TypeOK
<1>1. 0 \in 0 .. MaxCopies /\ 0 \in Nat
  OBVIOUS
<1>2. Init => base \in [Users -> [Repos -> Tags \cup {NoTag}]]
  BY DEF Init
<1>3. Init => age \in [Mails -> 0 .. Window \cup {NotStored}] /\ copies \in [Mails -> 0 .. MaxCopies]
  BY <1>1 DEF Init
<1>4. Init => /\ latest \in [Repos -> Tags \cup {NoTag}]
              /\ cached \in [Repos -> Tags \cup {NoTag, NotCached}]
              /\ subs \in [Repos -> SUBSET Users]
              /\ watched \in [Repos -> Tags \cup {NoTag, NoRow}]
              /\ worker \in [Repos -> Workers]
  BY IdleType DEF Init
<1> QED BY <1>1, <1>2, <1>3, <1>4 DEF Init, TypeOK

\* Every step of the program and of its environment preserves the types.
LEMMA TypeStep == TypeOK /\ [LiveNext]_vars => TypeOK'
<1> SUFFICES ASSUME TypeOK, [LiveNext]_vars PROVE TypeOK'
  OBVIOUS
<1> USE DEF github, db, broker, loop, budget, vars
<1>1. CASE StartScan
  BY <1>1, IdleType DEF TypeOK, StartScan, FlagAtStart
<1>2. CASE EndScan
  BY <1>2 DEF TypeOK, EndScan
<1>3. CASE Cancel
  BY <1>3, IdleType DEF TypeOK, Cancel
<1>4. CASE Restart
  BY <1>4, IdleType DEF TypeOK, Restart
<1>5. ASSUME NEW r \in Repos, Job(r) PROVE TypeOK'
  <2>1. CASE Dispatch(r)
    <3>1. worker' \in [Repos -> Workers]
      BY <2>1, IdleType, BecomeType DEF Dispatch, Idle, Workers, Records, PCs, Running
    <3> QED BY <3>1, <2>1 DEF TypeOK, Dispatch
  <2>2. ASSUME NEW tag \in Tags \cup {NoTag}, Answer(r, tag)
        PROVE  worker' \in [Repos -> Workers]
    BY <2>2, IdleType, BecomeType DEF Answer, Idle, Workers, Records, PCs, Running
  <2>3. CASE FetchHit(r)
    <3>1. cached[r] \in Tags \cup {NoTag}
      BY <2>3 DEF TypeOK, FetchHit
    <3> QED BY <3>1, <2>2, <2>3 DEF TypeOK, FetchHit
  <2>4. CASE FetchMiss(r)
    <3>1. latest[r] \in Tags \cup {NoTag}
      BY DEF TypeOK
    <3>2. worker' \in [Repos -> Workers]
      BY <3>1, <2>2, <2>4 DEF FetchMiss
    <3>3. cached' \in [Repos -> Tags \cup {NoTag, NotCached}]
      BY <3>1, <2>4 DEF TypeOK, FetchMiss, Cache
    <3>4. outlived' \in BOOLEAN
      BY <2>4 DEF TypeOK, FetchMiss
    <3>5. lateCalls' \in Nat
      BY <2>4 DEF TypeOK, FetchMiss, AskGitHub
    <3> QED BY <3>2, <3>3, <3>4, <3>5, <2>4 DEF TypeOK, FetchMiss
  <2>5. CASE FetchFails(r)
    <3>1. worker' \in [Repos -> Workers]
      BY <2>5, IdleType, BecomeType DEF FetchFails
    <3>2. limited' \in BOOLEAN
      BY <2>5, Zenon DEF TypeOK, FetchFails
    <3>3. lateCalls' \in Nat
      BY <2>5 DEF TypeOK, FetchFails, AskGitHub
    <3> QED BY <3>1, <3>2, <3>3, <2>5 DEF TypeOK, FetchFails
  <2>6. CASE Load(r)
    <3>1. [worker[r] EXCEPT !.pc = "list"] \in Workers /\ [worker[r] EXCEPT !.pc = "silent"] \in Workers
      BY <2>6 DEF Load, TypeOK, Workers, Records, PCs, Running
    <3>2. worker' \in [Repos -> Workers]
      BY <3>1, <2>6, BecomeType DEF Load
    <3> QED BY <3>2, <2>6 DEF TypeOK, Load
  <2>7. CASE List(r)
    <3> DEFINE w == [worker[r] EXCEPT !.pc = "send", !.todo = subs[r]]
    <3>1. w \in Workers /\ w.pc = "send"
      BY <2>7 DEF List, TypeOK, Workers, Records, PCs, Running
    <3>2. worker' \in [Repos -> Workers]
      BY <3>1, <2>7, InLoopType, BecomeType DEF List
    <3> QED BY <3>2, <2>7 DEF TypeOK, List
  <2>8. ASSUME NEW u \in Users, Send(r, u) PROVE TypeOK'
    <3> DEFINE w == [worker[r] EXCEPT !.todo = @ \ {u}]
               x == [w EXCEPT !.allSent = FALSE]
               m == <<u, r, w.tag>>
    <3>1. w \in Workers /\ w.pc = "send" /\ x \in Workers /\ x.pc = "send"
      BY <2>8, SendType DEF Send
    <3>2. m \in Mails
      BY <2>8, SendType DEF Send
    <3>3. worker' \in [Repos -> Workers]
      BY <3>1, <2>8, InLoopType, BecomeType DEF Send
    <3>4. Publish(m) \/ UNCHANGED broker
      BY <2>8 DEF Send
    <3> QED BY <3>2, <3>3, <3>4, <2>8, PublishType DEF TypeOK, Send
  <2>9. CASE Save(r)
    <3>1. worker[r].tag \in Tags
      BY <2>9 DEF Save, TypeOK, Workers, Running
    <3>2. worker' \in [Repos -> Workers]
      BY <2>9, IdleType, BecomeType DEF Save
    <3> QED BY <3>1, <3>2, <2>9 DEF TypeOK, Save
  <2>10. CASE JobFails(r)
    <3>1. worker' \in [Repos -> Workers]
      BY <2>10, IdleType, BecomeType DEF JobFails
    <3> QED BY <3>1, <2>10 DEF TypeOK, JobFails
  <2> QED BY <1>5, <2>1, <2>3, <2>4, <2>5, <2>6, <2>7, <2>8, <2>9, <2>10 DEF Job
<1>6. CASE Tick
  BY <1>6 DEF TypeOK, Tick
<1>7. CASE Stabilise
  BY <1>7 DEF TypeOK, Stabilise
<1>8. ASSUME NEW r \in Repos, PublishRelease(r) PROVE TypeOK'
  BY <1>8 DEF TypeOK, PublishRelease, Tags, NoTag
<1>9. ASSUME NEW r \in Repos, ExpireCache(r) PROVE TypeOK'
  BY <1>9 DEF TypeOK, ExpireCache
<1>10. ASSUME NEW r \in Repos, NEW u \in Users, Confirm(u, r) PROVE TypeOK'
  BY <1>10 DEF TypeOK, Confirm
<1>11. ASSUME NEW r \in Repos, NEW u \in Users, Unsubscribe(u, r) PROVE TypeOK'
  BY <1>11 DEF TypeOK, Unsubscribe
<1>12. CASE UNCHANGED vars
  BY <1>12 DEF TypeOK
<1> QED BY <1>1, <1>2, <1>3, <1>4, <1>5, <1>6, <1>7, <1>8, <1>9, <1>10, <1>11,
           <1>12 DEF LiveNext, Next, Environment

-----------------------------------------------------------------------------
(* The worker pool and the rate limit.                                     *)

\* NewWorkerPool never makes a pool without a slot.
LEMMA PoolSizePositive == PoolSize \in Nat /\ PoolSize >= 1
  BY DEF PoolSize

\* InFlight and Calling are finite, and what a smaller set counts.
LEMMA FiniteSlots ==
  /\ IsFiniteSet(InFlight) /\ Cardinality(InFlight) \in Nat
  /\ IsFiniteSet(Calling) /\ Cardinality(Calling) \in Nat
  BY FS_Subset, FS_CardinalityType DEF InFlight, Calling

\* A step of job r leaves the other jobs and the loop alone; only Dispatch
\* takes a slot, and only Dispatch leads to a call of GitHub.
LEMMA JobStep ==
  ASSUME TypeOK, NEW r \in Repos, Job(r)
  PROVE  /\ scan' = scan
         /\ worker[r].pc \in Running \cup {"queued"}
         /\ \A q \in Repos \ {r} : worker'[q] = worker[q]
         /\ ~Dispatch(r) => worker[r].pc \in Running /\ worker'[r].pc # "fetch"
<1> USE DEF TypeOK, loop, Become, Running
<1>1. Idle.pc = "none" /\ Queued.pc = "queued"
  BY DEF Idle, Queued
<1>2. CASE Dispatch(r)
  BY <1>1, <1>2 DEF Dispatch
<1>3. ASSUME NEW tag, Answer(r, tag) PROVE worker'[r].pc \in {"none", "load"}
  BY <1>1, <1>3 DEF Answer, Idle
<1>4. CASE FetchHit(r)
  BY <1>3, <1>4 DEF FetchHit, Answer
<1>5. CASE FetchMiss(r)
  BY <1>3, <1>5 DEF FetchMiss, AskGitHub, Answer
<1>6. CASE FetchFails(r)
  BY <1>1, <1>6 DEF FetchFails, AskGitHub
<1>7. CASE Load(r)
  BY <1>7 DEF Load, Workers, Records
<1>8. ASSUME NEW w \in Records, w.pc = "send"
      PROVE  InLoop(w).pc \in {"send", "save", "none"}
  BY <1>1, <1>8 DEF InLoop, AfterSends, Records
<1>9. CASE List(r)
  <2> DEFINE w == [worker[r] EXCEPT !.pc = "send", !.todo = subs[r]]
  <2>1. w \in Records /\ w.pc = "send"
    BY DEF Workers, Records, PCs
  <2> QED BY <2>1, <1>8, <1>9 DEF List
<1>10. ASSUME NEW u \in Users, Send(r, u)
       PROVE  /\ scan' = scan /\ worker[r].pc = "send"
              /\ \A q \in Repos \ {r} : worker'[q] = worker[q]
              /\ worker'[r].pc # "fetch"
  <2> DEFINE w == [worker[r] EXCEPT !.todo = @ \ {u}]
             x == [w EXCEPT !.allSent = FALSE]
  <2>1. w \in Records /\ w.pc = "send" /\ x \in Records /\ x.pc = "send"
    BY <1>10, SendType DEF Send, Workers
  <2>2. Become(r, InLoop(w)) \/ Become(r, InLoop(x))
    BY <1>10 DEF Send
  <2> QED BY <2>1, <2>2, <1>8, <1>10 DEF Send
<1>11. CASE Save(r)
  BY <1>1, <1>11 DEF Save
<1>12. CASE JobFails(r)
  BY <1>1, <1>12 DEF JobFails
<1> QED BY <1>2, <1>4, <1>5, <1>6, <1>7, <1>9, <1>10, <1>11, <1>12 DEF Job

\* No step dispatches beyond the semaphore or outside a run.
LEMMA PoolStep == TypeOK /\ PoolInv /\ [LiveNext]_vars => PoolInv'
<1> SUFFICES ASSUME TypeOK, PoolInv, [LiveNext]_vars PROVE PoolInv'
  OBVIOUS
<1> USE DEF loop, vars
<1>1. ASSUME InFlight' \subseteq InFlight PROVE Cardinality(InFlight') <= PoolSize
  BY <1>1, FiniteSlots, FS_Subset, FS_CardinalityType, PoolSizePositive DEF PoolInv
<1>2. Idle.pc = "none" /\ Queued.pc = "queued"
  BY DEF Idle, Queued
<1>3. CASE StartScan
  <2>1. InFlight' \subseteq InFlight
    BY <1>2, <1>3 DEF StartScan, InFlight, Running, TypeOK
  <2> QED BY <2>1, <1>1, <1>3 DEF StartScan, PoolInv
<1>4. CASE EndScan
  BY <1>1, <1>4 DEF EndScan, PoolInv, InFlight
<1>5. CASE Cancel
  <2>1. InFlight' \subseteq InFlight
    BY <1>2, <1>5 DEF Cancel, InFlight, Running
  <2> QED BY <2>1, <1>1, <1>5 DEF Cancel, PoolInv
<1>6. CASE Restart
  <2>1. InFlight' \subseteq InFlight
    BY <1>2, <1>6 DEF Restart, InFlight, Running
  <2> QED BY <2>1, <1>1, <1>6 DEF Restart, PoolInv
<1>7. ASSUME NEW r \in Repos, Job(r) PROVE PoolInv'
  <2>1. scan' = scan /\ scan = "busy"
    BY <1>2, <1>7, JobStep DEF PoolInv, TypeOK, Running
  <2>2. CASE Dispatch(r)
    <3>1. Cardinality(InFlight) + 1 <= PoolSize
      BY <2>2, FiniteSlots, PoolSizePositive DEF Dispatch, SlotFree
    <3>2. InFlight' \subseteq InFlight \cup {r}
      BY <1>7, JobStep DEF InFlight
    <3> DEFINE more == InFlight \cup {r}
    <3>3. /\ IsFiniteSet(more) /\ Cardinality(more) \in Nat
          /\ Cardinality(more) <= Cardinality(InFlight) + 1
      <4>1. IsFiniteSet(InFlight) /\ Cardinality(InFlight) \in Nat
        BY FiniteSlots
      <4>2. /\ IsFiniteSet(more)
            /\ Cardinality(more) = IF r \in InFlight THEN Cardinality(InFlight)
                                                    ELSE Cardinality(InFlight) + 1
        BY <4>1, FS_AddElement
      <4> HIDE DEF more
      <4> QED BY <4>1, <4>2
    <3>4. Cardinality(InFlight') <= Cardinality(more) /\ Cardinality(InFlight') \in Nat
      BY <3>2, <3>3, FS_Subset, FS_CardinalityType
    <3> HIDE DEF more
    <3>5. Cardinality(InFlight') <= PoolSize
      BY <3>1, <3>3, <3>4, FiniteSlots, PoolSizePositive
    <3> QED BY <2>1, <3>5 DEF PoolInv
  <2>3. CASE ~Dispatch(r)
    <3>1. InFlight' \subseteq InFlight
      BY <1>7, <2>3, JobStep DEF InFlight
    <3> QED BY <2>1, <3>1, <1>1 DEF PoolInv
  <2> QED BY <2>2, <2>3
<1>8. ASSUME Environment \/ Stabilise \/ UNCHANGED vars
      PROVE  worker' = worker /\ scan' = scan
  BY <1>8 DEF Environment, Stabilise, Tick, PublishRelease, ExpireCache, Confirm, Unsubscribe
<1> QED BY <1>1, <1>3, <1>4, <1>5, <1>6, <1>7, <1>8 DEF LiveNext, Next, PoolInv, InFlight

\* No step adds a call after the limit beyond those counted.
LEMMA LimitStep == TypeOK /\ PoolInv /\ LimitInv /\ [LiveNext]_vars => LimitInv'
<1> SUFFICES ASSUME TypeOK, PoolInv, LimitInv, [LiveNext]_vars PROVE LimitInv'
  OBVIOUS
<1> USE PoolSizePositive DEF budget, vars
<1>1. ASSUME Calling' \subseteq Calling, UNCHANGED budget PROVE LimitInv'
  <2>1. Cardinality(Calling') <= Cardinality(Calling) /\ Cardinality(Calling') \in Nat
    BY <1>1, FiniteSlots, FS_Subset, FS_CardinalityType
  <2> QED BY <2>1, <1>1, FiniteSlots DEF LimitInv, TypeOK
<1>2. CASE StartScan \/ Restart
  BY <1>2 DEF StartScan, Restart, LimitInv, FlagAtStart
<1>3. CASE EndScan
  BY <1>1, <1>3 DEF EndScan, Calling
<1>4. CASE Cancel
  <2>1. Calling' \subseteq Calling
    BY <1>4 DEF Cancel, Calling, Idle
  <2> QED BY <2>1, <1>1, <1>4 DEF Cancel
<1>5. ASSUME NEW r \in Repos, Job(r) PROVE LimitInv'
  <2>1. CASE Dispatch(r) /\ limited
    <3>1. Calling' \subseteq Calling
      BY <2>1, <1>5, JobStep DEF Calling, Dispatch, JobSkipped, Become, Idle, TypeOK
    <3> QED BY <3>1, <2>1, <1>1 DEF Dispatch
  <2>2. CASE Dispatch(r) /\ ~limited
    BY <2>2 DEF Dispatch, LimitInv
  <2>3. CASE FetchMiss(r) \/ FetchFails(r)
    <3>1. r \in Calling /\ r \in InFlight
      BY <2>3 DEF FetchMiss, FetchFails, AskGitHub, Calling, InFlight, Running
    <3>2. Calling' \subseteq Calling \ {r} /\ Calling' \subseteq InFlight \ {r}
      BY <2>3, <1>5, JobStep DEF Calling, InFlight, Running, FetchMiss, FetchFails, Dispatch,
         AskGitHub, Queued, Idle
    <3>3. /\ Cardinality(Calling') \in Nat
          /\ Cardinality(Calling') <= Cardinality(Calling) - 1
          /\ Cardinality(Calling') <= Cardinality(InFlight) - 1
      BY <3>1, <3>2, FiniteSlots, FS_RemoveElement, FS_Subset, FS_CardinalityType
    <3>4. limited => limited'
      BY <2>3 DEF FetchMiss, FetchFails, TypeOK
    <3>5. lateCalls' = IF limited THEN lateCalls + 1 ELSE lateCalls
      BY <2>3 DEF FetchMiss, FetchFails, AskGitHub
    <3>6. CASE limited
      BY <3>3, <3>4, <3>5, <3>6, FiniteSlots DEF LimitInv, TypeOK
    <3>7. CASE ~limited
      BY <3>3, <3>5, <3>7, FiniteSlots DEF LimitInv, PoolInv, TypeOK
    <3> QED BY <3>6, <3>7
  <2>4. CASE ~Dispatch(r) /\ ~FetchMiss(r) /\ ~FetchFails(r)
    <3>1. UNCHANGED budget
      BY <2>4, <1>5 DEF Job, FetchHit, Load, List, Send, Save, JobFails
    <3>2. Calling' \subseteq Calling
      BY <2>4, <1>5, JobStep DEF Calling
    <3> QED BY <3>1, <3>2, <1>1
  <2> QED BY <2>1, <2>2, <2>3, <2>4
<1>6. ASSUME Environment \/ Stabilise \/ UNCHANGED vars
      PROVE  worker' = worker /\ UNCHANGED budget
  BY <1>6 DEF Environment, Stabilise, Tick, PublishRelease, ExpireCache, Confirm, Unsubscribe
<1> QED BY <1>1, <1>2, <1>3, <1>4, <1>5, <1>6 DEF LiveNext, Next, Calling

\* At the start the pool is empty.
LEMMA PoolInit == Init => PoolInv /\ LimitInv
<1>1. Init => InFlight = {}
  BY DEF Init, InFlight, Running, Idle
<1> QED BY <1>1, FS_EmptySet, PoolSizePositive DEF Init, PoolInv, LimitInv

\* The invariant says what the run's property says of the pool.
LEMMA PoolMeans == PoolInv => PoolBounded
  BY DEF PoolInv, PoolBounded, InFlight, Running, Idle

\* And of the rate limit.
LEMMA LimitMeans == TypeOK /\ LimitInv => RateLimitStopsCalls
  BY FiniteSlots, PoolSizePositive DEF LimitInv, RateLimitStopsCalls, TypeOK

-----------------------------------------------------------------------------
(* The cursor and the mail.                                                *)

\* Tags are numbers above those that stand for their absence.
LEMMA TagsAreNumbers ==
  Tags \subseteq Nat /\ NoTag \in Nat /\ NotCached \in Int /\ NoRow \in Int /\ NoRow \notin Tags
  BY DEF Tags, NoTag, NotCached, NoRow

\* Two e-mails with one dedup id are the same e-mail.
LEMMA DedupIDIsInjective ==
  ASSUME NEW m \in Mails, NEW n \in Mails, ReleaseDedupID(m) = ReleaseDedupID(n)
  PROVE  m = n
  BY DEF Mails, ReleaseDedupID

\* After a publish that succeeded, by storing or as a duplicate, m is stored,
\* and nothing stored is forgotten.
LEMMA PublishStores ==
  ASSUME TypeOK, NEW m \in Mails, Publish(m) PROVE age'[m] # NotStored
<1>1. CASE Store(m)
  BY <1>1 DEF Store, Stored, TypeOK, NotStored
<1>2. CASE Possibly(m) /\ UNCHANGED broker
  BY <1>2, DedupIDIsInjective DEF Possibly, SameID, Stored, broker
<1> QED BY <1>1, <1>2 DEF Publish

\* What the stream has taken it keeps.
LEMMA StoredStays ==
  ASSUME TypeOK, NEW m \in Mails, NEW n \in Mails, Publish(n) \/ UNCHANGED broker, Stored(m)
  PROVE  Stored(m)'
  BY DEF Publish, Store, Stored, TypeOK, NotStored, broker

\* JobInv of a job that is not past its fetch says nothing.
LEMMA EarlyJob ==
  ASSUME NEW r \in Repos, worker'[r].pc \in {"none", "queued", "fetch"}
  PROVE  JobInv(r)'
  BY DEF JobInv, Running

\* A job that does not move keeps JobInv while releases only grow, its cursor
\* stays, nothing stored is forgotten and subscribers come in up to date.
LEMMA OtherJob ==
  ASSUME TypeOK, NEW r \in Repos, JobInv(r),
         worker'[r] = worker[r], watched'[r] = watched[r],
         latest[r] <= latest'[r], latest'[r] \in Nat,
         \A m \in Mails : Stored(m) => Stored(m)',
         \A u \in subs'[r] : \/ u \in subs[r] /\ base'[u][r] = base[u][r]
                             \/ u \in Users /\ base'[u][r] = latest[r]
  PROVE  JobInv(r)'
<1> DEFINE w == worker[r]
<1>1. w \in Records /\ latest[r] \in Nat /\ (w.pc \in Running \ {"fetch"} => w.tag \in Tags)
  BY TagsAreNumbers DEF TypeOK, Workers
<1>2. w.pc \in Running \ {"fetch"} => w.tag <= latest'[r]
  <2> SUFFICES ASSUME w.pc \in Running \ {"fetch"} PROVE w.tag <= latest'[r]
    OBVIOUS
  <2>1. w.tag <= latest[r]
    BY DEF JobInv
  <2>2. w.tag \in Int /\ latest[r] \in Int
    BY <1>1 DEF Tags
  <2> HIDE DEF w
  <2> QED BY <2>1, <2>2
<1>3. ASSUME w.pc \in {"send", "save"}, w.allSent, NEW u \in subs'[r], base'[u][r] < w.tag
      PROVE  u \in w.todo \/ Stored(<<u, r, w.tag>>)'
  <2>1. w.tag \in Tags /\ w.tag <= latest[r]
    BY <1>1, <1>3 DEF JobInv, Running
  <2>2. u \in subs[r] /\ base[u][r] < w.tag
    <3>1. CASE base'[u][r] = latest[r]
      <4>1. w.tag \in Int /\ latest[r] \in Int
        BY <1>1, <2>1 DEF Tags
      <4> HIDE DEF w
      <4> QED BY <1>3, <2>1, <3>1, <4>1
    <3> QED BY <1>3, <3>1
  <2>3. <<u, r, w.tag>> \in Mails
    BY <2>1, <2>2 DEF Mails, TypeOK
  <2>4. u \in w.todo \/ Stored(<<u, r, w.tag>>)
    BY <1>3, <2>2 DEF JobInv
  <2> QED BY <2>3, <2>4
<1> QED BY <1>2, <1>3 DEF JobInv

\* Every step keeps what the jobs know of cursor, recipients and stream.
LEMMA MailStep == TypeOK /\ MailInv /\ [LiveNext]_vars => MailInv'
<1> SUFFICES ASSUME TypeOK, MailInv, [LiveNext]_vars PROVE MailInv'
  OBVIOUS
<1> USE TagsAreNumbers DEF github, db, broker, loop, budget, vars
<1>1. TypeOK'
  BY TypeStep
<1>2. \A q \in Repos : latest[q] \in Nat /\ latest'[q] \in Nat /\ cached[q] \in Int
  <2>1. ASSUME NEW q \in Repos
        PROVE  /\ latest[q] \in Tags \cup {NoTag} /\ latest'[q] \in Tags \cup {NoTag}
               /\ cached[q] \in Tags \cup {NoTag, NotCached}
    BY <1>1 DEF TypeOK
  <2> QED BY <2>1 DEF Tags, NoTag, NotCached
<1>3. Idle.pc = "none" /\ Queued.pc = "queued"
  BY DEF Idle, Queued
<1>4. CASE StartScan \/ EndScan \/ Cancel \/ Restart \/ Stabilise \/ UNCHANGED vars
  <2>1. UNCHANGED <<github, db, broker>>
    BY <1>4 DEF StartScan, EndScan, Cancel, Restart, Stabilise
  <2>2. \A q \in Repos : worker'[q] = worker[q] \/ worker'[q].pc \in {"none", "queued"}
    BY <1>3, <1>4 DEF StartScan, EndScan, Cancel, Restart, Stabilise
  <2>3. ASSUME NEW q \in Repos PROVE JobInv(q)'
    <3>1. CASE worker'[q] = worker[q]
      BY <3>1, <2>1, <1>2, OtherJob DEF MailInv, Stored
    <3>2. CASE worker'[q].pc \in {"none", "queued"}
      BY <3>2, EarlyJob
    <3> QED BY <2>2, <3>1, <3>2
  <2> QED BY <2>1, <2>3 DEF MailInv
<1>5. CASE Tick
  <2>1. \A m \in Mails : Stored(m) => Stored(m)'
    BY <1>5 DEF Tick, Stored, TypeOK, NotStored
  <2>2. ASSUME NEW q \in Repos PROVE JobInv(q)'
    BY <1>2, <1>5, <2>1, OtherJob DEF Tick, MailInv
  <2> QED BY <1>5, <2>2 DEF Tick, MailInv
<1>6. ASSUME NEW r \in Repos, PublishRelease(r) \/ ExpireCache(r) PROVE MailInv'
  <2>1. \A q \in Repos : latest[q] <= latest'[q]
    BY <1>2, <1>6 DEF PublishRelease, ExpireCache, TypeOK
  <2>2. \A q \in Repos : cached'[q] <= latest'[q]
    BY <1>2, <1>6, <2>1 DEF PublishRelease, ExpireCache, MailInv, TypeOK, NotCached
  <2>3. UNCHANGED <<db, broker, worker>>
    BY <1>6 DEF PublishRelease, ExpireCache
  <2>4. ASSUME NEW q \in Repos PROVE JobInv(q)'
    BY <1>2, <2>1, <2>3, OtherJob DEF MailInv, Stored
  <2> QED BY <2>2, <2>4 DEF MailInv
<1>7. ASSUME NEW r \in Repos, NEW u \in Users, Confirm(u, r) \/ Unsubscribe(u, r)
      PROVE  MailInv'
  <2>1. UNCHANGED <<github, watched, broker, worker>>
    BY <1>7 DEF Confirm, Unsubscribe
  <2>2. ASSUME NEW q \in Repos, NEW v \in subs'[q]
        PROVE  \/ v \in subs[q] /\ base'[v][q] = base[v][q]
               \/ v \in Users /\ base'[v][q] = latest[q]
    BY <1>7, <2>2 DEF Confirm, Unsubscribe, TypeOK
  <2>3. ASSUME NEW q \in Repos PROVE JobInv(q)'
    BY <1>2, <2>1, <2>2, OtherJob DEF MailInv, Stored
  <2> QED BY <2>1, <2>3 DEF MailInv
<1>8. ASSUME NEW r \in Repos, Job(r) PROVE MailInv'
  <2>1. /\ latest' = latest /\ UNCHANGED <<subs, base>>
        /\ \A q \in Repos \ {r} : worker'[q] = worker[q] /\ watched'[q] = watched[q]
    <3>1. latest' = latest /\ UNCHANGED <<subs, base>>
      BY <1>8 DEF Job, Dispatch, FetchHit, FetchMiss, FetchFails, Load, List, Send, Save, JobFails
    <3>2. UNCHANGED watched \/ Save(r)
      BY <1>8 DEF Job, Dispatch, FetchHit, FetchMiss, FetchFails, Load, List, Send, JobFails
    <3>3. \A q \in Repos \ {r} : watched'[q] = watched[q]
      BY <3>2 DEF Save, TypeOK
    <3> QED BY <1>8, <3>1, <3>3, JobStep
  <2>2. \A m \in Mails : Stored(m) => Stored(m)'
    <3>1. CASE UNCHANGED broker
      BY <3>1 DEF Stored
    <3>2. ASSUME NEW u \in Users, Send(r, u) PROVE \A m \in Mails : Stored(m) => Stored(m)'
      BY <3>2, SendType, StoredStays DEF Send
    <3> QED BY <1>8, <3>1, <3>2 DEF Job, Dispatch, FetchHit, FetchMiss, FetchFails, AskGitHub,
               Load, List, Save, JobFails
  <2>3. \A q \in Repos : cached'[q] <= latest'[q]
    <3>1. CASE FetchMiss(r)
      BY <1>2, <2>1, <3>1 DEF FetchMiss, Cache, MailInv, TypeOK
    <3>2. CASE ~FetchMiss(r)
      BY <1>8, <2>1, <3>2 DEF MailInv, Job, Dispatch, FetchHit, FetchFails, AskGitHub, Load, List,
         Send, Save, JobFails
    <3> QED BY <3>1, <3>2
  <2>4. ASSUME NEW q \in Repos \ {r} PROVE JobInv(q)'
    BY <1>2, <2>1, <2>2, OtherJob DEF MailInv
  <2> DEFINE w == worker[r]
  <2>5. worker \in [Repos -> Workers] /\ w \in Workers /\ JobInv(r)
    BY DEF TypeOK, MailInv
  <2>6. CASE Dispatch(r) \/ FetchFails(r) \/ Save(r) \/ JobFails(r)
    <3>1. worker'[r].pc \in {"none", "queued", "fetch"}
      BY <1>3, <2>5, <2>6 DEF Dispatch, FetchFails, Save, JobFails, Become, Idle
    <3> QED BY <2>3, <2>4, <3>1, EarlyJob DEF MailInv
  <2>7. ASSUME NEW tag \in Tags \cup {NoTag}, Answer(r, tag), tag <= latest[r] PROVE JobInv(r)'
    <3>1. CASE tag = NoTag
      BY <1>3, <2>5, <2>7, <3>1, EarlyJob DEF Answer, Become
    <3>2. CASE tag # NoTag
      <4>1. worker'[r].pc = "load" /\ worker'[r].tag = tag
        BY <2>5, <2>7, <3>2 DEF Answer, Become, Idle
      <4> QED BY <2>1, <2>7, <4>1 DEF JobInv
    <3> QED BY <3>1, <3>2
  <2>8. CASE FetchHit(r)
    <3>1. cached[r] \in Tags \cup {NoTag} /\ cached[r] <= latest[r]
      BY <2>8 DEF FetchHit, TypeOK, MailInv
    <3> QED BY <2>3, <2>4, <2>7, <2>8, <3>1 DEF FetchHit, MailInv
  <2>9. CASE FetchMiss(r)
    <3>1. latest[r] \in Tags \cup {NoTag} /\ latest[r] <= latest[r]
      BY <1>2 DEF TypeOK
    <3> QED BY <2>3, <2>4, <2>7, <2>9, <3>1 DEF FetchMiss, MailInv
  <2>10. CASE Load(r)
    <3>1. /\ worker'[r].tag = w.tag /\ w.tag <= latest[r] /\ watched' = watched
          /\ worker'[r].pc \in {"list", "silent"}
          /\ worker'[r].pc = "silent" => watched[r] \in {NoRow, w.tag}
      BY <2>5, <2>10 DEF Load, Become, Workers, Records, JobInv, IsNewRelease, Running
    <3>2. JobInv(r)'
      BY <2>1, <3>1 DEF JobInv
    <3> QED BY <2>3, <2>4, <3>2 DEF MailInv
  <2>11. ASSUME NEW x \in Workers, x.pc = "send", x.tag <= latest[r], Become(r, InLoop(x)),
                x.allSent => \A u \in subs[r] :
                  base[u][r] < x.tag => u \in x.todo \/ age'[<<u, r, x.tag>>] # NotStored
         PROVE  JobInv(r)'
    <3>1. worker'[r] = InLoop(x)
      BY <2>5, <2>11 DEF Become
    <3>2. CASE x.todo = {} /\ ~x.allSent
      BY <1>3, <3>1, <3>2, EarlyJob DEF InLoop, AfterSends
    <3>3. CASE x.todo # {} \/ x.allSent
      <4>1. /\ worker'[r].tag = x.tag /\ worker'[r].todo = x.todo /\ worker'[r].allSent = x.allSent
            /\ worker'[r].pc \in {"send", "save"}
            /\ worker'[r].pc = "save" => x.todo = {} /\ x.allSent
        BY <2>11, <3>1, <3>3 DEF InLoop, AfterSends, Workers, Records
      <4> QED BY <2>1, <2>11, <4>1 DEF JobInv, Stored
    <3> QED BY <3>2, <3>3
  <2>12. CASE List(r)
    <3> DEFINE x == [w EXCEPT !.pc = "send", !.todo = subs[r]]
    <3>1. x \in Workers /\ x.pc = "send" /\ x.tag = w.tag /\ x.todo = subs[r]
      BY <2>5, <2>12 DEF List, TypeOK, Workers, Records, PCs, Running
    <3>2. x.tag <= latest[r]
      BY <2>5, <2>12, <3>1 DEF List, JobInv, Running
    <3>3. JobInv(r)'
      BY <2>11, <2>12, <3>1, <3>2 DEF List
    <3> QED BY <2>3, <2>4, <3>3 DEF MailInv
  <2>13. ASSUME NEW u \in Users, Send(r, u) PROVE MailInv'
    <3> DEFINE x == [w EXCEPT !.todo = @ \ {u}]
               y == [x EXCEPT !.allSent = FALSE]
               m == <<u, r, x.tag>>
    <3>1. /\ x \in Workers /\ x.pc = "send" /\ y \in Workers /\ y.pc = "send"
          /\ m \in Mails
      BY <2>13, SendType DEF Send
    <3>2. /\ x.tag = w.tag /\ y.tag = w.tag /\ x.allSent = w.allSent /\ ~y.allSent
          /\ x.todo = w.todo \ {u}
      BY <2>5 DEF Workers, Records
    <3>3. w.tag <= latest[r]
      BY <2>5, <2>13 DEF Send, JobInv, Running
    <3>4. \/ Publish(m) /\ Become(r, InLoop(x))
          \/ Become(r, InLoop(y))
      BY <2>13 DEF Send
    <3>5. CASE Publish(m) /\ Become(r, InLoop(x))
      <4>1. ASSUME x.allSent, NEW v \in subs[r], base[v][r] < x.tag
            PROVE  v \in x.todo \/ age'[<<v, r, x.tag>>] # NotStored
        <5>1. v \in w.todo \/ age[<<v, r, w.tag>>] # NotStored
          BY <2>5, <2>13, <3>2, <4>1 DEF JobInv, Send, Stored
        <5>2. CASE v = u
          BY <3>1, <3>5, <5>2, PublishStores
        <5>3. CASE v # u
          <6>1. <<v, r, w.tag>> \in Mails
            BY <3>1, <3>2, <4>1 DEF Mails, TypeOK
          <6>2. age[<<v, r, w.tag>>] # NotStored => age'[<<v, r, w.tag>>] # NotStored
            BY <2>2, <6>1 DEF Stored
          <6> QED BY <3>2, <5>1, <5>3, <6>2
        <5> QED BY <5>2, <5>3
      <4>2. JobInv(r)'
        BY <2>11, <3>1, <3>2, <3>3, <3>5, <4>1
      <4> QED BY <2>3, <2>4, <4>2 DEF MailInv
    <3>6. CASE Become(r, InLoop(y))
      <4>1. JobInv(r)'
        BY <2>11, <3>1, <3>2, <3>3, <3>6
      <4> QED BY <2>3, <2>4, <4>1 DEF MailInv
    <3> QED BY <3>4, <3>5, <3>6
  <2> QED BY <1>8, <2>6, <2>8, <2>9, <2>10, <2>12, <2>13 DEF Job
<1> QED BY <1>4, <1>5, <1>6, <1>7, <1>8 DEF LiveNext, Next, Environment

\* At the start no job knows anything.
LEMMA MailInit == Init => MailInv
<1> SUFFICES ASSUME Init PROVE MailInv
  OBVIOUS
<1>1. \A r \in Repos : cached[r] = NotCached /\ latest[r] = NoTag /\ worker[r].pc = "none"
  BY DEF Init, Idle
<1> QED BY <1>1 DEF MailInv, JobInv, Running, NotCached, NoTag

\* A known cursor moves to a release only when everybody who was confirmed
\* before it has its e-mail in the stream.
LEMMA CursorNeedsMail ==
  ASSUME TypeOK, MailInv, LiveNext, NEW r \in Repos,
         watched[r] # NoRow, watched'[r] # watched[r],
         NEW u \in subs[r], base[u][r] < watched'[r]
  PROVE  Stored(<<u, r, watched'[r]>>)
<1>1. Save(r)
  <2>1. \/ StartScan \/ EndScan \/ Cancel \/ Restart \/ Environment \/ Stabilise
        \/ \E q \in Repos : Job(q)
    BY DEF LiveNext, Next
  <2>2. ASSUME NEW q \in Repos, Job(q) PROVE watched' = watched \/ (q = r /\ Save(r))
    BY <2>2 DEF Job, Dispatch, FetchHit, FetchMiss, FetchFails, AskGitHub, Load, List, Send, Save,
       JobFails, db, TypeOK
  <2> QED BY <2>1, <2>2 DEF StartScan, EndScan, Cancel, Restart, Environment, Stabilise, Tick,
             PublishRelease, ExpireCache, Confirm, Unsubscribe, db
<1>2. watched'[r] = worker[r].tag /\ worker[r].pc \in {"silent", "save"} /\ JobInv(r)
  BY <1>1 DEF Save, TypeOK, MailInv
<1>3. worker[r].pc = "save"
  BY <1>2 DEF JobInv
<1> QED BY <1>2, <1>3 DEF JobInv

-----------------------------------------------------------------------------
(* What a job notifies of, and what that does to the stream.               *)

\* The jobs after a step: where one notifies, it did so before with the same
\* tag, or found a known cursor at another tag; recipients come from the
\* confirmed subscribers.
LEMMA JobEffect ==
  ASSUME TypeOK, NEW r \in Repos, Job(r)
  PROVE  LET w == worker[r]
             x == worker'[r]
         IN  /\ x.pc \in {"list", "send", "save"}
                  => /\ UNCHANGED watched /\ x.tag = w.tag
                     /\ \/ w.pc \in {"list", "send"}
                        \/ watched[r] # NoRow /\ watched[r] # w.tag
             /\ x.pc = "send" => \/ w.pc = "list" /\ x.todo = subs[r]
                                 \/ w.pc = "send" /\ x.todo \subseteq w.todo
<1> USE DEF TypeOK, Become, db
<1> DEFINE w == worker[r]
<1>1. Idle.pc = "none" /\ Queued.pc = "queued" /\ w \in Workers /\ worker \in [Repos -> Workers]
  BY DEF Idle, Queued
<1>2. CASE Dispatch(r) \/ FetchFails(r) \/ JobFails(r) \/ Save(r)
  <2>1. worker'[r].pc \in {"none", "fetch"}
    BY <1>1, <1>2 DEF Dispatch, FetchFails, JobFails, Save, Idle
  <2> QED BY <2>1
<1>3. CASE FetchHit(r) \/ FetchMiss(r)
  <2>1. worker'[r].pc \in {"none", "load"}
    BY <1>1, <1>3 DEF FetchHit, FetchMiss, Answer, Idle
  <2> QED BY <2>1
<1>4. CASE Load(r)
  <2>1. /\ UNCHANGED watched /\ worker'[r].tag = w.tag
        /\ worker'[r].pc = "list" => watched[r] # NoRow /\ watched[r] # w.tag
        /\ worker'[r].pc \in {"list", "silent"}
    BY <1>1, <1>4 DEF Load, IsNewRelease, Workers, Records
  <2> QED BY <2>1
<1>5. ASSUME NEW x \in Workers, x.pc = "send"
      PROVE  InLoop(x).pc = "none" \/ (InLoop(x).tag = x.tag /\ InLoop(x).todo = x.todo)
  BY <1>1, <1>5 DEF InLoop, AfterSends, Workers, Records
<1>6. CASE List(r)
  <2> DEFINE x == [w EXCEPT !.pc = "send", !.todo = subs[r]]
  <2>1. x \in Workers /\ x.pc = "send" /\ x.tag = w.tag /\ x.todo = subs[r]
    BY <1>1, <1>6 DEF List, Workers, Records, PCs, Running
  <2>2. worker'[r] = InLoop(x) /\ w.pc = "list" /\ UNCHANGED watched
    BY <1>1, <1>6 DEF List
  <2> HIDE DEF x
  <2> QED BY <2>1, <2>2, <1>5
<1>7. CASE \E u \in Users : Send(r, u)
  <2>1. PICK u \in Users : Send(r, u)
    BY <1>7
  <2> DEFINE x == [w EXCEPT !.todo = @ \ {u}]
             y == [x EXCEPT !.allSent = FALSE]
  <2>2. x \in Workers /\ x.pc = "send" /\ y \in Workers /\ y.pc = "send"
    BY <2>1, SendType DEF Send
  <2>3. x.tag = w.tag /\ y.tag = w.tag /\ x.todo \subseteq w.todo /\ y.todo \subseteq w.todo
    BY <1>1 DEF Workers, Records
  <2>4. /\ worker'[r] = InLoop(x) \/ worker'[r] = InLoop(y)
        /\ w.pc = "send" /\ UNCHANGED watched
    BY <1>1, <2>1 DEF Send
  <2> HIDE DEF x, y
  <2> QED BY <2>2, <2>3, <2>4, <1>5
<1> QED BY <1>2, <1>3, <1>4, <1>6, <1>7, Job(r) DEF Job

\* A step outside the jobs leaves a job alone or ends it, and leaves the
\* cursor alone.
LEMMA OutsideJobs ==
  ASSUME StartScan \/ EndScan \/ Cancel \/ Restart \/ Environment \/ Stabilise, NEW r \in Repos
  PROVE  /\ UNCHANGED watched
         /\ worker'[r] = worker[r] \/ worker'[r].pc \in {"none", "queued"}
<1>1. UNCHANGED watched
  BY DEF StartScan, EndScan, Cancel, Restart, Environment, Tick, PublishRelease, ExpireCache,
     Confirm, Unsubscribe, Stabilise, db
<1>2. Idle.pc = "none" /\ Queued.pc = "queued"
  BY DEF Idle, Queued
<1>3. CASE StartScan \/ EndScan \/ Cancel \/ Restart
  BY <1>1, <1>2, <1>3 DEF StartScan, EndScan, Cancel, Restart
<1>4. CASE Environment
  BY <1>1, <1>4 DEF Environment, Tick, PublishRelease, ExpireCache, Confirm, Unsubscribe
<1>5. CASE Stabilise
  BY <1>1, <1>5 DEF Stabilise
<1> QED BY <1>3, <1>4, <1>5

\* A step of job r leaves the other jobs and cursors alone, and the people.
LEMMA JobKeeps ==
  ASSUME TypeOK, NEW r \in Repos, Job(r)
  PROVE  /\ UNCHANGED <<latest, subs, base>>
         /\ \A q \in Repos \ {r} : worker'[q] = worker[q] /\ watched'[q] = watched[q]
<1>1. UNCHANGED <<latest, subs, base>>
  BY DEF Job, Dispatch, FetchHit, FetchMiss, FetchFails, Load, List, Send, Save, JobFails, github, db
<1>2. UNCHANGED watched \/ Save(r)
  BY DEF Job, Dispatch, FetchHit, FetchMiss, FetchFails, Load, List, Send, JobFails, db
<1> QED BY <1>1, <1>2, JobStep DEF Save, TypeOK

\* A job that notifies moves a known cursor, and old answers survive only in a
\* cache that can fail.
NotifyInv ==
    /\ \A r \in Repos : worker[r].pc \in {"list", "send", "save"}
                          => watched[r] # NoRow /\ watched[r] # worker[r].tag
    /\ outlived => RedisFaults

\* A job that notifies keeps its known cursor and its other tag.
LEMMA NotifyStep == TypeOK /\ NotifyInv /\ [LiveNext]_vars => NotifyInv'
<1> SUFFICES ASSUME TypeOK, NotifyInv, LiveNext PROVE NotifyInv'
  BY DEF vars, github, db, NotifyInv
<1>1. outlived' => RedisFaults
  BY DEF NotifyInv, LiveNext, Next, StartScan, EndScan, Cancel, Restart, Job, Dispatch, FetchHit,
     FetchMiss, FetchFails, Load, List, Send, Save, JobFails, Environment, Tick, PublishRelease,
     ExpireCache, Confirm, Unsubscribe, Stabilise, github
<1>2. ASSUME NEW q \in Repos, worker'[q].pc \in {"list", "send", "save"}
      PROVE  watched'[q] # NoRow /\ watched'[q] # worker'[q].tag
  <2>1. CASE StartScan \/ EndScan \/ Cancel \/ Restart \/ Environment \/ Stabilise
    BY <1>2, <2>1, OutsideJobs DEF NotifyInv
  <2>2. ASSUME NEW r \in Repos, Job(r)
        PROVE  watched'[q] # NoRow /\ watched'[q] # worker'[q].tag
    <3>1. CASE q # r
      BY <1>2, <2>2, <3>1, JobKeeps DEF NotifyInv
    <3>2. CASE q = r
      BY <1>2, <2>2, <3>2, JobEffect DEF NotifyInv
    <3> QED BY <3>1, <3>2
  <2> QED BY <2>1, <2>2 DEF LiveNext, Next
<1> QED BY <1>1, <1>2 DEF NotifyInv

\* At the start nobody notifies, and no answer has outlived another.
LEMMA NotifyInit == Init => NotifyInv
<1> SUFFICES ASSUME Init PROVE NotifyInv
  OBVIOUS
<1>1. \A r \in Repos : worker[r].pc = "none"
  BY DEF Init, Idle
<1>2. ~outlived
  BY DEF Init
<1> QED BY <1>1, <1>2 DEF NotifyInv

\* What a step of the scanner does to the stream: nothing, or time passes, or
\* job r publishes to u.
LEMMA BrokerEffect ==
  ASSUME TypeOK, LiveNext
  PROVE  \/ UNCHANGED broker
         \/ Tick
         \/ \E r \in Repos, u \in Users :
              /\ Send(r, u) /\ <<u, r, worker[r].tag>> \in Mails
              /\ ~Remembered(<<u, r, worker[r].tag>>) /\ Store(<<u, r, worker[r].tag>>)
<1>1. ASSUME NEW r \in Repos, NEW u \in Users, Send(r, u)
      PROVE  /\ \/ UNCHANGED broker
                \/ ~Remembered(<<u, r, worker[r].tag>>) /\ Store(<<u, r, worker[r].tag>>)
             /\ <<u, r, worker[r].tag>> \in Mails
  <2> DEFINE x == [worker[r] EXCEPT !.todo = @ \ {u}]
  <2>1. worker[r] \in Records
    BY DEF TypeOK, Workers
  <2>2. x.tag = worker[r].tag /\ <<u, r, x.tag>> \in Mails
    BY <2>1, <1>1, SendType DEF Send, Records
  <2>3. Publish(<<u, r, x.tag>>) \/ UNCHANGED broker
    BY <1>1 DEF Send
  <2> HIDE DEF x
  <2> QED BY <2>2, <2>3 DEF Publish
<1>2. ASSUME NEW r \in Repos, Job(r)
      PROVE  UNCHANGED broker \/ \E u \in Users : Send(r, u)
  BY <1>2 DEF Job, Dispatch, FetchHit, FetchMiss, FetchFails, Load, List, Save, JobFails
<1>3. CASE StartScan \/ EndScan \/ Cancel \/ Restart \/ Environment \/ Stabilise
  BY <1>3 DEF StartScan, EndScan, Cancel, Restart, Environment, PublishRelease, ExpireCache,
     Confirm, Unsubscribe, Stabilise
<1> QED BY <1>1, <1>2, <1>3 DEF LiveNext, Next

-----------------------------------------------------------------------------
(* The order of the releases.                                              *)

\* The cursor never runs ahead of GitHub, and, as long as no old answer
\* survived in the cache, never ahead of the cache or of the job at work.
OrderInv(r) ==
    /\ watched[r] <= latest[r]
    /\ ~outlived =>
         /\ cached[r] # NotCached => watched[r] <= cached[r]
         /\ worker[r].pc \in Running \ {"fetch"}
              => /\ watched[r] <= worker[r].tag
                 /\ cached[r] # NotCached => worker[r].tag <= cached[r]

\* The numbers OrderInv compares are numbers.
LEMMA OrderNumbers ==
  ASSUME TypeOK, NEW r \in Repos
  PROVE  /\ latest[r] \in Nat /\ cached[r] \in Int /\ watched[r] \in Int /\ worker[r].tag \in Nat
         /\ worker[r] \in Workers
<1>1. /\ latest[r] \in Tags \cup {NoTag} /\ cached[r] \in Tags \cup {NoTag, NotCached}
      /\ watched[r] \in Tags \cup {NoTag, NoRow} /\ worker[r] \in Workers
  BY DEF TypeOK
<1>2. worker[r].tag \in Tags \cup {NoTag}
  BY <1>1 DEF Workers, Records
<1> QED BY <1>1, <1>2, TagsAreNumbers DEF Tags, NoTag, NoRow, NotCached

\* A step that leaves the cursor alone, publishes at most, empties a cache
\* entry at most and stops a job at most keeps the order.
LEMMA QuietOrder ==
  ASSUME TypeOK, TypeOK', NEW r \in Repos, OrderInv(r),
         watched'[r] = watched[r], latest[r] <= latest'[r], outlived' = outlived,
         cached'[r] \in {cached[r], NotCached},
         \/ worker'[r].pc \notin Running \ {"fetch"}
         \/ worker[r].pc \in Running \ {"fetch"} /\ worker'[r].tag = worker[r].tag
  PROVE  OrderInv(r)'
<1>1. latest'[r] \in Tags \cup {NoTag}
  BY DEF TypeOK
<1>2. latest'[r] \in Nat /\ latest[r] \in Nat /\ watched[r] \in Int
  BY <1>1, OrderNumbers, TagsAreNumbers DEF NoTag
<1>3. watched'[r] <= latest'[r]
  BY <1>2 DEF OrderInv
<1> QED BY <1>3 DEF OrderInv

\* Every step keeps the order of cursor, job, cache and GitHub.
LEMMA OrderStep ==
  ASSUME TypeOK, MailInv, \A r \in Repos : OrderInv(r), [LiveNext]_vars
  PROVE  \A r \in Repos : OrderInv(r)'
<1> USE DEF github, db, broker, loop, budget, vars
<1>1. TypeOK'
  BY TypeStep
<1>2. Idle.pc = "none" /\ Queued.pc = "queued"
  BY DEF Idle, Queued
<1>3. ASSUME StartScan \/ EndScan \/ Cancel \/ Restart \/ Stabilise \/ Tick \/ UNCHANGED vars,
             NEW q \in Repos
      PROVE  OrderInv(q)'
  <2>1. UNCHANGED <<github, db>>
    BY <1>3 DEF StartScan, EndScan, Cancel, Restart, Stabilise, Tick
  <2>2. worker'[q] = worker[q] \/ worker'[q].pc \in {"none", "queued"}
    BY <1>2, <1>3 DEF StartScan, EndScan, Cancel, Restart, Stabilise, Tick
  <2>3. latest[q] <= latest'[q]
    BY <2>1, OrderNumbers
  <2> QED BY <1>1, <2>1, <2>2, <2>3, QuietOrder DEF Running
<1>4. ASSUME NEW r \in Repos, PublishRelease(r) \/ ExpireCache(r), NEW q \in Repos
      PROVE  OrderInv(q)'
  <2>1. latest[q] <= latest'[q]
    BY <1>4, OrderNumbers DEF PublishRelease, ExpireCache, TypeOK
  <2>2. cached'[q] \in {cached[q], NotCached} /\ UNCHANGED <<watched, worker, outlived>>
    BY <1>4 DEF PublishRelease, ExpireCache, TypeOK
  <2> QED BY <1>1, <2>1, <2>2, QuietOrder
<1>5. ASSUME NEW r \in Repos, NEW u \in Users, Confirm(u, r) \/ Unsubscribe(u, r), NEW q \in Repos
      PROVE  OrderInv(q)'
  <2>1. UNCHANGED <<github, watched, worker>> /\ latest[q] <= latest'[q]
    BY <1>5, OrderNumbers DEF Confirm, Unsubscribe
  <2> QED BY <1>1, <2>1, QuietOrder
<1>6. ASSUME NEW r \in Repos, Job(r), NEW q \in Repos PROVE OrderInv(q)'
  <2>1. latest' = latest /\ latest[q] <= latest'[q]
    <3>1. latest' = latest
      BY <1>6 DEF Job, Dispatch, FetchHit, FetchMiss, FetchFails, Load, List, Send, Save, JobFails
    <3> QED BY <3>1, OrderNumbers
  <2>2. CASE q # r
    <3>1. worker'[q] = worker[q]
      BY <1>6, <2>2, JobStep
    <3>2. watched'[q] = watched[q] /\ cached'[q] = cached[q]
      BY <1>6, <2>2 DEF Job, Dispatch, FetchHit, FetchMiss, Cache, FetchFails, AskGitHub, Load, List,
         Send, Save, JobFails, TypeOK
    <3>3. outlived' = outlived \/ outlived'
      BY <1>6 DEF Job, Dispatch, FetchHit, FetchMiss, FetchFails, Load, List, Send, Save, JobFails,
         TypeOK
    <3> QED BY <2>1, <3>1, <3>2, <3>3, OrderNumbers DEF OrderInv
  <2>3. CASE q = r
    <3> DEFINE w == worker[r]
    <3>1. w \in Workers /\ OrderInv(r) /\ JobInv(r) /\ worker \in [Repos -> Workers]
      BY DEF TypeOK, MailInv
    <3>2. CASE Dispatch(r) \/ FetchFails(r) \/ JobFails(r)
      <4>1. worker'[r].pc \in {"none", "fetch"} /\ UNCHANGED <<watched, outlived, cached>>
        BY <1>2, <3>1, <3>2 DEF Dispatch, FetchFails, JobFails, Become, Idle
      <4> QED BY <1>1, <2>1, <2>3, <3>1, <4>1, QuietOrder DEF Running
    <3>3. ASSUME NEW tag, Answer(r, tag)
          PROVE  worker'[r].pc = "none" \/ (worker'[r].pc = "load" /\ worker'[r].tag = tag)
      BY <1>2, <3>1, <3>3 DEF Answer, Become, Idle
    <3>4. CASE FetchHit(r)
      <4>1. UNCHANGED <<watched, outlived, cached>> /\ cached[r] # NotCached
        BY <3>4 DEF FetchHit
      <4>2. worker'[r].pc = "none" \/ (worker'[r].pc = "load" /\ worker'[r].tag = cached[r])
        BY <3>3, <3>4 DEF FetchHit
      <4> QED BY <2>1, <2>3, <3>1, <4>1, <4>2, OrderNumbers DEF OrderInv, Running
    <3>5. CASE FetchMiss(r)
      <4>1. worker'[r].pc = "none" \/ (worker'[r].pc = "load" /\ worker'[r].tag = latest[r])
        BY <3>3, <3>5 DEF FetchMiss
      <4>2. watched' = watched /\ (~outlived' => ~outlived /\ cached'[r] \in {NotCached, latest[r]})
        BY <3>5 DEF FetchMiss, Cache, TypeOK
      <4> QED BY <2>1, <2>3, <3>1, <4>1, <4>2, OrderNumbers DEF OrderInv, Running
    <3>6. CASE Load(r)
      <4>1. /\ UNCHANGED <<watched, outlived, cached>> /\ w.pc = "load"
            /\ worker'[r].tag = w.tag
        BY <3>1, <3>6 DEF Load, Become, Workers, Records
      <4> QED BY <1>1, <2>1, <2>3, <3>1, <4>1, QuietOrder DEF Running
    <3>7. ASSUME NEW x \in Workers PROVE InLoop(x) = Idle \/ InLoop(x).tag = x.tag
      BY <3>7 DEF InLoop, AfterSends, Workers, Records
    <3>8. ASSUME NEW x \in Workers, x.tag = w.tag, w.pc \in {"list", "send"}, Become(r, InLoop(x)),
                 UNCHANGED <<watched, outlived, cached>>
          PROVE  OrderInv(r)'
      <4>1. worker'[r].pc = "none" \/ worker'[r].tag = w.tag
        BY <1>2, <3>1, <3>7, <3>8 DEF Become
      <4> QED BY <1>1, <2>1, <2>3, <3>1, <3>8, <4>1, QuietOrder DEF Running
    <3>9. CASE List(r)
      <4> DEFINE x == [w EXCEPT !.pc = "send", !.todo = subs[r]]
      <4>1. x \in Workers /\ x.tag = w.tag
        BY <3>1, <3>9 DEF List, TypeOK, Workers, Records, PCs, Running
      <4> QED BY <2>3, <3>8, <3>9, <4>1 DEF List
    <3>10. CASE \E u \in Users : Send(r, u)
      <4>1. PICK u \in Users : Send(r, u)
        BY <3>10
      <4> DEFINE x == [w EXCEPT !.todo = @ \ {u}]
                 y == [x EXCEPT !.allSent = FALSE]
      <4>2. x \in Workers /\ y \in Workers
        BY <4>1, SendType DEF Send
      <4>3. x.tag = w.tag /\ y.tag = w.tag
        BY <3>1 DEF Workers, Records
      <4>4. /\ w.pc \in {"list", "send"} /\ UNCHANGED <<watched, outlived, cached>>
            /\ Become(r, InLoop(x)) \/ Become(r, InLoop(y))
        BY <4>1 DEF Send
      <4> HIDE DEF x, y
      <4> QED BY <2>3, <3>8, <4>2, <4>3, <4>4
    <3>11. CASE Save(r)
      <4>1. /\ watched'[r] = w.tag /\ UNCHANGED <<cached, outlived>> /\ w.pc \in {"silent", "save"}
            /\ worker'[r].pc = "none"
        BY <1>2, <3>1, <3>11 DEF Save, Become, TypeOK
      <4>2. w.tag <= latest[r]
        BY <3>1, <4>1 DEF JobInv, Running
      <4> QED BY <2>1, <2>3, <3>1, <4>1, <4>2 DEF OrderInv, Running
    <3> QED BY <1>6, <3>2, <3>4, <3>5, <3>6, <3>9, <3>10, <3>11 DEF Job
  <2> QED BY <2>2, <2>3
<1> QED BY <1>3, <1>4, <1>5, <1>6 DEF LiveNext, Next, Environment

\* At the start the cursor is behind everything.
LEMMA OrderInit == Init => \A r \in Repos : OrderInv(r)
<1> SUFFICES ASSUME Init, NEW r \in Repos PROVE OrderInv(r)
  OBVIOUS
<1>1. /\ latest[r] = 0 /\ cached[r] = NotCached /\ worker[r].pc = "none"
      /\ watched[r] \in {-1, 0}
  BY DEF Init, Idle, NoTag, NoRow
<1> QED BY <1>1 DEF OrderInv, Running

\* The cursor only moves forward until an old answer has survived in the cache.
LEMMA CursorInOrder ==
  ASSUME TypeOK, \A r \in Repos : OrderInv(r), LiveNext, NEW r \in Repos
  PROVE  watched'[r] >= watched[r] \/ outlived
<1>1. \/ StartScan \/ EndScan \/ Cancel \/ Restart \/ Environment \/ Stabilise
      \/ \E q \in Repos : Job(q)
  BY DEF LiveNext, Next
<1>2. ASSUME NEW q \in Repos, Job(q) PROVE watched' = watched \/ Save(q)
  BY <1>2 DEF Job, Dispatch, FetchHit, FetchMiss, FetchFails, Load, List, Send, JobFails, db
<1>3. watched' = watched \/ \E q \in Repos : Save(q)
  BY <1>1, <1>2 DEF StartScan, EndScan, Cancel, Restart, Environment, Stabilise, Tick,
     PublishRelease, ExpireCache, Confirm, Unsubscribe, db
<1>4. CASE watched'[r] = watched[r]
  BY <1>4, OrderNumbers
<1>5. ASSUME NEW q \in Repos, Save(q), watched'[r] # watched[r]
      PROVE  watched'[r] >= watched[r] \/ outlived
  <2>1. watched'[r] = worker[r].tag /\ worker[r].pc \in {"silent", "save"}
    BY <1>5 DEF Save, TypeOK
  <2> QED BY <2>1, OrderNumbers DEF OrderInv, Running
<1> QED BY <1>3, <1>4, <1>5

-----------------------------------------------------------------------------
(* The dedup window.                                                       *)

\* While the window of a stored e-mail lasts, storing one the stream does not
\* remember changes nothing of it: any other e-mail has another id.
LEMMA StoreInsideWindow ==
  ASSUME TypeOK, NEW m \in Mails, ~Remembered(m), Store(m),
         NEW n \in Mails, age[n] \in 0 .. Window - 1
  PROVE  age'[n] = age[n] /\ copies'[n] = copies[n]
<1>1. n # m
  BY DEF Remembered, SameID
<1> QED BY <1>1 DEF Store, TypeOK

\* Retries inside the window add no copy of an e-mail to the stream.
LEMMA NoNewCopy ==
  ASSUME TypeOK, LiveNext, NEW m \in Mails, age[m] \in 0 .. Window - 1
  PROVE  age'[m] \in {age[m], age[m] + 1} /\ copies'[m] = copies[m]
<1>1. CASE UNCHANGED broker
  BY <1>1 DEF broker
<1>2. CASE Tick
  BY <1>2 DEF Tick
<1>3. ASSUME NEW e \in Mails, ~Remembered(e), Store(e) PROVE age'[m] = age[m] /\ copies'[m] = copies[m]
  BY <1>3, StoreInsideWindow
<1> QED BY <1>1, <1>2, <1>3, BrokerEffect

-----------------------------------------------------------------------------
(* What is announced.                                                      *)

\* An e-mail enters the stream only for a release beyond a known cursor.
LEMMA MailAhead ==
  ASSUME TypeOK, NotifyInv, \A r \in Repos : OrderInv(r), LiveNext,
         NEW m \in Mails, age[m] # 0, age'[m] = 0
  PROVE  watched[m[2]] # NoRow /\ (watched[m[2]] < m[3] \/ outlived)
<1>1. ~UNCHANGED broker
  BY DEF broker
<1>2. ~Tick
  BY DEF Tick, TypeOK, NotStored
<1>3. PICK r \in Repos, u \in Users :
        /\ Send(r, u) /\ Store(<<u, r, worker[r].tag>>)
        /\ <<u, r, worker[r].tag>> \in Mails
  BY <1>1, <1>2, BrokerEffect
<1>4. m = <<u, r, worker[r].tag>>
  BY <1>3 DEF Store, TypeOK
<1>5. worker[r].pc = "send"
  BY <1>3 DEF Send
<1>6. watched[r] # NoRow /\ (watched[r] < worker[r].tag \/ outlived)
  BY <1>5, OrderNumbers DEF NotifyInv, OrderInv, Running
<1> QED BY <1>4, <1>6

-----------------------------------------------------------------------------
(* Theorems.                                                               *)

\* The strengthening that is inductive: what is typed, who holds a slot, what
\* the jobs know of mail and cursor, and in which order the releases stand.
ScannerInv ==
    /\ TypeOK /\ PoolInv /\ LimitInv /\ MailInv /\ NotifyInv
    /\ \A r \in Repos : OrderInv(r)

\* The behaviours with and without an end of the failures.
WideSpec == Init /\ [][LiveNext]_vars

\* Those checked for safety and those checked for liveness are among them.
LEMMA SpecIsWide == (Spec => WideSpec) /\ (FairSpec => WideSpec)
<1>1. [Next]_vars => [LiveNext]_vars
  BY DEF LiveNext
<1> QED BY <1>1, PTL DEF Spec, FairSpec, WideSpec

\* The invariant holds at the start and every step keeps it.
THEOREM ScannerInvariant == WideSpec => []ScannerInv
<1>1. Init => ScannerInv
  BY TypeInit, PoolInit, MailInit, NotifyInit, OrderInit DEF ScannerInv
<1>2. ScannerInv /\ [LiveNext]_vars => ScannerInv'
  BY TypeStep, PoolStep, LimitStep, MailStep, NotifyStep, OrderStep DEF ScannerInv
<1> QED BY <1>1, <1>2, PTL DEF WideSpec

\* What the invariant means for one step.
LEMMA ScannerSteps ==
  ScannerInv /\ [LiveNext]_vars =>
    /\ [\A r \in Repos :
          watched[r] # NoRow /\ watched'[r] # watched[r]
            => \A u \in subs[r] :
                 base[u][r] < watched'[r] => Stored(<<u, r, watched'[r]>>)]_vars
    /\ [\A r \in Repos : watched'[r] >= watched[r] \/ outlived]_vars
    /\ [\A m \in Mails : age[m] \in 0 .. Window - 1
          => age'[m] \in {age[m], age[m] + 1} /\ copies'[m] = copies[m]]_vars
    /\ [\A m \in Mails : age[m] # 0 /\ age'[m] = 0
          => watched[m[2]] # NoRow /\ (watched[m[2]] < m[3] \/ outlived)]_vars
  BY CursorNeedsMail, CursorInOrder, NoNewCopy, MailAhead DEF ScannerInv

\* Everything the runs check of the scanner's safety, with outages or without.
THEOREM ScannerIsSafe ==
  WideSpec => /\ []TypeOK /\ []PoolBounded /\ []RateLimitStopsCalls
              /\ CursorOnlyAfterMail /\ CursorMovesForward
              /\ NoCopyInsideWindow /\ NoMailBehindCursor
<1>1. ScannerInv => TypeOK /\ PoolBounded /\ RateLimitStopsCalls
  BY PoolMeans, LimitMeans DEF ScannerInv
<1> QED BY <1>1, ScannerSteps, ScannerInvariant, PTL
           DEF WideSpec, CursorOnlyAfterMail, CursorMovesForward, NoCopyInsideWindow,
               NoMailBehindCursor

\* Every variable keeps its type.
THEOREM TypeCorrect == Spec => []TypeOK
  BY ScannerIsSafe, SpecIsWide

\* At most `size` jobs in flight, and none between two runs.
THEOREM PoolIsBounded == Spec => []PoolBounded
  BY ScannerIsSafe, SpecIsWide

\* After the rate limit was met, fewer calls of GitHub than the pool has slots.
THEOREM RateLimitIsKept == Spec => []RateLimitStopsCalls
  BY ScannerIsSafe, SpecIsWide

\* A known cursor moves to a release only when everybody who was confirmed
\* before it has its e-mail in the stream.
THEOREM CursorFollowsMail == Spec => CursorOnlyAfterMail
  BY ScannerIsSafe, SpecIsWide

\* The cursor only moves forward until an old answer has survived in the cache.
THEOREM CursorStaysInOrder == Spec => CursorMovesForward
  BY ScannerIsSafe, SpecIsWide

\* Retries inside the window add no copy of an e-mail to the stream.
THEOREM RetriesAreDeduplicated == Spec => NoCopyInsideWindow
  BY ScannerIsSafe, SpecIsWide

\* An e-mail enters the stream only for a release beyond a known cursor.
THEOREM MailsAreAhead == Spec => NoMailBehindCursor
  BY ScannerIsSafe, SpecIsWide

-----------------------------------------------------------------------------
(* While Redis answers.                                                    *)

\* What one step does once the cursor has reached the release of m.
LEMMA PassedStep ==
  ASSUME ~RedisFaults, ScannerInv, [LiveNext]_vars,
         NEW m \in Mails, watched[m[2]] >= m[3]
  PROVE  watched'[m[2]] >= m[3] /\ copies'[m] = copies[m]
<1>1. m[2] \in Repos /\ m[3] \in Nat
  BY TagsAreNumbers DEF Mails, Tags
<1>2. ~outlived
  BY DEF ScannerInv, NotifyInv
<1>3. CASE UNCHANGED vars
  BY <1>3 DEF vars, db, broker
<1>4. CASE LiveNext
  <2>1. watched'[m[2]] >= watched[m[2]]
    BY <1>1, <1>2, <1>4, CursorInOrder DEF ScannerInv
  <2>2. watched'[m[2]] \in Int /\ watched[m[2]] \in Int
    BY <1>1, <1>4, TypeStep DEF ScannerInv, TypeOK, Tags, NoTag, NoRow
  <2>3. ASSUME NEW r \in Repos, NEW u \in Users, Send(r, u), Store(<<u, r, worker[r].tag>>)
        PROVE  copies'[m] = copies[m]
    <3>1. worker[r].pc = "send"
      BY <2>3 DEF Send
    <3>2. watched[r] < worker[r].tag
      BY <1>2, <3>1, OrderNumbers DEF ScannerInv, NotifyInv, OrderInv, Running
    <3>3. m # <<u, r, worker[r].tag>>
      BY <3>2, OrderNumbers DEF ScannerInv
    <3> QED BY <2>3, <3>3 DEF Store, ScannerInv, TypeOK
  <2>4. copies' = copies \/ \E r \in Repos, u \in Users :
                               Send(r, u) /\ Store(<<u, r, worker[r].tag>>)
    BY <1>4, BrokerEffect DEF ScannerInv, broker, Tick
  <2>5. copies'[m] = copies[m]
    BY <2>3, <2>4
  <2> QED BY <1>1, <2>1, <2>2, <2>5
<1> QED BY <1>3, <1>4

\* As long as the release cache can be read or written, a release the cursor
\* has reached is done with: whatever crashes, lags or is retried after that,
\* nobody gets another copy of its e-mail.
THEOREM PassedReleaseStaysSilent ==
  ASSUME ~RedisFaults, NEW m \in Mails, NEW n \in Nat
  PROVE  WideSpec => []((watched[m[2]] >= m[3] /\ copies[m] = n)
                           => [](watched[m[2]] >= m[3] /\ copies[m] = n))
<1>1. ScannerInv /\ (watched[m[2]] >= m[3] /\ copies[m] = n) /\ [LiveNext]_vars
        => (watched[m[2]] >= m[3] /\ copies[m] = n)'
  BY PassedStep
<1> QED BY <1>1, ScannerInvariant, PTL DEF WideSpec
=============================================================================
