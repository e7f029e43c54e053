---------------------------- MODULE Notifications ----------------------------
(***************************************************************************)
(* What the service as a whole promises of a release, without a scanner, a *)
(* cache, a stream or a consumer: it is announced to people who confirmed, *)
(* one release after the other, nobody is passed over, and an e-mail is    *)
(* sent or parked only when it had been handed over.                       *)
(***************************************************************************)
EXTENDS Integers, TLAPS

CONSTANTS
    Repos,      \* the repositories
    Users,      \* the e-mail addresses
    MaxTag,     \* releases are numbered 1 .. MaxTag, as they come out
    Relapses    \* may a release already passed be announced again?

NoTag == 0
NoRow == -1
Mails == Users \X Repos \X (1 .. MaxTag)

VARIABLES
    latest,     \* the newest release
    subs,       \* the confirmed subscribers
    base,       \* the newest release when a subscriber confirmed
    knew,       \* everybody who ever confirmed
    cursor,     \* the release announced last
    handed,     \* the e-mails handed over for delivery
    mailed,     \* those an SMTP server accepted
    parked      \* those in the dead-letter stream

people  == <<subs, base, knew>>
outcome == <<mailed, parked>>
vars    == <<latest, people, cursor, handed, outcome>>

Init ==
    /\ latest = [r \in Repos |-> NoTag]
    /\ subs = [r \in Repos |-> {}]
    /\ base = [u \in Users |-> [r \in Repos |-> NoTag]]
    /\ knew = {}
    /\ cursor \in [Repos -> {NoRow, NoTag}]
    /\ handed = {}
    /\ mailed = {}
    /\ parked = {}

PublishRelease(r) ==
    /\ latest[r] < MaxTag
    /\ latest' = [latest EXCEPT ![r] = @ + 1]
    /\ UNCHANGED <<people, cursor, handed, outcome>>

Confirm(u, r) ==
    /\ subs' = [subs EXCEPT ![r] = @ \cup {u}]
    /\ base' = [base EXCEPT ![u][r] = latest[r]]
    /\ knew' = knew \cup {<<u, r>>}
    /\ UNCHANGED <<latest, cursor, handed, outcome>>

Unsubscribe(u, r) ==
    /\ subs' = [subs EXCEPT ![r] = @ \ {u}]
    /\ base' = [base EXCEPT ![u][r] = NoTag]
    /\ UNCHANGED <<latest, knew, cursor, handed, outcome>>

\* The release t comes after the one announced last.
Follows(t, r) == cursor[r] < t \/ (Relapses /\ cursor[r] # t)

\* Only somebody who confirmed is told, of a release that is out.  What is there
\* when the service sees a repository for the first time is not announced.
HandOver(u, r, t) ==
    /\ <<u, r>> \in knew
    /\ cursor[r] # NoRow /\ Follows(t, r) /\ t <= latest[r]
    /\ handed' = handed \cup {<<u, r, t>>}
    /\ UNCHANGED <<latest, people, cursor, outcome>>

FirstSight(r, t) ==
    /\ cursor[r] = NoRow /\ t <= latest[r]
    /\ cursor' = [cursor EXCEPT ![r] = t]
    /\ UNCHANGED <<latest, people, handed, outcome>>

\* The release is done with once everybody has it who waited for it.
Advance(r, t) ==
    /\ cursor[r] # NoRow /\ Follows(t, r) /\ t <= latest[r]
    /\ \A u \in subs[r] : base[u][r] < t => <<u, r, t>> \in handed
    /\ cursor' = [cursor EXCEPT ![r] = t]
    /\ UNCHANGED <<latest, people, handed, outcome>>

Mail(m) ==
    /\ m \in handed
    /\ mailed' = mailed \cup {m}
    /\ UNCHANGED <<latest, people, cursor, handed, parked>>

Park(m) ==
    /\ m \in handed
    /\ parked' = parked \cup {m}
    /\ UNCHANGED <<latest, people, cursor, handed, mailed>>

Next ==
    \/ \E r \in Repos : PublishRelease(r)
    \/ \E r \in Repos, u \in Users : Confirm(u, r) \/ Unsubscribe(u, r)
    \/ \E u \in Users, r \in Repos, t \in 1 .. MaxTag : HandOver(u, r, t)
    \/ \E r \in Repos, t \in 1 .. MaxTag : FirstSight(r, t) \/ Advance(r, t)
    \/ \E m \in Mails : Mail(m) \/ Park(m)

Spec == Init /\ [][Next]_vars

-----------------------------------------------------------------------------
(* What follows for whoever keeps to it.                                   *)

TypeOK ==
    /\ latest \in [Repos -> Nat]
    /\ subs \in [Repos -> SUBSET Users]
    /\ base \in [Users -> [Repos -> Nat]]
    /\ cursor \in [Repos -> Int]
    /\ handed \subseteq Mails

\* Who was mailed, or would have been but for the dead-letter stream, had
\* confirmed, and the release is out.
OnlyWhoConfirmed ==
    \A m \in mailed \cup parked : <<m[1], m[2]>> \in knew /\ m[3] <= latest[m[2]]

\* The cursor of r is known, and whoever waited for its release was told.
Served(r) ==
    /\ cursor[r] # NoRow
    /\ \A u \in subs[r] : base[u][r] < cursor[r] => <<u, r, cursor[r]>> \in handed

PromiseInv ==
    /\ TypeOK
    /\ \A r \in Repos : cursor[r] <= latest[r] /\ \A u \in subs[r] : <<u, r>> \in knew
    /\ \A m \in handed : <<m[1], m[2]>> \in knew /\ m[3] <= latest[m[2]]
    /\ mailed \cup parked \subseteq handed

\* Every step keeps it, and leaves served what was served.
LEMMA PromiseStep ==
    PromiseInv /\ [Next]_vars => PromiseInv' /\ \A r \in Repos : Served(r) => Served(r)'
<1> SUFFICES ASSUME PromiseInv, [Next]_vars
             PROVE  PromiseInv' /\ \A r \in Repos : Served(r) => Served(r)'
    OBVIOUS
<1> USE DEF PromiseInv, TypeOK, Served, Mails, people, outcome
<1>1. ASSUME NEW q \in Repos, PublishRelease(q)
      PROVE  PromiseInv' /\ \A r \in Repos : Served(r) => Served(r)'
    BY <1>1 DEF PublishRelease
<1>2. ASSUME NEW q \in Repos, NEW v \in Users, Confirm(v, q)
      PROVE  PromiseInv' /\ \A r \in Repos : Served(r) => Served(r)'
    BY <1>2 DEF Confirm
<1>3. ASSUME NEW q \in Repos, NEW v \in Users, Unsubscribe(v, q)
      PROVE  PromiseInv' /\ \A r \in Repos : Served(r) => Served(r)'
    BY <1>3 DEF Unsubscribe, NoTag
<1>4. ASSUME NEW q \in Repos, NEW v \in Users, NEW t \in 1 .. MaxTag, HandOver(v, q, t)
      PROVE  PromiseInv' /\ \A r \in Repos : Served(r) => Served(r)'
    BY <1>4 DEF HandOver
<1>5. ASSUME NEW q \in Repos, NEW t \in 1 .. MaxTag, FirstSight(q, t) \/ Advance(q, t)
      PROVE  PromiseInv' /\ \A r \in Repos : Served(r) => Served(r)'
    BY <1>5 DEF FirstSight, Advance, NoRow
<1>6. ASSUME NEW m \in Mails, Mail(m) \/ Park(m)
      PROVE  PromiseInv' /\ \A r \in Repos : Served(r) => Served(r)'
    BY <1>6 DEF Mail, Park
<1>7. CASE UNCHANGED vars
    BY <1>7 DEF vars
<1> QED BY <1>1, <1>2, <1>3, <1>4, <1>5, <1>6, <1>7 DEF Next

\* The promise never leaves its invariant.
LEMMA PromiseInvariant == Spec => []PromiseInv
<1>1. Init => PromiseInv
    BY DEF Init, PromiseInv, TypeOK, NoTag, NoRow
<1> QED BY <1>1, PromiseStep, PTL DEF Spec

\* Only people who confirmed are mailed, and only of releases that are out.
THEOREM NobodyElseIsMailed == Spec => []OnlyWhoConfirmed
<1>1. PromiseInv => OnlyWhoConfirmed
    BY DEF PromiseInv, OnlyWhoConfirmed
<1> QED BY <1>1, PromiseInvariant, PTL

\* Once a known repository is served, nobody is ever passed over again.
THEOREM ServedForGood ==
    ASSUME NEW r \in Repos
    PROVE  Spec => [](Served(r) => []Served(r))
<1>1. PromiseInv /\ Served(r) /\ [Next]_vars => Served(r)'
    BY PromiseStep
<1> QED BY <1>1, PromiseInvariant, PTL DEF Spec
=============================================================================
