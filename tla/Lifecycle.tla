----------------------------- MODULE Lifecycle -----------------------------
(***************************************************************************)
(* What the subscription API promises of the subscriptions table and of    *)
(* the confirmation e-mails, without requests, tokens or failures: a       *)
(* subscription is created, mailed, confirmed by its recipient, and        *)
(* deleted once, in that order, and there is one per e-mail and repository *)
(* at a time.                                                              *)
(***************************************************************************)
EXTENDS TLAPS

CONSTANTS
    Subs,       \* the subscriptions that may ever be created
    PairOf      \* PairOf[s] is the (email, repo) of s

VARIABLES
    row,        \* row[s] is the state of s's row
    mailed      \* those whose confirmation e-mail is in the stream

Live     == {"pending", "confirmed"}
RowState == Live \cup {"absent", "deleted"}

\* The pair of s has a subscription.
PairTaken(s) == \E t \in Subs : PairOf[t] = PairOf[s] /\ row[t] \in Live

Init ==
    /\ row = [s \in Subs |-> "absent"]
    /\ mailed = {}

Create(s) ==
    /\ row[s] = "absent" /\ ~PairTaken(s)
    /\ row' = [row EXCEPT ![s] = "pending"]
    /\ UNCHANGED mailed

\* The links are on their way to the owner of the address.
Mail(s) ==
    /\ row[s] = "pending"
    /\ mailed' = mailed \cup {s}
    /\ UNCHANGED row

\* Double opt-in: only whoever has the e-mail can confirm.
Confirm(s) ==
    /\ s \in mailed /\ row[s] = "pending"
    /\ row' = [row EXCEPT ![s] = "confirmed"]
    /\ UNCHANGED mailed

Delete(s) ==
    /\ s \in mailed /\ row[s] \in Live
    /\ row' = [row EXCEPT ![s] = "deleted"]
    /\ UNCHANGED mailed

Next == \E s \in Subs : Create(s) \/ Mail(s) \/ Confirm(s) \/ Delete(s)

Spec == Init /\ [][Next]_<<row, mailed>>

-----------------------------------------------------------------------------
(* What follows for whoever keeps to it.                                   *)

TypeOK == row \in [Subs -> RowState] /\ mailed \subseteq Subs

\* A pair has one subscription at a time, which the unique index on the table
\* and the check before the insert are for.
OnePerPair ==
    \A s, t \in Subs :
        PairOf[s] = PairOf[t] /\ row[s] \in Live /\ row[t] \in Live => s = t

\* Double opt-in: who is confirmed, or was and left, had been mailed the link.
MailedFirst ==
    \A s \in Subs : row[s] \in {"confirmed", "deleted"} => s \in mailed

LifeInv == TypeOK /\ OnePerPair /\ MailedFirst

\* Every step of the life cycle keeps all three.
LEMMA LifeStep == LifeInv /\ [Next]_<<row, mailed>> => LifeInv'
<1> SUFFICES ASSUME LifeInv, [Next]_<<row, mailed>> PROVE LifeInv'
    OBVIOUS
<1> USE DEF LifeInv, TypeOK, OnePerPair, MailedFirst, Live, RowState
<1>1. ASSUME NEW s \in Subs, Create(s) PROVE LifeInv'
    BY <1>1 DEF Create, PairTaken
<1>2. ASSUME NEW s \in Subs, Mail(s) PROVE LifeInv'
    BY <1>2 DEF Mail
<1>3. ASSUME NEW s \in Subs, Confirm(s) \/ Delete(s) PROVE LifeInv'
    BY <1>3 DEF Confirm, Delete
<1>4. CASE UNCHANGED <<row, mailed>>
    BY <1>4
<1> QED BY <1>1, <1>2, <1>3, <1>4 DEF Next

\* One subscription per pair, and nobody confirmed without an e-mail.
THEOREM LifeInvariant == Spec => []LifeInv
<1>1. Init => LifeInv
    BY DEF Init, LifeInv, TypeOK, OnePerPair, MailedFirst, Live, RowState
<1> QED BY <1>1, LifeStep, PTL DEF Spec

\* A deleted subscription never comes back; who returns has a new one.
THEOREM DeletedForGood ==
    ASSUME NEW s \in Subs
    PROVE  Spec => [](row[s] = "deleted" => [](row[s] = "deleted"))
<1>1. LifeInv /\ row[s] = "deleted" /\ [Next]_<<row, mailed>> => (row[s] = "deleted")'
    BY DEF LifeInv, TypeOK, Next, Create, Mail, Confirm, Delete, Live
<1> QED BY <1>1, LifeInvariant, PTL DEF Spec
=============================================================================
