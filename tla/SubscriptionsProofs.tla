------------------------- MODULE SubscriptionsProofs -------------------------
(***************************************************************************)
(* Theorems about Subscriptions for every set of requests, clicks and      *)
(* pairs, with and without faults.                                         *)
(***************************************************************************)
EXTENDS Subscriptions, TLAPS

-----------------------------------------------------------------------------
(* The inductive invariant, one part per row and one per link request.      *)

\* A row against its tokens, its e-mail and the request that creates it.
RowInv(s) ==
    /\ row[s] = "pending" => s \in token
    /\ sub[s] \in {"new", "find", "validate", "insert", "400", "404", "409", "503"}
         => row[s] = "absent"
    /\ sub[s] = "publish" => row[s] = "pending" /\ s \notin mailed
    /\ sub[s] = "200" => row[s] # "absent"
    /\ s \in mailed => row[s] # "absent"
    /\ row[s] \in {"confirmed", "deleted"} => s \in mailed

\* A link request against the row it is about.
ClickInv(c) ==
    LET k == click[c]
    IN  k # NoClick =>
          /\ k.on \in mailed
          /\ k.at = "dropToken" => row[k.on] \in {"confirmed", "deleted"}
          /\ k.at \in {"200", "404"} =>
                IF k.kind = "confirm" THEN row[k.on] \in {"confirmed", "deleted"}
                                      ELSE row[k.on] = "deleted"

SubsInv ==
    /\ TypeOK
    /\ \A s \in Subs : RowInv(s)
    /\ \A c \in Clicks : ClickInv(c)

-----------------------------------------------------------------------------
(* Lemmas about the helpers.                                               *)

\* What a link request in flight looks like.
LEMMA ClickParts ==
    ASSUME TypeOK, NEW c \in Clicks
    PROVE  /\ click[c] # NoClick => click[c].on \in Subs /\ click[c].at # "new"
           /\ click[c].at \in {"findToken", "update", "dropToken"} => click[c].kind = "confirm"
           /\ click[c].at \in {"findRow", "delete"} => click[c].kind = "unsubscribe"
           /\ click[c].at \in ClickSteps => click[c] # NoClick
BY DEF TypeOK, ClickRecords, NoClick, ClickSteps, Answers

\* A request that follows a link moves on inside its own handler.
LEMMA ClickToType ==
    ASSUME TypeOK, NEW c \in Clicks, NEW x, ClickTo(c, x),
           \/ /\ click[c].at \in {"findToken", "update", "dropToken"}
              /\ x \in {"update", "dropToken"} \cup Answers
           \/ /\ click[c].at \in {"findRow", "delete"}
              /\ x \in {"delete"} \cup Answers
    PROVE  /\ click' \in [Clicks -> ClickRecords]
           /\ click'[c] = [on |-> click[c].on, at |-> x, kind |-> click[c].kind]
           /\ \A d \in Clicks \ {c} : click'[d] = click[d]
<1>1. click[c] \in ClickRecords /\ click[c] # NoClick
    BY DEF TypeOK, NoClick
<1>2. [click[c] EXCEPT !.at = x] = [on |-> click[c].on, at |-> x, kind |-> click[c].kind]
    BY <1>1 DEF ClickRecords
<1>3. [on |-> click[c].on, at |-> x, kind |-> click[c].kind] \in ClickRecords
    BY <1>1 DEF ClickRecords, NoClick, Answers
<1> QED BY <1>2, <1>3 DEF TypeOK, ClickTo

\* A link request that does not move stays right while rows only advance.
LEMMA ClickStays ==
    ASSUME NEW c \in Clicks, ClickInv(c), click'[c] = click[c],
           mailed \subseteq mailed',
           \A s \in mailed : /\ row[s] \in {"confirmed", "deleted"}
                                  => row'[s] \in {"confirmed", "deleted"}
                             /\ row[s] = "deleted" => row'[s] = "deleted"
    PROVE  ClickInv(c)'
BY DEF ClickInv

-----------------------------------------------------------------------------
\* The empty tables satisfy the invariant.
LEMMA InitSubs == Init => SubsInv
<1> SUFFICES ASSUME Init PROVE SubsInv
    OBVIOUS
<1>1. TypeOK
    BY DEF Init, TypeOK, RowState, ClickRecords
<1>2. ASSUME NEW s \in Subs PROVE RowInv(s)
    BY DEF Init, RowInv
<1>3. ASSUME NEW c \in Clicks PROVE ClickInv(c)
    BY DEF Init, ClickInv
<1> QED BY <1>1, <1>2, <1>3 DEF SubsInv

-----------------------------------------------------------------------------
(* Subscribe.                                                              *)

\* Before the insert, a subscribe request changes nothing but itself.
LEMMA EarlyKeeps ==
    ASSUME SubsInv, NEW s \in Subs,
           NEW x \in {"find", "validate", "insert", "400", "404", "409", "500", "503"},
           sub[s] \in {"new", "find", "validate", "insert"}, SubTo(s, x),
           UNCHANGED <<row, token, mailed, click>>
    PROVE  SubsInv'
<1>1. TypeOK'
    BY DEF SubsInv, TypeOK, SubTo, SubSteps, Answers, HasRow
<1>2. ASSUME NEW t \in Subs PROVE RowInv(t)'
    BY DEF SubsInv, TypeOK, SubTo, RowInv
<1>3. ASSUME NEW c \in Clicks PROVE ClickInv(c)'
    BY DEF SubsInv, ClickInv
<1> QED BY <1>1, <1>2, <1>3 DEF SubsInv

\* The transaction of the insert, whether its outcome is known or not.
LEMMA CreateKeeps ==
    ASSUME SubsInv, NEW s \in Subs, NEW x \in {"publish", "500"},
           sub[s] = "insert", Create(s), SubTo(s, x), UNCHANGED <<mailed, click>>
    PROVE  SubsInv'
<1>1. row[s] = "absent" /\ s \notin mailed
    BY DEF SubsInv, RowInv
<1>2. TypeOK'
    BY DEF SubsInv, TypeOK, SubTo, SubSteps, Answers, Create, HasRow, Live, RowState
<1>3. ASSUME NEW t \in Subs PROVE RowInv(t)'
    BY <1>1 DEF SubsInv, TypeOK, SubTo, Create, RowInv
<1>4. ASSUME NEW c \in Clicks PROVE ClickInv(c)'
    BY <1>1, ClickStays DEF SubsInv, TypeOK, Create
<1> QED BY <1>2, <1>3, <1>4 DEF SubsInv

\* The confirmation is published for a row nobody else can touch yet.
LEMMA PublishKeeps ==
    ASSUME SubsInv, NEW s \in Subs, Publish(s)
    PROVE  SubsInv'
<1>1. row[s] = "pending"
    BY DEF Publish, SubsInv, RowInv
<1>2. TypeOK'
    BY DEF Publish, SubsInv, TypeOK, SubTo, Answers, HasRow
<1>3. ASSUME NEW t \in Subs PROVE RowInv(t)'
    BY <1>1 DEF Publish, SubsInv, TypeOK, SubTo, RowInv
<1>4. ASSUME NEW c \in Clicks PROVE ClickInv(c)'
    BY ClickStays DEF Publish, SubsInv
<1> QED BY <1>2, <1>3, <1>4 DEF SubsInv

\* Every call of Service.Subscribe keeps the invariant.
LEMMA SubscribeKeeps ==
    ASSUME SubsInv, NEW s \in Subs, Subscribe(s)
    PROVE  SubsInv'
<1>1. CASE Request(s)
    BY <1>1, EarlyKeeps DEF Request
<1>2. CASE FindExisting(s)
    BY <1>2, EarlyKeeps DEF FindExisting
<1>3. CASE Validate(s)
    BY <1>3, EarlyKeeps DEF Validate
<1>4. CASE Insert(s)
    BY <1>4, EarlyKeeps, CreateKeeps DEF Insert
<1>5. CASE Publish(s)
    BY <1>5, PublishKeeps
<1> QED BY <1>1, <1>2, <1>3, <1>4, <1>5 DEF Subscribe

-----------------------------------------------------------------------------
(* The links.                                                              *)

\* A link request starts from an e-mail that was published.
LEMMA FollowKeeps ==
    ASSUME SubsInv, NEW c \in Clicks, NEW s \in Subs, Follow(c, s)
    PROVE  SubsInv'
<1>1. TypeOK'
    BY DEF Follow, SubsInv, TypeOK, ClickRecords, HasRow
<1>2. ASSUME NEW t \in Subs PROVE RowInv(t)'
    BY DEF Follow, SubsInv, RowInv
<1>3. ASSUME NEW d \in Clicks PROVE ClickInv(d)'
    BY DEF Follow, SubsInv, TypeOK, ClickInv
<1> QED BY <1>1, <1>2, <1>3 DEF SubsInv

\* A link request that only reads: it moves on, or is answered.
LEMMA ReadKeeps ==
    ASSUME SubsInv, NEW c \in Clicks, FindToken(c) \/ FindRow(c)
    PROVE  SubsInv'
<1> DEFINE s == click[c].on
<1>1. s \in Subs /\ s \in mailed /\ row[s] \in RowState /\ RowInv(s)
    BY ClickParts DEF FindToken, FindRow, SubsInv, ClickInv, ClickSteps, TypeOK
<1>2. PICK x \in {"update", "delete", "404", "500"} :
        /\ ClickTo(c, x)
        /\ x = "update" => click[c].at = "findToken"
        /\ x = "delete" => click[c].at = "findRow"
        /\ x = "404" /\ click[c].at = "findToken" => s \notin token
        /\ x = "404" /\ click[c].at = "findRow" => ~HasRow(s)
    BY DEF FindToken, FindRow
<1>3. /\ click' \in [Clicks -> ClickRecords]
      /\ click'[c] = [on |-> s, at |-> x, kind |-> click[c].kind]
      /\ \A d \in Clicks \ {c} : click'[d] = click[d]
    BY <1>2, ClickToType DEF FindToken, FindRow, SubsInv, Answers
<1>4. UNCHANGED <<row, token, mailed, sub>>
    BY DEF FindToken, FindRow
<1>5. TypeOK'
    BY <1>3, <1>4 DEF SubsInv, TypeOK, HasRow
<1>6. ASSUME NEW t \in Subs PROVE RowInv(t)'
    BY <1>4 DEF SubsInv, RowInv
<1>7. ASSUME NEW d \in Clicks \ {c} PROVE ClickInv(d)'
    BY <1>3, <1>4, ClickStays DEF SubsInv
<1>8. ClickInv(c)'
    <2>1. x = "404" => IF click[c].kind = "confirm" THEN row[s] \in {"confirmed", "deleted"}
                                                   ELSE row[s] = "deleted"
        BY <1>1, <1>2, ClickParts
           DEF FindToken, FindRow, SubsInv, RowInv, RowState, HasRow, Live
    <2> QED BY <1>1, <1>3, <1>4, <2>1 DEF ClickInv
<1> QED BY <1>5, <1>6, <1>7, <1>8 DEF SubsInv

\* The update by id confirms a pending row and leaves any other alone.
LEMMA UpdateKeeps ==
    ASSUME SubsInv, NEW c \in Clicks, Update(c)
    PROVE  SubsInv'
<1> DEFINE s == click[c].on
<1>1. s \in Subs /\ s \in mailed /\ row[s] \in RowState /\ RowInv(s)
    BY ClickParts DEF Update, SubsInv, ClickInv, ClickSteps, TypeOK
<1>2. PICK x \in {"dropToken", "500"} : ClickTo(c, x) /\ (x = "dropToken" => SetConfirmed(s))
    BY DEF Update, AfterFailedUpdate
<1>3. /\ click' \in [Clicks -> ClickRecords]
      /\ click'[c] = [on |-> s, at |-> x, kind |-> click[c].kind]
      /\ \A d \in Clicks \ {c} : click'[d] = click[d]
    BY <1>2, ClickToType DEF Update, SubsInv, Answers
<1>4. UNCHANGED <<token, mailed, sub>> /\ (SetConfirmed(s) \/ row' = row)
    BY DEF Update
<1>5. row' = row \/ (row[s] = "pending" /\ row' = [row EXCEPT ![s] = "confirmed"])
    BY <1>1, <1>4 DEF SetConfirmed, SubsInv, TypeOK
<1>6. TypeOK'
    BY <1>3, <1>4, <1>5 DEF SubsInv, TypeOK, HasRow, Live, RowState
<1>7. ASSUME NEW t \in Subs PROVE RowInv(t)'
    BY <1>1, <1>4, <1>5 DEF SubsInv, TypeOK, RowInv
<1>8. ASSUME NEW d \in Clicks \ {c} PROVE ClickInv(d)'
    BY <1>3, <1>4, <1>5, ClickStays DEF SubsInv, TypeOK
<1>9. ClickInv(c)'
    <2>1. x = "dropToken" => row'[s] \in {"confirmed", "deleted"}
        BY <1>1, <1>2 DEF SetConfirmed, RowInv, RowState, Live, SubsInv, TypeOK
    <2> QED BY <1>1, <1>3, <1>4, <2>1 DEF ClickInv
<1> QED BY <1>6, <1>7, <1>8, <1>9 DEF SubsInv

\* The token goes only after its row is no longer pending.
LEMMA DropTokenKeeps ==
    ASSUME SubsInv, NEW c \in Clicks, DropToken(c)
    PROVE  SubsInv'
<1> DEFINE s == click[c].on
<1>1. s \in Subs /\ s \in mailed /\ row[s] \in {"confirmed", "deleted"}
    BY ClickParts DEF DropToken, SubsInv, ClickInv, ClickSteps
<1>2. /\ click' \in [Clicks -> ClickRecords]
      /\ click'[c] = [on |-> s, at |-> "200", kind |-> click[c].kind]
      /\ \A d \in Clicks \ {c} : click'[d] = click[d]
    BY ClickToType DEF DropToken, SubsInv, Answers
<1>3. UNCHANGED <<row, mailed, sub>> /\ token' \in {token, token \ {s}}
    BY DEF DropToken
<1>4. TypeOK'
    BY <1>2, <1>3 DEF SubsInv, TypeOK, HasRow
<1>5. ASSUME NEW t \in Subs PROVE RowInv(t)'
    BY <1>1, <1>3 DEF SubsInv, RowInv
<1>6. ASSUME NEW d \in Clicks \ {c} PROVE ClickInv(d)'
    BY <1>2, <1>3, ClickStays DEF SubsInv
<1>7. ClickInv(c)'
    BY <1>1, <1>2, <1>3, ClickParts DEF DropToken, ClickInv, SubsInv
<1> QED BY <1>4, <1>5, <1>6, <1>7 DEF SubsInv

\* A row and its token go together.
LEMMA DeleteKeeps ==
    ASSUME SubsInv, NEW c \in Clicks, DeleteRow(c)
    PROVE  SubsInv'
<1> DEFINE s == click[c].on
<1>1. s \in Subs /\ s \in mailed /\ row[s] \in Live \cup {"deleted"}
    BY ClickParts DEF DeleteRow, SubsInv, ClickInv, ClickSteps, TypeOK, RowInv, RowState
<1>2. PICK x \in {"200", "500"} : ClickTo(c, x) /\ (x = "200" => Delete(s))
    BY DEF DeleteRow
<1>3. /\ click' \in [Clicks -> ClickRecords]
      /\ click'[c] = [on |-> s, at |-> x, kind |-> click[c].kind]
      /\ \A d \in Clicks \ {c} : click'[d] = click[d]
    BY <1>2, ClickToType DEF DeleteRow, SubsInv, Answers
<1>4. UNCHANGED <<mailed, sub>> /\ (Delete(s) \/ UNCHANGED <<row, token>>)
    BY DEF DeleteRow
<1>5. Delete(s) => row' = [row EXCEPT ![s] = "deleted"] /\ token' = token \ {s}
    BY <1>1 DEF Delete, Live
<1>6. TypeOK'
    BY <1>1, <1>3, <1>4, <1>5 DEF SubsInv, TypeOK, HasRow, Live, RowState
<1>7. ASSUME NEW t \in Subs PROVE RowInv(t)'
    BY <1>1, <1>4, <1>5 DEF SubsInv, TypeOK, RowInv
<1>8. ASSUME NEW d \in Clicks \ {c} PROVE ClickInv(d)'
    BY <1>1, <1>3, <1>4, <1>5, ClickStays DEF SubsInv, TypeOK
<1>9. ClickInv(c)'
    BY <1>1, <1>2, <1>3, <1>4, <1>5, ClickParts DEF DeleteRow, ClickInv, SubsInv, TypeOK
<1> QED BY <1>6, <1>7, <1>8, <1>9 DEF SubsInv

\* A crash ends requests and changes no table.
LEMMA CrashKeeps ==
    ASSUME SubsInv, Crash
    PROVE  SubsInv'
<1>1. UNCHANGED <<row, token, mailed>>
    BY DEF Crash
<1>2. ASSUME NEW c \in Clicks
      PROVE  /\ click'[c] \in ClickRecords
             /\ \/ click'[c] = click[c]
                \/ /\ click[c] # NoClick
                   /\ click'[c] = [on |-> click[c].on, at |-> "lost", kind |-> click[c].kind]
    <2>1. CASE click[c].at \in ClickSteps
        <3>1. click'[c] = [click[c] EXCEPT !.at = "lost"] /\ click[c] # NoClick
            BY <2>1, ClickParts DEF Crash, SubsInv
        <3> QED BY <3>1 DEF SubsInv, TypeOK, ClickRecords, Answers
    <2>2. CASE click[c].at \notin ClickSteps
        BY <2>2 DEF Crash, SubsInv, TypeOK
    <2> QED BY <2>1, <2>2
<1>3. TypeOK'
    BY <1>1, <1>2 DEF Crash, SubsInv, TypeOK, HasRow, Answers
<1>4. ASSUME NEW t \in Subs PROVE RowInv(t)'
    BY <1>1 DEF Crash, SubsInv, RowInv, SubSteps
<1>5. ASSUME NEW c \in Clicks PROVE ClickInv(c)'
    <2>1. ClickInv(c)
        BY DEF SubsInv
    <2>2. CASE click'[c] = click[c]
        BY <1>1, <2>1, <2>2, ClickStays
    <2>3. CASE /\ click[c] # NoClick
               /\ click'[c] = [on |-> click[c].on, at |-> "lost", kind |-> click[c].kind]
        BY <1>1, <2>1, <2>3 DEF ClickInv
    <2> QED BY <1>2, <2>2, <2>3
<1> QED BY <1>3, <1>4, <1>5 DEF SubsInv

\* Every call of every handler, and a crash, keep the invariant.
LEMMA NextKeepsSubs == SubsInv /\ [Next]_vars => SubsInv'
<1> SUFFICES ASSUME SubsInv, [Next]_vars PROVE SubsInv'
    OBVIOUS
<1>1. ASSUME NEW s \in Subs, Subscribe(s) PROVE SubsInv'
    BY <1>1, SubscribeKeeps
<1>2. ASSUME NEW c \in Clicks, NEW s \in Subs, Follow(c, s) PROVE SubsInv'
    BY <1>2, FollowKeeps
<1>3. ASSUME NEW c \in Clicks, ConfirmSubscription(c) \/ Unsubscribe(c) PROVE SubsInv'
    BY <1>3, ReadKeeps, UpdateKeeps, DropTokenKeeps, DeleteKeeps
       DEF ConfirmSubscription, Unsubscribe
<1>4. CASE Crash
    BY <1>4, CrashKeeps
<1>5. CASE UNCHANGED vars
    <2>1. TypeOK'
        BY <1>5 DEF vars, SubsInv, TypeOK, HasRow
    <2>2. ASSUME NEW t \in Subs PROVE RowInv(t)'
        BY <1>5 DEF vars, SubsInv, RowInv
    <2>3. ASSUME NEW c \in Clicks PROVE ClickInv(c)'
        BY <1>5 DEF vars, SubsInv, ClickInv
    <2> QED BY <2>1, <2>2, <2>3 DEF SubsInv
<1> QED BY <1>1, <1>2, <1>3, <1>4, <1>5 DEF Next
-----------------------------------------------------------------------------
(* Theorems.                                                               *)

\* The API never leaves the inductive invariant.
THEOREM SubsInvariant == Spec => []SubsInv
BY InitSubs, NextKeepsSubs, PTL DEF Spec

\* The tables, the stream and the requests keep their types, and no token
\* outlives its row.
THEOREM SubsTypeCorrect == Spec => []TypeOK
<1>1. SubsInv => TypeOK
    BY DEF SubsInv
<1> QED BY <1>1, SubsInvariant, PTL

\* A pending subscription never loses its confirmation token.
THEOREM PendingCanBeConfirmed == Spec => []PendingHasToken
<1>1. SubsInv => PendingHasToken
    BY DEF SubsInv, RowInv, PendingHasToken
<1> QED BY <1>1, SubsInvariant, PTL

-----------------------------------------------------------------------------
(* The refinement of Lifecycle.                                            *)

\* Creation, with the index that allows it.
LEMMA InsertRefines ==
    ASSUME SubsInv, NEW s \in Subs, Insert(s)
    PROVE  Life!Create(s) \/ UNCHANGED <<row, mailed>>
<1>1. row[s] = "absent"
    BY DEF Insert, SubsInv, RowInv
<1> QED BY <1>1
        DEF Insert, IndexAllows, PairTaken, HasRow, Live, Create,
            Life!Create, Life!PairTaken, Life!Live

\* The handlers that write rows or publish, each as one abstract step.
LEMMA StepRefines ==
    SubsInv /\ [Next]_vars => [Life!Next]_<<row, mailed>>
<1> SUFFICES ASSUME SubsInv, [Next]_vars
             PROVE  Life!Next \/ UNCHANGED <<row, mailed>>
    OBVIOUS
<1>1. ASSUME NEW s \in Subs, Request(s) \/ FindExisting(s) \/ Validate(s)
      PROVE  UNCHANGED <<row, mailed>>
    BY <1>1 DEF Request, FindExisting, Validate
<1>2. ASSUME NEW s \in Subs, Insert(s)
      PROVE  Life!Next \/ UNCHANGED <<row, mailed>>
    BY <1>2, InsertRefines DEF Life!Next
<1>3. ASSUME NEW s \in Subs, Publish(s)
      PROVE  Life!Next \/ UNCHANGED <<row, mailed>>
    <2>1. row[s] = "pending"
        BY <1>3 DEF Publish, SubsInv, RowInv
    <2>2. Life!Mail(s) \/ UNCHANGED <<row, mailed>>
        BY <1>3, <2>1 DEF Publish, Life!Mail
    <2> QED BY <2>2 DEF Life!Next
<1>4. ASSUME NEW c \in Clicks,
             (\E s \in Subs : Follow(c, s)) \/ FindToken(c) \/ DropToken(c) \/ FindRow(c)
      PROVE  UNCHANGED <<row, mailed>>
    BY <1>4 DEF Follow, FindToken, DropToken, FindRow
<1>5. ASSUME NEW c \in Clicks, Update(c)
      PROVE  Life!Next \/ UNCHANGED <<row, mailed>>
    <2> DEFINE s == click[c].on
    <2>1. s \in Subs /\ s \in mailed
        BY <1>5, ClickParts DEF Update, SubsInv, ClickInv, ClickSteps
    <2>2. Life!Confirm(s) \/ UNCHANGED <<row, mailed>>
        BY <1>5, <2>1 DEF Update, SetConfirmed, SubsInv, TypeOK, Life!Confirm
    <2> QED BY <2>1, <2>2 DEF Life!Next
<1>6. ASSUME NEW c \in Clicks, DeleteRow(c)
      PROVE  Life!Next \/ UNCHANGED <<row, mailed>>
    <2> DEFINE s == click[c].on
    <2>1. s \in Subs /\ s \in mailed
        BY <1>6, ClickParts DEF DeleteRow, SubsInv, ClickInv, ClickSteps
    <2>2. Life!Delete(s) \/ UNCHANGED <<row, mailed>>
        BY <1>6, <2>1 DEF DeleteRow, Delete, Live, SubsInv, TypeOK, Life!Delete, Life!Live
    <2> QED BY <2>1, <2>2 DEF Life!Next
<1>7. CASE Crash
    BY <1>7 DEF Crash
<1>8. CASE UNCHANGED vars
    BY <1>8 DEF vars
<1> QED BY <1>1, <1>2, <1>3, <1>4, <1>5, <1>6, <1>7, <1>8
        DEF Next, Subscribe, ConfirmSubscription, Unsubscribe

\* The API implements the abstract life cycle of a subscription.
THEOREM RefinesLifecycle == Spec => ImplementsLifecycle
<1>1. Init => Life!Init
    BY DEF Init, Life!Init
<1> QED BY <1>1, StepRefines, SubsInvariant, PTL DEF Spec, ImplementsLifecycle, Life!Spec

\* What the life cycle says of one subscription per pair and of the double
\* opt-in holds of the concurrent API with its failures and crashes.
THEOREM OneConfirmedByMail == Spec => [](Life!OnePerPair /\ Life!MailedFirst)
<1>1. Life!LifeInv => Life!OnePerPair /\ Life!MailedFirst
    BY DEF Life!LifeInv
<1> QED BY <1>1, RefinesLifecycle, Life!LifeInvariant, PTL DEF ImplementsLifecycle

\* No request, however late, brings a deleted subscription back.
THEOREM DeletedStaysDeleted ==
    ASSUME NEW s \in Subs
    PROVE  Spec => [](row[s] = "deleted" => [](row[s] = "deleted"))
BY RefinesLifecycle, Life!DeletedForGood, PTL DEF ImplementsLifecycle

-----------------------------------------------------------------------------
(* What a request was answered, under every interleaving and failure.      *)

RivalInv == \A s \in Subs : sub[s] = "409" => RivalWasFirst(s)

\* Rows only advance, so a rival stays one.
LEMMA RivalStays ==
    ASSUME SubsInv, [Next]_vars, NEW s \in Subs, RivalWasFirst(s)
    PROVE  RivalWasFirst(s)'
<1>1. ASSUME NEW t \in Subs, row[t] # "absent" PROVE row'[t] # "absent"
    BY <1>1, StepRefines
       DEF SubsInv, TypeOK, Life!Next, Life!Create, Life!Mail, Life!Confirm, Life!Delete
<1> QED BY <1>1 DEF RivalWasFirst

\* Only the lookup of an existing row answers 409, before a row of its own.
LEMMA RivalStep == SubsInv /\ RivalInv /\ [Next]_vars => RivalInv'
<1> SUFFICES ASSUME SubsInv, RivalInv, [Next]_vars, NEW s \in Subs, sub'[s] = "409"
             PROVE  RivalWasFirst(s)'
    BY DEF RivalInv
<1>1. CASE sub[s] = "409"
    BY <1>1, RivalStays DEF RivalInv
<1>2. CASE sub[s] # "409"
    <2>1. FindExisting(s)
        BY <1>2 DEF Next, Subscribe, Request, FindExisting, Validate, Insert, Publish, SubTo,
           Follow, ConfirmSubscription, FindToken, Update, DropToken, Unsubscribe, FindRow,
           DeleteRow, Crash, vars, SubsInv, TypeOK
    <2>2. row[s] = "absent" /\ PairTaken(s) /\ row' = row
        BY <1>2, <2>1 DEF FindExisting, SubTo, SubsInv, RowInv, TypeOK
    <2> QED BY <2>2 DEF PairTaken, HasRow, Live, RivalWasFirst
<1> QED BY <1>1, <1>2

\* An answer binds: no interleaving, failed call or crash takes back the row
\* behind a 200, leaves one behind a refusal, or gives a 409 to somebody whose
\* pair had no row before.  Of the e-mail a 200 announces it says nothing: that
\* is ResendNeededOnlyAfterFailure.
THEOREM AnswersBind == Spec => []AnswersAreFinal
<1>1. Init => RivalInv
    BY DEF Init, RivalInv
<1>2. SubsInv /\ RivalInv => AnswersAreFinal
    BY ClickParts DEF SubsInv, RivalInv, RowInv, ClickInv, AnswersAreFinal, NoClick
<1> QED BY <1>1, <1>2, RivalStep, SubsInvariant, PTL DEF Spec

-----------------------------------------------------------------------------
(* What the documents say, and what has to fail before it is not so.       *)

\* Without failed calls an error left no row, and an accepted request its e-mail.
CalmInv ==
    \A s \in Subs :
        /\ sub[s] \notin {"503", "lost"}
        /\ sub[s] = "500" => row[s] = "absent" /\ RivalWasFirst(s)
        /\ sub[s] = "200" => s \in mailed

\* Only the request's own insert makes its row.
LEMMA OnlyInsertCreates ==
    ASSUME SubsInv, [Next]_vars, NEW s \in Subs, row[s] = "absent", ~Insert(s)
    PROVE  row'[s] = "absent"
<1>1. row \in [Subs -> RowState]
    BY DEF SubsInv, TypeOK
<1>2. ASSUME NEW t \in Subs, Insert(t) PROVE row'[s] = "absent"
    BY <1>1, <1>2 DEF Insert, Create
<1>3. ASSUME NEW c \in Clicks, Update(c) \/ DeleteRow(c) PROVE row'[s] = "absent"
    BY <1>1, <1>3 DEF Update, SetConfirmed, DeleteRow, Delete, Live
<1>4. CASE UNCHANGED row
    BY <1>4
<1> QED BY <1>2, <1>3, <1>4
        DEF Next, Subscribe, Request, FindExisting, Validate, Publish, Follow,
            ConfirmSubscription, FindToken, DropToken, Unsubscribe, FindRow, Crash, vars

\* Without faults every step keeps it.
LEMMA CalmStep ==
    ASSUME ~Faults, SubsInv, CalmInv, [Next]_vars
    PROVE  CalmInv'
<1> SUFFICES ASSUME NEW s \in Subs
             PROVE  /\ sub'[s] \notin {"503", "lost"}
                    /\ sub'[s] = "500" => row'[s] = "absent" /\ RivalWasFirst(s)'
                    /\ sub'[s] = "200" => s \in mailed'
    BY DEF CalmInv
<1>1. CASE sub'[s] = sub[s]
    <2>1. mailed \subseteq mailed'
        BY DEF Next, Subscribe, Request, FindExisting, Validate, Insert, Publish, Follow,
           ConfirmSubscription, FindToken, Update, DropToken, Unsubscribe, FindRow, DeleteRow,
           Crash, vars
    <2>2. sub[s] = "500" => row'[s] = "absent"
        <3>1. sub[s] = "500" => row[s] = "absent" /\ s \notin mailed
            BY DEF CalmInv, SubsInv, RowInv
        <3>2. sub[s] = "500" => ~Insert(s)
            BY DEF Insert
        <3> QED BY <3>1, <3>2, OnlyInsertCreates
    <2> QED BY <1>1, <2>1, <2>2, RivalStays DEF CalmInv
<1>2. CASE sub'[s] # sub[s]
    <2>1. Subscribe(s)
        <3>1. ~Crash
            BY DEF Crash
        <3>2. ASSUME NEW t \in Subs \ {s}, Subscribe(t) PROVE sub'[s] = sub[s]
            BY <3>2 DEF Subscribe, Request, FindExisting, Validate, Insert, Publish, SubTo,
               SubsInv, TypeOK
        <3> QED BY <1>2, <3>1, <3>2 DEF Next, Follow, ConfirmSubscription, FindToken, Update,
                DropToken, Unsubscribe, FindRow, DeleteRow, vars
    <2>2. sub \in [Subs -> SubSteps \cup Answers \cup {"new"}]
        BY DEF SubsInv, TypeOK
    <2>3. CASE Request(s) \/ FindExisting(s) \/ Validate(s)
        BY <2>2, <2>3 DEF Request, FindExisting, Validate, SubTo
    <2>4. CASE Insert(s)
        <3>1. sub'[s] \in {"publish", "500"}
            BY <2>2, <2>4 DEF Insert, SubTo
        <3>2. ASSUME sub'[s] = "500" PROVE row'[s] = "absent" /\ RivalWasFirst(s)'
            <4>1. ~IndexAllows(s) /\ row' = row
                BY <2>2, <2>4, <3>2 DEF Insert, SubTo
            <4>2. row[s] = "absent"
                BY <2>4 DEF Insert, SubsInv, RowInv
            <4> QED BY <4>1, <4>2 DEF IndexAllows, PairTaken, HasRow, Live, RivalWasFirst
        <3> QED BY <3>1, <3>2
    <2>5. CASE Publish(s)
        BY <2>2, <2>5 DEF Publish, SubTo
    <2> QED BY <2>1, <2>3, <2>4, <2>5 DEF Subscribe
<1> QED BY <1>1, <1>2

\* The API never leaves it unless a call fails or the process crashes.
LEMMA CalmHolds == ASSUME ~Faults PROVE Spec => []CalmInv
<1>1. Init => CalmInv
    BY DEF Init, CalmInv
<1>2. SubsInv /\ CalmInv /\ [Next]_vars => CalmInv'
    BY CalmStep
<1> QED BY <1>1, <1>2, SubsInvariant, PTL DEF Spec

\* Without a failed call or a crash the 200 of a subscribe keeps its words,
\* "confirmation email sent" (handler.go:43): whoever is accepted has the e-mail,
\* so has every pending row whose request is over, and whoever is refused with
\* 409 has the first e-mail.  Only a failure makes a resend necessary.
THEOREM ResendNeededOnlyAfterFailure ==
    ASSUME ~Faults
    PROVE  Spec => []( /\ \A s \in Subs :
                            /\ sub[s] = "200" => s \in mailed
                            /\ row[s] = "pending" /\ sub[s] \in Answers => s \in mailed
                       /\ ConflictMeansMailed )
<1>1. SubsInv /\ CalmInv => /\ \A s \in Subs :
                                /\ sub[s] = "200" => s \in mailed
                                /\ row[s] = "pending" /\ sub[s] \in Answers => s \in mailed
                            /\ ConflictMeansMailed
    BY DEF SubsInv, RowInv, CalmInv, ConflictMeansMailed, Answers
<1> QED BY <1>1, CalmHolds, SubsInvariant, PTL

\* Without a failed call or a crash, the only internal error is the one that
\* should have been a 409, and it hides no row.
THEOREM InternalErrorMeansRival ==
    ASSUME ~Faults
    PROVE  Spec => [](\A s \in Subs :
                         sub[s] = "500" => row[s] = "absent" /\ RivalWasFirst(s))
<1>1. CalmInv => \A s \in Subs : sub[s] = "500" => row[s] = "absent" /\ RivalWasFirst(s)
    BY DEF CalmInv
<1> QED BY <1>1, CalmHolds, PTL
=============================================================================
