--------------------------- MODULE Subscriptions ---------------------------
(***************************************************************************)
(* The HTTP API of internal/app/api and internal/app/service over the      *)
(* tables subscriptions and confirmation_tokens.  Requests run             *)
(* concurrently, one step per call of a handler to Postgres, GitHub or     *)
(* NATS, and between two steps anything may happen, the crash of the       *)
(* process included.                                                       *)
(*                                                                         *)
(* A subscribe request creates at most one row, with two tokens of its     *)
(* own, so one name stands for the request, its row and its tokens.        *)
(***************************************************************************)
EXTENDS Naturals

CONSTANTS
    Subs,       \* the subscribe requests
    Pairs,      \* the (email, repo) pairs asked for
    PairOf,     \* PairOf[s] is what request s asks for
    Clicks,     \* the requests that follow a link of an e-mail
    Faults      \* may calls fail and the process crash?

ASSUME PairOfAssumption == PairOf \in [Subs -> Pairs]
ASSUME FaultsAssumption == Faults \in BOOLEAN

VARIABLES
    row,        \* Postgres: the row of s in subscriptions
    token,      \* Postgres: those with a row in confirmation_tokens
    mailed,     \* NATS: those whose confirmation command is in the stream
    sub,        \* where subscribe request s stands, or how it was answered
    click       \* the same for the link requests

vars == <<row, token, mailed, sub, click>>

Live     == {"pending", "confirmed"}
RowState == Live \cup {"absent", "deleted"}

\* "lost": the process crashed before it could answer.
Answers    == {"200", "400", "404", "409", "500", "503", "lost"}
SubSteps   == {"find", "validate", "insert", "publish"}
ClickSteps == {"findToken", "update", "dropToken", "findRow", "delete"}

NoClick == [on |-> "nothing", at |-> "new", kind |-> "none"]

-----------------------------------------------------------------------------
(* The tables.                                                             *)

HasRow(s) == row[s] \in Live

\* FindSubscriptionByEmailAndRepo, and the unique index on (email, repo).
PairTaken(s) == \E t \in Subs : PairOf[t] = PairOf[s] /\ HasRow(t)

IndexAllows_NoIndex(s) == TRUE
IndexAllows(s)         == ~PairTaken(s)

\* CreateSubscriptionWithToken: both rows in one transaction.
Create_TwoCommits(s) ==
    /\ row' = [row EXCEPT ![s] = "pending"]
    /\ token' \in {token, token \cup {s}}

Create(s) ==
    /\ row' = [row EXCEPT ![s] = "pending"]
    /\ token' = token \cup {s}

\* UPDATE ... SET confirmed = true WHERE id = ..., which may find no row.
SetConfirmed(s) ==
    row' = [row EXCEPT ![s] = IF @ = "pending" THEN "confirmed" ELSE @]

\* DELETE, with the tokens by ON DELETE CASCADE.
Delete_NoCascade(s) ==
    /\ row' = [row EXCEPT ![s] = IF @ \in Live THEN "deleted" ELSE @]
    /\ UNCHANGED token

Delete(s) ==
    /\ row' = [row EXCEPT ![s] = IF @ \in Live THEN "deleted" ELSE @]
    /\ token' = token \ {s}

-----------------------------------------------------------------------------
Init ==
    /\ row = [s \in Subs |-> "absent"]
    /\ token = {}
    /\ mailed = {}
    /\ sub = [s \in Subs |-> "new"]
    /\ click = [c \in Clicks |-> NoClick]

-----------------------------------------------------------------------------
(* POST /api/subscribe.                                                    *)

SubTo(s, x) == sub' = [sub EXCEPT ![s] = x]

\* Binding and the format of the repository are checked before anything else.
Request(s) ==
    /\ sub[s] = "new"
    /\ SubTo(s, "find") \/ SubTo(s, "400")
    /\ UNCHANGED <<row, token, mailed, click>>

FindExisting(s) ==
    /\ sub[s] = "find"
    /\ \/ SubTo(s, IF PairTaken(s) THEN "409" ELSE "validate")
       \/ Faults /\ SubTo(s, "500")
    /\ UNCHANGED <<row, token, mailed, click>>

\* GitHub knows the repository, or not, or does not say.
Validate(s) ==
    /\ sub[s] = "validate"
    /\ \/ SubTo(s, "insert") \/ SubTo(s, "404")
       \/ Faults /\ (SubTo(s, "503") \/ SubTo(s, "500"))
    /\ UNCHANGED <<row, token, mailed, click>>

\* A violation of the unique index is an unmapped error, as any other is; an
\* error may also come back after the commit.
Insert(s) ==
    /\ sub[s] = "insert"
    /\ \/ IndexAllows(s) /\ Create(s) /\ SubTo(s, "publish")
       \/ IndexAllows(s) /\ Faults /\ Create(s) /\ SubTo(s, "500")
       \/ (~IndexAllows(s) \/ Faults) /\ SubTo(s, "500") /\ UNCHANGED <<row, token>>
    /\ UNCHANGED <<mailed, click>>

\* SendConfirmation.  Its failure is logged and the request succeeds.
Publish(s) ==
    /\ sub[s] = "publish"
    /\ SubTo(s, "200")
    /\ \/ mailed' = mailed \cup {s}
       \/ Faults /\ UNCHANGED mailed
    /\ UNCHANGED <<row, token, click>>

-----------------------------------------------------------------------------
(* GET /api/confirm/:token, GET and POST /api/unsubscribe/:token.  Nobody   *)
(* knows the tokens of a subscription before its e-mail is on its way.     *)

ClickTo(c, x) == click' = [click EXCEPT ![c].at = x]

Follow(c, s) ==
    /\ click[c] = NoClick
    /\ s \in mailed
    /\ \/ click' = [click EXCEPT ![c] = [on |-> s, at |-> "findToken", kind |-> "confirm"]]
       \/ click' = [click EXCEPT ![c] = [on |-> s, at |-> "findRow", kind |-> "unsubscribe"]]
    /\ UNCHANGED <<row, token, mailed, sub>>

FindToken(c) ==
    /\ click[c].at = "findToken"
    /\ \/ ClickTo(c, IF click[c].on \in token THEN "update" ELSE "404")
       \/ Faults /\ ClickTo(c, "500")
    /\ UNCHANGED <<row, token, mailed, sub>>

AfterFailedUpdate_Logged == "dropToken"
AfterFailedUpdate        == "500"

\* ConfirmSubscription of the repository, by the id read before.
Update(c) ==
    /\ click[c].at = "update"
    /\ \/ SetConfirmed(click[c].on) /\ ClickTo(c, "dropToken")
       \/ /\ Faults
          /\ SetConfirmed(click[c].on) \/ UNCHANGED row
          /\ ClickTo(c, AfterFailedUpdate)
    /\ UNCHANGED <<token, mailed, sub>>

\* DeleteToken.  Its failure is logged and the request succeeds.
DropToken(c) ==
    /\ click[c].at = "dropToken"
    /\ ClickTo(c, "200")
    /\ \/ token' = token \ {click[c].on}
       \/ Faults /\ UNCHANGED token
    /\ UNCHANGED <<row, mailed, sub>>

FindRow(c) ==
    /\ click[c].at = "findRow"
    /\ \/ ClickTo(c, IF HasRow(click[c].on) THEN "delete" ELSE "404")
       \/ Faults /\ ClickTo(c, "500")
    /\ UNCHANGED <<row, token, mailed, sub>>

DeleteRow(c) ==
    /\ click[c].at = "delete"
    /\ \/ Delete(click[c].on) /\ ClickTo(c, "200")
       \/ Faults /\ (Delete(click[c].on) \/ UNCHANGED <<row, token>>) /\ ClickTo(c, "500")
    /\ UNCHANGED <<mailed, sub>>

-----------------------------------------------------------------------------
\* The process ends under its requests; the tables and the stream remain.
Crash ==
    /\ Faults
    /\ sub' = [s \in Subs |-> IF sub[s] \in SubSteps THEN "lost" ELSE sub[s]]
    /\ click' = [c \in Clicks |-> IF click[c].at \in ClickSteps
                                    THEN [click[c] EXCEPT !.at = "lost"] ELSE click[c]]
    /\ UNCHANGED <<row, token, mailed>>

Subscribe(s) ==
    Request(s) \/ FindExisting(s) \/ Validate(s) \/ Insert(s) \/ Publish(s)

ConfirmSubscription(c) == FindToken(c) \/ Update(c) \/ DropToken(c)

Unsubscribe(c) == FindRow(c) \/ DeleteRow(c)

Next ==
    \/ \E s \in Subs : Subscribe(s)
    \/ \E c \in Clicks, s \in Subs : Follow(c, s)
    \/ \E c \in Clicks : ConfirmSubscription(c) \/ Unsubscribe(c)
    \/ Crash

Spec == Init /\ [][Next]_vars

-----------------------------------------------------------------------------
(* Properties.                                                             *)

ClickRecords ==
    {NoClick}
      \cup [on : Subs, at : {"findToken", "update", "dropToken"} \cup Answers, kind : {"confirm"}]
      \cup [on : Subs, at : {"findRow", "delete"} \cup Answers, kind : {"unsubscribe"}]

\* Every variable has a value the program can give it; a token refers to a row
\* that is there, as its foreign key says.
TypeOK ==
    /\ row \in [Subs -> RowState]
    /\ token \subseteq {s \in Subs : HasRow(s)}
    /\ mailed \subseteq Subs
    /\ sub \in [Subs -> SubSteps \cup Answers \cup {"new"}]
    /\ click \in [Clicks -> ClickRecords]

\* A subscription that is not confirmed yet can still be confirmed: its token
\* is there, whatever failed between the steps of whichever request.
PendingHasToken == \A s \in Subs : row[s] = "pending" => s \in token

\* Another request for the pair of s has committed its row before.
RivalWasFirst(s) == \E t \in Subs \ {s} : PairOf[t] = PairOf[s] /\ row[t] # "absent"

\* What a request was answered binds whatever runs with it and after it: one
\* accepted has committed its row, and one refused has none; one told that it is
\* subscribed already came after another row of its pair; a link to confirm that
\* was accepted, or is no longer known, leaves nothing to confirm; a link to
\* unsubscribe that was, leaves no row for good.  This is about the rows: that
\* the e-mail was sent, as the 200 of a subscribe says, is ConflictMeansMailed,
\* and the row an accepted confirmation was for may have been deleted before it.
AnswersAreFinal ==
    /\ \A s \in Subs :
         /\ sub[s] = "200" => row[s] # "absent"
         /\ sub[s] \in {"400", "404", "409", "503"} => row[s] = "absent"
         /\ sub[s] = "409" => RivalWasFirst(s)
    /\ \A c \in Clicks :
         click[c].at \in {"200", "404"} =>
            IF click[c].kind = "confirm" THEN row[click[c].on] \in {"confirmed", "deleted"}
                                         ELSE row[click[c].on] = "deleted"

\* Whatever requests overlap, fail or are cut off by a crash, the table and the
\* stream go through the life cycle of Lifecycle: one subscription per pair at
\* a time, no e-mail for a row that was not committed, nobody confirmed who was
\* not mailed, and nothing deleted comes back.
Life == INSTANCE Lifecycle
          WITH Subs <- Subs, PairOf <- PairOf, row <- row, mailed <- mailed

ImplementsLifecycle == Life!Spec

-----------------------------------------------------------------------------
(* What the repository says of the API and the code does not keep.         *)

\* swagger.yaml:40-41 and README.md:124-125: a duplicate is answered with 409.
\* Without faults nothing else could be an internal error.
DuplicateIsConflict == \A s \in Subs : sub[s] # "500"

\* handler.go:43 and swagger.yaml:35: the 200 of a subscribe says "confirmation
\* email sent"; docs/system-design.md:157: when it could not be sent, "the row
\* exists, the user can request a resend".  So one who was accepted and has no
\* e-mail can at least ask again: whoever is refused with 409 has it.
ConflictMeansMailed ==
    \A s, t \in Subs :
        (sub[s] = "409" /\ PairOf[t] = PairOf[s] /\ row[t] = "pending" /\ sub[t] = "200")
          => t \in mailed
=============================================================================
