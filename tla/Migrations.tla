----------------------------- MODULE Migrations -----------------------------
(***************************************************************************)
(* The up migrations of internal/app/db/migrations on the two tables they  *)
(* change, and the bookkeeping of golang-migrate, which is external: before*)
(* a file runs its version is recorded as dirty, after it as clean, and no *)
(* file runs on a dirty version.  Postgres runs one file as one            *)
(* transaction.                                                            *)
(*                                                                         *)
(* A tag is a number, in the order the releases came out; Rank is the order*)
(* of the strings, by which Postgres compares them.                        *)
(***************************************************************************)
EXTENDS Integers

CONSTANTS
    Rows,       \* the ids a subscription may have
    Emails,     \* the e-mail addresses
    Repos,      \* the repositories
    MaxTag,     \* bound: tags a subscriber may have seen
    Rank        \* Rank[t] is the place of tag t among the strings

Unseen == 0     \* the empty last_seen_tag of a subscription never scanned
NoRow  == -1
Tags   == 0 .. MaxTag
Last   == 4     \* the newest migration

ASSUME MaxTagAssumption == MaxTag \in Nat
ASSUME RankAssumption   == Rank \in [Tags -> Nat]

VARIABLES
    version,    \* schema_migrations: the version, and whether it is dirty
    dirty,
    table,      \* table[i] is the subscription with id i, for those there are
    cursor,     \* watched_repos, once there is such a table
    before      \* history: the subscriptions the first process found

schema == <<version, dirty>>
data   == <<table, cursor>>

\* gone says that deleted_at is set.
Records == [email : Emails, repo : Repos, confirmed : BOOLEAN, gone : BOOLEAN, tag : Tags]
Tables  == UNION {[ids -> Records] : ids \in SUBSET Rows}

SamePair(a, b) == a.email = b.email /\ a.repo = b.repo

\* idx_email_repo_live: one subscription per pair that is not deleted.
LiveIndex(t) ==
    \A i, j \in DOMAIN t :
        SamePair(t[i], t[j]) /\ ~t[i].gone /\ ~t[j].gone => i = j

\* idx_subscriptions_email_repo: one per pair.
PlainIndex_Repo(t) == \A i, j \in DOMAIN t : t[i].repo = t[j].repo => i = j
PlainIndex(t)      == \A i, j \in DOMAIN t : SamePair(t[i], t[j]) => i = j

-----------------------------------------------------------------------------
\* A fresh database has no subscriptions, one provisioned by AutoMigrate any
\* that its partial index allows.
MigrationsInit ==
    /\ version = 0
    /\ dirty = FALSE
    /\ table \in {t \in Tables : LiveIndex(t)}
    /\ cursor = [r \in Repos |-> NoRow]
    /\ before = table

\* Up stops at a dirty version, and marks the next one before it runs.
MarkDirty ==
    /\ ~dirty /\ version < Last
    /\ version' = version + 1
    /\ dirty' = TRUE
    /\ UNCHANGED <<data, before>>

MarkClean ==
    /\ dirty' = FALSE
    /\ UNCHANGED <<version, data, before>>

\* 0001: the tables are there, or empty.
CreateTables ==
    /\ version = 1
    /\ UNCHANGED <<schema, data, before>>

\* 0002: without deleted_at, a subscription that had it set is like any other.
\* Confirmation tokens lose theirs too, and one that was used can be found again;
\* its link confirms a row that is confirmed, as after a failed DropToken of
\* Subscriptions, and no tokens are kept here.
Undelete(t) == [i \in DOMAIN t |-> [t[i] EXCEPT !.gone = FALSE]]

DropSoftDelete ==
    /\ version = 2
    /\ PlainIndex(table)
    /\ table' = Undelete(table)
    /\ UNCHANGED <<schema, cursor, before>>

\* Its unique index cannot be built.
MigrationFails == version = 2 /\ ~PlainIndex(table)

\* 0003: MAX(last_seen_tag) over the confirmed subscriptions of a repository.
Confirmed(r) == {i \in DOMAIN table : table[i].confirmed /\ table[i].repo = r}

Furthest(t, r) ==
    /\ \E i \in Confirmed(r) : t = table[i].tag
    /\ \A i \in Confirmed(r) : Rank[table[i].tag] <= Rank[t]

AddWatchedRepos ==
    /\ version = 3
    /\ cursor' \in [Repos -> Tags \cup {NoRow}]
    /\ \A r \in Repos :
         IF Confirmed(r) = {} THEN cursor'[r] = NoRow
                              ELSE cursor'[r] # NoRow /\ Furthest(cursor'[r], r)
    /\ UNCHANGED <<schema, table, before>>

\* 0004: nobody reads the tag of a subscription any more.
DropLastSeenTag ==
    /\ version = 4
    /\ table' = [i \in DOMAIN table |-> [table[i] EXCEPT !.tag = Unseen]]
    /\ UNCHANGED <<schema, cursor, before>>

RunFile == CreateTables \/ DropSoftDelete \/ AddWatchedRepos \/ DropLastSeenTag
=============================================================================
