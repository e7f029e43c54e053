--------------------------- MODULE StartupProofs ---------------------------
(***************************************************************************)
(* Proofs about Startup, for every table a database may hold, every set of *)
(* intervals and every order of the strings.  IndInv is inductive: it ties *)
(* the tables to the version the migrations recorded.                      *)
(***************************************************************************)
EXTENDS Startup, TLAPS

\* The file of version n has been committed, for sure.
Applied(n) == version > n \/ (version = n /\ (~dirty \/ app = "clean"))

\* An app migrates on a dirty version, and gets past it on the newest.
PhaseInv ==
    /\ app \in Migrating => dirty
    /\ app \in Booting \cup {"serving"} => version = Last /\ ~dirty

\* No migration adds, removes, moves or confirms a subscription, and only the
\* last touches the tags.
KeptInv ==
    /\ DOMAIN table = DOMAIN before
    /\ \A i \in DOMAIN before :
         /\ SamePair(table[i], before[i])
         /\ table[i].confirmed = before[i].confirmed
         /\ version <= 3 => table[i].tag = before[i].tag

\* From the second file on there is one subscription per pair.
IndexInv == Applied(2) => PlainIndex(table)

\* What the third file leaves in the cursor.
BackfillInv ==
    Applied(3) => \A i \in DOMAIN before :
                     before[i].confirmed => CursorWasSeen(before[i].repo)

WindowInv == app = "serving" => window = DedupWindow(interval)

IndInv ==
    TypeOK /\ PhaseInv /\ KeptInv /\ IndexInv /\ BackfillInv /\ DirtyHasCause /\ WindowInv

-----------------------------------------------------------------------------
(* Lemmas about the tables.                                                *)

\* A function on the ids of a table whose values are subscriptions is a table.
LEMMA TableRewritten ==
    ASSUME NEW t \in Tables, NEW u,
           u = [i \in DOMAIN t |-> u[i]],
           \A i \in DOMAIN t : u[i] \in Records
    PROVE  u \in Tables
<1>1. PICK ids \in SUBSET Rows : t \in [ids -> Records]
  BY DEF Tables
<1>2. u \in [ids -> Records]
  BY <1>1
<1> QED
  BY <1>2 DEF Tables

\* A subscription in a table is a record.
LEMMA TableEntries ==
    ASSUME NEW t \in Tables, NEW i \in DOMAIN t
    PROVE  t[i] \in Records
<1>1. PICK ids \in SUBSET Rows : t \in [ids -> Records]
  BY DEF Tables
<1> QED
  BY <1>1

\* Undelete clears deleted_at and nothing else.
LEMMA UndeleteKeeps ==
    ASSUME NEW t \in Tables
    PROVE  /\ Undelete(t) \in Tables
           /\ DOMAIN Undelete(t) = DOMAIN t
           /\ \A i \in DOMAIN t :
                /\ SamePair(Undelete(t)[i], t[i])
                /\ Undelete(t)[i].confirmed = t[i].confirmed
                /\ Undelete(t)[i].tag = t[i].tag
<1> DEFINE u == Undelete(t)
<1>1. u = [i \in DOMAIN t |-> [t[i] EXCEPT !.gone = FALSE]]
  BY DEF Undelete
<1>2. ASSUME NEW i \in DOMAIN t
      PROVE  /\ u[i] \in Records
             /\ SamePair(u[i], t[i])
             /\ u[i].confirmed = t[i].confirmed
             /\ u[i].tag = t[i].tag
  <2>1. t[i] \in Records
    BY TableEntries
  <2>2. u[i] = [t[i] EXCEPT !.gone = FALSE]
    BY <1>1
  <2> QED
    BY <2>1, <2>2 DEF Records, SamePair
<1>3. DOMAIN u = DOMAIN t /\ u = [i \in DOMAIN t |-> u[i]]
  BY <1>1
<1> HIDE DEF u
<1>4. u \in Tables
  BY <1>2, <1>3, TableRewritten
<1> QED
  BY <1>2, <1>3, <1>4 DEF u

\* Without the tags, the pairs and the confirmations are what they were.
LEMMA DropTagKeeps ==
    ASSUME NEW t \in Tables, NEW u,
           u = [i \in DOMAIN t |-> [t[i] EXCEPT !.tag = Unseen]]
    PROVE  /\ u \in Tables
           /\ DOMAIN u = DOMAIN t
           /\ \A i \in DOMAIN t :
                SamePair(u[i], t[i]) /\ u[i].confirmed = t[i].confirmed
<1>0. Unseen \in Tags
  BY MaxTagAssumption DEF Unseen, Tags
<1>1. ASSUME NEW i \in DOMAIN t
      PROVE  u[i] \in Records /\ SamePair(u[i], t[i]) /\ u[i].confirmed = t[i].confirmed
  <2>1. t[i] \in Records
    BY TableEntries
  <2> QED
    BY <1>0, <2>1 DEF Records, SamePair
<1>2. DOMAIN u = DOMAIN t /\ u = [i \in DOMAIN t |-> u[i]]
  OBVIOUS
<1>3. u \in Tables
  BY <1>1, <1>2, TableRewritten
<1> QED
  BY <1>1, <1>2, <1>3

\* Where every pair is what it was, one per pair stays one per pair.
LEMMA IndexKept ==
    ASSUME NEW t, NEW u, DOMAIN u = DOMAIN t,
           \A i \in DOMAIN t : SamePair(u[i], t[i])
    PROVE  PlainIndex(u) <=> PlainIndex(t)
  BY DEF PlainIndex, SamePair

\* What the second file does to a table.
LEMMA SoftDeleteDropped ==
    ASSUME table \in Tables, DropSoftDelete
    PROVE  /\ table' \in Tables
           /\ DOMAIN table' = DOMAIN table
           /\ \A i \in DOMAIN table :
                /\ SamePair(table'[i], table[i])
                /\ table'[i].confirmed = table[i].confirmed
                /\ table'[i].tag = table[i].tag
<1>1. table' = Undelete(table)
  BY DEF DropSoftDelete
<1> QED
  BY <1>1, UndeleteKeeps

\* What the last file does to a table.
LEMMA TagDropped ==
    ASSUME table \in Tables, DropLastSeenTag
    PROVE  /\ table' \in Tables
           /\ DOMAIN table' = DOMAIN table
           /\ \A i \in DOMAIN table :
                SamePair(table'[i], table[i]) /\ table'[i].confirmed = table[i].confirmed
<1>1. table' = [i \in DOMAIN table |-> [table[i] EXCEPT !.tag = Unseen]]
  BY DEF DropLastSeenTag
<1> QED
  BY <1>1, DropTagKeeps

-----------------------------------------------------------------------------
(* The inductive invariant.                                                *)

LEMMA InitHolds == Init => IndInv
<1> SUFFICES ASSUME Init PROVE IndInv
  OBVIOUS
<1>1. version = 0 /\ dirty = FALSE /\ app = "down"
  BY DEF Init, MigrationsInit
<1>2. TypeOK
  <2>1. /\ table \in Tables /\ before \in Tables
        /\ cursor \in [Repos -> Tags \cup {NoRow}]
    BY DEF Init, MigrationsInit
  <2>2. version \in 0 .. Last /\ app \in AppSteps
    BY <1>1 DEF Last, AppSteps
  <2>3. dirty \in BOOLEAN
    BY <1>1
  <2>4. interval \in Valid /\ notifier \in NotifierSteps /\ window \in Nat \cup {NoStream}
    BY DEF Init, NotifierSteps
  <2>5. /\ dlq \in BOOLEAN /\ consumer \in BOOLEAN
        /\ cutOff \in BOOLEAN /\ stable \in BOOLEAN
    BY Zenon DEF Init
  <2> QED
    BY <2>1, <2>2, <2>3, <2>4, <2>5 DEF TypeOK
<1>3. PhaseInv /\ WindowInv /\ DirtyHasCause
  BY <1>1 DEF PhaseInv, WindowInv, DirtyHasCause, Migrating, Booting
<1>4. KeptInv
  BY DEF Init, MigrationsInit, KeptInv, SamePair
<1>5. IndexInv /\ BackfillInv
  BY <1>1 DEF IndexInv, BackfillInv, Applied
<1> QED
  BY <1>2, <1>3, <1>4, <1>5 DEF IndInv

\* Every step keeps the types.
LEMMA TypeStep == IndInv /\ [Next]_vars => TypeOK'
<1> SUFFICES ASSUME IndInv, [Next]_vars PROVE TypeOK'
  OBVIOUS
<1> USE DEF IndInv, schema, data, nats, AppTo, NotifierTo
<1>1. CASE AppStarts
  BY <1>1 DEF AppStarts, TypeOK, AppSteps, NotifierSteps, Migrating, Booting
<1>2. CASE ConnectDatabase
  BY <1>2 DEF ConnectDatabase, TypeOK, AppSteps, NotifierSteps, Migrating, Booting
<1>3. CASE NextFile
  BY <1>3 DEF NextFile, MarkDirty, TypeOK, AppSteps, Migrating, Last
<1>4. CASE ApplyFile
  <2>1. table' \in Tables
    <3>1. CASE DropSoftDelete
      BY <3>1, SoftDeleteDropped DEF TypeOK
    <3>2. CASE DropLastSeenTag
      BY <3>2, TagDropped DEF TypeOK
    <3> QED
      BY <1>4, <3>1, <3>2 DEF ApplyFile, RunFile, CreateTables, AddWatchedRepos, TypeOK
  <2>2. /\ cursor' \in [Repos -> Tags \cup {NoRow}]
        /\ UNCHANGED <<schema, before>>
    BY <1>4 DEF ApplyFile, RunFile, CreateTables, DropSoftDelete, AddWatchedRepos, DropLastSeenTag, TypeOK
  <2> QED
    BY <1>4, <2>1, <2>2 DEF ApplyFile, TypeOK, AppSteps, Migrating
<1>5. CASE FileApplied
  BY <1>5 DEF FileApplied, MarkClean, TypeOK, AppSteps, NotifierSteps, Migrating, Booting
<1>6. CASE UpFails
  BY <1>6 DEF UpFails, AfterFailedUp, TypeOK, AppSteps
<1>7. CASE UpToDate
  BY <1>7 DEF UpToDate, TypeOK, AppSteps, NotifierSteps, Migrating, Booting
<1>8. CASE AppConnects
  BY <1>8 DEF AppConnects, TypeOK, AppSteps, NotifierSteps, Migrating, Booting
<1>9. CASE AppEnsuresStream
  BY <1>9 DEF AppEnsuresStream, CreateNotifications, ServerWindow, TypeOK, AppSteps, Booting
<1>10. CASE AppEnsuresDLQ
  BY <1>10 DEF AppEnsuresDLQ, CreateDLQ, TypeOK, AppSteps, Booting
<1>11. CASE SetDedupWindow
  <2>1. interval \in Nat
    BY IntervalsAssumption DEF TypeOK, Valid
  <2>2. DedupWindow(interval) \in Nat
    BY <2>1 DEF DedupWindow, ServerWindow
  <2> QED
    BY <1>11, <2>2 DEF SetDedupWindow, TypeOK, AppSteps
<1>12. CASE AppEnds
  BY <1>12 DEF AppEnds, TypeOK, AppSteps, NotifierSteps, Migrating, Booting
<1>13. CASE NotifierStarts
  BY <1>13 DEF NotifierStarts, TypeOK, AppSteps, NotifierSteps, Migrating, Booting
<1>14. CASE NotifierConnects
  BY <1>14 DEF NotifierConnects, TypeOK, AppSteps, NotifierSteps, Migrating, Booting
<1>15. CASE NotifierEnsuresStream
  BY <1>15 DEF NotifierEnsuresStream, CreateNotifications, ServerWindow, TypeOK, NotifierSteps
<1>16. CASE NotifierEnsuresDLQ
  BY <1>16 DEF NotifierEnsuresDLQ, CreateDLQ, TypeOK, NotifierSteps
<1>17. CASE NotifierSubscribes
  BY <1>17 DEF NotifierSubscribes, TypeOK, AppSteps, NotifierSteps, Migrating, Booting
<1>18. CASE NotifierEnds
  BY <1>18 DEF NotifierEnds, TypeOK, AppSteps, NotifierSteps, Migrating, Booting
<1>19. CASE Stabilise
  BY <1>19 DEF Stabilise, TypeOK, AppSteps, NotifierSteps, Migrating, Booting
<1>20. CASE UNCHANGED vars
  BY <1>20 DEF vars, TypeOK, AppSteps, NotifierSteps, Migrating, Booting
<1> QED
  BY <1>1, <1>2, <1>3, <1>4, <1>5, <1>6, <1>7, <1>8, <1>9, <1>10,
     <1>11, <1>12, <1>13, <1>14, <1>15, <1>16, <1>17, <1>18, <1>19, <1>20
     DEF Next, AppRuns, NotifierRuns

\* Every step keeps the app in phase with the schema.
LEMMA PhaseStep == IndInv /\ [Next]_vars => PhaseInv'
<1> SUFFICES ASSUME IndInv, [Next]_vars PROVE PhaseInv'
  OBVIOUS
<1> USE DEF IndInv, schema, data, nats, AppTo, NotifierTo
<1>1. CASE AppStarts
  BY <1>1 DEF AppStarts, PhaseInv, Migrating, Booting
<1>2. CASE ConnectDatabase
  BY <1>2 DEF ConnectDatabase, PhaseInv, Migrating, Booting
<1>3. CASE NextFile
  BY <1>3 DEF NextFile, MarkDirty, PhaseInv, Migrating, Booting
<1>4. CASE ApplyFile
  BY <1>4 DEF ApplyFile, RunFile, CreateTables, DropSoftDelete, AddWatchedRepos,
            DropLastSeenTag, PhaseInv, Migrating, Booting
<1>5. CASE FileApplied
  BY <1>5 DEF FileApplied, MarkClean, PhaseInv, Migrating, Booting
<1>6. CASE UpFails
  BY <1>6 DEF UpFails, AfterFailedUp, PhaseInv, Migrating, Booting
<1>7. CASE UpToDate
  BY <1>7 DEF UpToDate, PhaseInv, Migrating, Booting
<1>8. CASE AppConnects
  BY <1>8 DEF AppConnects, PhaseInv, Migrating, Booting
<1>9. CASE AppEnsuresStream
  BY <1>9 DEF AppEnsuresStream, PhaseInv, Migrating, Booting
<1>10. CASE AppEnsuresDLQ
  BY <1>10 DEF AppEnsuresDLQ, PhaseInv, Migrating, Booting
<1>11. CASE SetDedupWindow
  BY <1>11 DEF SetDedupWindow, PhaseInv, Migrating, Booting
<1>12. CASE AppEnds
  BY <1>12 DEF AppEnds, PhaseInv, Migrating, Booting
<1>13. CASE NotifierStarts
  BY <1>13 DEF NotifierStarts, PhaseInv, Migrating, Booting
<1>14. CASE NotifierConnects
  BY <1>14 DEF NotifierConnects, PhaseInv, Migrating, Booting
<1>15. CASE NotifierEnsuresStream
  BY <1>15 DEF NotifierEnsuresStream, PhaseInv, Migrating, Booting
<1>16. CASE NotifierEnsuresDLQ
  BY <1>16 DEF NotifierEnsuresDLQ, PhaseInv, Migrating, Booting
<1>17. CASE NotifierSubscribes
  BY <1>17 DEF NotifierSubscribes, PhaseInv, Migrating, Booting
<1>18. CASE NotifierEnds
  BY <1>18 DEF NotifierEnds, PhaseInv, Migrating, Booting
<1>19. CASE Stabilise
  BY <1>19 DEF Stabilise, PhaseInv, Migrating, Booting
<1>20. CASE UNCHANGED vars
  BY <1>20 DEF vars, PhaseInv, Migrating, Booting
<1> QED
  BY <1>1, <1>2, <1>3, <1>4, <1>5, <1>6, <1>7, <1>8, <1>9, <1>10,
     <1>11, <1>12, <1>13, <1>14, <1>15, <1>16, <1>17, <1>18, <1>19, <1>20
     DEF Next, AppRuns, NotifierRuns

\* Every step keeps the subscriptions.
LEMMA KeptStep == IndInv /\ [Next]_vars => KeptInv'
<1> SUFFICES ASSUME IndInv, [Next]_vars PROVE KeptInv'
  OBVIOUS
<1> USE DEF IndInv, schema, data, nats, AppTo, NotifierTo
<1>1. CASE AppStarts
  BY <1>1 DEF AppStarts, KeptInv
<1>2. CASE ConnectDatabase
  BY <1>2 DEF ConnectDatabase, KeptInv
<1>3. CASE NextFile
  BY <1>3 DEF NextFile, MarkDirty, KeptInv, TypeOK
<1>4. CASE ApplyFile
  <2> USE DEF KeptInv
  <2>1. CASE CreateTables \/ AddWatchedRepos
    BY <2>1 DEF CreateTables, AddWatchedRepos
  <2>2. CASE DropSoftDelete
    <3>1. /\ DOMAIN table' = DOMAIN table
          /\ \A i \in DOMAIN table :
               /\ SamePair(table'[i], table[i])
               /\ table'[i].confirmed = table[i].confirmed
               /\ table'[i].tag = table[i].tag
      BY <2>2, SoftDeleteDropped DEF TypeOK
    <3> QED
      BY <2>2, <3>1 DEF DropSoftDelete, SamePair
  <2>3. CASE DropLastSeenTag
    <3>1. /\ DOMAIN table' = DOMAIN table
          /\ \A i \in DOMAIN table :
               SamePair(table'[i], table[i]) /\ table'[i].confirmed = table[i].confirmed
      BY <2>3, TagDropped DEF TypeOK
    <3>2. version' = 4 /\ before' = before
      BY <2>3 DEF DropLastSeenTag
    <3> QED
      BY <3>1, <3>2 DEF SamePair
  <2> QED
    BY <1>4, <2>1, <2>2, <2>3 DEF ApplyFile, RunFile
<1>5. CASE FileApplied
  BY <1>5 DEF FileApplied, MarkClean, KeptInv
<1>6. CASE UpFails
  BY <1>6 DEF UpFails, KeptInv
<1>7. CASE UpToDate
  BY <1>7 DEF UpToDate, KeptInv
<1>8. CASE AppConnects
  BY <1>8 DEF AppConnects, KeptInv
<1>9. CASE AppEnsuresStream
  BY <1>9 DEF AppEnsuresStream, KeptInv
<1>10. CASE AppEnsuresDLQ
  BY <1>10 DEF AppEnsuresDLQ, KeptInv
<1>11. CASE SetDedupWindow
  BY <1>11 DEF SetDedupWindow, KeptInv
<1>12. CASE AppEnds
  BY <1>12 DEF AppEnds, KeptInv
<1>13. CASE NotifierStarts
  BY <1>13 DEF NotifierStarts, KeptInv
<1>14. CASE NotifierConnects
  BY <1>14 DEF NotifierConnects, KeptInv
<1>15. CASE NotifierEnsuresStream
  BY <1>15 DEF NotifierEnsuresStream, KeptInv
<1>16. CASE NotifierEnsuresDLQ
  BY <1>16 DEF NotifierEnsuresDLQ, KeptInv
<1>17. CASE NotifierSubscribes
  BY <1>17 DEF NotifierSubscribes, KeptInv
<1>18. CASE NotifierEnds
  BY <1>18 DEF NotifierEnds, KeptInv
<1>19. CASE Stabilise
  BY <1>19 DEF Stabilise, KeptInv
<1>20. CASE UNCHANGED vars
  BY <1>20 DEF vars, KeptInv
<1> QED
  BY <1>1, <1>2, <1>3, <1>4, <1>5, <1>6, <1>7, <1>8, <1>9, <1>10,
     <1>11, <1>12, <1>13, <1>14, <1>15, <1>16, <1>17, <1>18, <1>19, <1>20
     DEF Next, AppRuns, NotifierRuns

\* Every step keeps one subscription per pair.
LEMMA IndexStep == IndInv /\ [Next]_vars => IndexInv'
<1> SUFFICES ASSUME IndInv, [Next]_vars PROVE IndexInv'
  OBVIOUS
<1> USE DEF IndInv, schema, data, nats, AppTo, NotifierTo
<1>1. CASE AppStarts
  BY <1>1 DEF AppStarts, IndexInv, Applied
<1>2. CASE ConnectDatabase
  BY <1>2 DEF ConnectDatabase, IndexInv, Applied
<1>3. CASE NextFile
  BY <1>3 DEF NextFile, MarkDirty, IndexInv, Applied, TypeOK
<1>4. CASE ApplyFile
  <2>1. CASE CreateTables
    BY <1>4, <2>1 DEF ApplyFile, CreateTables, IndexInv, Applied
  <2>2. CASE DropSoftDelete
    BY <2>2, SoftDeleteDropped, IndexKept DEF DropSoftDelete, IndexInv, TypeOK
  <2>3. CASE AddWatchedRepos
    BY <2>3 DEF AddWatchedRepos, IndexInv, Applied
  <2>4. CASE DropLastSeenTag
    <3>1. PlainIndex(table)
      BY <2>4 DEF DropLastSeenTag, IndexInv, Applied
    <3> QED
      BY <2>4, <3>1, TagDropped, IndexKept DEF IndexInv, TypeOK
  <2> QED
    BY <1>4, <2>1, <2>2, <2>3, <2>4 DEF ApplyFile, RunFile
<1>5. CASE FileApplied
  BY <1>5 DEF FileApplied, MarkClean, IndexInv, Applied
<1>6. CASE UpFails
  BY <1>6 DEF UpFails, AfterFailedUp, IndexInv, Applied
<1>7. CASE UpToDate
  BY <1>7 DEF UpToDate, IndexInv, Applied
<1>8. CASE AppConnects
  BY <1>8 DEF AppConnects, IndexInv, Applied
<1>9. CASE AppEnsuresStream
  BY <1>9 DEF AppEnsuresStream, IndexInv, Applied
<1>10. CASE AppEnsuresDLQ
  BY <1>10 DEF AppEnsuresDLQ, IndexInv, Applied
<1>11. CASE SetDedupWindow
  BY <1>11 DEF SetDedupWindow, IndexInv, Applied
<1>12. CASE AppEnds
  BY <1>12 DEF AppEnds, IndexInv, Applied
<1>13. CASE NotifierStarts
  BY <1>13 DEF NotifierStarts, IndexInv, Applied
<1>14. CASE NotifierConnects
  BY <1>14 DEF NotifierConnects, IndexInv, Applied
<1>15. CASE NotifierEnsuresStream
  BY <1>15 DEF NotifierEnsuresStream, IndexInv, Applied
<1>16. CASE NotifierEnsuresDLQ
  BY <1>16 DEF NotifierEnsuresDLQ, IndexInv, Applied
<1>17. CASE NotifierSubscribes
  BY <1>17 DEF NotifierSubscribes, IndexInv, Applied
<1>18. CASE NotifierEnds
  BY <1>18 DEF NotifierEnds, IndexInv, Applied
<1>19. CASE Stabilise
  BY <1>19 DEF Stabilise, IndexInv, Applied
<1>20. CASE UNCHANGED vars
  BY <1>20 DEF vars, IndexInv, Applied
<1> QED
  BY <1>1, <1>2, <1>3, <1>4, <1>5, <1>6, <1>7, <1>8, <1>9, <1>10,
     <1>11, <1>12, <1>13, <1>14, <1>15, <1>16, <1>17, <1>18, <1>19, <1>20
     DEF Next, AppRuns, NotifierRuns

\* The third file gives a repository the tag of one of its confirmed
\* subscribers, whatever the order of the tags.
LEMMA BackfillTakesATag ==
    ASSUME TypeOK, KeptInv, AddWatchedRepos, NEW i \in DOMAIN before, before[i].confirmed
    PROVE  CursorWasSeen(before[i].repo)'
<1> DEFINE r == before[i].repo
<1>1. version = 3 /\ before' = before /\ DOMAIN table = DOMAIN before
  BY DEF AddWatchedRepos, KeptInv
<1>2. ASSUME NEW j \in DOMAIN before
      PROVE  /\ before[j] \in Records
             /\ table[j].repo = before[j].repo
             /\ table[j].confirmed = before[j].confirmed
             /\ table[j].tag = before[j].tag
  BY <1>1, TableEntries DEF KeptInv, SamePair, TypeOK
<1>3. i \in Confirmed(r) /\ r \in Repos
  BY <1>1, <1>2 DEF Confirmed, Records
<1>4. PICK j \in Confirmed(r) : cursor'[r] = table[j].tag
  BY <1>3 DEF AddWatchedRepos, Furthest
<1> QED
  BY <1>1, <1>2, <1>4 DEF Confirmed, CursorWasSeen

\* Every step keeps the cursor where the third file put it.
LEMMA BackfillStep == IndInv /\ [Next]_vars => BackfillInv'
<1> SUFFICES ASSUME IndInv, [Next]_vars PROVE BackfillInv'
  OBVIOUS
<1> USE DEF IndInv, schema, data, nats, AppTo, NotifierTo
<1>1. CASE AppStarts
  BY <1>1 DEF AppStarts, BackfillInv, CursorWasSeen, Applied
<1>2. CASE ConnectDatabase
  BY <1>2 DEF ConnectDatabase, BackfillInv, CursorWasSeen, Applied
<1>3. CASE NextFile
  BY <1>3 DEF NextFile, MarkDirty, BackfillInv, CursorWasSeen, Applied, TypeOK
<1>4. CASE ApplyFile
  <2>1. CASE CreateTables \/ DropSoftDelete
    BY <1>4, <2>1 DEF ApplyFile, CreateTables, DropSoftDelete, BackfillInv, CursorWasSeen, Applied
  <2>2. CASE AddWatchedRepos
    BY <2>2, BackfillTakesATag DEF BackfillInv, AddWatchedRepos
  <2>3. CASE DropLastSeenTag
    BY <2>3 DEF DropLastSeenTag, BackfillInv, CursorWasSeen, Applied
  <2> QED
    BY <1>4, <2>1, <2>2, <2>3 DEF ApplyFile, RunFile
<1>5. CASE FileApplied
  BY <1>5 DEF FileApplied, MarkClean, BackfillInv, CursorWasSeen, Applied
<1>6. CASE UpFails
  BY <1>6 DEF UpFails, AfterFailedUp, BackfillInv, CursorWasSeen, Applied
<1>7. CASE UpToDate
  BY <1>7 DEF UpToDate, BackfillInv, CursorWasSeen, Applied
<1>8. CASE AppConnects
  BY <1>8 DEF AppConnects, BackfillInv, CursorWasSeen, Applied
<1>9. CASE AppEnsuresStream
  BY <1>9 DEF AppEnsuresStream, BackfillInv, CursorWasSeen, Applied
<1>10. CASE AppEnsuresDLQ
  BY <1>10 DEF AppEnsuresDLQ, BackfillInv, CursorWasSeen, Applied
<1>11. CASE SetDedupWindow
  BY <1>11 DEF SetDedupWindow, BackfillInv, CursorWasSeen, Applied
<1>12. CASE AppEnds
  BY <1>12 DEF AppEnds, BackfillInv, CursorWasSeen, Applied
<1>13. CASE NotifierStarts
  BY <1>13 DEF NotifierStarts, BackfillInv, CursorWasSeen, Applied
<1>14. CASE NotifierConnects
  BY <1>14 DEF NotifierConnects, BackfillInv, CursorWasSeen, Applied
<1>15. CASE NotifierEnsuresStream
  BY <1>15 DEF NotifierEnsuresStream, BackfillInv, CursorWasSeen, Applied
<1>16. CASE NotifierEnsuresDLQ
  BY <1>16 DEF NotifierEnsuresDLQ, BackfillInv, CursorWasSeen, Applied
<1>17. CASE NotifierSubscribes
  BY <1>17 DEF NotifierSubscribes, BackfillInv, CursorWasSeen, Applied
<1>18. CASE NotifierEnds
  BY <1>18 DEF NotifierEnds, BackfillInv, CursorWasSeen, Applied
<1>19. CASE Stabilise
  BY <1>19 DEF Stabilise, BackfillInv, CursorWasSeen, Applied
<1>20. CASE UNCHANGED vars
  BY <1>20 DEF vars, BackfillInv, CursorWasSeen, Applied
<1> QED
  BY <1>1, <1>2, <1>3, <1>4, <1>5, <1>6, <1>7, <1>8, <1>9, <1>10,
     <1>11, <1>12, <1>13, <1>14, <1>15, <1>16, <1>17, <1>18, <1>19, <1>20
     DEF Next, AppRuns, NotifierRuns

\* Every step leaves a dirty schema with its cause.
LEMMA CauseStep == IndInv /\ [Next]_vars => DirtyHasCause'
<1> SUFFICES ASSUME IndInv, [Next]_vars PROVE DirtyHasCause'
  OBVIOUS
<1> USE DEF IndInv, schema, data, nats, AppTo, NotifierTo
<1>1. CASE AppStarts
  BY <1>1 DEF AppStarts, DirtyHasCause, Migrating
<1>2. CASE ConnectDatabase
  BY <1>2 DEF ConnectDatabase, DirtyHasCause, Migrating
<1>3. CASE NextFile
  BY <1>3 DEF NextFile, DirtyHasCause, Migrating
<1>4. CASE ApplyFile
  BY <1>4 DEF ApplyFile, DirtyHasCause, Migrating
<1>5. CASE FileApplied
  BY <1>5 DEF FileApplied, MarkClean, DirtyHasCause, Migrating
<1>6. CASE UpFails
  <2>1. CASE app = "up" /\ dirty
    BY <1>6, <2>1 DEF UpFails, DirtyHasCause, Migrating
  <2>2. CASE app = "file" /\ MigrationFails
    <3>1. ~PlainIndex(before)
      BY <2>2, IndexKept DEF MigrationFails, KeptInv
    <3> QED
      BY <1>6, <3>1 DEF UpFails, PlainIndex, DirtyHasCause
  <2> QED
    BY <1>6, <2>1, <2>2 DEF UpFails
<1>7. CASE UpToDate
  BY <1>7 DEF UpToDate, DirtyHasCause, Migrating
<1>8. CASE AppConnects
  BY <1>8 DEF AppConnects, DirtyHasCause, Migrating
<1>9. CASE AppEnsuresStream
  BY <1>9 DEF AppEnsuresStream, DirtyHasCause, Migrating
<1>10. CASE AppEnsuresDLQ
  BY <1>10 DEF AppEnsuresDLQ, DirtyHasCause, Migrating
<1>11. CASE SetDedupWindow
  BY <1>11 DEF SetDedupWindow, DirtyHasCause, Migrating
<1>12. CASE AppEnds
  BY <1>12 DEF AppEnds, DirtyHasCause, Migrating
<1>13. CASE NotifierStarts
  BY <1>13 DEF NotifierStarts, DirtyHasCause, Migrating
<1>14. CASE NotifierConnects
  BY <1>14 DEF NotifierConnects, DirtyHasCause, Migrating
<1>15. CASE NotifierEnsuresStream
  BY <1>15 DEF NotifierEnsuresStream, DirtyHasCause, Migrating
<1>16. CASE NotifierEnsuresDLQ
  BY <1>16 DEF NotifierEnsuresDLQ, DirtyHasCause, Migrating
<1>17. CASE NotifierSubscribes
  BY <1>17 DEF NotifierSubscribes, DirtyHasCause, Migrating
<1>18. CASE NotifierEnds
  BY <1>18 DEF NotifierEnds, DirtyHasCause, Migrating
<1>19. CASE Stabilise
  BY <1>19 DEF Stabilise, DirtyHasCause, Migrating
<1>20. CASE UNCHANGED vars
  BY <1>20 DEF vars, DirtyHasCause, Migrating
<1> QED
  BY <1>1, <1>2, <1>3, <1>4, <1>5, <1>6, <1>7, <1>8, <1>9, <1>10,
     <1>11, <1>12, <1>13, <1>14, <1>15, <1>16, <1>17, <1>18, <1>19, <1>20
     DEF Next, AppRuns, NotifierRuns

\* Every step keeps the window that the serving app set.
LEMMA WindowStep == IndInv /\ [Next]_vars => WindowInv'
<1> SUFFICES ASSUME IndInv, [Next]_vars PROVE WindowInv'
  OBVIOUS
<1> USE DEF IndInv, schema, data, nats, AppTo, NotifierTo
<1>1. CASE AppStarts
  BY <1>1 DEF AppStarts, WindowInv
<1>2. CASE ConnectDatabase
  BY <1>2 DEF ConnectDatabase, WindowInv
<1>3. CASE NextFile
  BY <1>3 DEF NextFile, MarkDirty, WindowInv
<1>4. CASE ApplyFile
  BY <1>4 DEF ApplyFile, WindowInv
<1>5. CASE FileApplied
  BY <1>5 DEF FileApplied, MarkClean, WindowInv
<1>6. CASE UpFails
  BY <1>6 DEF UpFails, AfterFailedUp, WindowInv
<1>7. CASE UpToDate
  BY <1>7 DEF UpToDate, WindowInv
<1>8. CASE AppConnects
  BY <1>8 DEF AppConnects, WindowInv
<1>9. CASE AppEnsuresStream
  BY <1>9 DEF AppEnsuresStream, WindowInv
<1>10. CASE AppEnsuresDLQ
  BY <1>10 DEF AppEnsuresDLQ, WindowInv
<1>11. CASE SetDedupWindow
  BY <1>11 DEF SetDedupWindow, WindowInv
<1>12. CASE AppEnds
  BY <1>12 DEF AppEnds, WindowInv
<1>13. CASE NotifierStarts
  BY <1>13 DEF NotifierStarts, WindowInv
<1>14. CASE NotifierConnects
  BY <1>14 DEF NotifierConnects, WindowInv
<1>15. CASE NotifierEnsuresStream
  <2>1. interval \in Int /\ interval >= 0
    BY IntervalsAssumption DEF TypeOK, Valid
  <2>2. DedupWindow(interval) # NoStream
    BY <2>1 DEF DedupWindow, NoStream, ServerWindow
  <2> QED
    BY <1>15, <2>2 DEF NotifierEnsuresStream, CreateNotifications, WindowInv
<1>16. CASE NotifierEnsuresDLQ
  BY <1>16 DEF NotifierEnsuresDLQ, WindowInv
<1>17. CASE NotifierSubscribes
  BY <1>17 DEF NotifierSubscribes, WindowInv
<1>18. CASE NotifierEnds
  BY <1>18 DEF NotifierEnds, WindowInv
<1>19. CASE Stabilise
  BY <1>19 DEF Stabilise, WindowInv
<1>20. CASE UNCHANGED vars
  BY <1>20 DEF vars, WindowInv
<1> QED
  BY <1>1, <1>2, <1>3, <1>4, <1>5, <1>6, <1>7, <1>8, <1>9, <1>10,
     <1>11, <1>12, <1>13, <1>14, <1>15, <1>16, <1>17, <1>18, <1>19, <1>20
     DEF Next, AppRuns, NotifierRuns

-----------------------------------------------------------------------------
(* The theorems.                                                           *)

\* IndInv holds of every state of every start and restart.
LEMMA IndInvHolds == Spec => []IndInv
<1>1. IndInv /\ [Next]_vars => IndInv'
  BY TypeStep, PhaseStep, KeptStep, IndexStep, BackfillStep, CauseStep, WindowStep DEF IndInv
<1> QED
  BY InitHolds, <1>1, PTL DEF Spec

\* Type correctness of the two processes, the schema and the streams.
THEOREM StartupTypes == Spec => []TypeOK
<1>1. IndInv => TypeOK
  BY DEF IndInv
<1> QED
  BY IndInvHolds, <1>1, PTL

\* The window that SetDedupWindow sets is three scan intervals, and no process
\* that starts beside the app changes it.
THEOREM WindowIsThreeIntervals == Spec => []WindowFollowsInterval
<1>1. ASSUME IndInv, app = "serving", interval # 0
      PROVE  window = 3 * Period(interval)
  <2>1. interval \in Int /\ interval >= 0
    BY <1>1, IntervalsAssumption DEF IndInv, TypeOK, Valid
  <2>2. window = DedupWindow(interval)
    BY <1>1 DEF IndInv, WindowInv
  <2> QED
    BY <1>1, <2>1, <2>2 DEF DedupWindow, Period
<1>2. IndInv => WindowFollowsInterval
  BY <1>1 DEF WindowFollowsInterval
<1> QED
  BY IndInvHolds, <1>2, PTL

\* Migrate, however often it is cut off, never lets an app serve an older
\* schema, loses no subscription on the way, and leaves no repository that
\* somebody confirmed without a tag to go on from, for every order of the strings.
THEOREM MigrationKeepsSubscribers == Spec => []ServesEverySubscriber
<1>1. ASSUME IndInv, app \in Booting \cup {"serving"}
      PROVE  version = Last /\ ~dirty /\ PlainIndex(table)
  BY <1>1 DEF IndInv, PhaseInv, IndexInv, Applied, Last
<1>2. ASSUME IndInv, app \in Booting \cup {"serving"}
      PROVE  \A i \in DOMAIN before : before[i].confirmed => CursorWasSeen(before[i].repo)
  BY <1>1, <1>2 DEF IndInv, BackfillInv, Applied, Last
<1>3. IndInv => ServesEverySubscriber
  BY <1>1, <1>2 DEF IndInv, KeptInv, ServesEverySubscriber
<1> QED
  BY IndInvHolds, <1>3, PTL

\* A dirty schema outside a migration is the work of a cut-off migration or of
\* a pair that a deleted subscription shares with another.
THEOREM RepairHasCause == Spec => []DirtyHasCause
<1>1. IndInv => DirtyHasCause
  BY DEF IndInv
<1> QED
  BY IndInvHolds, <1>1, PTL

=============================================================================
