------------------------------ MODULE Startup ------------------------------
(***************************************************************************)
(* How the two processes start, again and again, against a database and a  *)
(* NATS server that outlive them: cmd/app/main.go migrates, connects,      *)
(* creates the streams and sets the dedup window before it serves;         *)
(* cmd/notifier/main.go creates the streams and its consumer before it     *)
(* consumes.  A call that fails ends the process, and the supervisor starts*)
(* a new one (restart: unless-stopped), perhaps with another SCAN_INTERVAL.*)
(*                                                                         *)
(* What the API and the scanner do to the tables once the app serves is in *)
(* the modules about them.  Durations are in minutes.                      *)
(***************************************************************************)
EXTENDS Migrations

CONSTANTS
    Intervals   \* the values SCAN_INTERVAL may have

ASSUME IntervalsAssumption == Intervals \subseteq Int

VARIABLES
    app,        \* the next thing the app does
    interval,   \* SCAN_INTERVAL as the running app read it
    notifier,   \* the next thing the notifier does
    window,     \* dedup window of the NOTIFICATIONS stream, or NoStream
    dlq,        \* is there a NOTIFY_DLQ stream?
    consumer,   \* is there the durable consumer?
    cutOff,     \* history: was an app cut off while it migrated?
    stable      \* the environment has stopped failing

nats == <<window, dlq, consumer>>
vars == <<schema, data, before, app, interval, notifier, nats, cutOff, stable>>

NoStream      == -1
ServerWindow  == 2      \* JetStream's, where the configuration says 0
DefaultPeriod == 5      \* scanner.New's, where the configuration says 0

Migrating == {"file", "clean"}
Booting   == {"nats", "streams", "dlq", "window"}
AppSteps  == {"down", "database", "up", "serving"} \cup Migrating \cup Booting
NotifierSteps == {"down", "nats", "streams", "dlq", "consumer", "consuming"}

-----------------------------------------------------------------------------
\* The intervals Validate lets through: the app does not start with another.
Valid_Any == Intervals
Valid     == {i \in Intervals : i >= 0}

Init ==
    /\ MigrationsInit
    /\ app = "down"
    /\ interval \in Valid
    /\ notifier = "down"
    /\ window = NoStream
    /\ dlq = FALSE
    /\ consumer = FALSE
    /\ cutOff = FALSE
    /\ stable = FALSE

\* withDefaults, which scanner.New applies after the window was computed.
Period(i) == IF i <= 0 THEN DefaultPeriod ELSE i

\* DedupWindow: three intervals.
DedupWindow(i) == IF i = 0 THEN ServerWindow ELSE 3 * i

-----------------------------------------------------------------------------
(* Calls both processes make.                                              *)

\* EnsureStreams, first call: an existing stream keeps its configuration.
CreateNotifications_New      == window = NoStream /\ window' = ServerWindow
CreateNotifications_OrUpdate == window' = ServerWindow
CreateNotifications          == window' = IF window = NoStream THEN ServerWindow ELSE window

\* EnsureStreams, second call.
CreateDLQ == dlq' = TRUE

-----------------------------------------------------------------------------
(* The app: run in cmd/app/main.go.                                        *)

AppTo(s) == app' = s /\ UNCHANGED <<notifier, stable>>

AppStarts ==
    /\ app = "down"
    /\ interval' \in Valid
    /\ AppTo("database")
    /\ UNCHANGED <<schema, data, before, nats, cutOff>>

ConnectDatabase ==
    /\ app = "database"
    /\ AppTo("up")
    /\ UNCHANGED <<schema, data, before, interval, nats, cutOff>>

\* Migrate, file by file.
NextFile ==
    /\ app = "up"
    /\ MarkDirty
    /\ AppTo("file")
    /\ UNCHANGED <<interval, nats, cutOff>>

ApplyFile ==
    /\ app = "file"
    /\ RunFile
    /\ AppTo("clean")
    /\ UNCHANGED <<interval, nats, cutOff>>

FileApplied ==
    /\ app = "clean"
    /\ MarkClean
    /\ AppTo("up")
    /\ UNCHANGED <<interval, nats, cutOff>>

\* ErrDirty, or a file that Postgres refuses, ends the process; an error is
\* never taken for ErrNoChange.
AfterFailedUp_Logged == "nats"
AfterFailedUp        == "down"

UpFails ==
    /\ \/ app = "up" /\ dirty
       \/ app = "file" /\ MigrationFails
    /\ AppTo(AfterFailedUp)
    /\ UNCHANGED <<schema, data, before, interval, nats, cutOff>>

\* Nothing to migrate.  buildGitHubClient takes the cache if Redis answers and
\* goes on without it otherwise, and never fails.
UpToDate ==
    /\ app = "up" /\ ~dirty /\ version = Last
    /\ AppTo("nats")
    /\ UNCHANGED <<schema, data, before, interval, nats, cutOff>>

AppConnects ==
    /\ app = "nats"
    /\ AppTo("streams")
    /\ UNCHANGED <<schema, data, before, interval, nats, cutOff>>

AppEnsuresStream ==
    /\ app = "streams"
    /\ CreateNotifications
    /\ AppTo("dlq")
    /\ UNCHANGED <<schema, data, before, interval, dlq, consumer, cutOff>>

AppEnsuresDLQ ==
    /\ app = "dlq"
    /\ CreateDLQ
    /\ AppTo("window")
    /\ UNCHANGED <<schema, data, before, interval, window, consumer, cutOff>>

\* SetDedupWindow updates an existing stream.
SetDedupWindow ==
    /\ app = "window"
    /\ window' = DedupWindow(interval)
    /\ AppTo("serving")
    /\ UNCHANGED <<schema, data, before, interval, dlq, consumer, cutOff>>

\* A call fails, SIGTERM arrives, or the process crashes.
AppEnds ==
    /\ ~stable /\ app # "down"
    /\ cutOff' = (cutOff \/ app \in Migrating)
    /\ AppTo("down")
    /\ UNCHANGED <<schema, data, before, interval, nats>>

-----------------------------------------------------------------------------
(* The notifier: run in cmd/notifier/main.go.                              *)

NotifierTo(s) ==
    /\ notifier' = s
    /\ UNCHANGED <<schema, data, before, app, interval, cutOff, stable>>

NotifierStarts ==
    /\ notifier = "down"
    /\ NotifierTo("nats")
    /\ UNCHANGED nats

NotifierConnects ==
    /\ notifier = "nats"
    /\ NotifierTo("streams")
    /\ UNCHANGED nats

NotifierEnsuresStream ==
    /\ notifier = "streams"
    /\ CreateNotifications
    /\ NotifierTo("dlq")
    /\ UNCHANGED <<dlq, consumer>>

NotifierEnsuresDLQ ==
    /\ notifier = "dlq"
    /\ CreateDLQ
    /\ NotifierTo("consumer")
    /\ UNCHANGED <<window, consumer>>

\* Subscribe: CreateOrUpdateConsumer, then Consume.
NotifierSubscribes ==
    /\ notifier = "consumer"
    /\ consumer' = TRUE
    /\ NotifierTo("consuming")
    /\ UNCHANGED <<window, dlq>>

NotifierEnds ==
    /\ ~stable /\ notifier # "down"
    /\ NotifierTo("down")
    /\ UNCHANGED nats

-----------------------------------------------------------------------------
Stabilise ==
    /\ ~stable
    /\ stable' = TRUE
    /\ UNCHANGED <<schema, data, before, app, interval, notifier, nats, cutOff>>

AppRuns ==
    \/ AppStarts \/ ConnectDatabase
    \/ NextFile \/ ApplyFile \/ FileApplied \/ UpFails \/ UpToDate
    \/ AppConnects \/ AppEnsuresStream \/ AppEnsuresDLQ \/ SetDedupWindow

NotifierRuns ==
    \/ NotifierStarts \/ NotifierConnects
    \/ NotifierEnsuresStream \/ NotifierEnsuresDLQ \/ NotifierSubscribes

Next == AppRuns \/ AppEnds \/ NotifierRuns \/ NotifierEnds \/ Stabilise

Spec == Init /\ [][Next]_vars

\* Each process goes on, and the supervisor starts it again.
FairSpec == Spec /\ WF_vars(AppRuns) /\ WF_vars(NotifierRuns)

-----------------------------------------------------------------------------
(* Properties.                                                             *)

\* Every variable has a value the program can give it.
TypeOK ==
    /\ version \in 0 .. Last
    /\ dirty \in BOOLEAN
    /\ table \in Tables
    /\ before \in Tables
    /\ cursor \in [Repos -> Tags \cup {NoRow}]
    /\ app \in AppSteps
    /\ interval \in Valid
    /\ notifier \in NotifierSteps
    /\ window \in Nat \cup {NoStream}
    /\ dlq \in BOOLEAN
    /\ consumer \in BOOLEAN
    /\ cutOff \in BOOLEAN
    /\ stable \in BOOLEAN

\* While the app serves, the broker remembers an id for three of the intervals
\* its scanner really uses, however often the notifier, which knows nothing of
\* intervals, starts and ensures the stream, and whatever interval an earlier
\* app had set.  SCAN_INTERVAL=0 is left out: see README.
WindowFollowsInterval ==
    app = "serving" /\ interval # 0 => window = 3 * Period(interval)

\* Somebody who has confirmed r had seen the release its cursor holds.
CursorWasSeen(r) ==
    \E i \in DOMAIN before :
       before[i].confirmed /\ before[i].repo = r /\ before[i].tag = cursor[r]

\* An app that got past its migrations, on whichever attempt, has the newest
\* schema, cleanly, and every subscription that was not deleted, as it was; and
\* the tags that the last migration drops with their column have been carried
\* over: a repository that somebody confirmed goes on from a tag one of its
\* subscribers had, and is not taken for one never scanned.  Which of their tags
\* it is depends on how strings sort, and v10 sorts below v9: see README.
ServesEverySubscriber ==
    app \in Booting \cup {"serving"} =>
      /\ version = Last /\ ~dirty
      /\ PlainIndex(table)
      /\ \A i \in DOMAIN before :
           ~before[i].gone =>
             /\ i \in DOMAIN table
             /\ SamePair(table[i], before[i])
             /\ table[i].confirmed = before[i].confirmed
      /\ \A i \in DOMAIN before :
           before[i].confirmed => CursorWasSeen(before[i].repo)

\* Nobody has to repair the schema by hand unless a process was cut off in the
\* middle of a file, or a deleted subscription has the pair of another.
DirtyHasCause ==
    dirty /\ app \notin Migrating =>
      \/ cutOff
      \/ \E i, j \in DOMAIN before : i # j /\ SamePair(before[i], before[j])

\* Once failures stop, both processes get to their work, in whichever order
\* they start, unless the schema waits for a repair.
BothStart == stable ~> ((app = "serving" /\ notifier = "consuming") \/ dirty)
=============================================================================
