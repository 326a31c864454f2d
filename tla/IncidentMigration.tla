-------------------------- MODULE IncidentMigration --------------------------
(***************************************************************************)
(* scripts/coalesce_incidents.py --apply, run in the manager's container:  *)
(* it reads the incidents, merges those of one key that follow each other  *)
(* within the window, writes what it read to a backup collection, deletes  *)
(* every incident and inserts the merged ones.                             *)
(***************************************************************************)
EXTENDS IncidentCoalescing, FiniteSetsExt

CONSTANTS
    Concurrent,   \* the server works while the script runs
    MaxRuns       \* bound on how often the script is started

ASSUME MigrationAssumption == Concurrent \in BOOLEAN /\ MaxRuns \in Nat

VARIABLES
    script,   \* the last step of the script
    runs,
    read,     \* the incidents as the script read them
    backup    \* incidents_backup_precoalesce

migrationVars == <<event, task, incident, updates, joined, script, runs,
                   read, backup>>

Steps == {"idle", "read", "dropped", "backed up", "deleted", "inserted",
          "ended", "dead"}

MigrationInit ==
    /\ Init
    /\ script = "idle"
    /\ runs = 0
    /\ read = incident
    /\ backup = incident

At(i) == event[i].at   \* an incident is dated by its primary event
Read == {i \in Events : read[i] # NoIncident}
OfKey(key) == {i \in Read : read[i].key = key}

StartsOffByOne(start, i) ==   \* mutant
    /\ At(i) = start
    /\ ~ \E j \in OfKey(read[i].key) : At(j) < start /\ start - At(j) < Window

\* i opens a session: no incident of its key precedes it within the window.
Starts(start, i) ==
    /\ At(i) = start
    /\ ~ \E j \in OfKey(read[i].key) : At(j) < start /\ start - At(j) <= Window

StartOf(i) ==
    Max({start \in Times : start <= At(i)
                           /\ \E j \in OfKey(read[i].key) : Starts(start, j)})

\* The incidents that become one with i.
Session(i) == {j \in OfKey(read[i].key) : StartOf(j) = StartOf(i)}

\* _build_merged. The primary event of the incident created first is kept.
Base(docs) == CHOOSE i \in docs : \A j \in docs : read[i].created <= read[j].created

\* S as a sequence without repetitions, in an order that the relation R allows.
InOrder(S, R) ==
    CHOOSE s \in [1 .. Cardinality(S) -> S] :
        \A m, n \in 1 .. Cardinality(S) : m < n => s[m] # s[n] /\ <<s[m], s[n]>> \in R

Rows(docs) == InOrder(docs, {p \in docs \X docs : At(p[1]) <= At(p[2])})
MembersOf(docs) == UNION {Members(read[i]) : i \in docs}

\* Where e is listed first, among the incidents in their order.
Row(docs, e) == Min({n \in DOMAIN Rows(docs) : e \in Members(read[Rows(docs)[n]])})
Place(docs, e) ==
    LET ids == read[Rows(docs)[Row(docs, e)]].listed IN Min({n \in DOMAIN ids : ids[n] = e})

\* The members in the order of their incidents' dates, each once.
ListedIn(docs) ==
    InOrder(MembersOf(docs),
            {p \in MembersOf(docs) \X MembersOf(docs) :
                \/ Row(docs, p[1]) < Row(docs, p[2])
                \/ /\ Row(docs, p[1]) = Row(docs, p[2])
                   /\ Place(docs, p[1]) <= Place(docs, p[2])})

MergedStatus(docs) ==
    LET statuses == {read[i].status : i \in docs} IN
    CASE "open" \in statuses -> "open"
      [] "open" \notin statuses /\ "investigating" \in statuses -> "investigating"
      [] OTHER -> "resolved"

Merged(docs) ==
    [key |-> read[Base(docs)].key,
     status |-> MergedStatus(docs),
     severity |-> Max({read[i].severity : i \in docs}),
     listed |-> LastListed(ListedIn(docs)),
     count |-> Len(ListedIn(docs)),
     first |-> Min({At(i) : i \in docs}),
     last |-> Max({At(i) : i \in docs}),
     created |-> Min({read[i].created : i \in docs})]

-----------------------------------------------------------------------------

ServerWaits == UNCHANGED <<event, task, updates, joined>>
ScriptAlone == ServerWaits /\ UNCHANGED runs

\* Started once more after it ended or died, it reads what it left.
ReadIncidents ==
    /\ script \in {"idle", "ended", "dead"}
    /\ runs < MaxRuns
    /\ runs' = runs + 1
    /\ script' = "read"
    /\ read' = incident
    /\ ServerWaits /\ UNCHANGED <<incident, backup>>

DropBackup ==
    /\ script = "read"
    /\ script' = "dropped"
    /\ backup' = [i \in Events |-> NoIncident]
    /\ ScriptAlone /\ UNCHANGED <<incident, read>>

DeleteFirst ==   \* mutant
    /\ script = "dropped"
    /\ script' = "deleted"
    /\ incident' = [i \in Events |-> NoIncident]
    /\ ScriptAlone /\ UNCHANGED <<read, backup>>

\* insert_many of what was read, not of what is there by now.
FillBackup ==
    /\ script = "dropped"
    /\ script' = "backed up"
    /\ backup' = read
    /\ ScriptAlone /\ UNCHANGED <<incident, read>>

DeleteIncidents ==
    /\ script = "backed up"
    /\ script' = "deleted"
    /\ incident' = [i \in Events |-> NoIncident]
    /\ ScriptAlone /\ UNCHANGED <<read, backup>>

InsertForEach ==   \* mutant
    /\ script = "deleted"
    /\ script' = "inserted"
    /\ incident' = [i \in Events |->
                       IF i \in Read THEN Merged(Session(i)) ELSE incident[i]]
    /\ ScriptAlone /\ UNCHANGED <<read, backup>>

InsertMerged ==
    /\ script = "deleted"
    /\ script' = "inserted"
    /\ incident' = [i \in Events |->
                       IF i \in Read /\ i = Base(Session(i)) THEN Merged(Session(i))
                       ELSE incident[i]]
    /\ ScriptAlone /\ UNCHANGED <<read, backup>>

ScriptEnds ==
    /\ script = "inserted"
    /\ script' = "ended"
    /\ ScriptAlone /\ UNCHANGED <<incident, read, backup>>

\* The container is stopped, or a call to MongoDB fails.
ScriptDies ==
    /\ script \notin {"idle", "ended", "dead"}
    /\ script' = "dead"
    /\ ScriptAlone /\ UNCHANGED <<incident, read, backup>>

Script == ReadIncidents \/ DropBackup \/ FillBackup \/ DeleteIncidents
              \/ InsertMerged \/ ScriptEnds \/ ScriptDies

ServerWorks == Concurrent \/ script \in {"idle", "ended", "dead"}

MigrationNext ==
    \/ Script
    \/ ServerWorks /\ Next /\ UNCHANGED <<script, runs, read, backup>>

MigrationSpec == MigrationInit /\ [][MigrationNext]_migrationVars

-----------------------------------------------------------------------------
(* Correctness.                                                             *)

AllListed(docs) ==
    UNION {Members(docs[i]) : i \in {j \in Events : docs[j] # NoIncident}}

Collections == [Events -> Documents \cup {NoIncident}]

\* The types of what the script keeps beside the collection.
MigrationTypeOK ==
    /\ TypeOK
    /\ script \in Steps
    /\ runs \in 0 .. MaxRuns
    /\ read \in Collections
    /\ backup \in Collections

\* coalesce_incidents.py:11-12 "back up the incidents collection ... and
\* replace it with the coalesced set": whatever step the script dies at, an
\* event that was in an incident is in one, or in the backup. It holds of one
\* run against an idle server; beside a working server, or when the script is
\* started again after it died, it does not. MaxListed is at least the number
\* of events, so that the cap loses none.
NothingIsLost ==
    \A e \in Events :
        joined[e] # None => e \in AllListed(incident) \cup AllListed(backup)

\* The merged incidents of one user, type and category are further apart than
\* the window: what should have been one incident is one.
SessionsAreApart ==
    script = "inserted" =>
        \A i, j \in Incidents :
            (i # j /\ incident[i].key = incident[j].key) =>
                \/ incident[i].first - incident[j].last > Window
                \/ incident[j].first - incident[i].last > Window

=============================================================================
