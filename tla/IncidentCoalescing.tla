------------------------- MODULE IncidentCoalescing -------------------------
(***************************************************************************)
(* How qualifying events become incidents. _auto_create_incident runs once *)
(* per event, as a background task of whichever server process took the    *)
(* event in. It joins its event to an active incident of the same user,    *)
(* event type and category, and otherwise starts an incident of its own.   *)
(* No lock and no unique index ties the two steps together.                *)
(*                                                                         *)
(* An event replayed from an endpoint's spool is processed long after it   *)
(* was raised, so tasks run in no order of the events' times.              *)
(***************************************************************************)
EXTENDS Integers, Sequences, FiniteSets

CONSTANTS
    Events,      \* the events that qualify for an incident
    Keys,        \* user|event_type|category
    Times,       \* when an event may have been raised
    Severities,
    Window,      \* INCIDENT_COALESCE_WINDOW_HOURS
    MaxListed,   \* MAX_INCIDENT_EVENT_IDS
    MaxUpdates,  \* bound on the analysts' updates
    None         \* no incident

ASSUME IncidentAssumption ==
    /\ IsFiniteSet(Events)
    /\ Times \subseteq Nat
    /\ Severities \subseteq Nat
    /\ Window \in Nat
    /\ MaxListed \in Nat \ {0}
    /\ MaxUpdates \in Nat
    /\ None \notin Events

VARIABLES
    event,     \* the stored event: what the incident is made from
    task,      \* how far _auto_create_incident has come for the event
    incident,  \* the collection, by the event_id of the incident
    updates,
    joined     \* ghost: the incident that took the event in

vars == <<event, task, incident, updates, joined>>

Statuses == {"open", "investigating", "resolved", "closed"}
Active == {"open", "investigating"}

NoIncident == [listed |-> <<>>]
Incidents == {i \in Events : incident[i] # NoIncident}
Members(doc) == {doc.listed[n] : n \in DOMAIN doc.listed}

LastListedAll(ids) == ids   \* mutant

\* $slice: -MAX_INCIDENT_EVENT_IDS
LastListed(ids) ==
    SubSeq(ids, IF Len(ids) > MaxListed THEN Len(ids) - MaxListed + 1 ELSE 1, Len(ids))

Larger(a, b) == IF a > b THEN a ELSE b

Init ==
    /\ event \in [Events -> [key : Keys, at : Times, severity : Severities]]
    /\ task = [e \in Events |-> "queued"]
    /\ incident = [i \in Events |-> NoIncident]
    /\ updates = 0
    /\ joined = [e \in Events |-> None]

-----------------------------------------------------------------------------

\* Both look-ups for an incident that already has the event. Only the event's
\* own task could make one, so they are one step.
CheckRecorded(e) ==
    /\ task[e] = "queued"
    /\ task' = [task EXCEPT ![e] =
                   IF incident[e] # NoIncident
                        \/ \E i \in Incidents : e \in Members(incident[i])
                   THEN "finished" ELSE "unrecorded"]
    /\ UNCHANGED <<event, incident, updates, joined>>

MatchesAnyStatus(i, e) ==   \* mutant
    /\ incident[i].key = event[e].key
    /\ incident[i].last >= event[e].at - Window

\* The filter of the coalescing update.
Matches(i, e) ==
    /\ incident[i].key = event[e].key
    /\ incident[i].status \in Active
    /\ incident[i].last >= event[e].at - Window

GrownToLatest(doc, e) ==   \* mutant
    [doc EXCEPT
        !.count = @ + 1,
        !.listed = LastListed(Append(@, e)),
        !.severity = Larger(@, event[e].severity),
        !.last = event[e].at]

\* $inc, $push with $slice, $max. The date of the first event stays.
Grown(doc, e) ==
    [doc EXCEPT
        !.count = @ + 1,
        !.listed = LastListed(Append(@, e)),
        !.severity = Larger(@, event[e].severity),
        !.last = Larger(@, event[e].at)]

CoalesceGoesOn(e) ==   \* mutant
    /\ task[e] = "unrecorded"
    /\ \/ \E i \in Incidents :
             /\ Matches(i, e)
             /\ incident' = [incident EXCEPT ![i] = Grown(@, e)]
             /\ joined' = [joined EXCEPT ![e] = i]
       \/ /\ ~ \E i \in Incidents : Matches(i, e)
          /\ UNCHANGED <<incident, joined>>
    /\ task' = [task EXCEPT ![e] = "unmatched"]
    /\ UNCHANGED <<event, updates>>

\* update_one takes whichever matching document it meets.
Coalesce(e) ==
    /\ task[e] = "unrecorded"
    /\ \/ \E i \in Incidents :
             /\ Matches(i, e)
             /\ incident' = [incident EXCEPT ![i] = Grown(@, e)]
             /\ joined' = [joined EXCEPT ![e] = i]
             /\ task' = [task EXCEPT ![e] = "finished"]
       \/ /\ ~ \E i \in Incidents : Matches(i, e)
          /\ task' = [task EXCEPT ![e] = "unmatched"]
          /\ UNCHANGED <<incident, joined>>
    /\ UNCHANGED <<event, updates>>

NewIncident(e) ==
    [key |-> event[e].key, status |-> "open", severity |-> event[e].severity,
     listed |-> <<e>>, count |-> 1, first |-> event[e].at, last |-> event[e].at,
     created |-> Cardinality(Incidents)]

\* The upsert by event_id.
CreateIncident(e) ==
    /\ task[e] = "unmatched"
    /\ incident' = [incident EXCEPT ![e] = IF @ = NoIncident THEN NewIncident(e) ELSE @]
    /\ joined' = [joined EXCEPT ![e] = e]
    /\ task' = [task EXCEPT ![e] = "finished"]
    /\ UNCHANGED <<event, updates>>

\* MongoDB fails, or the process stops: nobody tries again.
TaskFails(e) ==
    /\ task[e] # "finished"
    /\ task' = [task EXCEPT ![e] = "finished"]
    /\ UNCHANGED <<event, incident, updates, joined>>

\* update_auto_incident
UpdateIncident(i, status) ==
    /\ updates < MaxUpdates
    /\ updates' = updates + 1
    /\ i \in Incidents
    /\ incident' = [incident EXCEPT ![i].status = status]
    /\ UNCHANGED <<event, task, joined>>

Process(e) == CheckRecorded(e) \/ Coalesce(e) \/ CreateIncident(e) \/ TaskFails(e)

Next ==
    \/ \E e \in Events : Process(e)
    \/ \E i \in Events, status \in Statuses : UpdateIncident(i, status)

Spec == Init /\ [][Next]_vars

-----------------------------------------------------------------------------
(* Correctness.                                                             *)

Documents ==
    [key : Keys, status : Statuses, severity : Severities, listed : Seq(Events),
     count : Nat, first : Times, last : Times, created : Nat]

\* The type of the collection: among it, no document ever lists more events
\* than the $slice of the $push leaves.
TypeOK ==
    /\ event \in [Events -> [key : Keys, at : Times, severity : Severities]]
    /\ task \in [Events -> {"queued", "unrecorded", "unmatched", "finished"}]
    /\ incident \in [Events -> Documents \cup {NoIncident}]
    /\ \A i \in Events : Len(incident[i].listed) <= MaxListed
    /\ updates \in 0 .. MaxUpdates
    /\ joined \in [Events -> Events \cup {None}]

JoinedTo(i) == {e \in Events : joined[e] = i}

\* An incident sums up exactly the events it took in, in whatever order and
\* however concurrently they came: the count is their number although the
\* list is capped, and the severity and the last date are their largest.
SummaryIsOfItsEvents ==
    \A i \in Incidents :
        /\ incident[i].count = Cardinality(JoinedTo(i))
        /\ Members(incident[i]) \subseteq JoinedTo(i)
        /\ Len(incident[i].listed) = Cardinality(Members(incident[i]))
        /\ \A e \in JoinedTo(i) :
              /\ event[e].severity <= incident[i].severity
              /\ event[e].at <= incident[i].last
        /\ \E e \in JoinedTo(i) : event[e].severity = incident[i].severity
        /\ \E e \in JoinedTo(i) : event[e].at = incident[i].last

\* No event is counted by two incidents: the coalescing update and the upsert
\* of one task never both take effect.
InOneIncident ==
    \A i, j \in Incidents :
        i # j => Members(incident[i]) \cap Members(incident[j]) = {}

\* What an analyst resolved or closed no longer grows: the filter and the
\* update are one step of the database, so no task works on an old status.
SettledStaysAsItIs ==
    [][\A i \in Incidents :
          incident[i].status \notin Active =>
              incident'[i] = [incident[i] EXCEPT !.status = incident'[i].status]]_vars

=============================================================================
