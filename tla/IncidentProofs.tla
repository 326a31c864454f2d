--------------------------- MODULE IncidentProofs ---------------------------
(* What holds of the incidents for any events and any number of tasks, and  *)
(* of the script that merges the incidents of old.                          *)
EXTENDS IncidentMigration, FiniteSetTheorems, TLAPS

TaskStates == {"queued", "unrecorded", "unmatched", "finished"}

Distinct(ids) == \A m, n \in DOMAIN ids : ids[m] = ids[n] => m = n

\* What the cap keeps of a list: at most MaxListed of its events, each once if
\* it was there once, and all of a list that is short enough.
LEMMA Capping ==
  ASSUME NEW ids \in Seq(Events)
  PROVE  /\ LastListed(ids) \in Seq(Events)
         /\ Len(LastListed(ids)) <= MaxListed
         /\ \A n \in DOMAIN LastListed(ids) : \E m \in DOMAIN ids : LastListed(ids)[n] = ids[m]
         /\ Distinct(ids) => Distinct(LastListed(ids))
         /\ ids # <<>> => LastListed(ids) # <<>>
         /\ Len(ids) <= MaxListed => LastListed(ids) = ids
<1> DEFINE from == IF Len(ids) > MaxListed THEN Len(ids) - MaxListed + 1 ELSE 1
           kept == SubSeq(ids, from, Len(ids))
<1>1. Len(ids) \in Nat /\ DOMAIN ids = 1 .. Len(ids)
  OBVIOUS
<1>2. /\ from \in Nat /\ from >= 1 /\ from <= Len(ids) + 1
      /\ Len(ids) - from + 1 <= MaxListed
      /\ ids # <<>> => from <= Len(ids)
  BY <1>1, IncidentAssumption
<1>3. /\ kept \in Seq(Events)
      /\ Len(kept) = Len(ids) - from + 1
      /\ \A n \in 1 .. Len(kept) : kept[n] = ids[from + n - 1]
  BY <1>1, <1>2
<1>4. LastListed(ids) = kept
  BY DEF LastListed
<1>5. Len(ids) <= MaxListed => from = 1
  BY <1>1, IncidentAssumption
<1> HIDE DEF from, kept
<1>6. DOMAIN kept = 1 .. Len(kept) /\ Len(kept) <= MaxListed
  BY <1>2, <1>3
<1>7. \A n \in 1 .. Len(kept) : from + n - 1 \in 1 .. Len(ids)
  BY <1>1, <1>2, <1>3
<1>8. ASSUME Distinct(ids), NEW m \in 1 .. Len(kept), NEW n \in 1 .. Len(kept), kept[m] = kept[n]
      PROVE  m = n
  <2>1. from + m - 1 = from + n - 1
    BY <1>1, <1>3, <1>7, <1>8 DEF Distinct
  <2> QED
    BY <1>2, <2>1
<1>9. ids # <<>> => kept # <<>>
  BY <1>1, <1>2, <1>3
<1>10. ASSUME from = 1 PROVE kept = ids
  <2>1. Len(kept) = Len(ids) /\ \A n \in 1 .. Len(ids) : kept[n] = ids[n]
    BY <1>1, <1>3, <1>10
  <2> QED
    BY <1>1, <1>3, <2>1
<1> QED
  BY <1>1, <1>3, <1>4, <1>5, <1>6, <1>7, <1>8, <1>9, <1>10 DEF Distinct

\* What appending to the capped list leaves: at most MaxListed events, each of
\* which was listed before or is the new one.
LEMMA Appending ==
  ASSUME NEW ids \in Seq(Events), NEW e \in Events
  PROVE  /\ LastListed(Append(ids, e)) \in Seq(Events)
         /\ Len(LastListed(Append(ids, e))) <= MaxListed
         /\ \A n \in DOMAIN LastListed(Append(ids, e)) :
               \/ LastListed(Append(ids, e))[n] = e
               \/ \E m \in DOMAIN ids : LastListed(Append(ids, e))[n] = ids[m]
<1> DEFINE new == Append(ids, e)
<1>1. /\ new \in Seq(Events)
      /\ \A n \in DOMAIN new : new[n] = e \/ \E m \in DOMAIN ids : new[n] = ids[m]
  OBVIOUS
<1> HIDE DEF new
<1>2. /\ LastListed(new) \in Seq(Events) /\ Len(LastListed(new)) <= MaxListed
      /\ \A n \in DOMAIN LastListed(new) : \E m \in DOMAIN new : LastListed(new)[n] = new[m]
  BY <1>1, Capping
<1> QED
  BY <1>1, <1>2 DEF new

\* A document stays one when it takes in an event, and when it is new.
LEMMA Growing ==
  ASSUME NEW doc \in Documents, Len(doc.listed) <= MaxListed,
         event \in [Events -> [key : Keys, at : Times, severity : Severities]],
         NEW e \in Events
  PROVE  /\ Grown(doc, e) \in Documents
         /\ Len(Grown(doc, e).listed) <= MaxListed
         /\ Grown(doc, e).listed = LastListed(Append(doc.listed, e))
<1>1. /\ doc.listed \in Seq(Events) /\ doc.count + 1 \in Nat
      /\ Larger(doc.severity, event[e].severity) \in Severities
      /\ Larger(doc.last, event[e].at) \in Times
  BY DEF Documents, Larger
<1>2. /\ LastListed(Append(doc.listed, e)) \in Seq(Events)
      /\ Len(LastListed(Append(doc.listed, e))) <= MaxListed
  BY <1>1, Appending
<1>3. Grown(doc, e) =
        [doc EXCEPT !.count = doc.count + 1,
                    !.listed = LastListed(Append(doc.listed, e)),
                    !.severity = Larger(doc.severity, event[e].severity),
                    !.last = Larger(doc.last, event[e].at)]
  BY DEF Grown, Documents
<1>4. Grown(doc, e).listed = LastListed(Append(doc.listed, e))
  BY <1>3 DEF Documents
<1> HIDE DEF LastListed, Larger
<1> QED
  BY <1>1, <1>2, <1>3, <1>4 DEF Documents

\* A new incident is a document.
LEMMA Starting ==
  ASSUME event \in [Events -> [key : Keys, at : Times, severity : Severities]],
         NEW e \in Events
  PROVE  /\ NewIncident(e) \in Documents
         /\ NewIncident(e).listed = <<e>>
         /\ Len(NewIncident(e).listed) <= MaxListed
<1>1. Cardinality(Incidents) \in Nat
  <2>1. Incidents \subseteq Events
    BY DEF Incidents
  <2> QED
    BY <2>1, FS_Subset, FS_CardinalityType, IncidentAssumption
<1>2. /\ <<e>> \in Seq(Events) /\ Len(<<e>>) = 1 /\ "open" \in Statuses
      /\ event[e].key \in Keys /\ event[e].at \in Times
      /\ event[e].severity \in Severities
  BY DEF Statuses
<1> QED
  BY <1>1, <1>2, IncidentAssumption DEF NewIncident, Documents

\* An update of one document keeps the types of the collection.
LEMMA Storing ==
  ASSUME TypeOK, NEW i \in Events, NEW doc \in Documents,
         Len(doc.listed) <= MaxListed,
         incident' = [incident EXCEPT ![i] = doc]
  PROVE  /\ incident' \in [Events -> Documents \cup {NoIncident}]
         /\ \A j \in Events : Len(incident'[j].listed) <= MaxListed
BY DEF TypeOK

\* Every step of the tasks and the analysts keeps the types.
LEMMA TypeStep == TypeOK /\ [Next]_vars => TypeOK'
<1> USE IncidentAssumption
<1> SUFFICES ASSUME TypeOK, [Next]_vars PROVE TypeOK'
  OBVIOUS
<1>1. ASSUME NEW e \in Events, CheckRecorded(e) PROVE TypeOK'
  BY <1>1 DEF TypeOK, CheckRecorded
<1>2. ASSUME NEW e \in Events, Coalesce(e) PROVE TypeOK'
  <2>1. CASE UNCHANGED <<incident, joined>>
    BY <1>2, <2>1 DEF TypeOK, Coalesce
  <2>2. ASSUME NEW i \in Incidents,
               incident' = [incident EXCEPT ![i] = Grown(@, e)],
               joined' = [joined EXCEPT ![e] = i],
               task' = [task EXCEPT ![e] = "finished"]
        PROVE  TypeOK'
    <3>1. i \in Events /\ incident[i] \in Documents
      BY DEF Incidents, TypeOK
    <3>2. /\ Grown(incident[i], e) \in Documents
          /\ Len(Grown(incident[i], e).listed) <= MaxListed
      BY <3>1, Growing DEF TypeOK
    <3>3. incident' = [incident EXCEPT ![i] = Grown(incident[i], e)]
      BY <2>2
    <3> QED
      BY <1>2, <2>2, <3>1, <3>2, <3>3, Storing DEF TypeOK, Coalesce
  <2> QED
    BY <1>2, <2>1, <2>2 DEF Coalesce
<1>3. ASSUME NEW e \in Events, CreateIncident(e) PROVE TypeOK'
  <2>1. /\ NewIncident(e) \in Documents
        /\ Len(NewIncident(e).listed) <= MaxListed
    BY Starting DEF TypeOK
  <2>2. CASE incident[e] = NoIncident
    <3>1. incident' = [incident EXCEPT ![e] = NewIncident(e)]
      BY <1>3, <2>2 DEF CreateIncident
    <3> QED
      BY <1>3, <2>1, <3>1, Storing DEF TypeOK, CreateIncident
  <2>3. CASE incident[e] # NoIncident
    <3>1. incident' = incident
      BY <1>3, <2>3 DEF CreateIncident, TypeOK
    <3> QED
      BY <1>3, <3>1 DEF TypeOK, CreateIncident
  <2> QED
    BY <2>2, <2>3
<1>4. ASSUME NEW e \in Events, TaskFails(e) PROVE TypeOK'
  BY <1>4 DEF TypeOK, TaskFails
<1>5. ASSUME NEW i \in Events, NEW status \in Statuses, UpdateIncident(i, status)
      PROVE  TypeOK'
  <2>1. incident[i] \in Documents
    BY <1>5 DEF UpdateIncident, Incidents, TypeOK
  <2>2. /\ [incident[i] EXCEPT !.status = status] \in Documents
        /\ [incident[i] EXCEPT !.status = status].listed = incident[i].listed
    BY <2>1 DEF Documents
  <2>3. incident' = [incident EXCEPT ![i] = [incident[i] EXCEPT !.status = status]]
    BY <1>5 DEF UpdateIncident
  <2>4. updates' \in 0 .. MaxUpdates
    BY <1>5 DEF UpdateIncident, TypeOK
  <2> QED
    BY <1>5, <2>2, <2>3, <2>4, Storing DEF TypeOK, UpdateIncident
<1>6. CASE UNCHANGED vars
  BY <1>6 DEF TypeOK, vars, Incidents
<1> QED
  BY <1>1, <1>2, <1>3, <1>4, <1>5, <1>6 DEF Next, Process

\* The documents of the collection and the tasks keep their types, and no
\* document lists more than MaxListed events.
LEMMA Typing == Spec => []TypeOK
<1>1. Init => TypeOK
  <2> SUFFICES ASSUME Init PROVE TypeOK
    OBVIOUS
  <2>1. \A i \in Events : incident[i] = NoIncident
    BY DEF Init
  <2>2. Len(NoIncident.listed) = 0
    BY DEF NoIncident
  <2> QED
    BY <2>1, <2>2, IncidentAssumption DEF Init, TypeOK
<1> QED
  BY <1>1, TypeStep, PTL DEF Spec

-----------------------------------------------------------------------------

\* What makes InOneIncident inductive: an event is listed only where it was
\* taken in, and a task that is not finished has put its event nowhere.
Ledger ==
    /\ \A i \in Events : Members(incident[i]) \subseteq JoinedTo(i)
    /\ \A e \in Events : task[e] # "finished" => joined[e] = None

\* Listing an event where its task put it keeps the ledger, whatever older
\* events the cap drops from the list.
LEMMA Listing ==
  ASSUME TypeOK, Ledger, NEW i \in Events, NEW e \in Events,
         task[e] # "finished",
         NEW doc, Members(doc) \subseteq Members(incident[i]) \cup {e},
         incident' = [incident EXCEPT ![i] = doc],
         joined' = [joined EXCEPT ![e] = i],
         task' = [task EXCEPT ![e] = "finished"]
  PROVE  Ledger'
<1>1. joined[e] = None
  BY DEF Ledger
<1>2. \A j \in Events : JoinedTo(j) \subseteq JoinedTo(j)'
  BY <1>1, IncidentAssumption DEF JoinedTo, TypeOK
<1>3. e \in JoinedTo(i)'
  BY DEF JoinedTo, TypeOK
<1>4. ASSUME NEW j \in Events PROVE Members(incident'[j]) \subseteq JoinedTo(j)'
  <2>1. CASE j = i
    <3>1. incident'[j] = doc
      BY <2>1 DEF TypeOK
    <3> QED
      BY <2>1, <3>1, <1>2, <1>3 DEF Ledger
  <2>2. CASE j # i
    <3>1. incident'[j] = incident[j]
      BY <2>2 DEF TypeOK
    <3> QED
      BY <3>1, <1>2 DEF Ledger
  <2> QED
    BY <2>1, <2>2
<1>5. \A d \in Events : task'[d] # "finished" => joined'[d] = None
  BY DEF Ledger, TypeOK
<1> QED
  BY <1>4, <1>5 DEF Ledger, JoinedTo

\* The ledger is kept by every step.
LEMMA LedgerHolds == Spec => []Ledger
<1>1. Init => Ledger
  <2> SUFFICES ASSUME Init PROVE Ledger
    OBVIOUS
  <2>1. \A i \in Events : incident[i] = NoIncident
    BY DEF Init
  <2>2. Members(NoIncident) = {}
    BY DEF Members, NoIncident
  <2> QED
    BY <2>1, <2>2 DEF Init, Ledger
<1>2. TypeOK /\ Ledger /\ [Next]_vars => Ledger'
  <2> SUFFICES ASSUME TypeOK, Ledger, [Next]_vars PROVE Ledger'
    OBVIOUS
  <2>1. ASSUME NEW e \in Events, CheckRecorded(e) PROVE Ledger'
    BY <2>1 DEF TypeOK, Ledger, CheckRecorded, JoinedTo
  <2>2. ASSUME NEW e \in Events, Coalesce(e) PROVE Ledger'
    <3>1. CASE UNCHANGED <<incident, joined>>
      BY <2>2, <3>1 DEF TypeOK, Ledger, Coalesce, JoinedTo
    <3>2. ASSUME NEW i \in Incidents,
                 incident' = [incident EXCEPT ![i] = Grown(@, e)],
                 joined' = [joined EXCEPT ![e] = i],
                 task' = [task EXCEPT ![e] = "finished"]
          PROVE  Ledger'
      <4>1. i \in Events /\ incident[i] \in Documents
            /\ Len(incident[i].listed) <= MaxListed
        BY DEF Incidents, TypeOK
      <4>2. Grown(incident[i], e).listed = LastListed(Append(incident[i].listed, e))
        BY <4>1, Growing DEF TypeOK
      <4>3. incident[i].listed \in Seq(Events)
        BY <4>1 DEF Documents
      <4>4. Members(Grown(incident[i], e)) \subseteq Members(incident[i]) \cup {e}
        BY <4>2, <4>3, Appending DEF Members
      <4>5. incident' = [incident EXCEPT ![i] = Grown(incident[i], e)]
        BY <3>2
      <4>6. task[e] # "finished"
        BY <2>2 DEF Coalesce
      <4> QED
        BY <3>2, <4>1, <4>4, <4>5, <4>6, Listing
    <3> QED
      BY <2>2, <3>1, <3>2 DEF Coalesce
  <2>3. ASSUME NEW e \in Events, CreateIncident(e) PROVE Ledger'
    <3> DEFINE doc == IF incident[e] = NoIncident THEN NewIncident(e) ELSE incident[e]
    <3>1. Members(NewIncident(e)) = {e}
      BY DEF Members, NewIncident
    <3>2. Members(doc) \subseteq Members(incident[e]) \cup {e}
      BY <3>1
    <3>3. /\ incident' = [incident EXCEPT ![e] = doc]
          /\ joined' = [joined EXCEPT ![e] = e]
          /\ task' = [task EXCEPT ![e] = "finished"]
          /\ task[e] # "finished"
      BY <2>3 DEF CreateIncident
    <3> HIDE DEF doc
    <3> QED
      BY <3>2, <3>3, Listing
  <2>4. ASSUME NEW e \in Events, TaskFails(e) PROVE Ledger'
    BY <2>4 DEF TypeOK, Ledger, TaskFails, JoinedTo
  <2>5. ASSUME NEW i \in Events, NEW status \in Statuses, UpdateIncident(i, status)
        PROVE  Ledger'
    <3>1. incident[i] \in Documents
      BY <2>5 DEF UpdateIncident, Incidents, TypeOK
    <3>2. [incident[i] EXCEPT !.status = status].listed = incident[i].listed
      BY <3>1 DEF Documents
    <3>3. incident' = [incident EXCEPT ![i] = [incident[i] EXCEPT !.status = status]]
      BY <2>5 DEF UpdateIncident
    <3>4. \A j \in Events : incident'[j].listed = incident[j].listed
      BY <3>2, <3>3 DEF TypeOK
    <3>5. \A j \in Events : Members(incident'[j]) = Members(incident[j])
      BY <3>4 DEF Members
    <3> QED
      BY <2>5, <3>5 DEF Ledger, JoinedTo, UpdateIncident
  <2>6. CASE UNCHANGED vars
    BY <2>6 DEF Ledger, JoinedTo, vars
  <2> QED
    BY <2>1, <2>2, <2>3, <2>4, <2>5, <2>6 DEF Next, Process
<1> QED
  BY <1>1, <1>2, Typing, PTL DEF Spec

\* No event is counted by two incidents, for any events, tasks and times.
THEOREM NothingIsCountedTwice == Spec => []InOneIncident
<1>1. Ledger => InOneIncident
  BY DEF Ledger, InOneIncident, JoinedTo, Incidents
<1> QED
  BY <1>1, LedgerHolds, PTL

\* A resolved or closed incident never grows, whichever task is under way.
THEOREM SettledIncidentsRest == Spec => SettledStaysAsItIs
<1> DEFINE Rests(i) == incident[i].status \notin Active =>
                incident'[i] = [incident[i] EXCEPT !.status = incident'[i].status]
<1>1. ASSUME TypeOK, NEW i \in Incidents, incident'[i] = incident[i] PROVE Rests(i)
  <2>1. incident[i] \in Documents
    BY <1>1 DEF Incidents, TypeOK
  <2> QED
    BY <1>1, <2>1 DEF Documents
<1>2. TypeOK /\ [Next]_vars => [\A i \in Incidents : Rests(i)]_vars
  <2> SUFFICES ASSUME TypeOK, Next, NEW i \in Incidents PROVE Rests(i)
    BY DEF vars
  <2> HIDE DEF Rests
  <2>0. i \in Events
    BY DEF Incidents
  <2>1. CASE UNCHANGED incident
    BY <2>1, <1>1
  <2>2. ASSUME NEW e \in Events, NEW j \in Incidents, Matches(j, e),
               incident' = [incident EXCEPT ![j] = Grown(@, e)]
        PROVE  Rests(i)
    <3>1. CASE i = j
      BY <3>1, <2>2 DEF Rests, Matches
    <3>2. CASE i # j
      <4>1. incident'[i] = incident[i]
        BY <3>2, <2>0, <2>2 DEF TypeOK
      <4> QED
        BY <4>1, <1>1
    <3> QED
      BY <3>1, <3>2
  <2>3. ASSUME NEW e \in Events, CreateIncident(e) PROVE Rests(i)
    <3>1. incident[i] # NoIncident
      BY DEF Incidents
    <3>2. incident'[i] = incident[i]
      BY <2>0, <2>3, <3>1 DEF CreateIncident, TypeOK
    <3> QED
      BY <3>2, <1>1
  <2>4. ASSUME NEW j \in Events, NEW status \in Statuses, UpdateIncident(j, status)
        PROVE  Rests(i)
    <3>1. CASE i = j
      <4>1. incident[i] \in Documents
        BY <2>0 DEF Incidents, TypeOK
      <4>2. incident'[i] = [incident[i] EXCEPT !.status = status]
        BY <2>0, <2>4, <3>1 DEF UpdateIncident, TypeOK
      <4>3. [incident[i] EXCEPT !.status = status].status = status
        BY <4>1 DEF Documents
      <4> QED
        BY <4>2, <4>3 DEF Rests
    <3>2. CASE i # j
      <4>1. incident'[i] = incident[i]
        BY <2>0, <2>4, <3>2 DEF UpdateIncident, TypeOK
      <4> QED
        BY <4>1, <1>1
    <3> QED
      BY <3>1, <3>2
  <2> QED
    BY <2>1, <2>2, <2>3, <2>4
       DEF Next, Process, CheckRecorded, Coalesce, TaskFails
<1> QED
  BY <1>2, Typing, PTL DEF Spec, SettledStaysAsItIs

-----------------------------------------------------------------------------
(* The sums.                                                                *)

\* What an incident says of its events, without the members that Ledger has.
Total(i) ==
    /\ incident[i].listed # <<>> /\ Distinct(incident[i].listed)
    /\ incident[i].count = Cardinality(JoinedTo(i))
    /\ \A e \in JoinedTo(i) :
          event[e].severity <= incident[i].severity /\ event[e].at <= incident[i].last
    /\ \E e \in JoinedTo(i) : event[e].severity = incident[i].severity
    /\ \E e \in JoinedTo(i) : event[e].at = incident[i].last

\* An incident is there if and only if it took events in, and nobody but the
\* task of an event makes the incident that bears its name.
Sums ==
    /\ \A i \in Events : incident[i] = NoIncident => JoinedTo(i) = {}
    /\ \A e \in Events : task[e] # "finished" => incident[e] = NoIncident
    /\ \A i \in Incidents : Total(i)

\* A list without repetitions counts its members.
LEMMA CountingDistinct ==
  ASSUME NEW ids \in Seq(Events), Distinct(ids)
  PROVE  Len(ids) = Cardinality({ids[n] : n \in DOMAIN ids})
<1> DEFINE S == {ids[n] : n \in DOMAIN ids}
           f == [n \in 1 .. Len(ids) |-> ids[n]]
<1>1. DOMAIN ids = 1 .. Len(ids) /\ Len(ids) \in Nat
  OBVIOUS
<1>2. f \in Bijection(1 .. Len(ids), S)
  <2>1. f \in [1 .. Len(ids) -> S]
    BY <1>1
  <2>2. \A a, b \in 1 .. Len(ids) : f[a] = f[b] => a = b
    BY <1>1 DEF Distinct
  <2>3. \A x \in S : \E a \in 1 .. Len(ids) : f[a] = x
    BY <1>1
  <2> QED
    BY <2>1, <2>2, <2>3 DEF Bijection, Injection, Surjection, IsInjective
<1>3. ExistsBijection(1 .. Len(ids), S)
  BY <1>2 DEF ExistsBijection
<1> QED
  BY <1>1, <1>3, FS_CountingElements

\* The cap keeps a list free of repetitions, and never empties it.
LEMMA AppendingDistinct ==
  ASSUME NEW ids \in Seq(Events), Distinct(ids),
         NEW e \in Events, \A n \in DOMAIN ids : ids[n] # e
  PROVE  /\ Distinct(Append(ids, e))
         /\ Distinct(LastListed(Append(ids, e)))
         /\ LastListed(Append(ids, e)) # <<>>
<1> DEFINE new == Append(ids, e)
<1>1. /\ new \in Seq(Events) /\ Len(new) = Len(ids) + 1 /\ Len(ids) \in Nat
      /\ \A n \in 1 .. Len(new) : new[n] = IF n <= Len(ids) THEN ids[n] ELSE e
      /\ DOMAIN ids = 1 .. Len(ids) /\ DOMAIN new = 1 .. Len(new) /\ new # <<>>
  OBVIOUS
<1> HIDE DEF new
<1>2. Distinct(new)
  <2> SUFFICES ASSUME NEW m \in 1 .. Len(new), NEW n \in 1 .. Len(new), new[m] = new[n]
               PROVE  m = n
    BY <1>1 DEF Distinct
  <2>1. CASE m <= Len(ids) /\ n <= Len(ids)
    BY <2>1, <1>1 DEF Distinct
  <2>2. CASE m > Len(ids) /\ n > Len(ids)
    BY <2>2, <1>1
  <2>3. CASE m <= Len(ids) /\ n > Len(ids)
    BY <2>3, <1>1
  <2>4. CASE m > Len(ids) /\ n <= Len(ids)
    BY <2>4, <1>1
  <2> QED
    BY <1>1, <2>1, <2>2, <2>3, <2>4
<1> QED
  BY <1>1, <1>2, Capping DEF new

\* A task that puts its event somewhere adds one to what is there.
LEMMA OneMore ==
  ASSUME TypeOK, Ledger, NEW i \in Events, NEW e \in Events, task[e] # "finished",
         joined' = [joined EXCEPT ![e] = i]
  PROVE  /\ e \notin JoinedTo(i) /\ JoinedTo(i)' = JoinedTo(i) \cup {e}
         /\ Cardinality(JoinedTo(i)') = Cardinality(JoinedTo(i)) + 1
         /\ Cardinality(JoinedTo(i)) \in Nat
         /\ \A j \in Events \ {i} : JoinedTo(j)' = JoinedTo(j)
<1>1. joined[e] = None /\ None \notin Events
  BY IncidentAssumption DEF Ledger
<1>2. e \notin JoinedTo(i) /\ JoinedTo(i)' = JoinedTo(i) \cup {e}
  BY <1>1 DEF JoinedTo, TypeOK
<1>3. \A j \in Events \ {i} : JoinedTo(j)' = JoinedTo(j)
  BY <1>1 DEF JoinedTo, TypeOK
<1>4. JoinedTo(i) \subseteq Events
  BY DEF JoinedTo
<1>5. IsFiniteSet(JoinedTo(i)) /\ Cardinality(JoinedTo(i)) \in Nat
  BY <1>4, FS_Subset, FS_CardinalityType, IncidentAssumption
<1>6. Cardinality(JoinedTo(i) \cup {e}) = Cardinality(JoinedTo(i)) + 1
  BY <1>2, <1>5, FS_AddElement
<1> QED
  BY <1>2, <1>3, <1>5, <1>6

\* Taking in an event keeps the sums, if the document that took it in is right.
LEMMA TakingIn ==
  ASSUME TypeOK, Ledger, Sums, NEW i \in Events, NEW e \in Events, task[e] # "finished",
         NEW doc, incident' = [incident EXCEPT ![i] = doc],
         joined' = [joined EXCEPT ![e] = i],
         task' = [task EXCEPT ![e] = "finished"], event' = event,
         doc # NoIncident, Total(i)',
         task[i] # "finished" => i = e
  PROVE  Sums'
<1>1. /\ \A j \in Events \ {i} : JoinedTo(j)' = JoinedTo(j)
      /\ \A j \in Events : incident'[j] = IF j = i THEN doc ELSE incident[j]
  BY OneMore DEF TypeOK
<1>2. \A j \in Events : incident'[j] = NoIncident => JoinedTo(j)' = {}
  BY <1>1 DEF Sums
<1>3. \A d \in Events : task'[d] # "finished" => incident'[d] = NoIncident
  BY <1>1 DEF Sums, TypeOK
<1>4. ASSUME NEW j \in Incidents' PROVE Total(j)'
  <2>1. CASE j = i
    BY <2>1
  <2>2. CASE j # i
    <3>1. j \in Incidents /\ incident'[j] = incident[j] /\ JoinedTo(j)' = JoinedTo(j)
      BY <1>1, <2>2 DEF Incidents
    <3> QED
      BY <3>1 DEF Sums, Total
  <2> QED
    BY <2>1, <2>2
<1> QED
  BY <1>2, <1>3, <1>4 DEF Sums

LEMMA CoalesceSums ==
  ASSUME TypeOK, Ledger, Sums, NEW e \in Events, task[e] = "unrecorded", event' = event,
         NEW i \in Incidents,
         incident' = [incident EXCEPT ![i] = Grown(@, e)],
         joined' = [joined EXCEPT ![e] = i],
         task' = [task EXCEPT ![e] = "finished"]
  PROVE  Sums'
<1> DEFINE doc == Grown(incident[i], e)
<1>1. /\ i \in Events /\ incident[i] \in Documents /\ Len(incident[i].listed) <= MaxListed
      /\ Total(i) /\ task[i] = "finished"
  BY DEF Incidents, TypeOK, Sums
<1>2. doc.listed = LastListed(Append(incident[i].listed, e))
  BY <1>1, Growing DEF TypeOK
<1>3. incident'[i] = doc /\ incident' = [incident EXCEPT ![i] = doc]
  BY <1>1 DEF TypeOK
<1>4. /\ doc.count = incident[i].count + 1
      /\ doc.severity = Larger(incident[i].severity, event[e].severity)
      /\ doc.last = Larger(incident[i].last, event[e].at)
  BY <1>1 DEF Grown, Documents
<1>5. /\ e \notin JoinedTo(i) /\ JoinedTo(i)' = JoinedTo(i) \cup {e}
      /\ Cardinality(JoinedTo(i)') = Cardinality(JoinedTo(i)) + 1
  BY <1>1, OneMore
<1>6. doc.listed # <<>> /\ Distinct(doc.listed)
  <2>1. \A n \in DOMAIN incident[i].listed : incident[i].listed[n] # e
    BY <1>1, <1>5 DEF Ledger, Members
  <2> QED
    BY <1>1, <1>2, <2>1, AppendingDistinct DEF Documents, Total
<1>7. doc # NoIncident
  BY <1>6 DEF NoIncident
<1>8. Total(i)'
  <2> HIDE DEF doc
  <2>1. /\ incident[i].severity \in Nat /\ incident[i].last \in Nat
        /\ \A d \in Events : event[d].severity \in Nat /\ event[d].at \in Nat
    BY <1>1, IncidentAssumption DEF Documents, TypeOK
  <2>2. \A d \in JoinedTo(i)' : event[d].severity <= doc.severity /\ event[d].at <= doc.last
    <3>1. JoinedTo(i) \subseteq Events
      BY DEF JoinedTo
    <3> QED
      BY <1>1, <1>4, <1>5, <2>1, <3>1 DEF Total, Larger
  <2>3. \E d \in JoinedTo(i)' : event[d].severity = doc.severity
    BY <1>1, <1>4, <1>5 DEF Total, Larger
  <2>4. \E d \in JoinedTo(i)' : event[d].at = doc.last
    BY <1>1, <1>4, <1>5 DEF Total, Larger
  <2>5. doc.count = Cardinality(JoinedTo(i)')
    BY <1>1, <1>4, <1>5 DEF Total
  <2> QED
    BY <1>3, <1>6, <2>2, <2>3, <2>4, <2>5 DEF Total
<1> HIDE DEF doc
<1> QED
  BY <1>1, <1>3, <1>7, <1>8, TakingIn

LEMMA CreateSums ==
  ASSUME TypeOK, Ledger, Sums, NEW e \in Events, CreateIncident(e)
  PROVE  Sums'
<1> DEFINE doc == NewIncident(e)
<1>1. /\ task[e] # "finished" /\ incident[e] = NoIncident /\ JoinedTo(e) = {}
      /\ event' = event
  BY DEF CreateIncident, Sums
<1>2. /\ incident' = [incident EXCEPT ![e] = doc]
      /\ joined' = [joined EXCEPT ![e] = e]
      /\ task' = [task EXCEPT ![e] = "finished"]
      /\ incident'[e] = doc
  BY <1>1 DEF CreateIncident, TypeOK
<1>3. doc.listed = <<e>> /\ doc.count = 1 /\ doc.severity = event[e].severity
      /\ doc.last = event[e].at
  BY DEF NewIncident
<1>4. JoinedTo(e)' = {e} /\ Cardinality(JoinedTo(e)') = 1
  <2>1. JoinedTo(e)' = JoinedTo(e) \cup {e}
    <3>1. task[e] # "finished" /\ joined' = [joined EXCEPT ![e] = e]
      BY <1>1, <1>2
    <3> QED
      BY <3>1, OneMore
  <2>2. JoinedTo(e)' = {e}
    BY <2>1, <1>1
  <2> QED
    BY <2>2, FS_Singleton
<1>5. Total(e)'
  <2> HIDE DEF doc
  <2>1. event[e].severity \in Nat /\ event[e].at \in Nat
    BY IncidentAssumption DEF TypeOK
  <2>2. Distinct(doc.listed) /\ doc.listed # <<>>
    BY <1>3 DEF Distinct
  <2>3. \A d \in JoinedTo(e)' : d = e
    BY <1>4
  <2>4. e \in JoinedTo(e)'
    BY <1>4
  <2>5. /\ \A d \in JoinedTo(e)' : event'[d].severity <= doc.severity /\ event'[d].at <= doc.last
        /\ \E d \in JoinedTo(e)' : event'[d].severity = doc.severity
        /\ \E d \in JoinedTo(e)' : event'[d].at = doc.last
    BY <1>1, <1>3, <2>1, <2>3, <2>4
  <2>6. doc.count = Cardinality(JoinedTo(e)')
    BY <1>3, <1>4
  <2> QED
    BY <1>2, <2>2, <2>5, <2>6 DEF Total
<1>6. doc # NoIncident
  BY <1>3 DEF NoIncident
<1> HIDE DEF doc
<1> QED
  BY <1>1, <1>2, <1>5, <1>6, TakingIn

\* An analyst changes nothing that is summed.
LEMMA UpdateSums ==
  ASSUME TypeOK, Sums, NEW i \in Events, NEW status \in Statuses, UpdateIncident(i, status)
  PROVE  Sums'
<1> DEFINE doc == [incident[i] EXCEPT !.status = status]
<1>1. i \in Incidents /\ incident[i] \in Documents /\ Total(i)
  BY DEF UpdateIncident, Incidents, TypeOK, Sums
<1>2. /\ doc.listed = incident[i].listed /\ doc.count = incident[i].count
      /\ doc.severity = incident[i].severity /\ doc.last = incident[i].last
  BY <1>1 DEF Documents
<1>3. \A j \in Events : incident'[j] = IF j = i THEN doc ELSE incident[j]
  BY DEF UpdateIncident, TypeOK
<1>4. UNCHANGED <<event, task, joined>> /\ \A j \in Events : JoinedTo(j)' = JoinedTo(j)
  BY DEF UpdateIncident, JoinedTo
<1> HIDE DEF doc
<1>5. doc # NoIncident
  BY <1>1, <1>2 DEF NoIncident, Total
<1>6. \A j \in Events : incident'[j] = NoIncident <=> incident[j] = NoIncident
  BY <1>1, <1>3, <1>5 DEF Incidents
<1>7. ASSUME NEW j \in Incidents' PROVE Total(j)'
  <2>1. j \in Incidents /\ j \in Events /\ JoinedTo(j)' = JoinedTo(j)
    BY <1>4, <1>6 DEF Incidents
  <2>2. /\ incident'[j].listed = incident[j].listed /\ incident'[j].count = incident[j].count
        /\ incident'[j].severity = incident[j].severity /\ incident'[j].last = incident[j].last
    BY <1>2, <1>3, <2>1
  <2> QED
    BY <1>4, <2>1, <2>2 DEF Sums, Total
<1> QED
  BY <1>4, <1>6, <1>7 DEF Sums

\* A step that takes no event in and changes no incident.
LEMMA RestingSums ==
  ASSUME Sums, UNCHANGED <<event, incident, joined>>,
         \A e \in Events : task'[e] # "finished" => task[e] # "finished"
  PROVE  Sums'
<1>1. Incidents' = Incidents /\ \A i \in Events : JoinedTo(i)' = JoinedTo(i)
  BY DEF Incidents, JoinedTo
<1> QED
  BY <1>1 DEF Sums, Total, Incidents

LEMMA SumsStep ==
  ASSUME TypeOK, Ledger, Sums, [Next]_vars PROVE Sums'
<1>1. ASSUME NEW e \in Events, CheckRecorded(e) \/ TaskFails(e) PROVE Sums'
  BY <1>1, RestingSums DEF CheckRecorded, TaskFails, TypeOK
<1>2. ASSUME NEW e \in Events, Coalesce(e) PROVE Sums'
  <2>1. CASE UNCHANGED <<incident, joined>> /\ task' = [task EXCEPT ![e] = "unmatched"]
    BY <1>2, <2>1, RestingSums DEF Coalesce, TypeOK
  <2>2. ASSUME NEW i \in Incidents,
               incident' = [incident EXCEPT ![i] = Grown(@, e)],
               joined' = [joined EXCEPT ![e] = i],
               task' = [task EXCEPT ![e] = "finished"]
        PROVE  Sums'
    BY <1>2, <2>2, CoalesceSums DEF Coalesce
  <2> QED
    BY <1>2, <2>1, <2>2 DEF Coalesce
<1>3. ASSUME NEW e \in Events, CreateIncident(e) PROVE Sums'
  BY <1>3, CreateSums
<1>4. ASSUME NEW i \in Events, NEW status \in Statuses, UpdateIncident(i, status) PROVE Sums'
  BY <1>4, UpdateSums
<1>5. CASE UNCHANGED vars
  BY <1>5, RestingSums DEF vars
<1> QED
  BY <1>1, <1>2, <1>3, <1>4, <1>5 DEF Next, Process

\* An incident sums up exactly the events it took in, for any number of events
\* and any order in which their tasks run.
THEOREM SumsAreRight == Spec => []SummaryIsOfItsEvents
<1>1. Init => Sums
  BY IncidentAssumption DEF Init, Sums, Incidents, JoinedTo
<1>2. TypeOK /\ Ledger /\ Sums => SummaryIsOfItsEvents
  <2> SUFFICES ASSUME TypeOK, Ledger, Sums, NEW i \in Incidents
               PROVE  /\ Members(incident[i]) \subseteq JoinedTo(i)
                      /\ Len(incident[i].listed) = Cardinality(Members(incident[i]))
                      /\ Total(i)
    BY DEF SummaryIsOfItsEvents, Total
  <2>1. i \in Events /\ incident[i].listed \in Seq(Events) /\ Total(i)
    BY DEF Incidents, TypeOK, Documents, Sums
  <2>2. Len(incident[i].listed) = Cardinality(Members(incident[i]))
    BY <2>1, CountingDistinct DEF Members, Total
  <2> QED
    BY <2>1, <2>2 DEF Ledger
<1> QED
  BY <1>1, <1>2, SumsStep, Typing, LedgerHolds, PTL DEF Spec

-----------------------------------------------------------------------------
(* Orders of finite sets.                                                   *)

LEMMA LeastNatural ==
  ASSUME NEW N \in SUBSET Nat, N # {}
  PROVE  \E m \in N : \A n \in N : m <= n
<1> DEFINE R == OpToRel(<, Nat)
<1>1. IsWellFoundedOn(R, Nat)
  BY NatLessThanWellFounded
<1>2. PICK m \in N : \A n \in N : ~ (<<n, m>> \in R)
  <2> HIDE DEF R
  <2> QED
    BY <1>1, WFMin
<1>3. \A n \in N : ~ (n < m)
  BY <1>2 DEF OpToRel
<1> QED
  BY <1>3

LEMMA MinIsLeast ==
  ASSUME NEW N \in SUBSET Nat, N # {}
  PROVE  Min(N) \in N /\ \A n \in N : Min(N) <= n
BY LeastNatural DEF Min

\* R compares any two members of S, and is transitive on it.
Compares(R, S) ==
    /\ \A x, y \in S : <<x, y>> \in R \/ <<y, x>> \in R
    /\ \A x, y, z \in S : <<x, y>> \in R /\ <<y, z>> \in R => <<x, z>> \in R

\* A finite set has a last member.
LEMMA LastOne ==
  ASSUME NEW S, IsFiniteSet(S), S # {}, NEW R, Compares(R, S)
  PROVE  \E m \in S : \A x \in S : <<x, m>> \in R
<1> DEFINE HasLast(T) == \E m \in T : \A x \in T : <<x, m>> \in R
           Without == {T \in SUBSET S : T # {} /\ ~HasLast(T)}
           Sizes == {n \in Nat : \E T \in Without : Cardinality(T) = n}
<1> HIDE DEF HasLast
<1> SUFFICES ASSUME ~HasLast(S) PROVE FALSE
  BY DEF HasLast
<1>1. \A T \in SUBSET S : IsFiniteSet(T) /\ Cardinality(T) \in Nat
  BY FS_Subset, FS_CardinalityType
<1>2. Sizes \in SUBSET Nat /\ Sizes # {}
  BY <1>1
<1>3. PICK n \in Sizes : \A k \in Sizes : n <= k
  BY <1>2, LeastNatural
<1>4. PICK T \in Without : Cardinality(T) = n
  BY <1>3
<1>5. PICK x \in T : TRUE
  BY <1>4
<1> DEFINE U == T \ {x}
<1>6. U \in SUBSET S /\ Cardinality(U) = n - 1 /\ Cardinality(U) \in Nat
  BY <1>1, <1>4, <1>5, FS_RemoveElement
<1>7. U = {} \/ HasLast(U)
  BY <1>3, <1>6
<1>8. HasLast(T)
  <2>1. x \in S /\ <<x, x>> \in R
    BY <1>4, <1>5 DEF Compares
  <2>2. CASE U = {}
    BY <1>5, <2>1, <2>2 DEF HasLast
  <2>3. CASE HasLast(U)
    <3>1. PICK m \in U : \A y \in U : <<y, m>> \in R
      BY <2>3 DEF HasLast
    <3>2. m \in T /\ m \in S /\ T \subseteq S
      BY <1>4, <3>1
    <3>3. CASE <<x, m>> \in R
      BY <3>1, <3>2, <3>3 DEF HasLast
    <3>4. CASE <<m, x>> \in R
      <4>1. \A y \in T : <<y, x>> \in R
        BY <2>1, <3>1, <3>2, <3>4 DEF Compares
      <4> QED
        BY <1>5, <4>1 DEF HasLast
    <3> QED
      BY <2>1, <3>2, <3>3, <3>4 DEF Compares
  <2> QED
    BY <1>7, <2>2, <2>3
<1> QED
  BY <1>4, <1>8

LEMMA MaxIsLargest ==
  ASSUME NEW N \in SUBSET Nat, IsFiniteSet(N), N # {}
  PROVE  Max(N) \in N /\ \A n \in N : n <= Max(N)
<1> DEFINE R == {p \in N \X N : p[1] <= p[2]}
<1>1. \A x, y \in N : <<x, y>> \in R <=> x <= y
  OBVIOUS
<1>2. Compares(R, N)
  <2> HIDE DEF R
  <2> QED
    BY <1>1 DEF Compares
<1> HIDE DEF R
<1>3. \E m \in N : \A n \in N : <<n, m>> \in R
  BY <1>2, LastOne
<1>4. \E m \in N : \A n \in N : m >= n
  BY <1>1, <1>3
<1>5. Max(N) \in N /\ \A n \in N : Max(N) >= n
  BY <1>4 DEF Max
<1> QED
  BY <1>5

Arranges(s, S, R) ==
    /\ s \in [1 .. Cardinality(S) -> S]
    /\ \A m, n \in 1 .. Cardinality(S) : m < n => s[m] # s[n] /\ <<s[m], s[n]>> \in R

\* A finite set can be put in order: all but its last member can be, and that
\* one comes after them.
LEMMA Arrangement ==
  ASSUME NEW S, IsFiniteSet(S), NEW R, Compares(R, S)
  PROVE  \E s : Arranges(s, S, R)
<1> DEFINE Without == {T \in SUBSET S : ~ \E s : Arranges(s, T, R)}
           Sizes == {n \in Nat : \E T \in Without : Cardinality(T) = n}
<1> SUFFICES ASSUME ~ \E s : Arranges(s, S, R) PROVE FALSE
  OBVIOUS
<1>1. \A T \in SUBSET S : IsFiniteSet(T) /\ Cardinality(T) \in Nat
  BY FS_Subset, FS_CardinalityType
<1>2. Sizes \in SUBSET Nat /\ Sizes # {}
  BY <1>1
<1>3. PICK n \in Sizes : \A k \in Sizes : n <= k
  BY <1>2, LeastNatural
<1>4. PICK T \in Without : Cardinality(T) = n
  BY <1>3
<1>5. T \subseteq S /\ IsFiniteSet(T) /\ n \in Nat /\ Compares(R, T)
  BY <1>1, <1>4 DEF Compares
<1>6. T # {}
  <2> SUFFICES ASSUME T = {} PROVE FALSE
    OBVIOUS
  <2>1. Cardinality(T) = 0
    BY FS_EmptySet
  <2>2. [k \in 1 .. 0 |-> k] \in [1 .. 0 -> T]
    OBVIOUS
  <2>3. Arranges([k \in 1 .. 0 |-> k], T, R)
    BY <2>1, <2>2 DEF Arranges
  <2> QED
    BY <1>4, <2>3
<1>7. PICK last \in T : \A x \in T : <<x, last>> \in R
  BY <1>5, <1>6, LastOne
<1> DEFINE U == T \ {last}
<1>8. U \in SUBSET S /\ Cardinality(U) = n - 1 /\ n - 1 \in Nat
  <2>1. Cardinality(U) = Cardinality(T) - 1
    BY <1>5, <1>7, FS_RemoveElement
  <2>2. U \in SUBSET S
    BY <1>5
  <2>3. Cardinality(U) \in Nat
    BY <1>1, <2>2
  <2> QED
    BY <1>4, <2>1, <2>2, <2>3
<1>9. PICK s : Arranges(s, U, R)
  BY <1>3, <1>8
<1>10. Arranges([k \in 1 .. n |-> IF k = n THEN last ELSE s[k]], T, R)
  <2> DEFINE t == [k \in 1 .. n |-> IF k = n THEN last ELSE s[k]]
  <2>0. /\ s \in [1 .. (n - 1) -> U]
        /\ \A a, b \in 1 .. (n - 1) : a < b => s[a] # s[b] /\ <<s[a], s[b]>> \in R
    BY <1>8, <1>9 DEF Arranges
  <2>1. \A k \in 1 .. (n - 1) : s[k] \in T /\ s[k] # last /\ t[k] = s[k]
    BY <1>5, <1>8, <2>0
  <2>2. t[n] = last /\ \A k \in 1 .. n : k = n \/ k \in 1 .. (n - 1)
    BY <1>5, <1>8
  <2>3. t \in [1 .. n -> T]
    BY <1>7, <2>1, <2>2
  <2>4. ASSUME NEW a \in 1 .. n, NEW b \in 1 .. n, a < b
        PROVE  t[a] # t[b] /\ <<t[a], t[b]>> \in R
    <3> HIDE DEF t
    <3>1. a \in 1 .. (n - 1)
      BY <1>8, <2>4
    <3>2. CASE b = n
      BY <1>7, <2>1, <2>2, <3>1, <3>2
    <3>3. CASE b # n
      BY <1>8, <2>0, <2>1, <2>2, <2>4, <3>1, <3>3
    <3> QED
      BY <3>2, <3>3
  <2> HIDE DEF t
  <2> QED
    BY <1>4, <2>3, <2>4 DEF Arranges
<1> QED
  BY <1>4, <1>10

\* So InOrder has every member of the set, once, in an order that R allows.
LEMMA InOrderArranges ==
  ASSUME NEW S, IsFiniteSet(S), NEW R, Compares(R, S)
  PROVE  /\ InOrder(S, R) \in [1 .. Cardinality(S) -> S]
         /\ Cardinality(S) \in Nat
         /\ \A m, n \in 1 .. Cardinality(S) : InOrder(S, R)[m] = InOrder(S, R)[n] => m = n
         /\ \A x \in S : \E n \in 1 .. Cardinality(S) : InOrder(S, R)[n] = x
<1> DEFINE s == InOrder(S, R)
           N == 1 .. Cardinality(S)
<1>1. Cardinality(S) \in Nat /\ IsFiniteSet(N) /\ Cardinality(N) = Cardinality(S)
  BY FS_CardinalityType, FS_Interval
<1>2. Arranges(s, S, R)
  BY Arrangement DEF Arranges, InOrder
<1> HIDE DEF s
<1>3. \A m, n \in N : s[m] = s[n] => m = n
  <2> SUFFICES ASSUME NEW m \in N, NEW n \in N, s[m] = s[n] PROVE m = n
    OBVIOUS
  <2>1. m < n \/ n < m \/ m = n
    BY <1>1
  <2> QED
    BY <1>2, <2>1 DEF Arranges
<1>4. s \in Injection(N, S)
  BY <1>2, <1>3 DEF Arranges, Injection, IsInjective
<1>5. s \in Surjection(N, S)
  BY <1>1, <1>4, FS_Injection
<1> QED
  BY <1>1, <1>2, <1>3, <1>5 DEF Arranges, Surjection, s

-----------------------------------------------------------------------------
(* The sessions of the script.                                              *)

LEMMA ReadRows ==
  ASSUME MigrationTypeOK
  PROVE  /\ Read \subseteq Events
         /\ \A i \in Read : read[i] \in Documents /\ At(i) \in Times /\ At(i) \in Nat
         /\ \A docs \in SUBSET Read : IsFiniteSet(docs)
<1>1. Read \subseteq Events
  BY DEF Read
<1>2. \A i \in Events : At(i) \in Times /\ At(i) \in Nat
  BY IncidentAssumption DEF MigrationTypeOK, TypeOK, At
<1>3. \A i \in Read : read[i] \in Documents
  BY DEF Read, MigrationTypeOK, Collections
<1>4. \A docs \in SUBSET Read : IsFiniteSet(docs)
  BY <1>1, FS_Subset, IncidentAssumption
<1> QED
  BY <1>1, <1>2, <1>3, <1>4

\* The dates at which a session starts that are not after i's.
StartsBefore(i) ==
    {start \in Times : start <= At(i) /\ \E j \in OfKey(read[i].key) : Starts(start, j)}

\* Every incident is in a session: the first of its key opens one.
LEMMA StartOfIsLast ==
  ASSUME MigrationTypeOK, NEW i \in Read
  PROVE  /\ StartOf(i) \in StartsBefore(i)
         /\ \A start \in StartsBefore(i) : start <= StartOf(i)
         /\ StartsBefore(i) \subseteq Nat
<1> DEFINE dates == {At(j) : j \in OfKey(read[i].key)}
<1>1. i \in OfKey(read[i].key) /\ OfKey(read[i].key) \subseteq Read
  BY DEF OfKey
<1>2. dates \in SUBSET Nat /\ dates # {} /\ dates \subseteq Times
  BY <1>1, ReadRows
<1>3. PICK first \in dates : \A d \in dates : first <= d
  BY <1>2, LeastNatural
<1>4. PICK j \in OfKey(read[i].key) : At(j) = first
  BY <1>3
<1>5. Starts(first, j)
  <2> SUFFICES ASSUME NEW k \in OfKey(read[j].key), At(k) < first PROVE FALSE
    BY <1>4 DEF Starts
  <2>1. read[j].key = read[i].key
    BY <1>4 DEF OfKey
  <2>2. At(k) \in dates /\ At(k) \in Nat /\ first \in Nat
    BY <1>2, <2>1
  <2> QED
    BY <1>3, <2>2
<1>6. first \in StartsBefore(i)
  BY <1>1, <1>2, <1>3, <1>4, <1>5 DEF StartsBefore
<1>7. StartsBefore(i) \in SUBSET Nat
  BY IncidentAssumption DEF StartsBefore
<1>8. At(i) \in Nat /\ \A start \in StartsBefore(i) : start <= At(i)
  BY ReadRows DEF StartsBefore
<1>9. IsFiniteSet(StartsBefore(i))
  BY <1>7, <1>8, FS_BoundedSetOfNaturals
<1>10. StartOf(i) = Max(StartsBefore(i))
  BY DEF StartOf, StartsBefore
<1> QED
  BY <1>6, <1>7, <1>9, <1>10, MaxIsLargest

\* Being in one session is an equivalence among the incidents of a key.
LEMMA Sessions ==
  ASSUME MigrationTypeOK, NEW i \in Read
  PROVE  /\ i \in Session(i) /\ Session(i) \subseteq Read
         /\ \A j \in Session(i) : read[j].key = read[i].key /\ StartOf(j) = StartOf(i)
                                  /\ Session(j) = Session(i)
<1>1. i \in Session(i) /\ Session(i) \subseteq Read
  BY DEF Session, OfKey
<1>2. ASSUME NEW j \in Session(i)
      PROVE  read[j].key = read[i].key /\ StartOf(j) = StartOf(i)
  BY DEF Session, OfKey
<1>3. \A j \in Session(i) : Session(j) = Session(i)
  BY <1>2 DEF Session
<1> QED
  BY <1>1, <1>2, <1>3

\* Two sessions of a key are further apart than the window.
LEMMA SessionsFarApart ==
  ASSUME MigrationTypeOK, NEW i \in Read, NEW j \in Read,
         read[i].key = read[j].key, StartOf(i) < StartOf(j),
         NEW x \in Session(i), NEW y \in Session(j)
  PROVE  At(y) - At(x) > Window
<1> DEFINE b == StartOf(j)
<1>1. x \in Read /\ y \in Read /\ read[x].key = read[j].key /\ read[y].key = read[j].key
      /\ StartOf(x) = StartOf(i) /\ StartOf(y) = b
  BY Sessions
<1>2. At(x) \in Nat /\ At(y) \in Nat /\ Window \in Nat
  BY <1>1, ReadRows, IncidentAssumption
<1>3. b \in StartsBefore(y) /\ b \in Nat /\ StartOf(i) \in Nat
  BY <1>1, StartOfIsLast
<1>4. b <= At(y)
  BY <1>3 DEF StartsBefore
<1>5. PICK k \in OfKey(read[j].key) : Starts(b, k)
  BY <1>1, <1>3 DEF StartsBefore
<1>6. x \in OfKey(read[k].key)
  BY <1>1, <1>5 DEF OfKey
<1>7. At(x) < b
  <2> SUFFICES ASSUME b <= At(x) PROVE FALSE
    BY <1>2, <1>3
  <2>1. b \in StartsBefore(x)
    BY <1>1, <1>3, <1>5 DEF StartsBefore
  <2>2. b <= StartOf(x)
    BY <1>1, <2>1, StartOfIsLast
  <2> QED
    BY <1>1, <1>3, <2>2
<1>8. ~ (b - At(x) <= Window)
  BY <1>5, <1>6, <1>7 DEF Starts
<1> HIDE DEF b
<1> QED
  BY <1>2, <1>3, <1>4, <1>8

\* A session has an incident that was created first.
LEMMA BaseIsFirst ==
  ASSUME MigrationTypeOK, NEW docs \in SUBSET Read, docs # {}
  PROVE  Base(docs) \in docs
<1> DEFINE R == {p \in docs \X docs : read[p[2]].created <= read[p[1]].created}
<1>1. IsFiniteSet(docs) /\ \A i \in docs : read[i].created \in Nat
  BY ReadRows DEF Documents
<1>2. \A i, j \in docs : <<i, j>> \in R <=> read[j].created <= read[i].created
  OBVIOUS
<1>3. Compares(R, docs)
  <2> HIDE DEF R
  <2> QED
    BY <1>1, <1>2 DEF Compares
<1> HIDE DEF R
<1>4. \E i \in docs : \A j \in docs : <<j, i>> \in R
  BY <1>1, <1>3, LastOne
<1>5. \E i \in docs : \A j \in docs : read[i].created <= read[j].created
  BY <1>2, <1>4
<1> QED
  BY <1>5 DEF Base

-----------------------------------------------------------------------------
(* What is merged.                                                          *)

LEMMA RowsArrange ==
  ASSUME MigrationTypeOK, NEW docs \in SUBSET Read
  PROVE  /\ Cardinality(docs) \in Nat
         /\ Rows(docs) \in [1 .. Cardinality(docs) -> docs]
         /\ \A i \in docs : \E n \in 1 .. Cardinality(docs) : Rows(docs)[n] = i
<1> DEFINE R == {p \in docs \X docs : At(p[1]) <= At(p[2])}
<1>1. IsFiniteSet(docs) /\ \A i \in docs : At(i) \in Nat
  BY ReadRows
<1>2. \A i, j \in docs : <<i, j>> \in R <=> At(i) <= At(j)
  OBVIOUS
<1>3. Rows(docs) = InOrder(docs, R)
  BY DEF Rows
<1> HIDE DEF R
<1>4. Compares(R, docs)
  BY <1>1, <1>2 DEF Compares
<1> QED
  BY <1>1, <1>3, <1>4, InOrderArranges

\* The place of a member among the rows is a pair of numbers.
LEMMA Places ==
  ASSUME MigrationTypeOK, NEW docs \in SUBSET Read, NEW e \in MembersOf(docs)
  PROVE  Row(docs, e) \in Nat /\ Place(docs, e) \in Nat
<1> DEFINE rows == {n \in DOMAIN Rows(docs) : e \in Members(read[Rows(docs)[n]])}
<1>1. PICK i \in docs : e \in Members(read[i])
  BY DEF MembersOf
<1>2. DOMAIN Rows(docs) = 1 .. Cardinality(docs) /\ Cardinality(docs) \in Nat
  BY RowsArrange
<1>3. rows \in SUBSET Nat /\ rows # {}
  BY <1>1, <1>2, RowsArrange
<1>4. Row(docs, e) \in rows
  BY <1>3, MinIsLeast DEF Row
<1> DEFINE doc == read[Rows(docs)[Row(docs, e)]]
           places == {n \in DOMAIN doc.listed : doc.listed[n] = e}
<1>5. Rows(docs)[Row(docs, e)] \in docs /\ e \in Members(doc)
  BY <1>2, <1>4, RowsArrange
<1>6. doc.listed \in Seq(Events)
  BY <1>5, ReadRows DEF Documents
<1>7. places \in SUBSET Nat /\ places # {}
  <2> HIDE DEF doc
  <2>1. DOMAIN doc.listed \subseteq Nat
    BY <1>6
  <2> QED
    BY <1>5, <2>1 DEF Members
<1>8. Place(docs, e) \in places
  BY <1>7, MinIsLeast DEF Place
<1> QED
  BY <1>3, <1>4, <1>7, <1>8

\* The merged list has the members of the merged lists, each once.
LEMMA ListedInAll ==
  ASSUME MigrationTypeOK, NEW docs \in SUBSET Read
  PROVE  /\ ListedIn(docs) \in Seq(Events)
         /\ Distinct(ListedIn(docs))
         /\ {ListedIn(docs)[n] : n \in DOMAIN ListedIn(docs)} = MembersOf(docs)
<1> DEFINE ids == MembersOf(docs)
           R == {p \in ids \X ids :
                   \/ Row(docs, p[1]) < Row(docs, p[2])
                   \/ /\ Row(docs, p[1]) = Row(docs, p[2])
                      /\ Place(docs, p[1]) <= Place(docs, p[2])}
<1>1. ids \subseteq Events
  <2> SUFFICES ASSUME NEW i \in docs PROVE Members(read[i]) \subseteq Events
    BY DEF MembersOf
  <2>1. read[i].listed \in Seq(Events)
    BY ReadRows DEF Documents
  <2> QED
    BY <2>1 DEF Members
<1>2. IsFiniteSet(ids)
  BY <1>1, FS_Subset, IncidentAssumption
<1>3. \A d, e \in ids :
         <<d, e>> \in R <=> \/ Row(docs, d) < Row(docs, e)
                            \/ /\ Row(docs, d) = Row(docs, e)
                               /\ Place(docs, d) <= Place(docs, e)
  OBVIOUS
<1>4. ListedIn(docs) = InOrder(ids, R)
  BY DEF ListedIn
<1>5. \A e \in ids : Row(docs, e) \in Nat /\ Place(docs, e) \in Nat
  BY Places
<1> HIDE DEF ids, R
<1>6. Compares(R, ids)
  BY <1>3, <1>5 DEF Compares
<1> DEFINE s == ListedIn(docs)
<1>7. /\ s \in [1 .. Cardinality(ids) -> ids] /\ Cardinality(ids) \in Nat
      /\ \A m, n \in 1 .. Cardinality(ids) : s[m] = s[n] => m = n
      /\ \A x \in ids : \E n \in 1 .. Cardinality(ids) : s[n] = x
  BY <1>2, <1>4, <1>6, InOrderArranges
<1> HIDE DEF s
<1>8. s \in Seq(Events)
  BY <1>1, <1>7
<1>9. Distinct(s)
  BY <1>7 DEF Distinct
<1>10. {s[n] : n \in DOMAIN s} = ids
  BY <1>7
<1> QED
  BY <1>8, <1>9, <1>10 DEF s, ids

\* The largest and the least of what a finite set is mapped to.
LEMMA Extremes ==
  ASSUME NEW S, IsFiniteSet(S), S # {}, NEW f \in [S -> Nat]
  PROVE  /\ Max({f[i] : i \in S}) \in {f[i] : i \in S}
         /\ Min({f[i] : i \in S}) \in {f[i] : i \in S}
<1> DEFINE T == {f[i] : i \in S}
<1>1. T \in SUBSET Nat /\ T # {} /\ f \in [S -> T] /\ \A t \in T : \E i \in S : f[i] = t
  OBVIOUS
<1> HIDE DEF T
<1>2. IsFiniteSet(T)
  <2>1. f \in Surjection(S, T)
    BY <1>1 DEF Surjection
  <2> QED
    BY <2>1, FS_Surjection
<1>3. Max(T) \in T /\ Min(T) \in T
  BY <1>1, <1>2, MaxIsLargest, MinIsLeast
<1> QED
  BY <1>3 DEF T

\* What the script makes of a session is a document. It lists events of the
\* session only, and all of them if the cap leaves room for every event; its
\* dates are dates of the session.
LEMMA MergedIs ==
  ASSUME MigrationTypeOK, NEW docs \in SUBSET Read, docs # {}
  PROVE  /\ Merged(docs) \in Documents
         /\ Merged(docs).key = read[Base(docs)].key
         /\ \E i \in docs : Merged(docs).first = At(i)
         /\ \E i \in docs : Merged(docs).last = At(i)
         /\ Len(Merged(docs).listed) <= MaxListed
         /\ Distinct(Merged(docs).listed)
         /\ Members(Merged(docs)) \subseteq MembersOf(docs)
         /\ Cardinality(Events) <= MaxListed => Members(Merged(docs)) = MembersOf(docs)
<1> DEFINE ids == ListedIn(docs)
<1>0. /\ docs \subseteq Events /\ IsFiniteSet(docs) /\ Base(docs) \in docs
      /\ \A i \in docs : read[i] \in Documents /\ At(i) \in Times /\ At(i) \in Nat
  BY ReadRows, BaseIsFirst
<1>1. /\ ids \in Seq(Events) /\ Distinct(ids)
      /\ {ids[n] : n \in DOMAIN ids} = MembersOf(docs)
  BY ListedInAll
<1> HIDE DEF ids
<1>2. Max({At(i) : i \in docs}) \in {At(i) : i \in docs}
      /\ Min({At(i) : i \in docs}) \in {At(i) : i \in docs}
  <2> DEFINE f == [i \in docs |-> At(i)]
  <2>1. f \in [docs -> Nat] /\ {f[i] : i \in docs} = {At(i) : i \in docs}
    BY <1>0
  <2> HIDE DEF f
  <2> QED
    BY <1>0, <2>1, Extremes
<1>3. Max({read[i].severity : i \in docs}) \in {read[i].severity : i \in docs}
  <2> DEFINE f == [i \in docs |-> read[i].severity]
  <2>1. f \in [docs -> Nat] /\ {f[i] : i \in docs} = {read[i].severity : i \in docs}
    BY <1>0, IncidentAssumption DEF Documents
  <2> HIDE DEF f
  <2> QED
    BY <1>0, <2>1, Extremes
<1>4. Min({read[i].created : i \in docs}) \in {read[i].created : i \in docs}
  <2> DEFINE f == [i \in docs |-> read[i].created]
  <2>1. f \in [docs -> Nat] /\ {f[i] : i \in docs} = {read[i].created : i \in docs}
    BY <1>0 DEF Documents
  <2> HIDE DEF f
  <2> QED
    BY <1>0, <2>1, Extremes
<1>5. MergedStatus(docs) \in Statuses
  BY DEF MergedStatus, Statuses
<1>6. /\ LastListed(ids) \in Seq(Events) /\ Len(LastListed(ids)) <= MaxListed
      /\ Distinct(LastListed(ids))
      /\ \A n \in DOMAIN LastListed(ids) : \E m \in DOMAIN ids : LastListed(ids)[n] = ids[m]
      /\ Len(ids) <= MaxListed => LastListed(ids) = ids
  BY <1>1, Capping
<1>7. /\ Merged(docs).listed = LastListed(ids)
      /\ Merged(docs).key = read[Base(docs)].key
      /\ Merged(docs).first = Min({At(i) : i \in docs})
      /\ Merged(docs).last = Max({At(i) : i \in docs})
  BY DEF Merged, ids
<1>8. Merged(docs) \in Documents
  <2>1. read[Base(docs)].key \in Keys /\ Len(ids) \in Nat
    BY <1>0, <1>1 DEF Documents
  <2>2. {At(i) : i \in docs} \subseteq Times
    BY <1>0
  <2>3. {read[i].severity : i \in docs} \subseteq Severities
    BY <1>0 DEF Documents
  <2>4. {read[i].created : i \in docs} \subseteq Nat
    BY <1>0 DEF Documents
  <2>5. /\ Max({read[i].severity : i \in docs}) \in Severities
        /\ Min({At(i) : i \in docs}) \in Times /\ Max({At(i) : i \in docs}) \in Times
        /\ Min({read[i].created : i \in docs}) \in Nat
    BY <1>2, <1>3, <1>4, <2>2, <2>3, <2>4, Zenon
  <2> QED
    BY <1>5, <1>6, <2>1, <2>5 DEF Merged, Documents, ids
<1>9. Members(Merged(docs)) \subseteq MembersOf(docs)
  BY <1>1, <1>6, <1>7 DEF Members
<1>10. ASSUME Cardinality(Events) <= MaxListed
       PROVE  Members(Merged(docs)) = MembersOf(docs)
  <2>1. Len(ids) = Cardinality(MembersOf(docs))
    BY <1>1, CountingDistinct
  <2>2. MembersOf(docs) \subseteq Events
    BY <1>1
  <2>3. /\ Cardinality(MembersOf(docs)) <= Cardinality(Events)
        /\ Cardinality(MembersOf(docs)) \in Nat /\ Cardinality(Events) \in Nat
    BY <2>2, FS_Subset, FS_CardinalityType, IncidentAssumption
  <2>4. LastListed(ids) = ids
    BY <1>6, <1>10, <2>1, <2>3, IncidentAssumption
  <2> QED
    BY <1>1, <1>7, <2>4 DEF Members
<1> QED
  BY <1>2, <1>6, <1>7, <1>8, <1>9, <1>10

-----------------------------------------------------------------------------
(* An event in at most one incident, while the script runs too.             *)

\* A step of the server that puts e in the incident i, and one that puts
\* nothing anywhere.
Takes(i, e) ==
    /\ task[e] # "finished"
    /\ task' = [task EXCEPT ![e] = "finished"]
    /\ joined' = [joined EXCEPT ![e] = i]
    /\ \A j \in Events :
          incident'[j].listed = IF j = i THEN LastListed(Append(incident[i].listed, e))
                                         ELSE incident[j].listed

TakesNone ==
    /\ joined' = joined
    /\ \A e \in Events : task'[e] # "finished" => task[e] # "finished"
    /\ \A j \in Events : incident'[j].listed = incident[j].listed

\* What a task that is not finished will name its incident after is free.
NamesAreFree == \A e \in Events : task[e] # "finished" => incident[e] = NoIncident

LEMMA Resting ==
  ASSUME NamesAreFree, UNCHANGED <<incident, joined>>,
         \A e \in Events : task'[e] # "finished" => task[e] # "finished"
  PROVE  NamesAreFree' /\ TakesNone
BY DEF NamesAreFree, TakesNone

\* What a step of the server does to the lists.
LEMMA ServerStep ==
  ASSUME TypeOK, NamesAreFree, [Next]_vars
  PROVE  /\ NamesAreFree'
         /\ TakesNone \/ \E i, e \in Events : Takes(i, e)
<1>1. ASSUME NEW e \in Events, CheckRecorded(e) \/ TaskFails(e)
      PROVE  NamesAreFree' /\ TakesNone
  BY <1>1, Resting DEF CheckRecorded, TaskFails, TypeOK
<1>2. ASSUME NEW e \in Events, Coalesce(e)
      PROVE  NamesAreFree' /\ (TakesNone \/ \E i \in Events : Takes(i, e))
  <2>1. CASE UNCHANGED <<incident, joined>> /\ task' = [task EXCEPT ![e] = "unmatched"]
    BY <1>2, <2>1, Resting DEF Coalesce, TypeOK
  <2>2. ASSUME NEW i \in Incidents,
               incident' = [incident EXCEPT ![i] = Grown(@, e)],
               joined' = [joined EXCEPT ![e] = i],
               task' = [task EXCEPT ![e] = "finished"]
        PROVE  NamesAreFree' /\ Takes(i, e) /\ i \in Events
    <3>1. /\ i \in Events /\ incident[i] # NoIncident /\ incident[i] \in Documents
          /\ Len(incident[i].listed) <= MaxListed
      BY DEF Incidents, TypeOK
    <3>2. Grown(incident[i], e).listed = LastListed(Append(incident[i].listed, e))
      BY <3>1, Growing DEF TypeOK
    <3>3. \A j \in Events : incident'[j] = IF j = i THEN Grown(incident[i], e) ELSE incident[j]
      BY <2>2, <3>1 DEF TypeOK
    <3>4. \A d \in Events : task'[d] # "finished" => task[d] # "finished"
      BY <2>2 DEF TypeOK
    <3>5. NamesAreFree'
      BY <3>1, <3>3, <3>4 DEF NamesAreFree
    <3> QED
      BY <1>2, <2>2, <3>1, <3>2, <3>3, <3>5 DEF Takes, Coalesce
  <2> QED
    BY <1>2, <2>1, <2>2 DEF Coalesce
<1>3. ASSUME NEW e \in Events, CreateIncident(e)
      PROVE  NamesAreFree' /\ Takes(e, e)
  <2>1. incident[e] = NoIncident /\ task[e] # "finished"
    BY <1>3 DEF CreateIncident, NamesAreFree
  <2>2. \A j \in Events : incident'[j] = IF j = e THEN NewIncident(e) ELSE incident[j]
    BY <1>3, <2>1 DEF CreateIncident, TypeOK
  <2>3. NewIncident(e).listed = LastListed(Append(incident[e].listed, e))
    <3>1. <<>> \in Seq(Events) /\ Append(<<>>, e) = <<e>> /\ <<e>> \in Seq(Events) /\ Len(<<e>>) = 1
      OBVIOUS
    <3>2. LastListed(<<e>>) = <<e>>
      <4> DEFINE one == <<e>>
      <4>1. one \in Seq(Events) /\ Len(one) <= MaxListed
        BY <3>1, IncidentAssumption
      <4> HIDE DEF one
      <4>2. LastListed(one) = one
        BY <4>1, Capping
      <4> QED
        BY <4>2 DEF one
    <3> QED
      BY <2>1, <3>1, <3>2 DEF NewIncident, NoIncident
  <2>4. \A d \in Events : task'[d] # "finished" => task[d] # "finished" /\ d # e
    BY <1>3 DEF CreateIncident, TypeOK
  <2>5. NamesAreFree'
    BY <2>2, <2>4 DEF NamesAreFree
  <2> QED
    BY <1>3, <2>1, <2>2, <2>3, <2>5 DEF Takes, CreateIncident
<1>4. ASSUME NEW i \in Events, NEW status \in Statuses, UpdateIncident(i, status)
      PROVE  NamesAreFree' /\ TakesNone
  <2>1. incident[i] # NoIncident /\ incident[i] \in Documents
    BY <1>4 DEF UpdateIncident, Incidents, TypeOK
  <2>2. \A j \in Events :
           incident'[j] = IF j = i THEN [incident[i] EXCEPT !.status = status] ELSE incident[j]
    BY <1>4 DEF UpdateIncident, TypeOK
  <2>3. [incident[i] EXCEPT !.status = status].listed = incident[i].listed
    BY <2>1 DEF Documents
  <2> QED
    BY <1>4, <2>1, <2>2, <2>3 DEF NamesAreFree, TakesNone, UpdateIncident
<1>5. CASE UNCHANGED vars
  BY <1>5, Resting DEF vars
<1> QED
  BY <1>1, <1>2, <1>3, <1>4, <1>5 DEF Next, Process

\* The lists of a collection: short enough, and free of repetitions.
Tidy(docs) ==
    \A i \in Events : /\ docs[i].listed \in Seq(Events)
                      /\ Len(docs[i].listed) <= MaxListed /\ Distinct(docs[i].listed)

LEMMA TidyTypes ==
  ASSUME NEW docs \in Collections, NEW i \in Events
  PROVE  docs[i].listed \in Seq(Events)
<1>1. CASE docs[i] = NoIncident
  <2>1. docs[i].listed = <<>> /\ <<>> \in Seq(Events)
    BY <1>1 DEF NoIncident
  <2> QED
    BY <2>1
<1>2. CASE docs[i] \in Documents
  BY <1>2 DEF Documents
<1> QED
  BY <1>1, <1>2 DEF Collections

\* The members that a step of the server leaves.
LEMMA TakesMembers ==
  ASSUME Tidy(incident), NEW i \in Events, NEW e \in Events, Takes(i, e),
         e \notin Members(incident[i])
  PROVE  /\ Tidy(incident)'
         /\ \A j \in Events \ {i} : Members(incident'[j]) = Members(incident[j])
         /\ Members(incident'[i]) \subseteq Members(incident[i]) \cup {e}
         /\ Cardinality(Events) <= MaxListed
               => Members(incident'[i]) = Members(incident[i]) \cup {e}
<1> DEFINE old == incident[i].listed
           new == Append(old, e)
<1>1. /\ old \in Seq(Events) /\ Distinct(old) /\ Members(incident[i]) = {old[n] : n \in DOMAIN old}
      /\ \A n \in DOMAIN old : old[n] # e
  BY DEF Tidy, Members
<1>2. /\ \A j \in Events \ {i} : incident'[j].listed = incident[j].listed
      /\ incident'[i].listed = LastListed(new)
  BY DEF Takes
<1> HIDE DEF old
<1>3. new \in Seq(Events) /\ {new[n] : n \in DOMAIN new} = {old[n] : n \in DOMAIN old} \cup {e}
  BY <1>1
<1>4. Distinct(new)
  BY <1>1, AppendingDistinct
<1> HIDE DEF new
<1>5. /\ LastListed(new) \in Seq(Events) /\ Len(LastListed(new)) <= MaxListed
      /\ Distinct(LastListed(new))
      /\ \A n \in DOMAIN LastListed(new) : \E m \in DOMAIN new : LastListed(new)[n] = new[m]
      /\ Len(new) <= MaxListed => LastListed(new) = new
  BY <1>3, <1>4, Capping
<1>6. Tidy(incident)'
  BY <1>2, <1>5 DEF Tidy
<1> DEFINE kept == LastListed(new)
<1>0. Members(incident'[i]) = {kept[n] : n \in DOMAIN kept}
  BY <1>2 DEF Members
<1>7. Members(incident'[i]) \subseteq Members(incident[i]) \cup {e}
  <2>1. {kept[n] : n \in DOMAIN kept} \subseteq {new[n] : n \in DOMAIN new}
    BY <1>5
  <2> QED
    BY <1>0, <1>1, <1>3, <2>1
<1>8. ASSUME Cardinality(Events) <= MaxListed
      PROVE  Members(incident'[i]) = Members(incident[i]) \cup {e}
  <2> DEFINE all == {new[n] : n \in DOMAIN new}
  <2>1. Len(new) = Cardinality(all) /\ all \subseteq Events
    BY <1>3, <1>4, CountingDistinct
  <2> HIDE DEF all
  <2>2. /\ Cardinality(all) <= Cardinality(Events)
        /\ Cardinality(all) \in Nat /\ Cardinality(Events) \in Nat
    BY <2>1, FS_Subset, FS_CardinalityType, IncidentAssumption
  <2>3. kept = new
    BY <1>5, <1>8, <2>1, <2>2, IncidentAssumption
  <2> QED
    BY <1>0, <1>1, <1>3, <2>3
<1>9. \A j \in Events \ {i} : Members(incident'[j]) = Members(incident[j])
  BY <1>2 DEF Members
<1> QED
  BY <1>6, <1>7, <1>8, <1>9

Apart(docs) ==
    \A i, j \in Events : i # j => Members(docs[i]) \cap Members(docs[j]) = {}

\* No event is in two incidents of the collection, nor of what was read, nor,
\* when the collection has been emptied, in one of each; and what a task that
\* is not finished would put somewhere is nowhere. It holds of any number of
\* runs of the script, and beside a working server.
OnceEverywhere ==
    /\ Tidy(incident) /\ Tidy(read)
    /\ Apart(incident) /\ Apart(read)
    /\ NamesAreFree
    /\ \A e \in Events : task[e] # "finished" =>
          /\ read[e] = NoIncident
          /\ \A i \in Events : e \notin Members(incident[i]) /\ e \notin Members(read[i])
    /\ script = "deleted" =>
          \A i, j \in Events : Members(incident[i]) \cap Members(read[j]) = {}

LEMMA NothingListed ==
  /\ NoIncident.listed = <<>> /\ NoIncident.listed \in Seq(Events)
  /\ Len(NoIncident.listed) <= MaxListed /\ Distinct(NoIncident.listed)
  /\ Members(NoIncident) = {}
<1>1. NoIncident.listed = <<>>
  BY DEF NoIncident
<1>2. <<>> \in Seq(Events) /\ Len(<<>>) <= MaxListed /\ Distinct(<<>>)
  BY IncidentAssumption DEF Distinct
<1> QED
  BY <1>1, <1>2 DEF Members

LEMMA Inserting ==
  ASSUME MigrationTypeOK, InsertMerged, NEW i \in Events
  PROVE  \/ incident'[i] = incident[i]
         \/ /\ i \in Read /\ i = Base(Session(i)) /\ incident'[i] = Merged(Session(i))
            /\ i \in Session(i) /\ Session(i) \in SUBSET Read /\ Session(i) # {}
<1>1. incident'[i] = IF i \in Read /\ i = Base(Session(i)) THEN Merged(Session(i))
                     ELSE incident[i]
  BY DEF InsertMerged
<1> QED
  BY <1>1, Sessions

LEMMA MigrationTypeStep ==
  MigrationTypeOK /\ [MigrationNext]_migrationVars => MigrationTypeOK'
<1> SUFFICES ASSUME MigrationTypeOK, [MigrationNext]_migrationVars PROVE MigrationTypeOK'
  OBVIOUS
<1> USE MigrationAssumption DEF MigrationTypeOK, Collections
<1>0. TypeOK /\ script \in Steps /\ runs \in 0 .. MaxRuns /\ read \in Collections
      /\ backup \in Collections
  OBVIOUS
<1>1. ASSUME ServerWaits, incident' \in Collections,
             \A i \in Events : Len(incident'[i].listed) <= MaxListed
      PROVE  TypeOK'
  BY <1>1 DEF ServerWaits, TypeOK
<1>2. CASE ReadIncidents
  <2>0. incident' = incident /\ read' = incident /\ ServerWaits
    BY <1>2 DEF ReadIncidents
  <2>1. TypeOK' /\ read' \in Collections
    <3>1. incident \in Collections /\ \A i \in Events : Len(incident[i].listed) <= MaxListed
      BY <1>0 DEF TypeOK
    <3> QED
      BY <1>1, <2>0, <3>1
  <2>2. runs' \in 0 .. MaxRuns /\ script' \in Steps
    <3>1. runs < MaxRuns /\ runs' = runs + 1 /\ script' = "read"
      BY <1>2 DEF ReadIncidents
    <3>2. runs' \in 0 .. MaxRuns
      BY <1>0, <3>1
    <3> QED
      BY <3>1, <3>2 DEF Steps
  <2> QED
    BY <1>0, <1>2, <2>1, <2>2 DEF ReadIncidents
<1>3. CASE DropBackup
  BY <1>0, <1>1, <1>3 DEF DropBackup, ScriptAlone, Steps, TypeOK
<1>4. CASE FillBackup
  BY <1>0, <1>1, <1>4 DEF FillBackup, ScriptAlone, Steps, TypeOK
<1>5. CASE DeleteIncidents
  <2>1. incident' \in Collections /\ \A i \in Events : Len(incident'[i].listed) <= MaxListed
    BY <1>5, NothingListed DEF DeleteIncidents
  <2> QED
    BY <1>0, <1>1, <1>5, <2>1 DEF DeleteIncidents, ScriptAlone, Steps
<1>6. CASE InsertMerged
  <2>1. ASSUME NEW i \in Events
        PROVE  incident'[i] \in Documents \cup {NoIncident} /\ Len(incident'[i].listed) <= MaxListed
    BY <1>0, <1>6, Inserting, MergedIs DEF TypeOK
  <2>2. incident' \in Collections
    BY <1>6, <2>1 DEF InsertMerged
  <2> QED
    BY <1>0, <1>1, <1>6, <2>1, <2>2 DEF InsertMerged, ScriptAlone, Steps
<1>7. CASE ScriptEnds \/ ScriptDies
  BY <1>0, <1>1, <1>7 DEF ScriptEnds, ScriptDies, ScriptAlone, Steps, TypeOK
<1>8. CASE Next /\ UNCHANGED <<script, runs, read, backup>>
  BY <1>0, <1>8, TypeStep
<1>9. CASE UNCHANGED migrationVars
  <2>1. UNCHANGED vars
    BY <1>9 DEF migrationVars, vars
  <2> QED
    BY <1>0, <1>9, <2>1, TypeStep DEF migrationVars
<1> QED
  BY <1>2, <1>3, <1>4, <1>5, <1>6, <1>7, <1>8, <1>9 DEF MigrationNext, Script

LEMMA ServerOnce ==
  ASSUME MigrationTypeOK, OnceEverywhere, [Next]_vars, UNCHANGED <<script, read>>
  PROVE  OnceEverywhere'
<1>1. TypeOK /\ NamesAreFree /\ Tidy(incident) /\ Tidy(read)
  BY DEF MigrationTypeOK, OnceEverywhere
<1>2. NamesAreFree' /\ (TakesNone \/ \E i, e \in Events : Takes(i, e))
  BY <1>1, ServerStep
<1>3. CASE TakesNone
  <2>1. \A j \in Events : incident'[j].listed = incident[j].listed
                          /\ Members(incident'[j]) = Members(incident[j])
    BY <1>3 DEF TakesNone, Members
  <2>2. Tidy(incident)'
    BY <1>1, <2>1 DEF Tidy
  <2>3. \A e \in Events : task'[e] # "finished" => task[e] # "finished"
    BY <1>3 DEF TakesNone
  <2> QED
    BY <1>1, <1>2, <2>1, <2>2, <2>3 DEF OnceEverywhere, Apart, Tidy
<1>4. ASSUME NEW i \in Events, NEW e \in Events, Takes(i, e)
      PROVE  OnceEverywhere'
  <2>1. \A j \in Events : e \notin Members(incident[j]) /\ e \notin Members(read[j])
    BY <1>4 DEF Takes, OnceEverywhere
  <2>2. /\ Tidy(incident)'
        /\ \A j \in Events \ {i} : Members(incident'[j]) = Members(incident[j])
        /\ Members(incident'[i]) \subseteq Members(incident[i]) \cup {e}
    BY <1>1, <1>4, <2>1, TakesMembers
  <2>3. \A d \in Events : task'[d] # "finished" => task[d] # "finished" /\ d # e
    BY <1>1, <1>4 DEF Takes, TypeOK
  <2>4. Apart(incident)'
    BY <2>1, <2>2 DEF OnceEverywhere, Apart
  <2>5. script' = "deleted" =>
           \A j, k \in Events : Members(incident'[j]) \cap Members(read'[k]) = {}
    BY <2>1, <2>2 DEF OnceEverywhere
  <2>6. \A d \in Events : task'[d] # "finished" =>
           /\ read'[d] = NoIncident
           /\ \A j \in Events : d \notin Members(incident'[j]) /\ d \notin Members(read'[j])
    BY <2>2, <2>3 DEF OnceEverywhere
  <2>7. Tidy(read)' /\ Apart(read)'
    BY DEF OnceEverywhere, Tidy, Apart
  <2> QED
    BY <1>2, <2>2, <2>4, <2>5, <2>6, <2>7 DEF OnceEverywhere
<1> QED
  BY <1>2, <1>3, <1>4

\* What is merged was apart: two sessions share no incident, so that what is
\* made of them shares no event.
LEMMA MergingOnce ==
  ASSUME MigrationTypeOK, OnceEverywhere, InsertMerged
  PROVE  OnceEverywhere'
<1> DEFINE Merges(i) == /\ i \in Read /\ i = Base(Session(i)) /\ incident'[i] = Merged(Session(i))
                        /\ i \in Session(i) /\ Session(i) \in SUBSET Read /\ Session(i) # {}
<1>1. \A i \in Events : incident'[i] = incident[i] \/ Merges(i)
  BY Inserting
<1>2. \A i \in Events : Merges(i) =>
         /\ Merged(Session(i)) \in Documents /\ Len(Merged(Session(i)).listed) <= MaxListed
         /\ Distinct(Merged(Session(i)).listed)
         /\ Members(Merged(Session(i))) \subseteq MembersOf(Session(i))
  BY MergedIs
<1>3. ASSUME NEW i \in Events, NEW j \in Events, Merges(i), Merges(j), i # j
      PROVE  MembersOf(Session(i)) \cap MembersOf(Session(j)) = {}
  <2>1. Session(i) \cap Session(j) = {}
    <3> SUFFICES ASSUME NEW k \in Session(i), k \in Session(j) PROVE FALSE
      OBVIOUS
    <3>1. Session(k) = Session(i) /\ Session(k) = Session(j)
      BY <1>3, Sessions
    <3> QED
      BY <1>3, <3>1
  <2>2. Session(i) \subseteq Events /\ Session(j) \subseteq Events
    BY <1>3, ReadRows
  <2> QED
    BY <2>1, <2>2 DEF MembersOf, OnceEverywhere, Apart
<1>4. \A i, j \in Events : Merges(j) => Members(incident[i]) \cap MembersOf(Session(j)) = {}
  <2> SUFFICES ASSUME NEW i \in Events, NEW j \in Events, Merges(j), NEW k \in Session(j)
               PROVE  Members(incident[i]) \cap Members(read[k]) = {}
    BY DEF MembersOf
  <2>1. k \in Events
    BY ReadRows
  <2> QED
    BY <2>1 DEF OnceEverywhere, InsertMerged
<1> HIDE DEF Merges
<1>5. Apart(incident)'
  <2> SUFFICES ASSUME NEW i \in Events, NEW j \in Events, i # j
               PROVE  Members(incident'[i]) \cap Members(incident'[j]) = {}
    BY DEF Apart
  <2>1. CASE incident'[i] = incident[i] /\ incident'[j] = incident[j]
    BY <2>1 DEF OnceEverywhere, Apart
  <2>2. CASE Merges(i) /\ incident'[j] = incident[j]
    BY <1>2, <1>4, <2>2 DEF Merges
  <2>3. CASE incident'[i] = incident[i] /\ Merges(j)
    BY <1>2, <1>4, <2>3 DEF Merges
  <2>4. CASE Merges(i) /\ Merges(j)
    BY <1>2, <1>3, <2>4 DEF Merges
  <2> QED
    BY <1>1, <2>1, <2>2, <2>3, <2>4
<1>6. Tidy(incident)'
  <2> SUFFICES ASSUME NEW i \in Events, Merges(i)
               PROVE  /\ incident'[i].listed \in Seq(Events)
                      /\ Len(incident'[i].listed) <= MaxListed /\ Distinct(incident'[i].listed)
    BY <1>1 DEF OnceEverywhere, Tidy
  <2> QED
    BY <1>2 DEF Merges, Documents
<1>7. /\ UNCHANGED <<task, read, joined>> /\ script' # "deleted"
  BY DEF InsertMerged, ScriptAlone, ServerWaits
<1>8. \A e \in Events : task'[e] # "finished" =>
         incident'[e] = NoIncident /\ \A i \in Events : e \notin Members(incident'[i])
  <2> SUFFICES ASSUME NEW e \in Events, task[e] # "finished", NEW i \in Events
               PROVE  incident'[e] = NoIncident /\ e \notin Members(incident'[i])
    BY <1>7
  <2>1. read[e] = NoIncident /\ incident[e] = NoIncident
        /\ \A j \in Events : e \notin Members(incident[j]) /\ e \notin Members(read[j])
    BY DEF OnceEverywhere, NamesAreFree
  <2>2. ~Merges(e)
    BY <2>1 DEF Merges, Read
  <2>3. CASE Merges(i)
    <3>1. Session(i) \subseteq Events
      BY <2>3, ReadRows DEF Merges
    <3>2. e \notin MembersOf(Session(i))
      BY <2>1, <3>1 DEF MembersOf
    <3> QED
      BY <1>1, <1>2, <2>1, <2>2, <2>3, <3>2 DEF Merges
  <2> QED
    BY <1>1, <2>1, <2>2, <2>3
<1>9. Tidy(read)' /\ Apart(read)'
  BY <1>7 DEF OnceEverywhere, Tidy, Apart
<1> QED
  BY <1>5, <1>6, <1>7, <1>8, <1>9 DEF OnceEverywhere, NamesAreFree

LEMMA OnceStep ==
  MigrationTypeOK /\ OnceEverywhere /\ [MigrationNext]_migrationVars => OnceEverywhere'
<1> SUFFICES ASSUME MigrationTypeOK, OnceEverywhere, [MigrationNext]_migrationVars
             PROVE  OnceEverywhere'
  OBVIOUS
<1>1. CASE ReadIncidents
  BY <1>1 DEF ReadIncidents, ServerWaits, OnceEverywhere, NamesAreFree, Apart, Tidy
<1>2. CASE DeleteIncidents
  <2>1. \A i \in Events : incident'[i].listed = <<>> /\ Members(incident'[i]) = {}
                          /\ incident'[i] = NoIncident
    BY <1>2, NothingListed DEF DeleteIncidents
  <2>2. Tidy(incident)' /\ Apart(incident)'
    BY <2>1, NothingListed DEF Tidy, Apart
  <2>3. UNCHANGED <<task, read>>
    BY <1>2 DEF DeleteIncidents, ScriptAlone, ServerWaits
  <2> QED
    BY <2>1, <2>2, <2>3 DEF OnceEverywhere, NamesAreFree, Apart, Tidy
<1>3. CASE DropBackup \/ FillBackup \/ ScriptEnds \/ ScriptDies
  <2>1. UNCHANGED <<task, incident, read>> /\ script' # "deleted"
    BY <1>3 DEF DropBackup, FillBackup, ScriptEnds, ScriptDies, ScriptAlone, ServerWaits
  <2> QED
    BY <2>1 DEF OnceEverywhere, NamesAreFree, Apart, Tidy
<1>4. CASE Next /\ UNCHANGED <<script, runs, read, backup>>
  BY <1>4, ServerOnce
<1>5. CASE UNCHANGED migrationVars
  BY <1>5 DEF migrationVars, OnceEverywhere, NamesAreFree, Apart, Tidy
<1> QED
  BY <1>1, <1>2, <1>3, <1>4, <1>5, MergingOnce DEF MigrationNext, Script

\* Every type of the migration and OnceEverywhere, in every state.
LEMMA MigrationInvariant == MigrationSpec => [](MigrationTypeOK /\ OnceEverywhere)
<1>1. MigrationInit => MigrationTypeOK /\ OnceEverywhere
  <2> SUFFICES ASSUME MigrationInit PROVE MigrationTypeOK /\ OnceEverywhere
    OBVIOUS
  <2>1. /\ \A i \in Events : incident[i] = NoIncident /\ read[i] = NoIncident
        /\ script = "idle"
    BY DEF MigrationInit, Init
  <2>2. MigrationTypeOK
    BY <2>1, NothingListed, IncidentAssumption, MigrationAssumption
       DEF MigrationInit, Init, MigrationTypeOK, Collections, TypeOK, Steps
  <2>3. Tidy(incident) /\ Tidy(read)
    BY <2>1, NothingListed DEF Tidy
  <2> QED
    BY <2>1, <2>2, <2>3, NothingListed DEF OnceEverywhere, NamesAreFree, Apart
<1>2. MigrationTypeOK /\ OnceEverywhere /\ [MigrationNext]_migrationVars
        => (MigrationTypeOK /\ OnceEverywhere)'
  BY MigrationTypeStep, OnceStep
<1> QED
  BY <1>1, <1>2, PTL DEF MigrationSpec

\* No event is in two incidents, whatever step the script is at or died at,
\* however often it is started, and whether or not the server works meanwhile.
THEOREM NothingIsMergedTwice == MigrationSpec => []InOneIncident
<1>1. OnceEverywhere => InOneIncident
  BY DEF OnceEverywhere, Apart, InOneIncident, Incidents
<1> QED
  BY <1>1, MigrationInvariant, PTL

-----------------------------------------------------------------------------
(* The sessions, once they are merged.                                      *)

\* Two incidents that the script inserts for one key are made of two sessions.
LEMMA MergedApart ==
  ASSUME MigrationTypeOK, NEW i \in Read, NEW j \in Read, i # j,
         i = Base(Session(i)), j = Base(Session(j)), read[i].key = read[j].key
  PROVE  \/ Merged(Session(i)).first - Merged(Session(j)).last > Window
         \/ Merged(Session(j)).first - Merged(Session(i)).last > Window
<1>1. \A k \in {i, j} : Session(k) \in SUBSET Read /\ Session(k) # {}
  BY Sessions
<1>2. \A k \in {i, j} : /\ \E x \in Session(k) : Merged(Session(k)).first = At(x)
                        /\ \E x \in Session(k) : Merged(Session(k)).last = At(x)
  BY <1>1, MergedIs
<1>3. StartOf(i) # StartOf(j)
  <2> SUFFICES ASSUME StartOf(i) = StartOf(j) PROVE FALSE
    OBVIOUS
  <2>1. j \in Session(i)
    BY DEF Session, OfKey
  <2>2. Session(j) = Session(i)
    BY <2>1, Sessions
  <2> QED
    BY <2>2
<1>4. StartOf(i) \in Nat /\ StartOf(j) \in Nat
  BY StartOfIsLast
<1>5. CASE StartOf(i) < StartOf(j)
  BY <1>2, <1>5, SessionsFarApart
<1>6. CASE StartOf(j) < StartOf(i)
  BY <1>2, <1>6, SessionsFarApart
<1> QED
  BY <1>3, <1>4, <1>5, <1>6

\* The script inserts into an empty collection, if nobody else writes to it.
DeletedAll == script = "deleted" => \A i \in Events : incident[i] = NoIncident

LEMMA ApartStep ==
  ASSUME ~Concurrent, MigrationTypeOK, DeletedAll, SessionsAreApart,
         [MigrationNext]_migrationVars
  PROVE  DeletedAll' /\ SessionsAreApart'
<1>1. CASE ReadIncidents \/ DropBackup \/ FillBackup \/ ScriptEnds \/ ScriptDies
  BY <1>1 DEF ReadIncidents, DropBackup, FillBackup, ScriptEnds, ScriptDies,
              DeletedAll, SessionsAreApart
<1>2. CASE DeleteIncidents
  BY <1>2 DEF DeleteIncidents, DeletedAll, SessionsAreApart
<1>3. CASE InsertMerged
  <2>1. DeletedAll'
    BY <1>3 DEF InsertMerged, DeletedAll
  <2>2. ASSUME NEW i \in Events, incident'[i] # NoIncident
        PROVE  /\ i \in Read /\ i = Base(Session(i)) /\ incident'[i] = Merged(Session(i))
               /\ incident'[i].key = read[i].key
    <3>1. incident[i] = NoIncident
      BY <1>3 DEF InsertMerged, DeletedAll
    <3>2. /\ i \in Read /\ i = Base(Session(i)) /\ incident'[i] = Merged(Session(i))
          /\ Session(i) \in SUBSET Read /\ Session(i) # {}
      BY <1>3, <2>2, <3>1, Inserting
    <3>3. Merged(Session(i)).key = read[Base(Session(i))].key
      BY <3>2, MergedIs
    <3> QED
      BY <3>2, <3>3
  <2>3. SUFFICES ASSUME NEW i \in Incidents', NEW j \in Incidents',
                        i # j, incident'[i].key = incident'[j].key
                 PROVE  \/ incident'[i].first - incident'[j].last > Window
                        \/ incident'[j].first - incident'[i].last > Window
    BY <2>1 DEF SessionsAreApart
  <2>4. /\ i \in Events /\ incident'[i] # NoIncident
        /\ j \in Events /\ incident'[j] # NoIncident
    BY DEF Incidents
  <2>5. /\ i \in Read /\ i = Base(Session(i)) /\ incident'[i] = Merged(Session(i))
        /\ j \in Read /\ j = Base(Session(j)) /\ incident'[j] = Merged(Session(j))
        /\ read[i].key = read[j].key
    BY <2>2, <2>3, <2>4
  <2> QED
    BY <2>3, <2>5, MergedApart
<1>4. CASE ServerWorks /\ Next /\ UNCHANGED <<script, runs, read, backup>>
  BY <1>4 DEF ServerWorks, DeletedAll, SessionsAreApart
<1>5. CASE UNCHANGED migrationVars
  BY <1>5 DEF migrationVars, DeletedAll, SessionsAreApart, Incidents
<1> QED
  BY <1>1, <1>2, <1>3, <1>4, <1>5 DEF MigrationNext, Script

\* Of one user, type and category, what the script inserted is further apart
\* than the window, if the server does not work while the script does. A
\* server that works may put an incident of its own beside the merged ones.
THEOREM MergedSessionsAreApart ==
  ASSUME ~Concurrent
  PROVE  MigrationSpec => []SessionsAreApart
<1>1. MigrationInit => DeletedAll /\ SessionsAreApart
  BY DEF MigrationInit, DeletedAll, SessionsAreApart
<1>2. /\ MigrationTypeOK /\ DeletedAll /\ SessionsAreApart /\ [MigrationNext]_migrationVars
      => (DeletedAll /\ SessionsAreApart)'
  BY ApartStep
<1> QED
  BY <1>1, <1>2, MigrationInvariant, PTL DEF MigrationSpec

-----------------------------------------------------------------------------
(* Nothing is lost, whatever step the script dies at.                       *)

\* Every event that was in an incident is listed in docs.
Full(docs) == \A e \in Events : joined[e] # None => e \in AllListed(docs)

\* Where the events are, by the step of the script.
Kept ==
    /\ script \in {"idle", "read", "dropped", "backed up", "inserted", "ended"}
          => Full(incident)
    /\ script \in {"read", "dropped", "backed up", "deleted"} => Full(read)
    /\ script \in {"backed up", "deleted"} => backup = read
    /\ NothingIsLost

\* A script that died is left as it is.
NotStartedAgain == script = "dead" => runs' = runs

LEMMA ListedSomewhere ==
  ASSUME NEW docs, NEW e
  PROVE  e \in AllListed(docs) <=> \E i \in Events : e \in Members(docs[i])
BY NothingListed DEF AllListed

\* A step of the server takes no event out of an incident.
LEMMA ServerKeeps ==
  ASSUME Cardinality(Events) <= MaxListed, MigrationTypeOK, OnceEverywhere, [Next]_vars
  PROVE  \A d \in Events : joined'[d] # None =>
            \/ joined[d] # None /\ (d \in AllListed(incident) => d \in AllListed(incident'))
            \/ d \in AllListed(incident')
<1> SUFFICES ASSUME NEW d \in Events, joined'[d] # None
             PROVE  \/ /\ joined[d] # None
                       /\ d \in AllListed(incident) => d \in AllListed(incident')
                    \/ d \in AllListed(incident')
  OBVIOUS
<1>1. TypeOK /\ NamesAreFree /\ Tidy(incident)
  BY DEF MigrationTypeOK, OnceEverywhere
<1>2. TakesNone \/ \E i, e \in Events : Takes(i, e)
  BY <1>1, ServerStep
<1>3. CASE TakesNone
  <2>1. \A j \in Events : Members(incident'[j]) = Members(incident[j])
    BY <1>3 DEF TakesNone, Members
  <2>2. d \in AllListed(incident) => d \in AllListed(incident')
    BY <2>1, ListedSomewhere
  <2> QED
    BY <1>3, <2>2 DEF TakesNone
<1>4. ASSUME NEW i \in Events, NEW e \in Events, Takes(i, e)
      PROVE  \/ /\ joined[d] # None
                /\ d \in AllListed(incident) => d \in AllListed(incident')
             \/ d \in AllListed(incident')
  <2>1. e \notin Members(incident[i])
    BY <1>4 DEF Takes, OnceEverywhere
  <2>2. /\ \A j \in Events \ {i} : Members(incident'[j]) = Members(incident[j])
        /\ Members(incident'[i]) = Members(incident[i]) \cup {e}
    BY <1>1, <1>4, <2>1, TakesMembers
  <2>3. \A j \in Events : Members(incident[j]) \subseteq Members(incident'[j])
    BY <2>2
  <2>4. d \in AllListed(incident) => d \in AllListed(incident')
    BY <2>3, ListedSomewhere
  <2>5. CASE d = e
    BY <2>2, <2>5, ListedSomewhere
  <2>6. CASE d # e
    <3>1. joined'[d] = joined[d]
      BY <1>1, <1>4, <2>6 DEF Takes, TypeOK
    <3> QED
      BY <2>4, <3>1
  <2> QED
    BY <2>5, <2>6
<1> QED
  BY <1>2, <1>3, <1>4

\* What was read is all in what is inserted.
LEMMA MergingKeeps ==
  ASSUME Cardinality(Events) <= MaxListed, MigrationTypeOK, Full(read), InsertMerged
  PROVE  Full(incident)'
<1>1. joined' = joined
  BY DEF InsertMerged, ScriptAlone, ServerWaits
<1> SUFFICES ASSUME NEW e \in Events, joined[e] # None PROVE e \in AllListed(incident')
  BY <1>1 DEF Full
<1>2. PICK i \in Events : e \in Members(read[i])
  BY ListedSomewhere DEF Full
<1>3. i \in Read
  BY <1>2, NothingListed DEF Read
<1> DEFINE b == Base(Session(i))
<1>4. Session(i) \in SUBSET Read /\ i \in Session(i)
  BY <1>3, Sessions
<1>5. b \in Session(i)
  BY <1>4, BaseIsFirst
<1>6. Session(b) = Session(i)
  BY <1>3, <1>5, Sessions
<1>7. b \in Read /\ b \in Events /\ b = Base(Session(b))
  BY <1>4, <1>5, <1>6 DEF Read
<1> HIDE DEF b
<1>8. incident'[b] = Merged(Session(i))
  BY <1>6, <1>7 DEF InsertMerged
<1>9. Members(Merged(Session(i))) = MembersOf(Session(i))
  BY <1>4, MergedIs
<1>10. e \in MembersOf(Session(i))
  BY <1>2, <1>4 DEF MembersOf
<1> QED
  BY <1>7, <1>8, <1>9, <1>10, ListedSomewhere

LEMMA KeptStep ==
  ASSUME ~Concurrent, Cardinality(Events) <= MaxListed,
         MigrationTypeOK, OnceEverywhere, Kept,
         [MigrationNext]_migrationVars, [NotStartedAgain]_migrationVars
  PROVE  Kept'
<1>1. CASE ReadIncidents
  <2>1. /\ script \in {"idle", "ended"} /\ script' = "read"
        /\ read' = incident /\ UNCHANGED <<incident, backup, joined>>
    <3>1. runs' # runs
      BY <1>1 DEF ReadIncidents, MigrationTypeOK
    <3>2. script # "dead"
      BY <3>1 DEF NotStartedAgain, migrationVars
    <3> QED
      BY <1>1, <3>2 DEF ReadIncidents, ServerWaits
  <2> QED
    BY <2>1 DEF Kept, Full, NothingIsLost
<1>2. CASE DropBackup
  <2>1. Full(incident) /\ Full(read)
    BY <1>2 DEF DropBackup, Kept
  <2> QED
    BY <1>2, <2>1 DEF DropBackup, ScriptAlone, ServerWaits, Kept, Full, NothingIsLost
<1>3. CASE FillBackup
  <2>1. Full(incident) /\ Full(read)
    BY <1>3 DEF FillBackup, Kept
  <2> QED
    BY <1>3, <2>1 DEF FillBackup, ScriptAlone, ServerWaits, Kept, Full, NothingIsLost
<1>4. CASE DeleteIncidents
  <2>1. Full(read) /\ backup = read
    BY <1>4 DEF DeleteIncidents, Kept
  <2> QED
    BY <1>4, <2>1 DEF DeleteIncidents, ScriptAlone, ServerWaits, Kept, Full, NothingIsLost
<1>5. CASE InsertMerged
  <2>1. Full(incident)'
    BY <1>5, MergingKeeps DEF InsertMerged, Kept
  <2> QED
    BY <1>5, <2>1 DEF InsertMerged, Kept, Full, NothingIsLost
<1>6. CASE ScriptEnds
  BY <1>6 DEF ScriptEnds, ScriptAlone, ServerWaits, Kept, Full, NothingIsLost
<1>7. CASE ScriptDies
  BY <1>7 DEF ScriptDies, ScriptAlone, ServerWaits, Kept, NothingIsLost
<1>8. CASE ServerWorks /\ Next /\ UNCHANGED <<script, runs, read, backup>>
  <2>1. script \in {"idle", "ended", "dead"} /\ UNCHANGED <<script, backup>>
    BY <1>8 DEF ServerWorks
  <2>2. \A d \in Events : joined'[d] # None =>
           \/ joined[d] # None /\ (d \in AllListed(incident) => d \in AllListed(incident'))
           \/ d \in AllListed(incident')
    BY <1>8, ServerKeeps
  <2>3. Full(incident) => Full(incident)'
    BY <2>2 DEF Full
  <2>4. NothingIsLost'
    BY <2>1, <2>2 DEF Kept, NothingIsLost
  <2> QED
    BY <2>1, <2>3, <2>4 DEF Kept
<1>9. CASE UNCHANGED migrationVars
  BY <1>9 DEF migrationVars, Kept, Full, NothingIsLost
<1> QED
  BY <1>1, <1>2, <1>3, <1>4, <1>5, <1>6, <1>7, <1>8, <1>9 DEF MigrationNext, Script

\* An event that was in an incident is in one or in the backup, whatever step
\* the script dies at, and however often it is started after it ended: if the
\* server does not work meanwhile, if no incident is over its cap, and if the
\* script is not started again once it died.
THEOREM BackedUpBeforeDeleted ==
  ASSUME ~Concurrent, Cardinality(Events) <= MaxListed
  PROVE  MigrationSpec /\ [][NotStartedAgain]_migrationVars => []NothingIsLost
<1>1. MigrationInit => Kept
  BY DEF MigrationInit, Init, Kept, Full, NothingIsLost
<1>2. /\ MigrationTypeOK /\ OnceEverywhere /\ Kept
      /\ [MigrationNext]_migrationVars /\ [NotStartedAgain]_migrationVars
      => Kept'
  BY KeptStep
<1>3. Kept => NothingIsLost
  BY DEF Kept
<1> QED
  BY <1>1, <1>2, <1>3, MigrationInvariant, PTL DEF MigrationSpec

\* The same of a script that is started once.
THEOREM OneRunLosesNothing ==
  ASSUME ~Concurrent, Cardinality(Events) <= MaxListed, MaxRuns <= 1
  PROVE  MigrationSpec => []NothingIsLost
<1> DEFINE Started == script # "idle" => runs >= 1
<1>1. MigrationInit => Started
  BY DEF MigrationInit
<1>2. MigrationTypeOK /\ Started /\ [MigrationNext]_migrationVars => Started'
  <2> SUFFICES ASSUME MigrationTypeOK, Started, [MigrationNext]_migrationVars
               PROVE  Started'
    OBVIOUS
  <2>1. CASE ReadIncidents
    BY <2>1 DEF ReadIncidents, MigrationTypeOK
  <2>2. CASE ~ReadIncidents
    BY <2>2 DEF MigrationNext, Script, DropBackup, FillBackup, DeleteIncidents, InsertMerged,
                ScriptEnds, ScriptDies, ScriptAlone, migrationVars
  <2> QED
    BY <2>1, <2>2
<1>3. MigrationTypeOK /\ Started /\ [MigrationNext]_migrationVars
        => [NotStartedAgain]_migrationVars
  <2> SUFFICES ASSUME MigrationTypeOK, Started, [MigrationNext]_migrationVars,
                      script = "dead"
               PROVE  runs' = runs
    BY DEF NotStartedAgain
  <2>1. CASE ReadIncidents
    BY <2>1, MigrationAssumption DEF ReadIncidents, MigrationTypeOK
  <2>2. CASE ~ReadIncidents
    BY <2>2 DEF MigrationNext, Script, DropBackup, FillBackup, DeleteIncidents, InsertMerged,
                ScriptEnds, ScriptDies, ScriptAlone, migrationVars
  <2> QED
    BY <2>1, <2>2
<1> QED
  BY <1>1, <1>2, <1>3, MigrationInvariant, BackedUpBeforeDeleted, PTL DEF MigrationSpec

=============================================================================
