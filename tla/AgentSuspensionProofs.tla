----------------------- MODULE AgentSuspensionProofs -----------------------
(* The bound on a stale verdict, for any number of workers, calls and ids.  *)
EXTENDS AgentSuspension, TLAPS

-----------------------------------------------------------------------------
(* Types.                                                                   *)

\* Every handler keeps the types (is_suspended, suspend_agent, resume_agent,
\* agent_heartbeat, and a worker's restart).
LEMMA Typing == Spec => []TypeOK
<1>1. Init => TypeOK
  BY SuspensionAssumption DEF Init, TypeOK, Docs, Live, NoEntry, Idle,
     LookupStates, AdminStates, HeartbeatStates
<1>2. TypeOK /\ [Next]_vars => TypeOK'
  <2> SUFFICES ASSUME TypeOK, [Next]_vars PROVE TypeOK'
    OBVIOUS
  <2> USE SuspensionAssumption DEF TypeOK
  <2>1. CASE Tick
    BY <2>1 DEF Tick
  <2>2. ASSUME NEW l \in Lookups, NEW w \in Workers, NEW i \in Ids,
               LookupStarts(l, w, i)
        PROVE  TypeOK'
    BY <2>2 DEF LookupStarts, LookupStates
  <2>3. ASSUME NEW l \in Lookups, LookupReads(l)
        PROVE  TypeOK'
    BY <2>3 DEF LookupReads, LookupStates, Idle
  <2>4. ASSUME NEW l \in Lookups, LookupStores(l)
        PROVE  TypeOK'
    BY <2>4 DEF LookupStores, LookupStates, Idle, SuspendedAt
  <2>5. ASSUME NEW l \in Lookups, LookupFails(l)
        PROVE  TypeOK'
    BY <2>5 DEF LookupFails, LookupStates
  <2>6. ASSUME NEW o \in Operators, NEW w \in Workers, NEW i \in Ids,
               NEW duration \in Durations, SuspendAgent(o, w, i, duration)
        PROVE  TypeOK'
    BY <2>6 DEF SuspendAgent, AdminWrites, AdminStates, Docs
  <2>7. ASSUME NEW o \in Operators, NEW w \in Workers, NEW i \in Ids,
               ResumeAgent(o, w, i)
        PROVE  TypeOK'
    BY <2>7 DEF ResumeAgent, AdminWrites, AdminStates, Docs, Live
  <2>8. ASSUME NEW o \in Operators, AdminInvalidates(o)
        PROVE  TypeOK'
    BY <2>8 DEF AdminInvalidates, Invalidate, AdminStates, NoEntry, Idle
  <2>9. ASSUME NEW b \in Beats, NEW w \in Workers, NEW i \in Ids,
               HeartbeatReads(b, w, i)
        PROVE  TypeOK'
    BY <2>9 DEF HeartbeatReads, HeartbeatStates
  <2>10. ASSUME NEW b \in Beats, HeartbeatClears(b)
         PROVE  TypeOK'
    BY <2>10 DEF HeartbeatClears, HeartbeatStates, AdminStates, Docs, Live, Idle
  <2>11. ASSUME NEW b \in Beats, HeartbeatInvalidates(b)
         PROVE  TypeOK'
    BY <2>11 DEF HeartbeatInvalidates, Invalidate, HeartbeatStates,
       AdminStates, NoEntry, Idle
  <2>12. ASSUME NEW b \in Beats, HeartbeatReturns(b)
         PROVE  TypeOK'
    BY <2>12 DEF HeartbeatReturns, HeartbeatStates, AdminStates
  <2>13. ASSUME NEW w \in Workers, WorkerRestarts(w)
         PROVE  TypeOK'
    BY <2>13 DEF WorkerRestarts, Without, NoEntry, LookupStates, AdminStates,
       HeartbeatStates
  <2>14. CASE UNCHANGED vars
    BY <2>14 DEF vars
  <2> QED
    BY <2>1, <2>2, <2>3, <2>4, <2>5, <2>6, <2>7, <2>8, <2>9, <2>10, <2>11,
       <2>12, <2>13, <2>14 DEF Next
<1> QED
  BY <1>1, <1>2, PTL DEF Spec

-----------------------------------------------------------------------------
(* Dates.                                                                   *)

\* Nothing is dated ahead of its time: an entry expires within a TTL from now,
\* because is_suspended dates it from before its read.
LEMMA Dates == Spec => []DatesArePast
<1>1. Init => DatesArePast
  BY SuspensionAssumption DEF Init, DatesArePast, NoEntry, Idle
<1>2. TypeOK /\ DatesArePast /\ [Next]_vars => DatesArePast'
  <2> SUFFICES ASSUME TypeOK, DatesArePast, [Next]_vars PROVE DatesArePast'
    OBVIOUS
  <2> USE SuspensionAssumption DEF DatesArePast, TypeOK
  <2>1. CASE Tick
    <3>1. \A l \in Lookups : lookup[l].pc # "idle" => lookup[l].now \in Nat
      BY DEF LookupStates, Idle
    <3> QED
      BY <2>1, <3>1 DEF Tick
  <2>2. ASSUME NEW l \in Lookups, NEW w \in Workers, NEW i \in Ids,
               LookupStarts(l, w, i)
        PROVE  DatesArePast'
    BY <2>2 DEF LookupStarts
  <2>3. ASSUME NEW l \in Lookups, LookupReads(l)
        PROVE  DatesArePast'
    BY <2>3 DEF LookupReads
  <2>4. ASSUME NEW l \in Lookups, LookupStores(l)
        PROVE  DatesArePast'
    <3>1. lookup[l].now \in Nat /\ lookup[l].now <= clock
      BY <2>4 DEF LookupStores, LookupStates, Idle
    <3> QED
      BY <2>4, <3>1 DEF LookupStores, Idle
  <2>5. ASSUME NEW l \in Lookups, LookupFails(l)
        PROVE  DatesArePast'
    BY <2>5 DEF LookupFails, Idle
  <2>6. ASSUME NEW o \in Operators, NEW w \in Workers, NEW i \in Ids,
               NEW d, AdminWrites(o, w, i, d)
        PROVE  DatesArePast'
    BY <2>6 DEF AdminWrites
  <2>7. ASSUME NEW w, NEW i, Invalidate(w, i),
               UNCHANGED <<clock, lookup, written>>
        PROVE  DatesArePast'
    BY <2>7 DEF Invalidate, NoEntry
  <2>8. ASSUME NEW b \in Beats, NEW w \in Workers, NEW i \in Ids,
               HeartbeatReads(b, w, i)
        PROVE  DatesArePast'
    BY <2>8 DEF HeartbeatReads
  <2>9. ASSUME NEW b \in Beats, HeartbeatClears(b)
        PROVE  DatesArePast'
    BY <2>9 DEF HeartbeatClears
  <2>10. ASSUME NEW b \in Beats, HeartbeatReturns(b)
         PROVE  DatesArePast'
    BY <2>10 DEF HeartbeatReturns
  <2>11. ASSUME NEW w \in Workers, WorkerRestarts(w)
         PROVE  DatesArePast'
    BY <2>11 DEF WorkerRestarts, Without, NoEntry, Idle
  <2>12. CASE UNCHANGED vars
    BY <2>12 DEF vars
  <2> QED
    BY <2>1, <2>2, <2>3, <2>4, <2>5, <2>6, <2>7, <2>8, <2>9, <2>10, <2>11,
       <2>12 DEF Next, SuspendAgent, ResumeAgent, AdminInvalidates,
       HeartbeatInvalidates
<1> QED
  BY <1>1, <1>2, Typing, PTL DEF Spec

-----------------------------------------------------------------------------
(* The document and what was read of it.                                    *)

\* What a write of the document by suspend_agent or resume_agent leaves behind.
LEMMA OperatorWrites ==
  ASSUME TypeOK, NEW o, NEW w, NEW i,
         \/ \E duration \in Durations : SuspendAgent(o, w, i, duration)
         \/ ResumeAgent(o, w, i)
  PROVE  doc' \in Docs /\ written' = clock /\ UNCHANGED <<clock, cache, lookup>>
<1>1. CASE ResumeAgent(o, w, i)
  BY <1>1 DEF ResumeAgent, AdminWrites, Docs, Live
<1>2. ASSUME NEW duration \in Durations, SuspendAgent(o, w, i, duration)
      PROVE  doc' \in Docs /\ written' = clock /\ UNCHANGED <<clock, cache, lookup>>
  <2>1. (IF duration = Forever THEN Forever ELSE clock + duration)
          \in Nat \cup {Forever}
    BY SuspensionAssumption DEF TypeOK
  <2> QED
    BY <1>2, <2>1 DEF SuspendAgent, AdminWrites, Docs
<1> QED
  BY <1>1, <1>2

\* The same of a heartbeat that clears a lapsed pause.
LEMMA HeartbeatWrites ==
  ASSUME NEW b, HeartbeatClears(b)
  PROVE  doc' \in Docs /\ written' = clock /\ UNCHANGED <<clock, cache, lookup>>
BY DEF HeartbeatClears, Docs, Live

\* A call whose document was overwritten since started before that write.
LEMMA OldReads == Spec => []OldReadsAreDated
<1>1. Init => OldReadsAreDated
  BY DEF Init, OldReadsAreDated, Idle
<1>2. TypeOK /\ DatesArePast /\ OldReadsAreDated /\ [Next]_vars => OldReadsAreDated'
  <2> SUFFICES ASSUME TypeOK, DatesArePast, OldReadsAreDated, [Next]_vars
               PROVE  OldReadsAreDated'
    OBVIOUS
  <2> USE DEF OldReadsAreDated
  <2>1. ASSUME UNCHANGED <<doc, written, lookup>> PROVE OldReadsAreDated'
    BY <2>1
  <2>2. ASSUME doc' \in Docs, written' = clock, UNCHANGED lookup
        PROVE  OldReadsAreDated'
    BY <2>2 DEF DatesArePast
  <2>3. ASSUME NEW l \in Lookups, NEW w \in Workers, NEW i \in Ids,
               LookupStarts(l, w, i)
        PROVE  OldReadsAreDated'
    BY <2>3 DEF LookupStarts, TypeOK
  <2>4. ASSUME NEW l \in Lookups, LookupReads(l)
        PROVE  OldReadsAreDated'
    BY <2>4 DEF LookupReads, TypeOK
  <2>5. ASSUME NEW l \in Lookups, LookupStores(l) \/ LookupFails(l)
        PROVE  OldReadsAreDated'
    BY <2>5 DEF LookupStores, LookupFails, TypeOK, Idle
  <2>6. ASSUME NEW w \in Workers, WorkerRestarts(w)
        PROVE  OldReadsAreDated'
    BY <2>6 DEF WorkerRestarts, Without, TypeOK, Idle
  <2> QED
    BY <2>1, <2>2, <2>3, <2>4, <2>5, <2>6, OperatorWrites, HeartbeatWrites
       DEF Next, Tick, AdminInvalidates, HeartbeatReads,
           HeartbeatInvalidates, HeartbeatReturns, vars
<1> QED
  BY <1>1, <1>2, Typing, Dates, PTL DEF Spec

\* When a tick turns the right verdict round, it does so at the new time: the
\* deadline is what SuspendedAt goes by (resolve computes the expiry on read).
LEMMA ChangedOnTick ==
  ASSUME TypeOK, DatesArePast, Tick
  PROVE  /\ Changed' >= Changed
         /\ SuspendedAt(doc, clock)' # SuspendedAt(doc, clock) => Changed' = clock'
<1>1. CASE doc.until = Forever
  BY <1>1, SuspensionAssumption DEF Tick, Changed, SuspendedAt, TypeOK, Docs
<1>2. CASE doc.until \in Nat
  <2>1. /\ doc' = doc /\ doc.until # Forever /\ doc.until \in Nat
        /\ clock \in Nat /\ clock' = clock + 1
        /\ written \in Nat /\ written' = written /\ written <= clock
    BY <1>2, SuspensionAssumption DEF Tick, TypeOK, DatesArePast
  <2>2. Changed' >= Changed
    BY <2>1 DEF Changed
  <2>3. CASE doc.until = clock + 1
    BY <2>1, <2>2, <2>3 DEF Changed
  <2>4. CASE doc.until # clock + 1
    <3>1. (doc.until > clock) <=> (doc.until > clock')
      BY <2>1, <2>4
    <3> QED
      BY <2>1, <2>2, <3>1 DEF SuspendedAt
  <2> QED
    BY <2>3, <2>4
<1> QED
  BY <1>1, <1>2 DEF TypeOK, Docs

-----------------------------------------------------------------------------
(* The entries.                                                             *)

\* A wrong entry expires within a TTL of the change that made it wrong.
LEMMA WrongEntries == Spec => []WrongEntriesExpire
<1>1. Init => WrongEntriesExpire
  BY SuspensionAssumption DEF Init, WrongEntriesExpire, Fresh, NoEntry
<1>2. /\ TypeOK /\ DatesArePast /\ OldReadsAreDated /\ WrongEntriesExpire
      /\ [Next]_vars
      => WrongEntriesExpire'
  <2> SUFFICES ASSUME TypeOK, DatesArePast, OldReadsAreDated,
                      WrongEntriesExpire, [Next]_vars
               PROVE  WrongEntriesExpire'
    OBVIOUS
  <2>1. CASE Tick
    <3>1. Changed \in Int /\ Changed' \in Int
      BY <2>1, SuspensionAssumption DEF Tick, Changed, TypeOK, Docs
    <3> SUFFICES ASSUME NEW w \in Workers, NEW i \in Ids, Fresh(w, i)',
                        cache[w][i].verdict # SuspendedAt(doc, clock)'
                 PROVE  cache[w][i].expires <= Changed' + TTL
      BY <2>1 DEF WrongEntriesExpire, Tick
    <3>2. Fresh(w, i)
      BY <2>1 DEF Fresh, Tick, TypeOK
    <3>3. CASE cache[w][i].verdict = SuspendedAt(doc, clock)
      <4>1. Changed' = clock'
        BY <2>1, <3>3, ChangedOnTick
      <4> QED
        BY <2>1, <4>1, SuspensionAssumption DEF DatesArePast, TypeOK, Tick
    <3>4. CASE cache[w][i].verdict # SuspendedAt(doc, clock)
      BY <2>1, <3>1, <3>2, <3>4, ChangedOnTick, SuspensionAssumption
         DEF WrongEntriesExpire, TypeOK
    <3> QED
      BY <3>3, <3>4
  <2>2. ASSUME doc' \in Docs, written' = clock, UNCHANGED <<clock, cache>>
        PROVE  WrongEntriesExpire'
    <3>1. Changed' >= clock /\ Changed' \in Int
      BY <2>2, SuspensionAssumption DEF Changed, TypeOK, Docs
    <3> QED
      BY <2>2, <3>1, SuspensionAssumption
         DEF WrongEntriesExpire, DatesArePast, TypeOK
  <2>3. ASSUME NEW l \in Lookups, LookupStores(l)
        PROVE  WrongEntriesExpire'
    <3> DEFINE call == lookup[l]
    <3>1. /\ call.worker \in Workers /\ call.id \in Ids /\ call.now \in Nat
      BY <2>3 DEF LookupStores, LookupStates, Idle, TypeOK
    <3>2. Changed >= written /\ Changed \in Int /\ Changed' = Changed
      BY <2>3, SuspensionAssumption DEF LookupStores, Changed, TypeOK, Docs
    <3>3. call.found = doc \/ call.now + TTL <= Changed + TTL
      BY <2>3, <3>1, <3>2, SuspensionAssumption
         DEF LookupStores, OldReadsAreDated, TypeOK
    <3>4. ASSUME NEW w \in Workers, NEW i \in Ids
          PROVE  \/ cache'[w][i] = cache[w][i]
                 \/ cache'[w][i] = [verdict |-> SuspendedAt(call.found, clock),
                                    expires |-> call.now + TTL]
      BY <2>3, <3>1 DEF LookupStores, TypeOK
    <3> QED
      BY <2>3, <3>2, <3>3, <3>4
         DEF LookupStores, WrongEntriesExpire, Fresh, SuspendedAt
  <2>4. ASSUME UNCHANGED <<clock, doc, written, cache>>
        PROVE  WrongEntriesExpire'
    BY <2>4 DEF WrongEntriesExpire, Fresh, SuspendedAt, Changed
  <2>5. ASSUME UNCHANGED <<clock, doc, written>>,
               \A w \in Workers, i \in Ids : cache'[w][i] \in {cache[w][i], NoEntry}
        PROVE  WrongEntriesExpire'
    <3>1. Changed' = Changed /\ SuspendedAt(doc, clock)' = SuspendedAt(doc, clock)
      BY <2>5 DEF Changed, SuspendedAt
    <3>2. ~(NoEntry.expires > clock)
      BY DEF NoEntry, TypeOK
    <3> QED
      BY <2>5, <3>1, <3>2 DEF WrongEntriesExpire, Fresh
  <2>6. ASSUME NEW w, NEW i, Invalidate(w, i)
        PROVE  \A v \in Workers, j \in Ids : cache'[v][j] \in {cache[v][j], NoEntry}
    BY <2>6 DEF Invalidate, TypeOK
  <2>7. ASSUME NEW w \in Workers, WorkerRestarts(w)
        PROVE  WrongEntriesExpire'
    BY <2>5, <2>7 DEF WorkerRestarts, TypeOK
  <2> QED
    BY <2>1, <2>2, <2>3, <2>4, <2>5, <2>6, <2>7, OperatorWrites, HeartbeatWrites
       DEF Next, LookupStarts, LookupReads, LookupFails, AdminInvalidates,
           HeartbeatReads, HeartbeatInvalidates, HeartbeatReturns, vars
<1> QED
  BY <1>1, <1>2, Typing, Dates, OldReads, PTL DEF Spec

\* A verdict in use is right or was overtaken less than a TTL ago
\* (is_suspended and its _verdict_cache).
THEOREM BoundedStaleness == Spec => []StaleAtMostTTL
<1>1. TypeOK /\ WrongEntriesExpire => StaleAtMostTTL
  <2> SUFFICES ASSUME TypeOK, WrongEntriesExpire PROVE StaleAtMostTTL
    OBVIOUS
  <2>1. Changed \in Int
    BY SuspensionAssumption DEF Changed, TypeOK, Docs
  <2> QED
    BY <2>1, SuspensionAssumption
       DEF StaleAtMostTTL, WrongEntriesExpire, Fresh, TypeOK
<1> QED
  BY <1>1, Typing, WrongEntries, PTL

=============================================================================
