-------------------------- MODULE AgentSuspension --------------------------
(***************************************************************************)
(* Pausing an endpoint: the suspend and resume endpoints and the heartbeat *)
(* write the agent's Mongo document, and every request of the endpoint     *)
(* asks is_suspended, which keeps its verdict for a while in the memory of *)
(* the worker process that asked.                                          *)
(*                                                                         *)
(* Handlers of all workers interleave at their awaits. An endpoint may be  *)
(* known by its canonical id and by ids it had before a reinstallation.    *)
(***************************************************************************)
EXTENDS Integers

CONSTANTS
    Workers,    \* uvicorn worker processes
    Lookups,    \* concurrent calls of is_suspended, each in some worker
    Operators,  \* concurrent calls of suspend_agent and resume_agent
    Beats,      \* concurrent calls of agent_heartbeat
    Ids,        \* the ids the endpoint is known by
    Canonical,  \* its agent_id; the others are previous_agent_ids
    TTL,        \* _CACHE_TTL_SECONDS
    Durations,  \* lengths of a pause, Forever among them or not
    Forever,    \* a pause without a deadline
    MaxTime     \* bound on the clock

ASSUME SuspensionAssumption ==
    /\ Canonical \in Ids
    /\ TTL \in Nat
    /\ Forever \notin Int
    /\ Durations \subseteq (Nat \ {0}) \cup {Forever}
    /\ MaxTime \in Nat

VARIABLES
    clock,
    doc,        \* suspended and suspended_until of the agent's document
    cache,      \* _verdict_cache of each worker, by the id that was asked for
    lookup,     \* calls of is_suspended that did not find a fresh entry
    admin,      \* suspend_agent and resume_agent, after their write
    heartbeat,  \* agent_heartbeat, after its read of the document
    written     \* ghost: when the document was last written

vars == <<clock, doc, cache, lookup, admin, heartbeat, written>>

Docs == [suspended : BOOLEAN, until : Nat \cup {Forever}]
Live == [suspended |-> FALSE, until |-> Forever]    \* clear_update()
Idle == [pc |-> "idle"]
NoEntry == [verdict |-> FALSE, expires |-> 0]

\* A pause holds while its deadline, if it has one, is still ahead; there is
\* no sweeper, the expiry is computed by whoever reads the document.
SuspendedAt(d, time) == d.suspended /\ (d.until # Forever => d.until > time)

\* An entry answers for its id until it expires.
Fresh(w, i) == cache[w][i].expires > clock

Init ==
    /\ clock = 0
    /\ doc = Live
    /\ cache = [w \in Workers |-> [i \in Ids |-> NoEntry]]
    /\ lookup = [l \in Lookups |-> Idle]
    /\ admin = [o \in Operators |-> Idle]
    /\ heartbeat = [b \in Beats |-> Idle]
    /\ written = 0

Tick ==
    /\ clock < MaxTime
    /\ clock' = clock + 1
    /\ UNCHANGED <<doc, cache, lookup, admin, heartbeat, written>>

-----------------------------------------------------------------------------
(* is_suspended. A fresh entry is returned at once and changes nothing.     *)

LookupStarts(l, w, i) ==
    /\ lookup[l].pc = "idle"
    /\ ~Fresh(w, i)
    /\ lookup' = [lookup EXCEPT ![l] =
                     [pc |-> "asked", worker |-> w, id |-> i, now |-> clock]]
    /\ UNCHANGED <<clock, doc, cache, admin, heartbeat, written>>

\* MongoDB answers the find_one; the answer travels back to the worker.
LookupReads(l) ==
    /\ lookup[l].pc = "asked"
    /\ lookup' = [lookup EXCEPT ![l] =
                     [pc |-> "read", worker |-> @.worker, id |-> @.id,
                      now |-> @.now, found |-> doc]]
    /\ UNCHANGED <<clock, doc, cache, admin, heartbeat, written>>

LookupStoresFromNow(l) ==   \* mutant
    LET call == lookup[l] IN
    /\ call.pc = "read"
    /\ cache' = [cache EXCEPT ![call.worker][call.id] =
                    [verdict |-> SuspendedAt(call.found, clock),
                     expires |-> clock + TTL]]
    /\ lookup' = [lookup EXCEPT ![l] = Idle]
    /\ UNCHANGED <<clock, doc, admin, heartbeat, written>>

\* The entry's age counts from before the read, not from its return.
LookupStores(l) ==
    LET call == lookup[l] IN
    /\ call.pc = "read"
    /\ cache' = [cache EXCEPT ![call.worker][call.id] =
                    [verdict |-> SuspendedAt(call.found, clock),
                     expires |-> call.now + TTL]]
    /\ lookup' = [lookup EXCEPT ![l] = Idle]
    /\ UNCHANGED <<clock, doc, admin, heartbeat, written>>

\* A failed read lets the endpoint through and caches nothing.
LookupFails(l) ==
    /\ lookup[l].pc = "asked"
    /\ lookup' = [lookup EXCEPT ![l] = Idle]
    /\ UNCHANGED <<clock, doc, cache, admin, heartbeat, written>>

-----------------------------------------------------------------------------
(* The writers. Each invalidates, in its own worker, the id it was called   *)
(* with and the canonical one, after MongoDB confirmed its write.           *)

Invalidate(w, i) ==
    cache' = [cache EXCEPT ![w] =
                 [j \in Ids |-> IF j \in {i, Canonical} THEN NoEntry ELSE @[j]]]

AdminWrites(o, w, i, d) ==
    /\ admin[o].pc = "idle"
    /\ doc' = d
    /\ written' = clock
    /\ admin' = [admin EXCEPT ![o] = [pc |-> "written", worker |-> w, id |-> i]]
    /\ UNCHANGED <<clock, cache, lookup, heartbeat>>

SuspendAgent(o, w, i, duration) ==
    AdminWrites(o, w, i, [suspended |-> TRUE,
                          until |-> IF duration = Forever THEN Forever
                                    ELSE clock + duration])

ResumeAgentUnsets(o, w, i) == AdminWrites(o, w, i, [suspended |-> FALSE])   \* mutant

ResumeAgent(o, w, i) == AdminWrites(o, w, i, Live)

AdminInvalidates(o) ==
    /\ admin[o].pc = "written"
    /\ Invalidate(admin[o].worker, admin[o].id)
    /\ admin' = [admin EXCEPT ![o] = Idle]
    /\ UNCHANGED <<clock, doc, lookup, heartbeat, written>>

\* find_one_and_update returns the document as it was.
HeartbeatReads(b, w, i) ==
    /\ heartbeat[b].pc = "idle"
    /\ heartbeat' = [heartbeat EXCEPT ![b] =
                        [pc |-> "read", worker |-> w, id |-> i, previous |-> doc]]
    /\ UNCHANGED <<clock, doc, cache, lookup, admin, written>>

HasLapsed(d) == d.suspended /\ ~SuspendedAt(d, clock)

\* A pause that has run out is cleared by a second write, whatever the
\* document holds by now.
HeartbeatClears(b) ==
    /\ heartbeat[b].pc = "read"
    /\ HasLapsed(heartbeat[b].previous)
    /\ doc' = Live
    /\ written' = clock
    /\ heartbeat' = [heartbeat EXCEPT ![b] =
                        [pc |-> "written", worker |-> @.worker, id |-> @.id]]
    /\ UNCHANGED <<clock, cache, lookup, admin>>

HeartbeatInvalidates(b) ==
    /\ heartbeat[b].pc = "written"
    /\ Invalidate(heartbeat[b].worker, heartbeat[b].id)
    /\ heartbeat' = [heartbeat EXCEPT ![b] = Idle]
    /\ UNCHANGED <<clock, doc, lookup, admin, written>>

HeartbeatReturns(b) ==
    /\ heartbeat[b].pc = "read"
    /\ ~HasLapsed(heartbeat[b].previous)
    /\ heartbeat' = [heartbeat EXCEPT ![b] = Idle]
    /\ UNCHANGED <<clock, doc, cache, lookup, admin, written>>

\* The calls that were running in worker w are gone.
Without(calls, w) ==
    [c \in DOMAIN calls |->
        IF calls[c].pc # "idle" /\ calls[c].worker = w THEN Idle ELSE calls[c]]

\* A worker dies, or is restarted by its supervisor, with all it has in
\* memory; the new one starts with an empty cache.
WorkerRestarts(w) ==
    /\ cache' = [cache EXCEPT ![w] = [i \in Ids |-> NoEntry]]
    /\ lookup' = Without(lookup, w)
    /\ admin' = Without(admin, w)
    /\ heartbeat' = Without(heartbeat, w)
    /\ UNCHANGED <<clock, doc, written>>

Next ==
    \/ Tick
    \/ \E l \in Lookups :
          \/ \E w \in Workers, i \in Ids : LookupStarts(l, w, i)
          \/ LookupReads(l)
          \/ LookupStores(l)
          \/ LookupFails(l)
    \/ \E o \in Operators :
          \/ \E w \in Workers, i \in Ids :
                \/ \E duration \in Durations : SuspendAgent(o, w, i, duration)
                \/ ResumeAgent(o, w, i)
          \/ AdminInvalidates(o)
    \/ \E b \in Beats :
          \/ \E w \in Workers, i \in Ids : HeartbeatReads(b, w, i)
          \/ HeartbeatClears(b)
          \/ HeartbeatInvalidates(b)
          \/ HeartbeatReturns(b)
    \/ \E w \in Workers : WorkerRestarts(w)

Spec == Init /\ [][Next]_vars

-----------------------------------------------------------------------------
(* Properties.                                                              *)

LookupStates ==
    {Idle} \cup [pc : {"asked"}, worker : Workers, id : Ids, now : Nat]
           \cup [pc : {"read"}, worker : Workers, id : Ids, now : Nat, found : Docs]
AdminStates == {Idle} \cup [pc : {"written"}, worker : Workers, id : Ids]
HeartbeatStates ==
    AdminStates \cup [pc : {"read"}, worker : Workers, id : Ids, previous : Docs]

\* Every variable keeps its type, the records of the calls included.
TypeOK ==
    /\ clock \in Nat
    /\ written \in Nat
    /\ doc \in Docs
    /\ cache \in [Workers -> [Ids -> [verdict : BOOLEAN, expires : Nat]]]
    /\ lookup \in [Lookups -> LookupStates]
    /\ admin \in [Operators -> AdminStates]
    /\ heartbeat \in [Beats -> HeartbeatStates]

\* When the right verdict last changed, or could have: by a write, or by the
\* deadline going by.
Changed ==
    IF doc.until # Forever /\ doc.until <= clock /\ doc.until > written
    THEN doc.until ELSE written

\* A verdict that is still being used is right, or was overtaken less than a
\* TTL ago, whichever worker gives it, for whichever id of the endpoint, and
\* however long its read took: a pause cannot outlive its deadline or its
\* resumption, nor protection the pause, by more than _CACHE_TTL_SECONDS.
StaleAtMostTTL ==
    \A w \in Workers, i \in Ids :
        Fresh(w, i) => \/ cache[w][i].verdict = SuspendedAt(doc, clock)
                       \/ clock < Changed + TTL

\* What makes StaleAtMostTTL inductive: nothing is dated ahead of its time, a
\* wrong entry expires within a TTL of the change, and a call that read the
\* document before it was last written started before that write.
DatesArePast ==
    /\ written <= clock
    /\ \A w \in Workers, i \in Ids : cache[w][i].expires <= clock + TTL
    /\ \A l \in Lookups : lookup[l].pc # "idle" => lookup[l].now <= clock

WrongEntriesExpire ==
    \A w \in Workers, i \in Ids :
        Fresh(w, i) => \/ cache[w][i].verdict = SuspendedAt(doc, clock)
                       \/ cache[w][i].expires <= Changed + TTL

OldReadsAreDated ==
    \A l \in Lookups :
        lookup[l].pc = "read" => lookup[l].found = doc \/ lookup[l].now <= written

IInv == TypeOK /\ DatesArePast /\ WrongEntriesExpire /\ OldReadsAreDated

=============================================================================
