--------------------------- MODULE EventDelivery ---------------------------
(***************************************************************************)
(* The path of an event from a Windows endpoint to the server's store:     *)
(* SendEvent posts it once and spools it to disk when nobody answers, the  *)
(* heartbeat replays the spool, and create_event upserts by event id, so   *)
(* that a replay is recognised, and queues the processing in memory.       *)
(*                                                                         *)
(* Monitor threads, the heartbeat thread, the network and the server       *)
(* interleave; requests are lost or arrive after their sender gave up;     *)
(* either side restarts at any step. Whether the endpoint enforces a       *)
(* policy and whether the server holds it suspended are inputs here.       *)
(***************************************************************************)
EXTENDS Naturals, Sequences, SequencesExt, FiniteSets

CONSTANTS
    Events,         \* event ids, each raised by one SendEvent call
    Malformed,      \* those whose body the server refuses with 400 or 422
    Torn,           \* a spool line that is no longer one whole JSON object
    MaxSpool,       \* MAX_SPOOL_BYTES, counted in lines of equal size
    MaxFlushBatch,  \* MAX_FLUSH_BATCH
    MaxRetries,     \* MAX_RETRIES, the attempts of a background task: 3
    MaxCrashes,     \* bound on agent crashes
    DiskFaults      \* whether the spool file may fail to open for writing

ASSUME DeliveryAssumption ==
    /\ IsFiniteSet(Events)
    /\ Malformed \subseteq Events
    /\ Torn \notin Events
    /\ MaxSpool \in Nat
    /\ MaxFlushBatch \in Nat \ {0}
    /\ MaxRetries \in Nat
    /\ MaxCrashes \in Nat
    /\ DiskFaults \in BOOLEAN

VARIABLES
    stage,      \* where the thread that raised an event stands
    spool,      \* the lines of the spool file
    openLine,   \* the last line has no newline: an append was cut short
    flush,      \* FlushSpooledEvents, which holds spoolMutex while not "idle"
    late,       \* requests whose sender gave up, still on the network
    crashes,
    serverUp,
    registered, \* the server knows this agent id
    stored,     \* documents of dlp_events
    tasks,      \* attempts an event's task in the server's memory has left
    processed,  \* how often process_event ran for an event
    fate,       \* ghost: why the endpoint let go of an event
    spoolLog,   \* ghost: the events in the order they were spooled
    settled     \* ghost: the events the replay has stepped over

agentVars  == <<stage, spool, openLine, flush, late, crashes>>
serverVars == <<serverUp, registered, stored, tasks, processed>>
ghostVars  == <<fate, spoolLog, settled>>
vars == <<agentVars, serverVars, ghostVars>>

Lines == Events \cup {Torn}
Fates == {"none", "no_policy", "rejected", "full", "disk", "crash", "suspended"}

NotFlushing == [pc |-> "idle", pending |-> <<>>, at |-> 1]

Init ==
    /\ stage = [e \in Events |-> "idle"]
    /\ spool = <<>>
    /\ openLine = FALSE
    /\ flush = NotFlushing
    /\ late = {}
    /\ crashes = 0
    /\ serverUp = TRUE
    /\ registered \in BOOLEAN   \* RegisterAgent at startup may have failed
    /\ stored = {}
    /\ tasks = [e \in Events |-> 0]
    /\ processed = [e \in Events |-> 0]
    /\ fate = [e \in Events |-> "none"]
    /\ spoolLog = <<>>
    /\ settled = {}

-----------------------------------------------------------------------------
(* The server's answer to POST /events.                                     *)

NothingIsPermanent(status) == FALSE   \* mutant

\* 400, 404, 409, 413 and 422 will be answered again however often the line
\* is replayed; anything else that is not 200 or 201 is worth a retry.
PermanentRejection(status) == status = 422

\* FastAPI refuses a body it cannot parse before the handler runs; the
\* handler answers 201 to a paused endpoint and to a duplicate alike.
Verdict(x) == IF x \in Malformed \cup {Torn} THEN 422 ELSE 201

\* Neither a post nor the replay tries the event again after this answer.
StepsOver(status) == status \in {200, 201} \/ PermanentRejection(status)

CreateEventRequeues(x, paused) ==   \* mutant
    LET accepted == Verdict(x) = 201 /\ ~paused IN
    /\ stored' = IF accepted THEN stored \cup {x} ELSE stored
    /\ tasks'  = IF accepted THEN [tasks EXCEPT ![x] = MaxRetries] ELSE tasks
    /\ UNCHANGED <<serverUp, registered, processed>>

\* create_event: nothing for a paused agent; else the upsert with
\* $setOnInsert, and the background task for an id that was not there yet.
CreateEvent(x, paused) ==
    LET accepted == Verdict(x) = 201 /\ ~paused IN
    /\ stored' = IF accepted THEN stored \cup {x} ELSE stored
    /\ tasks'  = IF accepted /\ x \notin stored
                 THEN [tasks EXCEPT ![x] = MaxRetries] ELSE tasks
    /\ UNCHANGED <<serverUp, registered, processed>>

\* What the endpoint can be told has become of x once the server answered.
FateOf(x, paused) ==
    IF PermanentRejection(Verdict(x)) THEN "rejected"
    ELSE IF paused /\ x \notin stored THEN "suspended" ELSE "none"

-----------------------------------------------------------------------------
(* SendEvent, on the monitor thread that saw the event.                     *)

\* enforcing is EventsAllowed(): some channel has an active policy.
RaiseEvent(e, enforcing) ==
    /\ stage[e] = "idle"
    /\ stage' = [stage EXCEPT ![e] = IF enforcing THEN "posting" ELSE "over"]
    /\ fate' = [fate EXCEPT ![e] = IF enforcing THEN @ ELSE "no_policy"]
    /\ UNCHANGED <<spool, openLine, flush, late, crashes, serverVars,
                   spoolLog, settled>>

\* The post was answered: accepted, refused for good, or to be tried again.
PostAnswered(e, paused) ==
    /\ stage[e] = "posting"
    /\ serverUp
    /\ CreateEvent(e, paused)
    /\ stage' = [stage EXCEPT ![e] = IF StepsOver(Verdict(e)) THEN "over" ELSE "spooling"]
    /\ fate' = [fate EXCEPT ![e] = FateOf(e, paused)]
    /\ UNCHANGED <<spool, openLine, flush, late, crashes,
                   spoolLog, settled>>

\* No usable answer: the server is down or answers 5xx, or the call timed out
\* while the request was still on its way.
PostUnanswered(e) ==
    /\ stage[e] = "posting"
    /\ stage' = [stage EXCEPT ![e] = "spooling"]
    /\ late' \in {late, late \cup {e}}
    /\ UNCHANGED <<spool, openLine, flush, crashes, serverVars, ghostVars>>

\* Appending to a file whose last line was cut short glues two objects into
\* one line, which is neither.
Appended(e) ==
    IF openLine THEN Append(Front(spool), Torn) ELSE Append(spool, e)

InSpool == ToSet(spool) \cap Events

RemainingLosesHead ==   \* mutant
    SubSeq(flush.pending, flush.at + 1, Len(flush.pending))

Remaining == SubSeq(flush.pending, flush.at, Len(flush.pending))

\* Everything the endpoint still has a copy of.
Held ==
    InSpool \cup {e \in Events : stage[e] \in {"posting", "spooling"}}
            \cup (IF flush.pc = "truncated" THEN ToSet(Remaining) \cap Events ELSE {})

\* The ghost's account of a step that leaves only the file behind.
LostUnlessIn(file, S) ==
    [x \in Events |->
        IF fate[x] = "none" /\ x \in S /\ x \notin ToSet(file) THEN "crash" ELSE fate[x]]

HasRoomOffByOne == Len(spool) <= MaxSpool   \* mutant

HasRoom == Len(spool) < MaxSpool

SpoolEvent(e) ==
    /\ stage[e] = "spooling"
    /\ flush.pc = "idle"
    /\ stage' = [stage EXCEPT ![e] = "over"]
    /\ \/ /\ HasRoom
          /\ spool' = Appended(e)
          /\ openLine' = FALSE
          /\ spoolLog' = Append(spoolLog, e)
          /\ fate' = LostUnlessIn(spool', InSpool \cup {e})
       \/ /\ ~HasRoom
          /\ fate' = [fate EXCEPT ![e] = "full"]
          /\ UNCHANGED <<spool, openLine, spoolLog>>
       \/ /\ DiskFaults
          /\ fate' = [fate EXCEPT ![e] = "disk"]
          /\ UNCHANGED <<spool, openLine, spoolLog>>
    /\ UNCHANGED <<flush, late, crashes, serverVars, settled>>

-----------------------------------------------------------------------------
(* SendHeartbeat and FlushSpooledEvents, on the heartbeat thread.           *)

\* 200: the spool is read under spoolMutex. 404: the agent registers again
\* and waits for the next beat.
Heartbeat ==
    /\ flush.pc = "idle"
    /\ serverUp
    /\ registered' = TRUE
    /\ flush' = IF registered /\ spool # <<>>
                THEN [pc |-> "posting", pending |-> spool, at |-> 1]
                ELSE flush
    /\ UNCHANGED <<stage, spool, openLine, late, crashes, serverUp,
                   stored, tasks, processed, ghostVars>>

\* The line after i is posted unless the batch is full or there is none.
AfterLine(i) ==
    IF i < Len(flush.pending) /\ i < MaxFlushBatch
    THEN [flush EXCEPT !.at = i + 1]
    ELSE [flush EXCEPT !.at = i + 1, !.pc = "rewriting"]

StopReplaySkips == AfterLine(flush.at)   \* mutant

\* The first line that is not settled keeps its place, with all behind it.
StopReplay == [flush EXCEPT !.pc = "rewriting"]

FlushAnswered(paused) ==
    LET x == flush.pending[flush.at] IN
    /\ flush.pc = "posting"
    /\ serverUp
    /\ CreateEvent(x, paused)
    /\ flush' = IF StepsOver(Verdict(x)) THEN AfterLine(flush.at) ELSE StopReplay
    /\ settled' = IF StepsOver(Verdict(x)) THEN settled \cup ({x} \cap Events) ELSE settled
    /\ fate' = [y \in Events |->
                   IF y = x /\ StepsOver(Verdict(x)) /\ fate[y] = "none"
                   THEN FateOf(y, paused) ELSE fate[y]]
    /\ UNCHANGED <<stage, spool, openLine, late, crashes, spoolLog>>

FlushUnanswered ==
    /\ flush.pc = "posting"
    /\ flush' = StopReplay
    /\ late' \in {late, late \cup ({flush.pending[flush.at]} \cap Events)}
    /\ UNCHANGED <<stage, spool, openLine, crashes, serverVars, ghostVars>>

FlushTruncateForgets ==   \* mutant
    /\ flush.pc = "rewriting"
    /\ spool' = <<>>
    /\ openLine' = FALSE
    /\ flush' = NotFlushing
    /\ UNCHANGED <<stage, late, crashes, serverVars, ghostVars>>

\* Nothing remains: the file is removed. Otherwise it is opened with trunc,
\* which empties it, and the remaining lines are written in a second step.
FlushTruncate ==
    /\ flush.pc = "rewriting"
    /\ \/ /\ spool' = <<>>
          /\ openLine' = FALSE
          /\ flush' = IF Remaining = <<>> THEN NotFlushing
                      ELSE [flush EXCEPT !.pc = "truncated"]
       \/ /\ DiskFaults
          /\ flush' = NotFlushing
          /\ UNCHANGED <<spool, openLine>>
    /\ UNCHANGED <<stage, late, crashes, serverVars, ghostVars>>

FlushWriteBackAll ==   \* mutant
    /\ flush.pc = "truncated"
    /\ spool' = flush.pending
    /\ flush' = NotFlushing
    /\ UNCHANGED <<stage, openLine, late, crashes, serverVars, ghostVars>>

FlushWriteBack ==
    /\ flush.pc = "truncated"
    /\ spool' = Remaining
    /\ flush' = NotFlushing
    /\ UNCHANGED <<stage, openLine, late, crashes, serverVars, ghostVars>>

\* The agent dies and starts again: the calls in progress may still reach the
\* server, what was only in memory is gone, and a write in progress leaves
\* the file as it stood.
InCall ==
    {e \in Events : stage[e] = "posting"} \cup
    (IF flush.pc = "posting" THEN {flush.pending[flush.at]} \cap Events ELSE {})

AppendCutShort ==
    \E e \in Events :
        /\ stage[e] = "spooling"
        /\ flush.pc = "idle"
        /\ HasRoom
        /\ \/ /\ spool' = Append(IF openLine THEN Front(spool) ELSE spool, Torn)
              /\ UNCHANGED spoolLog
           \/ /\ spool' = Appended(e)
              /\ spoolLog' = Append(spoolLog, e)
        /\ openLine' = TRUE

\* Some of the remaining lines are back, the last of them perhaps without its
\* newline, or only the first half of it.
RewriteCutShort ==
    /\ flush.pc = "truncated"
    /\ \E k \in 0 .. Len(Remaining) :
           \/ /\ spool' = SubSeq(Remaining, 1, k)
              /\ openLine' \in {FALSE, k > 0}
           \/ /\ k < Len(Remaining)
              /\ spool' = Append(SubSeq(Remaining, 1, k), Torn)
              /\ openLine' = TRUE
    /\ UNCHANGED spoolLog

AgentCrash ==
    /\ crashes < MaxCrashes
    /\ crashes' = crashes + 1
    /\ \/ flush.pc # "truncated" /\ UNCHANGED <<spool, openLine, spoolLog>>
       \/ AppendCutShort
       \/ RewriteCutShort
    /\ \E S \in SUBSET InCall : late' = late \cup S
    /\ stage' = [e \in Events |->
                    IF stage[e] \in {"posting", "spooling"} THEN "over" ELSE stage[e]]
    /\ flush' = NotFlushing
    /\ fate' = LostUnlessIn(spool', Held)
    /\ UNCHANGED <<serverVars, settled>>

-----------------------------------------------------------------------------
(* The network and the server.                                              *)

\* A request whose sender gave up is handled after all; a copy of it may
\* still be under way.
LateArrives(e, paused) ==
    /\ e \in late
    /\ serverUp
    /\ CreateEvent(e, paused)
    /\ late' \in {late, late \ {e}}
    /\ UNCHANGED <<stage, spool, openLine, flush, crashes, ghostVars>>

LateLost(e) ==
    /\ e \in late
    /\ late' = late \ {e}
    /\ UNCHANGED <<stage, spool, openLine, flush, crashes,
                   serverVars, ghostVars>>

\* One attempt of _process_event_background: process_event runs, with the
\* actions it executes. When it, or the update of the document after it,
\* fails, it runs again until the attempts are used up.
ProcessEvent(e) ==
    /\ serverUp
    /\ tasks[e] > 0
    /\ \E left \in {0, tasks[e] - 1} : tasks' = [tasks EXCEPT ![e] = left]
    /\ processed' = [processed EXCEPT ![e] = @ + 1]
    /\ UNCHANGED <<agentVars, serverUp, registered, stored, ghostVars>>

\* The background tasks live in the memory of the server process.
ServerStops ==
    /\ serverUp
    /\ serverUp' = FALSE
    /\ tasks' = [e \in Events |-> 0]
    /\ UNCHANGED <<agentVars, registered, stored, processed, ghostVars>>

ServerStarts ==
    /\ ~serverUp
    /\ serverUp' = TRUE
    /\ UNCHANGED <<agentVars, registered, stored, tasks, processed,
                   ghostVars>>

Next ==
    \/ \E e \in Events :
          \/ \E enforcing \in BOOLEAN : RaiseEvent(e, enforcing)
          \/ \E paused \in BOOLEAN : PostAnswered(e, paused)
          \/ PostUnanswered(e)
          \/ SpoolEvent(e)
          \/ \E paused \in BOOLEAN : LateArrives(e, paused)
          \/ LateLost(e)
          \/ ProcessEvent(e)
    \/ Heartbeat
    \/ \E paused \in BOOLEAN : FlushAnswered(paused)
    \/ FlushUnanswered
    \/ FlushTruncate
    \/ FlushWriteBack
    \/ AgentCrash
    \/ ServerStops
    \/ ServerStarts

Spec == Init /\ [][Next]_vars

\* The threads of the agent run. A call ends, by an answer or by the WinHTTP
\* timeouts, and a server that stays up answers some of the replay's calls.
\* A monitor thread waits for spoolMutex, which is free between two beats.
Fairness ==
    /\ \A e \in Events :
          /\ WF_vars((\E paused \in BOOLEAN : PostAnswered(e, paused)) \/ PostUnanswered(e))
          /\ SF_vars(SpoolEvent(e))
    /\ WF_vars(Heartbeat)
    /\ WF_vars((\E paused \in BOOLEAN : FlushAnswered(paused)) \/ FlushUnanswered)
    /\ SF_vars(\E paused \in BOOLEAN : FlushAnswered(paused))
    /\ WF_vars(FlushTruncate)
    /\ WF_vars(FlushWriteBack)

FairSpec == Spec /\ Fairness

-----------------------------------------------------------------------------
(* Properties.                                                              *)

\* Every variable keeps its type; the spool never outgrows its limit, which
\* SpoolEvent checks and FlushSpooledEvents may not break.
TypeOK ==
    /\ stage \in [Events -> {"idle", "posting", "spooling", "over"}]
    /\ spool \in Seq(Lines) /\ Len(spool) <= MaxSpool
    /\ openLine \in BOOLEAN
    /\ flush \in [pc : {"idle", "posting", "rewriting", "truncated"},
                  pending : Seq(Lines), at : Nat \ {0}]
    /\ late \subseteq Events
    /\ crashes \in 0 .. MaxCrashes
    /\ serverUp \in BOOLEAN
    /\ registered \in BOOLEAN
    /\ stored \subseteq Events
    /\ tasks \in [Events -> 0 .. MaxRetries]
    /\ processed \in [Events -> Nat]
    /\ fate \in [Events -> Fates]
    /\ spoolLog \in Seq(Events)
    /\ settled \subseteq Events

\* An event the endpoint raised is never gone without a trace: either the
\* server recorded it, or the endpoint still holds a copy, or one of the
\* named causes took it (SendEvent, SpoolEvent, FlushSpooledEvents).
NoUnaccountedLoss ==
    \A e \in Events :
        stage[e] = "over" => e \in stored \cup Held \/ fate[e] # "none"

\* However often its request is repeated by a replay or arrives late, an event
\* has one background task in all, so that process_event and its actions run
\* for it at most as often as that task may try (create_event's upsert by id;
\* MAX_RETRIES). That they run once is not so: each retry runs them again.
OneTaskPerEvent ==
    \A e \in Events : processed[e] + tasks[e] <= MaxRetries

\* The spool replays in order and stops at the first failure: an event the
\* replay stepped over never leaves an earlier spooled one behind, except
\* one a crash destroyed (FlushSpooledEvents, serverGoneAgain).
ReplayInOrder ==
    \A i, j \in 1 .. Len(spoolLog) :
        i < j /\ spoolLog[j] \in settled
            => spoolLog[i] \in settled \/ fate[spoolLog[i]] = "crash"

\* A line leaves the spool file only with the server's answer to it, or by a
\* crash: the heartbeat's rewrite gives back every line it did not settle.
SpoolShrinksOnlyBySettling ==
    [][\A e \in InSpool :
          e \in Held' \/ e \in settled' \/ fate'[e] = "crash"]_vars

\* Once the server stays up, every event the endpoint holds is recorded, or
\* refused for good, however many lines are queued before it: neither the
\* batch limit, nor a refused line at the head, nor a registration that failed
\* at startup may block the replay for ever.
EventuallyDelivered ==
    <>[]serverUp => \A e \in Events :
        (e \in Held) ~> (e \in stored \/ fate[e] # "none")

\* The trail of an event as AuditTrail sees it.
TrailOf(e) ==
    IF e \in stored THEN "recorded"
    ELSE IF stage[e] = "idle" THEN "unraised"
    ELSE IF e \in Held \cup late THEN "pending"
    ELSE IF fate[e] = "suspended" THEN "discarded" ELSE "lost"

Trail == INSTANCE AuditTrail WITH trail <- [e \in Events |-> TrailOf(e)]

\* Delivery implements AuditTrail: recorded, discarded and lost are final, and
\* nothing is recorded that was not raised before.
ImplementsAuditTrail == Trail!TrailSpec

=============================================================================
