-------------------------- MODULE ReadGuardProofs --------------------------
(* The cached verdicts are right and listed files are marked, for any       *)
(* number of files, sweeps, handlers, readers and changes.                  *)
EXTENDS ReadGuard, TLAPS

-----------------------------------------------------------------------------
(* Types.                                                                   *)

\* What TypeOK says of one thread.
Standing(t, s) ==
    /\ s \in ThreadStates
    /\ s.pc \in {"idle", "walking"} <=> s.file = {}
    /\ s.pc \in {"hashing", "looking"} => t \in Handlers
    /\ s.pc \in {"walking", "unmarking", "discarding"} => t \in Sweepers

\* A thread without a file.
LEMMA Resting ==
    ASSUME NEW t \in Own, NEW on \in ThreadStates
    PROVE  Standing(t, Idle) /\ Standing(t, Done(t, on)) /\ Done(t, on).file = {}
  BY DEF Standing, ThreadStates, Done, Idle, NoVerdict

\* What a thread may be about to do after it has a verdict on f.
LEMMA Judging ==
    ASSUME NEW t \in Own, NEW f \in Files, NEW on \in ThreadStates, on.file = {f},
           NEW verdict
    PROVE  LET s == Judged(t, on, f, verdict) IN
           /\ Standing(t, s)
           /\ \/ s.file = {}
              \/ s.pc = "marking" /\ s.file = {f} /\ verdict = "sensitive" /\ s.key = 0
              \/ s.pc = "unmarking" /\ s.file = {f} /\ verdict = "harmless" /\ s.key = 0
<1> DEFINE seen == IF t \in Sweepers /\ verdict = "sensitive" THEN on.seen \cup {f} ELSE on.seen
           acting(pc) == [on EXCEPT !.pc = pc, !.seen = seen, !.key = 0,
                                    !.verdict = NoVerdict]
           passed == [on EXCEPT !.seen = seen]
<1>1. seen \in SUBSET Files
  BY DEF ThreadStates
<1> HIDE DEF seen
<1>2. passed \in ThreadStates
  BY <1>1 DEF ThreadStates
<1>3. Standing(t, Done(t, passed)) /\ Done(t, passed).file = {}
  BY <1>2, Resting
<1>4. /\ Standing(t, acting("marking"))
      /\ acting("marking").pc = "marking" /\ acting("marking").file = {f}
      /\ acting("marking").key = 0
  BY <1>1 DEF Standing, ThreadStates, NoVerdict
<1>5. t \in Sweepers =>
      /\ Standing(t, acting("unmarking"))
      /\ acting("unmarking").pc = "unmarking" /\ acting("unmarking").file = {f}
      /\ acting("unmarking").key = 0
  BY <1>1 DEF Standing, ThreadStates, NoVerdict
<1> HIDE DEF passed, acting
<1>6. Judged(t, on, f, verdict) =
        CASE verdict = "sensitive" /\ (t \in Sweepers => f \notin markedFiles) -> acting("marking")
          [] verdict = "harmless" /\ t \in Sweepers /\ f \in markedFiles -> acting("unmarking")
          [] OTHER -> Done(t, passed)
  BY Zenon DEF Judged, acting, passed, seen
<1>7. CASE verdict = "sensitive" /\ (t \in Sweepers => f \notin markedFiles)
  <2>1. Judged(t, on, f, verdict) = acting("marking")
    BY <1>6, <1>7
  <2> QED
    BY <2>1, <1>4, <1>7
<1>8. CASE verdict = "harmless" /\ t \in Sweepers /\ f \in markedFiles
  <2>1. Judged(t, on, f, verdict) = acting("unmarking")
    BY <1>6, <1>8
  <2> QED
    BY <2>1, <1>5, <1>8
<1>9. CASE /\ ~(verdict = "sensitive" /\ (t \in Sweepers => f \notin markedFiles))
           /\ ~(verdict = "harmless" /\ t \in Sweepers /\ f \in markedFiles)
  <2>1. Judged(t, on, f, verdict) = Done(t, passed)
    BY <1>6, <1>9
  <2> QED
    BY <2>1, <1>3
<1> QED
  BY <1>7, <1>8, <1>9

\* The types part by part.
FilesOK ==
    /\ content \in [Files -> Verdicts \cup {"gone"}]
    /\ version \in [Files -> Nat \ {0}]
    /\ key \in [Files -> Nat \ {0}]
    /\ mark \in SUBSET Files /\ notices \in SUBSET Files /\ disturbed \in SUBSET Files
CacheOK ==
    /\ markedFiles \in SUBSET Files
    /\ cache \in [Files -> [key : Nat, verdict : Verdicts \cup {NoVerdict}]]
ThreadsOK ==
    /\ thread \in [Own -> ThreadStates]
    /\ \A t \in Own : Standing(t, thread[t])
AnswersOK ==
    /\ responder \in [pc : {"polling", "refusing", "answering"}, open : Opens \cup {NoOpen}]
    /\ responder.pc = "polling" <=> responder.open = NoOpen
    /\ reports \in SUBSET Files
    /\ lockHeld \in BOOLEAN
    /\ guard \in {"armed", "closed"}
QueueOK == queue \in Seq(Opens)

LEMMA TypeParts == TypeOK <=> FilesOK /\ CacheOK /\ ThreadsOK /\ AnswersOK /\ QueueOK
<1>1. ThreadsOK <=>
        /\ thread \in [Own -> ThreadStates]
        /\ \A t \in Own :
            /\ thread[t].pc \in {"idle", "walking"} <=> thread[t].file = {}
            /\ thread[t].pc \in {"hashing", "looking"} => t \in Handlers
            /\ thread[t].pc \in {"walking", "unmarking", "discarding"} => t \in Sweepers
  BY DEF ThreadsOK, Standing
<1> QED
  BY <1>1, Zenon DEF TypeOK, FilesOK, CacheOK, AnswersOK, QueueOK

LEMMA Initially == Init => TypeOK
<1> SUFFICES ASSUME Init PROVE TypeOK
  OBVIOUS
<1>1. FilesOK
  BY DEF Init, FilesOK, Verdicts
<1>2. CacheOK
  BY DEF Init, CacheOK, NotCached, NoVerdict
<1>3. ThreadsOK
  BY DEF Init, ThreadsOK, Standing, ThreadStates, Idle, NoVerdict
<1>4. QueueOK
  BY DEF Init, QueueOK
<1>5. responder = [pc |-> "polling", open |-> NoOpen]
  BY DEF Init, Free
<1>6. reports = {} /\ lockHeld = FALSE /\ guard = "armed"
  BY DEF Init
<1>7. AnswersOK
  BY <1>5, <1>6 DEF AnswersOK
<1> QED
  BY <1>1, <1>2, <1>3, <1>4, <1>7, TypeParts

\* One thread moves, the others stay where they are.
LEMMA OneMoves ==
    ASSUME ThreadsOK, NEW t \in Own, NEW s, Standing(t, s), Moves(t, s)
    PROVE  /\ ThreadsOK'
           /\ thread'[t] = s
           /\ \A u \in Own : u # t => thread'[u] = thread[u]
<1>1. thread' = [thread EXCEPT ![t] = s] /\ s \in ThreadStates
  BY DEF Moves, Standing
<1>2. /\ thread' \in [Own -> ThreadStates]
      /\ thread'[t] = s
      /\ \A u \in Own : u # t => thread'[u] = thread[u]
  BY <1>1 DEF ThreadsOK
<1>3. ASSUME NEW u \in Own PROVE Standing(u, thread'[u])
  BY <1>2 DEF ThreadsOK
<1> QED
  BY <1>2, <1>3 DEF ThreadsOK, Standing

\* An open of a marked file waits in the queue.
LEMMA Queueing ==
    ASSUME QueueOK, NEW who \in Openers, NEW f \in Files
    PROVE  Opened(who, f) \in Seq(Opens)
  BY DEF QueueOK, Opened, Opens

\* What stays as it is keeps its type.
LEMMA Unchanged ==
    /\ FilesOK /\ UNCHANGED fileVars => FilesOK'
    /\ CacheOK /\ UNCHANGED <<markedFiles, cache>> => CacheOK'
    /\ ThreadsOK /\ UNCHANGED thread => ThreadsOK'
    /\ AnswersOK /\ UNCHANGED <<answerVars, guard>> => AnswersOK'
    /\ QueueOK /\ UNCHANGED queue => QueueOK'
  BY DEF FilesOK, CacheOK, ThreadsOK, AnswersOK, QueueOK, fileVars, answerVars, Standing

\* A step of a sweep or a handler on its file: the record it moves to.
LEMMA Stepping ==
    ASSUME ThreadsOK, NEW t \in Own, NEW f \in Files, On(t, f)
    PROVE  /\ thread[t].pc = "hashing" => Standing(t, [thread[t] EXCEPT !.pc = "looking"])
           /\ thread[t].pc = "marking" => Standing(t, [thread[t] EXCEPT !.pc = "adding"])
           /\ thread[t].pc = "unmarking" =>
                 Standing(t, [thread[t] EXCEPT !.pc = "discarding"])
           /\ \A v \in Verdicts :
                 Standing(t, [thread[t] EXCEPT !.pc = "evaluated", !.verdict = v])
  BY DEF ThreadsOK, Standing, ThreadStates, On

\* The same of a thread that turns to a file.
LEMMA TurnedTo ==
    ASSUME ThreadsOK, NEW t \in Own, NEW f \in Files
    PROVE  LET on == [thread[t] EXCEPT !.file = {f}, !.todo = @ \ {f}] IN
           on \in ThreadStates /\ on.file = {f}
<1>1. thread[t] \in ThreadStates
  BY DEF ThreadsOK
<1> QED
  BY <1>1 DEF ThreadStates

LEMMA Turning ==
    ASSUME ThreadsOK, NEW t \in Own, NEW f \in Files, NEW v \in Nat
    PROVE  LET on == [thread[t] EXCEPT !.file = {f}, !.todo = @ \ {f}] IN
           /\ on \in ThreadStates
           /\ on.file = {f}
           /\ LET s == [on EXCEPT !.pc = "reading", !.key = v] IN
              Standing(t, s) /\ s.pc = "reading" /\ s.file = {f} /\ s.key = v
<1>1. thread[t] \in ThreadStates
  BY DEF ThreadsOK
<1> QED
  BY <1>1 DEF Standing, ThreadStates

\* A sweep that starts and a handler that starts.
LEMMA Starting ==
    ASSUME NEW t \in Own, NEW f \in Files, NEW todo \in SUBSET Files
    PROVE  LET walking == [Idle EXCEPT !.pc = "walking", !.todo = todo]
               hashing == [Idle EXCEPT !.pc = "hashing", !.file = {f}]
           IN  /\ t \in Sweepers => Standing(t, walking)
               /\ walking.file = {}
               /\ t \in Handlers => Standing(t, hashing)
               /\ hashing.pc = "hashing" /\ hashing.file = {f} /\ hashing.key = 0
  BY DEF Standing, ThreadStates, Idle, NoVerdict

-----------------------------------------------------------------------------
\* Every step keeps the types.
LEMMA EditTyped ==
    ASSUME FilesOK, NEW f \in Files, NEW new \in Verdicts \cup {"gone"},
           NEW inPlace \in BOOLEAN, NEW sameKey \in BOOLEAN, Edit(f, new, inPlace, sameKey)
    PROVE  FilesOK'
<1>1. content' \in [Files -> Verdicts \cup {"gone"}]
  BY DEF FilesOK, Edit
<1>2. version' \in [Files -> Nat \ {0}] /\ key' \in [Files -> Nat \ {0}]
  BY DEF FilesOK, Edit
<1>3. mark' \in SUBSET Files /\ notices' \in SUBSET Files /\ disturbed' \in SUBSET Files
  BY DEF FilesOK, Edit
<1> QED
  BY <1>1, <1>2, <1>3 DEF FilesOK

LEMMA CacheTyped ==
    ASSUME CacheOK, FilesOK, ThreadsOK, NEW t \in Own, NEW f \in Files,
           Evaluated(t, f)
    PROVE  CacheOK'
<1>1. thread[t].key \in Nat /\ thread[t].verdict \in Verdicts \cup {NoVerdict}
  BY DEF ThreadsOK, ThreadStates
<1> QED
  BY <1>1 DEF CacheOK, Evaluated, fileVars

\* The steps of sweeps and handlers.
LEMMA JudgeTyped ==
    ASSUME FilesOK, CacheOK, ThreadsOK, AnswersOK, QueueOK,
           NEW t \in Own, NEW f \in Files, Judge(t, f)
    PROVE  FilesOK' /\ CacheOK' /\ ThreadsOK' /\ AnswersOK' /\ QueueOK'
<1> DEFINE on == [thread[t] EXCEPT !.file = {f}, !.todo = @ \ {f}]
<1>t. thread[t] \in ThreadStates
  BY DEF ThreadsOK
<1>o. t \in Openers
  BY DEF Openers
<1>v. key[f] \in Nat /\ content[f] \in Verdicts \cup {"gone"}
  BY DEF FilesOK
<1>d. Standing(t, Done(t, thread[t]))
  BY <1>t, Resting
<1>n. on \in ThreadStates /\ on.file = {f}
  BY TurnedTo
<1> HIDE DEF on
<1>1. CASE Forget(t, f)
  <2>1. CacheOK'
    BY <1>1 DEF Forget, CacheOK, NotCached, NoVerdict
  <2>2. ThreadsOK'
    BY <1>1, Stepping, OneMoves DEF Forget, At
  <2> QED
    BY <1>1, <2>1, <2>2, Unchanged DEF Forget
<1>2. CASE Look(t, f)
  <2>1. PICK s : Moves(t, s) /\ Standing(t, s)
    <3>1. CASE ~Exists(f) /\ Moves(t, Done(t, on))
      BY <3>1, <1>n, Resting
    <3>2. CASE Moves(t, Judged(t, on, f, cache[f].verdict))
      BY <3>2, <1>n, Judging
    <3>3. CASE Moves(t, [on EXCEPT !.pc = "reading", !.key = key[f]])
      BY <3>3, <1>v, Turning DEF on
    <3> QED
      BY <1>2, <3>1, <3>2, <3>3 DEF Look, on
  <2>2. ThreadsOK'
    BY <2>1, OneMoves
  <2>3. QueueOK'
    BY <1>2, <1>o, Queueing, Unchanged DEF Look, QueueOK
  <2> QED
    BY <1>2, <2>2, <2>3, Unchanged DEF Look
<1>3. CASE Read(t, f)
  <2>1. content[f] \in Verdicts
    BY <1>3, <1>v DEF Read, Exists
  <2>2. ThreadsOK'
    BY <1>3, <2>1, Stepping, OneMoves DEF Read
  <2> QED
    BY <1>3, <2>2, Unchanged DEF Read
<1>4. CASE Evaluated(t, f)
  <2>1. CacheOK'
    BY <1>4, CacheTyped
  <2>2. Standing(t, Judged(t, thread[t], f, thread[t].verdict))
    BY <1>4, <1>t, Judging DEF Evaluated, On
  <2>3. ThreadsOK'
    BY <1>4, <2>2, OneMoves DEF Evaluated
  <2> QED
    BY <1>4, <2>1, <2>3, Unchanged DEF Evaluated
<1>5. CASE NoVerdictReached(t, f)
  <2>1. ThreadsOK'
    BY <1>5, <1>d, OneMoves DEF NoVerdictReached
  <2> QED
    BY <1>5, <2>1, Unchanged DEF NoVerdictReached
<1>6. CASE Mark(t, f)
  <2>1. ThreadsOK'
    BY <1>6, <1>d, Stepping, OneMoves DEF Mark, At
  <2>2. FilesOK'
    BY <1>6 DEF Mark, FilesOK
  <2> QED
    BY <1>6, <2>1, <2>2, Unchanged DEF Mark
<1>7. CASE RecordMarked(t, f)
  <2>1. ThreadsOK'
    BY <1>7, <1>d, OneMoves DEF RecordMarked
  <2>2. CacheOK'
    BY <1>7 DEF RecordMarked, CacheOK
  <2> QED
    BY <1>7, <2>1, <2>2, Unchanged DEF RecordMarked
<1>8. CASE Unmark(t, f)
  <2>1. ThreadsOK'
    BY <1>8, Stepping, OneMoves DEF Unmark, At
  <2>2. FilesOK'
    BY <1>8 DEF Unmark, FilesOK
  <2> QED
    BY <1>8, <2>1, <2>2, Unchanged DEF Unmark
<1>9. CASE RecordUnmarked(t, f)
  <2>1. ThreadsOK'
    BY <1>9, <1>d, OneMoves DEF RecordUnmarked
  <2>2. CacheOK'
    BY <1>9 DEF RecordUnmarked, CacheOK
  <2> QED
    BY <1>9, <2>1, <2>2, Unchanged DEF RecordUnmarked
<1> QED
  BY <1>1, <1>2, <1>3, <1>4, <1>5, <1>6, <1>7, <1>8, <1>9 DEF Judge

\* Sweeps that start and end, and the observer.
LEMMA SweepTyped ==
    ASSUME FilesOK, CacheOK, ThreadsOK, AnswersOK, QueueOK,
           NEW t \in Sweepers, Sweep(t)
    PROVE  FilesOK' /\ CacheOK' /\ ThreadsOK' /\ AnswersOK' /\ QueueOK'
<1>t. t \in Own
  BY DEF Own
<1>1. CASE SweepStarts(t)
  <2>1. Standing(t, [Idle EXCEPT !.pc = "walking", !.todo = {f \in Files : Exists(f)}])
    <3>1. ASSUME NEW f \in Files
          PROVE  Standing(t, [Idle EXCEPT !.pc = "walking", !.todo = {g \in Files : Exists(g)}])
      BY <1>t, Starting
    <3>2. CASE Files = {}
      BY <1>t, <3>2 DEF Standing, ThreadStates, Idle, NoVerdict
    <3> QED
      BY <3>1, <3>2
  <2>2. ThreadsOK'
    BY <1>1, <1>t, <2>1, OneMoves DEF SweepStarts
  <2> QED
    BY <1>1, <2>2, Unchanged DEF SweepStarts
<1>2. CASE SweepEnds(t)
  <2>1. ThreadsOK'
    <3>1. thread[t] \in ThreadStates
      BY <1>t DEF ThreadsOK
    <3>2. Standing(t, Idle)
      BY <1>t, <3>1, Resting
    <3> QED
      BY <1>2, <1>t, <3>2, OneMoves DEF SweepEnds
  <2>2. CacheOK'
    <3>1. markedFiles' \in SUBSET Files
      BY <1>2 DEF SweepEnds, CacheOK
    <3>2. cache' \in [Files -> [key : Nat, verdict : Verdicts \cup {NoVerdict}]]
      BY <1>2 DEF SweepEnds, CacheOK, NotCached, NoVerdict
    <3> QED
      BY <3>1, <3>2 DEF CacheOK
  <2> QED
    BY <1>2, <2>1, <2>2, Unchanged DEF SweepEnds
<1> QED
  BY <1>1, <1>2 DEF Sweep

LEMMA NoticeTyped ==
    ASSUME FilesOK, CacheOK, ThreadsOK, AnswersOK, QueueOK,
           NEW f \in Files, Notice(f)
    PROVE  FilesOK' /\ CacheOK' /\ ThreadsOK' /\ AnswersOK' /\ QueueOK'
<1>1. CASE OverlookNotice(f)
  <2>1. FilesOK'
    BY <1>1 DEF OverlookNotice, FilesOK
  <2> QED
    BY <1>1, <2>1, Unchanged DEF OverlookNotice, sweepVars
<1>2. ASSUME NEW t \in Handlers, HandleNotice(t, f)
      PROVE  FilesOK' /\ CacheOK' /\ ThreadsOK' /\ AnswersOK' /\ QueueOK'
  <2>t. t \in Own /\ t \in Openers
    BY DEF Own, Openers
  <2>1. FilesOK'
    BY <1>2 DEF HandleNotice, FilesOK
  <2>2. Standing(t, [Idle EXCEPT !.pc = "hashing", !.file = {f}])
    BY <2>t, Starting
  <2>3. ThreadsOK'
    BY <1>2, <2>t, <2>2, OneMoves DEF HandleNotice
  <2>4. QueueOK'
    BY <1>2, <2>t, Queueing DEF HandleNotice, QueueOK
  <2> QED
    BY <1>2, <2>1, <2>3, <2>4, Unchanged DEF HandleNotice
<1> QED
  BY <1>1, <1>2 DEF Notice

\* An open is not the absence of one.
LEMMA OpensArePairs ==
    ASSUME NEW o \in Opens
    PROVE  o # NoOpen /\ o[1] \in Openers /\ o[2] \in Files
  BY DEF Opens, NoOpen

\* The responder and the threads it starts.
LEMMA AnswersTyped ==
    ASSUME AnswersOK, QueueOK,
           \/ Respond \/ SendReadDenied \/ FreeLock \/ TakeLock
           \/ \E f \in Files : ReportEnds(f)
    PROVE  AnswersOK' /\ QueueOK' /\ UNCHANGED <<fileVars, sweepVars>>
<1>1. CASE TakeOpen
  <2>1. Head(queue) \in Opens /\ Tail(queue) \in Seq(Opens)
    BY <1>1 DEF TakeOpen, QueueOK
  <2>2. Head(queue) # NoOpen
    BY <2>1, OpensArePairs
  <2>3. PICK next \in {"answering", "refusing"} :
            responder' = [pc |-> next, open |-> Head(queue)]
    BY <1>1 DEF TakeOpen
  <2>4. /\ responder' \in [pc : {"polling", "refusing", "answering"},
                           open : Opens \cup {NoOpen}]
        /\ responder'.pc # "polling" /\ responder'.open # NoOpen
    BY <2>1, <2>2, <2>3
  <2> QED
    BY <1>1, <2>1, <2>4 DEF TakeOpen, AnswersOK, QueueOK
<1>2. CASE Answer
  <2>1. responder' = [pc |-> "polling", open |-> NoOpen]
    BY <1>2 DEF Answer, Free
  <2> QED
    BY <1>2, <2>1 DEF Answer, AnswersOK, QueueOK
<1>3. CASE SendReadDenied
  <2>1. responder.open \in Opens
    BY <1>3 DEF SendReadDenied, AnswersOK
  <2>2. responder.open[2] \in Files /\ responder.open # NoOpen
    BY <2>1, OpensArePairs
  <2>3. QueueOK'
    BY <1>3, <2>2, Queueing DEF SendReadDenied, QueueOK, Openers
  <2>4. reports' \in SUBSET Files
    BY <1>3, <2>2 DEF SendReadDenied, AnswersOK
  <2>5. /\ responder' \in [pc : {"polling", "refusing", "answering"},
                           open : Opens \cup {NoOpen}]
        /\ responder'.pc # "polling" /\ responder'.open # NoOpen
    BY <1>3, <2>2 DEF SendReadDenied, AnswersOK
  <2> QED
    BY <1>3, <2>3, <2>4, <2>5 DEF SendReadDenied, AnswersOK
<1>4. CASE FreeLock \/ TakeLock
  BY <1>4 DEF FreeLock, TakeLock, AnswersOK, QueueOK
<1>5. ASSUME NEW f \in Files, ReportEnds(f)
      PROVE  AnswersOK' /\ QueueOK' /\ UNCHANGED <<fileVars, sweepVars>>
  BY <1>5 DEF ReportEnds, AnswersOK, QueueOK
<1> QED
  BY <1>1, <1>2, <1>3, <1>4, <1>5 DEF Respond

LEMMA EndTyped ==
    ASSUME FilesOK, AgentEnds
    PROVE  FilesOK' /\ CacheOK' /\ ThreadsOK' /\ AnswersOK' /\ QueueOK'
<1>1. FilesOK'
  BY DEF AgentEnds, FilesOK
<1>2. CacheOK'
  BY DEF AgentEnds, CacheOK, NotCached, NoVerdict
<1>3. ThreadsOK'
  BY DEF AgentEnds, ThreadsOK, Standing, ThreadStates, Idle, NoVerdict
<1>4. QueueOK'
  BY DEF AgentEnds, QueueOK
<1>5. responder' = [pc |-> "polling", open |-> NoOpen]
  BY DEF AgentEnds, Free
<1>6. reports' = {} /\ lockHeld' = FALSE /\ guard' = "closed"
  BY DEF AgentEnds
<1>7. AnswersOK'
  BY <1>5, <1>6 DEF AnswersOK
<1> QED
  BY <1>1, <1>2, <1>3, <1>4, <1>7

LEMMA TypeInvariant == TypeOK /\ [Next]_vars => TypeOK'
<1> SUFFICES ASSUME TypeOK, [Next]_vars PROVE TypeOK'
  OBVIOUS
<1> DEFINE Typed == FilesOK /\ CacheOK /\ ThreadsOK /\ AnswersOK /\ QueueOK
<1>0. Typed
  BY TypeParts
<1>p. Typed' => TypeOK'
  BY TypeParts, PTL
<1> SUFFICES Typed'
  BY <1>p
<1>1. ASSUME NEW f \in Files, NEW new \in Verdicts \cup {"gone"}, NEW inPlace \in BOOLEAN,
             NEW sameKey \in BOOLEAN, Edit(f, new, inPlace, sameKey)
      PROVE  Typed'
  BY <1>0, <1>1, EditTyped, Unchanged DEF Edit, sweepVars
<1>2. ASSUME NEW r \in Readers, NEW f \in Files, ReaderOpens(r, f)
      PROVE  Typed'
  <2>1. QueueOK'
    BY <1>0, <1>2, Queueing DEF ReaderOpens, QueueOK, Openers
  <2> QED
    BY <1>0, <1>2, <2>1, Unchanged DEF ReaderOpens, sweepVars
<1>3. ASSUME \/ Respond \/ SendReadDenied \/ FreeLock \/ TakeLock
             \/ \E f \in Files : ReportEnds(f)
      PROVE  Typed'
  <2>1. AnswersOK' /\ QueueOK' /\ UNCHANGED <<fileVars, sweepVars>>
    BY <1>0, <1>3, AnswersTyped
  <2> QED
    BY <1>0, <2>1, Unchanged DEF sweepVars
<1>4. CASE AgentEnds
  BY <1>0, <1>4, EndTyped
<1>5. CASE AgentStarts
  <2>1. AnswersOK'
    BY <1>0, <1>5 DEF AgentStarts, AnswersOK, answerVars
  <2> QED
    BY <1>0, <1>5, <2>1, Unchanged DEF AgentStarts, sweepVars
<1>6. ASSUME NEW t \in Sweepers, Sweep(t) PROVE Typed'
  BY <1>0, <1>6, SweepTyped
<1>7. ASSUME NEW f \in Files, Notice(f) PROVE Typed'
  BY <1>0, <1>7, NoticeTyped
<1>8. ASSUME NEW t \in Own, NEW f \in Files, Judge(t, f) PROVE Typed'
  BY <1>0, <1>8, JudgeTyped
<1>9. CASE UNCHANGED vars
  BY <1>0, <1>9, Unchanged DEF vars, sweepVars, answerVars
<1> QED
  <2>1. CASE Environment
    BY <2>1, <1>1, <1>2, <1>3, <1>4 DEF Environment
  <2>2. CASE Next /\ ~Environment
    BY <2>2, <1>3, <1>5, <1>6, <1>7, <1>8 DEF Next
  <2> QED
    BY <2>1, <2>2, <1>9

\* The types, in every state the guard can reach.
THEOREM Typing == Spec => []TypeOK
  BY Initially, TypeInvariant, PTL DEF Spec

-----------------------------------------------------------------------------
(* What the guard believes.                                                 *)

\* Nothing is known under a key that is still to come.
CacheDated == \A f \in Files : cache[f].key <= key[f] /\ key[f] <= version[f]

\* A thread that has f in hand: it took the key before the content,
\* and if nobody disturbed it, it acts on what the file holds now, and what
\* it is about to list is marked.
Informed(s, f) ==
    s.file = {f} =>
        /\ s.key <= key[f]
        /\ s.pc = "evaluated" /\ s.key = key[f] /\ key[f] = version[f] =>
              s.verdict = content[f]
        /\ f \notin disturbed =>
            /\ s.pc \in {"reading", "evaluated"} => s.key = key[f]
            /\ s.pc = "evaluated" => s.verdict = content[f]
            /\ s.pc \in {"marking", "adding"} => content[f] = "sensitive"
            /\ s.pc \in {"unmarking", "discarding"} => content[f] = "harmless"
            /\ s.pc = "adding" => f \in mark
ThreadsInformed == \A t \in Own, f \in Files : Informed(thread[t], f)

\* While no agent runs nothing is listed, announced or under way.
ClosedIsEmpty ==
    guard = "closed" =>
        /\ markedFiles = {} /\ notices = {} /\ mark = {}
        /\ \A t \in Own : thread[t] = Idle

GuardInv ==
    CacheDated /\ CacheIsRight /\ ThreadsInformed /\ ClosedIsEmpty /\ ListedIsMarked

LEMMA GuardInitially == Init => GuardInv
<1> SUFFICES ASSUME Init PROVE GuardInv
  OBVIOUS
<1>1. \A f \in Files : cache[f].key = 0 /\ key[f] = 1 /\ version[f] = 1
  BY DEF Init, NotCached
<1>2. \A t \in Own : thread[t].file = {}
  BY DEF Init, Idle
<1>3. markedFiles = {} /\ guard = "armed"
  BY DEF Init
<1>4. CacheDated /\ CacheIsRight
  BY <1>1 DEF CacheDated, CacheIsRight
<1>5. ThreadsInformed
  BY <1>2 DEF ThreadsInformed, Informed
<1>6. ClosedIsEmpty
  BY <1>3 DEF ClosedIsEmpty
<1>7. ListedIsMarked
  BY <1>3 DEF ListedIsMarked
<1> QED
  BY <1>4, <1>5, <1>6, <1>7 DEF GuardInv

\* The others know what they knew, if the marks of what they are about to list
\* are still there.
LEMMA OthersInformed ==
    ASSUME ThreadsInformed, NEW t \in Own,
           \A u \in Own : u # t => thread'[u] = thread[u],
           UNCHANGED <<content, version, key, disturbed>>,
           \A u \in Own, g \in Files :
               u # t /\ On(u, g) /\ At(u, "adding") /\ g \notin disturbed => g \in mark',
           \A g \in Files : Informed(thread[t], g)'
    PROVE  ThreadsInformed'
<1> SUFFICES ASSUME NEW u \in Own, NEW g \in Files PROVE Informed(thread[u], g)'
  BY DEF ThreadsInformed
<1>1. CASE u = t
  BY <1>1
<1>2. CASE u # t
  <2>1. thread'[u] = thread[u] /\ Informed(thread[u], g)
    BY <1>2 DEF ThreadsInformed
  <2>2. thread[u].pc = "adding" /\ thread[u].file = {g} /\ g \notin disturbed => g \in mark'
    BY <1>2 DEF On, At
  <2> QED
    BY <2>1, <2>2 DEF Informed
<1> QED
  BY <1>1, <1>2

\* The marks that the others count on, when none is taken away.
LEMMA MarksKept ==
    ASSUME ThreadsInformed, mark \subseteq mark'
    PROVE  \A u \in Own, g \in Files :
               On(u, g) /\ At(u, "adding") /\ g \notin disturbed => g \in mark'
  BY DEF ThreadsInformed, Informed, On, At

\* A thread without a file has nothing to know.
LEMMA NothingInHand ==
    ASSUME NEW t \in Own, thread'[t].file = {}
    PROVE  \A g \in Files : Informed(thread[t], g)'
  BY DEF Informed

\* The cache stays right if nothing is stored in it.
LEMMA CacheKept ==
    ASSUME FilesOK, CacheOK, CacheDated, CacheIsRight, UNCHANGED <<content, version, key>>,
           disturbed \subseteq disturbed',
           \A f \in Files : cache'[f] = cache[f] \/ cache'[f] = NotCached
    PROVE  CacheDated' /\ CacheIsRight'
<1> SUFFICES ASSUME NEW f \in Files
             PROVE  /\ cache'[f].key <= key[f] /\ key[f] <= version[f]
                    /\ cache'[f].key = key[f] =>
                          \/ cache'[f].verdict = content[f]
                          \/ key[f] # version[f] /\ f \in disturbed
  BY DEF CacheDated, CacheIsRight
<1>1. key[f] \in Nat \ {0} /\ key[f] <= version[f]
  BY DEF FilesOK, CacheDated
<1>2. CASE cache'[f] = cache[f]
  BY <1>2 DEF CacheDated, CacheIsRight
<1>3. CASE cache'[f] = NotCached
  BY <1>1, <1>3 DEF NotCached
<1> QED
  BY <1>2, <1>3

\* Nothing new is listed, no mark is taken away, and the thread that moves was
\* not the one to announce a change or to strike a file off.
LEMMA ListKept ==
    ASSUME ListedIsMarked, NEW t \in Own,
           \A u \in Own : u # t => thread'[u] = thread[u],
           thread[t].pc \notin {"hashing", "discarding"},
           markedFiles' \subseteq markedFiles, mark \subseteq mark',
           notices \subseteq notices', disturbed \subseteq disturbed',
           content' = content
    PROVE  ListedIsMarked'
<1> SUFFICES ASSUME NEW g \in markedFiles' \ disturbed'
             PROVE  \/ g \in mark' \/ ~Exists(g)' \/ Announced(g)'
                    \/ \E u \in Sweepers : At(u, "discarding")' /\ On(u, g)'
  BY DEF ListedIsMarked
<1>1. \/ g \in mark \/ ~Exists(g) \/ Announced(g)
      \/ \E u \in Sweepers : At(u, "discarding") /\ On(u, g)
  BY DEF ListedIsMarked
<1>2. CASE g \in mark
  BY <1>2
<1>3. CASE ~Exists(g)
  BY <1>3 DEF Exists
<1>4. CASE g \in notices
  BY <1>4 DEF Announced
<1>5. ASSUME NEW u \in Handlers, At(u, "hashing") /\ On(u, g) PROVE Announced(g)'
  <2>1. u \in Own /\ u # t
    BY <1>5 DEF Own, At
  <2>2. thread'[u] = thread[u]
    BY <2>1
  <2> QED
    BY <1>5, <2>2 DEF Announced, At, On
<1>6. ASSUME NEW u \in Sweepers, At(u, "discarding") /\ On(u, g)
      PROVE  At(u, "discarding")' /\ On(u, g)'
  <2>1. u \in Own /\ u # t
    BY <1>6 DEF Own, At
  <2>2. thread'[u] = thread[u]
    BY <2>1
  <2> QED
    BY <1>6, <2>2 DEF At, On
<1> QED
  BY <1>1, <1>2, <1>3, <1>4, <1>5, <1>6 DEF Announced

\* Who is at work has an agent.
LEMMA AtWork ==
    ASSUME ClosedIsEmpty, NEW t \in Own, thread[t] # Idle, UNCHANGED guard
    PROVE  guard # "closed" /\ ClosedIsEmpty'
  BY DEF ClosedIsEmpty

\* What is left to show of a step of t that stores no verdict, takes no mark
\* away and lists nothing.
LEMMA QuietStep ==
    ASSUME FilesOK, CacheOK, GuardInv, NEW t \in Own, thread[t] # Idle,
           thread[t].pc \notin {"hashing", "discarding"},
           \A u \in Own : u # t => thread'[u] = thread[u],
           \A f \in Files : cache'[f] = cache[f] \/ cache'[f] = NotCached,
           markedFiles' \subseteq markedFiles, mark \subseteq mark',
           UNCHANGED <<content, version, key, notices, disturbed, guard>>,
           \A g \in Files : Informed(thread[t], g)'
    PROVE  GuardInv'
<1>1. CacheDated' /\ CacheIsRight'
  BY CacheKept DEF GuardInv
<1>2. ThreadsInformed'
  BY MarksKept, OthersInformed DEF GuardInv
<1>3. ClosedIsEmpty'
  BY AtWork DEF GuardInv
<1>4. ListedIsMarked'
  BY ListKept DEF GuardInv
<1> QED
  BY <1>1, <1>2, <1>3, <1>4 DEF GuardInv

\* Every other step of t that leaves the cache alone.
LEMMA LoudStep ==
    ASSUME FilesOK, CacheOK, GuardInv, NEW t \in Own, thread[t] # Idle,
           \A u \in Own : u # t => thread'[u] = thread[u],
           \A f \in Files : cache'[f] = cache[f] \/ cache'[f] = NotCached,
           UNCHANGED <<content, version, key, disturbed, guard>>,
           \A u \in Own, g \in Files :
               u # t /\ On(u, g) /\ At(u, "adding") /\ g \notin disturbed => g \in mark',
           \A g \in Files : Informed(thread[t], g)',
           ListedIsMarked'
    PROVE  GuardInv'
<1>1. CacheDated' /\ CacheIsRight'
  BY CacheKept DEF GuardInv
<1>2. ThreadsInformed'
  BY OthersInformed DEF GuardInv
<1>3. ClosedIsEmpty'
  BY AtWork DEF GuardInv
<1> QED
  BY <1>1, <1>2, <1>3 DEF GuardInv

\* Where a thread stands after it moved.
LEMMA Moved ==
    ASSUME ThreadsOK, NEW t \in Own, NEW s, Moves(t, s)
    PROVE  thread'[t] = s /\ \A u \in Own : u # t => thread'[u] = thread[u]
  BY DEF ThreadsOK, Moves

LEMMA LookInformed ==
    ASSUME FilesOK, CacheOK, ThreadsOK, GuardInv, NEW t \in Own, NEW f \in Files, Look(t, f)
    PROVE  /\ \A g \in Files : Informed(thread[t], g)'
           /\ \A u \in Own : u # t => thread'[u] = thread[u]
<1> DEFINE on == [thread[t] EXCEPT !.file = {f}, !.todo = @ \ {f}]
<1>v. key[f] \in Nat \ {0}
  BY DEF FilesOK
<1>n. on \in ThreadStates /\ on.file = {f}
  BY TurnedTo
<1>u. UNCHANGED <<content, version, key, mark, disturbed>>
  BY DEF Look, fileVars
<1>1. CASE ~Exists(f) /\ Moves(t, Done(t, on))
  <2>1. thread'[t].file = {} /\ \A u \in Own : u # t => thread'[u] = thread[u]
    BY <1>1, <1>n, Moved, Resting
  <2> QED
    BY <2>1, NothingInHand
<1>2. CASE cache[f].key = key[f] /\ Moves(t, Judged(t, on, f, cache[f].verdict))
  <2>1. /\ thread'[t] = Judged(t, on, f, cache[f].verdict)
        /\ \A u \in Own : u # t => thread'[u] = thread[u]
    BY <1>2, Moved
  <2>2. f \notin disturbed => cache[f].verdict = content[f]
    BY <1>2 DEF GuardInv, CacheIsRight
  <2>3. \/ thread'[t].file = {}
        \/ /\ thread'[t].pc = "marking" /\ thread'[t].file = {f}
           /\ f \notin disturbed => content[f] = "sensitive"
           /\ thread'[t].key = 0
        \/ /\ thread'[t].pc = "unmarking" /\ thread'[t].file = {f}
           /\ f \notin disturbed => content[f] = "harmless"
           /\ thread'[t].key = 0
    <3>1. LET r == Judged(t, on, f, cache[f].verdict) IN
          \/ r.file = {}
          \/ r.pc = "marking" /\ r.file = {f} /\ cache[f].verdict = "sensitive" /\ r.key = 0
          \/ r.pc = "unmarking" /\ r.file = {f} /\ cache[f].verdict = "harmless" /\ r.key = 0
      <4> HIDE DEF on
      <4> QED
        BY <1>n, Judging
    <3> QED
      BY <2>1, <2>2, <3>1
  <2>4. \A g \in Files : Informed(thread[t], g)'
    BY <1>v, <1>u, <2>3 DEF Informed
  <2> QED
    BY <2>1, <2>4
<1>3. CASE Moves(t, [on EXCEPT !.pc = "reading", !.key = key[f]])
  <2>1. /\ thread'[t] = [on EXCEPT !.pc = "reading", !.key = key[f]]
        /\ \A u \in Own : u # t => thread'[u] = thread[u]
    BY <1>3, Moved
  <2>2. /\ thread'[t].pc = "reading" /\ thread'[t].file = {f}
        /\ thread'[t].key = key[f]
    <3>1. thread[t] \in ThreadStates
      BY DEF ThreadsOK
    <3> QED
      BY <2>1, <3>1 DEF ThreadStates
  <2>3. \A g \in Files : Informed(thread[t], g)'
    BY <1>v, <1>u, <2>2 DEF Informed
  <2> QED
    BY <2>1, <2>3
<1> QED
  BY <1>1, <1>2, <1>3 DEF Look

\* The verdict that is stored is right for the key it is stored under.
LEMMA StoreKeeps ==
    ASSUME FilesOK, CacheOK, ThreadsOK, GuardInv, NEW t \in Own, NEW f \in Files,
           Evaluated(t, f)
    PROVE  GuardInv'
<1>v. key[f] \in Nat \ {0}
  BY DEF FilesOK
<1>t. thread[t] \in ThreadStates /\ thread[t].pc = "evaluated" /\ thread[t].file = {f}
  BY DEF ThreadsOK, Evaluated, At, On
<1>i. Informed(thread[t], f)
  BY DEF GuardInv, ThreadsInformed
<1>u. UNCHANGED <<content, version, key, mark, notices, disturbed, markedFiles, guard>>
  BY DEF Evaluated, fileVars
<1>m. /\ thread'[t] = Judged(t, thread[t], f, thread[t].verdict)
      /\ \A u \in Own : u # t => thread'[u] = thread[u]
  BY Moved DEF Evaluated
<1>c. cache' = [cache EXCEPT ![f] = [key |-> thread[t].key,
                                     verdict |-> thread[t].verdict]]
  BY DEF Evaluated
<1>1. CacheDated' /\ CacheIsRight'
  <2> SUFFICES ASSUME NEW g \in Files
               PROVE  /\ cache'[g].key <= key[g] /\ key[g] <= version[g]
                      /\ cache'[g].key = key[g] =>
                            \/ cache'[g].verdict = content[g]
                            \/ key[g] # version[g] /\ g \in disturbed
    BY <1>u DEF CacheDated, CacheIsRight
  <2>1. CASE g = f
    <3>1. cache'[f] = [key |-> thread[t].key, verdict |-> thread[t].verdict]
      BY <1>c DEF CacheOK
    <3>2. key[f] <= version[f]
      BY DEF GuardInv, CacheDated
    <3> QED
      BY <2>1, <3>1, <3>2, <1>i, <1>t DEF Informed
  <2>2. CASE g # f
    <3>1. cache'[g] = cache[g]
      BY <1>c, <2>2 DEF CacheOK
    <3> QED
      BY <3>1 DEF GuardInv, CacheDated, CacheIsRight
  <2> QED
    BY <2>1, <2>2
<1>2. \A g \in Files : Informed(thread[t], g)'
  <2>1. LET r == Judged(t, thread[t], f, thread[t].verdict) IN
        \/ r.file = {}
        \/ r.pc = "marking" /\ r.file = {f} /\ thread[t].verdict = "sensitive" /\ r.key = 0
        \/ r.pc = "unmarking" /\ r.file = {f} /\ thread[t].verdict = "harmless" /\ r.key = 0
    BY <1>t, Judging
  <2>2. f \notin disturbed => thread[t].verdict = content[f]
    BY <1>i, <1>t DEF Informed
  <2> QED
    BY <1>v, <1>m, <1>u, <2>1, <2>2 DEF Informed
<1>3. ThreadsInformed'
  BY <1>2, <1>m, <1>u, MarksKept, OthersInformed DEF GuardInv
<1>4. ClosedIsEmpty'
  BY <1>t, <1>u, AtWork DEF GuardInv, Idle
<1>5. ListedIsMarked'
  BY <1>t, <1>m, <1>u, ListKept DEF GuardInv
<1> QED
  BY <1>1, <1>3, <1>4, <1>5 DEF GuardInv

\* What a step by t leaves of the listing: f is struck off, or has a mark, or
\* is about to be struck off; the others are as they were.
LEMMA OthersListed ==
    ASSUME ListedIsMarked, NEW t \in Own, NEW f \in Files, On(t, f),
           \A u \in Own : u # t => thread'[u] = thread[u],
           markedFiles' \subseteq markedFiles \cup {f}, mark \subseteq mark' \cup {f},
           UNCHANGED <<content, notices, disturbed>>,
           \/ f \notin markedFiles' \/ f \in disturbed \/ f \in mark'
           \/ t \in Sweepers /\ At(t, "discarding")' /\ On(t, f)'
    PROVE  ListedIsMarked'
<1> SUFFICES ASSUME NEW g \in markedFiles' \ disturbed'
             PROVE  \/ g \in mark' \/ ~Exists(g)' \/ Announced(g)'
                    \/ \E u \in Sweepers : At(u, "discarding")' /\ On(u, g)'
  BY DEF ListedIsMarked
<1>1. CASE g = f
  BY <1>1
<1>2. CASE g # f
  <2>1. ~On(t, g)
    BY <1>2 DEF On
  <2>2. \A u \in Own : On(u, g) => thread'[u] = thread[u]
    BY <2>1
  <2>3. \/ g \in mark \/ ~Exists(g) \/ Announced(g)
        \/ \E u \in Sweepers : At(u, "discarding") /\ On(u, g)
    BY <1>2 DEF ListedIsMarked
  <2>4. CASE g \in mark \/ ~Exists(g) \/ g \in notices
    BY <1>2, <2>4 DEF Exists, Announced
  <2>5. ASSUME NEW u \in Handlers, At(u, "hashing") /\ On(u, g) PROVE Announced(g)'
    <3>1. thread'[u] = thread[u]
      BY <2>2, <2>5 DEF Own
    <3> QED
      BY <2>5, <3>1 DEF Announced, At, On
  <2>6. ASSUME NEW u \in Sweepers, At(u, "discarding") /\ On(u, g)
        PROVE  At(u, "discarding")' /\ On(u, g)'
    <3>1. thread'[u] = thread[u]
      BY <2>2, <2>6 DEF Own
    <3> QED
      BY <2>6, <3>1 DEF At, On
  <2> QED
    BY <2>3, <2>4, <2>5, <2>6 DEF Announced
<1> QED
  BY <1>1, <1>2

\* A mark is taken away from a harmless file only, which nobody who knows what
\* it holds is about to list.
LEMMA UnmarkHarmless ==
    ASSUME GuardInv, NEW t \in Own, NEW f \in Files, thread[t].file = {f},
           thread[t].pc = "unmarking", mark \subseteq mark' \cup {f}
    PROVE  \A u \in Own, g \in Files :
               On(u, g) /\ At(u, "adding") /\ g \notin disturbed => g \in mark'
<1> SUFFICES ASSUME NEW u \in Own, NEW g \in Files,
                    On(u, g), At(u, "adding"), g \notin disturbed
             PROVE  g \in mark'
  OBVIOUS
<1>1. content[g] = "sensitive" /\ g \in mark
  BY DEF GuardInv, ThreadsInformed, Informed, On, At
<1>2. g = f => content[g] = "harmless"
  BY DEF GuardInv, ThreadsInformed, Informed
<1> QED
  BY <1>1, <1>2

\* The steps of sweeps and handlers on a file.
LEMMA JudgeKeeps ==
    ASSUME FilesOK, CacheOK, ThreadsOK, GuardInv,
           NEW t \in Own, NEW f \in Files, Judge(t, f)
    PROVE  GuardInv'
<1>v. key[f] \in Nat \ {0}
  BY DEF FilesOK
<1>t. thread[t] \in ThreadStates
  BY DEF ThreadsOK
<1>w. ASSUME thread[t].pc # "idle" PROVE thread[t] # Idle
  BY <1>w DEF Idle
<1>i. Informed(thread[t], f)
  BY DEF GuardInv, ThreadsInformed
<1>d. ASSUME Moves(t, Done(t, thread[t]))
      PROVE  /\ \A g \in Files : Informed(thread[t], g)'
             /\ \A u \in Own : u # t => thread'[u] = thread[u]
  <2>1. thread'[t].file = {} /\ \A u \in Own : u # t => thread'[u] = thread[u]
    BY <1>d, <1>t, Moved, Resting
  <2> QED
    BY <2>1, NothingInHand
<1>1. CASE Forget(t, f)
  <2>1. /\ thread'[t] = [thread[t] EXCEPT !.pc = "looking"]
        /\ \A u \in Own : u # t => thread'[u] = thread[u]
    BY <1>1, Moved DEF Forget
  <2>2. /\ thread[t].pc = "hashing" /\ thread[t].file = {f}
        /\ thread'[t].pc = "looking" /\ thread'[t].file = {f}
        /\ thread'[t].key = thread[t].key
    BY <1>1, <1>t, <2>1 DEF Forget, At, On, ThreadStates
  <2>3. UNCHANGED <<content, version, key, mark, notices, disturbed, guard>>
    BY <1>1 DEF Forget, fileVars
  <2>4. \A g \in Files : Informed(thread[t], g)'
    BY <1>i, <2>2, <2>3 DEF Informed
  <2>5. \A g \in Files : cache'[g] = cache[g] \/ cache'[g] = NotCached
    BY <1>1 DEF Forget, CacheOK
  <2>6. ListedIsMarked'
    <3>1. markedFiles' \subseteq markedFiles /\ f \notin markedFiles'
      BY <1>1 DEF Forget
    <3> QED
      BY <2>1, <2>2, <2>3, <3>1, OthersListed DEF GuardInv, On
  <2>7. \A u \in Own, g \in Files :
            On(u, g) /\ At(u, "adding") /\ g \notin disturbed => g \in mark'
    BY <2>3, MarksKept DEF GuardInv
  <2> QED
    BY <1>w, <2>1, <2>2, <2>3, <2>4, <2>5, <2>6, <2>7, LoudStep
<1>2. CASE Look(t, f)
  <2>1. thread[t].pc \in {"looking", "walking"}
    BY <1>2 DEF Look, At
  <2>2. UNCHANGED <<content, version, key, mark, notices, disturbed, markedFiles, cache, guard>>
    BY <1>2 DEF Look, fileVars
  <2>3. /\ \A g \in Files : Informed(thread[t], g)'
        /\ \A u \in Own : u # t => thread'[u] = thread[u]
    BY <1>2, LookInformed
  <2> QED
    BY <1>w, <2>1, <2>2, <2>3, QuietStep
<1>3. CASE Read(t, f)
  <2>1. /\ thread'[t] = [thread[t] EXCEPT !.pc = "evaluated", !.verdict = content[f]]
        /\ \A u \in Own : u # t => thread'[u] = thread[u]
    BY <1>3, Moved DEF Read
  <2>2. /\ thread[t].pc = "reading" /\ thread[t].file = {f}
        /\ thread'[t].pc = "evaluated" /\ thread'[t].file = {f}
        /\ thread'[t].key = thread[t].key /\ thread'[t].verdict = content[f]
    BY <1>3, <1>t, <2>1 DEF Read, At, On, ThreadStates
  <2>3. UNCHANGED <<content, version, key, mark, notices, disturbed, markedFiles, cache, guard>>
    BY <1>3 DEF Read, fileVars
  <2>4. \A g \in Files : Informed(thread[t], g)'
    BY <1>i, <2>2, <2>3 DEF Informed
  <2> QED
    BY <1>w, <2>1, <2>2, <2>3, <2>4, QuietStep
<1>4. CASE Evaluated(t, f)
  BY <1>4, StoreKeeps
<1>5. CASE NoVerdictReached(t, f)
  <2>1. thread[t].pc = "reading"
    BY <1>5 DEF NoVerdictReached, At
  <2>2. UNCHANGED <<content, version, key, mark, notices, disturbed, markedFiles, cache, guard>>
    BY <1>5 DEF NoVerdictReached, fileVars
  <2> QED
    BY <1>5, <1>w, <1>d, <2>1, <2>2, QuietStep DEF NoVerdictReached
<1>6. CASE Mark(t, f)
  <2>1. thread[t].pc = "marking" /\ thread[t].file = {f}
    BY <1>6 DEF Mark, At, On
  <2>2. /\ UNCHANGED <<content, version, key, notices, disturbed, markedFiles, cache, guard>>
        /\ mark \subseteq mark'
    BY <1>6 DEF Mark
  <2>3. CASE Moves(t, Done(t, thread[t]))
    BY <1>w, <1>d, <2>1, <2>2, <2>3, QuietStep
  <2>4. CASE f \in mark' /\ Moves(t, [thread[t] EXCEPT !.pc = "adding"])
    <3>1. /\ thread'[t] = [thread[t] EXCEPT !.pc = "adding"]
          /\ \A u \in Own : u # t => thread'[u] = thread[u]
      BY <2>4, Moved
    <3>2. /\ thread'[t].pc = "adding" /\ thread'[t].file = {f}
          /\ thread'[t].key = thread[t].key
      BY <1>t, <2>1, <3>1 DEF ThreadStates
    <3>3. \A g \in Files : Informed(thread[t], g)'
      BY <1>i, <2>1, <2>2, <2>4, <3>2 DEF Informed
    <3> QED
      BY <1>w, <2>1, <2>2, <3>1, <3>3, QuietStep
  <2> QED
    BY <1>6, <2>3, <2>4 DEF Mark
<1>7. CASE RecordMarked(t, f)
  <2>1. thread[t].pc = "adding" /\ thread[t].file = {f}
    BY <1>7 DEF RecordMarked, At, On
  <2>2. UNCHANGED <<content, version, key, mark, notices, disturbed, cache, guard>>
    BY <1>7 DEF RecordMarked, fileVars
  <2>3. f \notin disturbed => f \in mark
    BY <1>i, <2>1 DEF Informed
  <2>4. /\ \A g \in Files : Informed(thread[t], g)'
        /\ \A u \in Own : u # t => thread'[u] = thread[u]
    BY <1>7, <1>d DEF RecordMarked
  <2>5. ListedIsMarked'
    <3>1. markedFiles' \subseteq markedFiles \cup {f}
      BY <1>7 DEF RecordMarked
    <3> QED
      BY <2>1, <2>2, <2>3, <2>4, <3>1, OthersListed DEF GuardInv, On
  <2>6. \A u \in Own, g \in Files :
            On(u, g) /\ At(u, "adding") /\ g \notin disturbed => g \in mark'
    BY <2>2, MarksKept DEF GuardInv
  <2> QED
    BY <1>w, <2>1, <2>2, <2>4, <2>5, <2>6, LoudStep
<1>8. CASE Unmark(t, f)
  <2>1. /\ thread'[t] = [thread[t] EXCEPT !.pc = "discarding"]
        /\ \A u \in Own : u # t => thread'[u] = thread[u]
    BY <1>8, Moved DEF Unmark
  <2>2. /\ thread[t].pc = "unmarking" /\ thread[t].file = {f}
        /\ thread'[t].pc = "discarding" /\ thread'[t].file = {f}
        /\ thread'[t].key = thread[t].key
    BY <1>8, <1>t, <2>1 DEF Unmark, At, On, ThreadStates
  <2>3. /\ UNCHANGED <<content, version, key, notices, disturbed, markedFiles, cache, guard>>
        /\ mark \subseteq mark' \cup {f}
    BY <1>8 DEF Unmark
  <2>4. \A g \in Files : Informed(thread[t], g)'
    BY <1>i, <2>2, <2>3 DEF Informed
  <2>5. t \in Sweepers
    BY <2>2 DEF ThreadsOK, Standing
  <2>6. ListedIsMarked'
    BY <2>1, <2>2, <2>3, <2>5, OthersListed DEF GuardInv, On, At
  <2>7. \A u \in Own, g \in Files :
            On(u, g) /\ At(u, "adding") /\ g \notin disturbed => g \in mark'
    BY <2>2, <2>3, UnmarkHarmless
  <2> QED
    BY <1>w, <2>1, <2>2, <2>3, <2>4, <2>6, <2>7, LoudStep
<1>9. CASE RecordUnmarked(t, f)
  <2>1. thread[t].pc = "discarding" /\ thread[t].file = {f}
    BY <1>9 DEF RecordUnmarked, At, On
  <2>2. UNCHANGED <<content, version, key, mark, notices, disturbed, cache, guard>>
    BY <1>9 DEF RecordUnmarked, fileVars
  <2>3. /\ \A g \in Files : Informed(thread[t], g)'
        /\ \A u \in Own : u # t => thread'[u] = thread[u]
    BY <1>9, <1>d DEF RecordUnmarked
  <2>4. ListedIsMarked'
    <3>1. markedFiles' \subseteq markedFiles /\ f \notin markedFiles'
      BY <1>9 DEF RecordUnmarked
    <3> QED
      BY <2>1, <2>2, <2>3, <3>1, OthersListed DEF GuardInv, On
  <2>5. \A u \in Own, g \in Files :
            On(u, g) /\ At(u, "adding") /\ g \notin disturbed => g \in mark'
    BY <2>2, MarksKept DEF GuardInv
  <2> QED
    BY <1>w, <2>1, <2>2, <2>3, <2>4, <2>5, LoudStep
<1> QED
  BY <1>1, <1>2, <1>3, <1>4, <1>5, <1>6, <1>7, <1>8, <1>9 DEF Judge

\* A sweep that starts or ends.
LEMMA SweepKeeps ==
    ASSUME FilesOK, CacheOK, ThreadsOK, GuardInv, NEW t \in Sweepers, Sweep(t)
    PROVE  GuardInv'
<1>t. t \in Own /\ thread[t] \in ThreadStates
  BY DEF Own, ThreadsOK
<1>1. CASE SweepStarts(t)
  <2>1. /\ thread'[t] = [Idle EXCEPT !.pc = "walking", !.todo = {f \in Files : Exists(f)}]
        /\ \A u \in Own : u # t => thread'[u] = thread[u]
    BY <1>1, <1>t, Moved DEF SweepStarts
  <2>2. thread'[t].file = {}
    BY <2>1 DEF Idle
  <2>3. UNCHANGED <<content, version, key, mark, notices, disturbed, markedFiles, cache, guard>>
    BY <1>1 DEF SweepStarts, fileVars
  <2>4. CacheDated' /\ CacheIsRight'
    BY <2>3, CacheKept DEF GuardInv
  <2>5. ThreadsInformed'
    BY <1>t, <2>1, <2>2, <2>3, NothingInHand, MarksKept, OthersInformed DEF GuardInv
  <2>6. ClosedIsEmpty'
    BY <1>1, <2>3 DEF SweepStarts, Available, ClosedIsEmpty
  <2>7. thread[t].pc \notin {"hashing", "discarding"}
    BY <1>1 DEF SweepStarts, At
  <2>8. ListedIsMarked'
    BY <1>t, <2>1, <2>3, <2>7, ListKept DEF GuardInv
  <2> QED
    BY <2>4, <2>5, <2>6, <2>8 DEF GuardInv
<1>2. CASE SweepEnds(t)
  <2>1. thread'[t] = Idle /\ \A u \in Own : u # t => thread'[u] = thread[u]
    BY <1>2, <1>t, Moved DEF SweepEnds
  <2>2. thread'[t].file = {}
    BY <2>1 DEF Idle
  <2>3. UNCHANGED <<content, version, key, mark, notices, disturbed, guard>>
    BY <1>2 DEF SweepEnds, fileVars
  <2>4. thread[t].pc = "walking" /\ thread[t] # Idle
    BY <1>2 DEF SweepEnds, At, Idle
  <2>5. /\ markedFiles' \subseteq markedFiles
        /\ \A f \in Files : cache'[f] = cache[f] \/ cache'[f] = NotCached
    BY <1>2 DEF SweepEnds
  <2> QED
    BY <1>t, <2>1, <2>2, <2>3, <2>4, <2>5, NothingInHand, QuietStep
<1> QED
  BY <1>1, <1>2 DEF Sweep

\* The observer hands a change over, or lets it go past the guard.
LEMMA NoticeKeeps ==
    ASSUME FilesOK, CacheOK, ThreadsOK, GuardInv, NEW f \in Files, Notice(f)
    PROVE  GuardInv'
<1>a. f \in notices
  BY DEF Notice, OverlookNotice, HandleNotice
<1>g. guard # "closed"
  BY <1>a DEF GuardInv, ClosedIsEmpty
<1>1. CASE OverlookNotice(f)
  <2>1. /\ UNCHANGED <<content, version, key, mark, markedFiles, cache, thread, guard>>
        /\ notices' = notices \ {f}
        /\ disturbed' = IF Exists(f) THEN disturbed \cup {f} ELSE disturbed
    BY <1>1 DEF OverlookNotice, sweepVars
  <2>2. CacheDated' /\ CacheIsRight'
    BY <2>1, CacheKept DEF GuardInv
  <2>3. ThreadsInformed'
    BY <2>1 DEF GuardInv, ThreadsInformed, Informed
  <2>4. ClosedIsEmpty'
    BY <1>g, <2>1 DEF ClosedIsEmpty
  <2>5. ListedIsMarked'
    <3> SUFFICES ASSUME NEW g \in markedFiles' \ disturbed'
                 PROVE  \/ g \in mark' \/ ~Exists(g)' \/ Announced(g)'
                        \/ \E u \in Sweepers : At(u, "discarding")' /\ On(u, g)'
      BY DEF ListedIsMarked
    <3>1. g \in markedFiles \ disturbed
      BY <2>1
    <3>2. \/ g \in mark \/ ~Exists(g) \/ Announced(g)
          \/ \E u \in Sweepers : At(u, "discarding") /\ On(u, g)
      BY <3>1 DEF GuardInv, ListedIsMarked
    <3>3. g = f => ~Exists(g)
      BY <2>1
    <3> QED
      BY <2>1, <3>2, <3>3 DEF Announced, Exists, At, On
  <2> QED
    BY <2>2, <2>3, <2>4, <2>5 DEF GuardInv
<1>2. ASSUME NEW t \in Handlers, HandleNotice(t, f) PROVE GuardInv'
  <2>t. t \in Own
    BY DEF Own
  <2>1. /\ thread'[t] = [Idle EXCEPT !.pc = "hashing", !.file = {f}]
        /\ \A u \in Own : u # t => thread'[u] = thread[u]
    BY <1>2, <2>t, Moved DEF HandleNotice
  <2>2. thread'[t].pc = "hashing" /\ thread'[t].file = {f} /\ thread'[t].key = 0
    BY <2>1 DEF Idle
  <2>3. /\ UNCHANGED <<content, version, key, mark, disturbed, markedFiles, cache, guard>>
        /\ notices' = notices \ {f}
    BY <1>2 DEF HandleNotice, answerVars
  <2>4. CacheDated' /\ CacheIsRight'
    BY <2>3, CacheKept DEF GuardInv
  <2>5. ThreadsInformed'
    <3>1. \A g \in Files : Informed(thread[t], g)'
      BY <2>2, <2>3 DEF Informed, FilesOK
    <3> QED
      BY <2>t, <2>1, <2>3, <3>1, MarksKept, OthersInformed DEF GuardInv
  <2>6. ClosedIsEmpty'
    BY <1>g, <2>3 DEF ClosedIsEmpty
  <2>7. ListedIsMarked'
    <3> SUFFICES ASSUME NEW g \in markedFiles' \ disturbed'
                 PROVE  \/ g \in mark' \/ ~Exists(g)' \/ Announced(g)'
                        \/ \E u \in Sweepers : At(u, "discarding")' /\ On(u, g)'
      BY DEF ListedIsMarked
    <3>1. \/ g \in mark \/ ~Exists(g) \/ Announced(g)
          \/ \E u \in Sweepers : At(u, "discarding") /\ On(u, g)
      BY <2>3 DEF GuardInv, ListedIsMarked
    <3>2. thread[t].pc = "idle"
      BY <1>2 DEF HandleNotice, At
    <3>3. g = f => Announced(g)'
      BY <2>2 DEF Announced, At, On
    <3>4. \A u \in Own, pc \in {"hashing", "discarding"} :
              At(u, pc) /\ On(u, g) => At(u, pc)' /\ On(u, g)'
      BY <2>1, <3>2 DEF At, On
    <3> QED
      BY <2>3, <3>1, <3>3, <3>4 DEF Announced, Exists, Own
  <2> QED
    BY <2>4, <2>5, <2>6, <2>7 DEF GuardInv
<1> QED
  BY <1>1, <1>2 DEF Notice

\* A change of a file makes all that is known of it old, and is announced.
LEMMA EditKeeps ==
    ASSUME FilesOK, CacheOK, ThreadsOK, GuardInv, NEW f \in Files,
           NEW new \in Verdicts \cup {"gone"}, NEW inPlace \in BOOLEAN,
           NEW sameKey \in BOOLEAN,
           Edit(f, new, inPlace, sameKey), guard \in {"armed", "closed"}
    PROVE  GuardInv'
<1>1. /\ content' = [content EXCEPT ![f] = new]
      /\ version' = [version EXCEPT ![f] = @ + 1]
      /\ key' = IF sameKey THEN key ELSE [key EXCEPT ![f] = version[f] + 1]
      /\ mark \subseteq mark' \cup {f} /\ mark' \subseteq mark
      /\ UNCHANGED <<markedFiles, cache, thread, guard>>
  BY DEF Edit, sweepVars
<1>2. /\ notices' = IF Available /\ new # "gone" THEN notices \cup {f} ELSE notices
      /\ disturbed' = IF Quiet(f) /\ (sameKey => cache[f].key # key[f])
                      THEN disturbed ELSE disturbed \cup {f}
  BY DEF Edit
<1>3. /\ content'[f] = new /\ version'[f] = version[f] + 1
      /\ key'[f] = IF sameKey THEN key[f] ELSE version[f] + 1
      /\ \A g \in Files : g # f => /\ content'[g] = content[g] /\ version'[g] = version[g]
                                   /\ key'[g] = key[g]
  BY <1>1 DEF FilesOK
<1>4. \A g \in Files : version[g] \in Nat /\ key[g] \in Nat /\ cache[g].key \in Nat
  BY DEF FilesOK, CacheOK
<1>5. \A t \in Own : thread[t].key \in Nat
  BY DEF ThreadsOK, ThreadStates
<1>d. cache[f].key <= key[f] /\ key[f] <= version[f]
  BY DEF GuardInv, CacheDated
<1>6. CacheDated' /\ CacheIsRight'
  <2> SUFFICES ASSUME NEW g \in Files
               PROVE  /\ cache[g].key <= key'[g] /\ key'[g] <= version'[g]
                      /\ cache[g].key = key'[g] =>
                            \/ cache[g].verdict = content'[g]
                            \/ key'[g] # version'[g] /\ g \in disturbed'
    BY <1>1 DEF CacheDated, CacheIsRight
  <2>1. /\ cache[g].key <= key[g] /\ key[g] <= version[g]
        /\ cache[g].key = key[g] =>
              cache[g].verdict = content[g] \/ (key[g] # version[g] /\ g \in disturbed)
    BY DEF GuardInv, CacheDated, CacheIsRight
  <2>2. CASE g # f
    BY <1>2, <1>3, <2>1, <2>2
  <2>3. CASE g = f /\ ~sameKey
    BY <1>3, <1>4, <1>d, <2>3
  <2>4. CASE g = f /\ sameKey
    <3>1. cache[f].key = key[f] => f \in disturbed'
      BY <1>2, <2>4
    <3> QED
      BY <1>3, <1>4, <1>d, <2>4, <3>1
  <2> QED
    BY <2>2, <2>3, <2>4
<1>7. ThreadsInformed'
  <2> SUFFICES ASSUME NEW t \in Own, NEW g \in Files PROVE Informed(thread[t], g)'
    BY DEF ThreadsInformed
  <2>1. Informed(thread[t], g)
    BY DEF GuardInv, ThreadsInformed
  <2>2. CASE g # f
    <3>1. /\ content'[g] = content[g] /\ version'[g] = version[g] /\ key'[g] = key[g]
          /\ g \in mark => g \in mark'
          /\ g \in disturbed <=> g \in disturbed'
      BY <1>1, <1>2, <1>3, <2>2
    <3> QED
      BY <1>1, <2>1, <3>1 DEF Informed
  <2>3. CASE g = f /\ thread[t].file = {f}
    <3>1. f \in disturbed'
      BY <1>2, <2>3 DEF Quiet, On
    <3>2. thread[t].key <= key[f]
      BY <2>1, <2>3 DEF Informed
    <3>3. thread[t].key <= key'[f] /\ ~(thread[t].key = key'[f] /\ key'[f] = version'[f])
      BY <1>3, <1>4, <1>5, <1>d, <3>2
    <3> QED
      BY <1>1, <2>3, <3>1, <3>3 DEF Informed
  <2>4. CASE g = f /\ thread[t].file # {f}
    BY <1>1, <2>4 DEF Informed
  <2> QED
    BY <2>2, <2>3, <2>4
<1>8. ClosedIsEmpty'
  BY <1>1, <1>2 DEF GuardInv, ClosedIsEmpty, Available
<1>9. ListedIsMarked'
  <2> SUFFICES ASSUME NEW g \in markedFiles' \ disturbed'
               PROVE  \/ g \in mark' \/ ~Exists(g)' \/ Announced(g)'
                      \/ \E u \in Sweepers : At(u, "discarding")' /\ On(u, g)'
    BY DEF ListedIsMarked
  <2>1. g \in markedFiles /\ g \notin disturbed /\ g \in Files
    BY <1>1, <1>2 DEF CacheOK
  <2>2. CASE g = f
    <3>1. guard = "armed"
      BY <2>1 DEF GuardInv, ClosedIsEmpty
    <3>2. new = "gone" \/ f \in notices'
      BY <1>2, <3>1 DEF Available
    <3> QED
      BY <1>3, <2>2, <3>2 DEF Announced, Exists
  <2>3. CASE g # f
    <3>1. \/ g \in mark \/ ~Exists(g) \/ Announced(g)
          \/ \E u \in Sweepers : At(u, "discarding") /\ On(u, g)
      BY <2>1 DEF GuardInv, ListedIsMarked
    <3>2. content'[g] = content[g] /\ (g \in mark => g \in mark') /\ notices \subseteq notices'
      BY <1>1, <1>2, <1>3, <2>1, <2>3
    <3> QED
      BY <1>1, <3>1, <3>2 DEF Announced, Exists, At, On
  <2> QED
    BY <2>2, <2>3
<1> QED
  BY <1>6, <1>7, <1>8, <1>9 DEF GuardInv

\* The agent ends, and starts with nothing.
LEMMA EndKeeps ==
    ASSUME FilesOK, CacheDated, AgentEnds
    PROVE  GuardInv'
<1>1. \A f \in Files : cache'[f].key = 0 /\ key'[f] \in Nat \ {0} /\ key'[f] <= version'[f]
  BY DEF AgentEnds, NotCached, FilesOK, CacheDated
<1>2. CacheDated' /\ CacheIsRight'
  BY <1>1 DEF CacheDated, CacheIsRight
<1>3. \A t \in Own : thread'[t] = Idle
  BY DEF AgentEnds
<1>4. \A t \in Own : thread'[t].file = {}
  BY <1>3 DEF Idle
<1>5. ThreadsInformed'
  BY <1>4 DEF ThreadsInformed, Informed
<1>6. markedFiles' = {} /\ notices' = {} /\ mark' = {}
  BY DEF AgentEnds
<1>7. ClosedIsEmpty'
  BY <1>3, <1>6 DEF ClosedIsEmpty
<1>8. ListedIsMarked'
  BY <1>6 DEF ListedIsMarked
<1> QED
  BY <1>2, <1>5, <1>7, <1>8 DEF GuardInv

\* Where neither the files nor what the agent knows of them changes.
LEMMA ElsewhereKeeps ==
    ASSUME GuardInv, UNCHANGED <<fileVars, sweepVars>>,
           UNCHANGED guard \/ guard' = "armed"
    PROVE  GuardInv'
<1>1. UNCHANGED <<content, version, key, mark, notices, disturbed, markedFiles, cache, thread>>
  BY DEF fileVars, sweepVars
<1>2. CacheDated' /\ CacheIsRight'
  BY <1>1 DEF GuardInv, CacheDated, CacheIsRight
<1>3. ThreadsInformed'
  BY <1>1 DEF GuardInv, ThreadsInformed, Informed
<1>4. ClosedIsEmpty'
  BY <1>1 DEF GuardInv, ClosedIsEmpty
<1>5. ListedIsMarked'
  BY <1>1 DEF GuardInv, ListedIsMarked, Announced, Exists, At, On
<1> QED
  BY <1>2, <1>3, <1>4, <1>5 DEF GuardInv

LEMMA GuardInvariant == TypeOK /\ GuardInv /\ [Next]_vars => GuardInv'
<1> SUFFICES ASSUME TypeOK, GuardInv, [Next]_vars PROVE GuardInv'
  OBVIOUS
<1>0. FilesOK /\ CacheOK /\ ThreadsOK /\ AnswersOK /\ QueueOK
  BY TypeParts
<1>1. ASSUME NEW f \in Files, NEW new \in Verdicts \cup {"gone"}, NEW inPlace \in BOOLEAN,
             NEW sameKey \in BOOLEAN, Edit(f, new, inPlace, sameKey)
      PROVE  GuardInv'
  <2>1. guard \in {"armed", "closed"}
    BY <1>0 DEF AnswersOK
  <2> QED
    BY <1>0, <1>1, <2>1, EditKeeps
<1>2. ASSUME NEW r \in Readers, NEW f \in Files, ReaderOpens(r, f)
      PROVE  GuardInv'
  BY <1>2, ElsewhereKeeps DEF ReaderOpens
<1>3. ASSUME \/ Respond \/ SendReadDenied \/ FreeLock \/ TakeLock
             \/ \E f \in Files : ReportEnds(f)
      PROVE  GuardInv'
  <2>1. UNCHANGED <<fileVars, sweepVars>>
    BY <1>0, <1>3, AnswersTyped
  <2>2. UNCHANGED guard
    BY <1>3 DEF Respond, TakeOpen, Answer, SendReadDenied, FreeLock, TakeLock, ReportEnds
  <2> QED
    BY <2>1, <2>2, ElsewhereKeeps
<1>4. CASE AgentEnds
  BY <1>0, <1>4, EndKeeps DEF GuardInv
<1>5. CASE AgentStarts
  BY <1>5, ElsewhereKeeps DEF AgentStarts
<1>6. ASSUME NEW t \in Sweepers, Sweep(t) PROVE GuardInv'
  BY <1>0, <1>6, SweepKeeps
<1>7. ASSUME NEW f \in Files, Notice(f) PROVE GuardInv'
  BY <1>0, <1>7, NoticeKeeps
<1>8. ASSUME NEW t \in Own, NEW f \in Files, Judge(t, f) PROVE GuardInv'
  BY <1>0, <1>8, JudgeKeeps
<1>9. CASE UNCHANGED vars
  BY <1>9, ElsewhereKeeps DEF vars
<1> QED
  <2>1. CASE Environment
    BY <2>1, <1>1, <1>2, <1>3, <1>4 DEF Environment
  <2>2. CASE Next /\ ~Environment
    BY <2>2, <1>3, <1>5, <1>6, <1>7, <1>8 DEF Next
  <2> QED
    BY <2>1, <2>2, <1>9

\* A cached verdict is right whenever it would be used, however the file
\* changes while it is judged (_file_is_sensitive), unless its last change left
\* its size and the second of its modification as the agent knew them.
THEOREM CachedVerdictsAreRight == Spec => []CacheIsRight
<1>1. GuardInv => CacheIsRight
  BY DEF GuardInv
<1> QED
  BY <1>1, Initially, TypeInvariant, GuardInitially, GuardInvariant, PTL DEF Spec

\* A listed file is marked, unless its change is still to be handled or the
\* agent was disturbed: what makes it sound that a sweep passes over the files
\* in _marked_files (refresh_sensitive_marks).
THEOREM ListedFilesAreMarked == Spec => []ListedIsMarked
<1>1. GuardInv => ListedIsMarked
  BY DEF GuardInv
<1> QED
  BY <1>1, Initially, TypeInvariant, GuardInitially, GuardInvariant, PTL DEF Spec
=============================================================================
