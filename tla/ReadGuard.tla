----------------------------- MODULE ReadGuard -----------------------------
(***************************************************************************)
(* The read guard of the Linux agent (agent.py): sensitive files carry a   *)
(* fanotify mark, the kernel holds every open of a marked file until the   *)
(* responder thread has answered, and sweeps and handlers of file events   *)
(* keep the marks in step with what the files hold.                        *)
(*                                                                         *)
(* A mark belongs to an inode: a file that is replaced by a rename has     *)
(* lost it, one that is edited in place has not. The agent's own threads   *)
(* open marked files too, and wait for the responder like anybody else.    *)
(***************************************************************************)
EXTENDS Naturals, Sequences

CONSTANTS
    Files,          \* the files under the protected paths
    Sweepers,       \* threads that run refresh_sensitive_marks
    Handlers,       \* threads that run on_guarded_file_changed
    Readers,        \* processes other than the agent
    Reporter,       \* the threads that finish file_read_denied events
    MaxEdits,       \* bound on the changes to one file
    AlikeEdits      \* bound: those of them, counted from 1, that may keep a key

Own == Sweepers \cup Handlers
Openers == Own \cup Readers \cup {Reporter}
Opens == Openers \X Files

ASSUME GuardAssumption ==
    /\ Sweepers \cap Handlers = {}
    /\ Own \cap (Readers \cup {Reporter}) = {}
    /\ Reporter \notin Readers
    /\ MaxEdits \in Nat /\ AlikeEdits \subseteq Nat

VARIABLES
    content,    \* what a file holds
    version,    \* how often it changed
    key,        \* (st_size, int(st_mtime)): the change since which the file
                \* has had its size and its second of modification
    mark,       \* the files whose present inode is marked
    notices,    \* changes the observer has yet to hand to handle_file_event
    disturbed,  \* ghost: files that changed while the agent was busy with
                \* them or under a key it had cached, or of which a change
                \* went past the guard
    markedFiles,\* _marked_files
    cache,      \* _sensitive_cache
    thread,     \* where each sweep and each handler stands
    queue,      \* the opens the kernel holds and the responder has not read
    responder,  \* the responder thread, and the open it has in hand
    reports,    \* files that a thread hashes for a file_read_denied event
    lockHeld,   \* another thread has _net_lock
    guard       \* _fan_fd: "armed", or "closed" while no agent runs

fileVars   == <<content, version, key, mark, notices, disturbed>>
sweepVars  == <<markedFiles, cache, thread>>
answerVars == <<responder, reports, lockHeld>>
vars == <<fileVars, sweepVars, queue, answerVars, guard>>

Verdicts == {"sensitive", "harmless"}
NoVerdict == "none"
NotCached == [key |-> 0, verdict |-> NoVerdict]
NoOpen == <<>>

Idle == [pc |-> "idle", todo |-> {}, seen |-> {}, file |-> {}, key |-> 0,
         verdict |-> NoVerdict]
Free == [pc |-> "polling", open |-> NoOpen]

Init ==
    /\ content \in [Files -> Verdicts]
    /\ version = [f \in Files |-> 1] /\ key = [f \in Files |-> 1]
    /\ mark = {} /\ notices = {} /\ disturbed = {}
    /\ markedFiles = {}
    /\ cache = [f \in Files |-> NotCached]
    /\ thread = [t \in Own |-> Idle]
    /\ queue = <<>>
    /\ responder = Free
    /\ reports = {}
    /\ lockHeld = FALSE
    /\ guard = "armed"

Exists(f) == content[f] # "gone"

\* _fanotify_available.
Available == guard = "armed"

\* The kernel holds an open of a marked file until it is answered.
Opened(who, f) == IF f \in mark THEN Append(queue, <<who, f>>) ELSE queue

\* Thread or process who waits in open().
Waits(who, f) ==
    \/ \E i \in DOMAIN queue : queue[i] = <<who, f>>
    \/ responder.open = <<who, f>>

At(t, pc) == thread[t].pc = pc
On(t, f) == thread[t].file = {f}
Moves(t, record) == thread' = [thread EXCEPT ![t] = record]

-----------------------------------------------------------------------------
(* What happens to the files.                                               *)

\* Nothing that concerns f is under way in the agent.
Quiet(f) == f \notin notices /\ \A t \in Own : ~On(t, f)

\* A file is written anew under the same inode, replaced by another one,
\* created or deleted. It keeps its key when its size is the same and the
\* second of its modification too. The observer sees the change at some later
\* time.
Edit(f, new, inPlace, sameKey) ==
    /\ version[f] <= MaxEdits
    /\ inPlace => Exists(f) /\ new # "gone"
    /\ sameKey => Exists(f) /\ new # "gone" /\ version[f] \in AlikeEdits
    /\ content' = [content EXCEPT ![f] = new]
    /\ version' = [version EXCEPT ![f] = @ + 1]
    /\ key' = IF sameKey THEN key ELSE [key EXCEPT ![f] = version[f] + 1]
    /\ mark' = IF inPlace THEN mark ELSE mark \ {f}
    /\ notices' = IF Available /\ new # "gone" THEN notices \cup {f} ELSE notices
    /\ disturbed' = IF Quiet(f) /\ (sameKey => cache[f].key # key[f])
                    THEN disturbed ELSE disturbed \cup {f}
    /\ UNCHANGED <<sweepVars, queue, answerVars, guard>>

\* A process opens a marked file and is held.
ReaderOpens(r, f) ==
    /\ f \in mark
    /\ \A g \in Files : ~Waits(r, g)
    /\ queue' = Opened(r, f)
    /\ UNCHANGED <<fileVars, sweepVars, answerVars, guard>>

-----------------------------------------------------------------------------
(* Sweeps and handlers. A handler has one file, a sweep all that its walk   *)
(* found, one after the other.                                              *)

\* refresh_sensitive_marks: after arming, every minute, and when a process
\* that serves files is met.
SweepStarts(t) ==
    /\ At(t, "idle")
    /\ Available
    /\ Moves(t, [Idle EXCEPT !.pc = "walking", !.todo = {f \in Files : Exists(f)}])
    /\ UNCHANGED <<fileVars, markedFiles, cache, queue, answerVars, guard>>

\* The last lines of refresh_sensitive_marks forget what has disappeared.
Disappeared(t) == {f \in markedFiles \ thread[t].seen : ~Exists(f)}
SweepEnds(t) ==
    /\ At(t, "walking")
    /\ thread[t].todo = {}
    /\ markedFiles' = markedFiles \ Disappeared(t)
    /\ cache' = [f \in Files |-> IF f \in Disappeared(t) THEN NotCached ELSE cache[f]]
    /\ Moves(t, Idle)
    /\ UNCHANGED <<fileVars, queue, answerVars, guard>>

\* mutant: a file that is known to be sensitive is not looked at again.
HandleNoticeOfNew(t, f) ==
    /\ f \in notices
    /\ Exists(f)
    /\ At(t, "idle")
    /\ notices' = notices \ {f}
    /\ IF f \in markedFiles
       THEN UNCHANGED <<thread, queue>>
       ELSE /\ Moves(t, [Idle EXCEPT !.pc = "hashing", !.file = {f}])
            /\ queue' = Opened(t, f)
    /\ UNCHANGED <<content, version, key, mark, disturbed, markedFiles, cache, answerVars, guard>>

\* handle_file_event opens the file to hash it, then starts a thread for it.
\* (The open is counted to that thread; the observer waits for it just so.)
HandleNotice(t, f) ==
    /\ f \in notices
    /\ Exists(f)
    /\ At(t, "idle")
    /\ notices' = notices \ {f}
    /\ Moves(t, [Idle EXCEPT !.pc = "hashing", !.file = {f}])
    /\ queue' = Opened(t, f)
    /\ UNCHANGED <<content, version, key, mark, disturbed, markedFiles, cache, answerVars, guard>>

\* It returns before it does for an event like one of the last five seconds,
\* a file_modified within a second of a file_created, a file above the size
\* limit, a bundle without file policies; and for a file that is gone.
OverlookNotice(f) ==
    /\ f \in notices
    /\ notices' = notices \ {f}
    /\ disturbed' = IF Exists(f) THEN disturbed \cup {f} ELSE disturbed
    /\ UNCHANGED <<content, version, key, mark, sweepVars, queue, answerVars, guard>>

\* mutant: only the cached verdict is dropped.
ForgetVerdictOnly(t, f) ==
    /\ At(t, "hashing") /\ On(t, f) /\ ~Waits(t, f)
    /\ cache' = [cache EXCEPT ![f] = NotCached]
    /\ Moves(t, [thread[t] EXCEPT !.pc = "looking"])
    /\ UNCHANGED <<fileVars, markedFiles, queue, answerVars, guard>>

\* on_guarded_file_changed drops what is known of the file first.
Forget(t, f) ==
    /\ At(t, "hashing") /\ On(t, f) /\ ~Waits(t, f)
    /\ markedFiles' = markedFiles \ {f}
    /\ cache' = [cache EXCEPT ![f] = NotCached]
    /\ Moves(t, [thread[t] EXCEPT !.pc = "looking"])
    /\ UNCHANGED <<fileVars, queue, answerVars, guard>>

\* What a thread does next when it is through with a file.
Done(t, on) ==
    IF t \in Sweepers
    THEN [Idle EXCEPT !.pc = "walking", !.todo = on.todo, !.seen = on.seen]
    ELSE Idle

\* What a thread does with a verdict: it marks a sensitive file, a sweep only
\* one it does not believe marked; a sweep alone removes a mark.
Judged(t, on, f, verdict) ==
    LET seen == IF t \in Sweepers /\ verdict = "sensitive" THEN on.seen \cup {f} ELSE on.seen
        acting(pc) == [on EXCEPT !.pc = pc, !.seen = seen, !.key = 0, !.verdict = NoVerdict]
    IN  CASE verdict = "sensitive" /\ (t \in Sweepers => f \notin markedFiles) -> acting("marking")
          [] verdict = "harmless" /\ t \in Sweepers /\ f \in markedFiles -> acting("unmarking")
          [] OTHER -> Done(t, [on EXCEPT !.seen = seen])

\* _file_is_sensitive, for the file of a handler or the next one of a sweep,
\* with its size and time of now: no verdict if it is gone, the one that is
\* cached for them, or the file is opened.
Look(t, f) ==
    /\ \/ At(t, "looking") /\ On(t, f)
       \/ At(t, "walking") /\ f \in thread[t].todo
    /\ LET on == [thread[t] EXCEPT !.file = {f}, !.todo = @ \ {f}] IN
       \/ ~Exists(f) /\ Moves(t, Done(t, on)) /\ UNCHANGED queue
       \/ /\ Exists(f) /\ cache[f].key = key[f]
          /\ Moves(t, Judged(t, on, f, cache[f].verdict))
          /\ UNCHANGED queue
       \/ /\ Exists(f) /\ cache[f].key # key[f]
          /\ Moves(t, [on EXCEPT !.pc = "reading", !.key = key[f]])
          /\ queue' = Opened(t, f)
    /\ UNCHANGED <<fileVars, markedFiles, cache, answerVars, guard>>

\* The open was answered and the file is read; the server judges what it
\* held, or the classifier in the agent if the server does not.
Read(t, f) ==
    /\ At(t, "reading") /\ On(t, f) /\ ~Waits(t, f)
    /\ Exists(f)
    /\ Moves(t, [thread[t] EXCEPT !.pc = "evaluated", !.verdict = content[f]])
    /\ UNCHANGED <<fileVars, markedFiles, cache, queue, answerVars, guard>>

\* mutant: size and time are taken when the verdict is there.
EvaluatedStatsLate(t, f) ==
    /\ At(t, "evaluated") /\ On(t, f)
    /\ cache' = [cache EXCEPT ![f] = [key |-> key[f], verdict |-> thread[t].verdict]]
    /\ Moves(t, Judged(t, thread[t], f, thread[t].verdict))
    /\ UNCHANGED <<fileVars, markedFiles, queue, answerVars, guard>>

\* The verdict is cached under the size and time from before the read.
Evaluated(t, f) ==
    /\ At(t, "evaluated") /\ On(t, f)
    /\ cache' = [cache EXCEPT ![f] = [key |-> thread[t].key,
                                      verdict |-> thread[t].verdict]]
    /\ Moves(t, Judged(t, thread[t], f, thread[t].verdict))
    /\ UNCHANGED <<fileVars, markedFiles, queue, answerVars, guard>>

\* No server and nothing the agent's own classifier finds, or no file any
\* more: no verdict, and none is cached.
NoVerdictReached(t, f) ==
    /\ At(t, "reading") /\ On(t, f) /\ ~Waits(t, f)
    /\ Moves(t, Done(t, thread[t]))
    /\ UNCHANGED <<fileVars, markedFiles, cache, queue, answerVars, guard>>

\* _fanotify_mark takes a path: it marks what is there now, if anything is.
Mark(t, f) ==
    /\ At(t, "marking") /\ On(t, f)
    /\ IF Exists(f)
       THEN /\ mark' = mark \cup {f}
            /\ Moves(t, [thread[t] EXCEPT !.pc = "adding"])
       ELSE Moves(t, Done(t, thread[t])) /\ UNCHANGED mark
    /\ UNCHANGED <<content, version, key, notices, disturbed, markedFiles, cache, queue,
                   answerVars, guard>>

RecordMarked(t, f) ==
    /\ At(t, "adding") /\ On(t, f)
    /\ markedFiles' = markedFiles \cup {f}
    /\ Moves(t, Done(t, thread[t]))
    /\ UNCHANGED <<fileVars, cache, queue, answerVars, guard>>

\* Its result is not looked at.
Unmark(t, f) ==
    /\ At(t, "unmarking") /\ On(t, f)
    /\ mark' = mark \ {f}
    /\ Moves(t, [thread[t] EXCEPT !.pc = "discarding"])
    /\ UNCHANGED <<content, version, key, notices, disturbed, markedFiles, cache, queue,
                   answerVars, guard>>

RecordUnmarked(t, f) ==
    /\ At(t, "discarding") /\ On(t, f)
    /\ markedFiles' = markedFiles \ {f}
    /\ Moves(t, Done(t, thread[t]))
    /\ UNCHANGED <<fileVars, cache, queue, answerVars, guard>>

-----------------------------------------------------------------------------
(* The responder thread, _read_guard_loop.                                  *)

\* The agent's own reads and local readers pass; an open through a channel
\* that a policy blocks is refused.
TakeOpen ==
    /\ responder.pc = "polling"
    /\ queue # <<>>
    /\ \E next \in {"answering", "refusing"} :
        /\ Head(queue)[1] \notin Readers => next = "answering"
        /\ responder' = [pc |-> next, open |-> Head(queue)]
    /\ queue' = Tail(queue)
    /\ UNCHANGED <<fileVars, sweepVars, reports, lockHeld, guard>>

\* _send_read_denied_event needs _net_lock, returns for an open like one of
\* the last ten seconds, and leaves the rest to a thread of its own, which
\* hashes the file and so opens it. (One of them stands for all of a file.)
SendReadDenied ==
    /\ responder.pc = "refusing"
    /\ ~lockHeld
    /\ LET f == responder.open[2] IN
       \/ UNCHANGED <<queue, reports>>
       \/ f \notin reports /\ reports' = reports \cup {f} /\ queue' = Opened(Reporter, f)
    /\ responder' = [responder EXCEPT !.pc = "answering"]
    /\ UNCHANGED <<fileVars, sweepVars, lockHeld, guard>>

\* mutant: the responder does not let go of the open it has answered.
AnswerKeepsOpen ==
    /\ responder.pc = "answering"
    /\ responder' = [responder EXCEPT !.pc = "polling"]
    /\ UNCHANGED <<fileVars, sweepVars, queue, reports, lockHeld, guard>>

\* mutant: it answers when the file has been hashed for the event.
AnswerWhenHashed ==
    /\ responder.pc = "answering"
    /\ responder.open[2] \notin reports
    /\ responder' = Free
    /\ UNCHANGED <<fileVars, sweepVars, queue, reports, lockHeld, guard>>

\* Whatever the decision, or an exception on the way to it: an answer.
Answer ==
    /\ responder.pc = "answering"
    /\ responder' = Free
    /\ UNCHANGED <<fileVars, sweepVars, queue, reports, lockHeld, guard>>

ReportEnds(f) ==
    /\ f \in reports /\ ~Waits(Reporter, f)
    /\ reports' = reports \ {f}
    /\ UNCHANGED <<fileVars, sweepVars, queue, responder, lockHeld, guard>>

\* The network guards hold _net_lock for a few statements that open no file.
\* (Whoever takes it at another time makes no difference.)
TakeLock ==
    /\ responder.pc = "refusing"
    /\ ~lockHeld
    /\ lockHeld' = TRUE
    /\ UNCHANGED <<fileVars, sweepVars, queue, responder, reports, guard>>

FreeLock ==
    /\ lockHeld
    /\ lockHeld' = FALSE
    /\ UNCHANGED <<fileVars, sweepVars, queue, responder, reports, guard>>

\* stop() closes the descriptor and the process exits, or it is killed and the
\* kernel closes it: every open that is held is let go, the marks are gone, and
\* so is all the agent knew. Changes made in the meantime are not reported.
AgentEnds ==
    /\ guard = "armed"
    /\ guard' = "closed"
    /\ mark' = {} /\ notices' = {} /\ disturbed' = {}
    /\ markedFiles' = {}
    /\ cache' = [f \in Files |-> NotCached]
    /\ thread' = [t \in Own |-> Idle]
    /\ queue' = <<>>
    /\ responder' = Free
    /\ reports' = {}
    /\ lockHeld' = FALSE
    /\ UNCHANGED <<content, version, key>>

\* start arms the guard before it seeds the marks.
AgentStarts ==
    /\ guard = "closed"
    /\ guard' = "armed"
    /\ UNCHANGED <<fileVars, sweepVars, queue, answerVars>>

-----------------------------------------------------------------------------
Judge(t, f) ==
    \/ Forget(t, f) \/ Look(t, f) \/ Read(t, f) \/ Evaluated(t, f)
    \/ NoVerdictReached(t, f) \/ Mark(t, f) \/ RecordMarked(t, f)
    \/ Unmark(t, f) \/ RecordUnmarked(t, f)

Sweep(t) == SweepStarts(t) \/ SweepEnds(t)
Notice(f) == OverlookNotice(f) \/ \E t \in Handlers : HandleNotice(t, f)
Respond == TakeOpen \/ Answer

Environment ==
    \/ \E f \in Files, new \in Verdicts \cup {"gone"}, inPlace, sameKey \in BOOLEAN :
            Edit(f, new, inPlace, sameKey)
    \/ \E r \in Readers, f \in Files : ReaderOpens(r, f)
    \/ TakeLock
    \/ AgentEnds

Next ==
    \/ Environment
    \/ \E t \in Sweepers : Sweep(t)
    \/ \E f \in Files : Notice(f) \/ ReportEnds(f)
    \/ \E t \in Own, f \in Files : Judge(t, f)
    \/ Respond \/ SendReadDenied
    \/ FreeLock \/ AgentStarts

Spec == Init /\ [][Next]_vars

\* Threads run, sweeps are repeated (_mark_refresh_loop), a call to the server
\* ends and one of infinitely many is answered, and a lock that others take and
\* free again and again is had in the end.
Fairness ==
    /\ \A t \in Sweepers : WF_vars(Sweep(t))
    /\ \A f \in Files : WF_vars(Notice(f)) /\ WF_vars(ReportEnds(f))
    /\ \A t \in Own : /\ WF_vars(\E f \in Files : Judge(t, f))
                      /\ SF_vars(\E f \in Files : Read(t, f))
    /\ WF_vars(Respond) /\ SF_vars(SendReadDenied)
    /\ WF_vars(FreeLock)

FairSpec == Spec /\ Fairness

-----------------------------------------------------------------------------
(* Properties.                                                              *)

ThreadStates ==
    [pc : {"idle", "walking", "hashing", "looking", "reading", "evaluated",
           "marking", "adding", "unmarking", "discarding"},
     todo : SUBSET Files, seen : SUBSET Files, file : {{}} \cup {{f} : f \in Files},
     key : Nat, verdict : Verdicts \cup {NoVerdict}]

\* Types. A thread has a file in hand exactly while it works on one, only
\* handlers hash, and only sweeps walk and unmark.
TypeOK ==
    /\ content \in [Files -> Verdicts \cup {"gone"}]
    /\ version \in [Files -> Nat \ {0}]
    /\ key \in [Files -> Nat \ {0}]
    /\ mark \subseteq Files /\ notices \subseteq Files /\ disturbed \subseteq Files
    /\ markedFiles \subseteq Files
    /\ cache \in [Files -> [key : Nat, verdict : Verdicts \cup {NoVerdict}]]
    /\ thread \in [Own -> ThreadStates]
    /\ queue \in Seq(Opens)
    /\ responder \in [pc : {"polling", "refusing", "answering"},
                      open : Opens \cup {NoOpen}]
    /\ reports \subseteq Files
    /\ lockHeld \in BOOLEAN
    /\ guard \in {"armed", "closed"}
    /\ responder.pc = "polling" <=> responder.open = NoOpen
    /\ \A t \in Own :
        /\ thread[t].pc \in {"idle", "walking"} <=> thread[t].file = {}
        /\ thread[t].pc \in {"hashing", "looking"} => t \in Handlers
        /\ thread[t].pc \in {"walking", "unmarking", "discarding"} => t \in Sweepers

\* A cached verdict is about what the file holds now, or its key tells that it
\* is not, however the file changes in the course of an evaluation (the stat
\* before the read, in _file_is_sensitive). One file is beyond that: one whose
\* last change left its size and its second as they were, with the agent busy
\* with it or its verdict cached before.
CacheIsRight ==
    \A f \in Files :
        cache[f].key = key[f] =>
            \/ cache[f].verdict = content[f]
            \/ key[f] # version[f] /\ f \in disturbed

\* The change of f has yet to reach the guard.
Announced(f) ==
    \/ f \in notices
    \/ \E t \in Handlers : At(t, "hashing") /\ On(t, f)

\* A file that _marked_files lists carries a mark, or its change is still to
\* be handled, or a sweep is about to strike it off: otherwise every later
\* sweep would pass over a file that nobody guards. Files that changed while
\* the agent was busy with them, under a key it had cached, or past it, are
\* another matter.
ListedIsMarked ==
    \A f \in markedFiles \ disturbed :
        \/ f \in mark \/ ~Exists(f) \/ Announced(f)
        \/ \E t \in Sweepers : At(t, "discarding") /\ On(t, f)

\* Whoever waits in open() is answered or released, the agent's own threads
\* included: the responder opens nothing, waits for no one who does, and
\* stop_read_guard lets go of the rest.
EventuallyAnswered == \A o \in Opens : Waits(o[1], o[2]) ~> ~Waits(o[1], o[2])

\* A sensitive file that is left alone is guarded in the end, whatever sweeps,
\* handlers and failed evaluations do at once, if its changes met an agent that
\* was not busy with the file, were noticed, and left no cached verdict under
\* the file's key.
EventuallyGuarded ==
    \A f \in Files :
        <>[](Available /\ content[f] = "sensitive" /\ f \notin disturbed)
            => <>[](f \in mark)

=============================================================================
