---------------------------- MODULE NetworkGuard ----------------------------
(***************************************************************************)
(* The Linux agent's network guard. A thread per exec event freezes the    *)
(* new process, asks the server about each file it would send and resumes  *)
(* or kills it; the egress guard does the same with a process that has a   *)
(* protected file and a connection open. The threads share the set of the  *)
(* processes they froze, for stop() to release, and the set of the pairs   *)
(* of process and file that were taken up, so that each is judged once.    *)
(*                                                                         *)
(* Several threads may have one process in hand. A process stands for one  *)
(* process id: an id that is used anew is another process.                 *)
(***************************************************************************)
EXTENDS Naturals, FiniteSets

CONSTANTS
    Processes,
    Files,
    Inspectors,     \* threads of _safe_inspect, one per exec event
    Guard,          \* the thread of egress_guard_loop
    NoFile,
    Suspending,     \* network.suspend_during_evaluation
    MaxHandled,     \* 4096
    MaxRuns         \* bound on how often the agent is started

ASSUME GuardAssumption ==
    /\ Guard \notin Inspectors
    /\ NoFile \notin Files
    /\ Suspending \in BOOLEAN
    /\ MaxHandled \in Nat
    /\ MaxRuns \in Nat

VARIABLES
    process,        \* the kernel's view of each process
    signalled,      \* fixed: those _may_signal admits and the agent may signal
    agent,          \* "up", "stopping" once stop() was called, or "gone"
    runs,
    releasing,      \* what stop() has yet to resume
    thread,
    suspendedPids,  \* _suspended_pids
    handled,        \* _net_handled
    decided,        \* ghost: how often a pair was judged in this run, at most 2
    forgotten,      \* ghost: handled was cleared in this run
    orphaned        \* ghost: processes that were frozen when the agent ended

agentVars == <<agent, runs, releasing>>
sharedVars == <<suspendedPids, handled>>
ghostVars == <<decided, forgotten, orphaned>>
vars == <<process, signalled, agentVars, thread, sharedVars, ghostVars>>

Threads == Inspectors \cup {Guard}
Pairs == Processes \X Files
Idle == [pc |-> "idle"]

Init ==
    /\ process = [p \in Processes |-> "running"]
    /\ signalled \in SUBSET Processes
    /\ agent = "up"
    /\ runs = 1
    /\ releasing = {}
    /\ thread = [t \in Threads |-> Idle]
    /\ suspendedPids = {}
    /\ handled = {}
    /\ decided = [k \in Pairs |-> 0]
    /\ forgotten = FALSE
    /\ orphaned = {}

At(t, pc) == thread[t].pc = pc
Goes(t, pc) == thread' = [thread EXCEPT ![t].pc = pc]

-----------------------------------------------------------------------------
(* The two ways a process comes under inspection.                           *)

Inspection(p, files) ==
    [pc |-> "suspending", pid |-> p, suspended |-> FALSE, todo |-> files, file |-> NoFile]

\* _inspect_candidate_process. Its files are found while it is suspended,
\* none if no policy covers the transfer; they are fixed here.
InspectorStarts(t, p, files) ==
    /\ At(t, "idle")
    /\ agent = "up"
    /\ process[p] # "dead"
    /\ thread' = [thread EXCEPT ![t] = Inspection(p, files)]
    /\ UNCHANGED <<process, signalled, agentVars, sharedVars, ghostVars>>

\* _handle_egress_candidate takes up all files at once, before it looks for a
\* policy and before it suspends. A scan under way outlasts stop().
GuardStarts(p, held, covered) ==
    LET fresh == {f \in held : <<p, f>> \notin handled}
        claimed == handled \cup {<<p, f>> : f \in held}
    IN
    /\ At(Guard, "idle")
    /\ agent # "gone"
    /\ process[p] # "dead"
    /\ handled' = IF Cardinality(claimed) > MaxHandled THEN {} ELSE claimed
    /\ forgotten' = (forgotten \/ Cardinality(claimed) > MaxHandled)
    /\ thread' = IF fresh = {} \/ ~covered THEN thread
                 ELSE [thread EXCEPT ![Guard] = Inspection(p, fresh)]
    /\ UNCHANGED <<process, signalled, agentVars, suspendedPids, decided, orphaned>>

-----------------------------------------------------------------------------
(* What both do with it.                                                    *)

Stop(p) == process' = [process EXCEPT ![p] = IF @ = "running" THEN "stopped" ELSE @]
Continue(p) == process' = [process EXCEPT ![p] = IF @ = "stopped" THEN "running" ELSE @]

\* _suspend: the signal, and then the entry under _net_lock.
Suspend(t) ==
    LET p == thread[t].pid IN
    /\ At(t, "suspending")
    /\ \/ /\ Suspending /\ p \in signalled /\ process[p] # "dead"
          /\ Stop(p)
          /\ Goes(t, "stopped")
       \/ /\ ~(Suspending /\ p \in signalled /\ process[p] # "dead")
          /\ Goes(t, "choosing")
          /\ UNCHANGED process
    /\ UNCHANGED <<signalled, agentVars, sharedVars, ghostVars>>

RecordSuspendedOnly(t) ==   \* mutant
    /\ At(t, "stopped")
    /\ suspendedPids' = suspendedPids \cup {thread[t].pid}
    /\ Goes(t, "choosing")
    /\ UNCHANGED <<process, signalled, agentVars, handled, ghostVars>>

RecordSuspended(t) ==
    /\ At(t, "stopped")
    /\ suspendedPids' = suspendedPids \cup {thread[t].pid}
    /\ thread' = [thread EXCEPT ![t].pc = "choosing", ![t].suspended = TRUE]
    /\ UNCHANGED <<process, signalled, agentVars, handled, ghostVars>>

\* The file whose turn it is; one that another thread took up is passed over.
PassesOver(t, f) == thread' = [thread EXCEPT ![t].todo = @ \ {f}]
Takes(t, f) ==
    thread' = [thread EXCEPT ![t].pc = "deciding", ![t].todo = @ \ {f}, ![t].file = f]

ClaimUnseen(t, f) ==   \* mutant
    LET claimed == handled \cup {<<thread[t].pid, f>>} IN
    /\ Takes(t, f)
    /\ handled' = IF Cardinality(claimed) > MaxHandled
                  THEN {<<thread[t].pid, f>>} ELSE claimed
    /\ forgotten' = (forgotten \/ Cardinality(claimed) > MaxHandled)

\* An inspector takes up one file at a time; a full set is cleared but for
\* the new pair.
Claim(t, f) ==
    LET key == <<thread[t].pid, f>>
        claimed == handled \cup {key}
    IN
    \/ /\ key \in handled
       /\ PassesOver(t, f)
       /\ UNCHANGED <<handled, forgotten>>
    \/ /\ key \notin handled
       /\ Takes(t, f)
       /\ handled' = IF Cardinality(claimed) > MaxHandled THEN {key} ELSE claimed
       /\ forgotten' = (forgotten \/ Cardinality(claimed) > MaxHandled)

NextFile(t, f) ==
    /\ At(t, "choosing")
    /\ f \in thread[t].todo
    /\ IF t = Guard THEN Takes(t, f) /\ UNCHANGED <<handled, forgotten>>
       ELSE Claim(t, f)
    /\ UNCHANGED <<process, signalled, agentVars, suspendedPids, decided, orphaned>>

Key(t) == <<thread[t].pid, thread[t].file>>

Judged(k) == decided' = [decided EXCEPT ![k] = IF @ = 0 THEN 1 ELSE 2]

\* _decide_and_enforce_network: the server is asked, for up to 15 seconds, and
\* the policy's action decides with it; no answer is no reason to block.
DecideAllow(t) ==
    /\ At(t, "deciding")
    /\ Judged(Key(t))
    /\ Goes(t, "choosing")
    /\ UNCHANGED <<process, signalled, agentVars, sharedVars, forgotten, orphaned>>

\* _terminate. A process that cannot be killed is alerted on; one that is no
\* longer there counts as killed, and its entry stays.
DecideBlock(t) ==
    LET p == thread[t].pid IN
    /\ At(t, "deciding")
    /\ Judged(Key(t))
    /\ \/ /\ p \notin signalled
          /\ Goes(t, "choosing")
          /\ UNCHANGED process
       \/ /\ p \in signalled /\ process[p] # "dead"
          /\ process' = [process EXCEPT ![p] = "dead"]
          /\ Goes(t, "killed")
       \/ /\ p \in signalled /\ process[p] = "dead"
          /\ thread' = [thread EXCEPT ![t] = Idle]
          /\ UNCHANGED process
    /\ UNCHANGED <<signalled, agentVars, sharedVars, forgotten, orphaned>>

Forget(t) == suspendedPids' = suspendedPids \ {thread[t].pid}

RecordKilled(t) ==
    /\ At(t, "killed")
    /\ Forget(t)
    /\ thread' = [thread EXCEPT ![t] = Idle]
    /\ UNCHANGED <<process, signalled, agentVars, handled, ghostVars>>

InspectionFailsFrozen(t) ==   \* mutant
    /\ At(t, "deciding")
    /\ thread' = [thread EXCEPT ![t] = Idle]
    /\ UNCHANGED <<process, signalled, agentVars, sharedVars, ghostVars>>

\* An exception passes through the finally clause and ends the inspection.
InspectionFails(t) ==
    /\ At(t, "deciding")
    /\ thread' = [thread EXCEPT ![t].pc = "choosing", ![t].todo = {}]
    /\ UNCHANGED <<process, signalled, agentVars, sharedVars, ghostVars>>

ResumeAlways(t) ==   \* mutant
    /\ At(t, "choosing")
    /\ thread[t].todo = {}
    /\ Continue(thread[t].pid)
    /\ Goes(t, "resumed")
    /\ UNCHANGED <<signalled, agentVars, sharedVars, ghostVars>>

\* finally: _resume, the signal and then the entry.
Resume(t) ==
    /\ At(t, "choosing")
    /\ thread[t].todo = {}
    /\ IF thread[t].suspended
       THEN Continue(thread[t].pid) /\ Goes(t, "resumed")
       ELSE thread' = [thread EXCEPT ![t] = Idle] /\ UNCHANGED process
    /\ UNCHANGED <<signalled, agentVars, sharedVars, ghostVars>>

RecordResumed(t) ==
    /\ At(t, "resumed")
    /\ Forget(t)
    /\ thread' = [thread EXCEPT ![t] = Idle]
    /\ UNCHANGED <<process, signalled, agentVars, handled, ghostVars>>

-----------------------------------------------------------------------------
(* The agent's life, and the processes'.                                    *)

\* stop(), from the signal handler: the flag, then a copy of the set.
AgentStops ==
    /\ agent = "up"
    /\ agent' = "stopping"
    /\ releasing' = suspendedPids
    /\ UNCHANGED <<process, signalled, runs, thread, sharedVars, ghostVars>>

\* _resume_all_suspended. The entries are not read again.
Release(p) ==
    /\ p \in releasing
    /\ releasing' = releasing \ {p}
    /\ Continue(p)
    /\ suspendedPids' = suspendedPids \ {p}
    /\ UNCHANGED <<signalled, agent, runs, thread, handled, ghostVars>>

Ends ==
    /\ agent' = "gone"
    /\ releasing' = {}
    /\ thread' = [t \in Threads |-> Idle]
    /\ suspendedPids' = {}
    /\ handled' = {}
    /\ decided' = [k \in Pairs |-> 0]
    /\ forgotten' = FALSE
    /\ UNCHANGED <<process, signalled, runs>>

\* sys.exit() after stop(); the threads are daemons and end with it.
AgentExits ==
    /\ agent = "stopping"
    /\ releasing = {}
    /\ Ends
    /\ orphaned' = orphaned \cup {p \in Processes : process[p] = "stopped"}

AgentIsKilled ==
    /\ agent # "gone"
    /\ Ends
    /\ orphaned' = orphaned \cup {p \in Processes : process[p] = "stopped"}

\* systemd starts it again; what is frozen stays so.
AgentStarts ==
    /\ agent = "gone"
    /\ runs < MaxRuns
    /\ runs' = runs + 1
    /\ agent' = "up"
    /\ UNCHANGED <<process, signalled, releasing, thread, sharedVars, ghostVars>>

\* It ends, or somebody else kills it.
ProcessEnds(p) ==
    /\ process[p] # "dead"
    /\ process' = [process EXCEPT ![p] = "dead"]
    /\ UNCHANGED <<signalled, agentVars, thread, sharedVars, ghostVars>>

Step(t) ==
    \/ Suspend(t)
    \/ RecordSuspended(t)
    \/ \E f \in Files : NextFile(t, f)
    \/ DecideAllow(t)
    \/ DecideBlock(t)
    \/ RecordKilled(t)
    \/ InspectionFails(t)
    \/ Resume(t)
    \/ RecordResumed(t)

Next ==
    \/ \E p \in Processes, files \in SUBSET Files :
          \/ \E t \in Inspectors : InspectorStarts(t, p, files)
          \/ \E covered \in BOOLEAN : files # {} /\ GuardStarts(p, files, covered)
    \/ \E t \in Threads : Step(t)
    \/ \E p \in Processes : Release(p) \/ ProcessEnds(p)
    \/ AgentStops \/ AgentExits \/ AgentIsKilled \/ AgentStarts

Spec == Init /\ [][Next]_vars

\* The threads run, and a call to the server ends within its timeout.
Fairness == \A t \in Threads : WF_vars(Step(t))

FairSpec == Spec /\ Fairness

-----------------------------------------------------------------------------
(* Properties.                                                              *)

Inspections(pc, suspended) ==
    [pc : pc, pid : Processes, suspended : suspended, todo : SUBSET Files,
     file : Files \cup {NoFile}]

ThreadStates ==
    {Idle} \cup Inspections({"suspending", "stopped"}, {FALSE})
           \cup Inspections({"choosing", "deciding", "killed"}, BOOLEAN)
           \cup Inspections({"resumed"}, {TRUE})

\* Types. A thread that has not recorded its suspension does not believe in
\* it, and one that ends it does.
TypeOK ==
    /\ process \in [Processes -> {"running", "stopped", "dead"}]
    /\ signalled \subseteq Processes
    /\ agent \in {"up", "stopping", "gone"}
    /\ runs \in Nat
    /\ releasing \subseteq Processes
    /\ thread \in [Threads -> ThreadStates]
    /\ suspendedPids \subseteq Processes
    /\ handled \subseteq Pairs
    /\ decided \in [Pairs -> 0 .. 2]
    /\ forgotten \in BOOLEAN
    /\ orphaned \subseteq Processes

\* Thread t will still resume p, whatever happens to its inspection.
WillResume(t, p) ==
    /\ thread[t].pc \in {"stopped", "choosing", "deciding"}
    /\ thread[t].pid = p
    /\ At(t, "stopped") \/ thread[t].suspended

\* A process is frozen only while a thread has it in hand that will resume
\* or kill it, however many threads freeze and resume it at once and whether
\* their inspections succeed (_suspend, the finally clauses, _terminate). Only
\* an agent that ended in between leaves one behind.
FrozenOnlyInHand ==
    \A p \in Processes \ orphaned :
        process[p] = "stopped" => \E t \in Threads : WillResume(t, p)

\* No pair is judged twice, by one thread or by two, until the set was full
\* and forgot (_net_handled, "(pid, path) already decided").
JudgedOnce == ~forgotten => \A k \in Pairs : decided[k] <= 1

\* A frozen process is released or killed in the end: no thread waits for
\* another, and a server that does not answer is waited for only so long.
EventuallyReleased ==
    \A p \in Processes :
        (process[p] = "stopped" /\ p \notin orphaned)
            ~> (process[p] # "stopped" \/ p \in orphaned)

=============================================================================
