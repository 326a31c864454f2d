------------------------- MODULE NetworkGuardProofs -------------------------
(* No process is frozen and forgotten, and no pair is judged twice, for any *)
(* number of threads, processes and files.                                  *)
EXTENDS NetworkGuard, TLAPS

-----------------------------------------------------------------------------
(* Types.                                                                   *)

\* A thread that is not idle is at work on a process, and what it believes of
\* its suspension follows from where it stands.
LEMMA Working ==
    ASSUME NEW s \in ThreadStates, s.pc # "idle"
    PROVE  /\ s \in Inspections({s.pc}, {s.suspended})
           /\ s.pc \in {"suspending", "stopped"} => s.suspended = FALSE
           /\ s.pc = "resumed" => s.suspended = TRUE
           /\ s.pid \in Processes
           /\ s.suspended \in BOOLEAN
           /\ s.todo \in SUBSET Files
<1>1. s # Idle
  BY DEF Idle
<1>2. CASE s \in Inspections({"suspending", "stopped"}, {FALSE})
  BY <1>2 DEF Inspections
<1>3. CASE s \in Inspections({"choosing", "deciding", "killed"}, BOOLEAN)
  BY <1>3 DEF Inspections
<1>4. CASE s \in Inspections({"resumed"}, {TRUE})
  BY <1>4 DEF Inspections
<1> QED
  BY <1>1, <1>2, <1>3, <1>4 DEF ThreadStates

\* A thread that moves on keeps to the states TypeOK lists.
LEMMA MovingOn ==
    ASSUME NEW s \in ThreadStates, s.pc # "idle"
    PROVE  /\ s.pc = "suspending" => [s EXCEPT !.pc = "stopped"] \in ThreadStates
           /\ s.pc \in {"suspending", "deciding"} =>
                 [s EXCEPT !.pc = "choosing"] \in ThreadStates
           /\ s.pc = "stopped" =>
                 [s EXCEPT !.pc = "choosing", !.suspended = TRUE] \in ThreadStates
           /\ s.pc = "choosing" /\ s.suspended =>
                 [s EXCEPT !.pc = "resumed"] \in ThreadStates
           /\ s.pc = "deciding" => [s EXCEPT !.pc = "killed"] \in ThreadStates
           /\ s.pc = "deciding" =>
                 [s EXCEPT !.pc = "choosing", !.todo = {}] \in ThreadStates
<1>1. s \in Inspections({s.pc}, {s.suspended})
  BY Working
<1>2. /\ s.pc \in {"suspending", "stopped"} => s.suspended = FALSE
      /\ s.suspended \in BOOLEAN
  BY Working
<1>3. s.pc = "suspending" =>
         [s EXCEPT !.pc = "stopped"] \in Inspections({"suspending", "stopped"}, {FALSE})
  BY <1>1, <1>2 DEF Inspections
<1>4. s.pc \in {"suspending", "deciding"} =>
         [s EXCEPT !.pc = "choosing"]
             \in Inspections({"choosing", "deciding", "killed"}, BOOLEAN)
  BY <1>1, <1>2 DEF Inspections
<1>5. s.pc = "stopped" =>
         [s EXCEPT !.pc = "choosing", !.suspended = TRUE]
             \in Inspections({"choosing", "deciding", "killed"}, BOOLEAN)
  BY <1>1, <1>2 DEF Inspections
<1>6. s.pc = "choosing" /\ s.suspended =>
         [s EXCEPT !.pc = "resumed"] \in Inspections({"resumed"}, {TRUE})
  BY <1>1, <1>2 DEF Inspections
<1>7. s.pc = "deciding" =>
         /\ [s EXCEPT !.pc = "killed"]
                \in Inspections({"choosing", "deciding", "killed"}, BOOLEAN)
         /\ [s EXCEPT !.pc = "choosing", !.todo = {}]
                \in Inspections({"choosing", "deciding", "killed"}, BOOLEAN)
  BY <1>1, <1>2 DEF Inspections
<1> QED
  BY <1>3, <1>4, <1>5, <1>6, <1>7 DEF ThreadStates

\* The same of one that passes a file over or takes it.
LEMMA TakingUp ==
    ASSUME NEW s \in ThreadStates, s.pc = "choosing", NEW todo \in SUBSET Files,
           NEW f \in Files
    PROVE  /\ [s EXCEPT !.todo = todo] \in ThreadStates
           /\ [s EXCEPT !.pc = "deciding", !.todo = todo, !.file = f] \in ThreadStates
<1>1. s \in Inspections({s.pc}, {s.suspended}) /\ s.suspended \in BOOLEAN
  BY Working
<1>2. /\ [s EXCEPT !.todo = todo]
             \in Inspections({"choosing", "deciding", "killed"}, BOOLEAN)
      /\ [s EXCEPT !.pc = "deciding", !.todo = todo, !.file = f]
             \in Inspections({"choosing", "deciding", "killed"}, BOOLEAN)
  BY <1>1 DEF Inspections
<1> QED
  BY <1>2 DEF ThreadStates

\* A thread that takes a step is not idle.
LEMMA SteppingThread ==
    ASSUME TypeOK, NEW t \in Threads, Step(t)
    PROVE  thread[t].pc # "idle" /\ thread[t] \in ThreadStates
<1>1. thread[t].pc # "idle"
  BY DEF Step, Suspend, RecordSuspended, NextFile, DecideAllow, DecideBlock,
         RecordKilled, InspectionFails, Resume, RecordResumed, At
<1> QED
  BY <1>1 DEF TypeOK

\* Changing one entry of a function keeps its type.
LEMMA Updated ==
    ASSUME NEW D, NEW R, NEW fun \in [D -> R], NEW d \in D, NEW r \in R
    PROVE  [fun EXCEPT ![d] = r] \in [D -> R]
OBVIOUS

\* What a step makes of the thread that takes it.
LEMMA ThreadTyped ==
    ASSUME TypeOK, NEW t \in Threads, Step(t)
    PROVE  /\ thread' \in [Threads -> ThreadStates]
           /\ \A u \in Threads \ {t} : thread'[u] = thread[u]
<1> DEFINE s == thread[t]
<1>1. s.pc # "idle" /\ s \in ThreadStates /\ thread \in [Threads -> ThreadStates]
  BY SteppingThread DEF TypeOK
<1>2. s.todo \in SUBSET Files
  BY <1>1, Working
<1>3. Idle \in ThreadStates
  BY DEF ThreadStates
<1> SUFFICES \E r \in ThreadStates : thread' = [thread EXCEPT ![t] = r]
  BY <1>1
<1>4. CASE Suspend(t)
  <2>1. s.pc = "suspending"
    BY <1>4 DEF Suspend, At
  <2>2. \/ thread' = [thread EXCEPT ![t] = [s EXCEPT !.pc = "stopped"]]
        \/ thread' = [thread EXCEPT ![t] = [s EXCEPT !.pc = "choosing"]]
    BY <1>4 DEF Suspend, Goes
  <2> QED
    BY <1>1, <2>1, <2>2, MovingOn
<1>5. CASE RecordSuspended(t)
  <2>1. s.pc = "stopped"
    BY <1>5 DEF RecordSuspended, At
  <2>2. thread' = [thread EXCEPT ![t] = [s EXCEPT !.pc = "choosing", !.suspended = TRUE]]
    BY <1>5 DEF RecordSuspended
  <2> QED
    BY <1>1, <2>1, <2>2, MovingOn
<1>6. ASSUME NEW f \in Files, NextFile(t, f) PROVE \E r \in ThreadStates : thread' = [thread EXCEPT ![t] = r]
  <2>1. s.pc = "choosing"
    BY <1>6 DEF NextFile, At
  <2>2. \/ thread' = [thread EXCEPT ![t] = [s EXCEPT !.todo = s.todo \ {f}]]
        \/ thread' = [thread EXCEPT ![t] =
                         [s EXCEPT !.pc = "deciding", !.todo = s.todo \ {f}, !.file = f]]
    BY <1>6 DEF NextFile, Takes, Claim, PassesOver
  <2>3. s.todo \ {f} \in SUBSET Files
    BY <1>2
  <2> QED
    BY <1>1, <1>6, <2>1, <2>2, <2>3, TakingUp
<1>7. CASE DecideAllow(t)
  <2>1. s.pc = "deciding"
    BY <1>7 DEF DecideAllow, At
  <2>2. thread' = [thread EXCEPT ![t] = [s EXCEPT !.pc = "choosing"]]
    BY <1>7 DEF DecideAllow, Goes
  <2> QED
    BY <1>1, <2>1, <2>2, MovingOn
<1>8. CASE DecideBlock(t)
  <2>1. s.pc = "deciding"
    BY <1>8 DEF DecideBlock, At
  <2>2. \/ thread' = [thread EXCEPT ![t] = [s EXCEPT !.pc = "choosing"]]
        \/ thread' = [thread EXCEPT ![t] = [s EXCEPT !.pc = "killed"]]
        \/ thread' = [thread EXCEPT ![t] = Idle]
    BY <1>8 DEF DecideBlock, Goes
  <2> QED
    BY <1>1, <1>3, <2>1, <2>2, MovingOn
<1>9. CASE InspectionFails(t)
  <2>1. s.pc = "deciding"
    BY <1>9 DEF InspectionFails, At
  <2>2. thread' = [thread EXCEPT ![t] = [s EXCEPT !.pc = "choosing", !.todo = {}]]
    BY <1>9 DEF InspectionFails
  <2> QED
    BY <1>1, <2>1, <2>2, MovingOn
<1>10. CASE Resume(t)
  <2>1. s.pc = "choosing"
    BY <1>10 DEF Resume, At
  <2>2. \/ s.suspended /\ thread' = [thread EXCEPT ![t] = [s EXCEPT !.pc = "resumed"]]
        \/ thread' = [thread EXCEPT ![t] = Idle]
    BY <1>10 DEF Resume, Goes
  <2> QED
    BY <1>1, <1>3, <2>1, <2>2, MovingOn
<1>11. CASE RecordKilled(t) \/ RecordResumed(t)
  BY <1>3, <1>11 DEF RecordKilled, RecordResumed
<1> QED
  BY <1>4, <1>5, <1>6, <1>7, <1>8, <1>9, <1>10, <1>11 DEF Step

\* A step of a thread keeps the types.
LEMMA StepTyped ==
    ASSUME TypeOK, NEW t \in Threads, Step(t)
    PROVE  TypeOK'
<1>1. thread' \in [Threads -> ThreadStates]
  BY ThreadTyped
<1>2. thread[t].pid \in Processes
  BY SteppingThread, Working
<1>3. /\ process' \in [Processes -> {"running", "stopped", "dead"}]
      /\ suspendedPids' \subseteq Processes
      /\ UNCHANGED <<signalled, agent, runs, releasing, orphaned>>
  <2>1. CASE Suspend(t)
    BY <2>1 DEF TypeOK, Suspend, Stop, agentVars, sharedVars, ghostVars
  <2>2. CASE RecordSuspended(t)
    BY <1>2, <2>2 DEF TypeOK, RecordSuspended, agentVars, ghostVars
  <2>3. CASE \E f \in Files : NextFile(t, f)
    BY <2>3 DEF TypeOK, NextFile, agentVars
  <2>4. CASE DecideAllow(t)
    BY <2>4 DEF TypeOK, DecideAllow, agentVars, sharedVars
  <2>5. CASE DecideBlock(t)
    BY <2>5 DEF TypeOK, DecideBlock, agentVars, sharedVars
  <2>6. CASE RecordKilled(t) \/ RecordResumed(t)
    BY <2>6 DEF TypeOK, RecordKilled, RecordResumed, Forget, agentVars, ghostVars
  <2>7. CASE InspectionFails(t)
    BY <2>7 DEF TypeOK, InspectionFails, agentVars, sharedVars, ghostVars
  <2>8. CASE Resume(t)
    BY <2>8 DEF TypeOK, Resume, Continue, agentVars, sharedVars, ghostVars
  <2> QED
    BY <2>1, <2>2, <2>3, <2>4, <2>5, <2>6, <2>7, <2>8 DEF Step
<1>4. handled' \subseteq Pairs /\ forgotten' \in BOOLEAN
  <2>1. ASSUME NEW f \in Files, NextFile(t, f) PROVE handled' \subseteq Pairs /\ forgotten' \in BOOLEAN
    <3>1. CASE t = Guard
      BY <2>1, <3>1 DEF NextFile, TypeOK
    <3>2. CASE t # Guard
      <4>1. <<thread[t].pid, f>> \in Pairs
        BY <1>2 DEF Pairs
      <4>2. handled \subseteq Pairs /\ forgotten \in BOOLEAN
        BY DEF TypeOK
      <4>3. Claim(t, f)
        BY <2>1, <3>2 DEF NextFile
      <4> QED
        BY <4>1, <4>2, <4>3 DEF Claim
    <3> QED
      BY <3>1, <3>2
  <2>2. CASE ~ \E f \in Files : NextFile(t, f)
    <3>1. UNCHANGED <<handled, forgotten>>
      BY <2>2 DEF Step, Suspend, RecordSuspended, DecideAllow, DecideBlock, RecordKilled,
                  InspectionFails, Resume, RecordResumed, sharedVars, ghostVars
    <3> QED
      BY <3>1 DEF TypeOK
  <2> QED
    BY <2>1, <2>2
<1>5. decided' \in [Pairs -> 0 .. 2]
  <2>1. CASE Judged(Key(t))
    <3> DEFINE k == Key(t)
    <3>1. decided' = [decided EXCEPT ![k] = IF decided[k] = 0 THEN 1 ELSE 2]
      BY <2>1 DEF Judged
    <3>2. decided \in [Pairs -> 0 .. 2]
      BY DEF TypeOK
    <3>3. (IF decided[k] = 0 THEN 1 ELSE 2) \in 0 .. 2
      OBVIOUS
    <3> QED
      BY <3>1, <3>2, <3>3
  <2>2. CASE UNCHANGED decided
    BY <2>2 DEF TypeOK
  <2> QED
    BY <2>1, <2>2 DEF Step, Suspend, RecordSuspended, NextFile, DecideAllow, DecideBlock,
           RecordKilled, InspectionFails, Resume, RecordResumed, ghostVars
<1> QED
  BY <1>1, <1>3, <1>4, <1>5 DEF TypeOK

\* Every state is of the types that TypeOK lists.
THEOREM Typing == Spec => []TypeOK
<1>1. Init => TypeOK
  <2>1. Init => thread \in [Threads -> ThreadStates]
    BY DEF Init, ThreadStates
  <2>2. Init => decided \in [Pairs -> 0 .. 2]
    BY DEF Init
  <2>3. Init => forgotten \in BOOLEAN
    BY Zenon DEF Init
  <2>4. Init => process \in [Processes -> {"running", "stopped", "dead"}]
    BY DEF Init
  <2> QED
    BY <2>1, <2>2, <2>3, <2>4 DEF Init, TypeOK
<1>2. TypeOK /\ [Next]_vars => TypeOK'
  <2> SUFFICES ASSUME TypeOK, [Next]_vars
               PROVE  TypeOK'
    OBVIOUS
  <2>1. ASSUME NEW t \in Inspectors, NEW p \in Processes, NEW files \in SUBSET Files,
               InspectorStarts(t, p, files)
        PROVE  TypeOK'
    <3>1. Inspection(p, files) \in ThreadStates
      BY DEF Inspection, Inspections, ThreadStates
    <3>2. thread' \in [Threads -> ThreadStates]
      BY <2>1, <3>1 DEF InspectorStarts, TypeOK, Threads
    <3> QED
      BY <2>1, <3>2 DEF InspectorStarts, TypeOK, agentVars, sharedVars, ghostVars
  <2>2. ASSUME NEW p \in Processes, NEW held \in SUBSET Files, NEW covered \in BOOLEAN,
               GuardStarts(p, held, covered)
        PROVE  TypeOK'
    <3> DEFINE fresh == {f \in held : <<p, f>> \notin handled}
    <3>1. Inspection(p, fresh) \in ThreadStates
      BY DEF Inspection, Inspections, ThreadStates
    <3>2. thread' = thread \/ thread' = [thread EXCEPT ![Guard] = Inspection(p, fresh)]
      BY <2>2 DEF GuardStarts
    <3>3. thread' \in [Threads -> ThreadStates]
      <4> HIDE DEF fresh
      <4> QED
        BY <3>1, <3>2 DEF TypeOK, Threads
    <3>4. handled' \subseteq Pairs
      BY <2>2 DEF GuardStarts, TypeOK, Pairs
    <3>5. forgotten' \in BOOLEAN
      BY <2>2 DEF GuardStarts, TypeOK
    <3> QED
      BY <2>2, <3>3, <3>4, <3>5 DEF GuardStarts, TypeOK, agentVars
  <2>3. ASSUME NEW t \in Threads, Step(t) PROVE TypeOK'
    BY <2>3, StepTyped
  <2>4. ASSUME NEW p \in Processes, Release(p) PROVE TypeOK'
    BY <2>4 DEF Release, Continue, TypeOK, ghostVars
  <2>5. ASSUME NEW p \in Processes, ProcessEnds(p) PROVE TypeOK'
    BY <2>5 DEF ProcessEnds, TypeOK, agentVars, sharedVars, ghostVars
  <2>6. CASE AgentStops
    BY <2>6 DEF AgentStops, TypeOK, sharedVars, ghostVars
  <2>7. CASE AgentExits \/ AgentIsKilled
    <3>1. /\ thread' \in [Threads -> ThreadStates]
          /\ decided' \in [Pairs -> 0 .. 2]
      BY <2>7 DEF AgentExits, AgentIsKilled, Ends, ThreadStates
    <3> QED
      BY <2>7, <3>1 DEF AgentExits, AgentIsKilled, Ends, TypeOK
  <2>8. CASE AgentStarts
    BY <2>8 DEF AgentStarts, TypeOK, sharedVars, ghostVars
  <2>9. CASE UNCHANGED vars
    BY <2>9 DEF vars, agentVars, sharedVars, ghostVars, TypeOK
  <2> QED
    BY <2>1, <2>2, <2>3, <2>4, <2>5, <2>6, <2>7, <2>8, <2>9 DEF Next
<1> QED
  BY <1>1, <1>2, PTL DEF Spec

-----------------------------------------------------------------------------
(* No process is frozen and forgotten.                                      *)

\* A thread that will resume p still will after a step of its own that leaves
\* p frozen.
LEMMA KeepsInHand ==
    ASSUME TypeOK, NEW t \in Threads, Step(t), NEW p \in Processes,
           WillResume(t, p), process'[p] = "stopped"
    PROVE  WillResume(t, p)'
<1>1. /\ thread \in [Threads -> ThreadStates] /\ thread[t].pid = p
      /\ process \in [Processes -> {"running", "stopped", "dead"}]
  BY DEF WillResume, TypeOK
<1>2. /\ thread[t].pc \in {"stopped", "choosing", "deciding"}
      /\ thread[t].pc = "stopped" \/ thread[t].suspended
  BY DEF WillResume, At
<1>3. \A r \in ThreadStates :
         r.pc # "idle" => r \in Inspections({r.pc}, {r.suspended})
  BY Working
<1>4. thread[t] \in Inspections({thread[t].pc}, {thread[t].suspended})
  BY <1>1, <1>2, <1>3
<1>5. CASE RecordSuspended(t)
  BY <1>1, <1>4, <1>5 DEF RecordSuspended, WillResume, At, Inspections
<1>6. ASSUME NEW f \in Files, NextFile(t, f) PROVE WillResume(t, p)'
  <2> DEFINE s == thread[t]
  <2>1. \/ thread' = [thread EXCEPT ![t] = [s EXCEPT !.todo = s.todo \ {f}]]
        \/ thread' = [thread EXCEPT ![t] =
                         [s EXCEPT !.pc = "deciding", !.todo = s.todo \ {f}, !.file = f]]
    BY <1>6 DEF NextFile, Takes, Claim, PassesOver
  <2>2. thread[t].pc = "choosing"
    BY <1>6 DEF NextFile, At
  <2>3. thread[t].suspended
    BY <1>2, <2>2
  <2>4. CASE thread' = [thread EXCEPT ![t] = [s EXCEPT !.todo = s.todo \ {f}]]
    <3>1. thread'[t] = [s EXCEPT !.todo = s.todo \ {f}]
      BY <1>1, <2>4
    <3> QED
      BY <1>1, <1>4, <2>2, <2>3, <3>1 DEF Inspections, WillResume, At
  <2>5. CASE thread' = [thread EXCEPT ![t] =
                          [s EXCEPT !.pc = "deciding", !.todo = s.todo \ {f}, !.file = f]]
    <3>1. thread'[t] = [s EXCEPT !.pc = "deciding", !.todo = s.todo \ {f}, !.file = f]
      BY <1>1, <2>5
    <3> QED
      BY <1>1, <1>4, <2>2, <2>3, <3>1 DEF Inspections, WillResume, At
  <2> QED
    BY <2>1, <2>4, <2>5
<1>7. CASE DecideAllow(t)
  BY <1>1, <1>2, <1>4, <1>7 DEF DecideAllow, Goes, WillResume, At, Inspections
<1>8. CASE DecideBlock(t)
  <2>1. Goes(t, "choosing")
    BY <1>1, <1>8 DEF DecideBlock
  <2>2. thread[t].pc = "deciding"
    BY <1>8 DEF DecideBlock, At
  <2> QED
    BY <1>1, <1>2, <1>4, <2>1, <2>2 DEF Goes, WillResume, At, Inspections
<1>9. CASE InspectionFails(t)
  BY <1>1, <1>2, <1>4, <1>9 DEF InspectionFails, WillResume, At, Inspections
<1>10. CASE Suspend(t) \/ RecordKilled(t) \/ RecordResumed(t)
  BY <1>2, <1>10 DEF Suspend, RecordKilled, RecordResumed, At
<1>11. CASE Resume(t)
  <2>1. thread[t].pc = "choosing"
    BY <1>11 DEF Resume, At
  <2>2. thread[t].suspended
    BY <1>2, <2>1
  <2>3. Continue(p)
    BY <1>1, <1>11, <2>2 DEF Resume
  <2> QED
    BY <1>1, <2>3 DEF Continue
<1> QED
  BY <1>5, <1>6, <1>7, <1>8, <1>9, <1>10, <1>11 DEF Step

\* A process that a thread freezes comes into its hand.
LEMMA FreezerTakesInHand ==
    ASSUME TypeOK, NEW t \in Threads, Step(t), NEW p \in Processes,
           process[p] # "stopped", process'[p] = "stopped"
    PROVE  WillResume(t, p)'
<1>1. /\ thread \in [Threads -> ThreadStates]
      /\ process \in [Processes -> {"running", "stopped", "dead"}]
  BY DEF TypeOK
<1>2. Suspend(t)
  BY <1>1 DEF Step, Suspend, RecordSuspended, NextFile, DecideAllow, DecideBlock,
         RecordKilled, InspectionFails, Resume, Continue, RecordResumed
<1>3. thread[t].pid = p /\ Goes(t, "stopped")
  BY <1>1, <1>2 DEF Suspend, Stop
<1>4. thread[t].pc = "suspending" /\ thread[t] \in ThreadStates
  BY <1>1, <1>2 DEF Suspend, At
<1>5. thread[t] \in Inspections({thread[t].pc}, {thread[t].suspended})
  BY <1>4, Working
<1> QED
  BY <1>1, <1>3, <1>5 DEF Goes, WillResume, At, Inspections

\* A thread that does not move keeps what it has in hand.
LEMMA AtRest ==
    ASSUME NEW t, NEW p, thread'[t] = thread[t], WillResume(t, p)
    PROVE  WillResume(t, p)'
BY DEF WillResume, At

\* A process is frozen only while some thread will resume or kill it, but for
\* those an earlier run of the agent left behind.
THEOREM FrozenInHand == Spec => []FrozenOnlyInHand
<1>1. Init => FrozenOnlyInHand
  BY DEF Init, FrozenOnlyInHand
<1>2. TypeOK /\ FrozenOnlyInHand /\ [Next]_vars => FrozenOnlyInHand'
  <2> SUFFICES ASSUME TypeOK, FrozenOnlyInHand, [Next]_vars,
                      NEW p \in Processes, p \notin orphaned', process'[p] = "stopped"
               PROVE  \E t \in Threads : WillResume(t, p)'
    BY DEF FrozenOnlyInHand
  <2>1. /\ thread \in [Threads -> ThreadStates]
        /\ process \in [Processes -> {"running", "stopped", "dead"}]
    BY DEF TypeOK
  <2>2. ASSUME orphaned' = orphaned, process[p] = "stopped"
        PROVE  \E t \in Threads : WillResume(t, p)
    BY <2>2 DEF FrozenOnlyInHand
  <2>3. ASSUME orphaned' = orphaned, thread' = thread, process[p] = "stopped"
        PROVE  \E u \in Threads : WillResume(u, p)'
    BY <2>2, <2>3, AtRest
  <2>4. ASSUME NEW t \in Inspectors, NEW q \in Processes, NEW files \in SUBSET Files,
               InspectorStarts(t, q, files)
        PROVE  \E u \in Threads : WillResume(u, p)'
    <3>1. /\ orphaned' = orphaned /\ process' = process /\ t \in Threads
          /\ thread[t].pc = "idle"
          /\ \A u \in Threads \ {t} : thread'[u] = thread[u]
      BY <2>1, <2>4 DEF InspectorStarts, At, Threads, ghostVars
    <3>2. \A u \in Threads \ {t} : WillResume(u, p) => WillResume(u, p)'
      BY <3>1, AtRest
    <3>3. ~WillResume(t, p)
      BY <3>1 DEF WillResume
    <3> QED
      BY <2>2, <3>1, <3>2, <3>3
  <2>5. ASSUME NEW q \in Processes, NEW held \in SUBSET Files, NEW covered \in BOOLEAN,
               GuardStarts(q, held, covered)
        PROVE  \E u \in Threads : WillResume(u, p)'
    <3>1. /\ orphaned' = orphaned /\ process' = process
          /\ thread[Guard].pc = "idle"
      BY <2>5 DEF GuardStarts, At
    <3>2. \A u \in Threads \ {Guard} : thread'[u] = thread[u]
      BY <2>1, <2>5 DEF GuardStarts, Threads
    <3>3. \A u \in Threads \ {Guard} : WillResume(u, p) => WillResume(u, p)'
      BY <3>2, AtRest
    <3>4. ~WillResume(Guard, p)
      BY <3>1 DEF WillResume
    <3> QED
      BY <2>2, <3>1, <3>3, <3>4
  <2>6. ASSUME NEW t \in Threads, Step(t)
        PROVE  \E u \in Threads : WillResume(u, p)'
    <3>1. orphaned' = orphaned
      BY <2>6 DEF Step, Suspend, RecordSuspended, NextFile, DecideAllow, DecideBlock,
             RecordKilled, InspectionFails, Resume, RecordResumed, ghostVars
    <3>2. CASE process[p] = "stopped"
      <4>1. PICK u \in Threads : WillResume(u, p)
        BY <2>2, <3>1, <3>2
      <4>2. CASE u = t
        BY <2>6, <4>1, <4>2, KeepsInHand
      <4>3. CASE u # t
        BY <2>6, <4>1, <4>3, ThreadTyped, AtRest
      <4> QED
        BY <4>2, <4>3
    <3>3. CASE process[p] # "stopped"
      BY <2>6, <3>3, FreezerTakesInHand
    <3> QED
      BY <3>2, <3>3
  <2>7. ASSUME NEW q \in Processes, Release(q) \/ ProcessEnds(q)
        PROVE  \E u \in Threads : WillResume(u, p)'
    <3>1. orphaned' = orphaned /\ thread' = thread
      BY <2>7 DEF Release, ProcessEnds, ghostVars
    <3>2. process[p] = "stopped"
      BY <2>1, <2>7 DEF Release, ProcessEnds, Continue
    <3> QED
      BY <2>3, <3>1, <3>2
  <2>8. CASE AgentStops \/ AgentStarts \/ UNCHANGED vars
    <3>1. orphaned' = orphaned /\ thread' = thread /\ process' = process
      BY <2>8 DEF AgentStops, AgentStarts, vars, ghostVars
    <3> QED
      BY <2>3, <3>1
  <2>9. CASE AgentExits \/ AgentIsKilled
    BY <2>9 DEF AgentExits, AgentIsKilled, Ends
  <2> QED
    BY <2>4, <2>5, <2>6, <2>7, <2>8, <2>9 DEF Next
<1> QED
  BY <1>1, <1>2, Typing, PTL DEF Spec

-----------------------------------------------------------------------------
(* No pair is judged twice.                                                 *)

\* Thread t has taken up pair k and has yet to judge it: an inspector the one
\* at hand, the guard the ones to come as well.
Owns(t, k) ==
    /\ thread[t].pc \in {"suspending", "stopped", "choosing", "deciding"}
    /\ thread[t].pid = k[1]
    /\ \/ t = Guard /\ k[2] \in thread[t].todo
       \/ At(t, "deciding") /\ thread[t].file = k[2]

\* The file at hand is no longer among those to come.
TakenUpIsOffTheList ==
    At(Guard, "deciding") => thread[Guard].file \notin thread[Guard].todo

\* A pair that was not taken up is nobody's and not judged; one that was has
\* at most one owner, and none once it is judged.
OneOwner ==
    \A k \in Pairs :
        /\ k \notin handled => decided[k] = 0 /\ \A t \in Threads : ~Owns(t, k)
        /\ decided[k] # 0 => \A t \in Threads : ~Owns(t, k)
        /\ \A t, u \in Threads : Owns(t, k) /\ Owns(u, k) => t = u
        /\ decided[k] <= 1

\* JudgedOnce is not inductive by itself: that a pair at hand was not judged
\* before rests on who took it up.
Judging == TakenUpIsOffTheList /\ (~forgotten => OneOwner)

\* A step of a thread that leaves it at work leaves it at work on the same
\* process with no file added, and is at a file only if it has just taken it.
LEMMA Moves ==
    ASSUME TypeOK, NEW t \in Threads, Step(t)
    PROVE  \/ thread'[t].pc = "idle"
           \/ /\ thread[t].pc \in {"suspending", "stopped", "choosing", "deciding"}
              /\ thread'[t].pid = thread[t].pid
              /\ thread'[t].todo \subseteq thread[t].todo
              /\ \/ thread'[t].pc # "deciding"
                 \/ \E f \in Files : NextFile(t, f) /\ Takes(t, f)
<1> DEFINE s == thread[t]
<1>1. thread \in [Threads -> ThreadStates] /\ s.pc # "idle" /\ s \in ThreadStates
  BY SteppingThread DEF TypeOK
<1>2. s \in Inspections({s.pc}, {s.suspended}) /\ s.todo \in SUBSET Files
  BY <1>1, Working
<1>3. ASSUME NEW pc, thread' = [thread EXCEPT ![t] = [s EXCEPT !.pc = pc]], pc # "deciding"
      PROVE  /\ thread'[t].pid = s.pid /\ thread'[t].todo = s.todo
             /\ thread'[t].pc # "deciding"
  <2>1. thread'[t] = [s EXCEPT !.pc = pc]
    BY <1>1, <1>3
  <2> QED
    BY <1>2, <1>3, <2>1 DEF Inspections
<1>4. CASE Suspend(t)
  <2>1. s.pc = "suspending"
    BY <1>4 DEF Suspend, At
  <2>2. \/ thread' = [thread EXCEPT ![t] = [s EXCEPT !.pc = "stopped"]]
        \/ thread' = [thread EXCEPT ![t] = [s EXCEPT !.pc = "choosing"]]
    BY <1>4 DEF Suspend, Goes
  <2> QED
    BY <1>3, <2>1, <2>2
<1>5. CASE RecordSuspended(t)
  <2>1. s.pc = "stopped"
    BY <1>5 DEF RecordSuspended, At
  <2>2. thread'[t] = [s EXCEPT !.pc = "choosing", !.suspended = TRUE]
    BY <1>1, <1>5 DEF RecordSuspended
  <2> QED
    BY <1>2, <2>1, <2>2 DEF Inspections
<1>6. ASSUME NEW f \in Files, NextFile(t, f), ~Takes(t, f)
      PROVE  /\ s.pc = "choosing"
             /\ thread'[t].pid = s.pid /\ thread'[t].todo \subseteq s.todo
             /\ thread'[t].pc # "deciding"
  <2>1. s.pc = "choosing"
    BY <1>6 DEF NextFile, At
  <2>2. PassesOver(t, f)
    BY <1>6 DEF NextFile, Claim
  <2>3. thread'[t] = [s EXCEPT !.todo = s.todo \ {f}]
    BY <1>1, <2>2 DEF PassesOver
  <2> QED
    BY <1>2, <2>1, <2>3 DEF Inspections
<1>7. ASSUME NEW f \in Files, NextFile(t, f), Takes(t, f)
      PROVE  /\ s.pc = "choosing"
             /\ thread'[t].pid = s.pid /\ thread'[t].todo \subseteq s.todo
  <2>1. s.pc = "choosing"
    BY <1>7 DEF NextFile, At
  <2>2. thread'[t] = [s EXCEPT !.pc = "deciding", !.todo = s.todo \ {f}, !.file = f]
    BY <1>1, <1>7 DEF Takes
  <2> QED
    BY <1>2, <2>1, <2>2 DEF Inspections
<1>8. CASE DecideAllow(t)
  <2>1. s.pc = "deciding" /\ thread' = [thread EXCEPT ![t] = [s EXCEPT !.pc = "choosing"]]
    BY <1>8 DEF DecideAllow, Goes, At
  <2> QED
    BY <1>3, <2>1
<1>9. CASE DecideBlock(t)
  <2>1. s.pc = "deciding"
    BY <1>9 DEF DecideBlock, At
  <2>2. \/ thread' = [thread EXCEPT ![t] = [s EXCEPT !.pc = "choosing"]]
        \/ thread' = [thread EXCEPT ![t] = [s EXCEPT !.pc = "killed"]]
        \/ thread' = [thread EXCEPT ![t] = Idle]
    BY <1>9 DEF DecideBlock, Goes
  <2>3. CASE thread' = [thread EXCEPT ![t] = Idle]
    BY <1>1, <2>3 DEF Idle
  <2> QED
    BY <1>3, <2>1, <2>2, <2>3
<1>10. CASE InspectionFails(t)
  <2>1. s.pc = "deciding"
    BY <1>10 DEF InspectionFails, At
  <2>2. thread'[t] = [s EXCEPT !.pc = "choosing", !.todo = {}]
    BY <1>1, <1>10 DEF InspectionFails
  <2> QED
    BY <1>2, <2>1, <2>2 DEF Inspections
<1>11. CASE Resume(t)
  <2>1. s.pc = "choosing"
    BY <1>11 DEF Resume, At
  <2>2. \/ thread' = [thread EXCEPT ![t] = [s EXCEPT !.pc = "resumed"]]
        \/ thread' = [thread EXCEPT ![t] = Idle]
    BY <1>11 DEF Resume, Goes
  <2>3. CASE thread' = [thread EXCEPT ![t] = Idle]
    BY <1>1, <2>3 DEF Idle
  <2> QED
    BY <1>3, <2>1, <2>2, <2>3
<1>12. CASE RecordKilled(t) \/ RecordResumed(t)
  BY <1>1, <1>12 DEF RecordKilled, RecordResumed, Idle
<1> QED
  BY <1>4, <1>5, <1>6, <1>7, <1>8, <1>9, <1>10, <1>11, <1>12 DEF Step

\* Ownership passes only from a thread to nobody, when the pair is judged, or
\* from nobody to the thread that takes up a pair nobody took up before.
LEMMA Handover ==
    ASSUME TypeOK, OneOwner, NEW t \in Threads, handled \subseteq handled',
           \A u \in Threads \ {t} : thread'[u] = thread[u],
           \A k \in Pairs : Owns(t, k)' => Owns(t, k) \/ (k \notin handled /\ k \in handled'),
           \A k \in Pairs :
               \/ decided'[k] = decided[k]
               \/ Owns(t, k) /\ ~Owns(t, k)' /\ decided'[k] = IF decided[k] = 0 THEN 1 ELSE 2
    PROVE  OneOwner'
<1> SUFFICES ASSUME NEW k \in Pairs
             PROVE  /\ k \notin handled' => decided'[k] = 0 /\ \A u \in Threads : ~Owns(u, k)'
                    /\ decided'[k] # 0 => \A u \in Threads : ~Owns(u, k)'
                    /\ \A u, v \in Threads : Owns(u, k)' /\ Owns(v, k)' => u = v
                    /\ decided'[k] <= 1
  BY DEF OneOwner
<1>1. \A u \in Threads \ {t} : Owns(u, k)' <=> Owns(u, k)
  BY DEF Owns, At
<1>2. /\ k \notin handled => decided[k] = 0 /\ \A u \in Threads : ~Owns(u, k)
      /\ decided[k] # 0 => \A u \in Threads : ~Owns(u, k)
      /\ \A u, v \in Threads : Owns(u, k) /\ Owns(v, k) => u = v
      /\ decided[k] <= 1
  BY DEF OneOwner
<1>3. /\ Owns(t, k)' => Owns(t, k) \/ (k \notin handled /\ k \in handled')
      /\ \/ decided'[k] = decided[k]
         \/ Owns(t, k) /\ ~Owns(t, k)' /\ decided'[k] = IF decided[k] = 0 THEN 1 ELSE 2
  OBVIOUS
<1>4. CASE k \notin handled
  <2>1. decided'[k] = 0 /\ \A u \in Threads \ {t} : ~Owns(u, k)'
    BY <1>1, <1>2, <1>3, <1>4
  <2>2. k \notin handled' => ~Owns(t, k)'
    BY <1>2, <1>3, <1>4
  <2> QED
    BY <2>1, <2>2
<1>5. CASE k \in handled
  <2>1. k \in handled' /\ \A u \in Threads : Owns(u, k)' => Owns(u, k)
    BY <1>1, <1>3, <1>5
  <2>2. \A u, v \in Threads : Owns(u, k)' /\ Owns(v, k)' => u = v
    BY <1>2, <2>1
  <2>3. CASE decided'[k] = decided[k]
    BY <1>2, <2>1, <2>2, <2>3
  <2>4. CASE /\ Owns(t, k) /\ ~Owns(t, k)'
             /\ decided'[k] = IF decided[k] = 0 THEN 1 ELSE 2
    <3>1. decided'[k] = 1
      BY <1>2, <2>4
    <3>2. \A u \in Threads : ~Owns(u, k)'
      BY <1>2, <2>1, <2>4
    <3> QED
      BY <2>1, <3>1, <3>2
  <2> QED
    BY <1>3, <2>3, <2>4
<1> QED
  BY <1>4, <1>5

\* A thread that takes a file has it at hand and off its list.
LEMMA TakenFile ==
    ASSUME TypeOK, NEW t \in Threads, Step(t), NEW f \in Files, NextFile(t, f), Takes(t, f)
    PROVE  thread'[t].file = f /\ f \notin thread'[t].todo /\ f \in thread[t].todo
<1> DEFINE s == thread[t]
<1>1. thread \in [Threads -> ThreadStates] /\ s.pc # "idle" /\ s \in ThreadStates
  BY SteppingThread DEF TypeOK
<1>2. s \in Inspections({s.pc}, {s.suspended})
  BY <1>1, Working
<1>3. thread'[t] = [s EXCEPT !.pc = "deciding", !.todo = s.todo \ {f}, !.file = f]
  BY <1>1 DEF Takes
<1> QED
  BY <1>2, <1>3 DEF Inspections, NextFile

\* What a thread's step does to the pairs it owns.
LEMMA StepOwns ==
    ASSUME TypeOK, NEW t \in Threads, Step(t), NEW k \in Pairs, Owns(t, k)'
    PROVE  Owns(t, k) \/ (k \notin handled /\ k \in handled')
<1>1. /\ thread[t].pc \in {"suspending", "stopped", "choosing", "deciding"}
      /\ thread[t].pid = k[1]
      /\ thread'[t].todo \subseteq thread[t].todo
      /\ \/ thread'[t].pc # "deciding"
         \/ \E f \in Files : NextFile(t, f) /\ Takes(t, f)
  BY Moves DEF Owns
<1>2. CASE t = Guard /\ k[2] \in thread'[t].todo
  BY <1>1, <1>2 DEF Owns
<1>3. CASE thread'[t].pc = "deciding" /\ thread'[t].file = k[2]
  <2>1. PICK f \in Files : NextFile(t, f) /\ Takes(t, f)
    BY <1>1, <1>3
  <2>2. f = k[2] /\ f \in thread[t].todo
    BY <1>3, <2>1, TakenFile
  <2>3. CASE t = Guard
    BY <1>1, <2>2, <2>3 DEF Owns
  <2>4. CASE t # Guard
    <3>1. Claim(t, f)
      BY <2>1, <2>4 DEF NextFile
    <3>2. k = <<thread[t].pid, f>>
      BY <1>1, <2>2 DEF Pairs
    <3>3. ~PassesOver(t, f)
      <4>1. thread[t].pc = "choosing" /\ thread \in [Threads -> ThreadStates]
        BY <2>1 DEF NextFile, At, TypeOK
      <4>2. thread[t] \in Inspections({thread[t].pc}, {thread[t].suspended})
        BY <4>1, Working
      <4> QED
        BY <1>3, <4>1, <4>2 DEF PassesOver, Inspections
    <3> QED
      BY <3>1, <3>2, <3>3 DEF Claim
  <2> QED
    BY <2>3, <2>4
<1> QED
  BY <1>2, <1>3 DEF Owns, At

\* A pair is judged by its owner, who is so no longer.
LEMMA StepJudges ==
    ASSUME TypeOK, TakenUpIsOffTheList, NEW t \in Threads, Step(t), NEW k \in Pairs,
           decided'[k] # decided[k]
    PROVE  Owns(t, k) /\ ~Owns(t, k)' /\ decided'[k] = IF decided[k] = 0 THEN 1 ELSE 2
<1>1. DecideAllow(t) \/ DecideBlock(t)
  BY DEF Step, Suspend, RecordSuspended, NextFile, RecordKilled, InspectionFails, Resume,
         RecordResumed, ghostVars
<1>2. Judged(Key(t)) /\ thread[t].pc = "deciding"
  BY <1>1 DEF DecideAllow, DecideBlock, At
<1>3. k = Key(t) /\ decided'[k] = IF decided[k] = 0 THEN 1 ELSE 2
  BY <1>2 DEF Judged, TypeOK
<1>4. thread[t].pid = k[1] /\ thread[t].file = k[2]
  BY <1>3 DEF Key
<1>5. thread'[t].pc # "deciding"
  <2>1. thread \in [Threads -> ThreadStates] /\ thread[t] \in ThreadStates
    BY DEF TypeOK
  <2>2. thread[t] \in Inspections({thread[t].pc}, {thread[t].suspended})
    BY <1>2, <2>1, Working
  <2>3. \/ thread' = [thread EXCEPT ![t] = [thread[t] EXCEPT !.pc = "choosing"]]
        \/ thread' = [thread EXCEPT ![t] = [thread[t] EXCEPT !.pc = "killed"]]
        \/ thread' = [thread EXCEPT ![t] = Idle]
    BY <1>1 DEF DecideAllow, DecideBlock, Goes
  <2> QED
    BY <2>1, <2>2, <2>3 DEF Inspections, Idle
<1>6. thread'[t].pc = "idle" \/ thread'[t].todo \subseteq thread[t].todo
  BY Moves
<1>7. t = Guard => k[2] \notin thread[t].todo
  BY <1>2, <1>4 DEF TakenUpIsOffTheList, At
<1> QED
  BY <1>2, <1>3, <1>4, <1>5, <1>6, <1>7 DEF Owns, At

\* As long as nothing was forgotten, nothing leaves the set.
LEMMA NothingLost ==
    ASSUME NEW t \in Threads, Step(t), ~forgotten', TypeOK
    PROVE  ~forgotten /\ handled \subseteq handled'
<1>1. ASSUME NEW f \in Files, NextFile(t, f), ~ UNCHANGED <<handled, forgotten>>
      PROVE  ~forgotten /\ handled \subseteq handled'
  <2> DEFINE claimed == handled \cup {<<thread[t].pid, f>>}
  <2>1. Claim(t, f)
    BY <1>1 DEF NextFile
  <2>2. /\ handled' = IF Cardinality(claimed) > MaxHandled
                      THEN {<<thread[t].pid, f>>} ELSE claimed
        /\ forgotten' = (forgotten \/ Cardinality(claimed) > MaxHandled)
    BY <1>1, <2>1 DEF Claim
  <2>3. ~forgotten /\ ~(Cardinality(claimed) > MaxHandled)
    BY <2>2, Zenon
  <2>4. handled' = claimed
    BY <2>2, <2>3, Zenon
  <2> QED
    BY <2>3, <2>4
<1>2. CASE UNCHANGED <<handled, forgotten>>
  BY <1>2
<1>3. CASE ~ \E f \in Files : NextFile(t, f)
  <2>1. UNCHANGED <<handled, forgotten>>
    BY <1>3 DEF Step, Suspend, RecordSuspended, DecideAllow, DecideBlock, RecordKilled,
                InspectionFails, Resume, RecordResumed, sharedVars, ghostVars
  <2> QED
    BY <1>2, <2>1
<1> QED
  BY <1>1, <1>2, <1>3

\* A step of a thread keeps the invariant.
LEMMA StepJudging ==
    ASSUME TypeOK, Judging, NEW t \in Threads, Step(t)
    PROVE  Judging'
<1>1. TakenUpIsOffTheList'
  <2>1. CASE t # Guard
    <3>1. thread'[Guard] = thread[Guard]
      BY <2>1, ThreadTyped DEF Threads
    <3> QED
      BY <3>1 DEF Judging, TakenUpIsOffTheList, At
  <2>2. CASE t = Guard
    <3>1. CASE thread'[t].pc # "deciding"
      BY <2>2, <3>1 DEF TakenUpIsOffTheList, At
    <3>2. CASE \E f \in Files : NextFile(t, f) /\ Takes(t, f)
      BY <2>2, <3>2, TakenFile DEF TakenUpIsOffTheList
    <3> QED
      BY <3>1, <3>2, Moves
  <2> QED
    BY <2>1, <2>2
<1>2. ASSUME ~forgotten' PROVE OneOwner'
  <2>1. ~forgotten /\ handled \subseteq handled'
    BY <1>2, NothingLost
  <2>2. OneOwner /\ TakenUpIsOffTheList
    BY <2>1 DEF Judging
  <2>3. \A u \in Threads \ {t} : thread'[u] = thread[u]
    BY ThreadTyped
  <2>4. \A k \in Pairs : Owns(t, k)' => Owns(t, k) \/ (k \notin handled /\ k \in handled')
    BY StepOwns
  <2>5. \A k \in Pairs :
           \/ decided'[k] = decided[k]
           \/ Owns(t, k) /\ ~Owns(t, k)' /\ decided'[k] = IF decided[k] = 0 THEN 1 ELSE 2
    BY <2>2, StepJudges
  <2> QED
    BY <2>1, <2>2, <2>3, <2>4, <2>5, Handover
<1> QED
  BY <1>1, <1>2 DEF Judging

\* No pair of process and file is judged twice in a run, until the set of
\* those taken up was full and was cleared.
THEOREM PairsJudgedOnce == Spec => []JudgedOnce
<1>1. Init => Judging
  <2>1. Init => \A t \in Threads : thread[t].pc = "idle"
    BY DEF Init, Idle
  <2>2. Init => \A k \in Pairs : decided[k] = 0
    BY DEF Init
  <2>3. Init => TakenUpIsOffTheList
    BY <2>1 DEF TakenUpIsOffTheList, At, Threads
  <2> QED
    BY <2>1, <2>2, <2>3 DEF Judging, OneOwner, Owns
<1>2. TypeOK /\ Judging /\ [Next]_vars => Judging'
  <2> SUFFICES ASSUME TypeOK, Judging, [Next]_vars
               PROVE  Judging'
    OBVIOUS
  <2>1. thread \in [Threads -> ThreadStates]
    BY DEF TypeOK
  <2>2. ASSUME thread' = thread, handled' = handled, decided' = decided,
               forgotten' = forgotten
        PROVE  Judging'
    BY <2>2 DEF Judging, TakenUpIsOffTheList, OneOwner, Owns, At
  <2>3. ASSUME NEW t \in Inspectors, NEW p \in Processes, NEW files \in SUBSET Files,
               InspectorStarts(t, p, files)
        PROVE  Judging'
    <3>1. /\ t \in Threads /\ t # Guard
          /\ thread'[t].pc = "suspending"
          /\ \A u \in Threads \ {t} : thread'[u] = thread[u]
          /\ handled' = handled /\ decided' = decided /\ forgotten' = forgotten
      BY <2>1, <2>3, GuardAssumption
         DEF InspectorStarts, Inspection, Threads, sharedVars, ghostVars
    <3>2. TakenUpIsOffTheList'
      BY <3>1 DEF Judging, TakenUpIsOffTheList, At, Threads
    <3>3. \A k \in Pairs : ~Owns(t, k)'
      BY <3>1 DEF Owns, At
    <3>4. ASSUME ~forgotten' PROVE OneOwner'
      <4>1. OneOwner
        BY <3>1, <3>4 DEF Judging
      <4> QED
        BY <3>1, <3>3, <4>1, Handover
    <3> QED
      BY <3>2, <3>4 DEF Judging
  <2>4. ASSUME NEW p \in Processes, NEW held \in SUBSET Files, NEW covered \in BOOLEAN,
               GuardStarts(p, held, covered)
        PROVE  Judging'
    <3> DEFINE fresh == {f \in held : <<p, f>> \notin handled}
               claimed == handled \cup {<<p, f>> : f \in held}
    <3>1. /\ thread[Guard].pc = "idle" /\ decided' = decided /\ Guard \in Threads
          /\ thread' = thread \/ thread' = [thread EXCEPT ![Guard] = Inspection(p, fresh)]
          /\ handled' = IF Cardinality(claimed) > MaxHandled THEN {} ELSE claimed
          /\ forgotten' = (forgotten \/ Cardinality(claimed) > MaxHandled)
      BY <2>4 DEF GuardStarts, At, Threads
    <3>2. \/ thread'[Guard].pc = "idle"
          \/ /\ thread'[Guard].pc = "suspending" /\ thread'[Guard].pid = p
             /\ thread'[Guard].todo = fresh
      BY <2>1, <3>1 DEF Inspection
    <3>3. \A u \in Threads \ {Guard} : thread'[u] = thread[u]
      BY <2>1, <3>1
    <3>4. TakenUpIsOffTheList'
      BY <3>2 DEF TakenUpIsOffTheList, At
    <3>5. ASSUME ~forgotten' PROVE OneOwner'
      <4>1. ~forgotten /\ ~(Cardinality(claimed) > MaxHandled)
        BY <3>1, <3>5, Zenon
      <4>2. handled' = claimed
        BY <3>1, <4>1, Zenon
      <4>3. OneOwner
        BY <4>1 DEF Judging
      <4>4. \A k \in Pairs : Owns(Guard, k)' => k \notin handled /\ k \in handled'
        <5> SUFFICES ASSUME NEW k \in Pairs, Owns(Guard, k)'
                     PROVE  k \notin handled /\ k \in handled'
          OBVIOUS
        <5>1. k = <<k[1], k[2]>>
          BY DEF Pairs
        <5>2. k[1] = p /\ k[2] \in fresh
          BY <3>2 DEF Owns, At
        <5> QED
          BY <4>2, <5>1, <5>2
      <4>5. handled \subseteq handled'
        BY <4>2
      <4> QED
        BY <3>1, <3>3, <4>3, <4>4, <4>5, Handover
    <3> QED
      BY <3>4, <3>5 DEF Judging
  <2>5. ASSUME NEW t \in Threads, Step(t) PROVE Judging'
    BY <2>5, StepJudging
  <2>6. CASE AgentExits \/ AgentIsKilled
    <3>1. /\ thread' = [t \in Threads |-> Idle]
          /\ handled' = {} /\ decided' = [k \in Pairs |-> 0]
      BY <2>6 DEF AgentExits, AgentIsKilled, Ends
    <3>2. \A t \in Threads : thread'[t].pc = "idle"
      BY <3>1 DEF Idle
    <3>3. TakenUpIsOffTheList'
      BY <3>2 DEF TakenUpIsOffTheList, At, Threads
    <3> QED
      BY <3>1, <3>2, <3>3 DEF Judging, OneOwner, Owns
  <2>7. CASE AgentStops \/ AgentStarts \/ UNCHANGED vars
    <3>1. /\ thread' = thread /\ handled' = handled /\ decided' = decided
          /\ forgotten' = forgotten
      BY <2>7 DEF AgentStops, AgentStarts, vars, sharedVars, ghostVars
    <3> QED
      BY <2>2, <3>1
  <2>8. ASSUME NEW p \in Processes, Release(p) \/ ProcessEnds(p) PROVE Judging'
    <3>1. /\ thread' = thread /\ handled' = handled /\ decided' = decided
          /\ forgotten' = forgotten
      BY <2>8 DEF Release, ProcessEnds, sharedVars, ghostVars
    <3> QED
      BY <2>2, <3>1
  <2> QED
    BY <2>3, <2>4, <2>5, <2>6, <2>7, <2>8 DEF Next
<1>3. Judging => JudgedOnce
  BY DEF Judging, OneOwner, JudgedOnce
<1> QED
  BY <1>1, <1>2, <1>3, Typing, PTL DEF Spec

=============================================================================
