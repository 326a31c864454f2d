------------------------ MODULE ActivityGuardProofs ------------------------
(* What holds of the two guards of activity-guard.js. A held message goes   *)
(* out by its verdict and once, for any number of files, gestures, holds    *)
(* and policy changes; and no reply is read before it was judged.           *)
EXTENDS SubmitGuard, ReplyGuard, TLAPS

-----------------------------------------------------------------------------
(* Types.                                                                   *)

FileRec == [place : Places, record : Records, sight : Sights]
LastRec == [age : {"never", "fresh", "recent", "old"}, held : BOOLEAN, failed : BOOLEAN,
            completed : BOOLEAN]
HoldRec == [pc : {"free", "recovering", "waiting", "asked"}, waits : BOOLEAN,
            for : SUBSET Files]
JobRec == [pc : {"none", "asking", "answered", "dead"}, items : SUBSET Items,
           heard : SUBSET Answers, verdict : Answers \cup {"none"}]

FilesOK == file \in [Files -> FileRec]
UserOK ==
    /\ policy \in Policies /\ edits \in 0..MaxEdits /\ open \in BOOLEAN
    /\ gestures \in 0..MaxGestures
    /\ pressed \in [mouse : 0..MaxGestures, key : 0..MaxGestures]
GuardOK == last \in LastRec /\ passed \in SUBSET Gestures /\ failed \in SUBSET Gestures
HoldsOK ==
    /\ holds \in 0..MaxHolds /\ hold \in HoldRec
    /\ outcome \in [Holds -> Outcomes]
    /\ gestureOf \in [Holds -> 0..MaxGestures]
JobsOK == job \in [Holds -> JobRec]

Typed == FilesOK /\ UserOK /\ GuardOK /\ HoldsOK /\ JobsOK

LEMMA TypeParts == TypeOK <=> Typed
  BY Zenon DEF TypeOK, Typed, FilesOK, UserOK, GuardOK, HoldsOK, JobsOK, FileRec, LastRec, HoldRec, JobRec

LEMMA Initially == Init => TypeOK
<1> SUFFICES ASSUME Init PROVE TypeOK
  OBVIOUS
<1> USE SubmitAssumption
<1>1. FilesOK
  BY DEF Init, FilesOK, FileRec, Places, Records, Sights, Tracked
<1>2. UserOK
  BY DEF Init, UserOK, Policies, NoGesture
<1>3. GuardOK
  BY DEF Init, GuardOK, LastRec
<1>4. HoldsOK
  BY DEF Init, HoldsOK, HoldRec, NoHold, Outcomes, NoGesture
<1>5. JobsOK
  BY DEF Init, JobsOK, JobRec, NoJob
<1> QED
  BY <1>1, <1>2, <1>3, <1>4, <1>5, TypeParts DEF Typed

\* What a look leaves of a record.
LEMMA LookType == ASSUME NEW a \in FileRec PROVE Look(a) \in FileRec
<1>1. /\ a.place \in Places /\ a.record \in Records /\ a.sight \in Sights
      /\ [a EXCEPT !.sight = "seen"] \in FileRec
      /\ [a EXCEPT !.sight = "missed"] \in FileRec
      /\ [a EXCEPT !.record = "stray", !.sight = "unseen"] \in FileRec
  BY DEF FileRec, Sights, Records
<1>2. CASE a.record \notin Tracked \/ (a.place # "in" /\ a.sight = "unseen")
  BY <1>1, <1>2 DEF Look
<1>3. CASE a.record \in Tracked /\ a.place = "in"
  BY <1>1, <1>3 DEF Look
<1>4. CASE a.record \in Tracked /\ a.place # "in" /\ a.sight = "seen"
  BY <1>1, <1>4 DEF Look
<1>5. CASE a.record \in Tracked /\ a.place # "in" /\ a.sight = "missed"
  BY <1>1, <1>5 DEF Look
<1> QED
  BY <1>1, <1>2, <1>3, <1>4, <1>5 DEF Sights

LEMMA LookedType ==
    ASSUME NEW fs \in [Files -> FileRec] PROVE Looked(fs) \in [Files -> FileRec]
  BY LookType DEF Looked

LEMMA InSetsOfFiles ==
    ASSUME NEW fs
    PROVE  PendingIn(fs) \subseteq Files /\ TrackedIn(fs) \subseteq Files
           /\ InlineIn(fs) \subseteq Files
  BY DEF PendingIn, TrackedIn, InlineIn

LEMMA LastType ==
    /\ \A b, c \in BOOLEAN :
          [age |-> "fresh", held |-> b, failed |-> c, completed |-> FALSE] \in LastRec
    /\ \A l \in LastRec, b \in BOOLEAN : [l EXCEPT !.completed = b] \in LastRec
    /\ \A l \in LastRec, a \in {"recent", "old"} : [l EXCEPT !.age = a] \in LastRec
  BY DEF LastRec

\* The parts of a gesture's handling.
LEMMA StartHoldType ==
    ASSUME TypeOK, NEW g \in Gestures, StartHold(g), UNCHANGED <<passed, failed, outcome>>
    PROVE  FilesOK' /\ GuardOK' /\ HoldsOK'
<1> USE DEF Holds, Gestures
<1>1. FilesOK /\ GuardOK /\ HoldsOK
  BY TypeParts DEF Typed
<1> DEFINE looked == Looked(file)
<1>2. looked \in [Files -> FileRec]
  BY <1>1, LookedType DEF FilesOK
<1>3. FilesOK'
  <2>1. file' = [f \in Files |-> IF f \in InlineIn(looked)
                                 THEN [looked[f] EXCEPT !.record = "fetching"] ELSE looked[f]]
    BY DEF StartHold
  <2> HIDE DEF looked
  <2>2. \A f \in Files : [looked[f] EXCEPT !.record = "fetching"] \in FileRec
    BY <1>2 DEF FileRec, Records
  <2> QED
    BY <2>1, <2>2, <1>2 DEF FilesOK
<1>4. GuardOK'
  BY <1>1, LastType DEF GuardOK, StartHold
<1>5. hold' \in HoldRec
  <2>1. hold' = [pc |-> "recovering", waits |-> PendingIn(looked) # {}, for |-> {}]
    BY DEF StartHold
  <2> HIDE DEF looked
  <2>2. (PendingIn(looked) # {}) \in BOOLEAN
    OBVIOUS
  <2> DEFINE waits == PendingIn(looked) # {}
  <2> HIDE DEF waits
  <2>3. waits \in BOOLEAN
    BY <2>2 DEF waits
  <2>4. [pc |-> "recovering", waits |-> waits, for |-> {}] \in HoldRec
    BY <2>3 DEF HoldRec
  <2> QED
    BY <2>1, <2>4 DEF waits
<1>6. holds' \in 0..MaxHolds /\ gestureOf' \in [Holds -> 0..MaxGestures]
  BY <1>1, SubmitAssumption DEF HoldsOK, StartHold
<1> QED
  BY <1>1, <1>3, <1>4, <1>5, <1>6 DEF HoldsOK

LEMMA HandleType ==
    ASSUME TypeOK, NEW label \in Labels, NEW g \in Gestures, HandleSubmitAttempt(label, g)
    PROVE  FilesOK' /\ GuardOK' /\ HoldsOK'
<1>1. FilesOK /\ GuardOK /\ HoldsOK
  BY TypeParts DEF Typed
<1>2. UNCHANGED file => FilesOK'
  BY <1>1 DEF FilesOK
<1>3. UNCHANGED holdVars => HoldsOK'
  BY <1>1 DEF HoldsOK, holdVars
<1>4. UNCHANGED <<passed, failed>> \/ Passes(g) \/ PassesUnjudged(g)
         => passed' \in SUBSET Gestures /\ failed' \in SUBSET Gestures
  BY <1>1 DEF GuardOK, Passes, PassesUnjudged
<1>5. CASE UNCHANGED <<last, passed, failed, file, holdVars>>
  BY <1>1, <1>2, <1>3, <1>5 DEF GuardOK
<1>6. CASE Passes(g) /\ UNCHANGED <<last, file, holdVars>>
  BY <1>1, <1>2, <1>3, <1>4, <1>6 DEF GuardOK
<1>7. CASE RepeatEvent(label, g) /\ UNCHANGED <<file, holdVars>>
  <2>1. last.completed \in BOOLEAN
    BY <1>1 DEF GuardOK, LastRec
  <2>2. PICK b \in BOOLEAN : last' = [last EXCEPT !.completed = b]
    BY <1>7, <2>1 DEF RepeatEvent
  <2>3. last' \in LastRec
    BY <2>2, <1>1, LastType DEF GuardOK
  <2>4. passed' \in SUBSET Gestures /\ failed' \in SUBSET Gestures
    BY <1>7, <1>4 DEF RepeatEvent
  <2> QED
    BY <2>3, <2>4, <1>2, <1>3, <1>7 DEF GuardOK
<1>8. CASE LogGesture(g) /\ UNCHANGED holdVars
  <2>1. last' \in LastRec
    BY <1>8, LastType DEF LogGesture
  <2>2. FilesOK'
    BY <1>8, <1>1, LookedType DEF LogGesture, FilesOK
  <2> QED
    BY <2>1, <2>2, <1>3, <1>4, <1>8 DEF GuardOK, LogGesture
<1>9. CASE StartHold(g) /\ UNCHANGED <<passed, failed, outcome>>
  BY <1>9, StartHoldType
<1>10. CASE FailOpen(g) /\ UNCHANGED holdVars
  <2>1. last' \in LastRec
    BY <1>10, LastType DEF FailOpen
  <2>2. FilesOK'
    BY <1>10, <1>1, LookedType DEF FailOpen, FilesOK
  <2> QED
    BY <2>1, <2>2, <1>3, <1>4, <1>10 DEF GuardOK, FailOpen
<1> QED
  BY <1>5, <1>6, <1>7, <1>8, <1>9, <1>10 DEF HandleSubmitAttempt

LEMMA EndHoldType ==
    ASSUME TypeOK, NEW how \in Outcomes, EndHold(how), UNCHANGED <<holds, gestureOf>>
    PROVE  HoldsOK'
<1>1. HoldsOK
  BY TypeParts DEF Typed
<1>2. NoHold \in HoldRec
  BY DEF NoHold, HoldRec
<1> QED
  BY <1>1, <1>2 DEF HoldsOK, EndHold

LEMMA GatherType ==
    ASSUME TypeOK, NEW fresh \in [Files -> FileRec], GatherAgain(fresh),
           UNCHANGED <<holds, gestureOf>>
    PROVE  FilesOK' /\ HoldsOK' /\ JobsOK'
<1>1. FilesOK /\ HoldsOK /\ JobsOK
  BY TypeParts DEF Typed
<1>2. CASE ~open /\ EndHold("closed") /\ UNCHANGED <<file, job>>
  BY <1>1, <1>2, EndHoldType DEF FilesOK, JobsOK, Outcomes
<1>3. CASE file' \in {file, fresh} /\ EndHold("told") /\ UNCHANGED job
  BY <1>1, <1>3, EndHoldType DEF FilesOK, JobsOK, Outcomes
<1>4. CASE /\ file' = fresh /\ UNCHANGED outcome
           /\ hold' = [hold EXCEPT !.pc = "asked"]
           /\ job' = [job EXCEPT ![holds] = [NoJob EXCEPT !.pc = "asking",
                                                 !.items = {Text} \cup TrackedIn(fresh)]]
  <2>1. {Text} \cup TrackedIn(fresh) \in SUBSET Items
    BY InSetsOfFiles DEF Items
  <2> DEFINE items == {Text} \cup TrackedIn(fresh)
             new == [NoJob EXCEPT !.pc = "asking", !.items = items]
  <2> HIDE DEF items
  <2>2. new \in JobRec
    BY <2>1 DEF JobRec, NoJob, items
  <2>3. job' = [job EXCEPT ![holds] = new]
    BY <1>4 DEF items
  <2> HIDE DEF new
  <2>4. JobsOK'
    BY <1>1, <2>2, <2>3 DEF JobsOK
  <2>5. hold' \in HoldRec
    BY <1>1, <1>4 DEF HoldsOK, HoldRec
  <2>6. FilesOK'
    BY <1>4 DEF FilesOK
  <2> QED
    BY <1>1, <1>4, <2>4, <2>5, <2>6 DEF HoldsOK
<1> QED
  BY <1>2, <1>3, <1>4, Zenon DEF GatherAgain

\* A gesture begins, goes on or ends.
LEMMA UserTypes ==
    ASSUME TypeOK, Press \/ PressEnter \/ Release \/ RepeatEnter \/ ReleaseEnter
    PROVE  Typed'
<1> USE DEF NoGesture, Gestures, Labels
<1>1. FilesOK /\ UserOK /\ GuardOK /\ HoldsOK /\ JobsOK
  BY TypeParts DEF Typed
<1>2. UNCHANGED job => JobsOK'
  BY <1>1 DEF JobsOK
<1>3. pressed.mouse \in 0..MaxGestures /\ pressed.key \in 0..MaxGestures
  BY <1>1 DEF UserOK
<1>4. ASSUME NEW label \in {"pointerdown", "keydown"}, Begin(label) PROVE Typed'
  <2>1. gestures + 1 \in Gestures
    BY <1>4, <1>1, SubmitAssumption DEF Begin, UserOK
  <2>2. FilesOK' /\ GuardOK' /\ HoldsOK'
    BY <2>1, <1>4, HandleType DEF Begin
  <2>3. pressed' \in [mouse : 0..MaxGestures, key : 0..MaxGestures]
    BY <2>1, <1>1, <1>4 DEF UserOK, Begin
  <2>4. UserOK' /\ UNCHANGED job
    BY <1>4, <1>1, <2>1, <2>3 DEF Begin, UserOK
  <2> QED
    BY <2>2, <2>4, <1>2 DEF Typed
<1>5. CASE Press \/ PressEnter
  BY <1>4, <1>5 DEF Press, PressEnter
<1>6. CASE Release
  <2>1. FilesOK' /\ GuardOK' /\ HoldsOK'
    BY <1>6, <1>3, HandleType DEF Release
  <2>2. pressed' \in [mouse : 0..MaxGestures, key : 0..MaxGestures]
    BY <1>1, <1>6, SubmitAssumption DEF UserOK, Release
  <2>3. UserOK' /\ UNCHANGED job
    BY <1>6, <1>1, <2>2 DEF Release, UserOK
  <2> QED
    BY <2>1, <2>3, <1>2 DEF Typed
<1>7. CASE RepeatEnter
  <2>1. FilesOK' /\ GuardOK' /\ HoldsOK'
    BY <1>7, <1>3, HandleType DEF RepeatEnter
  <2>2. UserOK' /\ UNCHANGED job
    BY <1>7, <1>1 DEF RepeatEnter, UserOK
  <2> QED
    BY <2>1, <2>2, <1>2 DEF Typed
<1>8. CASE ReleaseEnter
  <2>1. pressed' \in [mouse : 0..MaxGestures, key : 0..MaxGestures]
    BY <1>1, <1>8, SubmitAssumption DEF UserOK, ReleaseEnter
  <2>2. UserOK' /\ GuardOK' /\ HoldsOK' /\ FilesOK' /\ UNCHANGED job
    BY <1>8, <1>1, <2>1 DEF ReleaseEnter, UserOK, GuardOK, HoldsOK, FilesOK, holdVars
  <2> QED
    BY <2>2, <1>2 DEF Typed
<1> QED
  BY <1>5, <1>6, <1>7, <1>8

\* What is attached, and the page it is in.
LEMMA PageTypes ==
    ASSUME TypeOK,
           \/ \E f \in Files : Attachment(f) \/ InspectionEnds(f) \/ FetchEnds(f)
           \/ ComposerCloses \/ PolicyChanges \/ TimePasses
    PROVE  Typed'
<1>1. FilesOK /\ UserOK /\ GuardOK /\ HoldsOK /\ JobsOK
  BY TypeParts DEF Typed
<1>2. UNCHANGED job => JobsOK'
  BY <1>1 DEF JobsOK
<1>3. UNCHANGED holdVars => HoldsOK'
  BY <1>1 DEF HoldsOK, holdVars
<1>4. UNCHANGED file => FilesOK'
  BY <1>1 DEF FilesOK
<1>5. UNCHANGED userVars => UserOK' /\ GuardOK'
  BY <1>1 DEF userVars, UserOK, GuardOK
<1>6. ASSUME NEW f \in Files, Attachment(f) \/ InspectionEnds(f) \/ FetchEnds(f)
      PROVE  Typed'
  <2>1. \A p \in Places, r \in Records :
            /\ [place |-> p, record |-> r, sight |-> "unseen"] \in FileRec
            /\ [file[f] EXCEPT !.place = p] \in FileRec
            /\ [file[f] EXCEPT !.record = r] \in FileRec
    BY <1>1 DEF FilesOK, FileRec, Sights
  <2>2. Tracked \cup {"stray", "inline"} \subseteq Records
        /\ {"in", "removed", "redrawn"} \subseteq Places
    BY DEF Tracked, Records, Places
  <2>3. CASE Attach(f)
    <3>1. PICK r \in Tracked : file' = [file EXCEPT ![f] =
                                  [place |-> "in", record |-> r, sight |-> "unseen"]]
      BY <2>3 DEF Attach
    <3>2. FilesOK'
      BY <3>1, <2>1, <2>2, <1>1 DEF FilesOK
    <3> QED
      BY <3>2, <2>3, <1>2, <1>3, <1>5 DEF Attach, Typed
  <2>4. CASE Appear(f)
    <3>1. PICK r \in {"inline", "stray"} : file' = [file EXCEPT ![f] =
                                  [place |-> "in", record |-> r, sight |-> "unseen"]]
      BY <2>4 DEF Appear
    <3>2. FilesOK'
      BY <3>1, <2>1, <2>2, <1>1 DEF FilesOK
    <3> QED
      BY <3>2, <2>4, <1>2, <1>3, <1>5 DEF Appear, Typed
  <2>5. ASSUME NEW from, NEW to \in {"in", "removed", "redrawn"}, Move(f, from, to)
        PROVE  Typed'
    <3>1. FilesOK'
      BY <2>5, <2>1, <2>2, <1>1 DEF FilesOK, Move
    <3> QED
      BY <3>1, <2>5, <1>2, <1>3, <1>5 DEF Move, Typed
  <2>6. CASE InspectionEnds(f)
    <3>1. FilesOK'
      BY <2>6, <2>1, <2>2, <1>1 DEF FilesOK, InspectionEnds, Tracked
    <3> QED
      BY <3>1, <2>6, <1>2, <1>3, <1>5 DEF InspectionEnds, Typed
  <2>7. CASE FetchEnds(f)
    <3>1. PICK r \in Tracked \cup {"stray"} : file' = [file EXCEPT ![f].record = r]
      BY <2>7 DEF FetchEnds
    <3>2. FilesOK'
      BY <3>1, <2>1, <2>2, <1>1 DEF FilesOK
    <3> QED
      BY <3>2, <2>7, <1>2, <1>3, <1>5 DEF FetchEnds, Typed
  <2> QED
    BY <1>6, <2>3, <2>4, <2>5, <2>6, <2>7 DEF Attachment
<1>7. CASE ComposerCloses
  BY <1>7, <1>1, <1>2, <1>3, <1>4 DEF ComposerCloses, UserOK, GuardOK, Typed
<1>8. CASE PolicyChanges
  <2>1. policy' \in Policies /\ edits' \in 0..MaxEdits
    BY <1>8, <1>1, SubmitAssumption DEF PolicyChanges, UserOK
  <2> QED
    BY <2>1, <1>8, <1>1, <1>2, <1>3, <1>4 DEF PolicyChanges, UserOK, GuardOK, Typed
<1>9. CASE TimePasses
  <2>1. last' \in LastRec
    BY <1>9, <1>1, LastType DEF TimePasses, GuardOK
  <2> QED
    BY <2>1, <1>9, <1>1, <1>2, <1>3, <1>4 DEF TimePasses, UserOK, GuardOK, Typed
<1> QED
  BY <1>6, <1>7, <1>8, <1>9

\* The hold goes on or ends.
LEMMA GuardTypes ==
    ASSUME TypeOK,
           Recovered \/ InspectionsSettle \/ WaitExpires \/ VerdictArrives \/ VerdictTimeout
    PROVE  Typed'
<1>1. FilesOK /\ UserOK /\ GuardOK /\ HoldsOK /\ JobsOK
  BY TypeParts DEF Typed
<1>2. UNCHANGED userVars => UserOK' /\ GuardOK'
  BY <1>1 DEF userVars, UserOK, GuardOK
<1>3. /\ Looked(file) \in [Files -> FileRec]
      /\ Looked(Looked(file)) \in [Files -> FileRec]
  BY <1>1, LookedType DEF FilesOK
<1>4. ASSUME NEW fresh \in [Files -> FileRec], GatherAgain(fresh),
             UNCHANGED <<userVars, holds, gestureOf>>
      PROVE  Typed'
  BY <1>4, <1>2, GatherType DEF Typed
<1>5. ASSUME NEW how \in Outcomes, EndHold(how),
             UNCHANGED <<userVars, file, holds, gestureOf, job>>
      PROVE  Typed'
  BY <1>5, <1>1, <1>2, EndHoldType DEF Typed, FilesOK, JobsOK
<1>6. CASE Recovered
  <2>1. CASE /\ hold' = [hold EXCEPT !.pc = "waiting",
                                  !.for = {f \in Files : file[f].record = "pending"}]
             /\ UNCHANGED <<file, job, outcome>>
    <3> DEFINE for == {f \in Files : file[f].record = "pending"}
    <3>1. for \in SUBSET Files /\ hold' = [hold EXCEPT !.pc = "waiting", !.for = for]
      BY <2>1
    <3> HIDE DEF for
    <3>2. hold' \in HoldRec
      BY <3>1, <1>1 DEF HoldsOK, HoldRec
    <3>3. FilesOK' /\ JobsOK' /\ HoldsOK'
      BY <3>2, <2>1, <1>1, <1>6 DEF Recovered, FilesOK, JobsOK, HoldsOK
    <3> QED
      BY <3>3, <1>2, <1>6 DEF Recovered, Typed
  <2>2. CASE GatherAgain(Looked(file))
    BY <2>2, <1>3, <1>4, <1>6 DEF Recovered
  <2> QED
    BY <2>1, <2>2, <1>6 DEF Recovered
<1>7. CASE InspectionsSettle \/ WaitExpires
  BY <1>3, <1>4, <1>7 DEF InspectionsSettle, WaitExpires
<1>8. CASE VerdictArrives
  <2>1. PICK how \in {"resumed", "overruled", "masked", "closed", "told"} : EndHold(how)
    BY <1>8, Zenon DEF VerdictArrives, Resume
  <2> QED
    BY <2>1, <1>5, <1>8 DEF VerdictArrives, Outcomes
<1>9. CASE VerdictTimeout
  BY <1>5, <1>9 DEF VerdictTimeout, Outcomes
<1> QED
  BY <1>6, <1>7, <1>8, <1>9

\* What the worker may answer.
LEMMA CombinedType ==
    ASSUME NEW items, NEW heard, NEW verdict \in Combined(items, heard)
    PROVE  /\ verdict \in Answers
           /\ verdict = "mask" => items = {Text}
           /\ verdict = "allow" => "block" \notin heard /\ "mask" \notin heard
<1>1. CASE heard = {}
  BY <1>1 DEF Combined, Answers
<1>2. CASE "block" \in heard
  BY <1>2 DEF Combined, Answers
<1>3. CASE "mask" \in heard /\ "block" \notin heard
  BY <1>3 DEF Combined, Answers
<1>4. CASE heard # {} /\ "mask" \notin heard /\ "block" \notin heard
  <2>1. verdict \in {"allow"}
    BY <1>4 DEF Combined
  <2> QED
    BY <2>1, <1>4 DEF Answers
<1> QED
  BY <1>1, <1>2, <1>3, <1>4

\* The evaluation of one request, as a step of its record.
LEMMA OneEvaluated ==
    ASSUME JobsOK, NEW n \in Holds, EvaluateActivity(n)
    PROVE  \E heard \in SUBSET Answers : \E verdict \in Combined(job[n].items, heard) :
              job' = [job EXCEPT ![n] = [@ EXCEPT !.pc = "answered", !.heard = heard,
                                                  !.verdict = verdict]]
<1>1. PICK answer \in [job[n].items -> Answers \cup {"none"}] :
        LET heard == {answer[i] : i \in job[n].items} \ {"none"} IN
        \E verdict \in Combined(job[n].items, heard) :
            job' = [job EXCEPT ![n] = [@ EXCEPT !.pc = "answered", !.heard = heard,
                                                !.verdict = verdict]]
  BY Zenon DEF EvaluateActivity
<1> DEFINE heard == {answer[i] : i \in job[n].items} \ {"none"}
<1>2. \A i \in job[n].items : answer[i] \in Answers \cup {"none"}
  OBVIOUS
<1>3. heard \in SUBSET Answers
  BY <1>2
<1> QED
  BY <1>1, <1>3, Zenon

\* A job with its answer is a job.
LEMMA AnsweredType ==
    ASSUME NEW j \in JobRec, NEW heard \in SUBSET Answers, NEW verdict \in Answers
    PROVE  [j EXCEPT !.pc = "answered", !.heard = heard, !.verdict = verdict] \in JobRec
  BY DEF JobRec

LEMMA WorkerTypes ==
    ASSUME TypeOK, (\E n \in Holds : Evaluation(n)) \/ WorkerStops
    PROVE  Typed'
<1>1. FilesOK /\ UserOK /\ GuardOK /\ HoldsOK /\ JobsOK
  BY TypeParts DEF Typed
<1>2. UNCHANGED <<userVars, file, holdVars>> => FilesOK' /\ UserOK' /\ GuardOK' /\ HoldsOK'
  BY <1>1 DEF userVars, holdVars, FilesOK, UserOK, GuardOK, HoldsOK
<1>3. ASSUME NEW n \in Holds, EvaluateActivity(n) PROVE Typed'
  <2> PICK heard \in SUBSET Answers : \E verdict \in Combined(job[n].items, heard) :
            job' = [job EXCEPT ![n] = [@ EXCEPT !.pc = "answered", !.heard = heard,
                                                !.verdict = verdict]]
    BY <1>3, <1>1, OneEvaluated
  <2> PICK verdict \in Combined(job[n].items, heard) :
            job' = [job EXCEPT ![n] = [@ EXCEPT !.pc = "answered", !.heard = heard,
                                                !.verdict = verdict]]
    OBVIOUS
  <2>1. verdict \in Answers
    BY CombinedType
  <2>2. [job[n] EXCEPT !.pc = "answered", !.heard = heard, !.verdict = verdict] \in JobRec
    <3>1. job[n] \in JobRec
      BY <1>1 DEF JobsOK
    <3> QED
      BY <3>1, <2>1, AnsweredType
  <2>3. JobsOK'
    BY <2>2, <1>1 DEF JobsOK
  <2> QED
    BY <2>3, <1>2, <1>3 DEF EvaluateActivity, Typed
<1>4. ASSUME NEW n \in Holds, EvaluationFails(n) PROVE Typed'
  <2>1. [job[n] EXCEPT !.pc = "answered", !.verdict = "allow"] \in JobRec
    BY <1>1 DEF JobsOK, JobRec, Answers
  <2>2. JobsOK'
    BY <2>1, <1>1, <1>4 DEF JobsOK, EvaluationFails
  <2> QED
    BY <2>2, <1>2, <1>4 DEF EvaluationFails, Typed
<1>5. CASE WorkerStops
  <2>1. \A n \in Holds : [job[n] EXCEPT !.pc = "dead"] \in JobRec
    BY <1>1 DEF JobsOK, JobRec
  <2>2. JobsOK'
    BY <2>1, <1>1, <1>5 DEF JobsOK, WorkerStops
  <2> QED
    BY <2>2, <1>2, <1>5 DEF WorkerStops, Typed
<1> QED
  BY <1>3, <1>4, <1>5 DEF Evaluation

LEMMA TypeStep == TypeOK /\ [Next]_vars => Typed'
<1> SUFFICES ASSUME TypeOK, [Next]_vars PROVE Typed'
  OBVIOUS
<1>1. CASE User
  BY <1>1, UserTypes, PageTypes DEF User
<1>2. CASE TimePasses \/ PolicyChanges \/ \E f \in Files : InspectionEnds(f)
  BY <1>2, PageTypes
<1>3. CASE Guard
  BY <1>3, PageTypes, GuardTypes DEF Guard
<1>4. CASE (\E n \in Holds : Evaluation(n)) \/ WorkerStops
  BY <1>4, WorkerTypes
<1>5. CASE UNCHANGED vars
  BY <1>5, TypeParts DEF vars, userVars, holdVars, Typed, FilesOK, UserOK, GuardOK, HoldsOK, JobsOK
<1> QED
  BY <1>1, <1>2, <1>3, <1>4, <1>5 DEF Next

\* Every variable keeps its type.
THEOREM TypeCorrect == Spec => []TypeOK
<1>1. TypeOK /\ [Next]_vars => TypeOK'
  <2>1. TypeOK /\ [Next]_vars => Typed'
    BY TypeStep
  <2>2. (TypeOK <=> Typed)'
    BY TypeParts, PTL
  <2> QED
    BY <2>1, <2>2
<1> QED
  BY Initially, <1>1, PTL DEF Spec

-----------------------------------------------------------------------------
(* The inductive invariant.                                                 *)

Begun == 1..holds

\* The hold that is under way has not ended, and its gesture is the one that
\* the button's last verdict is about.
HoldIsLast ==
    /\ Held => /\ holds \in Holds /\ outcome[holds] = "none"
               /\ last.held /\ last.age # "never"
    /\ hold.pc \in {"recovering", "waiting"} => job[holds].pc = "none"

\* Of the holds to come there is no trace.
NoneAhead ==
    \A n \in Holds : n > holds =>
        outcome[n] = "none" /\ gestureOf[n] = NoGesture /\ job[n].pc = "none"

\* What the worker answered for one request.
AnswerInv(j) ==
    /\ j.pc = "answered" /\ j.verdict = "allow" => j.heard \subseteq {"allow"}
    /\ j.pc = "answered" /\ j.verdict = "mask" => j.items = {Text}
    /\ j.pc = "asking" => j.heard = {}

\* A message that went out had its answer.
SentInv(j, how) ==
    /\ how = "resumed" => j.pc = "answered" /\ j.heard \subseteq {"allow"}
    /\ how = "masked" => j.pc = "answered" /\ j.items = {Text}

VerdictInv == \A n \in Holds : AnswerInv(job[n]) /\ SentInv(job[n], outcome[n])

\* The gestures that were held, and the others: each is held once or passed.
GestureInv ==
    /\ \A n \in Begun : gestureOf[n] \in 1..gestures /\ gestureOf[n] \notin passed
    /\ \A m, n \in Begun : gestureOf[m] = gestureOf[n] => m = n
    /\ passed \subseteq 1..gestures /\ failed \subseteq passed

\* The gesture of the button that is down, or of the key.
PressInv ==
    /\ pressed.mouse <= gestures /\ pressed.key <= gestures
    /\ pressed.mouse = NoGesture \/ pressed.key = NoGesture

\* If it was held, the button's last verdict says so and is in force.
HeldPress ==
    \A n \in Begun :
        /\ gestureOf[n] = pressed.mouse =>
            /\ Holding /\ last.held /\ ~last.completed /\ last.age \in {"fresh", "recent"}
        /\ gestureOf[n] = pressed.key => Holding /\ last.held /\ last.age # "never"

\* If it passed, there is no policy or a last verdict to follow, which is not
\* one that failed if the gesture did not.
PassedPress ==
    /\ pressed.mouse \in passed =>
        \/ policy = "allow"
        \/ /\ ~last.completed /\ last.age \in {"fresh", "recent"}
           /\ last.failed => pressed.mouse \in failed
    /\ pressed.key \in passed =>
        \/ policy = "allow"
        \/ last.age # "never" /\ (last.failed => pressed.key \in failed)

\* Under a policy that held from the start.
HeldThroughout ==
    edits = 0 /\ Holding =>
        passed \subseteq failed /\ (last.age # "never" => last.held \/ last.failed)

IInv ==
    /\ HoldIsLast /\ NoneAhead /\ VerdictInv
    /\ GestureInv /\ PressInv /\ HeldPress /\ PassedPress /\ HeldThroughout

-----------------------------------------------------------------------------
(* The holds and their verdicts.                                            *)

HoldInv == HoldIsLast /\ NoneAhead /\ VerdictInv

\* The facts of an integer range that the steps use.
LEMMA HoldsNumbered ==
    ASSUME TypeOK
    PROVE  /\ holds \in Nat /\ gestures \in Nat
           /\ Holds \subseteq Nat
           /\ holds < MaxHolds => holds + 1 \in Holds
           /\ \A n \in Begun : n \in Holds
           /\ \A n \in Holds : n \in Begun <=> n <= holds
  BY SubmitAssumption DEF TypeOK, Holds, Begun

LEMMA HoldInvQuiet ==
    ASSUME HoldInv, UNCHANGED <<holdVars, job>>,
           last'.held = last.held, last.age # "never" => last'.age # "never"
    PROVE  HoldInv'
<1>1. hold' = hold /\ holds' = holds /\ outcome' = outcome /\ gestureOf' = gestureOf /\ job' = job
  BY DEF holdVars
<1>2. HoldIsLast'
  BY <1>1, Zenon DEF HoldInv, HoldIsLast, Held
<1>3. NoneAhead' /\ VerdictInv'
  BY <1>1 DEF HoldInv, NoneAhead, VerdictInv
<1> QED
  BY <1>2, <1>3 DEF HoldInv

LEMMA StartHoldInv ==
    ASSUME TypeOK, HoldInv, NEW g, StartHold(g), UNCHANGED <<outcome, job>>
    PROVE  HoldInv'
<1>1. holds + 1 \in Holds /\ holds + 1 > holds /\ holds \in Nat
  BY HoldsNumbered DEF StartHold
<1>2. /\ holds' = holds + 1 /\ hold'.pc = "recovering"
      /\ last'.held /\ last'.age = "fresh"
  BY DEF StartHold
<1>3. outcome[holds + 1] = "none" /\ job[holds + 1].pc = "none"
  BY <1>1 DEF HoldInv, NoneAhead
<1>4. HoldIsLast'
  BY <1>1, <1>2, <1>3 DEF HoldIsLast, Held
<1>5. \A n \in Holds : n > holds' => n > holds /\ gestureOf'[n] = gestureOf[n]
  <2>1. \A n \in Holds : n > holds + 1 => n > holds /\ n # holds + 1
    BY <1>1, HoldsNumbered
  <2>2. gestureOf' = [gestureOf EXCEPT ![holds + 1] = g] /\ gestureOf \in [Holds -> 0..MaxGestures]
    BY DEF StartHold, TypeOK
  <2> QED
    BY <2>1, <2>2, <1>2
<1>6. NoneAhead'
  BY <1>5 DEF HoldInv, NoneAhead
<1>7. VerdictInv'
  BY DEF HoldInv, VerdictInv
<1> QED
  BY <1>4, <1>6, <1>7 DEF HoldInv

LEMMA HandleHoldInv ==
    ASSUME TypeOK, HoldInv, NEW label, NEW g, HandleSubmitAttempt(label, g), UNCHANGED job
    PROVE  HoldInv'
<1>1. CASE UNCHANGED <<last, holdVars>>
  BY <1>1, HoldInvQuiet
<1>2. CASE RepeatEvent(label, g) /\ UNCHANGED holdVars
  <2>1. last'.held = last.held /\ last'.age = last.age
    <3>1. last \in LastRec
      BY DEF TypeOK, LastRec
    <3>2. PICK b : last' = [last EXCEPT !.completed = b]
      BY <1>2 DEF RepeatEvent
    <3> QED
      BY <3>1, <3>2 DEF LastRec
  <2> QED
    BY <2>1, <1>2, HoldInvQuiet
<1>3. CASE ~Held /\ UNCHANGED holdVars
  <2>1. hold' = hold /\ holds' = holds /\ outcome' = outcome /\ gestureOf' = gestureOf
    BY <1>3 DEF holdVars
  <2>2. HoldIsLast'
    BY <2>1, <1>3 DEF HoldIsLast, Held
  <2>3. NoneAhead' /\ VerdictInv'
    BY <2>1 DEF HoldInv, NoneAhead, VerdictInv
  <2> QED
    BY <2>2, <2>3 DEF HoldInv
<1>4. CASE StartHold(g) /\ UNCHANGED outcome
  BY <1>4, StartHoldInv
<1> QED
  BY <1>1, <1>2, <1>3, <1>4 DEF HandleSubmitAttempt

\* A hold ends, and sends only what its verdict allows.
LEMMA EndHoldInv ==
    ASSUME TypeOK, HoldInv, Held, NEW how, EndHold(how), UNCHANGED <<holds, gestureOf, job>>,
           SentInv(job[holds], how)
    PROVE  HoldInv'
<1>1. /\ hold' = NoHold /\ outcome' = [outcome EXCEPT ![holds] = how]
      /\ outcome \in [Holds -> Outcomes]
  BY DEF EndHold, TypeOK
<1>2. HoldIsLast'
  BY <1>1 DEF HoldIsLast, Held, NoHold
<1>3. \A n \in Holds : n # holds => outcome'[n] = outcome[n]
  BY <1>1
<1>4. NoneAhead'
  <2>1. \A n \in Holds : n > holds => n # holds
    BY HoldsNumbered
  <2> QED
    BY <2>1, <1>3 DEF HoldInv, NoneAhead
<1>5. ASSUME NEW n \in Holds PROVE AnswerInv(job[n]) /\ SentInv(job[n], outcome'[n])
  <2>1. CASE n = holds
    <3>1. outcome'[n] = how
      BY <1>1, <2>1
    <3> QED
      BY <3>1, <2>1 DEF HoldInv, VerdictInv
  <2>2. CASE n # holds
    BY <2>2, <1>3 DEF HoldInv, VerdictInv
  <2> QED
    BY <2>1, <2>2
<1>6. VerdictInv'
  BY <1>5 DEF VerdictInv
<1> QED
  BY <1>2, <1>4, <1>6 DEF HoldInv

\* One request of the worker takes the next step of its record.
LEMMA JobInv ==
    ASSUME HoldInv, NEW n \in Holds, NEW j, job' = [job EXCEPT ![n] = j],
           job \in [Holds -> JobRec],
           UNCHANGED <<last, holdVars>>,
           job[n].pc = "asking", AnswerInv(j)
    PROVE  HoldInv'
<1>1. hold' = hold /\ holds' = holds /\ outcome' = outcome /\ gestureOf' = gestureOf
      /\ last' = last
  BY DEF holdVars
<1>2. job'[n] = j /\ \A m \in Holds : m # n => job'[m] = job[m]
  OBVIOUS
<1>3. HoldIsLast'
  <2>1. Held' <=> Held
    BY <1>1 DEF Held
  <2>2. hold.pc \in {"recovering", "waiting"} =>
            holds \in Holds /\ holds # n /\ job[holds].pc = "none"
    BY DEF HoldInv, HoldIsLast, Held
  <2> QED
    BY <2>1, <2>2, <1>1, <1>2 DEF HoldInv, HoldIsLast
<1>4. NoneAhead'
  BY <1>1, <1>2 DEF HoldInv, NoneAhead
<1>5. SentInv(job[n], outcome[n]) => SentInv(j, outcome[n])
  BY DEF SentInv
<1>6. VerdictInv'
  BY <1>1, <1>2, <1>5 DEF HoldInv, VerdictInv
<1> QED
  BY <1>3, <1>4, <1>6 DEF HoldInv

LEMMA WorkerHoldInv ==
    ASSUME TypeOK, HoldInv, (\E n \in Holds : Evaluation(n)) \/ WorkerStops
    PROVE  HoldInv'
<1>1. job \in [Holds -> JobRec]
  BY DEF TypeOK, JobRec
<1>2. ASSUME NEW n \in Holds, EvaluateActivity(n) PROVE HoldInv'
  <2> PICK heard \in SUBSET Answers : \E verdict \in Combined(job[n].items, heard) :
            job' = [job EXCEPT ![n] = [@ EXCEPT !.pc = "answered", !.heard = heard,
                                                !.verdict = verdict]]
    BY <1>1, <1>2, OneEvaluated DEF JobsOK
  <2> PICK verdict \in Combined(job[n].items, heard) :
            job' = [job EXCEPT ![n] = [@ EXCEPT !.pc = "answered", !.heard = heard,
                                                !.verdict = verdict]]
    OBVIOUS
  <2> DEFINE j == [job[n] EXCEPT !.pc = "answered", !.heard = heard, !.verdict = verdict]
  <2>1. /\ verdict = "mask" => job[n].items = {Text}
        /\ verdict = "allow" => heard \subseteq {"allow"}
    BY CombinedType DEF Answers
  <2>2. /\ j.pc = "answered" /\ j.verdict = verdict /\ j.heard = heard
        /\ j.items = job[n].items
    BY <1>1 DEF JobRec
  <2>3. job' = [job EXCEPT ![n] = j]
    OBVIOUS
  <2> HIDE DEF j
  <2>4. AnswerInv(j)
    BY <2>1, <2>2 DEF AnswerInv
  <2> QED
    BY <2>3, <2>4, <1>1, <1>2, JobInv DEF EvaluateActivity, userVars
<1>3. ASSUME NEW n \in Holds, EvaluationFails(n) PROVE HoldInv'
  <2> DEFINE j == [job[n] EXCEPT !.pc = "answered", !.verdict = "allow"]
  <2>1. job[n].heard = {}
    BY <1>3 DEF EvaluationFails, HoldInv, VerdictInv, AnswerInv
  <2>2. j.pc = "answered" /\ j.verdict = "allow" /\ j.heard = {}
    BY <1>1, <2>1 DEF JobRec
  <2>3. job' = [job EXCEPT ![n] = j]
    BY <1>3 DEF EvaluationFails
  <2> HIDE DEF j
  <2>4. AnswerInv(j)
    BY <2>2 DEF AnswerInv
  <2> QED
    BY <2>3, <2>4, <1>1, <1>3, JobInv DEF EvaluationFails, userVars
<1>4. CASE WorkerStops
  <2>1. hold' = hold /\ holds' = holds /\ outcome' = outcome /\ gestureOf' = gestureOf
        /\ last' = last
    BY <1>4 DEF WorkerStops, holdVars, userVars
  <2>2. \A n \in Holds : IF job[n].pc = "asking" THEN job'[n].pc = "dead"
                                                ELSE job'[n] = job[n]
    <3>1. \A n \in Holds : [job[n] EXCEPT !.pc = "dead"].pc = "dead"
      BY <1>1 DEF JobRec
    <3> QED
      BY <3>1, <1>4 DEF WorkerStops
  <2>3. HoldIsLast'
    <3>1. Held' <=> Held
      BY <2>1 DEF Held
    <3>2. hold.pc \in {"recovering", "waiting"} => holds \in Holds /\ job[holds].pc = "none"
      BY DEF HoldInv, HoldIsLast, Held
    <3> QED
      BY <3>1, <3>2, <2>1, <2>2 DEF HoldInv, HoldIsLast
  <2>4. NoneAhead'
    BY <2>1, <2>2 DEF HoldInv, NoneAhead
  <2>5. ASSUME NEW n \in Holds PROVE AnswerInv(job'[n]) /\ SentInv(job'[n], outcome'[n])
    <3>1. AnswerInv(job[n]) /\ SentInv(job[n], outcome[n])
      BY DEF HoldInv, VerdictInv
    <3>2. CASE job[n].pc = "asking"
      BY <3>1, <3>2, <2>1, <2>2 DEF AnswerInv, SentInv
    <3>3. CASE job[n].pc # "asking"
      BY <3>1, <3>3, <2>1, <2>2
    <3> QED
      BY <3>2, <3>3
  <2>6. VerdictInv'
    BY <2>5 DEF VerdictInv
  <2> QED
    BY <2>3, <2>4, <2>6 DEF HoldInv
<1> QED
  BY <1>2, <1>3, <1>4 DEF Evaluation

\* What is gathered is told, handed to the worker, or of no use any more.
LEMMA GatherInv ==
    ASSUME TypeOK, HoldInv, hold.pc \in {"recovering", "waiting"}, NEW fresh,
           GatherAgain(fresh), UNCHANGED <<last, holds, gestureOf>>
    PROVE  HoldInv'
<1>1. Held /\ holds \in Holds /\ outcome[holds] = "none" /\ last.held /\ last.age # "never"
  BY DEF HoldInv, HoldIsLast, Held
<1>2. CASE UNCHANGED job /\ (EndHold("closed") \/ EndHold("told"))
  <2>1. SentInv(job[holds], "closed") /\ SentInv(job[holds], "told")
    BY DEF SentInv
  <2> QED
    BY <1>1, <1>2, <2>1, EndHoldInv
<1>3. CASE /\ UNCHANGED outcome
           /\ hold' = [hold EXCEPT !.pc = "asked"]
           /\ job' = [job EXCEPT ![holds] = [NoJob EXCEPT !.pc = "asking",
                                                 !.items = {Text} \cup TrackedIn(fresh)]]
  <2> DEFINE new == [NoJob EXCEPT !.pc = "asking", !.items = {Text} \cup TrackedIn(fresh)]
  <2>1. new.pc = "asking" /\ new.heard = {}
    BY DEF NoJob
  <2>2. job' = [job EXCEPT ![holds] = new]
    BY <1>3
  <2> HIDE DEF new
  <2>3. job'[holds] = new /\ \A n \in Holds : n # holds => job'[n] = job[n]
    BY <1>1, <2>2 DEF TypeOK
  <2>4. hold'.pc = "asked"
    BY <1>3 DEF TypeOK
  <2>5. HoldIsLast'
    BY <1>1, <1>3, <2>4 DEF HoldIsLast
  <2>6. NoneAhead'
    <3>1. \A n \in Holds : n > holds => n # holds
      BY HoldsNumbered
    <3> QED
      BY <3>1, <2>3, <1>3 DEF HoldInv, NoneAhead
  <2>7. AnswerInv(new) /\ SentInv(new, "none")
    BY <2>1 DEF AnswerInv, SentInv
  <2>8. VerdictInv'
    BY <2>3, <2>7, <1>1, <1>3 DEF HoldInv, VerdictInv
  <2> QED
    BY <2>5, <2>6, <2>8 DEF HoldInv
<1> QED
  BY <1>2, <1>3, Zenon DEF GatherAgain

LEMMA GuardHoldInv ==
    ASSUME TypeOK, HoldInv,
           Recovered \/ InspectionsSettle \/ WaitExpires \/ VerdictArrives \/ VerdictTimeout
    PROVE  HoldInv'
<1>1. UNCHANGED userVars => UNCHANGED last
  BY DEF userVars
<1>2. ASSUME NEW fresh, hold.pc \in {"recovering", "waiting"}, GatherAgain(fresh),
             UNCHANGED <<userVars, holds, gestureOf>>
      PROVE  HoldInv'
  BY <1>1, <1>2, GatherInv
<1>3. CASE Recovered
  <2>1. CASE /\ hold' = [hold EXCEPT !.pc = "waiting",
                                  !.for = {f \in Files : file[f].record = "pending"}]
             /\ UNCHANGED <<file, job, outcome>>
    <3>1. hold'.pc = "waiting"
      BY <2>1 DEF TypeOK
    <3>2. /\ UNCHANGED <<holds, gestureOf, outcome, job, last>>
          /\ hold.pc = "recovering"
      BY <2>1, <1>1, <1>3 DEF Recovered
    <3>3. HoldIsLast'
      BY <3>1, <3>2 DEF HoldInv, HoldIsLast, Held
    <3>4. NoneAhead' /\ VerdictInv'
      BY <3>2 DEF HoldInv, NoneAhead, VerdictInv
    <3> QED
      BY <3>3, <3>4 DEF HoldInv
  <2>2. CASE GatherAgain(Looked(file))
    BY <2>2, <1>2, <1>3 DEF Recovered
  <2> QED
    BY <2>1, <2>2, <1>3 DEF Recovered
<1>4. CASE InspectionsSettle \/ WaitExpires
  BY <1>2, <1>4 DEF InspectionsSettle, WaitExpires
<1>5. CASE VerdictTimeout
  <2>1. SentInv(job[holds], "told") /\ Held
    BY <1>5 DEF SentInv, VerdictTimeout, Held
  <2> QED
    BY <2>1, <1>5, EndHoldInv DEF VerdictTimeout
<1>6. CASE VerdictArrives
  <2>1. Held /\ holds \in Holds /\ job[holds].pc = "answered" /\ AnswerInv(job[holds])
    BY <1>6 DEF VerdictArrives, HoldInv, HoldIsLast, Held, VerdictInv
  <2>2. \A how \in {"overruled", "told", "closed"} : SentInv(job[holds], how)
    BY DEF SentInv
  <2>3. job[holds].verdict = "allow" => SentInv(job[holds], "resumed")
    BY <2>1 DEF SentInv, AnswerInv
  <2>4. job[holds].verdict = "mask" => SentInv(job[holds], "masked")
    BY <2>1 DEF SentInv, AnswerInv
  <2>5. PICK how : EndHold(how) /\ SentInv(job[holds], how)
    <3>1. ASSUME NEW h, Resume(h), SentInv(job[holds], h)
          PROVE  \E how : EndHold(how) /\ SentInv(job[holds], how)
      <4>1. CASE open
        BY <3>1, <4>1 DEF Resume
      <4>2. CASE ~open
        BY <3>1, <4>2, <2>2 DEF Resume
      <4> QED
        BY <4>1, <4>2
    <3> QED
      BY <3>1, <2>2, <2>3, <2>4, <1>6, Zenon DEF VerdictArrives
  <2> QED
    BY <2>1, <2>5, <1>6, EndHoldInv DEF VerdictArrives
<1> QED
  BY <1>3, <1>4, <1>5, <1>6

-----------------------------------------------------------------------------
(* The gestures.                                                            *)

PolicyVars == <<policy, edits>>

\* Gesture g was neither held nor passed.
Unused(g) == g \notin passed /\ \A n \in Begun : gestureOf[n] # g

\* The handling of such an event lets the application have it.
LetsPass(label) ==
    \/ policy = "allow"
    \/ policy = "log" /\ ~ReusesVerdict(label)
    \/ ReusesVerdict(label) /\ ~last.held

\* What the application gets of g does not make it one that failed late.
FailsAtOnce(label, g) ==
    g \in passed /\ g \notin failed =>
        policy = "allow" \/ (ReusesVerdict(label) /\ ~last.failed)

LEMMA RepeatLast ==
    ASSUME TypeOK, NEW label, NEW g, RepeatEvent(label, g)
    PROVE  /\ last'.held = last.held /\ last'.age = last.age /\ last'.failed = last.failed
           /\ label # "click" => last' = last
<1>1. last \in LastRec
  BY DEF TypeOK, LastRec
<1>2. last' = [last EXCEPT !.completed = @ \/ label = "click"]
  BY DEF RepeatEvent
<1>3. last'.held = last.held /\ last'.age = last.age /\ last'.failed = last.failed
  BY <1>1, <1>2 DEF LastRec
<1>4. ASSUME label # "click" PROVE last' = last
  <2>1. (last.completed \/ label = "click") <=> last.completed
    BY <1>4
  <2>2. last.completed \in BOOLEAN
    BY <1>1 DEF LastRec
  <2>3. (last.completed \/ label = "click") = last.completed
    BY <2>1, <2>2, Zenon
  <2>4. last' = [last EXCEPT !.completed = last.completed]
    BY <1>2, <2>3, Zenon
  <2> QED
    BY <2>4, <1>1 DEF LastRec
<1> QED
  BY <1>3, <1>4

\* A gesture is held at its first event under a policy that holds, and passes
\* when it is not held.
LEMMA HandleGesture ==
    ASSUME TypeOK, GestureInv, NEW label, NEW g, HandleSubmitAttempt(label, g),
           g \in 1..gestures', gestures' \in Nat, gestures <= gestures',
           Holding /\ ~ReusesVerdict(label) => Unused(g),
           LetsPass(label) => \A n \in Begun : gestureOf[n] # g
    PROVE  GestureInv'
<1> USE HoldsNumbered
<1>1. 1..gestures \subseteq 1..gestures'
  OBVIOUS
<1>2. CASE UNCHANGED <<passed, failed, holdVars>>
  <2>1. Begun' = Begun /\ gestureOf' = gestureOf /\ passed' = passed /\ failed' = failed
    BY <1>2 DEF Begun, holdVars
  <2> QED
    BY <1>1, <2>1 DEF GestureInv
<1>3. CASE /\ Passes(g) \/ PassesUnjudged(g)
           /\ UNCHANGED holdVars
           /\ \A n \in Begun : gestureOf[n] # g
  <2>1. /\ Begun' = Begun /\ gestureOf' = gestureOf /\ passed' = passed \cup {g}
        /\ failed' \subseteq failed \cup {g}
    BY <1>3 DEF Begun, holdVars, Passes, PassesUnjudged
  <2> QED
    BY <1>1, <1>3, <2>1 DEF GestureInv
<1>4. CASE RepeatEvent(label, g) /\ ReusesVerdict(label) /\ UNCHANGED holdVars
  <2>1. \/ UNCHANGED <<passed, failed>>
        \/ ~last.held /\ (Passes(g) \/ PassesUnjudged(g))
    BY <1>4 DEF RepeatEvent
  <2>2. ~last.held => \A n \in Begun : gestureOf[n] # g
    BY <1>4 DEF LetsPass
  <2> QED
    BY <1>2, <1>3, <1>4, <2>1, <2>2
<1>5. CASE LogGesture(g) /\ policy = "log" /\ ~ReusesVerdict(label) /\ UNCHANGED holdVars
  BY <1>3, <1>5 DEF LogGesture, LetsPass
<1>6. CASE StartHold(g) /\ Holding /\ ~ReusesVerdict(label) /\ UNCHANGED <<passed, failed>>
  <2>1. Unused(g)
    BY <1>6
  <2>2. holds' = holds + 1 /\ gestureOf' = [gestureOf EXCEPT ![holds + 1] = g]
    BY <1>6 DEF StartHold
  <2>3. holds + 1 \in Holds /\ gestureOf \in [Holds -> 0..MaxGestures]
    BY <1>6 DEF StartHold, TypeOK
  <2>4. Begun' = Begun \cup {holds + 1} /\ holds + 1 \notin Begun
    BY <2>2 DEF Begun
  <2>5. gestureOf'[holds + 1] = g /\ \A n \in Begun : gestureOf'[n] = gestureOf[n]
    BY <2>2, <2>3, <2>4
  <2> QED
    BY <1>1, <1>6, <2>1, <2>4, <2>5 DEF GestureInv, Unused
<1>7. CASE policy = "allow" /\ Passes(g) /\ UNCHANGED holdVars
  BY <1>3, <1>7 DEF LetsPass
<1>8. CASE FailOpen(g) /\ policy # "allow" /\ ~ReusesVerdict(label) /\ UNCHANGED holdVars
  <2>1. policy = "log" \/ Holding
    BY <1>8 DEF TypeOK, Policies, Holding
  <2>2. \A n \in Begun : gestureOf[n] # g
    BY <1>8, <2>1 DEF LetsPass, Unused
  <2> QED
    BY <1>3, <1>8, <2>2 DEF FailOpen
<1> QED
  BY <1>2, <1>4, <1>5, <1>6, <1>7, <1>8 DEF HandleSubmitAttempt

\* Under a policy that held from the start nothing passes, unless the guard fails.
LEMMA HandleThroughout ==
    ASSUME TypeOK, HeldThroughout, NEW label, NEW g, HandleSubmitAttempt(label, g),
           UNCHANGED PolicyVars
    PROVE  HeldThroughout'
<1>1. policy' = policy /\ edits' = edits /\ (Holding' <=> Holding)
  BY DEF PolicyVars, Holding
<1>2. SUFFICES ASSUME edits = 0, Holding
               PROVE  /\ passed' \subseteq failed'
                      /\ last'.age # "never" => last'.held \/ last'.failed
  BY <1>1 DEF HeldThroughout
<1>3. /\ passed \subseteq failed /\ (last.age # "never" => last.held \/ last.failed)
      /\ policy \notin {"allow", "log"}
  BY <1>2 DEF HeldThroughout, Holding
<1>4. CASE UNCHANGED <<last, passed, failed>>
  BY <1>3, <1>4
<1>5. CASE RepeatEvent(label, g) /\ ReusesVerdict(label)
  <2>1. last.held \/ last.failed
    BY <1>3, <1>5 DEF ReusesVerdict
  <2>2. UNCHANGED <<passed, failed>> \/ PassesUnjudged(g)
    BY <1>5, <2>1 DEF RepeatEvent
  <2> QED
    BY <1>3, <1>5, <2>1, <2>2, RepeatLast DEF PassesUnjudged
<1>6. CASE StartHold(g) /\ UNCHANGED <<passed, failed>>
  BY <1>3, <1>6 DEF StartHold
<1>7. CASE FailOpen(g)
  BY <1>3, <1>7 DEF FailOpen, PassesUnjudged
<1> QED
  BY <1>3, <1>4, <1>5, <1>6, <1>7 DEF HandleSubmitAttempt

\* What the handling of an event makes of the button's last verdict.
LEMMA HandleLast ==
    ASSUME TypeOK, NEW label, NEW g, HandleSubmitAttempt(label, g)
    PROVE  \/ UNCHANGED <<last, passed, failed, gestureOf, holds>>
           \/ policy = "allow" /\ Passes(g) /\ UNCHANGED <<last, gestureOf, holds>>
           \/ /\ ReusesVerdict(label)
              /\ last'.held = last.held /\ last'.age = last.age /\ last'.failed = last.failed
              /\ label # "click" => last' = last
              /\ \/ UNCHANGED <<passed, failed>>
                 \/ last.failed /\ PassesUnjudged(g)
                 \/ ~last.failed /\ Passes(g)
              /\ UNCHANGED <<gestureOf, holds>>
           \/ /\ ~ReusesVerdict(label) /\ policy = "log"
              /\ last'.age = "fresh" /\ ~last'.held /\ ~last'.failed /\ ~last'.completed
              /\ Passes(g) /\ UNCHANGED <<gestureOf, holds>>
           \/ /\ ~ReusesVerdict(label) /\ policy # "allow"
              /\ last'.age = "fresh" /\ ~last'.held /\ last'.failed /\ ~last'.completed
              /\ PassesUnjudged(g) /\ UNCHANGED <<gestureOf, holds>>
           \/ /\ ~ReusesVerdict(label) /\ Holding
              /\ last'.age = "fresh" /\ last'.held /\ ~last'.completed
              /\ UNCHANGED <<passed, failed>>
              /\ holds' = holds + 1 /\ gestureOf' = [gestureOf EXCEPT ![holds + 1] = g]
<1>1. CASE UNCHANGED <<last, passed, failed, file, holdVars>>
  BY <1>1 DEF holdVars
<1>2. CASE policy = "allow" /\ Passes(g) /\ UNCHANGED <<last, file, holdVars>>
  BY <1>2 DEF holdVars
<1>3. CASE ReusesVerdict(label) /\ RepeatEvent(label, g) /\ UNCHANGED <<file, holdVars>>
  BY <1>3, RepeatLast DEF holdVars, RepeatEvent
<1>4. CASE policy = "log" /\ ~ReusesVerdict(label) /\ LogGesture(g) /\ UNCHANGED holdVars
  BY <1>4 DEF holdVars, LogGesture
<1>5. CASE Holding /\ ~ReusesVerdict(label) /\ StartHold(g) /\ UNCHANGED <<passed, failed, outcome>>
  BY <1>5 DEF StartHold
<1>6. CASE policy # "allow" /\ ~ReusesVerdict(label) /\ FailOpen(g) /\ UNCHANGED holdVars
  BY <1>6 DEF holdVars, FailOpen
<1> QED
  BY <1>1, <1>2, <1>3, <1>4, <1>5, <1>6, Zenon DEF HandleSubmitAttempt

UserInv == GestureInv /\ PressInv /\ HeldPress /\ PassedPress /\ HeldThroughout

\* Where no gesture is under way nothing is to be shown of it.
LEMMA NothingPressed ==
    ASSUME TypeOK, GestureInv', pressed' = [mouse |-> NoGesture, key |-> NoGesture],
           gestures' \in Nat
    PROVE  PressInv' /\ HeldPress' /\ PassedPress'
<1>1. pressed'.mouse = 0 /\ pressed'.key = 0
  BY DEF NoGesture
<1>2. 0 \notin passed' /\ \A n \in Begun' : gestureOf'[n] # 0
  BY DEF GestureInv
<1> QED
  BY <1>1, <1>2 DEF PressInv, HeldPress, PassedPress, NoGesture

LEMMA BeginInv ==
    ASSUME TypeOK, UserInv, NEW label \in {"pointerdown", "keydown"}, Begin(label)
    PROVE  UserInv'
<1> DEFINE g == gestures + 1
<1>1. /\ gestures \in Nat /\ gestures' = g /\ HandleSubmitAttempt(label, g)
      /\ UNCHANGED PolicyVars
      /\ pressed.mouse = 0 /\ pressed.key = 0
  BY HoldsNumbered DEF Begin, PolicyVars, NoGesture
<1>2. g \in 1..gestures' /\ gestures' \in Nat /\ gestures <= gestures' /\ g \notin 1..gestures
      /\ g # 0
  BY <1>1
<1>3. Unused(g)
  BY <1>2 DEF UserInv, GestureInv, Unused
<1>4. \/ label = "pointerdown" /\ pressed'.mouse = g /\ pressed'.key = 0
      \/ label = "keydown" /\ pressed'.mouse = 0 /\ pressed'.key = g
  BY <1>1 DEF Begin, TypeOK
<1> HIDE DEF g
<1>5. GestureInv'
  BY <1>1, <1>2, <1>3, HandleGesture DEF Unused, UserInv
<1>6. HeldThroughout'
  BY <1>1, HandleThroughout DEF UserInv
<1>7. PressInv'
  BY <1>2, <1>4 DEF PressInv, NoGesture, g
<1>8. 0 \notin passed' /\ \A n \in Begun' : gestureOf'[n] # 0
  BY <1>5 DEF GestureInv
<1>9. policy' = policy /\ (Holding' <=> Holding)
  BY <1>1 DEF PolicyVars, Holding
<1>10. \/ UNCHANGED <<gestureOf, holds>>
       \/ /\ Holding /\ last'.age = "fresh" /\ last'.held /\ ~last'.completed
  BY <1>1, HandleLast
<1>11. HeldPress'
  <2>1. CASE UNCHANGED <<gestureOf, holds>>
    <3>1. Begun' = Begun /\ gestureOf' = gestureOf
      BY <2>1 DEF Begun
    <3> QED
      BY <3>1, <1>3, <1>4, <1>8 DEF HeldPress, Unused
  <2>2. CASE Holding /\ last'.age = "fresh" /\ last'.held /\ ~last'.completed
    BY <2>2, <1>9 DEF HeldPress
  <2> QED
    BY <1>10, <2>1, <2>2
<1>12. PassedPress'
  <2>1. CASE g \notin passed'
    BY <2>1, <1>4, <1>8 DEF PassedPress
  <2>2. CASE policy = "allow"
    BY <2>2, <1>9 DEF PassedPress
  <2>3. CASE /\ last'.age = "fresh" /\ ~last'.completed
             /\ last'.failed => g \in failed'
    BY <2>3, <1>4, <1>8 DEF PassedPress
  <2>4. CASE /\ ReusesVerdict(label) /\ last'.age = last.age
             /\ last'.failed => g \in failed'
    <3>1. label = "keydown" /\ last'.age # "never"
      BY <2>4 DEF ReusesVerdict
    <3> QED
      BY <2>4, <3>1, <1>4, <1>8 DEF PassedPress
  <2>5. PassesUnjudged(g) => g \in failed'
    BY DEF PassesUnjudged
  <2> QED
    BY <1>1, <1>3, <2>1, <2>2, <2>3, <2>4, <2>5, HandleLast DEF Unused
<1> QED
  BY <1>5, <1>6, <1>7, <1>11, <1>12 DEF UserInv

LEMMA ReleaseInv ==
    ASSUME TypeOK, UserInv, Release
    PROVE  UserInv'
<1> DEFINE g == pressed.mouse
<1>1. /\ gestures \in Nat /\ gestures' = gestures /\ HandleSubmitAttempt("click", g)
      /\ UNCHANGED PolicyVars
      /\ g # 0 /\ pressed.key = 0 /\ g \in Nat /\ g <= gestures
  BY HoldsNumbered DEF Release, PolicyVars, NoGesture, UserInv, PressInv, TypeOK
<1>2. g \in 1..gestures' /\ gestures' \in Nat /\ gestures <= gestures'
  BY <1>1
<1>3. last.age \in {"fresh", "recent"} /\ ~last.completed => ReusesVerdict("click")
  BY DEF ReusesVerdict
<1>4. ASSUME NEW n \in Begun, gestureOf[n] = g
      PROVE  Holding /\ last.held /\ ReusesVerdict("click")
  BY <1>3, <1>4 DEF UserInv, HeldPress
<1>5. g \in passed => policy = "allow" \/ ReusesVerdict("click")
  BY <1>3 DEF UserInv, PassedPress
<1>6. ~(Holding /\ policy \in {"allow", "log"})
  BY DEF Holding
<1>7. Holding /\ ~ReusesVerdict("click") => Unused(g)
  BY <1>4, <1>5, <1>6 DEF Unused
<1>8. LetsPass("click") => \A n \in Begun : gestureOf[n] # g
  BY <1>4, <1>6 DEF LetsPass
<1>9. pressed' = [mouse |-> NoGesture, key |-> NoGesture]
  BY <1>1 DEF Release, TypeOK, NoGesture
<1> HIDE DEF g
<1>10. GestureInv'
  BY <1>1, <1>2, <1>7, <1>8, HandleGesture DEF UserInv
<1>11. HeldThroughout'
  BY <1>1, HandleThroughout DEF UserInv
<1> QED
  BY <1>2, <1>9, <1>10, <1>11, NothingPressed DEF UserInv

LEMMA RepeatEnterInv ==
    ASSUME TypeOK, UserInv, RepeatEnter
    PROVE  UserInv'
<1> DEFINE g == pressed.key
<1>1. /\ gestures \in Nat /\ gestures' = gestures /\ HandleSubmitAttempt("repeat", g)
      /\ UNCHANGED PolicyVars /\ pressed' = pressed
      /\ g # 0 /\ pressed.mouse = 0 /\ g \in Nat /\ g <= gestures
  BY HoldsNumbered DEF RepeatEnter, PolicyVars, NoGesture, UserInv, PressInv, TypeOK
<1>2. g \in 1..gestures' /\ gestures' \in Nat /\ gestures <= gestures'
  BY <1>1
<1>3. last.age # "never" <=> ReusesVerdict("repeat")
  BY DEF ReusesVerdict
<1>4. ASSUME NEW n \in Begun, gestureOf[n] = g
      PROVE  Holding /\ last.held /\ ReusesVerdict("repeat")
  BY <1>3, <1>4 DEF UserInv, HeldPress
<1>5. g \in passed => policy = "allow" \/ ReusesVerdict("repeat")
  BY <1>3 DEF UserInv, PassedPress
<1>6. ~(Holding /\ policy \in {"allow", "log"})
  BY DEF Holding
<1>7. Holding /\ ~ReusesVerdict("repeat") => Unused(g)
  BY <1>4, <1>5, <1>6 DEF Unused
<1>8. LetsPass("repeat") => \A n \in Begun : gestureOf[n] # g
  BY <1>4, <1>6 DEF LetsPass
<1>9. GestureInv'
  BY <1>1, <1>2, <1>7, <1>8, HandleGesture DEF UserInv
<1>10. HeldThroughout'
  BY <1>1, HandleThroughout DEF UserInv
<1>11. PressInv'
  BY <1>1 DEF UserInv, PressInv
<1>12. 0 \notin passed' /\ \A n \in Begun' : gestureOf'[n] # 0
  BY <1>9 DEF GestureInv
<1>13. policy' = policy /\ (Holding' <=> Holding)
  BY <1>1 DEF PolicyVars, Holding
<1>14. HeldPress'
  <2>1. SUFFICES ASSUME NEW n \in Begun', gestureOf'[n] = g
                 PROVE  Holding' /\ last'.held /\ last'.age # "never"
    BY <1>1, <1>12, Zenon DEF HeldPress
  <2>2. CASE UNCHANGED <<gestureOf, holds>>
    <3>1. n \in Begun /\ gestureOf[n] = g
      BY <2>1, <2>2 DEF Begun
    <3>2. Holding /\ last.held /\ ReusesVerdict("repeat")
      BY <3>1, <1>4
    <3>3. last'.held = last.held /\ last'.age = last.age
      BY <3>2, <1>1, <1>6, HandleLast
    <3> QED
      BY <3>2, <3>3, <1>3, <1>13
  <2>3. CASE Holding /\ last'.age = "fresh" /\ last'.held
    BY <2>3, <1>13
  <2> QED
    BY <1>1, <2>2, <2>3, HandleLast
<1>15. PassedPress'
  <2>1. SUFFICES ASSUME g \in passed', policy # "allow"
                 PROVE  last'.age # "never" /\ (last'.failed => g \in failed')
    BY <1>1, <1>12, <1>13, Zenon DEF PassedPress
  <2>2. g \in passed => last.age # "never" /\ (last.failed => g \in failed)
    BY <2>1 DEF UserInv, PassedPress, g
  <2>3. PassesUnjudged(g) => g \in failed'
    BY DEF PassesUnjudged
  <2>4. CASE UNCHANGED <<last, passed, failed>>
    BY <2>1, <2>2, <2>4
  <2>5. CASE last'.age = "fresh" /\ (last'.failed => g \in failed')
    BY <2>5
  <2>6. CASE /\ ReusesVerdict("repeat") /\ last'.age = last.age /\ last'.failed = last.failed
             /\ \/ UNCHANGED <<passed, failed>>
                \/ last.failed /\ PassesUnjudged(g)
                \/ ~last.failed /\ Passes(g)
    BY <2>1, <2>2, <2>3, <2>6, <1>3
  <2>7. CASE UNCHANGED <<passed, failed>> /\ ~ReusesVerdict("repeat")
    BY <2>1, <2>2, <2>7, <1>3
  <2> QED
    BY <1>1, <2>1, <2>3, <2>4, <2>5, <2>6, <2>7, HandleLast
<1> QED
  BY <1>9, <1>10, <1>11, <1>14, <1>15 DEF UserInv

\* No gesture begins, goes on or passes.
GestureVars == <<policy, edits, gestures, pressed, last, passed, failed, holds, gestureOf>>

LEMMA UserInvQuiet ==
    ASSUME UserInv, UNCHANGED GestureVars
    PROVE  UserInv'
<1>1. /\ policy' = policy /\ edits' = edits /\ gestures' = gestures /\ pressed' = pressed
      /\ last' = last /\ passed' = passed /\ failed' = failed
      /\ holds' = holds /\ gestureOf' = gestureOf
  BY DEF GestureVars
<1>2. Begun' = Begun /\ (Holding' <=> Holding)
  BY <1>1 DEF Begun, Holding
<1>3. GestureInv' /\ PressInv'
  BY <1>1, <1>2 DEF UserInv, GestureInv, PressInv
<1>4. HeldPress'
  BY <1>1, <1>2 DEF UserInv, HeldPress
<1>5. PassedPress' /\ HeldThroughout'
  BY <1>1, <1>2 DEF UserInv, PassedPress, HeldThroughout
<1> QED
  BY <1>3, <1>4, <1>5 DEF UserInv

\* The key is let go, time passes, the policy changes.
LEMMA OtherUserInv ==
    ASSUME TypeOK, UserInv, ReleaseEnter \/ TimePasses \/ PolicyChanges
    PROVE  UserInv'
<1>1. gestures \in Nat /\ gestures' = gestures /\ holds' = holds /\ gestureOf' = gestureOf
      /\ passed' = passed /\ failed' = failed
  BY HoldsNumbered DEF ReleaseEnter, TimePasses, PolicyChanges, holdVars
<1>2. Begun' = Begun
  BY <1>1 DEF Begun
<1>3. GestureInv'
  BY <1>1, <1>2 DEF UserInv, GestureInv
<1>4. 0 \notin passed' /\ \A n \in Begun' : gestureOf'[n] # 0
  BY <1>3 DEF GestureInv
<1>5. CASE ReleaseEnter
  <2>1. /\ pressed'.mouse = pressed.mouse /\ pressed'.key = 0
        /\ policy' = policy /\ edits' = edits /\ last' = last
    BY <1>5 DEF ReleaseEnter, TypeOK, NoGesture
  <2>2. Holding' <=> Holding
    BY <2>1 DEF Holding
  <2>3. PressInv'
    BY <1>1, <2>1 DEF UserInv, PressInv, NoGesture
  <2>4. HeldPress'
    BY <1>1, <1>2, <1>4, <2>1, <2>2 DEF UserInv, HeldPress
  <2>5. PassedPress' /\ HeldThroughout'
    BY <1>1, <1>4, <2>1, <2>2 DEF UserInv, PassedPress, HeldThroughout
  <2> QED
    BY <1>3, <2>3, <2>4, <2>5 DEF UserInv
<1>6. CASE TimePasses
  <2>1. /\ last'.held = last.held /\ last'.completed = last.completed
        /\ last'.failed = last.failed
        /\ \/ last.age = "fresh" /\ last'.age = "recent"
           \/ last.age = "recent" /\ last'.age = "old" /\ pressed.mouse = 0
        /\ policy' = policy /\ edits' = edits /\ pressed' = pressed
    BY <1>6 DEF TimePasses, TypeOK, NoGesture
  <2>2. Holding' <=> Holding
    BY <2>1 DEF Holding
  <2>3. PressInv'
    BY <1>1, <2>1 DEF UserInv, PressInv
  <2>4. HeldPress'
    <3>1. SUFFICES ASSUME NEW n \in Begun
                   PROVE  /\ gestureOf[n] = pressed.mouse =>
                               /\ Holding /\ last.held /\ ~last.completed
                               /\ last'.age \in {"fresh", "recent"}
                          /\ gestureOf[n] = pressed.key =>
                               Holding /\ last.held /\ last'.age # "never"
      BY <1>1, <1>2, <2>1, <2>2, Zenon DEF HeldPress
    <3> QED
      BY <1>1, <1>2, <1>4, <2>1 DEF UserInv, HeldPress
  <2>5. PassedPress'
    <3>1. SUFFICES /\ pressed.mouse \in passed =>
                        \/ policy = "allow"
                        \/ /\ ~last.completed /\ last'.age \in {"fresh", "recent"}
                           /\ last.failed => pressed.mouse \in failed
                   /\ pressed.key \in passed =>
                        \/ policy = "allow"
                        \/ last'.age # "never" /\ (last.failed => pressed.key \in failed)
      BY <1>1, <2>1, Zenon DEF PassedPress
    <3> QED
      BY <1>1, <1>4, <2>1 DEF UserInv, PassedPress
  <2>6. HeldThroughout'
    BY <1>1, <2>1, <2>2 DEF UserInv, HeldThroughout
  <2> QED
    BY <1>3, <2>3, <2>4, <2>5, <2>6 DEF UserInv
<1>7. CASE PolicyChanges
  <2>1. pressed' = [mouse |-> NoGesture, key |-> NoGesture]
    BY <1>7 DEF PolicyChanges, TypeOK
  <2>2. edits' # 0
    BY <1>7 DEF PolicyChanges, TypeOK
  <2>3. HeldThroughout'
    BY <2>2 DEF HeldThroughout
  <2> QED
    BY <1>1, <1>3, <2>1, <2>3, NothingPressed DEF UserInv
<1> QED
  BY <1>5, <1>6, <1>7

-----------------------------------------------------------------------------
(* The theorems.                                                            *)

LEMMA InvariantParts == IInv <=> HoldInv /\ UserInv
  BY DEF IInv, HoldInv, UserInv

LEMMA InvariantInitially == Init => HoldInv /\ UserInv
<1> SUFFICES ASSUME Init PROVE HoldInv /\ UserInv
  OBVIOUS
<1>1. HoldIsLast
  BY DEF Init, HoldIsLast, Held, NoHold
<1>2. NoneAhead
  BY DEF Init, NoneAhead, NoJob
<1>3. VerdictInv
  BY DEF Init, VerdictInv, AnswerInv, SentInv, NoJob
<1>4. Begun = {}
  BY DEF Init, Begun
<1>5. GestureInv /\ HeldPress
  BY <1>4 DEF Init, GestureInv, HeldPress
<1>6. PressInv /\ PassedPress /\ HeldThroughout
  BY DEF Init, PressInv, PassedPress, HeldThroughout, NoGesture
<1> QED
  BY <1>1, <1>2, <1>3, <1>5, <1>6 DEF HoldInv, UserInv

LEMMA InvariantStep == TypeOK /\ HoldInv /\ UserInv /\ [Next]_vars => HoldInv' /\ UserInv'
<1> SUFFICES ASSUME TypeOK, HoldInv, UserInv, [Next]_vars PROVE HoldInv' /\ UserInv'
  OBVIOUS
<1>1. UNCHANGED <<userVars, holds, gestureOf>> => UserInv'
  BY UserInvQuiet DEF userVars, GestureVars
<1>2. UNCHANGED <<last, holdVars, job>> => HoldInv'
  BY HoldInvQuiet
<1>3. ASSUME NEW label \in {"pointerdown", "keydown"}, Begin(label)
      PROVE  HoldInv' /\ UserInv'
  BY <1>3, BeginInv, HandleHoldInv DEF Begin
<1>4. CASE Press \/ PressEnter
  BY <1>3, <1>4 DEF Press, PressEnter
<1>5. CASE Release
  BY <1>5, ReleaseInv, HandleHoldInv DEF Release
<1>6. CASE RepeatEnter
  BY <1>6, RepeatEnterInv, HandleHoldInv DEF RepeatEnter
<1>7. CASE ReleaseEnter \/ PolicyChanges
  BY <1>2, <1>7, OtherUserInv DEF ReleaseEnter, PolicyChanges
<1>8. CASE TimePasses
  <2>1. last'.held = last.held /\ last'.age # "never"
    BY <1>8 DEF TimePasses, TypeOK
  <2> QED
    BY <2>1, <1>8, OtherUserInv, HoldInvQuiet DEF TimePasses
<1>9. CASE ComposerCloses
  <2>1. UNCHANGED GestureVars /\ UNCHANGED <<last, holdVars, job>>
    BY <1>9 DEF ComposerCloses, GestureVars, holdVars
  <2> QED
    BY <2>1, <1>2, UserInvQuiet
<1>10. ASSUME NEW f \in Files, Attachment(f) \/ InspectionEnds(f) \/ FetchEnds(f)
       PROVE  HoldInv' /\ UserInv'
  <2>1. UNCHANGED <<userVars, holdVars, job>>
    BY <1>10 DEF Attachment, Attach, Appear, Move, InspectionEnds, FetchEnds
  <2> QED
    BY <2>1, <1>1, <1>2 DEF userVars, holdVars
<1>11. CASE Recovered \/ InspectionsSettle \/ WaitExpires \/ VerdictArrives \/ VerdictTimeout
  <2>1. UNCHANGED <<userVars, holds, gestureOf>>
    BY <1>11 DEF Recovered, InspectionsSettle, WaitExpires, VerdictArrives, VerdictTimeout
  <2> QED
    BY <2>1, <1>1, <1>11, GuardHoldInv
<1>12. CASE (\E n \in Holds : Evaluation(n)) \/ WorkerStops
  <2>1. UNCHANGED <<userVars, holdVars>>
    BY <1>12 DEF Evaluation, EvaluateActivity, EvaluationFails, WorkerStops
  <2> QED
    BY <2>1, <1>1, <1>12, WorkerHoldInv DEF holdVars
<1>13. CASE UNCHANGED vars
  BY <1>13, <1>1, <1>2 DEF vars, userVars, holdVars
<1> QED
  BY <1>4, <1>5, <1>6, <1>7, <1>8, <1>9, <1>10, <1>11, <1>12, <1>13
  DEF Next, User, Guard

\* The inductive invariant holds.
THEOREM InvariantHolds == Spec => [](HoldInv /\ UserInv)
  BY InvariantInitially, InvariantStep, TypeCorrect, PTL DEF Spec

LEMMA ReleasedFollows == VerdictInv => ReleasedByItsVerdict
  BY DEF VerdictInv, SentInv, ReleasedByItsVerdict

\* A message goes out as it is only when no answer to any part of it asked for
\* more, and goes out redacted only when the request named no file.
THEOREM Released == Spec => []ReleasedByItsVerdict
<1>1. HoldInv /\ UserInv => ReleasedByItsVerdict
  BY ReleasedFollows DEF HoldInv
<1> QED
  BY <1>1, InvariantHolds, PTL

\* One gesture is one send.
THEOREM SentOnce == Spec => []OneSendPerGesture
<1>1. TypeOK /\ HoldInv /\ UserInv => OneSendPerGesture
  <2> SUFFICES ASSUME TypeOK, NoneAhead, GestureInv PROVE OneSendPerGesture
    BY DEF HoldInv, UserInv
  <2>1. \A n \in Holds : gestureOf[n] # 0 => n \in Begun
    <3>1. \A n \in Holds : n \in Begun \/ n > holds
      BY HoldsNumbered
    <3> QED
      BY <3>1 DEF NoneAhead, NoGesture
  <2>2. 0 \notin passed
    BY DEF GestureInv
  <2>3. \A m, n \in Holds : m # n /\ gestureOf[m] = gestureOf[n] => gestureOf[m] = 0
    BY <2>1 DEF GestureInv
  <2>4. \A n \in Holds : gestureOf[n] \notin passed
    BY <2>1, <2>2 DEF GestureInv
  <2> QED
    BY <2>3, <2>4 DEF OneSendPerGesture, NoGesture
<1> QED
  BY <1>1, InvariantHolds, TypeCorrect, PTL

\* Under a policy that holds nothing reaches the application but the replay of
\* a hold, and the gestures for which the guard failed open.
THEOREM NothingSlips == Spec => []NoneSlipsPast
<1>1. HoldInv /\ UserInv => NoneSlipsPast
  BY DEF UserInv, HeldThroughout, NoneSlipsPast
<1> QED
  BY <1>1, InvariantHolds, PTL

\* How a hold ended is final: a gesture the user was told is held does not go
\* out when the answer that was too late arrives (activity-guard.js:765).
EndIsFinal == [][\A n \in Holds : outcome[n] # "none" => outcome'[n] = outcome[n]]_vars

LEMMA EndStep ==
    ASSUME TypeOK, HoldIsLast, [Next]_vars
    PROVE  \A n \in Holds : outcome[n] # "none" => outcome'[n] = outcome[n]
<1>1. ASSUME Held, NEW how, EndHold(how)
      PROVE  \A n \in Holds : outcome[n] # "none" => outcome'[n] = outcome[n]
  <2>1. outcome[holds] = "none" /\ outcome' = [outcome EXCEPT ![holds] = how]
    BY <1>1 DEF HoldIsLast, EndHold
  <2> QED
    BY <2>1 DEF TypeOK
<1>2. ASSUME NEW label, NEW g, HandleSubmitAttempt(label, g) PROVE UNCHANGED outcome
  BY <1>2 DEF HandleSubmitAttempt, holdVars
<1>3. ASSUME Held, NEW fresh, GatherAgain(fresh)
      PROVE  UNCHANGED outcome \/ \E how : EndHold(how)
  BY <1>3 DEF GatherAgain
<1>4. CASE User
  BY <1>2, <1>4 DEF User, Press, PressEnter, Begin, Release, RepeatEnter, ReleaseEnter, Attachment,
     Attach, Appear, Move, ComposerCloses, holdVars
<1>5. CASE Guard
  <2>1. CASE \E f \in Files : FetchEnds(f)
    BY <2>1 DEF FetchEnds, holdVars
  <2>2. CASE Recovered \/ InspectionsSettle \/ WaitExpires
    BY <2>2, <1>1, <1>3 DEF Recovered, InspectionsSettle, WaitExpires, Held
  <2>3. CASE VerdictArrives \/ VerdictTimeout
    <3>1. Held /\ \E how : EndHold(how)
      BY <2>3 DEF VerdictArrives, VerdictTimeout, Resume, Held
    <3> QED
      BY <3>1, <1>1
  <2> QED
    BY <1>5, <2>1, <2>2, <2>3 DEF Guard
<1>6. CASE \/ TimePasses \/ PolicyChanges \/ WorkerStops
           \/ \E f \in Files : InspectionEnds(f)
           \/ \E n \in Holds : Evaluation(n)
  BY <1>6 DEF TimePasses, PolicyChanges, WorkerStops, InspectionEnds, Evaluation,
     EvaluateActivity, EvaluationFails, holdVars
<1>7. CASE UNCHANGED vars
  BY <1>7 DEF vars, holdVars
<1> QED
  BY <1>4, <1>5, <1>6, <1>7 DEF Next

\* A gesture the user was told is held does not go out later.
THEOREM EndsOnce == Spec => EndIsFinal
<1>1. TypeOK /\ HoldInv /\ UserInv /\ [Next]_vars =>
        [\A n \in Holds : outcome[n] # "none" => outcome'[n] = outcome[n]]_vars
  BY EndStep DEF HoldInv
<1> QED
  BY <1>1, InvariantHolds, TypeCorrect, PTL DEF Spec, EndIsFinal

-----------------------------------------------------------------------------
(* The gate.                                                                *)

\* A hold that has not ended is the one under way.
OpenIsLast == \A n \in Begun : outcome[n] = "none" => Held /\ n = holds

GateInv == TypeOK /\ HoldInv /\ UserInv /\ OpenIsLast

LEMMA OpenQuiet ==
    ASSUME OpenIsLast, UNCHANGED <<holds, outcome>>, Held => Held'
    PROVE  OpenIsLast'
  BY DEF OpenIsLast, Begun

LEMMA OpenHandled ==
    ASSUME TypeOK, OpenIsLast, NEW label, NEW g, HandleSubmitAttempt(label, g)
    PROVE  OpenIsLast'
<1>1. CASE UNCHANGED holdVars
  BY <1>1, OpenQuiet DEF holdVars, Held
<1>2. CASE ~Held /\ StartHold(g) /\ UNCHANGED outcome
  <2>1. holds' = holds + 1 /\ Held'
    BY <1>2 DEF StartHold, Held
  <2>2. \A n \in Begun : outcome[n] # "none"
    BY <1>2 DEF OpenIsLast
  <2>3. \A n \in Begun' : n \in Begun \/ n = holds'
    BY <2>1, HoldsNumbered DEF Begun
  <2> QED
    BY <1>2, <2>1, <2>2, <2>3 DEF OpenIsLast
<1> QED
  BY <1>1, <1>2 DEF HandleSubmitAttempt

\* What a step of the hold does: it ends, one way or the other, or goes on.
LEMMA HoldEndsOrGoesOn ==
    ASSUME TypeOK,
           Recovered \/ InspectionsSettle \/ WaitExpires \/ VerdictArrives \/ VerdictTimeout
    PROVE  /\ Held /\ UNCHANGED <<userVars, holds, gestureOf>>
           /\ \/ UNCHANGED outcome /\ Held'
              \/ \E how \in Gate!Ends : EndHold(how)
<1>1. Held /\ UNCHANGED <<userVars, holds, gestureOf>>
  BY DEF Recovered, InspectionsSettle, WaitExpires, VerdictArrives, VerdictTimeout, Held
<1>2. ASSUME NEW fresh, GatherAgain(fresh)
      PROVE  \/ UNCHANGED outcome /\ Held'
             \/ \E how \in Gate!Ends : EndHold(how)
  <2>1. CASE UNCHANGED outcome /\ hold' = [hold EXCEPT !.pc = "asked"]
    <3>1. hold'.pc = "asked"
      BY <2>1 DEF TypeOK
    <3> QED
      BY <2>1, <3>1 DEF Held
  <2>2. CASE EndHold("closed") \/ EndHold("told")
    BY <2>2 DEF Gate!Ends
  <2> QED
    BY <1>2, <2>1, <2>2, Zenon DEF GatherAgain
<1>3. CASE Recovered
  <2>1. CASE UNCHANGED outcome /\ hold' = [hold EXCEPT !.pc = "waiting",
                                  !.for = {f \in Files : file[f].record = "pending"}]
    <3>1. hold'.pc = "waiting"
      BY <2>1 DEF TypeOK
    <3> QED
      BY <1>1, <2>1, <3>1 DEF Held
  <2> QED
    BY <1>1, <1>2, <1>3, <2>1, Zenon DEF Recovered
<1>4. CASE InspectionsSettle \/ WaitExpires
  BY <1>1, <1>2, <1>4 DEF InspectionsSettle, WaitExpires
<1>5. CASE VerdictArrives
  <2>1. ASSUME NEW how \in {"resumed", "overruled", "masked"}, Resume(how)
        PROVE  \E end \in Gate!Ends : EndHold(end)
    <3>1. (IF open THEN how ELSE "closed") \in Gate!Ends
      BY DEF Gate!Ends
    <3> QED
      BY <2>1, <3>1 DEF Resume
  <2>2. EndHold("told") => \E end \in Gate!Ends : EndHold(end)
    BY DEF Gate!Ends
  <2> QED
    BY <1>1, <1>5, <2>1, <2>2, Zenon DEF VerdictArrives
<1>6. CASE VerdictTimeout
  BY <1>1, <1>6 DEF VerdictTimeout, Gate!Ends
<1> QED
  BY <1>3, <1>4, <1>5, <1>6

LEMMA OpenEnded ==
    ASSUME TypeOK, OpenIsLast, NEW how \in Gate!Ends, EndHold(how), UNCHANGED holds
    PROVE  OpenIsLast'
<1>1. /\ outcome' = [outcome EXCEPT ![holds] = how] /\ outcome \in [Holds -> Outcomes]
      /\ how # "none"
  BY DEF EndHold, TypeOK, Gate!Ends
<1>2. \A n \in Begun' : n \in Begun /\ n \in Holds
  BY HoldsNumbered DEF Begun
<1>3. \A n \in Begun' : outcome'[n] # "none"
  BY <1>1, <1>2 DEF OpenIsLast
<1> QED
  BY <1>3 DEF OpenIsLast

LEMMA OpenStep == GateInv /\ [Next]_vars => GateInv'
<1> SUFFICES ASSUME GateInv, [Next]_vars PROVE OpenIsLast'
  <2>1. GateInv /\ [Next]_vars => Typed' /\ HoldInv' /\ UserInv'
    BY TypeStep, InvariantStep DEF GateInv
  <2>2. (TypeOK <=> Typed)'
    BY TypeParts, PTL
  <2> QED
    BY <2>1, <2>2 DEF GateInv
<1>0. TypeOK /\ OpenIsLast
  BY DEF GateInv
<1>1. ASSUME NEW label, NEW g, HandleSubmitAttempt(label, g) PROVE OpenIsLast'
  BY <1>0, <1>1, OpenHandled
<1>2. CASE UNCHANGED holdVars
  BY <1>0, <1>2, OpenQuiet DEF holdVars, Held
<1>3. CASE Recovered \/ InspectionsSettle \/ WaitExpires \/ VerdictArrives \/ VerdictTimeout
  BY <1>0, <1>3, HoldEndsOrGoesOn, OpenQuiet, OpenEnded
<1>4. CASE Press \/ PressEnter \/ Release \/ RepeatEnter
  BY <1>1, <1>4 DEF Press, PressEnter, Begin, Release, RepeatEnter
<1>5. \/ UNCHANGED holdVars
      \/ Press \/ PressEnter \/ Release \/ RepeatEnter
      \/ Recovered \/ InspectionsSettle \/ WaitExpires \/ VerdictArrives \/ VerdictTimeout
  BY DEF Next, User, Guard, ReleaseEnter, Attachment, Attach, Appear, Move, ComposerCloses,
     TimePasses, PolicyChanges, InspectionEnds, FetchEnds, Evaluation, EvaluateActivity,
     EvaluationFails, WorkerStops, vars, holdVars
<1> QED
  BY <1>2, <1>3, <1>4, <1>5

\* Where a gesture stands, from the list of holds: in terms of the list alone,
\* so that it serves for the state before a step and for the one after it.
Standing(g, through, begun, of, how) ==
    IF g \in through THEN "passed"
    ELSE IF \A n \in begun : of[n] # g THEN "none"
    ELSE LET n == CHOOSE n \in begun : of[n] = g
         IN  IF how[n] = "none" THEN "held" ELSE how[n]

LEMMA GateStands ==
    ASSUME NEW g
    PROVE  /\ GateOf(g) = IF g \in failed THEN "failed"
                          ELSE Standing(g, passed, Begun, gestureOf, outcome)
           /\ GateOf(g)' = IF g \in failed' THEN "failed"
                           ELSE Standing(g, passed', Begun', gestureOf', outcome')
  BY DEF GateOf, Standing, Begun

OnlyHold(g, begun, of, n) ==
    n \in begun /\ of[n] = g /\ \A m \in begun : of[m] = g => m = n

LEMMA StandsByItsHold ==
    ASSUME NEW g, NEW through, NEW begun, NEW of, NEW how, NEW n,
           OnlyHold(g, begun, of, n), g \notin through
    PROVE  Standing(g, through, begun, of, how)
              = IF how[n] = "none" THEN "held" ELSE how[n]
<1> DEFINE c == CHOOSE m \in begun : of[m] = g
<1>1. c \in begun /\ of[c] = g
  BY DEF OnlyHold
<1>2. c = n
  BY <1>1 DEF OnlyHold
<1>3. ~ \A m \in begun : of[m] # g
  BY DEF OnlyHold
<1> QED
  BY <1>2, <1>3, Zenon DEF Standing

LEMMA HeldByItsHold ==
    ASSUME NEW g, NEW through, NEW begun, NEW of, NEW how, NEW n,
           OnlyHold(g, begun, of, n), g \notin through, how[n] = "none"
    PROVE  Standing(g, through, begun, of, how) = "held"
  BY StandsByItsHold

LEMMA EndedByItsHold ==
    ASSUME NEW g, NEW through, NEW begun, NEW of, NEW how, NEW n,
           OnlyHold(g, begun, of, n), g \notin through, how[n] # "none"
    PROVE  Standing(g, through, begun, of, how) = how[n]
  BY StandsByItsHold

LEMMA StandsAlone ==
    ASSUME NEW g, NEW through, NEW begun, NEW of, NEW how, \A n \in begun : of[n] # g
    PROVE  Standing(g, through, begun, of, how) = IF g \in through THEN "passed" ELSE "none"
  BY DEF Standing

\* What is held is the gesture of the hold under way.
LEMMA HeldIsOpen ==
    ASSUME GateInv, NEW g, GateOf(g) = "held"
    PROVE  Held /\ g = gestureOf[holds]
<1>1. Standing(g, passed, Begun, gestureOf, outcome) = "held"
  <2>1. g \notin failed
    BY GateStands
  <2> QED
    BY <2>1, GateStands
<1>2. PICK n \in Begun : gestureOf[n] = g
  BY <1>1, StandsAlone
<1>3. outcome[n] # "none" => Standing(g, passed, Begun, gestureOf, outcome) = outcome[n]
  <2>1. g \notin passed /\ OnlyHold(g, Begun, gestureOf, n)
    BY <1>2 DEF GateInv, UserInv, GestureInv, OnlyHold
  <2> QED
    BY <2>1, EndedByItsHold
<1>4. outcome[n] \in Outcomes /\ "held" \notin Outcomes
  BY HoldsNumbered DEF GateInv, TypeOK, Outcomes
<1>5. outcome[n] = "none"
  BY <1>1, <1>3, <1>4
<1> QED
  BY <1>2, <1>5 DEF GateInv, OpenIsLast

\* A gesture stands where it stood if neither it nor its hold changed.
LEMMA StandsAsBefore ==
    ASSUME NEW g, NEW through, NEW begun, NEW of, NEW how,
           NEW throughNext, NEW begunNext, NEW ofNext, NEW howNext,
           g \in throughNext <=> g \in through,
           \A n \in begun : n \in begunNext /\ ofNext[n] = of[n],
           \A n \in begunNext : ofNext[n] = g => n \in begun,
           \A n \in begun : of[n] = g => howNext[n] = how[n],
           \A n \in begun : of[n] = g => g \notin through,
           \A m, n \in begun : of[m] = g /\ of[n] = g => m = n
    PROVE  Standing(g, throughNext, begunNext, ofNext, howNext)
              = Standing(g, through, begun, of, how)
<1>1. CASE \A n \in begun : of[n] # g
  <2>1. \A n \in begunNext : ofNext[n] # g
    BY <1>1
  <2> QED
    BY <1>1, <2>1, StandsAlone
<1>2. ASSUME NEW n \in begun, of[n] = g
      PROVE  Standing(g, throughNext, begunNext, ofNext, howNext)
                = Standing(g, through, begun, of, how)
  <2>1. g \notin through /\ OnlyHold(g, begun, of, n)
    BY <1>2 DEF OnlyHold
  <2>2. g \notin throughNext /\ OnlyHold(g, begunNext, ofNext, n) /\ howNext[n] = how[n]
    BY <1>2, <2>1 DEF OnlyHold
  <2>3. CASE how[n] = "none"
    BY <2>1, <2>2, <2>3, HeldByItsHold
  <2>4. CASE how[n] # "none"
    BY <2>1, <2>2, <2>4, EndedByItsHold
  <2> QED
    BY <2>3, <2>4
<1> QED
  BY <1>1, <1>2

\* The steps of SendGate, in terms of what they leave of each gesture.
LEMMA GateStill ==
    ASSUME \A h \in Gestures : GateOf(h)' = GateOf(h), UNCHANGED PolicyVars
    PROVE  UNCHANGED <<[g \in Gestures |-> GateOf(g)], edits = 0 /\ Holding>>
  BY DEF PolicyVars, Holding

LEMMA GateBecomes ==
    ASSUME NEW g \in Gestures, NEW states, GateOf(g)' \in states,
           \A h \in Gestures : h # g => GateOf(h)' = GateOf(h), UNCHANGED PolicyVars
    PROVE  Gate!Becomes(g, states)
<1>1. (edits = 0 /\ Holding)' = (edits = 0 /\ Holding)
  BY DEF PolicyVars, Holding
<1>2. [h \in Gestures |-> GateOf(h)]'
         = [[h \in Gestures |-> GateOf(h)] EXCEPT ![g] = [h \in Gestures |-> GateOf(h)]'[g]]
  OBVIOUS
<1>3. [h \in Gestures |-> GateOf(h)]'[g] \in states
  OBVIOUS
<1> QED
  BY <1>1, <1>2, <1>3 DEF Gate!Becomes

\* While no hold is under way, a gesture that was neither held nor passed is fresh.
LEMMA UnusedIsFresh ==
    ASSUME GateInv, ~Held, NEW g \in Gestures, Unused(g)
    PROVE  GateOf(g) = "none" /\ \A h \in Gestures : GateOf(h) # "held"
<1>1. GateOf(g) = "none"
  <2>1. g \notin passed /\ g \notin failed /\ \A n \in Begun : gestureOf[n] # g
    BY DEF Unused, GateInv, UserInv, GestureInv
  <2>2. Standing(g, passed, Begun, gestureOf, outcome) = "none"
    BY <2>1, StandsAlone
  <2> QED
    BY <2>1, <2>2, GateStands
<1>2. \A h \in Gestures : GateOf(h) # "held"
  BY HeldIsOpen
<1> QED
  BY <1>1, <1>2

\* An event of gesture g that is handled is a step of the gate, or none.
LEMMA GateHandled ==
    ASSUME GateInv, UserInv', NEW label, NEW g \in Gestures, HandleSubmitAttempt(label, g),
           Holding /\ ~ReusesVerdict(label) => Unused(g),
           LetsPass(label) => \A n \in Begun : gestureOf[n] # g,
           FailsAtOnce(label, g),
           UNCHANGED PolicyVars
    PROVE  Gate!GateNext \/ UNCHANGED Gate!gateVars
<1>1. ASSUME NEW h, h \in passed' <=> h \in passed, h \in failed' <=> h \in failed,
             UNCHANGED <<holds, gestureOf, outcome>>
      PROVE  GateOf(h)' = GateOf(h)
  <2>1. Begun' = Begun
    BY <1>1 DEF Begun
  <2>2. Standing(h, passed', Begun', gestureOf', outcome')
          = Standing(h, passed, Begun, gestureOf, outcome)
    BY <1>1, <2>1 DEF Standing
  <2> QED
    BY <1>1, <2>2, GateStands
<1>2. CASE UNCHANGED <<passed, failed, holds, gestureOf, outcome>>
  BY <1>1, <1>2, GateStill DEF Gate!gateVars
<1>p. failed \subseteq passed
  BY DEF GateInv, UserInv, GestureInv
<1>3. CASE /\ ~Held /\ UNCHANGED <<holds, gestureOf, outcome>>
           /\ Passes(g) \/ (PassesUnjudged(g) /\ ~(g \in passed /\ g \notin failed))
           /\ \A n \in Begun : gestureOf[n] # g
  <2>1. CASE g \in passed
    BY <1>2, <1>3, <1>p, <2>1 DEF Passes, PassesUnjudged
  <2>2. CASE g \notin passed
    <3>1. GateOf(g) = "none" /\ \A h \in Gestures : GateOf(h) # "held"
      BY <1>3, <2>2, UnusedIsFresh DEF Unused
    <3>2. g \in passed' /\ (g \in failed' <=> PassesUnjudged(g))
      BY <1>3, <1>p, <2>2 DEF Passes, PassesUnjudged
    <3>3. edits = 0 /\ Holding => g \in failed'
      <4>1. g \in passed' /\ edits' = edits /\ (Holding' <=> Holding)
        BY <3>2 DEF PolicyVars, Holding
      <4> QED
        BY <4>1 DEF UserInv, HeldThroughout
    <3>4. GateOf(g)' = IF g \in failed' THEN "failed" ELSE "passed"
      <4>1. Standing(g, passed', Begun', gestureOf', outcome') = "passed"
        BY <3>2 DEF Standing
      <4> QED
        BY <4>1, GateStands
    <3>5. GateOf(g)' \in {"held"} \cup Gate!Unheld
      BY <3>3, <3>4 DEF Gate!Unheld
    <3>6. \A h \in Gestures : h # g => GateOf(h)' = GateOf(h)
      BY <1>1, <1>3 DEF Passes, PassesUnjudged
    <3>7. Gate!Becomes(g, {"held"} \cup Gate!Unheld)
      BY <3>5, <3>6, GateBecomes
    <3> QED
      BY <3>1, <3>7 DEF Gate!Meet, Gate!GateNext
  <2> QED
    BY <2>1, <2>2
<1>4. CASE /\ ~Held /\ Holding /\ ~ReusesVerdict(label)
           /\ StartHold(g) /\ UNCHANGED <<passed, failed, outcome>>
  <2>1. /\ Unused(g)
        /\ GateOf(g) = "none" /\ \A h \in Gestures : GateOf(h) # "held"
    BY <1>4, UnusedIsFresh
  <2>2. /\ TypeOK /\ holds \in Nat /\ holds + 1 \in Holds
        /\ holds' = holds + 1 /\ gestureOf' = [gestureOf EXCEPT ![holds + 1] = g]
        /\ passed' = passed /\ failed' = failed /\ outcome' = outcome
    BY <1>4, HoldsNumbered DEF StartHold, GateInv
  <2>3. /\ Begun' = Begun \cup {holds + 1} /\ holds + 1 \notin Begun
        /\ gestureOf'[holds + 1] = g /\ \A n \in Begun : gestureOf'[n] = gestureOf[n]
    <3>1. Begun' = Begun \cup {holds + 1} /\ holds + 1 \notin Begun
      BY <2>2 DEF Begun
    <3>2. \A n \in Begun : n \in Holds
      BY <2>2, HoldsNumbered
    <3>3. gestureOf \in [Holds -> 0..MaxGestures]
      BY <2>2 DEF TypeOK
    <3> QED
      BY <2>2, <3>1, <3>2, <3>3
  <2>4. outcome'[holds + 1] = "none"
    BY <2>2 DEF GateInv, HoldInv, NoneAhead
  <2>5. GateOf(g)' = "held"
    <3>1. Standing(g, passed', Begun', gestureOf', outcome') = "held"
      <4>1. g \notin passed' /\ OnlyHold(g, Begun', gestureOf', holds + 1)
        BY <2>1, <2>2, <2>3 DEF Unused, OnlyHold
      <4> QED
        BY <2>4, <4>1, HeldByItsHold
    <3>2. g \notin failed'
      BY <2>1, <2>2, <1>p DEF Unused
    <3> QED
      BY <3>1, <3>2, GateStands
  <2>6. ASSUME NEW h \in Gestures, h # g PROVE GateOf(h)' = GateOf(h)
    <3>1. /\ h \in passed' <=> h \in passed
          /\ \A n \in Begun : n \in Begun' /\ gestureOf'[n] = gestureOf[n]
          /\ \A n \in Begun' : gestureOf'[n] = h => n \in Begun
          /\ \A n \in Begun : outcome'[n] = outcome[n]
      BY <2>2, <2>3, <2>6
    <3>2. \A n \in Begun : gestureOf[n] = h => h \notin passed
      BY DEF GateInv, UserInv, GestureInv
    <3>3. \A m, n \in Begun : gestureOf[m] = h /\ gestureOf[n] = h => m = n
      BY DEF GateInv, UserInv, GestureInv
    <3>4. Standing(h, passed', Begun', gestureOf', outcome')
            = Standing(h, passed, Begun, gestureOf, outcome)
      BY <3>1, <3>2, <3>3, StandsAsBefore
    <3> QED
      BY <2>2, <3>4, GateStands
  <2>7. Gate!Becomes(g, {"held"} \cup Gate!Unheld)
    BY <2>5, <2>6, GateBecomes
  <2> QED
    BY <2>1, <2>7 DEF Gate!Meet, Gate!GateNext
<1>5. CASE ~Held /\ policy # "allow" /\ ReusesVerdict(label) /\ RepeatEvent(label, g)
           /\ UNCHANGED holdVars
  <2>1. CASE last.held
    BY <1>2, <1>5, <2>1 DEF RepeatEvent, holdVars
  <2>2. CASE ~last.held
    <3>1. \A n \in Begun : gestureOf[n] # g
      BY <1>5, <2>2 DEF LetsPass
    <3>2. Passes(g) \/ (last.failed /\ PassesUnjudged(g))
      BY <1>5, <2>2 DEF RepeatEvent
    <3> QED
      BY <1>3, <1>5, <3>1, <3>2 DEF FailsAtOnce, holdVars
  <2> QED
    BY <2>1, <2>2
<1>6. CASE ~Held /\ policy # "allow" /\ ~ReusesVerdict(label) /\ FailOpen(g) /\ UNCHANGED holdVars
  <2>1. policy = "log" \/ Holding
    BY <1>6 DEF GateInv, TypeOK, Policies, Holding
  <2>2. \A n \in Begun : gestureOf[n] # g
    BY <1>6, <2>1 DEF LetsPass, Unused
  <2> QED
    BY <1>3, <1>6, <2>2 DEF FailOpen, FailsAtOnce, holdVars
<1>7. CASE /\ ~Held /\ policy \in {"allow", "log"} /\ UNCHANGED holdVars
           /\ Passes(g) /\ (policy = "log" => ~ReusesVerdict(label))
  BY <1>3, <1>7 DEF LetsPass, holdVars
<1> QED
  BY <1>2, <1>4, <1>5, <1>6, <1>7 DEF HandleSubmitAttempt, LogGesture, holdVars

\* The end of a hold is the end of what is held.
LEMMA GateEnds ==
    ASSUME GateInv, Held, NEW how \in Gate!Ends, EndHold(how),
           UNCHANGED <<userVars, holds, gestureOf>>
    PROVE  Gate!GateNext
<1> PICK g : g = gestureOf[holds]
  OBVIOUS
<1>1. TypeOK /\ holds \in Holds /\ holds \in Begun /\ outcome[holds] = "none"
  <2>1. TypeOK /\ holds \in Holds /\ outcome[holds] = "none"
    BY DEF GateInv, HoldInv, HoldIsLast
  <2> QED
    BY <2>1, HoldsNumbered
<1>2. /\ outcome' = [outcome EXCEPT ![holds] = how] /\ outcome \in [Holds -> Outcomes]
      /\ how \notin {"none", "held"} /\ passed' = passed /\ failed' = failed
      /\ Begun' = Begun /\ gestureOf' = gestureOf
  BY <1>1 DEF EndHold, TypeOK, Gate!Ends, userVars, Begun
<1>3. \A n \in Begun : n # holds => outcome'[n] = outcome[n]
  BY <1>1, <1>2, HoldsNumbered
<1>4. /\ g \in Gestures
      /\ \A m, n \in Begun : gestureOf[m] = gestureOf[n] => m = n
      /\ \A n \in Begun : gestureOf[n] \notin passed
  <2>1. g \in 1..gestures /\ gestures \in 0..MaxGestures
    BY <1>1 DEF GateInv, UserInv, GestureInv, TypeOK
  <2> QED
    BY <1>1, <2>1, SubmitAssumption DEF GateInv, UserInv, GestureInv, Gestures
<1>5. g \notin passed /\ g \notin failed /\ OnlyHold(g, Begun, gestureOf, holds)
  BY <1>1, <1>4 DEF OnlyHold, GateInv, UserInv, GestureInv
<1>6. GateOf(g) = "held" /\ GateOf(g)' = how
  <2>1. Standing(g, passed, Begun, gestureOf, outcome) = "held"
    BY <1>1, <1>5, HeldByItsHold
  <2>2. outcome'[holds] = how /\ outcome'[holds] # "none"
    BY <1>1, <1>2
  <2>3. Standing(g, passed, Begun, gestureOf, outcome') = outcome'[holds]
    BY <1>5, <2>2, EndedByItsHold
  <2> QED
    BY <1>2, <1>5, <2>1, <2>2, <2>3, GateStands
<1>7. ASSUME NEW h \in Gestures, h # g PROVE GateOf(h)' = GateOf(h)
  <2>1. \A n \in Begun : gestureOf[n] = h => n # holds
    BY <1>7
  <2>2. \A n \in Begun : gestureOf[n] = h => outcome'[n] = outcome[n]
    BY <1>3, <2>1
  <2>3. \A n \in Begun : gestureOf[n] = h => h \notin passed
    BY <1>4
  <2>4. \A m, n \in Begun : gestureOf[m] = h /\ gestureOf[n] = h => m = n
    BY <1>4
  <2>5. Standing(h, passed, Begun, gestureOf, outcome')
          = Standing(h, passed, Begun, gestureOf, outcome)
    BY <2>2, <2>3, <2>4, StandsAsBefore
  <2> QED
    BY <1>2, <2>5, GateStands
<1>8. Gate!Becomes(g, Gate!Ends)
  BY <1>4, <1>6, <1>7, GateBecomes DEF userVars, PolicyVars
<1> QED
  BY <1>4, <1>6, <1>8 DEF Gate!End, Gate!GateNext

\* An event of a gesture is one of a gesture that was never held or passed, if
\* it is held, and of one that was never held, if it passes.
LEMMA EventFits ==
    ASSUME GateInv, Press \/ PressEnter \/ Release \/ RepeatEnter
    PROVE  \E label, g :
             /\ g \in Gestures /\ HandleSubmitAttempt(label, g)
             /\ Holding /\ ~ReusesVerdict(label) => Unused(g)
             /\ LetsPass(label) => \A n \in Begun : gestureOf[n] # g
             /\ FailsAtOnce(label, g)
             /\ UNCHANGED PolicyVars
<1>1. /\ gestures \in 0..MaxGestures /\ MaxGestures \in Nat
      /\ ~(Holding /\ policy \in {"allow", "log"})
  BY SubmitAssumption DEF GateInv, TypeOK, Holding
<1>2. ASSUME NEW label, Begin(label)
      PROVE  /\ gestures + 1 \in Gestures /\ HandleSubmitAttempt(label, gestures + 1)
             /\ Unused(gestures + 1) /\ UNCHANGED PolicyVars
  <2>1. gestures + 1 \in Gestures /\ gestures + 1 \notin 1..gestures
    BY <1>1, <1>2 DEF Begin, Gestures
  <2>2. Unused(gestures + 1)
    BY <2>1 DEF GateInv, UserInv, GestureInv, Unused
  <2> QED
    BY <1>2, <2>1, <2>2 DEF Begin, PolicyVars
<1>3. CASE Press \/ PressEnter
  BY <1>2, <1>3 DEF Press, PressEnter, Unused, FailsAtOnce
<1>4. ASSUME NEW label, NEW g, g \in {pressed.mouse, pressed.key}, g # NoGesture,
             HandleSubmitAttempt(label, g), UNCHANGED PolicyVars,
             \A n \in Begun : gestureOf[n] = g => Holding /\ last.held /\ ReusesVerdict(label),
             g \in passed =>
                policy = "allow" \/ (ReusesVerdict(label) /\ (last.failed => g \in failed))
      PROVE  /\ g \in Gestures
             /\ Holding /\ ~ReusesVerdict(label) => Unused(g)
             /\ LetsPass(label) => \A n \in Begun : gestureOf[n] # g
             /\ FailsAtOnce(label, g)
  <2>1. pressed.mouse \in 0..MaxGestures /\ pressed.key \in 0..MaxGestures
    BY DEF GateInv, TypeOK
  <2>2. g \in Gestures
    BY <1>1, <1>4, <2>1 DEF Gestures, NoGesture
  <2> QED
    BY <1>1, <1>4, <2>2 DEF Unused, LetsPass, FailsAtOnce
<1>5. CASE Release
  <2>1. last.age \in {"fresh", "recent"} /\ ~last.completed => ReusesVerdict("click")
    BY DEF ReusesVerdict
  <2>2. PICK g : g = pressed.mouse
    OBVIOUS
  <2>3. /\ \A n \in Begun : gestureOf[n] = g => Holding /\ last.held /\ ReusesVerdict("click")
        /\ g \in passed =>
              policy = "allow" \/ (ReusesVerdict("click") /\ (last.failed => g \in failed))
    BY <2>1, <2>2 DEF GateInv, UserInv, HeldPress, PassedPress
  <2>4. g # NoGesture /\ HandleSubmitAttempt("click", g) /\ UNCHANGED PolicyVars
    BY <1>5, <2>2 DEF Release, PolicyVars
  <2> QED
    BY <1>4, <2>2, <2>3, <2>4
<1>6. CASE RepeatEnter
  <2>1. last.age # "never" => ReusesVerdict("repeat")
    BY DEF ReusesVerdict
  <2>2. PICK g : g = pressed.key
    OBVIOUS
  <2>3. /\ \A n \in Begun : gestureOf[n] = g => Holding /\ last.held /\ ReusesVerdict("repeat")
        /\ g \in passed =>
              policy = "allow" \/ (ReusesVerdict("repeat") /\ (last.failed => g \in failed))
    BY <2>1, <2>2 DEF GateInv, UserInv, HeldPress, PassedPress
  <2>4. g # NoGesture /\ HandleSubmitAttempt("repeat", g) /\ UNCHANGED PolicyVars
    BY <1>6, <2>2 DEF RepeatEnter, PolicyVars
  <2> QED
    BY <1>4, <2>2, <2>3, <2>4
<1> QED
  BY <1>3, <1>5, <1>6

LEMMA GateUnmoved ==
    ASSUME UNCHANGED <<passed, failed, holds, gestureOf, outcome>>, NEW g
    PROVE  GateOf(g)' = GateOf(g)
<1>1. Begun' = Begun
  BY DEF Begun
<1>2. Standing(g, passed', Begun', gestureOf', outcome')
        = Standing(g, passed, Begun, gestureOf, outcome)
  BY <1>1
<1> QED
  BY <1>2, GateStands

\* Nothing of the gate changes with the files, the clock and the worker.
LEMMA GateQuiet ==
    ASSUME UNCHANGED <<passed, failed, holds, gestureOf, outcome, policy, edits>>
    PROVE  UNCHANGED Gate!gateVars
<1>1. \A h \in Gestures : GateOf(h)' = GateOf(h)
  BY GateUnmoved
<1> QED
  BY <1>1, GateStill DEF Gate!gateVars, PolicyVars

LEMMA GateStep ==
    ASSUME GateInv, GateInv', [Next]_vars
    PROVE  Gate!GateNext \/ UNCHANGED Gate!gateVars
<1>1. CASE Press \/ PressEnter \/ Release \/ RepeatEnter
  <2>1. PICK label, g :
             /\ g \in Gestures /\ HandleSubmitAttempt(label, g)
             /\ Holding /\ ~ReusesVerdict(label) => Unused(g)
             /\ LetsPass(label) => \A n \in Begun : gestureOf[n] # g
             /\ FailsAtOnce(label, g)
             /\ UNCHANGED PolicyVars
    BY <1>1, EventFits
  <2> QED
    BY <2>1, GateHandled DEF GateInv
<1>2. CASE Recovered \/ InspectionsSettle \/ WaitExpires \/ VerdictArrives \/ VerdictTimeout
  <2>1. /\ Held /\ UNCHANGED <<userVars, holds, gestureOf>>
        /\ UNCHANGED outcome \/ \E how \in Gate!Ends : EndHold(how)
    BY <1>2, HoldEndsOrGoesOn DEF GateInv
  <2>2. CASE UNCHANGED outcome
    BY <2>1, <2>2, GateQuiet DEF userVars
  <2> QED
    BY <2>1, <2>2, GateEnds
<1>3. CASE PolicyChanges
  <2>1. UNCHANGED <<passed, failed, holds, gestureOf, outcome>>
    BY <1>3 DEF PolicyChanges, holdVars
  <2>2. [g \in Gestures |-> GateOf(g)]' = [g \in Gestures |-> GateOf(g)]
    BY <2>1, GateUnmoved, Zenon
  <2>3. (edits = 0 /\ Holding)' = FALSE
    BY <1>3 DEF PolicyChanges, GateInv, TypeOK
  <2> QED
    BY <2>2, <2>3 DEF Gate!Relax, Gate!GateNext
<1>4. CASE UNCHANGED <<passed, failed, holds, gestureOf, outcome, policy, edits>>
  BY <1>4, GateQuiet
<1>5. \/ UNCHANGED <<passed, failed, holds, gestureOf, outcome, policy, edits>>
      \/ PolicyChanges
      \/ Press \/ PressEnter \/ Release \/ RepeatEnter
      \/ Recovered \/ InspectionsSettle \/ WaitExpires \/ VerdictArrives \/ VerdictTimeout
  BY DEF Next, User, Guard, ReleaseEnter, Attachment, Attach, Appear, Move, ComposerCloses,
     TimePasses, InspectionEnds, FetchEnds, Evaluation, EvaluateActivity,
     EvaluationFails, WorkerStops, vars, userVars, holdVars
<1> QED
  BY <1>1, <1>2, <1>3, <1>4, <1>5

LEMMA GateInitially == Init => OpenIsLast /\ Gate!GateInit
<1> SUFFICES ASSUME Init PROVE OpenIsLast /\ Gate!GateInit
  OBVIOUS
<1>1. Begun = {} /\ passed = {} /\ failed = {}
  BY DEF Init, Begun
<1>2. ASSUME NEW g \in Gestures PROVE GateOf(g) = "none"
  <2>1. Standing(g, passed, Begun, gestureOf, outcome) = "none"
    BY <1>1, StandsAlone
  <2> QED
    BY <1>1, <2>1, GateStands
<1>3. (edits = 0 /\ Holding) \in BOOLEAN
  OBVIOUS
<1> QED
  BY <1>1, <1>2, <1>3 DEF OpenIsLast, Gate!GateInit

\* The guard implements the gate: each gesture passes, is held, one at a time, or
\* meets a guard that fails, and a hold that ended is not taken up again.
THEOREM GuardImplementsGate == Spec => ImplementsSendGate
<1>1. Init => GateInv /\ Gate!GateInit
  BY Initially, InvariantInitially, GateInitially DEF GateInv
<1>2. GateInv /\ GateInv' /\ [Next]_vars => [Gate!GateNext]_(Gate!gateVars)
  BY GateStep
<1> QED
  BY <1>1, <1>2, OpenStep, PTL DEF Spec, ImplementsSendGate, Gate!GateSpec

-----------------------------------------------------------------------------
(* The guard on replies.                                                    *)

\* What ReadableIsReleased needs to be inductive: the observer is there as soon
\* as the policy asks for it, a reply is handed to decide only when it is long
\* enough, with the text it has then, and under a policy that has blocked from the start every reply
\* that is not yet handed to decide is masked and every request holds it.
ReplyInvariant ==
    /\ ReplyTypeOK
    /\ cell # "allow" => installed
    /\ \A r \in seen : Present(r) /\ inspected[r] \in Enough..length[r]
    /\ \A r \in Replies : request[r].pc # "none" => r \in seen
    /\ cellEdits = 0 /\ cell = "block" =>
          \A r \in Replies :
             /\ Present(r) /\ r \notin seen => held[r] # "none"
             /\ request[r].pc = "asked" => request[r].holding /\ ~request[r].blocked
             /\ r \in seen /\ held[r] = "none"
                   => request[r].pc = "answered" /\ ~request[r].blocked

LEMMA MaskedType ==
    ASSUME ReplyTypeOK, NEW grown, NEW p
    PROVE  Masked(grown, p) \in [Replies -> {"none", "checking", "withheld"}]
  BY DEF Masked, ReplyTypeOK

\* The observer never unmasks, and a blocking policy masks what is new.
LEMMA Masking ==
    ASSUME NEW grown, NEW p, NEW r \in Replies
    PROVE  /\ held[r] # "none" => Masked(grown, p)[r] # "none"
           /\ p = "block" /\ grown[r] > 0 /\ r \notin seen => Masked(grown, p)[r] # "none"
           /\ r \in seen => Masked(grown, p)[r] = held[r]
  BY DEF Masked

\* A reply that grows, and a page that changes about it.
LEMMA ObservedStep ==
    ASSUME ReplyInvariant, NEW grown \in [Replies -> 0..MaxLength], length' = grown,
           \A r \in Replies : grown[r] >= length[r],
           \/ Observe(grown)
           \/ /\ UNCHANGED <<held, timer>>
              /\ \A r \in Replies : length[r] = 0 => grown[r] = 0,
           UNCHANGED <<cell, cellEdits, installed, seen, inspected, request>>
    PROVE  ReplyInvariant'
<1>1. ReplyTypeOK'
  BY MaskedType DEF ReplyInvariant, ReplyTypeOK, Observe
<1>2. \A r \in Replies : length[r] \in Nat /\ grown[r] \in Nat
  BY DEF ReplyInvariant, ReplyTypeOK
<1>3. \A r \in Replies : Present(r) => Present(r)'
  BY <1>2 DEF Present
<1>4. ASSUME cellEdits = 0, cell = "block", NEW r \in Replies
      PROVE  /\ Present(r)' /\ r \notin seen => held'[r] # "none"
             /\ r \in seen => held'[r] = held[r]
  <2>1. CASE Observe(grown)
    BY <1>4, <2>1, Masking DEF ReplyInvariant, Observe, Present
  <2>2. CASE UNCHANGED held /\ (length[r] = 0 => grown[r] = 0)
    BY <1>2, <1>4, <2>2 DEF ReplyInvariant, Present
  <2> QED
    BY <2>1, <2>2
<1>5. /\ cell' # "allow" => installed'
      /\ \A r \in seen' : Present(r)'
      /\ \A r \in Replies : request'[r].pc # "none" => r \in seen'
  BY <1>3 DEF ReplyInvariant, ReplyTypeOK
<1>6. \A r \in seen' : inspected'[r] \in Enough..length'[r]
  BY <1>2, ReplyAssumption DEF ReplyInvariant, ReplyTypeOK
<1> QED
  BY <1>1, <1>4, <1>5, <1>6 DEF ReplyInvariant

LEMMA CellStep == ReplyInvariant /\ CellChanges => ReplyInvariant'
<1> SUFFICES ASSUME ReplyInvariant, CellChanges PROVE ReplyInvariant'
  OBVIOUS
<1>0. UNCHANGED <<length, seen, inspected, timer, request>>
  BY DEF CellChanges
<1>1. PICK p \in Cells : /\ cell' = p /\ installed' = Engaged(p)
                         /\ held' = IF ~installed THEN Masked(length, p) ELSE held
  BY DEF CellChanges
<1>2. cellEdits' \in 1..MaxCellEdits
  BY ReplyAssumption DEF CellChanges, ReplyInvariant, ReplyTypeOK
<1>3. ReplyTypeOK'
  <2>1. held' \in [Replies -> {"none", "checking", "withheld"}]
    BY <1>1, MaskedType DEF ReplyInvariant, ReplyTypeOK
  <2>2. installed' \in BOOLEAN
    BY <1>1, Zenon DEF Engaged
  <2>3. cellEdits' \in 0..MaxCellEdits
    BY <1>2, ReplyAssumption
  <2> QED
    BY <1>0, <1>1, <2>1, <2>2, <2>3 DEF ReplyInvariant, ReplyTypeOK
<1>4. \A r \in Replies : Present(r)' = Present(r)
  BY DEF CellChanges, Present
<1>5. cell' # "allow" => installed'
  BY <1>1, Zenon DEF Engaged
<1>6. cellEdits' # 0
  BY <1>2
<1>7. \A r \in seen' : Present(r)' /\ inspected'[r] \in Enough..length'[r]
  BY <1>0, <1>4 DEF ReplyInvariant, ReplyTypeOK
<1> QED
  BY <1>0, <1>3, <1>5, <1>6, <1>7 DEF ReplyInvariant

Request == [pc : {"none", "asked", "answered"}, holding : BOOLEAN, blocked : BOOLEAN]
Asked(b) == [NoRequest EXCEPT !.pc = "asked", !.holding = b]

LEMMA AskedFields ==
    \A b \in BOOLEAN : /\ Asked(b) \in Request
                       /\ Asked(b).pc = "asked" /\ Asked(b).holding = b
                       /\ Asked(b).blocked = FALSE
  BY DEF Asked, NoRequest, Request

LEMMA HarvestStep == ReplyInvariant /\ Harvest => ReplyInvariant'
<1> SUFFICES ASSUME ReplyInvariant, Harvest PROVE ReplyInvariant'
  OBVIOUS
<1>1. \A r \in Replies : length[r] \in Nat /\ (r \in Ripe => Present(r) /\ r \notin seen)
  BY ReplyAssumption DEF ReplyInvariant, ReplyTypeOK, Ripe, Present
<1>2. Ripe \subseteq Replies /\ seen' = seen \cup Ripe
  BY DEF Ripe, Harvest
<1>3. ASSUME NEW r \in Replies
      PROVE  /\ r \in Ripe /\ cell = "block" => request'[r] = Asked(TRUE)
             /\ r \in Ripe /\ cell # "block" => request'[r] \in {Asked(FALSE), request[r]}
             /\ r \notin Ripe => request'[r] = request[r]
  <2>1. request'[r] = IF r \in Ripe /\ cell # "log" THEN Asked(cell = "block") ELSE request[r]
    BY Zenon DEF Harvest, Asked
  <2>2. cell = "block" => Asked(cell = "block") = Asked(TRUE)
    BY Zenon
  <2>3. cell # "block" => Asked(cell = "block") = Asked(FALSE)
    BY Zenon
  <2> QED
    BY <2>1, <2>2, <2>3, Zenon
<1>4. ReplyTypeOK'
  <2>1. request' \in [Replies -> [pc : {"none", "asked", "answered"}, holding : BOOLEAN,
                                  blocked : BOOLEAN]]
    <3>1. \A r \in Replies : request[r] \in Request /\ request'[r] \in Request
      BY <1>3, AskedFields DEF ReplyInvariant, ReplyTypeOK, Request
    <3>2. \E R : request' = [r \in Replies |-> R[r]]
      <4> DEFINE R == [r \in Replies |->
                         IF r \in Ripe /\ cell # "log" THEN Asked(cell = "block") ELSE request[r]]
      <4>1. request' = R
        BY Zenon DEF Harvest, Asked
      <4> QED
        BY <4>1
    <3> QED
      BY <3>1, <3>2 DEF Request
  <2> QED
    BY <1>2, <2>1 DEF Harvest, ReplyInvariant, ReplyTypeOK
<1>5. \A r \in Replies : Present(r)' = Present(r)
  BY DEF Harvest, Present
<1>7. \A r \in seen' : inspected'[r] \in Enough..length'[r]
  BY <1>1, <1>2, ReplyAssumption DEF ReplyInvariant, ReplyTypeOK, Harvest, Ripe
<1>6. ASSUME cellEdits = 0, cell = "block", NEW r \in Replies
      PROVE  /\ Present(r) /\ r \notin seen' => held[r] # "none"
             /\ request'[r].pc = "asked" => request'[r].holding /\ ~request'[r].blocked
             /\ r \in seen' /\ held[r] = "none"
                   => request'[r].pc = "answered" /\ ~request'[r].blocked
  <2>1. CASE r \in Ripe
    <3>1. request'[r] = Asked(TRUE)
      BY <1>3, <1>6, <2>1
    <3> QED
      BY <1>1, <1>6, <2>1, <3>1, AskedFields DEF ReplyInvariant
  <2>2. CASE r \notin Ripe
    BY <1>2, <1>3, <1>6, <2>2 DEF ReplyInvariant
  <2> QED
    BY <2>1, <2>2
<1> QED
  BY <1>1, <1>2, <1>3, <1>4, <1>5, <1>6, <1>7 DEF ReplyInvariant, ReplyTypeOK, Harvest

LEMMA VerdictStep == ASSUME ReplyInvariant, NEW r \in Replies, Verdict(r) PROVE ReplyInvariant'
<1>1. /\ request[r].pc = "asked" /\ r \in seen
      /\ request'[r].pc = "answered"
      /\ \A q \in Replies \ {r} : request'[q] = request[q] /\ held'[q] = held[q]
      /\ UNCHANGED <<cell, cellEdits, installed, length, seen, inspected, timer>>
  BY DEF Verdict, VerdictBlocks, VerdictReleases, ReplyInvariant, ReplyTypeOK
<1>2. \/ request[r].holding /\ held'[r] = "withheld"
      \/ request'[r].blocked = request[r].blocked
      \/ ~request[r].holding
  BY DEF Verdict, VerdictBlocks, VerdictReleases, ReplyInvariant, ReplyTypeOK
<1>3. ReplyTypeOK'
  <2>1. request[r] \in Request
    BY DEF ReplyInvariant, ReplyTypeOK, Request
  <2>2. /\ [request[r] EXCEPT !.pc = "answered", !.blocked = TRUE] \in Request
        /\ [request[r] EXCEPT !.pc = "answered"] \in Request
    BY <2>1 DEF Request
  <2>3. \/ request' = [request EXCEPT ![r] = [request[r] EXCEPT !.pc = "answered", !.blocked = TRUE]]
        \/ request' = [request EXCEPT ![r] = [request[r] EXCEPT !.pc = "answered"]]
    BY Zenon DEF Verdict, VerdictBlocks, VerdictReleases
  <2>4. request' \in [Replies -> Request]
    <3> DEFINE one == [request[r] EXCEPT !.pc = "answered", !.blocked = TRUE]
               other == [request[r] EXCEPT !.pc = "answered"]
    <3>1. request \in [Replies -> Request] /\ one \in Request /\ other \in Request
      BY <2>2 DEF ReplyInvariant, ReplyTypeOK, Request
    <3> HIDE DEF one, other
    <3> QED
      BY <2>3, <3>1 DEF one, other
  <2>5. held' \in [Replies -> {"none", "checking", "withheld"}]
    BY DEF Verdict, VerdictBlocks, VerdictReleases, ReplyInvariant, ReplyTypeOK
  <2> QED
    BY <1>1, <2>4, <2>5 DEF ReplyInvariant, ReplyTypeOK, Request
<1>4. \A q \in Replies : Present(q)' = Present(q)
  BY <1>1 DEF Present
<1>5. ASSUME cellEdits = 0, cell = "block", NEW q \in Replies
      PROVE  /\ Present(q) /\ q \notin seen => held'[q] # "none"
             /\ request'[q].pc = "asked" => request'[q].holding /\ ~request'[q].blocked
             /\ q \in seen /\ held'[q] = "none"
                   => request'[q].pc = "answered" /\ ~request'[q].blocked
  <2>1. CASE q = r
    BY <1>1, <1>2, <1>5, <2>1 DEF ReplyInvariant
  <2>2. CASE q # r
    BY <1>1, <1>5, <2>2 DEF ReplyInvariant
  <2> QED
    BY <2>1, <2>2
<1>6. \A q \in Replies : request'[q].pc # "none" => q \in seen'
  BY <1>1 DEF ReplyInvariant
<1>7. cell' # "allow" => installed'
  BY <1>1, Zenon DEF ReplyInvariant
<1>8. \A q \in seen' : Present(q)' /\ inspected'[q] \in Enough..length'[q]
  BY <1>1, <1>4 DEF ReplyInvariant, ReplyTypeOK
<1> QED
  BY <1>1, <1>3, <1>4, <1>5, <1>6, <1>7, <1>8 DEF ReplyInvariant

LEMMA ReplyStep == ReplyInvariant /\ [ReplyNext]_replyVars => ReplyInvariant'
<1> SUFFICES ASSUME ReplyInvariant, [ReplyNext]_replyVars PROVE ReplyInvariant'
  OBVIOUS
<1>1. ASSUME NEW r \in Replies, NEW observed \in BOOLEAN, Grow(r, observed)
      PROVE  ReplyInvariant'
  <2>1. length[r] \in 0..MaxLength /\ length[r] < MaxLength
        /\ length' = [length EXCEPT ![r] = length[r] + 1]
    BY <1>1 DEF Grow, ReplyInvariant, ReplyTypeOK
  <2>2. /\ length' \in [Replies -> 0..MaxLength]
        /\ \A q \in Replies : length'[q] >= length[q]
    BY <2>1, ReplyAssumption DEF ReplyInvariant, ReplyTypeOK
  <2>3. \/ Observe(length')
        \/ /\ UNCHANGED <<held, timer>>
           /\ \A q \in Replies : length[q] = 0 => length'[q] = 0
    BY <1>1, <2>1 DEF Grow, Present, ReplyInvariant, ReplyTypeOK
  <2> QED
    BY <1>1, <2>2, <2>3, ObservedStep DEF Grow
<1>2. CASE PageChanges
  <2>1. /\ length \in [Replies -> 0..MaxLength] /\ length' = length
        /\ \A q \in Replies : length[q] >= length[q]
    BY <1>2 DEF PageChanges, ReplyInvariant, ReplyTypeOK
  <2> QED
    BY <1>2, <2>1, ObservedStep DEF PageChanges
<1>3. CASE UNCHANGED replyVars
  BY <1>3 DEF replyVars, ReplyInvariant, ReplyTypeOK, Present
<1> QED
  BY <1>1, <1>2, <1>3, CellStep, HarvestStep, VerdictStep DEF ReplyNext

\* Under a policy that blocks, no reply can be read before the request that
\* its settled text was handed to has ended, nor after a block, for any number
\* of replies of any length. (The text that comes after is not inspected.)
THEOREM NoneIsReadUnreleased == ReplySpec => []ReadableIsReleased
<1>1. ReplyInit => ReplyInvariant
  <2> SUFFICES ASSUME ReplyInit PROVE ReplyInvariant
    OBVIOUS
  <2>1. installed \in BOOLEAN /\ (cell # "allow" => installed)
    BY Zenon DEF ReplyInit
  <2>2. \A r \in Replies : ~Present(r)
    BY DEF ReplyInit, Present
  <2>3. /\ cell \in Cells /\ cellEdits = 0 /\ length = [r \in Replies |-> 0]
        /\ held = [r \in Replies |-> "none"] /\ seen = {} /\ timer = FALSE
        /\ inspected = [r \in Replies |-> 0]
        /\ request = [r \in Replies |-> NoRequest]
    BY Zenon DEF ReplyInit
  <2>4. ReplyTypeOK
    <3>0. inspected \in [Replies -> 0..MaxLength]
      BY <2>3, ReplyAssumption
    <3>1. NoRequest \in Request
      BY DEF NoRequest, Request
    <3>2. request \in [Replies -> Request]
      BY <2>3, <3>1
    <3>3. /\ length \in [Replies -> 0..MaxLength]
          /\ held \in [Replies -> {"none", "checking", "withheld"}]
          /\ cellEdits \in 0..MaxCellEdits
      BY <2>3, ReplyAssumption
    <3> QED
      BY <2>1, <2>3, <3>0, <3>2, <3>3, Zenon DEF ReplyTypeOK, Request
  <2> QED
    BY <2>1, <2>2, <2>3, <2>4 DEF ReplyInvariant, NoRequest
<1>2. ReplyInvariant => ReadableIsReleased
  BY DEF ReplyInvariant, ReadableIsReleased
<1> QED
  BY <1>1, <1>2, ReplyStep, PTL DEF ReplySpec

=============================================================================
