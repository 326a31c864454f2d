---------------------------- MODULE SubmitGuard ----------------------------
(***************************************************************************)
(* The guard of the browser extension on the Send control of one composer  *)
(* (activity-guard.js), with the inspections of what is attached           *)
(* (attachment-inspector.js) and the worker that asks the server           *)
(* (evaluateActivity in background.js).                                    *)
(*                                                                         *)
(* A gesture on the control is suppressed, its hold waits for inspections  *)
(* and then for a verdict, and the gesture is replayed or the user is told *)
(* why not. The user goes on meanwhile: other gestures, files added and    *)
(* removed, the composer closed. What the user types is the one item Text; *)
(* whether an item is sensitive is the server's to say.                    *)
(***************************************************************************)
EXTENDS Naturals

CONSTANTS
    Files,          \* what may be attached to the message
    Text,           \* its subject and body
    MaxGestures,    \* bound on the gestures of the user
    MaxHolds,       \* bound on the gestures that are held
    MaxEdits        \* bound on the changes of the policy

ASSUME SubmitAssumption ==
    /\ Text \notin Files
    /\ MaxGestures \in Nat /\ MaxHolds \in Nat /\ MaxEdits \in Nat

Gestures == 1..MaxGestures
Holds == 1..MaxHolds
Items == Files \cup {Text}

VARIABLES
    policy,     \* what cellAction and auditMode read from currentPolicy
    edits,      \* how often it changed
    open,       \* the composer is still in the page
    file,       \* where each file is, what the inspector knows of it and
                \* when it last saw it in the composer
    gestures,   \* how many gestures the user has begun
    pressed,    \* the gesture that holds down the button, or the Enter key
    last,       \* the button's entry in lastVerdict
    holds,      \* how many gestures have been held
    hold,       \* the one that is held, the button's place in awaitingVerdict
    job,        \* the evaluations of the worker
    outcome,    \* ghost: how each hold ended
    gestureOf,  \* ghost: the gesture each hold is for
    passed,     \* ghost: gestures of which the application got an event
    failed      \* ghost: those of them it got because the guard failed open

userVars == <<policy, edits, open, gestures, pressed, last, passed, failed>>
holdVars == <<holds, hold, outcome, gestureOf>>
vars == <<userVars, file, holdVars, job>>

-----------------------------------------------------------------------------
(* What is attached.                                                        *)

Places == {"out", "in", "redrawn", "removed"}
Tracked == {"pending", "done"}
Records == Tracked \cup {"none", "inline", "fetching", "stray"}
Sights == {"unseen", "seen", "missed"}

\* getResultsForContainer, for one record: it is dropped when its file, once
\* seen, is missed twice in a row.
Look(a) ==
    CASE a.record \notin Tracked \/ (a.place # "in" /\ a.sight = "unseen") -> a
      [] a.record \in Tracked /\ a.place = "in" -> [a EXCEPT !.sight = "seen"]
      [] a.record \in Tracked /\ a.place # "in" /\ a.sight = "seen" ->
            [a EXCEPT !.sight = "missed"]
      [] a.record \in Tracked /\ a.place # "in" /\ a.sight = "missed" ->
            [a EXCEPT !.record = "stray", !.sight = "unseen"]

\* What gather and waitForContainer leave of the records.
Looked(fs) == [f \in Files |-> Look(fs[f])]

TrackedIn(fs) == {f \in Files : fs[f].record \in Tracked}
InlineIn(fs) == {f \in Files : fs[f].record = "inline" /\ fs[f].place = "in"}
PendingIn(fs) == {f \in Files : fs[f].record = "pending"} \cup InlineIn(fs)

\* A file is picked, dropped or pasted, and prescanAttachment either starts an
\* inspection or records it as one that cannot be read. (What became of an
\* inspection is for the server to judge: it is done.)
Attach(f) ==
    /\ open /\ file[f].place = "out"
    /\ \E r \in Tracked :
        file' = [file EXCEPT ![f] = [place |-> "in", record |-> r, sight |-> "unseen"]]
    /\ UNCHANGED <<userVars, holdVars, job>>

\* The application puts one there by itself, a draft it restores for example:
\* an image in the body, or a document of which there is nothing but a name.
Appear(f) ==
    /\ open /\ file[f].place = "out"
    /\ \E r \in {"inline", "stray"} :
        file' = [file EXCEPT ![f] = [place |-> "in", record |-> r, sight |-> "unseen"]]
    /\ UNCHANGED <<userVars, holdVars, job>>

\* The user removes it; or the application draws its row anew, and for a
\* while it is in the message and not in the page.
Move(f, from, to) ==
    /\ open /\ file[f].place = from
    /\ file' = [file EXCEPT ![f].place = to]
    /\ UNCHANGED <<userVars, holdVars, job>>

\* The inspection of a file ends. A record that was dropped stays dropped.
InspectionEnds(f) ==
    /\ file[f].record = "pending"
    /\ file' = [file EXCEPT ![f].record = "done"]
    /\ UNCHANGED <<userVars, holdVars, job>>

-----------------------------------------------------------------------------
(* The user's gestures, handleSubmitAttempt.                                *)

\* What the cell of the submit activity says: log only, hold, or hold but let
\* everything go on in the end, in audit mode.
Policies == {"allow", "log", "hold", "audit"}
Holding == policy \in {"hold", "audit"}

NoHold == [pc |-> "free", waits |-> FALSE, for |-> {}]
NoJob == [pc |-> "none", items |-> {}, heard |-> {}, verdict |-> "none"]
NoGesture == 0
Held == hold.pc # "free"

Labels == {"pointerdown", "click", "keydown", "repeat"}

\* mutant: every event after the first is bounded by GESTURE_MS.
ReusesVerdictWithinASecond(label) ==
    /\ last.age # "never"
    /\ CASE label = "pointerdown" -> FALSE
         [] label = "repeat"      -> TRUE
         [] OTHER                 -> last.age = "fresh"

\* shouldReuseVerdict: the event belongs to the gesture of the last verdict.
ReusesVerdict(label) ==
    /\ last.age # "never"
    /\ CASE label = "pointerdown" -> FALSE
         [] label = "repeat"      -> TRUE
         [] label = "keydown"     -> last.age = "fresh"
         [] label = "click"       -> ~last.completed /\ last.age # "old"

\* The application gets an event of gesture g.
Passes(g) == passed' = passed \cup {g} /\ UNCHANGED failed

\* It gets one because the guard could not judge g.
PassesUnjudged(g) == passed' = passed \cup {g} /\ failed' = failed \cup {g}

\* mutant: an event of a gesture that was held is not cancelled again.
RepeatEventPasses(label, g) ==
    /\ last' = [last EXCEPT !.completed = @ \/ label = "click"]
    /\ Passes(g)

\* An event of a gesture that has been dealt with goes the way of the first.
RepeatEvent(label, g) ==
    /\ last' = [last EXCEPT !.completed = @ \/ label = "click"]
    /\ \/ last.held /\ UNCHANGED <<passed, failed>>
       \/ ~last.held /\ last.failed /\ PassesUnjudged(g)
       \/ ~last.held /\ ~last.failed /\ Passes(g)

\* The first gather, and what holdAndDecide does at once: the images in the
\* body that nothing has claimed are claimed, to be read out of the page.
StartHold(g) ==
    LET seen == Looked(file) IN
    /\ holds < MaxHolds
    /\ last' = [age |-> "fresh", held |-> TRUE, failed |-> FALSE, completed |-> FALSE]
    /\ holds' = holds + 1
    /\ gestureOf' = [gestureOf EXCEPT ![holds + 1] = g]
    /\ hold' = [pc |-> "recovering", waits |-> PendingIn(seen) # {}, for |-> {}]
    /\ file' = [f \in Files |-> IF f \in InlineIn(seen)
                                THEN [seen[f] EXCEPT !.record = "fetching"] ELSE seen[f]]

\* A cell that says log only reports what is in the composer.
LogGesture(g) ==
    /\ last' = [age |-> "fresh", held |-> FALSE, failed |-> FALSE, completed |-> FALSE]
    /\ file' = Looked(file)
    /\ Passes(g)

\* gather throws, before it looked at the records or after. The event is not
\* suppressed, and what follows of the gesture goes the same way.
FailOpen(g) ==
    /\ last' = [age |-> "fresh", held |-> FALSE, failed |-> TRUE, completed |-> FALSE]
    /\ file' \in {file, Looked(file)}
    /\ PassesUnjudged(g)

HandleSubmitAttempt(label, g) ==
    \/ /\ Held      \* every further attempt is cancelled
       /\ UNCHANGED <<last, passed, failed, file, holdVars>>
    \/ /\ ~Held /\ policy = "allow"
       /\ Passes(g)
       /\ UNCHANGED <<last, file, holdVars>>
    \/ /\ ~Held /\ policy # "allow" /\ ReusesVerdict(label)
       /\ RepeatEvent(label, g)
       /\ UNCHANGED <<file, holdVars>>
    \/ /\ ~Held /\ policy = "log" /\ ~ReusesVerdict(label)
       /\ LogGesture(g)
       /\ UNCHANGED holdVars
    \/ /\ ~Held /\ policy # "allow" /\ ~ReusesVerdict(label)
       /\ FailOpen(g)
       /\ UNCHANGED holdVars
    \/ /\ ~Held /\ Holding /\ ~ReusesVerdict(label)
       /\ StartHold(g)
       /\ UNCHANGED <<passed, failed, outcome>>

\* A press of the button is a pointerdown and a mousedown, its release a
\* mouseup and a click; the second of each is treated as the first was.
Begin(label) ==
    /\ open /\ gestures < MaxGestures
    /\ pressed.mouse = NoGesture /\ pressed.key = NoGesture
    /\ gestures' = gestures + 1
    /\ pressed' = IF label = "pointerdown" THEN [pressed EXCEPT !.mouse = gestures + 1]
                                           ELSE [pressed EXCEPT !.key = gestures + 1]
    /\ HandleSubmitAttempt(label, gestures + 1)
    /\ UNCHANGED <<policy, edits, open, job>>

Press == Begin("pointerdown")
PressEnter == Begin("keydown")

Release ==
    /\ open /\ pressed.mouse # NoGesture
    /\ HandleSubmitAttempt("click", pressed.mouse)
    /\ pressed' = [pressed EXCEPT !.mouse = NoGesture]
    /\ UNCHANGED <<policy, edits, open, gestures, job>>

\* A key that is held down repeats.
RepeatEnter ==
    /\ open /\ pressed.key # NoGesture
    /\ HandleSubmitAttempt("repeat", pressed.key)
    /\ UNCHANGED <<policy, edits, open, gestures, pressed, job>>

ReleaseEnter ==
    /\ pressed.key # NoGesture
    /\ pressed' = [pressed EXCEPT !.key = NoGesture]
    /\ UNCHANGED <<policy, edits, open, gestures, last, passed, failed, file, holdVars, job>>

\* Past GESTURE_MS and past GESTURE_MAX_MS. (A press that lasts longer than
\* the latter is left out.)
TimePasses ==
    /\ open
    /\ \/ last.age = "fresh" /\ last' = [last EXCEPT !.age = "recent"]
       \/ /\ last.age = "recent" /\ pressed.mouse = NoGesture
          /\ last' = [last EXCEPT !.age = "old"]
    /\ UNCHANGED <<policy, edits, open, gestures, pressed, passed, failed, file, holdVars, job>>

ComposerCloses ==
    /\ open
    /\ open' = FALSE
    /\ UNCHANGED <<policy, edits, gestures, pressed, last, passed, failed, file, holdVars, job>>

\* storage.onChanged brings another policy. (Not within a gesture.)
PolicyChanges ==
    /\ open
    /\ edits < MaxEdits
    /\ pressed.mouse = NoGesture /\ pressed.key = NoGesture
    /\ policy' \in Policies \ {policy}
    /\ edits' = edits + 1
    /\ UNCHANGED <<open, gestures, pressed, last, passed, failed, file, holdVars, job>>

-----------------------------------------------------------------------------
(* The hold, holdAndDecide.                                                 *)

\* The hold is over, and the button is out of awaitingVerdict.
EndHold(how) ==
    /\ hold' = NoHold
    /\ outcome' = [outcome EXCEPT ![holds] = how]

\* An image is read out of the page and inspected, or cannot be read.
FetchEnds(f) ==
    /\ file[f].record = "fetching"
    /\ \E r \in Tracked \cup {"stray"} : file' = [file EXCEPT ![f].record = r]
    /\ UNCHANGED <<userVars, holdVars, job>>

\* The composer may be gone. What is in it, as fresh shows it, is either still
\* not inspected, and the user is told so, or handed to the worker.
GatherAgain(fresh) ==
    \/ /\ ~open
       /\ EndHold("closed")
       /\ UNCHANGED <<file, job>>
    \/ /\ open /\ PendingIn(fresh) # {}
       /\ file' = fresh
       /\ EndHold("told")
       /\ UNCHANGED job
    \/ /\ open                 \* gather throws: here the guard fails closed
       /\ file' \in {file, fresh}
       /\ EndHold("told")
       /\ UNCHANGED job
    \/ /\ open /\ PendingIn(fresh) = {}
       /\ file' = fresh
       /\ hold' = [hold EXCEPT !.pc = "asked"]
       /\ job' = [job EXCEPT ![holds] = [NoJob EXCEPT !.pc = "asking",
                                            !.items = {Text} \cup TrackedIn(fresh)]]
       /\ UNCHANGED outcome

\* inspectUntrackedInlineImages is through. There is a wait if the first
\* gather found anything pending.
Recovered ==
    /\ hold.pc = "recovering"
    /\ \A f \in Files : file[f].record # "fetching"
    /\ \/ /\ hold.waits
          /\ hold' = [hold EXCEPT !.pc = "waiting",
                                  !.for = {f \in Files : file[f].record = "pending"}]
          /\ UNCHANGED <<file, job, outcome>>
       \/ /\ ~hold.waits
          /\ GatherAgain(Looked(file))
    /\ UNCHANGED <<userVars, holds, gestureOf>>

\* waitForContainer looks at the records when the inspections are over, and
\* gather looks again in the same breath.
InspectionsSettle ==
    /\ hold.pc = "waiting"
    /\ \A f \in hold.for : file[f].record # "pending"
    /\ GatherAgain(Looked(Looked(file)))
    /\ UNCHANGED <<userVars, holds, gestureOf>>

\* mutant: the wait has no end of its own.
WaitLasts ==
    /\ hold.pc = "waiting"
    /\ \A f \in hold.for : file[f].record # "pending"
    /\ GatherAgain(Looked(Looked(file)))
    /\ UNCHANGED <<userVars, holds, gestureOf>>

\* WAIT_FOR_SCAN_MS.
WaitExpires ==
    /\ hold.pc = "waiting"
    /\ GatherAgain(Looked(Looked(file)))
    /\ UNCHANGED <<userVars, holds, gestureOf>>

\* resumeSubmit. A composer that is gone gets nothing.
Resume(how) == EndHold(IF open THEN how ELSE "closed")

\* mutant: an answer is still taken when its time is over.
VerdictArrivesLate ==
    /\ hold.pc \in {"free", "asked"} /\ holds # 0
    /\ job[holds].pc = "answered"
    /\ job[holds].verdict = "allow"
    /\ Resume("resumed")
    /\ UNCHANGED <<userVars, file, holds, gestureOf, job>>

\* The answer to this hold's own request decides. A redaction that cannot be
\* written into the composer is a block. In audit mode every gesture goes on.
VerdictArrives ==
    /\ hold.pc = "asked"
    /\ job[holds].pc = "answered"
    /\ LET verdict == job[holds].verdict IN
       \/ verdict = "allow" /\ Resume("resumed")
       \/ verdict # "allow" /\ policy = "audit" /\ Resume("overruled")
       \/ verdict = "block" /\ policy # "audit" /\ EndHold("told")
       \/ /\ verdict = "mask" /\ policy # "audit"
          /\ Resume("masked") \/ EndHold("told")
    /\ UNCHANGED <<userVars, file, holds, gestureOf, job>>

\* VERDICT_TIMEOUT_MS, or the worker is gone. An answer that comes later is
\* not waited for any more.
VerdictTimeout ==
    /\ hold.pc = "asked"
    /\ EndHold("told")
    /\ UNCHANGED <<userVars, file, holds, gestureOf, job>>

-----------------------------------------------------------------------------
(* The worker.                                                              *)

Answers == {"allow", "mask", "block"}

\* mutant: a redaction is accepted whatever else the message carries.
CombinedMasks(items, heard) ==
    CASE heard = {}        -> {"allow", "block"}
      [] "block" \in heard -> {"block"}
      [] "mask" \in heard /\ "block" \notin heard -> {"mask", "block"}
      [] OTHER             -> {"allow"}

\* The strictest answer counts. A redaction is refused if there is an
\* attachment, or for a reason in the text. If there was no answer at all, the
\* cached policy decides.
Combined(items, heard) ==
    CASE heard = {}        -> {"allow", "block"}
      [] "block" \in heard -> {"block"}
      [] "mask" \in heard /\ "block" \notin heard ->
            {"block"} \cup (IF items = {Text} THEN {"mask"} ELSE {})
      [] OTHER             -> {"allow"}

\* evaluateActivity: one call to the server for each item, of which some get
\* no answer. (Nobody sees how far it has come before it is through.)
EvaluateActivity(n) ==
    /\ job[n].pc = "asking"
    /\ \E answer \in [job[n].items -> Answers \cup {"none"}] :
        LET heard == {answer[i] : i \in job[n].items} \ {"none"} IN
        \E verdict \in Combined(job[n].items, heard) :
            job' = [job EXCEPT ![n] = [@ EXCEPT !.pc = "answered", !.heard = heard,
                                                !.verdict = verdict]]
    /\ UNCHANGED <<userVars, file, holdVars>>

\* An exception before anything was asked: the message router answers allow.
EvaluationFails(n) ==
    /\ job[n].pc = "asking"
    /\ job' = [job EXCEPT ![n] = [@ EXCEPT !.pc = "answered", !.verdict = "allow"]]
    /\ UNCHANGED <<userVars, file, holdVars>>

\* The browser takes the worker down.
WorkerStops ==
    /\ \E n \in Holds : job[n].pc = "asking"
    /\ job' = [n \in Holds |-> IF job[n].pc = "asking"
                               THEN [job[n] EXCEPT !.pc = "dead"] ELSE job[n]]
    /\ UNCHANGED <<userVars, file, holdVars>>

-----------------------------------------------------------------------------
Init ==
    /\ policy \in Policies
    /\ edits = 0
    /\ open = TRUE
    /\ file = [f \in Files |-> [place |-> "out", record |-> "none", sight |-> "unseen"]]
    /\ gestures = 0
    /\ pressed = [mouse |-> NoGesture, key |-> NoGesture]
    /\ last = [age |-> "never", held |-> FALSE, failed |-> FALSE, completed |-> FALSE]
    /\ holds = 0
    /\ hold = NoHold
    /\ job = [n \in Holds |-> NoJob]
    /\ outcome = [n \in Holds |-> "none"]
    /\ gestureOf = [n \in Holds |-> NoGesture]
    /\ passed = {} /\ failed = {}

Attachment(f) ==
    \/ Attach(f) \/ Appear(f)
    \/ Move(f, "in", "removed") \/ Move(f, "in", "redrawn") \/ Move(f, "redrawn", "in")

User ==
    \/ Press \/ PressEnter \/ Release \/ RepeatEnter \/ ReleaseEnter
    \/ \E f \in Files : Attachment(f)
    \/ ComposerCloses

Guard ==
    \/ \E f \in Files : FetchEnds(f)
    \/ Recovered \/ InspectionsSettle \/ WaitExpires
    \/ VerdictArrives \/ VerdictTimeout

Evaluation(n) == EvaluateActivity(n) \/ EvaluationFails(n)

Next ==
    \/ User
    \/ TimePasses \/ PolicyChanges
    \/ \E f \in Files : InspectionEnds(f)
    \/ Guard
    \/ \E n \in Holds : Evaluation(n)
    \/ WorkerStops

Spec == Init /\ [][Next]_vars

\* Timers of the page fire, and an image is fetched or not. Nothing is assumed
\* of the inspections, the worker or the server.
Fairness == WF_vars(Guard)

FairSpec == Spec /\ Fairness

-----------------------------------------------------------------------------
Outcomes == {"none", "resumed", "overruled", "masked", "told", "closed"}
Sent == {"resumed", "overruled", "masked"}

TypeOK ==
    /\ policy \in Policies /\ edits \in 0..MaxEdits
    /\ open \in BOOLEAN
    /\ file \in [Files -> [place : Places, record : Records, sight : Sights]]
    /\ gestures \in 0..MaxGestures
    /\ pressed \in [mouse : 0..MaxGestures, key : 0..MaxGestures]
    /\ last \in [age : {"never", "fresh", "recent", "old"}, held : BOOLEAN,
                 failed : BOOLEAN, completed : BOOLEAN]
    /\ holds \in 0..MaxHolds
    /\ hold \in [pc : {"free", "recovering", "waiting", "asked"}, waits : BOOLEAN,
                 for : SUBSET Files]
    /\ job \in [Holds -> [pc : {"none", "asking", "answered", "dead"},
                          items : SUBSET Items,
                          heard : SUBSET Answers, verdict : Answers \cup {"none"}]]
    /\ outcome \in [Holds -> Outcomes]
    /\ gestureOf \in [Holds -> 0..MaxGestures]
    /\ passed \in SUBSET Gestures /\ failed \in SUBSET Gestures

\* A message goes out as it is only when no answer the server gave to any part
\* of it asked for more, and goes out redacted only when the request it was
\* judged by named nothing but the text; also when earlier evaluations are still
\* running and answer late. (Of what the message carries, the request names the
\* files the inspector has a record of: one that the application put there, as
\* in Appear, stays attached to a redacted message.)
ReleasedByItsVerdict ==
    \A n \in Holds :
        /\ outcome[n] = "resumed" => job[n].pc = "answered" /\ job[n].heard \subseteq {"allow"}
        /\ outcome[n] = "masked" => job[n].items = {Text}

\* One gesture of the user is one send, however long the press, the repeats of
\* the key or the verdict take (activity-guard.js:1040, 1233).
OneSendPerGesture ==
    /\ \A m, n \in Holds :
        m # n /\ gestureOf[m] = gestureOf[n] /\ gestureOf[m] # NoGesture
            => ~(outcome[m] \in Sent /\ outcome[n] \in Sent)
    /\ \A n \in Holds : gestureOf[n] \in passed => outcome[n] \notin Sent

\* Under a policy that holds, no event of any gesture reaches the application
\* but the replay of a hold: none of the events that follow a held one, of an
\* earlier hold or of the repeats of a key slips past (activity-guard.js:993).
\* Only where the guard could not read the composer does the gesture go on, with
\* those that take over its verdict (activity-guard.js:1275).
NoneSlipsPast == edits = 0 /\ Holding => passed \subseteq failed

\* A hold always ends, and the control is live again: with the gesture
\* replayed, or the user told (activity-guard.js:1269).
HoldEnds == Held ~> ~Held

\* What became of a gesture, as SendGate sees it.
GateOf(g) ==
    IF g \in failed THEN "failed"
    ELSE IF g \in passed THEN "passed"
    ELSE IF \A n \in 1..holds : gestureOf[n] # g THEN "none"
    ELSE LET n == CHOOSE n \in 1..holds : gestureOf[n] = g
         IN  IF outcome[n] = "none" THEN "held" ELSE outcome[n]

Gate == INSTANCE SendGate WITH gate <- [g \in Gestures |-> GateOf(g)],
                               strict <- edits = 0 /\ Holding

\* The guard implements SendGate: each gesture passes or is held, one at a
\* time, and a hold that ended is not taken up again, whatever answers, time-outs
\* and further events of the same gesture come after it
\* (activity-guard.js:993, 1040, 1233). A gesture for which the guard failed
\* open counts as one that failed, not as one that passed.
ImplementsSendGate == Gate!GateSpec

=============================================================================
