----------------------------- MODULE ReplyGuard -----------------------------
(***************************************************************************)
(* The guard of the browser extension on the replies of an AI application  *)
(* (installResponseObserver in activity-guard.js). A reply is masked when  *)
(* it appears, judged once the page has been quiet for a while, and then   *)
(* revealed or withheld.                                                   *)
(*                                                                         *)
(* A reply grows while it streams. The observer sees elements come and go  *)
(* and does not see a text node that gets longer. SubmitGuard is the other *)
(* guard of the same script; no name stands for something in both.         *)
(***************************************************************************)
EXTENDS Naturals

CONSTANTS
    Replies,      \* the elements that the response selector matches
    MaxLength,    \* bound on the length of a reply, in pieces
    Enough,       \* how many pieces are the 40 characters that are judged
    MaxCellEdits  \* bound on the changes of the policy

ASSUME ReplyAssumption ==
    MaxLength \in Nat /\ Enough \in 1..MaxLength /\ MaxCellEdits \in Nat

VARIABLES
    cell,       \* what the policy says of ai_response; "block" only where it is enforced
    cellEdits,  \* how often it changed
    installed,  \* installed.response: the observer is there
    length,     \* how long each reply is by now
    held,       \* its attribute data-csdlp-held
    seen,       \* the replies that were handed to decide
    inspected,  \* how much of each was handed over
    timer,      \* pendingTimer runs
    request     \* the request for a verdict on each of them

replyVars == <<cell, cellEdits, installed, length, held, seen, inspected, timer, request>>

Cells == {"allow", "log", "alert", "block"}
NoRequest == [pc |-> "none", holding |-> FALSE, blocked |-> FALSE]

Present(r) == length[r] > 0

\* applyEngagement: the observer is installed once and never removed.
Engaged(p) == installed \/ p # "allow"

\* mutant: a reply is masked when it is taken for judgement, 2.5 s later.
MaskedAtHarvest(grown, p) == held

\* maskNewReplies.
Masked(grown, p) ==
    [r \in Replies |->
        IF p = "block" /\ grown[r] > 0 /\ r \notin seen /\ held[r] = "none"
        THEN "checking" ELSE held[r]]

\* What the observer does with a batch of mutations.
Observe(grown) ==
    /\ held' = IF installed THEN Masked(grown, cell) ELSE held
    /\ timer' = (timer \/ installed)

\* A reply appears, or its text gets longer by an element or within one.
Grow(r, observed) ==
    /\ length[r] < MaxLength
    /\ ~Present(r) => observed
    /\ length' = [length EXCEPT ![r] = @ + 1]
    /\ IF observed THEN Observe(length') ELSE UNCHANGED <<held, timer>>
    /\ UNCHANGED <<cell, cellEdits, installed, seen, inspected, request>>

\* Something else in the page changes.
PageChanges ==
    /\ Observe(length)
    /\ UNCHANGED <<cell, cellEdits, installed, length, seen, inspected, request>>

\* storage.onChanged. An observer that is installed now masks at once.
CellChanges ==
    /\ cellEdits < MaxCellEdits
    /\ \E p \in Cells \ {cell} :
        /\ cell' = p
        /\ installed' = Engaged(p)
        /\ held' = IF ~installed THEN Masked(length, p) ELSE held
    /\ cellEdits' = cellEdits + 1
    /\ UNCHANGED <<length, seen, inspected, timer, request>>

Ripe == {r \in Replies \ seen : length[r] >= Enough}

\* harvest, when nothing has changed for 2.5 s: every reply that is long
\* enough is taken once, with the text it has by now, and decide asks the
\* worker unless the cell says log.
Harvest ==
    /\ timer
    /\ timer' = FALSE
    /\ seen' = seen \cup Ripe
    /\ inspected' = [r \in Replies |-> IF r \in Ripe THEN length[r] ELSE inspected[r]]
    /\ request' = [r \in Replies |->
                    IF r \in Ripe /\ cell # "log"
                    THEN [NoRequest EXCEPT !.pc = "asked", !.holding = (cell = "block")]
                    ELSE request[r]]
    /\ UNCHANGED <<cell, cellEdits, installed, length, held>>

\* A block withholds the reply if it was held for it.
VerdictBlocks(r) ==
    /\ request[r].pc = "asked"
    /\ request' = [request EXCEPT ![r].pc = "answered", ![r].blocked = TRUE]
    /\ held' = IF request[r].holding THEN [held EXCEPT ![r] = "withheld"] ELSE held
    /\ UNCHANGED <<cell, cellEdits, installed, length, seen, inspected, timer>>

\* mutant: only an answer releases it; after the time-out it stays as it is.
NoVerdictReleases(r) ==
    /\ request[r].pc = "asked"
    /\ request' = [request EXCEPT ![r].pc = "answered"]
    /\ held' \in {held, IF request[r].holding THEN [held EXCEPT ![r] = "none"] ELSE held}
    /\ UNCHANGED <<cell, cellEdits, installed, length, seen, inspected, timer>>

\* Any other verdict, the time-out, no answer and an exception release it.
VerdictReleases(r) ==
    /\ request[r].pc = "asked"
    /\ request' = [request EXCEPT ![r].pc = "answered"]
    /\ held' = IF request[r].holding THEN [held EXCEPT ![r] = "none"] ELSE held
    /\ UNCHANGED <<cell, cellEdits, installed, length, seen, inspected, timer>>

ReplyInit ==
    /\ cell \in Cells
    /\ cellEdits = 0
    /\ installed = (cell # "allow")
    /\ length = [r \in Replies |-> 0]
    /\ held = [r \in Replies |-> "none"]
    /\ seen = {}
    /\ inspected = [r \in Replies |-> 0]
    /\ timer = FALSE
    /\ request = [r \in Replies |-> NoRequest]

Verdict(r) == VerdictBlocks(r) \/ VerdictReleases(r)

ReplyNext ==
    \/ \E r \in Replies, observed \in BOOLEAN : Grow(r, observed)
    \/ PageChanges \/ CellChanges
    \/ Harvest
    \/ \E r \in Replies : Verdict(r)

ReplySpec == ReplyInit /\ [][ReplyNext]_replyVars

\* The page is quiet for 2.5 s now and then, and a request ends, by the timer
\* of requestVerdict if not before.
ReplyFairness == WF_replyVars(Harvest) /\ \A r \in Replies : WF_replyVars(Verdict(r))

ReplyFairSpec == ReplySpec /\ ReplyFairness

-----------------------------------------------------------------------------
ReplyTypeOK ==
    /\ cell \in Cells /\ cellEdits \in 0..MaxCellEdits
    /\ installed \in BOOLEAN /\ timer \in BOOLEAN
    /\ length \in [Replies -> 0..MaxLength]
    /\ inspected \in [Replies -> 0..MaxLength]
    /\ held \in [Replies -> {"none", "checking", "withheld"}]
    /\ seen \in SUBSET Replies
    /\ request \in [Replies -> [pc : {"none", "asked", "answered"}, holding : BOOLEAN,
                                blocked : BOOLEAN]]

\* Under a policy that blocks, nobody can read a reply before its text, 40
\* characters of it or more, was handed over for inspection and that request
\* has ended without a block: not for a moment between its appearance, its
\* growth, the harvest and the verdict (activity-guard.js:1376). It is the text
\* of that moment: what the page adds to the reply from the harvest on is never
\* inspected, and is readable with the rest (activity-guard.js:1469; 1542 has
\* the reply "captured once, complete").
ReadableIsReleased ==
    \A r \in Replies :
        cellEdits = 0 /\ cell = "block" /\ Present(r) /\ held[r] = "none"
            => /\ request[r].pc = "answered" /\ ~request[r].blocked
               /\ inspected[r] \in Enough..length[r]

\* A masked reply that is long enough when the page was last seen to change,
\* and one that was handed to decide, is revealed or withheld in the end,
\* whatever becomes of the request (activity-guard.js:1521).
LongReplyIsSettled ==
    \A r \in Replies :
        /\ cellEdits = 0 /\ held[r] = "checking"
        /\ length[r] >= Enough /\ (timer \/ r \in seen)
        ~> held[r] # "checking" \/ cellEdits > 0

=============================================================================
