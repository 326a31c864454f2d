------------------------ MODULE EventDeliveryProofs ------------------------
(* No event is lost without a cause, each has one background task, and a    *)
(* line leaves the spool only when it is settled, and in the order in which *)
(* it came there, for any number of events, any size of the spool and any   *)
(* number of crashes; and delivery implements AuditTrail.                   *)
EXTENDS EventDelivery, SequenceTheorems, FiniteSetTheorems, TLAPS

-----------------------------------------------------------------------------
(* The inductive invariant.                                                 *)

\* Where the replay stands in what it read. The file is as it read it until
\* it truncates it: spoolMutex keeps everybody else out.
FlushInRange ==
    /\ Len(flush.pending) <= MaxSpool
    /\ flush.pc = "posting" => flush.at <= Len(flush.pending)
    /\ flush.pc \in {"posting", "rewriting"} => flush.pending = spool
    /\ flush.pc = "truncated" => spool = <<>>

\* An event comes to the file only when its thread is done with it.
SpooledIsOver ==
    \A e \in Events :
        e \in ToSet(spool) \cup (IF flush.pc = "idle" THEN {} ELSE ToSet(flush.pending))
            => stage[e] = "over"

\* The replay has settled what it passed.
PassedAreSettled ==
    flush.pc # "idle" =>
        \A i \in 1 .. Len(flush.pending) :
            i < flush.at => flush.pending[i] \in settled \cup {Torn}

\* What is settled is recorded, or has a cause not to be.
SettledIsAccounted == \A e \in settled : e \in stored \/ fate[e] # "none"

\* What the endpoint still has, or has yet to see, was not let go of.
HeldIsNotLetGo ==
    \A e \in Events :
        /\ e \in Held => fate[e] = "none" \/ e \in settled
        /\ stage[e] = "idle" => fate[e] = "none"

\* NoUnaccountedLoss by itself says nothing of an event that the replay has
\* passed but not yet removed, and whose only copy is in memory for a while.
Accounting ==
    /\ SpooledIsOver
    /\ PassedAreSettled
    /\ SettledIsAccounted
    /\ HeldIsNotLetGo
    /\ NoUnaccountedLoss

-----------------------------------------------------------------------------
(* The files and what is on them.                                           *)

\* What a sequence of lines holds.
LEMMA LinesOf ==
    ASSUME NEW s \in Seq(Lines)
    PROVE  /\ ToSet(s) = {s[i] : i \in 1 .. Len(s)}
           /\ ToSet(s) \subseteq Lines
           /\ Len(s) \in Nat
<1>1. DOMAIN s = 1 .. Len(s) /\ Len(s) \in Nat
  BY LenProperties
<1>2. \A i \in 1 .. Len(s) : s[i] \in Lines
  BY ElementOfSeq
<1> QED
  BY <1>1, <1>2 DEF ToSet

\* A part of a file holds some of its lines.
LEMMA PartOf ==
    ASSUME NEW s \in Seq(Lines), NEW m \in Nat \ {0}, NEW n \in 0 .. Len(s)
    PROVE  /\ SubSeq(s, m, n) \in Seq(Lines)
           /\ Len(SubSeq(s, m, n)) <= Len(s)
           /\ ToSet(SubSeq(s, m, n)) = {s[i] : i \in m .. n}
<1> DEFINE u == SubSeq(s, m, n)
<1>1. Len(s) \in Nat
  BY LenProperties
<1>2. \A i \in m .. n : s[i] \in Lines
  BY <1>1, ElementOfSeq
<1>3. /\ u \in Seq(Lines)
      /\ Len(u) = IF m <= n THEN n - m + 1 ELSE 0
      /\ \A i \in 1 .. n - m + 1 : u[i] = s[m + i - 1]
  BY <1>1, <1>2, SubSeqProperties
<1>4. Len(u) <= Len(s)
  BY <1>1, <1>3
<1>5. ToSet(u) = {u[i] : i \in 1 .. Len(u)}
  BY <1>3, LinesOf
<1>6. ASSUME NEW i \in m .. n PROVE \E j \in 1 .. Len(u) : u[j] = s[i]
  <2>1. i - m + 1 \in 1 .. Len(u) /\ u[i - m + 1] = s[i]
    BY <1>1, <1>3, <1>6
  <2> QED
    BY <2>1
<1>7. ASSUME NEW j \in 1 .. Len(u) PROVE \E i \in m .. n : u[j] = s[i]
  <2>1. m + j - 1 \in m .. n /\ u[j] = s[m + j - 1]
    BY <1>1, <1>3, <1>7
  <2> QED
    BY <2>1
<1> HIDE DEF u
<1>8. ToSet(u) = {s[i] : i \in m .. n}
  <2>1. ToSet(u) \subseteq {s[i] : i \in m .. n}
    BY <1>5, <1>7, Zenon
  <2>2. {s[i] : i \in m .. n} \subseteq ToSet(u)
    BY <1>5, <1>6, Zenon
  <2> QED
    BY <2>1, <2>2
<1> QED
  BY <1>3, <1>4, <1>8 DEF u

\* The first lines of a file.
LEMMA FirstLines ==
    ASSUME NEW s \in Seq(Lines), NEW k \in 0 .. Len(s)
    PROVE  SubSeq(s, 1, k) \in Seq(Lines) /\ Len(SubSeq(s, 1, k)) = k
<1>1. Len(s) \in Nat
  BY LenProperties
<1>2. \A i \in 1 .. k : s[i] \in Lines
  BY <1>1, ElementOfSeq
<1>3. /\ SubSeq(s, 1, k) \in Seq(Lines)
      /\ Len(SubSeq(s, 1, k)) = IF 1 <= k THEN k - 1 + 1 ELSE 0
  BY <1>1, <1>2, SubSeqProperties
<1> QED
  BY <1>1, <1>3

\* A file with one line more.
LEMMA OneMore ==
    ASSUME NEW s \in Seq(Lines), NEW x \in Lines
    PROVE  /\ Append(s, x) \in Seq(Lines)
           /\ Len(Append(s, x)) = Len(s) + 1
           /\ ToSet(Append(s, x)) = ToSet(s) \cup {x}
<1> DEFINE u == Append(s, x)
<1>1. Len(s) \in Nat
  BY LenProperties
<1>2. /\ u \in Seq(Lines) /\ Len(u) = Len(s) + 1
      /\ \A i \in 1 .. Len(s) : u[i] = s[i]
      /\ u[Len(s) + 1] = x
  BY AppendProperties
<1>3. ToSet(u) = {u[i] : i \in 1 .. Len(u)} /\ ToSet(s) = {s[i] : i \in 1 .. Len(s)}
  BY <1>2, LinesOf
<1> HIDE DEF u
<1>4. ToSet(u) = ToSet(s) \cup {x}
  BY <1>1, <1>2, <1>3
<1> QED
  BY <1>2, <1>4 DEF u

\* The file after a line was glued to one that was cut short.
LEMMA CutShort ==
    ASSUME NEW s \in Seq(Lines)
    PROVE  /\ Front(s) \in Seq(Lines)
           /\ Len(Front(s)) <= Len(s)
           /\ ToSet(Front(s)) \subseteq ToSet(s)
<1>1. Len(s) \in Nat
  BY LenProperties
<1>2. CASE s = <<>>
  <2>1. Len(s) = 0
    BY <1>2, EmptySeq
  <2>2. Front(s) = <<>>
    BY <2>1, SubSeqEmpty DEF Front
  <2>3. Front(s) = s
    BY <1>2, <2>2
  <2> QED
    BY <1>1, <2>3
<1>3. CASE s # <<>>
  <2> DEFINE n == Len(s) - 1
  <2>1. n \in 0 .. Len(s) /\ n \in Int /\ Front(s) = SubSeq(s, 1, n)
    BY <1>1, <1>3, EmptySeq DEF Front
  <2>2. ToSet(s) = {s[i] : i \in 1 .. Len(s)}
    BY LinesOf
  <2>3. \A i \in 1 .. n : s[i] \in Lines
    BY <1>1, ElementOfSeq
  <2>4. {s[i] : i \in 1 .. n} \subseteq {s[i] : i \in 1 .. Len(s)}
    BY <1>1
  <2> HIDE DEF n
  <2>5. SubSeq(s, 1, n) \in Seq(Lines) /\ ToSet(SubSeq(s, 1, n)) = {s[i] : i \in 1 .. n}
    BY <2>1, PartOf
  <2>6. Len(SubSeq(s, 1, n)) = IF 1 <= n THEN n - 1 + 1 ELSE 0
    BY <2>1, <2>3, SubSeqProperties
  <2>7. Len(Front(s)) = n
    BY <2>1, <2>6
  <2> QED
    BY <1>1, <2>1, <2>2, <2>4, <2>5, <2>7 DEF n
<1> QED
  BY <1>2, <1>3

\* What an append makes of the file.
LEMMA AppendedFile ==
    ASSUME TypeOK, HasRoom, NEW x \in Lines,
           NEW file, file = Append(IF openLine THEN Front(spool) ELSE spool, x)
    PROVE  /\ file \in Seq(Lines) /\ Len(file) <= MaxSpool
           /\ ToSet(file) \subseteq ToSet(spool) \cup {x}
<1> DEFINE before == IF openLine THEN Front(spool) ELSE spool
<1>1. spool \in Seq(Lines) /\ Len(spool) < MaxSpool /\ openLine \in BOOLEAN
  BY DEF TypeOK, HasRoom
<1>2. before \in Seq(Lines) /\ Len(before) <= Len(spool) /\ ToSet(before) \subseteq ToSet(spool)
  <2>1. /\ Front(spool) \in Seq(Lines) /\ Len(Front(spool)) <= Len(spool)
        /\ ToSet(Front(spool)) \subseteq ToSet(spool)
    BY <1>1, CutShort
  <2>2. Len(spool) <= Len(spool)
    BY <1>1, LenProperties
  <2>3. before = Front(spool) \/ before = spool
    OBVIOUS
  <2> HIDE DEF before
  <2> QED
    BY <1>1, <2>1, <2>2, <2>3
<1>3. Len(before) \in Nat /\ Len(spool) \in Nat /\ MaxSpool \in Nat
  BY <1>1, <1>2, LenProperties, DeliveryAssumption
<1> HIDE DEF before
<1>4. /\ file \in Seq(Lines) /\ Len(file) = Len(before) + 1
      /\ ToSet(file) = ToSet(before) \cup {x}
  BY <1>2, OneMore DEF before
<1> QED
  BY <1>1, <1>2, <1>3, <1>4

-----------------------------------------------------------------------------
(* Types.                                                                   *)

Typed == TypeOK /\ FlushInRange

\* What the replay has yet to settle.
LEMMA Rest ==
    ASSUME Typed
    PROVE  /\ Remaining \in Seq(Lines)
           /\ Len(Remaining) \in Nat
           /\ Len(Remaining) <= MaxSpool
           /\ ToSet(Remaining) = {flush.pending[i] : i \in flush.at .. Len(flush.pending)}
<1>1. /\ flush.pending \in Seq(Lines) /\ flush.at \in Nat \ {0}
      /\ Len(flush.pending) <= MaxSpool
  BY DEF Typed, TypeOK, FlushInRange
<1>2. Len(flush.pending) \in Nat /\ MaxSpool \in Nat
  BY <1>1, LenProperties, DeliveryAssumption
<1> DEFINE s == flush.pending
           m == flush.at
           n == Len(s)
<1>3. s \in Seq(Lines) /\ m \in Nat \ {0} /\ n \in 0 .. Len(s)
  BY <1>1, <1>2
<1>4. Remaining = SubSeq(s, m, n)
  BY DEF Remaining
<1> HIDE DEF s, m, n
<1>5. /\ SubSeq(s, m, n) \in Seq(Lines) /\ Len(SubSeq(s, m, n)) <= Len(s)
      /\ ToSet(SubSeq(s, m, n)) = {s[i] : i \in m .. n}
  BY <1>3, PartOf
<1>6. Len(SubSeq(s, m, n)) \in Nat
  BY <1>5, LenProperties
<1> QED
  BY <1>1, <1>2, <1>4, <1>5, <1>6 DEF s, m, n

\* The line whose turn it is.
LEMMA LineAtHand ==
    ASSUME Typed, flush.pc = "posting"
    PROVE  /\ flush.pending[flush.at] \in Lines
           /\ flush.at \in 1 .. Len(flush.pending)
<1>1. /\ flush.pending \in Seq(Lines) /\ flush.at \in Nat \ {0}
      /\ flush.at <= Len(flush.pending)
  BY DEF Typed, TypeOK, FlushInRange
<1>2. Len(flush.pending) \in Nat
  BY <1>1, LenProperties
<1>3. flush.at \in 1 .. Len(flush.pending)
  BY <1>1, <1>2
<1> QED
  BY <1>1, <1>3, ElementOfSeq

\* The server's variables keep their types when an event comes in.
LEMMA CreateEventTyped ==
    ASSUME TypeOK, NEW x \in Lines, NEW paused \in BOOLEAN, CreateEvent(x, paused)
    PROVE  /\ serverUp' \in BOOLEAN /\ registered' \in BOOLEAN
           /\ stored' \subseteq Events /\ tasks' \in [Events -> 0 .. MaxRetries]
           /\ processed' \in [Events -> Nat]
<1>1. Verdict(x) = 201 => x \in Events
  BY DEF Verdict, Lines
<1>2. /\ stored' \subseteq stored \cup (IF Verdict(x) = 201 THEN {x} ELSE {})
      /\ \/ tasks' = tasks
         \/ Verdict(x) = 201 /\ tasks' = [tasks EXCEPT ![x] = MaxRetries]
      /\ serverUp' = serverUp /\ registered' = registered /\ processed' = processed
  BY DEF CreateEvent
<1>3. stored' \subseteq Events /\ tasks' \in [Events -> 0 .. MaxRetries]
  <2>1. stored' \subseteq Events
    BY <1>1, <1>2 DEF TypeOK
  <2>2. tasks \in [Events -> 0 .. MaxRetries] /\ MaxRetries \in 0 .. MaxRetries
    BY DeliveryAssumption DEF TypeOK
  <2>3. tasks' \in [Events -> 0 .. MaxRetries]
    BY <1>1, <1>2, <2>2
  <2> QED
    BY <2>1, <2>3
<1> QED
  BY <1>2, <1>3 DEF TypeOK

\* The causes are those that Fates lists.
LEMMA FatesTyped ==
    ASSUME TypeOK
    PROVE  /\ \A x, paused : FateOf(x, paused) \in Fates
           /\ \A file, S : LostUnlessIn(file, S) \in [Events -> Fates]
<1>1. \A x, paused : FateOf(x, paused) \in {"rejected", "suspended", "none"}
  BY DEF FateOf
<1>2. {"rejected", "suspended", "none", "crash"} \subseteq Fates
  BY DEF Fates
<1>3. ASSUME NEW file, NEW S PROVE LostUnlessIn(file, S) \in [Events -> Fates]
  <2>1. \A e \in Events : LostUnlessIn(file, S)[e] \in Fates
    BY <1>2 DEF LostUnlessIn, TypeOK
  <2> QED
    BY <2>1 DEF LostUnlessIn
<1> QED
  BY <1>1, <1>2, <1>3

\* No replay under way.
LEMMA IdleFlush ==
    /\ NotFlushing \in [pc : {"idle", "posting", "rewriting", "truncated"},
                        pending : Seq(Lines), at : Nat \ {0}]
    /\ NotFlushing.pc = "idle"
    /\ Len(NotFlushing.pending) <= MaxSpool
BY EmptySeq, DeliveryAssumption DEF NotFlushing

\* The replay of lines keeps its types and its place.
LEMMA FlushTyped ==
    ASSUME Typed, flush.pc = "posting", UNCHANGED spool,
           flush' = AfterLine(flush.at) \/ flush' = StopReplay
    PROVE  /\ flush' \in [pc : {"idle", "posting", "rewriting", "truncated"},
                          pending : Seq(Lines), at : Nat \ {0}]
           /\ FlushInRange'
<1>1. /\ flush \in [pc : {"idle", "posting", "rewriting", "truncated"},
                    pending : Seq(Lines), at : Nat \ {0}]
      /\ flush.pending = spool /\ Len(flush.pending) <= MaxSpool
  BY DEF Typed, TypeOK, FlushInRange
<1>2. Len(flush.pending) \in Nat
  BY <1>1, LenProperties
<1>3. CASE flush' = StopReplay
  BY <1>1, <1>3 DEF StopReplay, FlushInRange
<1>4. CASE flush.at < Len(flush.pending) /\ flush' = [flush EXCEPT !.at = flush.at + 1]
  BY <1>1, <1>2, <1>4 DEF FlushInRange
<1>5. CASE flush' = [flush EXCEPT !.at = flush.at + 1, !.pc = "rewriting"]
  <2>1. flush' \in [pc : {"idle", "posting", "rewriting", "truncated"},
                    pending : Seq(Lines), at : Nat \ {0}]
    <3>1. flush' = [pc |-> "rewriting", pending |-> flush.pending, at |-> flush.at + 1]
      BY <1>1, <1>5
    <3>2. flush.pending \in Seq(Lines) /\ flush.at + 1 \in Nat \ {0}
      BY <1>1
    <3> QED
      BY <3>1, <3>2
  <2>2. flush'.pc = "rewriting" /\ flush'.pending = flush.pending
    BY <1>1, <1>5
  <2> QED
    BY <1>1, <2>1, <2>2 DEF FlushInRange
<1>6. flush' = AfterLine(flush.at) =>
         \/ flush.at < Len(flush.pending) /\ flush' = [flush EXCEPT !.at = flush.at + 1]
         \/ flush' = [flush EXCEPT !.at = flush.at + 1, !.pc = "rewriting"]
  BY DEF AfterLine
<1> QED
  BY <1>3, <1>4, <1>5, <1>6

\* A crash keeps the file to its size.
LEMMA CrashedFile ==
    ASSUME Typed, AgentCrash
    PROVE  /\ spool' \in Seq(Lines) /\ Len(spool') <= MaxSpool
           /\ openLine' \in BOOLEAN
           /\ spoolLog' \in Seq(Events)
<1>1. /\ spool \in Seq(Lines) /\ Len(spool) <= MaxSpool
      /\ openLine \in BOOLEAN /\ spoolLog \in Seq(Events)
  BY DEF Typed, TypeOK
<1>2. CASE UNCHANGED <<spool, openLine, spoolLog>>
  BY <1>1, <1>2
<1>3. CASE AppendCutShort
  <2>1. PICK e \in Events :
           /\ HasRoom
           /\ \/ /\ spool' = Append(IF openLine THEN Front(spool) ELSE spool, Torn)
                 /\ UNCHANGED spoolLog
              \/ /\ spool' = Appended(e)
                 /\ spoolLog' = Append(spoolLog, e)
    BY <1>3 DEF AppendCutShort
  <2>2. \E x \in Lines : spool' = Append(IF openLine THEN Front(spool) ELSE spool, x)
    <3>1. Appended(e) = Append(IF openLine THEN Front(spool) ELSE spool,
                               IF openLine THEN Torn ELSE e)
      BY DEF Appended
    <3> QED
      BY <2>1, <3>1 DEF Lines
  <2>3. spool' \in Seq(Lines) /\ Len(spool') <= MaxSpool
    BY <2>1, <2>2, AppendedFile DEF Typed
  <2>4. openLine' = TRUE
    BY <1>3, Zenon DEF AppendCutShort
  <2>5. spoolLog' \in Seq(Events)
    BY <1>1, <2>1, AppendProperties
  <2> QED
    BY <2>3, <2>4, <2>5
<1>4. CASE RewriteCutShort
  <2>1. PICK k \in 0 .. Len(Remaining) :
           \/ /\ spool' = SubSeq(Remaining, 1, k)
              /\ openLine' \in {FALSE, k > 0}
           \/ /\ k < Len(Remaining)
              /\ spool' = Append(SubSeq(Remaining, 1, k), Torn)
              /\ openLine' = TRUE
    BY <1>4 DEF RewriteCutShort
  <2>2. Remaining \in Seq(Lines) /\ Len(Remaining) \in Nat /\ Len(Remaining) <= MaxSpool
    BY Rest
  <2>3. SubSeq(Remaining, 1, k) \in Seq(Lines) /\ Len(SubSeq(Remaining, 1, k)) = k
    BY <2>2, FirstLines
  <2>4. spool' \in Seq(Lines) /\ Len(spool') <= MaxSpool
    <3>1. k \in Nat /\ MaxSpool \in Nat /\ Torn \in Lines
      BY <2>2, DeliveryAssumption DEF Lines
    <3>2. CASE spool' = SubSeq(Remaining, 1, k)
      BY <2>2, <2>3, <3>1, <3>2
    <3>3. CASE k < Len(Remaining) /\ spool' = Append(SubSeq(Remaining, 1, k), Torn)
      BY <2>2, <2>3, <3>1, <3>3, OneMore
    <3> QED
      BY <2>1, <3>2, <3>3
  <2>5. openLine' \in BOOLEAN
    <3> DEFINE more == k > 0
    <3>1. openLine' = FALSE \/ openLine' = more \/ openLine' = TRUE
      BY <2>1
    <3>2. more \in BOOLEAN
      OBVIOUS
    <3> HIDE DEF more
    <3> QED
      BY <3>1, <3>2, Zenon
  <2>6. spoolLog' = spoolLog
    BY <1>4 DEF RewriteCutShort
  <2> QED
    BY <1>1, <2>4, <2>5, <2>6
<1> QED
  BY <1>2, <1>3, <1>4 DEF AgentCrash

\* What an append of SpoolEvent makes of the file.
LEMMA SpooledFile ==
    ASSUME TypeOK, HasRoom, NEW e \in Events
    PROVE  /\ Appended(e) \in Seq(Lines) /\ Len(Appended(e)) <= MaxSpool
           /\ ToSet(Appended(e)) \subseteq ToSet(spool) \cup {e, Torn}
<1> DEFINE x == IF openLine THEN Torn ELSE e
<1>1. x \in Lines
  BY DEF Lines
<1>2. Appended(e) = Append(IF openLine THEN Front(spool) ELSE spool, x)
  BY DEF Appended
<1> QED
  BY <1>1, <1>2, AppendedFile

\* The steps of the monitor threads.
LEMMA ThreadStepTyped ==
    ASSUME Typed, NEW e \in Events,
           \/ \E enforcing \in BOOLEAN : RaiseEvent(e, enforcing)
           \/ \E paused \in BOOLEAN : PostAnswered(e, paused)
           \/ PostUnanswered(e)
           \/ SpoolEvent(e)
    PROVE  Typed'
<1> DEFINE Stages == {"idle", "posting", "spooling", "over"}
<1>1. /\ TypeOK /\ e \in Lines
      /\ stage \in [Events -> Stages] /\ fate \in [Events -> Fates]
  BY DEF Typed, TypeOK, Lines
<1>2. ASSUME NEW enforcing \in BOOLEAN, RaiseEvent(e, enforcing) PROVE Typed'
  <2>1. stage' \in [Events -> Stages]
    BY <1>1, <1>2 DEF RaiseEvent
  <2>2. fate' \in [Events -> Fates]
    <3>1. \E r \in Fates : fate' = [fate EXCEPT ![e] = r]
      BY <1>1, <1>2 DEF RaiseEvent, Fates
    <3> QED
      BY <1>1, <3>1
  <2> QED
    BY <1>2, <2>1, <2>2 DEF RaiseEvent, Typed, TypeOK, FlushInRange, serverVars
<1>3. ASSUME NEW paused \in BOOLEAN, PostAnswered(e, paused) PROVE Typed'
  <2>1. stage' \in [Events -> Stages]
    BY <1>1, <1>3 DEF PostAnswered
  <2>2. fate' \in [Events -> Fates]
    BY <1>1, <1>3, FatesTyped DEF PostAnswered
  <2>3. /\ serverUp' \in BOOLEAN /\ registered' \in BOOLEAN
        /\ stored' \subseteq Events /\ tasks' \in [Events -> 0 .. MaxRetries]
        /\ processed' \in [Events -> Nat]
    BY <1>1, <1>3, CreateEventTyped DEF PostAnswered
  <2> QED
    BY <1>3, <2>1, <2>2, <2>3 DEF PostAnswered, Typed, TypeOK, FlushInRange
<1>4. CASE PostUnanswered(e)
  <2>1. stage' \in [Events -> Stages]
    BY <1>1, <1>4 DEF PostUnanswered
  <2> QED
    BY <1>4, <2>1 DEF PostUnanswered, Typed, TypeOK, FlushInRange, serverVars, ghostVars
<1>5. CASE SpoolEvent(e)
  <2>1. stage' \in [Events -> Stages]
    BY <1>1, <1>5 DEF SpoolEvent
  <2>2. fate' \in [Events -> Fates]
    <3>1. {"full", "disk"} \subseteq Fates
      BY DEF Fates
    <3>2. \/ fate' = LostUnlessIn(spool', InSpool \cup {e})
          \/ \E r \in Fates : fate' = [fate EXCEPT ![e] = r]
      BY <1>5, <3>1 DEF SpoolEvent
    <3> QED
      BY <1>1, <3>2, FatesTyped
  <2>3. /\ spool' \in Seq(Lines) /\ Len(spool') <= MaxSpool
        /\ spoolLog' \in Seq(Events)
    <3>1. CASE UNCHANGED <<spool, spoolLog>>
      BY <1>1, <3>1 DEF TypeOK
    <3>2. CASE HasRoom /\ spool' = Appended(e) /\ spoolLog' = Append(spoolLog, e)
      <4>1. spoolLog \in Seq(Events)
        BY <1>1 DEF TypeOK
      <4> QED
        BY <1>1, <3>2, <4>1, SpooledFile, AppendProperties
    <3> QED
      BY <1>5, <3>1, <3>2 DEF SpoolEvent
  <2>4. openLine' \in BOOLEAN
    <3>1. openLine' = FALSE \/ openLine' = openLine
      BY <1>5, Zenon DEF SpoolEvent
    <3> QED
      BY <1>1, <3>1 DEF TypeOK
  <2>5. /\ flush.pc = "idle"
        /\ UNCHANGED <<flush, late, crashes, serverVars, settled>>
    BY <1>5 DEF SpoolEvent
  <2> QED
    BY <2>1, <2>2, <2>3, <2>4, <2>5 DEF Typed, TypeOK, FlushInRange, serverVars
<1> QED
  BY <1>2, <1>3, <1>4, <1>5

\* The steps of the heartbeat thread.
LEMMA HeartbeatStepTyped ==
    ASSUME Typed,
           \/ Heartbeat
           \/ \E paused \in BOOLEAN : FlushAnswered(paused)
           \/ FlushUnanswered
           \/ FlushTruncate
           \/ FlushWriteBack
    PROVE  Typed'
<1> DEFINE Flushes == [pc : {"idle", "posting", "rewriting", "truncated"},
                       pending : Seq(Lines), at : Nat \ {0}]
<1>1. /\ TypeOK /\ flush \in Flushes /\ spool \in Seq(Lines) /\ Len(spool) <= MaxSpool
      /\ fate \in [Events -> Fates]
  BY DEF Typed, TypeOK
<1>2. NotFlushing \in Flushes /\ NotFlushing.pc = "idle" /\ Len(NotFlushing.pending) <= MaxSpool
  BY IdleFlush
<1>3. CASE Heartbeat
  <2>1. flush' \in Flushes /\ FlushInRange'
    <3>1. UNCHANGED spool
      BY <1>3 DEF Heartbeat
    <3>2. CASE flush' = flush
      BY <1>1, <3>1, <3>2 DEF Typed, FlushInRange
    <3>3. CASE flush' = [pc |-> "posting", pending |-> spool, at |-> 1] /\ spool # <<>>
      <4>1. flush' \in Flushes
        BY <1>1, <3>3
      <4>2. Len(spool) \in Nat \ {0}
        BY <1>1, <3>3, EmptySeq
      <4>3. flush'.pc = "posting" /\ flush'.pending = spool /\ flush'.at = 1
        BY <3>3
      <4>4. FlushInRange'
        BY <1>1, <3>1, <4>2, <4>3 DEF FlushInRange
      <4> QED
        BY <4>1, <4>4
    <3>4. \/ flush' = [pc |-> "posting", pending |-> spool, at |-> 1] /\ spool # <<>>
          \/ flush' = flush
      BY <1>3, Zenon DEF Heartbeat
    <3> QED
      BY <3>2, <3>3, <3>4
  <2>2. registered' \in BOOLEAN
    BY <1>3, Zenon DEF Heartbeat
  <2> QED
    BY <1>1, <1>3, <2>1, <2>2 DEF Heartbeat, Typed, TypeOK, ghostVars
<1>4. ASSUME NEW paused \in BOOLEAN, FlushAnswered(paused) PROVE Typed'
  <2> DEFINE x == flush.pending[flush.at]
  <2>1. flush.pc = "posting" /\ x \in Lines
    BY <1>4, LineAtHand DEF FlushAnswered
  <2>2. flush' \in Flushes /\ FlushInRange'
    BY <1>4, <2>1, FlushTyped DEF FlushAnswered
  <2>3. settled' \subseteq Events
    BY <1>1, <1>4 DEF FlushAnswered, TypeOK
  <2>4. fate' \in [Events -> Fates]
    <3>1. \A y \in Events : FateOf(y, paused) \in Fates /\ fate[y] \in Fates
      BY <1>1, FatesTyped
    <3>2. fate' = [y \in Events |->
                      IF y = x /\ StepsOver(Verdict(x)) /\ fate[y] = "none"
                      THEN FateOf(y, paused) ELSE fate[y]]
      BY <1>4 DEF FlushAnswered
    <3> QED
      BY <3>1, <3>2
  <2>5. CreateEvent(x, paused)
    BY <1>4 DEF FlushAnswered
  <2>6. /\ serverUp' \in BOOLEAN /\ registered' \in BOOLEAN
        /\ stored' \subseteq Events /\ tasks' \in [Events -> 0 .. MaxRetries]
        /\ processed' \in [Events -> Nat]
    BY <1>1, <2>1, <2>5, CreateEventTyped
  <2>7. UNCHANGED <<stage, spool, openLine, late, crashes, spoolLog>>
    BY <1>4 DEF FlushAnswered
  <2> QED
    BY <1>1, <2>2, <2>3, <2>4, <2>6, <2>7 DEF Typed, TypeOK
<1>5. CASE FlushUnanswered
  <2>1. flush' \in Flushes /\ FlushInRange'
    BY <1>5, FlushTyped DEF FlushUnanswered
  <2>2. late' \subseteq Events
    BY <1>1, <1>5 DEF FlushUnanswered, TypeOK
  <2> QED
    BY <1>1, <1>5, <2>1, <2>2 DEF FlushUnanswered, Typed, TypeOK, serverVars, ghostVars
<1>6. CASE FlushTruncate
  <2>1. /\ spool' = <<>> \/ spool' = spool
        /\ openLine' = FALSE \/ openLine' = openLine
    BY <1>6, Zenon DEF FlushTruncate
  <2>2. spool' \in Seq(Lines) /\ Len(spool') <= MaxSpool
    <3>1. <<>> \in Seq(Lines) /\ Len(<<>>) = 0 /\ 0 <= MaxSpool
      BY EmptySeq, DeliveryAssumption
    <3>2. CASE spool' = <<>>
      BY <3>1, <3>2
    <3>3. CASE spool' = spool
      BY <1>1, <3>3
    <3> QED
      BY <2>1, <3>2, <3>3
  <2>3. openLine' \in BOOLEAN
    BY <1>1, <2>1 DEF TypeOK
  <2>4. flush' \in Flushes /\ FlushInRange'
    <3>1. CASE flush' = NotFlushing
      BY <1>2, <3>1 DEF FlushInRange
    <3>2. CASE spool' = <<>> /\ flush' = [flush EXCEPT !.pc = "truncated"]
      BY <1>1, <3>2 DEF Typed, FlushInRange
    <3> QED
      BY <1>6, <3>1, <3>2 DEF FlushTruncate
  <2> QED
    BY <1>1, <1>6, <2>2, <2>3, <2>4 DEF FlushTruncate, Typed, TypeOK, serverVars, ghostVars
<1>7. CASE FlushWriteBack
  <2>1. spool' \in Seq(Lines) /\ Len(spool') <= MaxSpool
    BY <1>7, Rest DEF FlushWriteBack
  <2>2. flush' = NotFlushing
    BY <1>7 DEF FlushWriteBack
  <2>3. FlushInRange'
    BY <1>2, <2>2 DEF FlushInRange
  <2> QED
    BY <1>1, <1>2, <1>7, <2>1, <2>2, <2>3
       DEF FlushWriteBack, Typed, TypeOK, serverVars, ghostVars
<1> QED
  BY <1>3, <1>4, <1>5, <1>6, <1>7

\* Every step keeps the types and the replay's place.
LEMMA StepTyped == Typed /\ [Next]_vars => Typed'
<1> SUFFICES ASSUME Typed, [Next]_vars
             PROVE  Typed'
  OBVIOUS
<1>1. TypeOK
  BY DEF Typed
<1>2. ASSUME NEW e \in Events, NEW paused \in BOOLEAN, LateArrives(e, paused) PROVE Typed'
  <2>1. /\ serverUp' \in BOOLEAN /\ registered' \in BOOLEAN
        /\ stored' \subseteq Events /\ tasks' \in [Events -> 0 .. MaxRetries]
        /\ processed' \in [Events -> Nat]
    BY <1>1, <1>2, CreateEventTyped DEF LateArrives, Lines
  <2>2. late' \subseteq Events
    BY <1>1, <1>2 DEF LateArrives, TypeOK
  <2> QED
    BY <1>2, <2>1, <2>2 DEF LateArrives, Typed, TypeOK, FlushInRange, ghostVars
<1>3. ASSUME NEW e \in Events, LateLost(e) PROVE Typed'
  BY <1>3 DEF LateLost, Typed, TypeOK, FlushInRange, serverVars, ghostVars
<1>4. ASSUME NEW e \in Events, ProcessEvent(e) PROVE Typed'
  <2>1. processed' \in [Events -> Nat]
    BY <1>1, <1>4 DEF ProcessEvent, TypeOK
  <2>2. tasks' \in [Events -> 0 .. MaxRetries]
    <3>1. PICK left \in {0, tasks[e] - 1} : tasks' = [tasks EXCEPT ![e] = left]
      BY <1>4 DEF ProcessEvent
    <3>2. left \in 0 .. MaxRetries
      BY <1>1, <1>4, DeliveryAssumption DEF ProcessEvent, TypeOK
    <3> QED
      BY <1>1, <3>1, <3>2 DEF TypeOK
  <2> QED
    BY <1>4, <2>1, <2>2 DEF ProcessEvent, Typed, TypeOK, FlushInRange, agentVars, ghostVars
<1>5. CASE AgentCrash
  <2>1. /\ spool' \in Seq(Lines) /\ Len(spool') <= MaxSpool
        /\ openLine' \in BOOLEAN
        /\ spoolLog' \in Seq(Events)
    BY <1>5, CrashedFile
  <2>2. stage' \in [Events -> {"idle", "posting", "spooling", "over"}]
    BY <1>1, <1>5 DEF AgentCrash, TypeOK
  <2>3. fate' \in [Events -> Fates]
    BY <1>1, <1>5, FatesTyped DEF AgentCrash
  <2>4. crashes' \in 0 .. MaxCrashes
    BY <1>1, <1>5, DeliveryAssumption DEF AgentCrash, TypeOK
  <2>5. late' \subseteq Events
    <3>1. InCall \subseteq Events
      BY DEF InCall
    <3> QED
      BY <1>1, <1>5, <3>1 DEF AgentCrash, TypeOK
  <2>6. flush' = NotFlushing /\ UNCHANGED <<serverVars, settled>>
    BY <1>5 DEF AgentCrash
  <2>7. FlushInRange'
    BY <2>6, IdleFlush DEF FlushInRange
  <2> QED
    BY <1>1, <2>1, <2>2, <2>3, <2>4, <2>5, <2>6, <2>7, IdleFlush
       DEF Typed, TypeOK, serverVars
<1>6. CASE ServerStops \/ ServerStarts
  <2>1. serverUp' \in BOOLEAN
    BY <1>6, Zenon DEF ServerStops, ServerStarts
  <2>2. tasks' \in [Events -> 0 .. MaxRetries]
    BY <1>1, <1>6, DeliveryAssumption DEF ServerStops, ServerStarts, TypeOK
  <2> QED
    BY <1>6, <2>1, <2>2
       DEF ServerStops, ServerStarts, Typed, TypeOK, FlushInRange, agentVars, ghostVars
<1>7. CASE UNCHANGED vars
  BY <1>7 DEF vars, agentVars, serverVars, ghostVars, Typed, TypeOK, FlushInRange
<1> QED
  BY <1>2, <1>3, <1>4, <1>5, <1>6, <1>7, ThreadStepTyped, HeartbeatStepTyped DEF Next

\* The initial state is typed.
LEMMA InitTyped == Init => Typed
<1> SUFFICES ASSUME Init
             PROVE  Typed
  OBVIOUS
<1>1. /\ spool \in Seq(Lines) /\ Len(spool) <= MaxSpool /\ spoolLog \in Seq(Events)
  BY EmptySeq, DeliveryAssumption DEF Init
<1>2. openLine \in BOOLEAN /\ serverUp \in BOOLEAN /\ registered \in BOOLEAN
  BY Zenon DEF Init
<1>3. crashes \in 0 .. MaxCrashes
  BY DeliveryAssumption DEF Init
<1>4. fate \in [Events -> Fates]
  BY DEF Init, Fates
<1>5. processed \in [Events -> Nat] /\ tasks \in [Events -> 0 .. MaxRetries]
  BY DeliveryAssumption DEF Init
<1>6. FlushInRange
  BY IdleFlush DEF Init, FlushInRange
<1>7. flush = NotFlushing
  BY DEF Init
<1> QED
  BY <1>1, <1>2, <1>3, <1>4, <1>5, <1>6, <1>7, IdleFlush DEF Init, Typed, TypeOK

\* Every state is of the types that TypeOK lists, and the spool within its
\* limit.
THEOREM Typing == Spec => []TypeOK
<1>1. Typed => TypeOK
  BY DEF Typed
<1> QED
  BY <1>1, InitTyped, StepTyped, PTL DEF Spec

-----------------------------------------------------------------------------
(* An event has one background task.                                        *)

\* An event is queued only when it is first stored, and each run of
\* process_event uses up one attempt of its task.
QueuedOnce ==
    \A e \in Events :
        /\ e \notin stored => tasks[e] = 0 /\ processed[e] = 0
        /\ processed[e] + tasks[e] <= MaxRetries

\* The upsert of an event that is there already queues nothing.
LEMMA CreateEventQueuesOnce ==
    ASSUME TypeOK, QueuedOnce, NEW x, NEW paused, CreateEvent(x, paused)
    PROVE  QueuedOnce'
<1>1. /\ processed' = processed /\ stored \subseteq stored'
      /\ \/ tasks' = tasks
         \/ x \notin stored /\ tasks' = [tasks EXCEPT ![x] = MaxRetries] /\ x \in stored'
  BY DEF CreateEvent
<1>2. CASE tasks' = tasks
  BY <1>1, <1>2 DEF QueuedOnce
<1>3. CASE x \notin stored /\ tasks' = [tasks EXCEPT ![x] = MaxRetries] /\ x \in stored'
  <2>1. ASSUME NEW e \in Events, e # x
        PROVE  tasks'[e] = tasks[e] /\ (e \notin stored' => e \notin stored)
    BY <1>1, <1>3, <2>1 DEF TypeOK
  <2>2. ASSUME x \in Events PROVE tasks'[x] = MaxRetries /\ processed'[x] = 0
    BY <1>1, <1>3, <2>2 DEF QueuedOnce, TypeOK
  <2> QED
    BY <1>1, <1>3, <2>1, <2>2, DeliveryAssumption DEF QueuedOnce
<1> QED
  BY <1>1, <1>2, <1>3

\* However often its request is repeated or arrives late, process_event runs
\* for an event at most as often as one background task may try.
THEOREM EventsHaveOneTask == Spec => []OneTaskPerEvent
<1>1. Init => QueuedOnce
  BY DeliveryAssumption DEF Init, QueuedOnce
<1>2. TypeOK /\ QueuedOnce /\ [Next]_vars => QueuedOnce'
  <2> SUFFICES ASSUME TypeOK, QueuedOnce, [Next]_vars
               PROVE  QueuedOnce'
    OBVIOUS
  <2>1. CASE UNCHANGED <<stored, tasks, processed>>
    BY <2>1 DEF QueuedOnce
  <2>2. CASE \E x, paused : CreateEvent(x, paused)
    BY <2>2, CreateEventQueuesOnce
  <2>3. ASSUME NEW e \in Events, ProcessEvent(e) PROVE QueuedOnce'
    <3>1. PICK left \in {0, tasks[e] - 1} : tasks' = [tasks EXCEPT ![e] = left]
      BY <2>3 DEF ProcessEvent
    <3>2. /\ tasks[e] > 0 /\ stored' = stored /\ e \in stored
          /\ processed' = [processed EXCEPT ![e] = processed[e] + 1]
      BY <2>3, DeliveryAssumption DEF ProcessEvent, QueuedOnce, TypeOK
    <3>3. tasks[e] \in Nat /\ processed[e] \in Nat /\ MaxRetries \in Nat
      BY DeliveryAssumption DEF TypeOK
    <3>4. tasks'[e] = left /\ processed'[e] = processed[e] + 1
      BY <3>1, <3>2 DEF TypeOK
    <3>5. \A f \in Events \ {e} : tasks'[f] = tasks[f] /\ processed'[f] = processed[f]
      BY <3>1, <3>2 DEF TypeOK
    <3>6. processed'[e] + tasks'[e] <= MaxRetries
      BY <3>1, <3>2, <3>3, <3>4 DEF QueuedOnce
    <3> QED
      BY <3>2, <3>5, <3>6 DEF QueuedOnce
  <2>4. CASE ServerStops
    <3>1. /\ stored' = stored /\ processed' = processed
          /\ \A e \in Events : tasks'[e] = 0
      BY <2>4 DEF ServerStops
    <3>2. \A e \in Events : tasks[e] \in Nat /\ processed[e] \in Nat
      BY DeliveryAssumption DEF TypeOK
    <3> QED
      BY <3>1, <3>2, DeliveryAssumption DEF QueuedOnce
  <2>5. ASSUME NEW e \in Events PROVE
           /\ (\E enforcing \in BOOLEAN : RaiseEvent(e, enforcing)) \/ PostUnanswered(e)
                  \/ SpoolEvent(e) \/ LateLost(e)
                  => UNCHANGED <<stored, tasks, processed>>
           /\ \A paused \in BOOLEAN :
                 PostAnswered(e, paused) \/ LateArrives(e, paused) => CreateEvent(e, paused)
    BY DEF RaiseEvent, PostUnanswered, SpoolEvent, LateLost, PostAnswered, LateArrives,
           serverVars
  <2>6. Heartbeat \/ FlushUnanswered \/ FlushTruncate \/ FlushWriteBack \/ AgentCrash
            \/ ServerStarts \/ UNCHANGED vars
            => UNCHANGED <<stored, tasks, processed>>
    BY DEF Heartbeat, FlushUnanswered, FlushTruncate, FlushWriteBack, AgentCrash,
           ServerStarts, vars, serverVars
  <2>7. \A paused \in BOOLEAN :
           FlushAnswered(paused) => CreateEvent(flush.pending[flush.at], paused)
    BY DEF FlushAnswered
  <2> QED
    BY <2>1, <2>2, <2>3, <2>4, <2>5, <2>6, <2>7 DEF Next
<1>3. QueuedOnce => OneTaskPerEvent
  BY DEF QueuedOnce, OneTaskPerEvent
<1> QED
  BY <1>1, <1>2, <1>3, Typing, PTL DEF Spec

-----------------------------------------------------------------------------
(* No event is lost without a cause.                                        *)

\* Every answer of the server settles a line, and one that leaves no cause
\* behind has recorded the event.
LEMMA Answered ==
    ASSUME NEW x \in Lines, NEW paused \in BOOLEAN, CreateEvent(x, paused)
    PROVE  /\ StepsOver(Verdict(x))
           /\ stored \subseteq stored'
           /\ FateOf(x, paused) = "none" => x \in stored'
<1>1. Verdict(x) \in {201, 422}
  BY DEF Verdict
<1>2. StepsOver(Verdict(x))
  BY <1>1 DEF StepsOver, PermanentRejection
<1>3. stored' = IF Verdict(x) = 201 /\ ~paused THEN stored \cup {x} ELSE stored
  BY DEF CreateEvent
<1>4. ASSUME FateOf(x, paused) = "none" PROVE x \in stored'
  <2>1. ~PermanentRejection(Verdict(x))
    BY <1>4 DEF FateOf
  <2>2. ~(paused /\ x \notin stored)
    BY <1>4, <2>1, Zenon DEF FateOf
  <2>3. Verdict(x) = 201
    BY <1>1, <2>1 DEF PermanentRejection
  <2> QED
    BY <1>3, <2>2, <2>3
<1> QED
  BY <1>2, <1>3, <1>4

\* The ghost's account: only what was held and is no longer on file is lost.
LEMMA LostOrKept ==
    ASSUME NEW file, NEW S, NEW e \in Events
    PROVE  LostUnlessIn(file, S)[e] =
               IF fate[e] = "none" /\ e \in S /\ e \notin ToSet(file)
               THEN "crash" ELSE fate[e]
BY DEF LostUnlessIn

\* What remains is part of what was read.
LEMMA RemainingWasRead ==
    ASSUME Typed
    PROVE  ToSet(Remaining) \subseteq ToSet(flush.pending)
<1>1. /\ flush.pending \in Seq(Lines) /\ flush.at \in Nat \ {0}
  BY DEF Typed, TypeOK
<1>2. ToSet(flush.pending) = {flush.pending[i] : i \in 1 .. Len(flush.pending)}
  BY <1>1, LinesOf
<1>3. ToSet(Remaining) = {flush.pending[i] : i \in flush.at .. Len(flush.pending)}
  BY Rest
<1>4. Len(flush.pending) \in Nat
  BY <1>1, LenProperties
<1>5. flush.at .. Len(flush.pending) \subseteq 1 .. Len(flush.pending)
  BY <1>1, <1>4
<1> QED
  BY <1>2, <1>3, <1>5

\* Who is still on his way is on no file.
LEMMA NotOnFile ==
    ASSUME Typed, Accounting, NEW e \in Events, stage[e] # "over"
    PROVE  /\ e \notin ToSet(spool)
           /\ flush.pc # "idle" => e \notin ToSet(flush.pending) /\ e \notin ToSet(Remaining)
           /\ stage[e] = "idle" => e \notin Held
<1>1. e \notin ToSet(spool)
  BY DEF Accounting, SpooledIsOver
<1>2. flush.pc # "idle" => e \notin ToSet(flush.pending)
  BY DEF Accounting, SpooledIsOver
<1>3. flush.pc # "idle" => e \notin ToSet(Remaining)
  BY <1>2, RemainingWasRead
<1>4. stage[e] = "idle" => e \notin Held
  BY <1>1, <1>3 DEF Held, InSpool
<1> QED
  BY <1>1, <1>2, <1>3, <1>4

\* The steps that touch neither files nor threads.
LEMMA ElsewhereAccounts ==
    ASSUME Accounting, UNCHANGED <<stage, spool, flush, fate, settled>>,
           stored \subseteq stored'
    PROVE  Accounting'
<1>1. Held' = Held
  BY DEF Held, InSpool, Remaining
<1>2. SpooledIsOver'
  BY DEF Accounting, SpooledIsOver
<1>3. PassedAreSettled'
  BY DEF Accounting, PassedAreSettled
<1>4. SettledIsAccounted'
  BY DEF Accounting, SettledIsAccounted
<1>5. HeldIsNotLetGo'
  BY <1>1 DEF Accounting, HeldIsNotLetGo
<1>6. NoUnaccountedLoss'
  BY <1>1 DEF Accounting, NoUnaccountedLoss
<1> QED
  BY <1>2, <1>3, <1>4, <1>5, <1>6 DEF Accounting

\* A thread whose event is on no file yet moves on.
LEMMA ThreadMoves ==
    ASSUME Typed, Accounting, NEW e \in Events,
           stage[e] \in {"idle", "posting"},
           UNCHANGED <<spool, flush, settled>>, stored \subseteq stored',
           NEW r \in {"posting", "spooling", "over"}, stage' = [stage EXCEPT ![e] = r],
           NEW q \in Fates, fate' = [fate EXCEPT ![e] = q],
           r # "over" => q = fate[e],
           r = "over" => e \in stored' \/ q # "none"
    PROVE  Accounting'
<1>1. /\ stage \in [Events -> {"idle", "posting", "spooling", "over"}]
      /\ fate \in [Events -> Fates]
  BY DEF Typed, TypeOK
<1>2. /\ stage'[e] = r /\ fate'[e] = q
      /\ \A x \in Events \ {e} : stage'[x] = stage[x] /\ fate'[x] = fate[x]
  BY <1>1
<1>3. /\ e \notin ToSet(spool)
      /\ flush.pc # "idle" => e \notin ToSet(flush.pending) /\ e \notin ToSet(Remaining)
      /\ stage[e] = "idle" => e \notin Held
  BY NotOnFile
<1>4. \A x \in Events \ {e} : x \in Held' <=> x \in Held
  BY <1>2 DEF Held, InSpool, Remaining
<1>5. e \in Held' <=> r # "over"
  BY <1>2, <1>3 DEF Held, InSpool, Remaining
<1>6. SpooledIsOver'
  BY <1>2, <1>3 DEF Accounting, SpooledIsOver
<1>7. PassedAreSettled'
  BY DEF Accounting, PassedAreSettled
<1>8. SettledIsAccounted'
  <2>1. \A x \in settled : x \in stored \/ fate[x] # "none"
    BY DEF Accounting, SettledIsAccounted
  <2>2. settled \subseteq Events
    BY DEF Typed, TypeOK
  <2>3. e \in settled => e \in stored' \/ fate'[e] # "none"
    BY <1>2, <2>1
  <2> QED
    BY <1>2, <2>1, <2>2, <2>3 DEF SettledIsAccounted
<1>9. HeldIsNotLetGo'
  <2>1. \A x \in Events : /\ x \in Held => fate[x] = "none" \/ x \in settled
                          /\ stage[x] = "idle" => fate[x] = "none"
    BY DEF Accounting, HeldIsNotLetGo
  <2>2. r # "over" => fate[e] = "none" \/ e \in settled
    <3>1. stage[e] = "posting" => e \in Held
      BY DEF Held
    <3> QED
      BY <2>1, <3>1
  <2> QED
    BY <1>2, <1>4, <1>5, <2>1, <2>2 DEF HeldIsNotLetGo
<1>10. NoUnaccountedLoss'
  <2>1. \A x \in Events : stage[x] = "over" => x \in stored \cup Held \/ fate[x] # "none"
    BY DEF Accounting, NoUnaccountedLoss
  <2> QED
    BY <1>2, <1>4, <1>5, <2>1 DEF NoUnaccountedLoss
<1> QED
  BY <1>6, <1>7, <1>8, <1>9, <1>10 DEF Accounting

\* A thread raises its event, and posts it.
LEMMA PostAccounts ==
    ASSUME Typed, Accounting, NEW e \in Events,
           \/ \E enforcing \in BOOLEAN : RaiseEvent(e, enforcing)
           \/ \E paused \in BOOLEAN : PostAnswered(e, paused)
           \/ PostUnanswered(e)
    PROVE  Accounting'
<1>1. /\ fate \in [Events -> Fates] /\ fate[e] \in Fates /\ TypeOK /\ e \in Lines
  BY DEF Typed, TypeOK, Lines
<1>2. ASSUME NEW enforcing \in BOOLEAN, RaiseEvent(e, enforcing) PROVE Accounting'
  <2>1. stage[e] = "idle" /\ UNCHANGED <<spool, flush, settled, stored>>
    BY <1>2 DEF RaiseEvent, serverVars
  <2>2. CASE enforcing
    <3>1. /\ stage' = [stage EXCEPT ![e] = "posting"]
          /\ fate' = [fate EXCEPT ![e] = fate[e]]
      BY <1>2, <2>2, Zenon DEF RaiseEvent
    <3> QED
      BY <1>1, <2>1, <3>1, ThreadMoves
  <2>3. CASE ~enforcing
    <3>1. /\ stage' = [stage EXCEPT ![e] = "over"]
          /\ fate' = [fate EXCEPT ![e] = "no_policy"]
      BY <1>2, <2>3, Zenon DEF RaiseEvent
    <3>2. "no_policy" \in Fates
      BY DEF Fates
    <3> QED
      BY <2>1, <3>1, <3>2, ThreadMoves
  <2> QED
    BY <2>2, <2>3
<1>3. ASSUME NEW paused \in BOOLEAN, PostAnswered(e, paused) PROVE Accounting'
  <2>1. CreateEvent(e, paused) /\ stage[e] = "posting"
    BY <1>3 DEF PostAnswered
  <2>2. /\ StepsOver(Verdict(e)) /\ stored \subseteq stored'
        /\ FateOf(e, paused) = "none" => e \in stored'
    BY <1>1, <2>1, Answered
  <2>3. /\ stage' = [stage EXCEPT ![e] = "over"]
        /\ fate' = [fate EXCEPT ![e] = FateOf(e, paused)]
        /\ UNCHANGED <<spool, flush, settled>>
    BY <1>3, <2>2 DEF PostAnswered
  <2>4. FateOf(e, paused) \in Fates
    BY <1>1, FatesTyped
  <2>5. stored \subseteq stored' /\ (e \in stored' \/ FateOf(e, paused) # "none")
    BY <2>2
  <2> QED
    BY <2>1, <2>3, <2>4, <2>5, ThreadMoves
<1>4. CASE PostUnanswered(e)
  <2>1. /\ stage[e] = "posting" /\ stage' = [stage EXCEPT ![e] = "spooling"]
        /\ fate' = [fate EXCEPT ![e] = fate[e]]
        /\ UNCHANGED <<spool, flush, settled, stored>>
    BY <1>1, <1>4 DEF PostUnanswered, serverVars, ghostVars
  <2> QED
    BY <1>1, <2>1, ThreadMoves
<1> QED
  BY <1>2, <1>3, <1>4

\* What Accounting says of one event, in a form to be cited.
LEMMA Account ==
    ASSUME Accounting, NEW x \in Events
    PROVE  /\ x \in ToSet(spool) => stage[x] = "over"
           /\ x \in ToSet(flush.pending) /\ flush.pc # "idle" => stage[x] = "over"
           /\ x \in settled => x \in stored \/ fate[x] # "none"
           /\ x \in Held => fate[x] = "none" \/ x \in settled
           /\ stage[x] = "idle" => fate[x] = "none"
           /\ stage[x] = "over" => x \in stored \/ x \in Held \/ fate[x] # "none"
BY DEF Accounting, SpooledIsOver, SettledIsAccounted, HeldIsNotLetGo, NoUnaccountedLoss

\* Who is held is on file, on his way, or in the replay's memory.
LEMMA HeldBy ==
    ASSUME NEW x \in Events
    PROVE  x \in Held <=> \/ x \in ToSet(spool)
                          \/ stage[x] \in {"posting", "spooling"}
                          \/ flush.pc = "truncated" /\ x \in ToSet(Remaining)
BY DEF Held, InSpool

\* A thread spools its event, or lets go of it.
LEMMA SpoolAccounts ==
    ASSUME Typed, Accounting, NEW e \in Events, SpoolEvent(e)
    PROVE  Accounting'
<1>1. /\ stage \in [Events -> {"idle", "posting", "spooling", "over"}]
      /\ fate \in [Events -> Fates] /\ settled \subseteq Events /\ TypeOK
  BY DEF Typed, TypeOK
<1>2. /\ stage[e] = "spooling" /\ flush.pc = "idle"
      /\ stage' = [stage EXCEPT ![e] = "over"]
      /\ UNCHANGED <<flush, settled, stored>>
  BY DEF SpoolEvent, serverVars
<1>3. stage'[e] = "over" /\ \A x \in Events \ {e} : stage'[x] = stage[x]
  BY <1>1, <1>2
<1>4. e \notin ToSet(spool)
  BY <1>2, NotOnFile
<1>5. \A x \in Events : x \in Held' <=>
         x \in ToSet(spool') \/ stage'[x] \in {"posting", "spooling"}
  BY <1>2 DEF Held, InSpool
<1>6. PassedAreSettled'
  BY <1>2 DEF PassedAreSettled
<1>7. CASE /\ HasRoom /\ spool' = Appended(e)
           /\ fate' = LostUnlessIn(spool', InSpool \cup {e})
  <2>1. ToSet(spool') \subseteq ToSet(spool) \cup {e, Torn}
    BY <1>1, <1>7, SpooledFile
  <2>2. \A x \in Events : x \in ToSet(spool') => x \in ToSet(spool) \/ x = e
    BY <2>1, DeliveryAssumption
  <2>3. \A x \in Events :
           fate'[x] = IF fate[x] = "none" /\ (x \in ToSet(spool) \/ x = e)
                         /\ x \notin ToSet(spool')
                      THEN "crash" ELSE fate[x]
    BY <1>7, LostOrKept DEF InSpool
  <2>4. SpooledIsOver'
    BY <1>2, <1>3, <2>2, Account DEF SpooledIsOver
  <2>5. SettledIsAccounted'
    BY <1>1, <1>2, <2>3, Account DEF SettledIsAccounted
  <2>6. HeldIsNotLetGo'
    <3> SUFFICES ASSUME NEW x \in Events
                 PROVE  /\ x \in Held' => fate'[x] = "none" \/ x \in settled'
                        /\ stage'[x] = "idle" => fate'[x] = "none"
      BY DEF HeldIsNotLetGo
    <3>1. CASE x = e
      BY <1>2, <1>3, <1>5, <2>3, <3>1, Account, HeldBy
    <3>2. CASE x # e
      BY <1>2, <1>3, <1>5, <2>2, <2>3, <3>2, Account, HeldBy
    <3> QED
      BY <3>1, <3>2
  <2>7. NoUnaccountedLoss'
    <3> SUFFICES ASSUME NEW x \in Events, stage'[x] = "over"
                 PROVE  x \in stored' \/ x \in Held' \/ fate'[x] # "none"
      BY DEF NoUnaccountedLoss
    <3>1. CASE x = e
      BY <1>5, <2>3, <3>1
    <3>2. CASE x # e
      <4>1. stage[x] = "over"
        BY <1>3, <3>2
      <4>2. x \in stored \/ x \in ToSet(spool) \/ fate[x] # "none"
        BY <1>2, <4>1, Account, HeldBy
      <4> QED
        BY <1>2, <1>5, <2>3, <4>2
    <3> QED
      BY <3>1, <3>2
  <2> QED
    BY <1>6, <2>4, <2>5, <2>6, <2>7 DEF Accounting
<1>8. ASSUME NEW q \in {"full", "disk"}, UNCHANGED spool, fate' = [fate EXCEPT ![e] = q]
      PROVE  Accounting'
  <2>1. fate'[e] # "none" /\ \A x \in Events \ {e} : fate'[x] = fate[x]
    BY <1>1, <1>8
  <2>2. SpooledIsOver'
    BY <1>2, <1>3, <1>8, Account DEF SpooledIsOver
  <2>3. SettledIsAccounted'
    BY <1>1, <1>2, <2>1, Account DEF SettledIsAccounted
  <2>4. HeldIsNotLetGo'
    BY <1>2, <1>3, <1>4, <1>5, <1>8, <2>1, Account, HeldBy DEF HeldIsNotLetGo
  <2>5. NoUnaccountedLoss'
    BY <1>2, <1>3, <1>5, <1>8, <2>1, Account, HeldBy DEF NoUnaccountedLoss
  <2> QED
    BY <1>6, <2>2, <2>3, <2>4, <2>5 DEF Accounting
<1> QED
  BY <1>7, <1>8 DEF SpoolEvent

\* The replay posts a line.
LEMMA ReplayAccounts ==
    ASSUME Typed, Accounting, NEW paused \in BOOLEAN, FlushAnswered(paused)
    PROVE  Accounting'
<1> DEFINE x == flush.pending[flush.at]
<1>1. flush.pc = "posting" /\ x \in Lines /\ flush.at \in 1 .. Len(flush.pending)
  BY LineAtHand DEF FlushAnswered
<1>2. CreateEvent(x, paused)
  BY DEF FlushAnswered
<1>3. /\ StepsOver(Verdict(x)) /\ stored \subseteq stored'
      /\ FateOf(x, paused) = "none" => x \in stored'
  BY <1>1, <1>2, Answered
<1>4. /\ flush' = AfterLine(flush.at) /\ settled' = settled \cup ({x} \cap Events)
      /\ UNCHANGED <<stage, spool>>
  BY <1>3 DEF FlushAnswered
<1>5. \A y \in Events : fate'[y] = IF y = x /\ fate[y] = "none" THEN FateOf(y, paused) ELSE fate[y]
  <2>1. fate' = [y \in Events |-> IF y = x /\ StepsOver(Verdict(x)) /\ fate[y] = "none"
                                  THEN FateOf(y, paused) ELSE fate[y]]
    BY DEF FlushAnswered
  <2> QED
    BY <1>3, <2>1
<1>6. /\ flush'.pending = flush.pending /\ flush'.at = flush.at + 1
      /\ flush'.pc \in {"posting", "rewriting"}
  <2>1. flush \in [pc : {"idle", "posting", "rewriting", "truncated"},
                   pending : Seq(Lines), at : Nat \ {0}]
    BY DEF Typed, TypeOK
  <2> QED
    BY <1>1, <1>4, <2>1 DEF AfterLine
<1>7. \A y \in Events : y \in Held' <=> y \in Held
  BY <1>1, <1>4, <1>6 DEF Held, InSpool
<1>8. SpooledIsOver'
  BY <1>1, <1>4, <1>6, Account DEF SpooledIsOver
<1>9. PassedAreSettled'
  <2> SUFFICES ASSUME NEW i \in 1 .. Len(flush.pending), i < flush.at + 1
               PROVE  flush.pending[i] \in settled' \cup {Torn}
    BY <1>6 DEF PassedAreSettled
  <2>1. CASE i < flush.at
    <3>1. flush.pending[i] \in settled \cup {Torn}
      BY <1>1, <2>1 DEF Accounting, PassedAreSettled
    <3> QED
      BY <1>4, <3>1
  <2>2. CASE i = flush.at
    BY <1>1, <1>4, <2>2 DEF Lines
  <2> QED
    BY <1>1, <2>1, <2>2
<1>10. SettledIsAccounted'
  <2> SUFFICES ASSUME NEW y \in settled'
               PROVE  y \in stored' \/ fate'[y] # "none"
    BY DEF SettledIsAccounted
  <2>1. y \in Events
    BY <1>4 DEF Typed, TypeOK
  <2>2. CASE y = x
    BY <1>3, <1>5, <2>1, <2>2
  <2>3. CASE y # x
    BY <1>3, <1>4, <1>5, <2>1, <2>3, Account
  <2> QED
    BY <2>2, <2>3
<1>11. HeldIsNotLetGo'
  <2> SUFFICES ASSUME NEW y \in Events
               PROVE  /\ y \in Held' => fate'[y] = "none" \/ y \in settled'
                      /\ stage'[y] = "idle" => fate'[y] = "none"
    BY DEF HeldIsNotLetGo
  <2>1. CASE y = x
    <3>1. y \in settled'
      BY <1>4, <2>1
    <3>2. y \in ToSet(flush.pending)
      <4>1. flush.pending \in Seq(Lines)
        BY DEF Typed, TypeOK
      <4>2. ToSet(flush.pending) = {flush.pending[i] : i \in 1 .. Len(flush.pending)}
        BY <4>1, LinesOf
      <4> QED
        BY <1>1, <2>1, <4>2
    <3>3. stage'[y] = "over"
      BY <1>1, <1>4, <3>2, Account
    <3> QED
      BY <3>1, <3>3
  <2>2. CASE y # x
    BY <1>4, <1>5, <1>7, <2>2, Account
  <2> QED
    BY <2>1, <2>2
<1>12. NoUnaccountedLoss'
  <2> SUFFICES ASSUME NEW y \in Events, stage'[y] = "over"
               PROVE  y \in stored' \/ y \in Held' \/ fate'[y] # "none"
    BY DEF NoUnaccountedLoss
  <2>1. y \in stored \/ y \in Held \/ fate[y] # "none"
    BY <1>4, Account
  <2>2. fate[y] # "none" => fate'[y] # "none"
    BY <1>5
  <2> QED
    BY <1>3, <1>7, <2>1, <2>2
<1> QED
  BY <1>8, <1>9, <1>10, <1>11, <1>12 DEF Accounting

\* The replay begins, and breaks off.
LEMMA ReplayTurns ==
    ASSUME Typed, Accounting, Heartbeat \/ FlushUnanswered
    PROVE  Accounting'
<1>1. /\ flush \in [pc : {"idle", "posting", "rewriting", "truncated"},
                    pending : Seq(Lines), at : Nat \ {0}]
      /\ UNCHANGED <<stage, spool, fate, settled, stored>>
  BY DEF Typed, TypeOK, Heartbeat, FlushUnanswered, serverVars, ghostVars
<1>2. CASE flush' = flush
  BY <1>1, <1>2, ElsewhereAccounts
<1>3. ASSUME flush.pc # "truncated", flush'.pc \in {"posting", "rewriting"},
             \/ flush'.pending = spool /\ flush'.at = 1
             \/ flush.pc # "idle" /\ flush'.pending = flush.pending /\ flush'.at = flush.at
      PROVE  Accounting'
  <2>1. \A y \in Events : y \in Held' <=> y \in Held
    BY <1>1, <1>3 DEF Held, InSpool
  <2>2. SpooledIsOver'
    BY <1>1, <1>3, Account DEF SpooledIsOver
  <2>3. PassedAreSettled'
    <3>1. CASE flush'.at = 1
      BY <3>1 DEF PassedAreSettled
    <3>2. CASE flush.pc # "idle" /\ flush'.pending = flush.pending /\ flush'.at = flush.at
      BY <1>1, <3>2 DEF Accounting, PassedAreSettled
    <3> QED
      BY <1>3, <3>1, <3>2
  <2>4. SettledIsAccounted' /\ HeldIsNotLetGo' /\ NoUnaccountedLoss'
    BY <1>1, <2>1 DEF Accounting, SettledIsAccounted, HeldIsNotLetGo, NoUnaccountedLoss
  <2> QED
    BY <2>2, <2>3, <2>4 DEF Accounting
<1>4. CASE Heartbeat
  <2>1. \/ flush' = [pc |-> "posting", pending |-> spool, at |-> 1]
        \/ flush' = flush
    BY <1>4, Zenon DEF Heartbeat
  <2>2. flush.pc = "idle"
    BY <1>4 DEF Heartbeat
  <2> QED
    BY <1>2, <1>3, <2>1, <2>2
<1>5. CASE FlushUnanswered
  <2>1. flush.pc = "posting" /\ flush' = [flush EXCEPT !.pc = "rewriting"]
    BY <1>5 DEF FlushUnanswered, StopReplay
  <2>2. flush'.pc = "rewriting" /\ flush'.pending = flush.pending /\ flush'.at = flush.at
    BY <1>1, <2>1
  <2> QED
    BY <1>3, <2>1, <2>2
<1> QED
  BY <1>4, <1>5

\* Of the events on a file that the replay has read, those it passed are
\* settled and the others remain.
LEMMA PassedOrRemaining ==
    ASSUME Typed, Accounting, NEW x \in Events, flush.pc # "idle",
           x \in ToSet(flush.pending)
    PROVE  x \in settled \/ x \in ToSet(Remaining)
<1>1. flush.pending \in Seq(Lines) /\ flush.at \in Nat \ {0}
  BY DEF Typed, TypeOK
<1>2. ToSet(flush.pending) = {flush.pending[i] : i \in 1 .. Len(flush.pending)}
  BY <1>1, LinesOf
<1>3. PICK i \in 1 .. Len(flush.pending) : x = flush.pending[i]
  BY <1>2
<1>4. CASE i < flush.at
  BY <1>3, <1>4, DeliveryAssumption DEF Accounting, PassedAreSettled
<1>5. CASE ~(i < flush.at)
  <2>1. Len(flush.pending) \in Nat
    BY <1>1, LenProperties
  <2>2. i \in flush.at .. Len(flush.pending)
    BY <1>1, <1>3, <1>5, <2>1
  <2> QED
    BY <1>3, <2>2, Rest
<1> QED
  BY <1>4, <1>5

\* The replay rewrites the file, in two steps.
LEMMA RewriteAccounts ==
    ASSUME Typed, Accounting, FlushTruncate \/ FlushWriteBack
    PROVE  Accounting'
<1>1. /\ flush \in [pc : {"idle", "posting", "rewriting", "truncated"},
                    pending : Seq(Lines), at : Nat \ {0}]
      /\ UNCHANGED <<stage, fate, settled, stored>>
  BY DEF Typed, TypeOK, FlushTruncate, FlushWriteBack, serverVars, ghostVars
<1>2. NotFlushing.pc = "idle"
  BY IdleFlush
<1>3. SettledIsAccounted'
  BY <1>1 DEF Accounting, SettledIsAccounted
<1>4. ASSUME \A x \in Events : x \in Held' => x \in Held,
             \A x \in Events : x \in Held => x \in Held' \/ x \in settled
      PROVE  HeldIsNotLetGo' /\ NoUnaccountedLoss'
  BY <1>1, <1>4, Account DEF HeldIsNotLetGo, NoUnaccountedLoss
<1>5. CASE FlushTruncate /\ spool' = spool
  <2>1. flush' = NotFlushing \/ spool = <<>>
    BY <1>5 DEF FlushTruncate
  <2>2. flush.pc = "rewriting" /\ flush.pending = spool
    BY <1>5 DEF FlushTruncate, Typed, FlushInRange
  <2>3. CASE flush' = NotFlushing
    <3>1. \A x \in Events : x \in Held' <=> x \in Held
      BY <1>1, <1>2, <1>5, <2>2, <2>3 DEF Held, InSpool
    <3>2. SpooledIsOver' /\ PassedAreSettled'
      BY <1>1, <1>2, <1>5, <2>3, Account DEF SpooledIsOver, PassedAreSettled
    <3> QED
      BY <1>3, <1>4, <3>1, <3>2 DEF Accounting
  <2>4. CASE flush' # NotFlushing /\ spool = <<>>
    <3>1. Remaining # <<>>
      BY <1>5, <2>4 DEF FlushTruncate
    <3>2. Len(flush.pending) = 0
      BY <2>2, <2>4, EmptySeq
    <3>3. Remaining = <<>>
      BY <1>1, <3>2, SubSeqEmpty DEF Remaining
    <3> QED
      BY <3>1, <3>3
  <2> QED
    BY <2>1, <2>3, <2>4
<1>6. CASE FlushTruncate /\ spool' # spool
  <2>1. /\ flush.pc = "rewriting" /\ flush.pending = spool /\ spool' = <<>>
        /\ flush' = IF Remaining = <<>> THEN NotFlushing ELSE [flush EXCEPT !.pc = "truncated"]
    BY <1>6 DEF FlushTruncate, Typed, FlushInRange
  <2>2. ToSet(<<>>) = {}
    BY DEF ToSet
  <2>3. CASE Remaining = <<>>
    <3>1. flush' = NotFlushing
      BY <2>1, <2>3
    <3>2. \A x \in Events : x \in ToSet(spool) => x \in settled
      BY <2>1, <2>2, <2>3, PassedOrRemaining
    <3>3. /\ \A x \in Events : x \in Held' => x \in Held
          /\ \A x \in Events : x \in Held => x \in Held' \/ x \in settled
      BY <1>1, <1>2, <2>1, <2>2, <3>1, <3>2 DEF Held, InSpool
    <3>4. SpooledIsOver' /\ PassedAreSettled'
      BY <1>2, <2>1, <2>2, <3>1 DEF SpooledIsOver, PassedAreSettled
    <3> QED
      BY <1>3, <1>4, <3>3, <3>4 DEF Accounting
  <2>4. CASE Remaining # <<>>
    <3>1. /\ flush'.pc = "truncated" /\ flush'.pending = flush.pending
          /\ flush'.at = flush.at /\ Remaining' = Remaining
      BY <1>1, <2>1, <2>4 DEF Remaining
    <3>2. \A x \in Events : x \in ToSet(spool) => x \in settled \/ x \in ToSet(Remaining)
      BY <2>1, PassedOrRemaining
    <3>3. \A x \in Events : x \in ToSet(Remaining) => x \in ToSet(spool)
      BY <2>1, RemainingWasRead
    <3>4. /\ \A x \in Events : x \in Held' => x \in Held
          /\ \A x \in Events : x \in Held => x \in Held' \/ x \in settled
      BY <1>1, <2>1, <2>2, <3>1, <3>2, <3>3 DEF Held, InSpool
    <3>5. SpooledIsOver'
      BY <1>1, <2>1, <2>2, <3>1, Account DEF SpooledIsOver
    <3>6. PassedAreSettled'
      BY <1>1, <2>1, <3>1 DEF Accounting, PassedAreSettled
    <3> QED
      BY <1>3, <1>4, <3>4, <3>5, <3>6 DEF Accounting
  <2> QED
    BY <2>3, <2>4
<1>7. CASE FlushWriteBack
  <2>1. /\ flush.pc = "truncated" /\ spool = <<>> /\ spool' = Remaining
        /\ flush' = NotFlushing
    BY <1>7 DEF FlushWriteBack, Typed, FlushInRange
  <2>2. ToSet(<<>>) = {}
    BY DEF ToSet
  <2>3. \A x \in Events : x \in Held' <=> x \in Held
    BY <1>1, <1>2, <2>1, <2>2 DEF Held, InSpool
  <2>4. SpooledIsOver' /\ PassedAreSettled'
    BY <1>1, <1>2, <2>1, Account, RemainingWasRead DEF SpooledIsOver, PassedAreSettled
  <2> QED
    BY <1>3, <1>4, <2>3, <2>4 DEF Accounting
<1> QED
  BY <1>5, <1>6, <1>7

\* After a crash the file holds only what was held before.
LEMMA CrashInventsNothing ==
    ASSUME Typed, AgentCrash, NEW x \in Events, x \in ToSet(spool')
    PROVE  x \in Held
<1>1. CASE UNCHANGED spool
  BY <1>1, HeldBy
<1>2. CASE AppendCutShort
  <2>1. PICK e \in Events :
           /\ stage[e] = "spooling" /\ HasRoom
           /\ \/ spool' = Append(IF openLine THEN Front(spool) ELSE spool, Torn)
              \/ spool' = Appended(e)
    BY <1>2 DEF AppendCutShort
  <2>2. ToSet(spool') \subseteq ToSet(spool) \cup {e, Torn}
    <3>1. Torn \in Lines
      BY DEF Lines
    <3> QED
      BY <2>1, <3>1, AppendedFile, SpooledFile DEF Typed
  <2>3. x \in ToSet(spool) \/ x = e
    BY <2>2, DeliveryAssumption
  <2> QED
    BY <2>1, <2>3, HeldBy
<1>3. CASE RewriteCutShort
  <2> DEFINE part(k) == SubSeq(Remaining, 1, k)
  <2>1. PICK k \in 0 .. Len(Remaining) : spool' = part(k) \/ spool' = Append(part(k), Torn)
    BY <1>3 DEF RewriteCutShort
  <2>2. Remaining \in Seq(Lines) /\ Len(Remaining) \in Nat
    BY Rest
  <2>3. /\ part(k) \in Seq(Lines)
        /\ ToSet(part(k)) = {Remaining[i] : i \in 1 .. k}
        /\ ToSet(Remaining) = {Remaining[i] : i \in 1 .. Len(Remaining)}
    BY <2>1, <2>2, PartOf, LinesOf
  <2>4. x \in ToSet(part(k))
    <3> HIDE DEF part
    <3>1. Torn \in Lines /\ x # Torn
      BY DeliveryAssumption DEF Lines
    <3>2. CASE spool' = part(k)
      BY <3>2
    <3>3. CASE spool' = Append(part(k), Torn)
      BY <2>3, <3>1, <3>3, OneMore
    <3> QED
      BY <2>1, <3>2, <3>3
  <2>5. x \in ToSet(Remaining)
    BY <2>2, <2>3, <2>4
  <2> QED
    BY <1>3, <2>5, HeldBy DEF RewriteCutShort
<1> QED
  BY <1>1, <1>2, <1>3 DEF AgentCrash

\* The agent dies.
LEMMA CrashAccounts ==
    ASSUME Typed, Accounting, AgentCrash
    PROVE  Accounting'
<1>1. /\ stage \in [Events -> {"idle", "posting", "spooling", "over"}]
      /\ settled \subseteq Events
  BY DEF Typed, TypeOK
<1>2. /\ flush' = NotFlushing /\ flush'.pc = "idle"
      /\ settled' = settled /\ stored' = stored
  BY IdleFlush DEF AgentCrash, serverVars
<1>3. \A x \in Events :
         stage'[x] = IF stage[x] \in {"posting", "spooling"} THEN "over" ELSE stage[x]
  BY DEF AgentCrash
<1>4. \A x \in Events :
         fate'[x] = IF fate[x] = "none" /\ x \in Held /\ x \notin ToSet(spool')
                    THEN "crash" ELSE fate[x]
  BY LostOrKept DEF AgentCrash
<1>5. \A x \in Events : x \in Held' <=> x \in ToSet(spool')
  BY <1>1, <1>2, <1>3 DEF Held, InSpool
<1>6. \A x \in Events : x \in ToSet(spool') => x \in Held
  BY CrashInventsNothing
<1>7. \A x \in Events : x \in Held => stage[x] # "idle"
  BY NotOnFile
<1>8. SpooledIsOver'
  BY <1>1, <1>2, <1>3, <1>6, <1>7 DEF SpooledIsOver
<1>9. PassedAreSettled'
  BY <1>2 DEF PassedAreSettled
<1>10. SettledIsAccounted'
  BY <1>1, <1>2, <1>4, Account DEF SettledIsAccounted
<1>11. HeldIsNotLetGo'
  <2> SUFFICES ASSUME NEW x \in Events
               PROVE  /\ x \in Held' => fate'[x] = "none" \/ x \in settled'
                      /\ stage'[x] = "idle" => fate'[x] = "none"
    BY DEF HeldIsNotLetGo
  <2>1. x \in Held' => fate'[x] = "none" \/ x \in settled'
    BY <1>2, <1>4, <1>5, <1>6, Account
  <2>2. stage'[x] = "idle" => fate'[x] = "none"
    BY <1>3, <1>4, <1>7, Account
  <2> QED
    BY <2>1, <2>2
<1>12. NoUnaccountedLoss'
  <2> SUFFICES ASSUME NEW x \in Events, stage'[x] = "over"
               PROVE  x \in stored' \/ x \in Held' \/ fate'[x] # "none"
    BY DEF NoUnaccountedLoss
  <2>1. CASE x \in Held
    BY <1>4, <1>5, <2>1
  <2>2. CASE x \notin Held
    <3>1. stage[x] = "over"
      BY <1>3, <2>2, HeldBy
    <3> QED
      BY <1>2, <1>4, <2>2, <3>1, Account
  <2> QED
    BY <2>1, <2>2
<1> QED
  BY <1>8, <1>9, <1>10, <1>11, <1>12 DEF Accounting

\* Every step keeps the accounts.
LEMMA StepAccounts == Typed /\ Accounting /\ [Next]_vars => Accounting'
<1> SUFFICES ASSUME Typed, Accounting, [Next]_vars
             PROVE  Accounting'
  OBVIOUS
<1>1. ASSUME NEW e \in Events, NEW paused \in BOOLEAN, LateArrives(e, paused)
      PROVE  Accounting'
  <2>1. stored \subseteq stored' /\ UNCHANGED <<stage, spool, flush, fate, settled>>
    BY <1>1 DEF LateArrives, CreateEvent, ghostVars
  <2> QED
    BY <2>1, ElsewhereAccounts
<1>2. CASE \/ \E e \in Events : LateLost(e) \/ ProcessEvent(e)
           \/ ServerStops \/ ServerStarts \/ UNCHANGED vars
  <2>1. UNCHANGED <<stored, stage, spool, flush, fate, settled>>
    BY <1>2 DEF LateLost, ProcessEvent, ServerStops, ServerStarts, vars, agentVars,
                serverVars, ghostVars
  <2> QED
    BY <2>1, ElsewhereAccounts
<1> QED
  BY <1>1, <1>2, PostAccounts, SpoolAccounts, ReplayTurns, ReplayAccounts, RewriteAccounts,
     CrashAccounts DEF Next

\* At the start nothing is held.
LEMMA InitAccounts == Init => Accounting
<1> SUFFICES ASSUME Init
             PROVE  Accounting
  OBVIOUS
<1>1. /\ spool = <<>> /\ flush.pc = "idle" /\ settled = {}
      /\ \A e \in Events : stage[e] = "idle" /\ fate[e] = "none"
  BY IdleFlush DEF Init
<1>2. ToSet(spool) = {}
  BY <1>1 DEF ToSet
<1> QED
  BY <1>1, <1>2 DEF Accounting, SpooledIsOver, PassedAreSettled, SettledIsAccounted,
                   HeldIsNotLetGo, NoUnaccountedLoss

\* No event an endpoint raised is gone without a record, a copy or a cause.
THEOREM NothingIsLostUnaccounted == Spec => []NoUnaccountedLoss
<1>1. Init => Typed /\ Accounting
  BY InitTyped, InitAccounts
<1>2. Typed /\ Accounting /\ [Next]_vars => Typed' /\ Accounting'
  BY StepTyped, StepAccounts
<1>3. Accounting => NoUnaccountedLoss
  BY DEF Accounting
<1> QED
  BY <1>1, <1>2, <1>3, PTL DEF Spec

\* A line leaves the spool file only when it is settled, or by a crash.
THEOREM LinesLeaveOnlyBySettling == Spec => SpoolShrinksOnlyBySettling
<1> DEFINE Shrinks == \A e \in InSpool : e \in Held' \/ e \in settled' \/ fate'[e] = "crash"
<1>1. Typed /\ Accounting /\ [Next]_vars => [Shrinks]_vars
  <2> SUFFICES ASSUME Typed, Accounting, Next, NEW e \in Events, e \in ToSet(spool)
               PROVE  e \in Held' \/ e \in settled' \/ fate'[e] = "crash"
    BY DEF InSpool
  <2>1. e \in Held
    BY HeldBy
  <2>2. CASE spool' = spool
    BY <2>2 DEF Held, InSpool
  <2>3. ASSUME NEW x \in Events, SpoolEvent(x), spool' # spool
        PROVE  e \in Held' \/ e \in settled' \/ fate'[e] = "crash"
    <3>1. fate' = LostUnlessIn(spool', InSpool \cup {x}) /\ settled' = settled
      BY <2>3 DEF SpoolEvent
    <3>2. CASE e \in ToSet(spool')
      BY <3>2 DEF Held, InSpool
    <3>3. CASE e \notin ToSet(spool')
      BY <2>1, <3>1, <3>3, LostOrKept, Account DEF InSpool
    <3> QED
      BY <3>2, <3>3
  <2>4. CASE FlushTruncate /\ spool' # spool
    <3>1. /\ flush.pc = "rewriting" /\ flush.pending = spool /\ spool' = <<>>
          /\ flush' = IF Remaining = <<>> THEN NotFlushing ELSE [flush EXCEPT !.pc = "truncated"]
          /\ settled' = settled
      BY <2>4 DEF FlushTruncate, Typed, FlushInRange, ghostVars
    <3>2. e \in settled \/ e \in ToSet(Remaining)
      BY <3>1, PassedOrRemaining
    <3>3. CASE e \in ToSet(Remaining)
      <4>1. Remaining # <<>>
        BY <3>3 DEF ToSet
      <4>2. flush'.pc = "truncated" /\ Remaining' = Remaining
        BY <3>1, <4>1 DEF Typed, TypeOK, Remaining
      <4> QED
        BY <3>3, <4>2 DEF Held
    <3> QED
      BY <3>1, <3>2, <3>3
  <2>5. CASE FlushWriteBack
    <3>1. spool = <<>>
      BY <2>5 DEF FlushWriteBack, Typed, FlushInRange
    <3> QED
      BY <3>1 DEF ToSet
  <2>6. CASE AgentCrash
    <3>1. fate' = LostUnlessIn(spool', Held) /\ settled' = settled
      BY <2>6 DEF AgentCrash
    <3>2. CASE e \in ToSet(spool')
      BY <3>2 DEF Held, InSpool
    <3>3. CASE e \notin ToSet(spool')
      BY <2>1, <3>1, <3>3, LostOrKept, Account
    <3> QED
      BY <3>2, <3>3
  <2>7. \/ spool' = spool
        \/ \E x \in Events : SpoolEvent(x)
        \/ FlushTruncate \/ FlushWriteBack \/ AgentCrash
    BY DEF Next, RaiseEvent, PostAnswered, PostUnanswered, LateArrives, LateLost, ProcessEvent,
           Heartbeat, FlushAnswered, FlushUnanswered, ServerStops, ServerStarts, agentVars
  <2> QED
    BY <2>2, <2>3, <2>4, <2>5, <2>6, <2>7
<1>2. Init => Typed /\ Accounting
  BY InitTyped, InitAccounts
<1>3. Typed /\ Accounting /\ [Next]_vars => Typed' /\ Accounting'
  BY StepTyped, StepAccounts
<1> QED
  BY <1>1, <1>2, <1>3, PTL DEF Spec, SpoolShrinksOnlyBySettling

-----------------------------------------------------------------------------
(* The order of the replay.                                                 *)

\* The lines that are on the file, or in memory while it is rewritten.
OnFile == IF flush.pc = "truncated" THEN Remaining ELSE spool

\* Lines come in the order in which their events were spooled.
InOrder(file, log) ==
    \A p, q \in 1 .. Len(file) : \A i, j \in 1 .. Len(log) :
        p < q /\ file[p] = log[i] /\ file[q] = log[j] => i < j

\* What was spooled is settled, destroyed by a crash, or still to be replayed.
LogAccounted ==
    \A i \in 1 .. Len(spoolLog) :
        \/ spoolLog[i] \in settled
        \/ fate[spoolLog[i]] = "crash"
        \/ spoolLog[i] \in ToSet(OnFile)

\* Threads are done with what is spooled and with what is settled.
LoggedIsOver ==
    /\ \A i \in 1 .. Len(spoolLog) : stage[spoolLog[i]] = "over"
    /\ \A e \in settled : stage[e] = "over"

\* ReplayInOrder looks back at what was settled; the next event is the one at
\* hand, and the file says what comes before it.
Ordering ==
    /\ LogAccounted
    /\ LoggedIsOver
    /\ InOrder(OnFile, spoolLog)
    /\ ReplayInOrder

\* A part of a file comes in the order of the file.
LEMMA PartInOrder ==
    ASSUME NEW s \in Seq(Lines), NEW m \in Nat \ {0}, NEW n \in 0 .. Len(s),
           NEW log, InOrder(s, log)
    PROVE  InOrder(SubSeq(s, m, n), log)
<1> DEFINE u == SubSeq(s, m, n)
<1>1. Len(s) \in Nat
  BY LenProperties
<1>2. \A i \in m .. n : s[i] \in Lines
  BY <1>1, ElementOfSeq
<1>3. /\ Len(u) = IF m <= n THEN n - m + 1 ELSE 0
      /\ \A i \in 1 .. n - m + 1 : u[i] = s[m + i - 1]
  BY <1>1, <1>2, SubSeqProperties
<1> HIDE DEF u
<1>4. \A p \in 1 .. Len(u) : m + p - 1 \in 1 .. Len(s) /\ u[p] = s[m + p - 1]
  BY <1>1, <1>3
<1>5. SUFFICES ASSUME NEW p \in 1 .. Len(u), NEW q \in 1 .. Len(u),
                      NEW i \in 1 .. Len(log), NEW j \in 1 .. Len(log),
                      p < q, u[p] = log[i], u[q] = log[j]
               PROVE  i < j
  BY DEF InOrder, u
<1>6. /\ s[m + p - 1] = log[i] /\ s[m + q - 1] = log[j]
      /\ m + p - 1 \in 1 .. Len(s) /\ m + q - 1 \in 1 .. Len(s)
  BY <1>4, <1>5
<1>7. m + p - 1 < m + q - 1
  BY <1>3, <1>5
<1> QED
  BY <1>6, <1>7 DEF InOrder

\* So does a file that was cut short, and a file with one line more whose
\* event was spooled last, or is none.
LEMMA AppendInOrder ==
    ASSUME NEW s \in Seq(Lines), NEW x \in Lines, NEW log \in Seq(Events), NEW longer,
           InOrder(s, log), x \notin ToSet(s) \/ x = Torn, x \notin ToSet(log),
           \/ longer = log
           \/ \E e \in Events : longer = Append(log, e) /\ e \notin ToSet(s) /\ x \in {e, Torn}
    PROVE  InOrder(Append(s, x), longer)
<1> DEFINE u == Append(s, x)
<1>1. Len(s) \in Nat /\ Len(log) \in Nat
  BY LenProperties
<1>2. /\ Len(u) = Len(s) + 1
      /\ \A i \in 1 .. Len(s) : u[i] = s[i] /\ u[i] \in ToSet(s)
      /\ u[Len(s) + 1] = x
  BY AppendProperties, LinesOf
<1>3. \A i \in 1 .. Len(log) : log[i] \in ToSet(log) /\ log[i] \in Events
  BY <1>1, LenProperties DEF ToSet
<1> HIDE DEF u
<1>4. ASSUME longer = log PROVE InOrder(u, longer)
  <2> SUFFICES ASSUME NEW p \in 1 .. Len(u), NEW q \in 1 .. Len(u),
                      NEW i \in 1 .. Len(log), NEW j \in 1 .. Len(log),
                      p < q, u[p] = log[i], u[q] = log[j]
               PROVE  i < j
    BY <1>4 DEF InOrder
  <2>1. q # Len(s) + 1
    BY <1>2, <1>3
  <2>2. p \in 1 .. Len(s) /\ q \in 1 .. Len(s)
    <3>1. Len(u) = Len(s) + 1
      BY <1>2
    <3>2. q \in Nat /\ q <= Len(s)
      BY <1>1, <2>1, <3>1
    <3> QED
      BY <1>1, <3>1, <3>2
  <2>3. u[p] = s[p] /\ u[q] = s[q]
    BY <1>2, <2>2
  <2> QED
    BY <2>2, <2>3 DEF InOrder
<1>5. ASSUME NEW e \in Events, longer = Append(log, e), e \notin ToSet(s), x \in {e, Torn}
      PROVE  InOrder(u, longer)
  <2>1. /\ Len(longer) = Len(log) + 1 /\ longer[Len(log) + 1] = e
        /\ \A i \in 1 .. Len(log) : longer[i] = log[i]
    BY <1>5, AppendProperties
  <2> SUFFICES ASSUME NEW p \in 1 .. Len(u), NEW q \in 1 .. Len(u),
                      NEW i \in 1 .. Len(longer), NEW j \in 1 .. Len(longer),
                      p < q, u[p] = longer[i], u[q] = longer[j]
               PROVE  i < j
    BY DEF InOrder
  <2>2. p \in 1 .. Len(s) /\ u[p] = s[p] /\ u[p] \in ToSet(s)
    BY <1>1, <1>2
  <2>3. i \in 1 .. Len(log) /\ longer[i] = log[i]
    BY <1>1, <1>5, <2>1, <2>2
  <2>4. CASE j = Len(log) + 1
    BY <1>1, <2>3, <2>4
  <2>5. CASE j # Len(log) + 1
    <3>1. j \in 1 .. Len(log) /\ longer[j] = log[j]
      BY <1>1, <2>1, <2>5
    <3>2. q # Len(s) + 1
      BY <1>2, <1>3, <3>1
    <3>3. q \in 1 .. Len(s) /\ u[q] = s[q]
      BY <1>1, <1>2, <3>2
    <3> QED
      BY <2>2, <2>3, <3>1, <3>3 DEF InOrder
  <2> QED
    BY <1>1, <2>1, <2>4, <2>5
<1> QED
  BY <1>4, <1>5 DEF u
\* What is over stays over, and what a crash destroyed stays so.
LEMMA OverIsFinal ==
    ASSUME Typed, Next, NEW x \in Events, stage[x] = "over"
    PROVE  stage'[x] = "over" /\ (fate[x] = "crash" => fate'[x] = "crash")
<1>1. /\ stage \in [Events -> {"idle", "posting", "spooling", "over"}]
      /\ fate \in [Events -> Fates]
  BY DEF Typed, TypeOK
<1>2. CASE stage' = stage /\ fate' = fate
  BY <1>2
<1>3. ASSUME NEW e \in Events, stage[e] # "over",
             \E r \in {"posting", "spooling", "over"} : stage' = [stage EXCEPT ![e] = r],
             \/ fate' = fate
             \/ \E q : fate' = [fate EXCEPT ![e] = q]
             \/ \E file, S : fate' = LostUnlessIn(file, S)
      PROVE  stage'[x] = "over" /\ (fate[x] = "crash" => fate'[x] = "crash")
  <2>1. x # e
    BY <1>3
  <2>2. stage'[x] = "over"
    BY <1>1, <1>3, <2>1
  <2>3. CASE fate' = fate \/ \E q : fate' = [fate EXCEPT ![e] = q]
    BY <1>1, <2>1, <2>2, <2>3
  <2>4. ASSUME NEW file, NEW S, fate' = LostUnlessIn(file, S)
        PROVE  fate[x] = "crash" => fate'[x] = "crash"
    BY <2>4, LostOrKept
  <2> QED
    BY <1>3, <2>2, <2>3, <2>4
<1>4. ASSUME NEW e \in Events, NEW enforcing \in BOOLEAN, RaiseEvent(e, enforcing)
      PROVE  stage'[x] = "over" /\ (fate[x] = "crash" => fate'[x] = "crash")
  BY <1>3, <1>4 DEF RaiseEvent
<1>5. ASSUME NEW e \in Events, NEW paused \in BOOLEAN, PostAnswered(e, paused)
      PROVE  stage'[x] = "over" /\ (fate[x] = "crash" => fate'[x] = "crash")
  BY <1>3, <1>5 DEF PostAnswered
<1>6. ASSUME NEW e \in Events, PostUnanswered(e)
      PROVE  stage'[x] = "over" /\ (fate[x] = "crash" => fate'[x] = "crash")
  BY <1>3, <1>6 DEF PostUnanswered, ghostVars
<1>7. ASSUME NEW e \in Events, SpoolEvent(e)
      PROVE  stage'[x] = "over" /\ (fate[x] = "crash" => fate'[x] = "crash")
  BY <1>3, <1>7 DEF SpoolEvent
<1>8. ASSUME NEW paused \in BOOLEAN, FlushAnswered(paused)
      PROVE  stage'[x] = "over" /\ (fate[x] = "crash" => fate'[x] = "crash")
  BY <1>8 DEF FlushAnswered
<1>9. CASE AgentCrash
  BY <1>9, LostOrKept DEF AgentCrash
<1> QED
  BY <1>2, <1>4, <1>5, <1>6, <1>7, <1>8, <1>9
     DEF Next, Heartbeat, FlushUnanswered, FlushTruncate, FlushWriteBack, LateArrives, LateLost,
         ProcessEvent, ServerStops, ServerStarts, agentVars, ghostVars

\* The line at hand is on the file: if it is a whole one, its thread is done.
LEMMA LineAtHandIsOver ==
    ASSUME Typed, Accounting, flush.pc = "posting", flush.pending[flush.at] \in Events
    PROVE  flush.pending[flush.at] \in ToSet(spool) /\ stage[flush.pending[flush.at]] = "over"
<1> DEFINE x == flush.pending[flush.at]
<1>1. flush.pending \in Seq(Lines) /\ flush.pending = spool
  BY DEF Typed, TypeOK, FlushInRange
<1>2. x \in ToSet(spool)
  BY <1>1, LineAtHand, LinesOf
<1> QED
  BY <1>2, Account

\* The log and what it says of each event.
LEMMA Logged ==
    ASSUME Typed, Ordering
    PROVE  /\ spoolLog \in Seq(Events) /\ Len(spoolLog) \in Nat
           /\ \A i \in 1 .. Len(spoolLog) : /\ spoolLog[i] \in Events
                                            /\ stage[spoolLog[i]] = "over"
           /\ settled \subseteq Events
           /\ \A e \in settled : stage[e] = "over"
<1>1. spoolLog \in Seq(Events) /\ settled \subseteq Events
  BY DEF Typed, TypeOK
<1> QED
  BY <1>1, LenProperties, ElementOfSeq DEF Ordering, LoggedIsOver

\* A step that neither spools nor settles, and keeps the unsettled lines in
\* their order, keeps all.
LEMMA FileKeepsOrder ==
    ASSUME Typed, Ordering, Next, UNCHANGED <<spoolLog, settled>>,
           InOrder(OnFile', spoolLog),
           \A x \in Events : x \in ToSet(OnFile) =>
               \/ x \in settled
               \/ fate'[x] = "crash"
               \/ x \in ToSet(OnFile')
    PROVE  Ordering'
<1>1. LogAccounted'
  BY Logged, OverIsFinal DEF Ordering, LogAccounted
<1>2. LoggedIsOver'
  BY Logged, OverIsFinal DEF LoggedIsOver
<1>3. ReplayInOrder'
  BY Logged, OverIsFinal DEF Ordering, ReplayInOrder
<1> QED
  BY <1>1, <1>2, <1>3 DEF Ordering

\* The replay settles the line at hand: what was spooled before is settled,
\* for it would be on the file before this line.
LEMMA AnswerKeepsOrder ==
    ASSUME Typed, Accounting, Ordering, Next, NEW paused \in BOOLEAN, FlushAnswered(paused)
    PROVE  Ordering'
<1> DEFINE x == flush.pending[flush.at]
<1>1. /\ flush.pc = "posting" /\ x \in Lines /\ flush.at \in 1 .. Len(flush.pending)
      /\ flush.pending = spool /\ spool \in Seq(Lines)
  BY LineAtHand DEF FlushAnswered, Typed, TypeOK, FlushInRange
<1>2. /\ StepsOver(Verdict(x)) /\ CreateEvent(x, paused)
  BY <1>1, Answered DEF FlushAnswered
<1>3. /\ UNCHANGED <<spoolLog, spool, stage>> /\ settled' = settled \cup ({x} \cap Events)
      /\ flush' = AfterLine(flush.at)
  BY <1>2 DEF FlushAnswered
<1>4. flush'.pc # "truncated"
  BY <1>1, <1>3 DEF AfterLine, Typed, TypeOK
<1>5. OnFile' = spool /\ OnFile = spool
  BY <1>1, <1>3, <1>4 DEF OnFile
<1>6. LogAccounted'
  BY <1>3, <1>5, Logged, OverIsFinal DEF Ordering, LogAccounted
<1>7. x \in Events => stage[x] = "over"
  BY <1>1, LineAtHandIsOver
<1>8. LoggedIsOver'
  BY <1>3, <1>7, Logged, OverIsFinal DEF LoggedIsOver
<1>9. ReplayInOrder'
  <2> SUFFICES ASSUME NEW i \in 1 .. Len(spoolLog), NEW j \in 1 .. Len(spoolLog),
                      i < j, spoolLog[j] \in settled'
               PROVE  spoolLog[i] \in settled' \/ fate'[spoolLog[i]] = "crash"
    BY <1>3 DEF ReplayInOrder
  <2>1. CASE spoolLog[j] \in settled
    BY <1>3, <2>1, Logged, OverIsFinal DEF Ordering, ReplayInOrder
  <2>2. CASE spoolLog[j] = x
    <3>1. CASE spoolLog[i] \in settled \/ fate[spoolLog[i]] = "crash"
      BY <1>3, <3>1, Logged, OverIsFinal
    <3>2. CASE spoolLog[i] \in ToSet(spool)
      <4>1. PICK p \in 1 .. Len(spool) : spool[p] = spoolLog[i]
        BY <1>1, <3>2, LinesOf
      <4>2. CASE p < flush.at
        BY <1>1, <1>3, <4>1, <4>2, Logged, DeliveryAssumption DEF Accounting, PassedAreSettled
      <4>3. CASE p = flush.at
        BY <1>1, <1>3, <4>1, <4>3, Logged
      <4>4. CASE flush.at < p
        <5>1. j < i
          BY <1>1, <1>5, <2>2, <4>1, <4>4 DEF Ordering, InOrder
        <5> QED
          BY <5>1, Logged
      <4>5. Len(spool) \in Nat
        BY <1>1, LenProperties
      <4> QED
        BY <1>1, <4>2, <4>3, <4>4, <4>5
    <3> QED
      BY <1>5, <3>1, <3>2 DEF Ordering, LogAccounted
  <2> QED
    BY <1>3, <2>1, <2>2
<1> QED
  BY <1>3, <1>5, <1>6, <1>8, <1>9 DEF Ordering

\* An event is appended, alone or glued to a line that was cut short.
LEMMA AppendKeepsOrder ==
    ASSUME Typed, Accounting, Ordering, Next,
           NEW e \in Events, stage[e] = "spooling", stage'[e] = "over",
           flush.pc = "idle", flush'.pc = "idle", settled' = settled,
           NEW x \in {e, Torn},
           spool' = Append(IF openLine THEN Front(spool) ELSE spool, x),
           spoolLog' = spoolLog \/ spoolLog' = Append(spoolLog, e),
           NEW S, fate' = LostUnlessIn(spool', S),
           \A y \in Events : y \in ToSet(spool) \/ y = e => y \in S
    PROVE  Ordering'
<1> DEFINE before == IF openLine THEN Front(spool) ELSE spool
<1>1. /\ spool \in Seq(Lines) /\ OnFile = spool /\ OnFile' = spool' /\ x \in Lines
      /\ spoolLog \in Seq(Events) /\ Len(spoolLog) \in Nat
      /\ \A i \in 1 .. Len(spoolLog) : spoolLog[i] \in Events
  BY Logged DEF OnFile, Typed, TypeOK, Lines
<1>2. /\ before \in Seq(Lines) /\ ToSet(before) \subseteq ToSet(spool)
      /\ InOrder(before, spoolLog)
  <2>1. /\ Front(spool) \in Seq(Lines) /\ ToSet(Front(spool)) \subseteq ToSet(spool)
    BY <1>1, CutShort
  <2>2. InOrder(Front(spool), spoolLog)
    <3>1. Len(spool) \in Nat
      BY <1>1, LenProperties
    <3>2. CASE Len(spool) = 0
      <4>1. Front(spool) = <<>>
        BY <3>2, SubSeqEmpty DEF Front
      <4>2. Len(<<>>) = 0
        BY EmptySeq
      <4> QED
        BY <4>1, <4>2 DEF InOrder
    <3>3. CASE Len(spool) # 0
      <4> DEFINE n == Len(spool) - 1
      <4>1. n \in 0 .. Len(spool) /\ Front(spool) = SubSeq(spool, 1, n)
        BY <3>1, <3>3 DEF Front
      <4> HIDE DEF n
      <4> QED
        BY <1>1, <4>1, PartInOrder DEF Ordering
    <3> QED
      BY <3>2, <3>3
  <2>3. before = Front(spool) \/ before = spool
    OBVIOUS
  <2> HIDE DEF before
  <2> QED
    BY <1>1, <2>1, <2>2, <2>3 DEF Ordering
<1> HIDE DEF before
<1>3. spool' = Append(before, x)
  BY DEF before
<1>4. /\ e \notin ToSet(spool) /\ e \notin settled
      /\ \A i \in 1 .. Len(spoolLog) : spoolLog[i] # e /\ spoolLog[i] # Torn
  BY <1>1, NotOnFile, Logged, DeliveryAssumption
<1>5. x \notin ToSet(spoolLog)
  <2>1. \A i \in 1 .. Len(spoolLog) : spoolLog[i] # x
    BY <1>4
  <2> QED
    BY <1>1, <2>1, LenProperties DEF ToSet
<1>6. InOrder(spool', spoolLog')
  <2>1. /\ before \in Seq(Lines) /\ x \in Lines /\ spoolLog \in Seq(Events)
        /\ InOrder(before, spoolLog)
    BY <1>1, <1>2
  <2>2. e \notin ToSet(before) /\ (x \notin ToSet(before) \/ x = Torn)
    BY <1>2, <1>4
  <2>3. InOrder(Append(before, x), spoolLog')
    BY <2>1, <2>2, <1>5, AppendInOrder
  <2> QED
    BY <1>3, <2>3
<1>7. \A y \in Events : /\ y \in ToSet(spool) \/ y = e
                        /\ y \notin ToSet(spool')
                        => y \in settled \/ fate'[y] = "crash"
  <2> SUFFICES ASSUME NEW y \in Events, y \in ToSet(spool) \/ y = e, y \notin ToSet(spool')
               PROVE  y \in settled \/ fate'[y] = "crash"
    OBVIOUS
  <2>1. fate[y] = "none" \/ y \in settled
    BY Account, HeldBy
  <2> QED
    BY <2>1, LostOrKept
<1>8. \A i \in 1 .. Len(spoolLog') :
         \/ i \in 1 .. Len(spoolLog) /\ spoolLog'[i] = spoolLog[i]
         \/ i = Len(spoolLog) + 1 /\ spoolLog'[i] = e
  <2>1. CASE spoolLog' = spoolLog
    BY <2>1
  <2>2. CASE spoolLog' = Append(spoolLog, e)
    <3>1. /\ Len(spoolLog') = Len(spoolLog) + 1 /\ spoolLog'[Len(spoolLog) + 1] = e
          /\ \A i \in 1 .. Len(spoolLog) : spoolLog'[i] = spoolLog[i]
      BY <1>1, <2>2, AppendProperties
    <3> QED
      BY <1>1, <3>1
  <2> QED
    BY <2>1, <2>2
<1>9. LogAccounted'
  <2> SUFFICES ASSUME NEW i \in 1 .. Len(spoolLog')
               PROVE  \/ spoolLog'[i] \in settled \/ fate'[spoolLog'[i]] = "crash"
                      \/ spoolLog'[i] \in ToSet(spool')
    BY <1>1 DEF LogAccounted
  <2>1. CASE i \in 1 .. Len(spoolLog) /\ spoolLog'[i] = spoolLog[i]
    <3>1. \/ spoolLog[i] \in settled \/ fate[spoolLog[i]] = "crash"
          \/ spoolLog[i] \in ToSet(spool)
      BY <1>1, <2>1 DEF Ordering, LogAccounted
    <3> QED
      BY <1>1, <1>7, <2>1, <3>1, Logged, OverIsFinal
  <2>2. CASE spoolLog'[i] = e
    BY <1>7, <2>2
  <2> QED
    BY <1>8, <2>1, <2>2
<1>10. LoggedIsOver'
  BY <1>8, Logged, OverIsFinal DEF LoggedIsOver
<1>11. ReplayInOrder'
  <2> SUFFICES ASSUME NEW i \in 1 .. Len(spoolLog'), NEW j \in 1 .. Len(spoolLog'),
                      i < j, spoolLog'[j] \in settled
               PROVE  spoolLog'[i] \in settled \/ fate'[spoolLog'[i]] = "crash"
    BY DEF ReplayInOrder
  <2>1. j \in 1 .. Len(spoolLog) /\ spoolLog'[j] = spoolLog[j]
    BY <1>4, <1>8
  <2>2. i \in 1 .. Len(spoolLog) /\ spoolLog'[i] = spoolLog[i]
    BY <1>1, <1>8, <2>1
  <2>3. spoolLog[i] \in settled \/ fate[spoolLog[i]] = "crash"
    BY <2>1, <2>2 DEF Ordering, ReplayInOrder
  <2> QED
    BY <2>2, <2>3, Logged, OverIsFinal
<1> QED
  BY <1>1, <1>6, <1>9, <1>10, <1>11 DEF Ordering

\* A thread spools its event, or drops it.
LEMMA SpoolKeepsOrder ==
    ASSUME Typed, Accounting, Ordering, Next, NEW e \in Events, SpoolEvent(e)
    PROVE  Ordering'
<1>1. /\ stage[e] = "spooling" /\ flush.pc = "idle" /\ flush' = flush /\ settled' = settled
      /\ stage' = [stage EXCEPT ![e] = "over"]
  BY DEF SpoolEvent
<1>2. stage'[e] = "over"
  BY <1>1 DEF Typed, TypeOK
<1>3. CASE HasRoom /\ spool' = Appended(e) /\ spoolLog' = Append(spoolLog, e)
           /\ fate' = LostUnlessIn(spool', InSpool \cup {e})
  <2> DEFINE x == IF openLine THEN Torn ELSE e
  <2>1. x \in {e, Torn} /\ spool' = Append(IF openLine THEN Front(spool) ELSE spool, x)
    BY <1>3 DEF Appended
  <2>2. \A y \in Events : y \in ToSet(spool) \/ y = e => y \in InSpool \cup {e}
    BY DEF InSpool
  <2> HIDE DEF x
  <2> QED
    BY <1>1, <1>2, <1>3, <2>1, <2>2, AppendKeepsOrder
<1>4. CASE UNCHANGED <<spool, spoolLog>>
  <2>1. OnFile' = OnFile
    BY <1>1, <1>4 DEF OnFile
  <2> QED
    BY <1>1, <1>4, <2>1, FileKeepsOrder DEF Ordering
<1> QED
  BY <1>3, <1>4 DEF SpoolEvent

\* The replay empties the file, or removes it, when what it passed is settled.
LEMMA TruncateKeepsOrder ==
    ASSUME Typed, Accounting, Ordering, Next, FlushTruncate
    PROVE  Ordering'
<1>1. /\ flush.pc = "rewriting" /\ flush.pending = spool
      /\ UNCHANGED <<spoolLog, settled>> /\ OnFile = spool
      /\ flush.pending \in Seq(Lines) /\ flush.at \in Nat \ {0} /\ Len(flush.pending) \in Nat
      /\ flush \in [pc : {"idle", "posting", "rewriting", "truncated"},
                    pending : Seq(Lines), at : Nat \ {0}]
  BY LenProperties DEF FlushTruncate, Typed, TypeOK, FlushInRange, OnFile, ghostVars
<1>2. CASE flush' = NotFlushing /\ spool' = spool
  <2>1. OnFile' = OnFile
    BY <1>1, <1>2, IdleFlush DEF OnFile
  <2> QED
    BY <1>1, <2>1, FileKeepsOrder DEF Ordering
<1>3. CASE /\ spool' = <<>>
           /\ flush' = IF Remaining = <<>> THEN NotFlushing ELSE [flush EXCEPT !.pc = "truncated"]
  <2>1. OnFile' = Remaining
    <3>1. CASE Remaining = <<>>
      BY <1>3, <3>1, IdleFlush DEF OnFile
    <3>2. CASE Remaining # <<>>
      <4>1. flush'.pc = "truncated" /\ Remaining' = Remaining
        BY <1>1, <1>3, <3>2 DEF Remaining
      <4> QED
        BY <4>1 DEF OnFile
    <3> QED
      BY <3>1, <3>2
  <2>2. InOrder(Remaining, spoolLog)
    <3>1. Len(flush.pending) \in 0 .. Len(flush.pending)
      BY <1>1
    <3> QED
      BY <1>1, <3>1, PartInOrder DEF Ordering, Remaining
  <2> QED
    BY <1>1, <2>1, <2>2, PassedOrRemaining, FileKeepsOrder
<1> QED
  BY <1>2, <1>3 DEF FlushTruncate

\* The agent dies: the file stays, or what was being written is cut short.
LEMMA CrashKeepsOrder ==
    ASSUME Typed, Accounting, Ordering, Next, AgentCrash
    PROVE  Ordering'
<1>1. /\ flush'.pc = "idle" /\ settled' = settled /\ fate' = LostUnlessIn(spool', Held)
      /\ OnFile' = spool'
  BY IdleFlush DEF AgentCrash, OnFile
<1>2. CASE flush.pc # "truncated" /\ UNCHANGED <<spool, spoolLog>>
  <2>1. OnFile' = OnFile
    BY <1>1, <1>2 DEF OnFile
  <2> QED
    BY <1>1, <1>2, <2>1, FileKeepsOrder DEF Ordering
<1>3. CASE AppendCutShort
  <2>1. PICK e \in Events :
           /\ stage[e] = "spooling" /\ flush.pc = "idle"
           /\ \/ /\ spool' = Append(IF openLine THEN Front(spool) ELSE spool, Torn)
                 /\ spoolLog' = spoolLog
              \/ spool' = Appended(e) /\ spoolLog' = Append(spoolLog, e)
    BY <1>3 DEF AppendCutShort
  <2>2. \E x \in {e, Torn} : spool' = Append(IF openLine THEN Front(spool) ELSE spool, x)
    BY <2>1 DEF Appended
  <2>3. stage'[e] = "over"
    BY <2>1 DEF AgentCrash
  <2>4. \A y \in Events : y \in ToSet(spool) \/ y = e => y \in Held
    BY <2>1, HeldBy
  <2> QED
    BY <1>1, <2>1, <2>2, <2>3, <2>4, AppendKeepsOrder
<1>4. CASE RewriteCutShort
  <2> DEFINE part(k) == SubSeq(Remaining, 1, k)
  <2>1. PICK k \in 0 .. Len(Remaining) : spool' = part(k) \/ spool' = Append(part(k), Torn)
    BY <1>4 DEF RewriteCutShort
  <2>2. /\ Remaining \in Seq(Lines) /\ OnFile = Remaining /\ spoolLog' = spoolLog
        /\ flush.pc = "truncated"
    BY <1>4, Rest DEF RewriteCutShort, OnFile
  <2>3. InOrder(spool', spoolLog)
    <3>1. InOrder(part(k), spoolLog) /\ part(k) \in Seq(Lines)
      BY <2>1, <2>2, PartInOrder, FirstLines DEF Ordering
    <3>2. Torn \in Lines /\ Torn \notin ToSet(spoolLog) /\ spoolLog \in Seq(Events)
      <4>1. spoolLog \in Seq(Events)
        BY DEF Typed, TypeOK
      <4>2. ToSet(spoolLog) \subseteq Events
        BY <4>1, ElementOfSeq DEF ToSet
      <4> QED
        BY <4>1, <4>2, DeliveryAssumption DEF Lines
    <3> HIDE DEF part
    <3>3. InOrder(Append(part(k), Torn), spoolLog)
      BY <3>1, <3>2, AppendInOrder
    <3> QED
      BY <2>1, <3>1, <3>3
  <2>4. ASSUME NEW x \in Events, x \in ToSet(OnFile)
        PROVE  x \in settled \/ fate'[x] = "crash" \/ x \in ToSet(spool')
    <3>1. x \in Held
      BY <2>2, <2>4, HeldBy
    <3> QED
      BY <1>1, <3>1, Account, LostOrKept
  <2> QED
    BY <1>1, <2>2, <2>3, <2>4, FileKeepsOrder
<1> QED
  BY <1>2, <1>3, <1>4 DEF AgentCrash

\* Every step keeps the order.
LEMMA StepKeepsOrder == Typed /\ Accounting /\ Ordering /\ [Next]_vars => Ordering'
<1> SUFFICES ASSUME Typed, Accounting, Ordering, [Next]_vars
             PROVE  Ordering'
  OBVIOUS
<1>1. CASE UNCHANGED vars
  <2>1. UNCHANGED <<spool, flush, stage, fate, settled, spoolLog>>
    BY <1>1 DEF vars, agentVars, ghostVars
  <2>2. OnFile' = OnFile
    BY <2>1 DEF OnFile, Remaining
  <2> QED
    BY <2>1, <2>2 DEF Ordering, LogAccounted, LoggedIsOver, ReplayInOrder
<1>2. CASE Next /\ UNCHANGED <<spoolLog, settled>> /\ OnFile' = OnFile
  BY <1>2, FileKeepsOrder DEF Ordering
<1>3. CASE Heartbeat
  <2>1. flush.pc = "idle" /\ UNCHANGED <<spool, spoolLog, settled>>
    BY <1>3 DEF Heartbeat, ghostVars
  <2>2. flush' = [pc |-> "posting", pending |-> spool, at |-> 1] \/ flush' = flush
    BY <1>3, Zenon DEF Heartbeat
  <2>3. OnFile' = OnFile
    BY <2>1, <2>2 DEF OnFile
  <2> QED
    BY <1>2, <1>3, <2>1, <2>3 DEF Next
<1>4. CASE FlushUnanswered
  <2>1. /\ flush.pc = "posting" /\ flush'.pc = "rewriting"
        /\ UNCHANGED <<spool, spoolLog, settled>>
    BY <1>4 DEF FlushUnanswered, StopReplay, ghostVars, Typed, TypeOK
  <2>2. OnFile' = OnFile
    BY <2>1 DEF OnFile
  <2> QED
    BY <1>2, <1>4, <2>1, <2>2 DEF Next
<1>5. CASE FlushWriteBack
  <2>1. /\ flush.pc = "truncated" /\ spool' = Remaining /\ flush'.pc = "idle"
        /\ UNCHANGED <<spoolLog, settled>>
    BY <1>5, IdleFlush DEF FlushWriteBack, ghostVars
  <2>2. OnFile' = OnFile
    BY <2>1 DEF OnFile
  <2> QED
    BY <1>2, <1>5, <2>1, <2>2 DEF Next
<1>6. CASE \/ \E e \in Events :
                 \/ \E enforcing \in BOOLEAN : RaiseEvent(e, enforcing)
                 \/ \E paused \in BOOLEAN : PostAnswered(e, paused)
                 \/ PostUnanswered(e)
                 \/ \E paused \in BOOLEAN : LateArrives(e, paused)
                 \/ LateLost(e)
                 \/ ProcessEvent(e)
           \/ ServerStops \/ ServerStarts
  <2>1. UNCHANGED <<spool, flush, spoolLog, settled>>
    BY <1>6 DEF RaiseEvent, PostAnswered, PostUnanswered, LateArrives, LateLost, ProcessEvent,
                ServerStops, ServerStarts, agentVars, ghostVars
  <2>2. OnFile' = OnFile
    BY <2>1 DEF OnFile, Remaining
  <2> QED
    BY <1>2, <1>6, <2>1, <2>2 DEF Next
<1>7. CASE Next /\ \E e \in Events : SpoolEvent(e)
  BY <1>7, SpoolKeepsOrder
<1>8. CASE Next /\ \E paused \in BOOLEAN : FlushAnswered(paused)
  BY <1>8, AnswerKeepsOrder
<1>9. CASE Next /\ (FlushTruncate \/ AgentCrash)
  BY <1>9, TruncateKeepsOrder, CrashKeepsOrder
<1> QED
  BY <1>1, <1>3, <1>4, <1>5, <1>6, <1>7, <1>8, <1>9 DEF Next

\* The replay steps over events in the order in which they were spooled.
THEOREM ReplayKeepsOrder == Spec => []ReplayInOrder
<1>1. Init => Typed /\ Accounting
  BY InitTyped, InitAccounts
<1>2. Init => Ordering
  <2> SUFFICES ASSUME Init
               PROVE  Ordering
    OBVIOUS
  <2>1. spool = <<>> /\ flush.pc = "idle" /\ spoolLog = <<>> /\ settled = {} /\ Len(<<>>) = 0
    BY IdleFlush, EmptySeq DEF Init
  <2> QED
    BY <2>1 DEF Ordering, LogAccounted, LoggedIsOver, InOrder, OnFile, ReplayInOrder
<1>3. Typed /\ Accounting /\ Ordering /\ [Next]_vars => Typed' /\ Accounting' /\ Ordering'
  BY StepTyped, StepAccounts, StepKeepsOrder
<1>4. Ordering => ReplayInOrder
  BY DEF Ordering
<1> QED
  BY <1>1, <1>2, <1>3, <1>4, PTL DEF Spec

-----------------------------------------------------------------------------
(* Event delivery implements the audit trail it promises. What the mapping  *)
(* rests on:                                                                *)

\* Under way is what the endpoint holds and what the network may still bring.
UnderWay == Held \cup late

\* A request whose sender gave up is about an event that was raised.
LateWasRaised == \A e \in late : stage[e] # "idle"

DeliveryInv ==
    /\ Typed
    /\ Accounting
    /\ LateWasRaised

\* What a step may do to an event that it neither raises nor records.
EndsAtMost(x) ==
    \/ TrailOf(x)' = TrailOf(x)
    \/ TrailOf(x) = "pending" /\ TrailOf(x)' \in {"discarded", "lost"}

-----------------------------------------------------------------------------
(* From the variables to the trail of one event.                            *)

\* An event that is no longer under way comes to an end; one that was not
\* under way stays where it is.
LEMMA EventEnds ==
    ASSUME NEW x \in Events,
           x \in stored' <=> x \in stored,
           stage'[x] = "idle" <=> stage[x] = "idle",
           x \in UnderWay' => x \in UnderWay,
           x \notin UnderWay => fate'[x] = fate[x]
    PROVE  EndsAtMost(x)
BY DEF EndsAtMost, TrailOf, UnderWay

\* An event of which nothing changes.
LEMMA EventRests ==
    ASSUME NEW x \in Events,
           x \in stored' <=> x \in stored,
           stage'[x] = "idle" <=> stage[x] = "idle",
           x \in UnderWay' <=> x \in UnderWay,
           fate'[x] = fate[x]
    PROVE  TrailOf(x)' = TrailOf(x)
BY DEF TrailOf, UnderWay

\* A step in which events at most end is one of the trail.
LEMMA StepLetsGo ==
    ASSUME \A x \in Events : EndsAtMost(x)
    PROVE  Trail!TrailNext
<1> DEFINE discarded == {x \in Events : TrailOf(x) = "pending" /\ TrailOf(x)' = "discarded"}
           lost == {x \in Events : TrailOf(x) = "pending" /\ TrailOf(x)' = "lost"}
           before == [x \in Events |-> TrailOf(x)]
<1>1. \A x \in discarded \cup lost : before[x] = "pending"
  OBVIOUS
<1>2. \A x \in Events : TrailOf(x)' = IF x \in discarded THEN "discarded"
                                      ELSE IF x \in lost THEN "lost" ELSE before[x]
  BY DEF EndsAtMost
<1>3. [x \in Events |-> TrailOf(x)]'
        = [x \in Events |-> IF x \in discarded THEN "discarded"
                            ELSE IF x \in lost THEN "lost" ELSE before[x]]
  BY <1>2
<1>4. discarded \in SUBSET Events /\ lost \in SUBSET Events
  OBVIOUS
<1>5. Trail!LetGo(discarded, lost)
  BY <1>1, <1>3 DEF Trail!LetGo
<1> QED
  BY <1>4, <1>5 DEF Trail!TrailNext

\* So is one that raises, ignores or records one event.
LEMMA StepMovesOne ==
    ASSUME NEW e \in Events,
           \A x \in Events \ {e} : TrailOf(x)' = TrailOf(x),
           \/ TrailOf(e) = "unraised" /\ TrailOf(e)' \in {"pending", "lost"}
           \/ TrailOf(e) = "pending" /\ TrailOf(e)' = "recorded"
    PROVE  Trail!TrailNext
<1> DEFINE before == [x \in Events |-> TrailOf(x)]
<1>1. before[e] = TrailOf(e)
  OBVIOUS
<1>2. [x \in Events |-> TrailOf(x)]' = [before EXCEPT ![e] = TrailOf(e)']
  OBVIOUS
<1>3. CASE TrailOf(e) = "unraised" /\ TrailOf(e)' = "pending"
  BY <1>1, <1>2, <1>3 DEF Trail!TrailNext, Trail!Raise
<1>4. CASE TrailOf(e) = "unraised" /\ TrailOf(e)' = "lost"
  BY <1>1, <1>2, <1>4 DEF Trail!TrailNext, Trail!Ignore
<1>5. CASE TrailOf(e) = "pending" /\ TrailOf(e)' = "recorded"
  BY <1>1, <1>2, <1>5 DEF Trail!TrailNext, Trail!Record
<1> QED
  BY <1>3, <1>4, <1>5

\* The server answers for one event that is under way: it records it, or the
\* event at most ends.
LEMMA StepAnswersOne ==
    ASSUME NEW x \in Lines, NEW paused, CreateEvent(x, paused),
           x \in Events => x \in UnderWay /\ stage[x] # "idle" /\ stage'[x] # "idle",
           \A y \in Events : y \in UnderWay' => y \in UnderWay,
           \A y \in Events \ {x} : /\ y \in UnderWay' <=> y \in UnderWay
                                   /\ stage'[y] = stage[y] /\ fate'[y] = fate[y]
    PROVE  Trail!TrailNext
<1>1. /\ stored' = stored \/ stored' = stored \cup {x}
      /\ x = Torn => stored' = stored
  BY DEF CreateEvent, Verdict
<1>2. \A y \in Events \ {x} : TrailOf(y)' = TrailOf(y)
  BY <1>1, EventRests
<1>3. CASE x \in Events /\ x \notin stored /\ x \in stored'
  <2>1. TrailOf(x) = "pending" /\ TrailOf(x)' = "recorded"
    BY <1>3 DEF TrailOf, UnderWay
  <2> QED
    BY <1>2, <1>3, <2>1, StepMovesOne
<1>4. CASE ~(x \in Events /\ x \notin stored /\ x \in stored')
  <2>1. \A y \in Events \ {x} : EndsAtMost(y)
    BY <1>2 DEF EndsAtMost
  <2>2. x \in Events => EndsAtMost(x)
    BY <1>1, <1>4, EventEnds
  <2> QED
    BY <2>1, <2>2, StepLetsGo
<1> QED
  BY <1>3, <1>4

-----------------------------------------------------------------------------
(* The steps.                                                               *)

\* Who is under way.
LEMMA UnderWayBy ==
    ASSUME NEW x \in Events
    PROVE  x \in UnderWay <=> \/ x \in ToSet(spool)
                              \/ stage[x] \in {"posting", "spooling"}
                              \/ flush.pc = "truncated" /\ x \in ToSet(Remaining)
                              \/ x \in late
BY HeldBy DEF UnderWay

\* The line at hand is held.
LEMMA LineAtHandIsHeld ==
    ASSUME Typed, Accounting, flush.pc = "posting", flush.pending[flush.at] \in Events
    PROVE  /\ flush.pending[flush.at] \in Held
           /\ stage[flush.pending[flush.at]] = "over"
BY LineAtHandIsOver, HeldBy

\* An event is raised, or ignored by an endpoint that enforces nothing.
LEMMA RaiseMaps ==
    ASSUME DeliveryInv, NEW e \in Events, NEW enforcing \in BOOLEAN, RaiseEvent(e, enforcing)
    PROVE  Trail!TrailNext
<1>1. /\ stage \in [Events -> {"idle", "posting", "spooling", "over"}]
      /\ fate \in [Events -> Fates]
  BY DEF DeliveryInv, Typed, TypeOK
<1>2. /\ stage[e] = "idle" /\ UNCHANGED <<spool, flush, late, stored>>
      /\ stage' = [stage EXCEPT ![e] = IF enforcing THEN "posting" ELSE "over"]
      /\ fate' = [fate EXCEPT ![e] = IF enforcing THEN @ ELSE "no_policy"]
  BY DEF RaiseEvent, serverVars
<1>3. Remaining' = Remaining
  BY <1>2 DEF Remaining
<1>4. \A x \in Events \ {e} : stage'[x] = stage[x] /\ fate'[x] = fate[x]
  BY <1>1, <1>2
<1>5. stage'[e] \in {"posting", "over"} /\ (stage'[e] = "over" => fate'[e] = "no_policy")
  <2>1. CASE enforcing
    <3>1. stage' = [stage EXCEPT ![e] = "posting"]
      BY <1>2, <2>1, Zenon
    <3> QED
      BY <1>1, <3>1
  <2>2. CASE ~enforcing
    <3>1. stage' = [stage EXCEPT ![e] = "over"] /\ fate' = [fate EXCEPT ![e] = "no_policy"]
      BY <1>2, <2>2, Zenon
    <3> QED
      BY <1>1, <3>1
  <2> QED
    BY <2>1, <2>2
<1>6. \A x \in Events : x \in UnderWay' <=> \/ x \in ToSet(spool)
                                            \/ stage'[x] \in {"posting", "spooling"}
                                            \/ flush.pc = "truncated" /\ x \in ToSet(Remaining)
                                            \/ x \in late
  BY <1>2, <1>3 DEF UnderWay, Held, InSpool
<1>7. \A x \in Events \ {e} : TrailOf(x)' = TrailOf(x)
  <2> SUFFICES ASSUME NEW x \in Events \ {e}
               PROVE  TrailOf(x)' = TrailOf(x)
    OBVIOUS
  <2>1. x \in UnderWay' <=> x \in UnderWay
    BY <1>4, <1>6, UnderWayBy
  <2> QED
    BY <1>2, <1>4, <2>1, EventRests
<1>8. CASE e \in stored
  <2>1. TrailOf(e)' = TrailOf(e)
    BY <1>2, <1>8 DEF TrailOf
  <2> QED
    BY <1>7, <2>1, StepLetsGo DEF EndsAtMost
<1>9. CASE e \notin stored
  <2>1. TrailOf(e) = "unraised"
    BY <1>2, <1>9 DEF TrailOf
  <2>2. TrailOf(e)' \in {"pending", "lost"}
    <3>1. stage'[e] = "over" => TrailOf(e)' \in {"pending", "lost"}
      BY <1>2, <1>5, <1>9 DEF TrailOf
    <3>2. stage'[e] = "posting" => TrailOf(e)' = "pending"
      BY <1>2, <1>6, <1>9 DEF TrailOf, UnderWay
    <3> QED
      BY <1>5, <3>1, <3>2
  <2> QED
    BY <1>7, <2>1, <2>2, StepMovesOne
<1> QED
  BY <1>8, <1>9

\* The post is answered.
LEMMA PostMaps ==
    ASSUME DeliveryInv, NEW e \in Events, NEW paused \in BOOLEAN, PostAnswered(e, paused)
    PROVE  Trail!TrailNext
<1>1. /\ stage \in [Events -> {"idle", "posting", "spooling", "over"}]
      /\ fate \in [Events -> Fates] /\ e \in Lines
  BY DEF DeliveryInv, Typed, TypeOK, Lines
<1>2. /\ stage[e] = "posting" /\ UNCHANGED <<spool, flush, late>>
      /\ CreateEvent(e, paused)
      /\ stage' = [stage EXCEPT ![e] = IF StepsOver(Verdict(e)) THEN "over" ELSE "spooling"]
      /\ fate' = [fate EXCEPT ![e] = FateOf(e, paused)]
  BY DEF PostAnswered
<1>3. stage'[e] \in {"over", "spooling"} /\ Remaining' = Remaining
  BY <1>1, <1>2 DEF Remaining
<1>4. \A x \in Events \ {e} : stage'[x] = stage[x] /\ fate'[x] = fate[x]
  BY <1>1, <1>2
<1>5. e \in UnderWay
  BY <1>2, UnderWayBy
<1>6. \A x \in Events \ {e} : x \in UnderWay' <=> x \in UnderWay
  BY <1>2, <1>3, <1>4 DEF UnderWay, Held, InSpool
<1> QED
  BY <1>1, <1>2, <1>3, <1>4, <1>5, <1>6, StepAnswersOne

\* The replay posts a line.
LEMMA ReplayMaps ==
    ASSUME DeliveryInv, NEW paused \in BOOLEAN, FlushAnswered(paused)
    PROVE  Trail!TrailNext
<1> DEFINE x == flush.pending[flush.at]
<1>1. /\ Typed /\ Accounting /\ flush.pc = "posting" /\ x \in Lines
      /\ UNCHANGED <<stage, spool, late>> /\ CreateEvent(x, paused)
  BY LineAtHand DEF DeliveryInv, FlushAnswered
<1>2. flush'.pc \in {"posting", "rewriting"}
  <2>1. flush \in [pc : {"idle", "posting", "rewriting", "truncated"},
                   pending : Seq(Lines), at : Nat \ {0}]
    BY <1>1 DEF Typed, TypeOK
  <2>2. StepsOver(Verdict(x))
    BY <1>1, Answered
  <2>3. flush' = AfterLine(flush.at)
    BY <2>2 DEF FlushAnswered
  <2> QED
    BY <1>1, <2>1, <2>3 DEF AfterLine
<1>3. \A y \in Events : y \in UnderWay' <=> y \in UnderWay
  BY <1>1, <1>2 DEF UnderWay, Held, InSpool
<1>4. \A y \in Events \ {x} : fate'[y] = fate[y]
  BY DEF FlushAnswered
<1>5. x \in Events => x \in UnderWay /\ stage[x] = "over"
  BY <1>1, LineAtHandIsHeld DEF UnderWay
<1> QED
  BY <1>1, <1>3, <1>4, <1>5, StepAnswersOne

\* A request arrives late.
LEMMA LateMaps ==
    ASSUME DeliveryInv, NEW e \in Events, NEW paused \in BOOLEAN, LateArrives(e, paused)
    PROVE  Trail!TrailNext
<1>1. /\ e \in late /\ e \in Lines /\ CreateEvent(e, paused)
      /\ late' \in {late, late \ {e}} /\ UNCHANGED <<stage, spool, flush, fate>>
  BY DEF LateArrives, Lines, ghostVars
<1>2. stage[e] # "idle" /\ e \in UnderWay
  BY <1>1 DEF DeliveryInv, LateWasRaised, UnderWay
<1>3. Held' = Held
  BY <1>1 DEF Held, InSpool, Remaining
<1>4. /\ \A y \in Events : y \in UnderWay' => y \in UnderWay
      /\ \A y \in Events \ {e} : y \in UnderWay' <=> y \in UnderWay
  BY <1>1, <1>3 DEF UnderWay
<1> QED
  BY <1>1, <1>2, <1>4, StepAnswersOne

\* A step that records nothing, raises nothing, and touches the fate only of
\* what was under way.
LEMMA StepEnds ==
    ASSUME stored' = stored,
           \A x \in Events : stage'[x] = "idle" <=> stage[x] = "idle",
           \A x \in Events : x \in UnderWay' => x \in UnderWay,
           \A x \in Events : x \notin UnderWay => fate'[x] = fate[x]
    PROVE  Trail!TrailNext
BY EventEnds, StepLetsGo

\* A thread gives up on the post, and spools.
LEMMA SpoolMaps ==
    ASSUME DeliveryInv, NEW e \in Events, PostUnanswered(e) \/ SpoolEvent(e)
    PROVE  Trail!TrailNext
<1>1. /\ stage \in [Events -> {"idle", "posting", "spooling", "over"}]
      /\ fate \in [Events -> Fates] /\ TypeOK
  BY DEF DeliveryInv, Typed, TypeOK
<1>2. stage[e] \in {"posting", "spooling"} /\ e \in UnderWay
  BY UnderWayBy DEF PostUnanswered, SpoolEvent
<1>3. /\ stored' = stored /\ flush' = flush
      /\ \E r \in {"spooling", "over"} : stage' = [stage EXCEPT ![e] = r]
  BY DEF PostUnanswered, SpoolEvent, serverVars
<1>4. \A x \in Events : stage'[x] = "idle" <=> stage[x] = "idle"
  BY <1>1, <1>2, <1>3
<1>5. Remaining' = Remaining
  BY <1>3 DEF Remaining
<1>6. \A x \in Events \ {e} : stage'[x] = stage[x]
  BY <1>1, <1>3
<1>7. CASE PostUnanswered(e)
  <2>1. spool' = spool /\ fate' = fate /\ late' \subseteq late \cup {e}
    BY <1>7 DEF PostUnanswered, ghostVars
  <2>2. \A x \in Events \ {e} : x \in UnderWay' => x \in UnderWay
    BY <1>3, <1>5, <1>6, <2>1 DEF UnderWay, Held, InSpool
  <2> QED
    BY <1>2, <1>3, <1>4, <2>1, <2>2, StepEnds
<1>8. CASE SpoolEvent(e)
  <2>1. late' = late /\ flush.pc = "idle"
    BY <1>8 DEF SpoolEvent
  <2>2. \A x \in Events : x \in ToSet(spool') => x \in ToSet(spool) \/ x = e
    <3>1. CASE spool' = spool
      BY <3>1
    <3>2. CASE spool' # spool
      <4>1. HasRoom /\ spool' = Appended(e)
        BY <1>8, <3>2 DEF SpoolEvent
      <4>2. ToSet(spool') \subseteq ToSet(spool) \cup {e, Torn}
        BY <1>1, <4>1, SpooledFile
      <4> QED
        BY <4>2, DeliveryAssumption
    <3> QED
      BY <3>1, <3>2
  <2>3. \A x \in Events : x \in UnderWay' => x \in UnderWay
    <3>1. \A x \in Events \ {e} : x \in UnderWay' => x \in UnderWay
      BY <1>3, <1>5, <1>6, <2>1, <2>2 DEF UnderWay, Held, InSpool
    <3> QED
      BY <1>2, <3>1
  <2>4. \A x \in Events : x \notin UnderWay => fate'[x] = fate[x]
    <3> SUFFICES ASSUME NEW x \in Events, x \notin UnderWay
                 PROVE  fate'[x] = fate[x]
      OBVIOUS
    <3>1. x # e /\ x \notin InSpool \cup {e}
      BY <1>2 DEF UnderWay, Held
    <3>2. CASE fate' = LostUnlessIn(spool', InSpool \cup {e})
      BY <3>1, <3>2, LostOrKept
    <3>3. CASE \E q \in {"full", "disk"} : fate' = [fate EXCEPT ![e] = q]
      BY <1>1, <3>1, <3>3
    <3> QED
      BY <1>8, <3>2, <3>3 DEF SpoolEvent
  <2> QED
    BY <1>3, <1>4, <2>3, <2>4, StepEnds
<1> QED
  BY <1>7, <1>8

\* The replay begins and breaks off, and rewrites the file in two steps.
LEMMA RewriteMaps ==
    ASSUME DeliveryInv, Heartbeat \/ FlushUnanswered \/ FlushTruncate \/ FlushWriteBack
    PROVE  Trail!TrailNext
<1>1. /\ flush \in [pc : {"idle", "posting", "rewriting", "truncated"},
                    pending : Seq(Lines), at : Nat \ {0}]
      /\ UNCHANGED <<stage, fate, stored>> /\ Typed /\ Accounting
  BY DEF DeliveryInv, Typed, TypeOK, Heartbeat, FlushUnanswered, FlushTruncate,
         FlushWriteBack, serverVars, ghostVars
<1>2. ToSet(<<>>) = {} /\ NotFlushing.pc = "idle"
  BY IdleFlush DEF ToSet
<1>3. \A x \in Events : x \in UnderWay' => x \in UnderWay
  <2>1. CASE Heartbeat
    <3>1. /\ flush' = [pc |-> "posting", pending |-> spool, at |-> 1] \/ flush' = flush
          /\ spool' = spool /\ late' = late
      BY <2>1, Zenon DEF Heartbeat
    <3>2. CASE flush' = flush
      BY <1>1, <3>1, <3>2 DEF UnderWay, Held, InSpool, Remaining
    <3>3. CASE flush' = [pc |-> "posting", pending |-> spool, at |-> 1]
      BY <1>1, <3>1, <3>3 DEF UnderWay, Held, InSpool
    <3> QED
      BY <3>1, <3>2, <3>3
  <2>2. CASE FlushUnanswered
    <3>1. /\ flush.pc = "posting" /\ flush'.pc = "rewriting" /\ spool' = spool
          /\ late' \subseteq late \cup ({flush.pending[flush.at]} \cap Events)
      BY <1>1, <2>2 DEF FlushUnanswered, StopReplay
    <3>2. \A x \in Events : x \in Held' => x \in Held
      BY <1>1, <3>1 DEF Held, InSpool
    <3> QED
      BY <1>1, <3>1, <3>2, LineAtHandIsHeld DEF UnderWay
  <2>3. CASE FlushTruncate
    <3>1. /\ flush.pc = "rewriting" /\ flush.pending = spool /\ late' = late
          /\ spool' \in {<<>>, spool}
          /\ \/ flush' = NotFlushing
             \/ flush' = [flush EXCEPT !.pc = "truncated"]
      BY <1>1, <2>3, Zenon DEF FlushTruncate, Typed, FlushInRange
    <3>2. \A x \in Events : x \in ToSet(spool') => x \in ToSet(spool)
      BY <1>2, <3>1
    <3>3. CASE flush' = NotFlushing
      BY <1>1, <1>2, <3>1, <3>2, <3>3 DEF UnderWay, Held, InSpool
    <3>4. CASE flush' = [flush EXCEPT !.pc = "truncated"]
      <4>1. flush'.pending = flush.pending /\ flush'.at = flush.at
        BY <1>1, <3>4
      <4>2. Remaining' = Remaining
        BY <4>1 DEF Remaining
      <4>3. \A x \in Events : x \in ToSet(Remaining) => x \in ToSet(spool)
        BY <1>1, <3>1, RemainingWasRead
      <4> QED
        BY <1>1, <3>1, <3>2, <4>2, <4>3 DEF UnderWay, Held, InSpool
    <3> QED
      BY <3>1, <3>3, <3>4
  <2>4. CASE FlushWriteBack
    <3>1. /\ flush.pc = "truncated" /\ spool' = Remaining /\ flush'.pc = "idle" /\ late' = late
      BY <1>2, <2>4 DEF FlushWriteBack
    <3> QED
      BY <1>1, <3>1 DEF UnderWay, Held, InSpool
  <2> QED
    BY <2>1, <2>2, <2>3, <2>4
<1> QED
  BY <1>1, <1>3, StepEnds

\* The agent dies.
LEMMA CrashMaps ==
    ASSUME DeliveryInv, AgentCrash
    PROVE  Trail!TrailNext
<1>1. /\ stage \in [Events -> {"idle", "posting", "spooling", "over"}]
      /\ Typed /\ Accounting
  BY DEF DeliveryInv, Typed, TypeOK
<1>2. flush'.pc = "idle" /\ stored' = stored
  BY IdleFlush DEF AgentCrash, serverVars
<1>3. \A x \in Events :
         stage'[x] = IF stage[x] \in {"posting", "spooling"} THEN "over" ELSE stage[x]
  BY DEF AgentCrash
<1>4. \A x \in Events : x \in late' => x \in late \/ x \in Held
  <2>1. \A x \in Events : x \in InCall => x \in Held
    BY <1>1, LineAtHandIsHeld, HeldBy DEF InCall
  <2>2. late' \subseteq late \cup InCall
    BY DEF AgentCrash
  <2> QED
    BY <2>1, <2>2
<1>5. \A x \in Events : x \in Held' => x \in Held
  <2>1. \A x \in Events : x \in Held' <=> x \in ToSet(spool')
    BY <1>1, <1>2, <1>3 DEF Held, InSpool
  <2> QED
    BY <1>1, <2>1, CrashInventsNothing
<1>6. \A x \in Events : x \notin UnderWay => fate'[x] = fate[x]
  BY LostOrKept DEF AgentCrash, UnderWay
<1>7. \A x \in Events : x \in UnderWay' => x \in UnderWay
  BY <1>4, <1>5 DEF UnderWay
<1> QED
  BY <1>1, <1>2, <1>3, <1>6, <1>7, StepEnds

\* The network loses a request, and the server processes, stops and starts.
LEMMA ElsewhereMaps ==
    ASSUME DeliveryInv,
           \/ \E e \in Events : LateLost(e) \/ ProcessEvent(e)
           \/ ServerStops \/ ServerStarts \/ UNCHANGED vars
    PROVE  Trail!TrailNext
<1>1. UNCHANGED <<stored, stage, spool, flush, fate>> /\ late' \subseteq late
  BY DEF LateLost, ProcessEvent, ServerStops, ServerStarts, vars, agentVars, serverVars,
         ghostVars
<1>2. Held' = Held
  BY <1>1 DEF Held, InSpool, Remaining
<1> QED
  BY <1>1, <1>2, StepEnds DEF UnderWay

-----------------------------------------------------------------------------
(* The invariant and the refinement.                                        *)

\* Nothing is late that was not raised, and nothing raised is idle again.
LEMMA StepRaisedFirst == DeliveryInv /\ [Next]_vars => LateWasRaised'
<1> SUFFICES ASSUME DeliveryInv, [Next]_vars
             PROVE  LateWasRaised'
  OBVIOUS
<1>1. /\ stage \in [Events -> {"idle", "posting", "spooling", "over"}]
      /\ Typed /\ Accounting /\ LateWasRaised /\ late \subseteq Events
  BY DEF DeliveryInv, Typed, TypeOK
<1>2. \A e \in Events : stage'[e] = "idle" => stage[e] = "idle"
  <2>1. CASE \E e \in Events, r \in {"posting", "spooling", "over"} :
                stage' = [stage EXCEPT ![e] = r]
    BY <1>1, <2>1
  <2>2. CASE AgentCrash
    BY <1>1, <2>2 DEF AgentCrash
  <2>3. CASE stage' = stage
    BY <2>3
  <2> QED
    BY <2>1, <2>2, <2>3
       DEF Next, RaiseEvent, PostAnswered, PostUnanswered, SpoolEvent, LateArrives, LateLost,
           ProcessEvent, Heartbeat, FlushAnswered, FlushUnanswered, FlushTruncate,
           FlushWriteBack, ServerStops, ServerStarts, vars, agentVars
<1>3. CASE late' \subseteq late
  BY <1>1, <1>2, <1>3 DEF LateWasRaised
<1>4. ASSUME NEW e \in Events, PostUnanswered(e) PROVE LateWasRaised'
  <2>1. stage[e] = "posting" /\ late' \subseteq late \cup {e}
    BY <1>4 DEF PostUnanswered
  <2> QED
    BY <1>1, <1>2, <2>1 DEF LateWasRaised
<1>5. CASE FlushUnanswered
  <2>1. flush.pc = "posting" /\ late' \subseteq late \cup ({flush.pending[flush.at]} \cap Events)
    BY <1>5 DEF FlushUnanswered
  <2> QED
    BY <1>1, <1>2, <2>1, LineAtHandIsHeld DEF LateWasRaised
<1>6. CASE AgentCrash
  <2>1. late' \subseteq late \cup InCall
    BY <1>6 DEF AgentCrash
  <2>2. \A e \in InCall : e \in Events /\ stage[e] # "idle"
    BY <1>1, LineAtHandIsHeld DEF InCall
  <2> QED
    BY <1>1, <1>2, <2>1, <2>2 DEF LateWasRaised
<1>7. \/ late' \subseteq late
      \/ \E e \in Events : PostUnanswered(e)
      \/ FlushUnanswered \/ AgentCrash
  BY DEF Next, RaiseEvent, PostAnswered, SpoolEvent, LateArrives, LateLost,
         ProcessEvent, Heartbeat, FlushAnswered, FlushTruncate,
         FlushWriteBack, ServerStops, ServerStarts, vars, agentVars
<1> QED
  BY <1>3, <1>4, <1>5, <1>6, <1>7

\* Event delivery keeps the promise of the audit trail: what is raised is
\* recorded, discarded or lost once, and nothing comes back from there.
THEOREM DeliveryImplementsTrail == Spec => ImplementsAuditTrail
<1>1. Init => DeliveryInv
  BY InitTyped, InitAccounts DEF Init, DeliveryInv, LateWasRaised
<1>2. DeliveryInv /\ [Next]_vars => DeliveryInv'
  BY StepTyped, StepAccounts, StepRaisedFirst DEF DeliveryInv
<1>3. Init => Trail!TrailInit
  BY DEF Init, TrailOf, Trail!TrailInit
<1>4. DeliveryInv /\ [Next]_vars => [Trail!TrailNext]_([e \in Events |-> TrailOf(e)])
  <2> SUFFICES ASSUME DeliveryInv, [Next]_vars
               PROVE  Trail!TrailNext
    OBVIOUS
  <2> QED
    BY RaiseMaps, PostMaps, SpoolMaps, ReplayMaps, RewriteMaps, CrashMaps, LateMaps,
       ElsewhereMaps DEF Next
<1> QED
  BY <1>1, <1>2, <1>3, <1>4, PTL DEF Spec, ImplementsAuditTrail, Trail!TrailSpec

=============================================================================
