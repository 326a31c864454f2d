----------------------- MODULE LinuxPolicySyncProofs -----------------------
(* What the Linux endpoint enforces, for any sets of policies and requests. *)
EXTENDS LinuxPolicySync, TLAPS

\* A handler's record keeps its type when its program counter and its bundle
\* are set ...
LEMMA RequestMoves ==
  ASSUME ServerTypeOK, NEW r \in Requests,
         NEW pc \in Stages,
         NEW bundle \in Bundles
  PROVE  /\ [request EXCEPT ![r].pc = pc] \in [Requests -> RequestStates]
         /\ [request EXCEPT ![r].pc = pc, ![r].bundle = bundle]
              \in [Requests -> RequestStates]
<1>1. /\ [request[r] EXCEPT !.pc = pc] \in RequestStates
      /\ [request[r] EXCEPT !.pc = pc, !.bundle = bundle] \in RequestStates
  BY DEF RequestStates, ServerTypeOK
<1>2. /\ [request EXCEPT ![r].pc = pc] = [request EXCEPT ![r] = [@ EXCEPT !.pc = pc]]
      /\ [request EXCEPT ![r].pc = pc, ![r].bundle = bundle]
           = [request EXCEPT ![r] = [@ EXCEPT !.pc = pc, !.bundle = bundle]]
  BY DEF ServerTypeOK
<1> QED
  BY <1>1, <1>2 DEF ServerTypeOK

\* ... when it answers ...
LEMMA RequestAnswered ==
  ASSUME ServerTypeOK, NEW r \in Requests, NEW status \in Statuses,
         NEW bundle \in Bundles, Answered(r, status, bundle)
  PROVE  request' \in [Requests -> RequestStates]
<1>1. [request[r] EXCEPT !.pc = "answered", !.status = status, !.bundle = bundle]
        \in RequestStates
  <2>1. "answered" \in Stages
    BY DEF Stages
  <2> QED
    BY <2>1 DEF RequestStates, ServerTypeOK
<1> QED
  BY <1>1 DEF Answered, ServerTypeOK

\* ... when the agent sends it, and when it is over.
LEMMA RequestSent ==
  ASSUME ServerTypeOK, NEW r \in Requests, NEW known \in Bundles,
         Send(r, known) \/ request' = [request EXCEPT ![r] = NoRequest]
  PROVE  request' \in [Requests -> RequestStates]
<1> DEFINE sent == [NoRequest EXCEPT !.pc = "sent", !.installed = known]
<1>1. NoRequest \in RequestStates
  BY DEF NoRequest, RequestStates, Bundles, Stages, Statuses
<1>2. sent \in RequestStates
  <2>1. "sent" \in Stages
    BY DEF Stages
  <2> QED
    BY <1>1, <2>1 DEF RequestStates
<1> HIDE DEF sent
<1>3. request' = [request EXCEPT ![r] = sent] \/ request' = [request EXCEPT ![r] = NoRequest]
  BY DEF Send, sent
<1> QED
  BY <1>1, <1>2, <1>3 DEF ServerTypeOK

\* What a handler already found is a bundle.
LEMMA RequestFields ==
  ASSUME ServerTypeOK, NEW r \in Requests
  PROVE  request[r].installed \in Bundles /\ request[r].bundle \in Bundles
BY DEF ServerTypeOK, RequestStates

\* What the USB block becomes is one of the three things that can be.
LEMMA ReconciledTyped ==
  ASSUME TypeOK, NEW b, NEW works \in BOOLEAN, ReconcileUsb(b \in Blocking, works)
  PROVE  usbBlocking' \in BOOLEAN /\ blacklist' \in BOOLEAN /\ usbFailed' \in BOOLEAN
<1>1. CASE UNCHANGED usbVars
  BY <1>1 DEF TypeOK, usbVars
<1>2. CASE BlockUsb(works)
  BY <1>2, Zenon DEF BlockUsb, TypeOK
<1>3. CASE UnblockUsb(works)
  BY <1>3, Zenon DEF UnblockUsb
<1> QED
  BY <1>1, <1>2, <1>3 DEF ReconcileUsb

\* An answer leaves a bundle installed, and one or a mixture enforced.
LEMMA AnswerTyped ==
  ASSUME TypeOK, NEW r \in Requests, TakeAnswer(r)
  PROVE  /\ installed' \in Bundles /\ enforced' \in Bundles \cup {Mixed}
         /\ faults' \in 0 .. MaxFaults
         /\ usbBlocking' \in BOOLEAN /\ blacklist' \in BOOLEAN /\ usbFailed' \in BOOLEAN
<1>1. /\ installed \in Bundles /\ enforced \in Bundles \cup {Mixed} /\ Nothing \in Bundles
      /\ request[r].bundle \in Bundles /\ faults \in 0 .. MaxFaults
      /\ usbBlocking \in BOOLEAN /\ blacklist \in BOOLEAN /\ usbFailed \in BOOLEAN
  BY RequestFields DEF TypeOK, ServerTypeOK, Bundles
<1>2. CASE DisableAll /\ UNCHANGED faults
  BY <1>1, <1>2 DEF DisableAll, usbVars
<1>3. CASE UNCHANGED <<installed, enforced, usbVars, faults>>
  BY <1>1, <1>3 DEF usbVars
<1>4. CASE ApplyBundle(request[r].bundle)
  <2>1. /\ installed' = request[r].bundle
        /\ enforced' \in {request[r].bundle, Nothing, enforced, Mixed}
        /\ faults' = faults \/ Fault
    BY <1>4 DEF ApplyBundle, InstallBreaksOff
  <2>2. \/ UNCHANGED usbVars
        \/ \E works \in BOOLEAN : ReconcileUsb(request[r].bundle \in Blocking, works)
    BY <1>4 DEF ApplyBundle, InstallBreaksOff
  <2>3. usbBlocking' \in BOOLEAN /\ blacklist' \in BOOLEAN /\ usbFailed' \in BOOLEAN
    BY <1>1, <2>2, ReconciledTyped DEF usbVars
  <2>4. faults' \in 0 .. MaxFaults
    BY <1>1, <2>1, BundleAssumption DEF Fault
  <2> QED
    BY <1>1, <2>1, <2>3, <2>4
<1> QED
  BY <1>2, <1>3, <1>4 DEF TakeAnswer

\* Every step of the server and of the agent keeps the types.
LEMMA Typing == Spec => []TypeOK
<1>1. Init => TypeOK
  <2>1. NoRequest \in RequestStates
    BY DEF NoRequest, RequestStates, Bundles, Stages, Statuses
  <2>2. Init => /\ policies \in PolicySets /\ bundleCache \in Bundles
                /\ mutating \in Nat /\ request \in [Requests -> RequestStates]
                /\ edits \in 0 .. MaxEdits /\ faults \in 0 .. MaxFaults
                /\ committed \subseteq PolicySets
    BY <2>1, BundleAssumption DEF Init, ServerInit, Bundles
  <2>4. Init => suspended \in BOOLEAN /\ registered \in BOOLEAN
    BY Zenon DEF Init, ServerInit
  <2>3. Init => /\ running \in BOOLEAN /\ usbBlocking \in BOOLEAN
                /\ blacklist \in BOOLEAN /\ usbFailed \in BOOLEAN
                /\ sync \in SyncStates /\ installed \in Bundles
                /\ enforced \in Bundles \cup {Mixed}
    BY DEF Init, SyncStates, Bundles
  <2> QED
    BY <2>2, <2>3, <2>4 DEF TypeOK, ServerTypeOK
<1>2. TypeOK /\ [Next]_vars => TypeOK'
  <2> SUFFICES ASSUME TypeOK, [Next]_vars PROVE TypeOK'
    OBVIOUS
  <2> USE BundleAssumption, RequestFields DEF TypeOK, Bundles
  <2>1. ASSUME NEW p \in PolicySets, EditPolicies(p), UNCHANGED agentVars
        PROVE  TypeOK'
    BY <2>1 DEF ServerTypeOK, EditPolicies, agentVars, usbVars
  <2>2. ASSUME InvalidateBundles, UNCHANGED agentVars
        PROVE  TypeOK'
    BY <2>2 DEF ServerTypeOK, InvalidateBundles, Fault, agentVars, usbVars
  <2>3. ASSUME NEW s \in BOOLEAN, SetSuspended(s), UNCHANGED agentVars
        PROVE  TypeOK'
    BY <2>3 DEF ServerTypeOK, SetSuspended, agentVars, usbVars
  <2>4. ASSUME BundleExpires, UNCHANGED agentVars
        PROVE  TypeOK'
    BY <2>4 DEF ServerTypeOK, BundleExpires, agentVars, usbVars
  <2>5. ASSUME NEW r \in Requests, Handle(r) \/ AnswerError(r), UNCHANGED agentVars
        PROVE  TypeOK'
    <3>1. request' \in [Requests -> RequestStates]
      <4>1. CASE ReadAgent(r)
        <5>1. CASE Answered(r, 404, Nothing)
          BY <5>1, RequestAnswered DEF Statuses
        <5>2. CASE Answered(r, 200, NoPolicies)
          BY <5>2, RequestAnswered DEF Statuses
        <5>3. CASE request' = [request EXCEPT ![r].pc = "lookup"]
          BY <5>3, RequestMoves DEF Stages
        <5> QED
          BY <4>1, <5>1, <5>2, <5>3, Zenon DEF ReadAgent
      <4>2. CASE ReadCache(r)
        <5>1. CASE Answered(r, 200, bundleCache)
          BY <5>1, RequestAnswered DEF ServerTypeOK, Statuses
        <5>2. CASE request' = [request EXCEPT ![r].pc = "load"]
          BY <5>2, RequestMoves DEF Stages
        <5> QED
          BY <4>2, <5>1, <5>2 DEF ReadCache
      <4>3. CASE LoadPolicies(r)
        BY <4>3, RequestMoves DEF LoadPolicies, ServerTypeOK, Stages, Statuses
      <4>4. CASE StoreBundle(r)
        BY <4>4, RequestAnswered DEF StoreBundle, ServerTypeOK, Stages, Statuses
      <4>5. CASE AnswerError(r)
        BY <4>5, RequestAnswered DEF AnswerError, ServerTypeOK, Stages, Statuses
      <4> QED
        BY <2>5, <4>1, <4>2, <4>3, <4>4, <4>5 DEF Handle
    <3>2. UNCHANGED <<policies, suspended, registered, mutating, edits, committed>>
      BY <2>5 DEF Handle, ReadAgent, ReadCache, LoadPolicies, StoreBundle, AnswerError
    <3>3. bundleCache' \in Bundles /\ faults' \in 0 .. MaxFaults
      BY <2>5 DEF Handle, ReadAgent, ReadCache, LoadPolicies, StoreBundle,
         AnswerError, Fault, ServerTypeOK
    <3> QED
      BY <2>5, <3>1, <3>2, <3>3 DEF ServerTypeOK, agentVars, usbVars
  <2>6. ASSUME NEW r \in Requests, AgentStarts(r)
        PROVE  TypeOK'
    <3>1. request' \in [Requests -> RequestStates]
      BY <2>6, RequestSent DEF AgentStarts
    <3>2. running' \in BOOLEAN /\ registered' \in BOOLEAN
      BY <2>6, Zenon DEF AgentStarts, RegisterAgent, ServerTypeOK
    <3>3. faults' \in 0 .. MaxFaults
      BY <2>6 DEF AgentStarts, RegisterAgent, Fault, ServerTypeOK
    <3>4. sync' \in SyncStates
      BY <2>6 DEF AgentStarts, SyncStates, Waiting
    <3> QED
      BY <2>6, <3>1, <3>2, <3>3, <3>4 DEF AgentStarts, ServerTypeOK, usbVars
  <2>7. ASSUME NEW r \in Requests, SyncStarts(r)
        PROVE  TypeOK'
    <3>1. request' \in [Requests -> RequestStates]
      BY <2>7, RequestSent DEF SyncStarts
    <3> QED
      BY <2>7, <3>1 DEF SyncStarts, SyncStates, Waiting, ServerTypeOK, usbVars
  <2>8. ASSUME NEW r \in Requests, SyncUnknown(r)
        PROVE  TypeOK'
    <3>1. request' \in [Requests -> RequestStates]
      BY <2>8, RequestSent DEF SyncUnknown
    <3>2. sync' \in SyncStates
      BY <2>8 DEF SyncUnknown, SyncStates, NoSync, Waiting
    <3>3. registered' \in BOOLEAN
      BY <2>8, Zenon DEF SyncUnknown, RegisterAgent, ServerTypeOK
    <3>4. faults' \in 0 .. MaxFaults
      BY <2>8 DEF SyncUnknown, RegisterAgent, Fault, ServerTypeOK
    <3> QED
      BY <2>8, <3>1, <3>2, <3>3, <3>4 DEF SyncUnknown, ServerTypeOK, usbVars
  <2>9. ASSUME NEW r \in Requests, SyncAnswered(r)
        PROVE  TypeOK'
    <3>1. request' \in [Requests -> RequestStates]
      BY <2>9, RequestSent DEF SyncAnswered
    <3>2. installed' \in Bundles /\ enforced' \in Bundles \cup {Mixed} /\ faults' \in 0 .. MaxFaults
          /\ usbBlocking' \in BOOLEAN /\ blacklist' \in BOOLEAN /\ usbFailed' \in BOOLEAN
      BY <2>9, AnswerTyped DEF SyncAnswered
    <3> QED
      BY <2>9, <3>1, <3>2 DEF SyncAnswered, SyncStates, ServerTypeOK
  <2>10. ASSUME NEW r \in Requests, DropAnswer(r)
         PROVE  TypeOK'
    <3>1. request' \in [Requests -> RequestStates]
      BY <2>10, RequestSent DEF DropAnswer
    <3> QED
      BY <2>10, <3>1 DEF DropAnswer, ServerTypeOK, agentVars, usbVars
  <2>11. CASE SyncFails
    BY <2>11 DEF SyncFails, DisableAll, Fault, SyncStates, ServerTypeOK, usbVars
  <2>12. CASE AgentStops
    <3>1. running' \in BOOLEAN /\ usbBlocking' \in BOOLEAN /\ usbFailed' \in BOOLEAN
      BY <2>12, Zenon DEF AgentStops
    <3> QED
      BY <2>12, <3>1 DEF AgentStops, Fault, SyncStates, ServerTypeOK
  <2>13. CASE UNCHANGED vars
    BY <2>13 DEF vars, serverVars, agentVars, ServerTypeOK, usbVars
  <2> QED
    BY <2>1, <2>2, <2>3, <2>4, <2>5, <2>6, <2>7, <2>8, <2>9, <2>10, <2>11,
       <2>12, <2>13 DEF Next, Server
<1> QED
  BY <1>1, <1>2, PTL DEF Spec

-----------------------------------------------------------------------------
(* The USB block.                                                           *)

\* Installing a bundle, wholly or in part.
LEMMA AppliedBlocks ==
    ASSUME TypeOK, BlockingSetBlocks, NEW b \in Bundles, ApplyBundle(b)
    PROVE  BlockingSetBlocks'
<1> USE BundleAssumption, AgentAssumption DEF BlockingSetBlocks
<1>1. /\ usbBlocking \in BOOLEAN /\ blacklist \in BOOLEAN /\ usbFailed \in BOOLEAN
      /\ Nothing \notin PolicySets /\ Mixed \notin PolicySets
      /\ Blocking \subseteq PolicySets
  BY DEF TypeOK, Bundles
<1>2. ASSUME NEW works \in BOOLEAN, ReconcileUsb(b \in Blocking, works)
      PROVE  /\ b \in Blocking => usbBlocking' \/ usbFailed'
             /\ b \notin Blocking => ~usbBlocking'
             /\ usbBlocking' => blacklist' \/ usbFailed'
  BY <1>1, <1>2 DEF ReconcileUsb, BlockUsb, UnblockUsb, usbVars
<1>3. CASE UNCHANGED usbVars /\ enforced' \in {Nothing, Mixed, enforced}
  BY <1>1, <1>3 DEF usbVars
<1>4. ASSUME NEW works \in BOOLEAN, ReconcileUsb(b \in Blocking, works),
             enforced' = b \/ enforced' = Nothing
      PROVE  BlockingSetBlocks'
  BY <1>1, <1>2, <1>4
<1> QED
  BY <1>3, <1>4 DEF ApplyBundle, InstallBreaksOff

\* While a blocking set is enforced the process believes in the block, while
\* another is it does not, and where it does the file is there, unless it could
\* not be written or removed (_reconcile_usb_blocking, _block_usb_storage).
THEOREM BlockingIsInPlace == Spec => []BlockingSetBlocks
<1> USE BundleAssumption, AgentAssumption
<1>1. Init => BlockingSetBlocks
  BY DEF Init, BlockingSetBlocks
<1>2. TypeOK /\ BlockingSetBlocks /\ [Next]_vars => BlockingSetBlocks'
  <2> SUFFICES ASSUME TypeOK, BlockingSetBlocks, [Next]_vars
               PROVE  BlockingSetBlocks'
    OBVIOUS
  <2>1. ASSUME UNCHANGED <<enforced, usbVars>>
        PROVE  BlockingSetBlocks'
    BY <2>1 DEF BlockingSetBlocks, usbVars
  <2>2. ASSUME DisableAll PROVE BlockingSetBlocks'
    BY <2>2 DEF DisableAll, BlockingSetBlocks, usbVars
  <2>3. ASSUME NEW r \in Requests, ApplyBundle(request[r].bundle) PROVE BlockingSetBlocks'
    BY <2>3, AppliedBlocks, RequestFields DEF TypeOK
  <2>4. CASE AgentStops
    BY <2>4 DEF AgentStops, BlockingSetBlocks
  <2>5. ASSUME NEW r \in Requests, SyncAnswered(r) PROVE BlockingSetBlocks'
    BY <2>1, <2>2, <2>3, <2>5 DEF SyncAnswered, TakeAnswer
  <2>6. CASE SyncFails
    BY <2>1, <2>2, <2>6 DEF SyncFails
  <2> QED
    BY <2>1, <2>4, <2>5, <2>6
       DEF Next, Server, AgentStarts, SyncStarts, SyncUnknown, DropAnswer, agentVars, vars
<1> QED
  BY <1>1, <1>2, Typing, PTL DEF Spec

-----------------------------------------------------------------------------
(* What is cached.                                                          *)

\* A bundle about to be stored was read from the policies.
LoadedWasCommitted ==
    \A r \in Requests : At(r, "store") => request[r].bundle \in committed

CommittedInv == CachedWasCommitted /\ LoadedWasCommitted /\ policies \in committed

LEMMA CommittedHolds == Spec => []CommittedInv
<1> DEFINE Inv == CommittedInv
<1> USE BundleAssumption DEF CommittedInv, CachedWasCommitted, LoadedWasCommitted, At
<1>1. Init => Inv
  BY DEF Init, ServerInit, NoRequest
<1>2. TypeOK /\ Inv /\ [Next]_vars => Inv'
  <2> SUFFICES ASSUME TypeOK, Inv, [Next]_vars PROVE Inv'
    OBVIOUS
  <2> USE DEF TypeOK, ServerTypeOK
  <2>1. ASSUME NEW p \in PolicySets, EditPolicies(p) PROVE Inv'
    BY <2>1 DEF EditPolicies
  <2>2. CASE InvalidateBundles
    BY <2>2 DEF InvalidateBundles
  <2>3. ASSUME NEW s, SetSuspended(s) PROVE Inv'
    BY <2>3 DEF SetSuspended
  <2>4. CASE BundleExpires
    BY <2>4 DEF BundleExpires
  \* A step that leaves the caches and makes no handler ready to store.
  <2>a. ASSUME UNCHANGED <<policies, committed, bundleCache>>,
               \A q \in Requests : request'[q].pc = "store" => request'[q] = request[q]
        PROVE  Inv'
    BY <2>a
  <2>b. ASSUME NEW r \in Requests, NEW status, NEW bundle, Answered(r, status, bundle)
        PROVE  \A q \in Requests : request'[q].pc = "store" => request'[q] = request[q]
    <3>1. request'[r] = [request[r] EXCEPT !.pc = "answered", !.status = status,
                                            !.bundle = bundle]
      BY <2>b DEF Answered
    <3>2. request'[r].pc = "answered"
      BY <3>1 DEF RequestStates
    <3>3. \A q \in Requests \ {r} : request'[q] = request[q]
      BY <2>b DEF Answered
    <3> QED
      BY <3>2, <3>3
  <2>c. ASSUME NEW r \in Requests, NEW pc, pc # "store",
               request' = [request EXCEPT ![r].pc = pc]
        PROVE  \A q \in Requests : request'[q].pc = "store" => request'[q] = request[q]
    <3>1. request'[r] = [request[r] EXCEPT !.pc = pc]
      BY <2>c
    <3>2. request'[r].pc = pc
      BY <3>1 DEF RequestStates
    <3>3. \A q \in Requests \ {r} : request'[q] = request[q]
      BY <2>c
    <3> QED
      BY <2>c, <3>2, <3>3
  <2>d. ASSUME NEW r \in Requests, NEW known, Send(r, known)
        PROVE  \A q \in Requests : request'[q].pc = "store" => request'[q] = request[q]
    <3>1. /\ request'[r] = [NoRequest EXCEPT !.pc = "sent", !.installed = known]
          /\ \A q \in Requests \ {r} : request'[q] = request[q]
      BY <2>d DEF Send
    <3> QED
      BY <3>1 DEF NoRequest
  <2>5a. ASSUME NEW r \in Requests, ReadAgent(r) PROVE Inv'
    <3>1. \/ \E status, bundle : Answered(r, status, bundle)
          \/ request' = [request EXCEPT ![r].pc = "lookup"]
      BY <2>5a, Zenon DEF ReadAgent
    <3>2. \A q \in Requests : request'[q].pc = "store" => request'[q] = request[q]
      BY <3>1, <2>b, <2>c
    <3>3. UNCHANGED <<policies, committed, bundleCache>>
      BY <2>5a, Zenon DEF ReadAgent
    <3> QED
      BY <3>2, <3>3, <2>a
  <2>5b. ASSUME NEW r \in Requests, ReadCache(r) PROVE Inv'
    <3>1. \/ \E status, bundle : Answered(r, status, bundle)
          \/ request' = [request EXCEPT ![r].pc = "load"]
      BY <2>5b, Zenon DEF ReadCache
    <3>2. \A q \in Requests : request'[q].pc = "store" => request'[q] = request[q]
      BY <3>1, <2>b, <2>c
    <3>3. UNCHANGED <<policies, committed, bundleCache>>
      BY <2>5b, Zenon DEF ReadCache
    <3> QED
      BY <3>2, <3>3, <2>a
  <2>5c. ASSUME NEW r \in Requests, AnswerError(r) PROVE Inv'
    <3>1. /\ \E status, bundle : Answered(r, status, bundle)
          /\ UNCHANGED <<policies, committed, bundleCache>>
      BY <2>5c, Zenon DEF AnswerError
    <3>2. \A q \in Requests : request'[q].pc = "store" => request'[q] = request[q]
      BY <3>1, <2>b
    <3> QED
      BY <3>1, <3>2, <2>a
  <2>6. ASSUME NEW r \in Requests, LoadPolicies(r) PROVE Inv'
    BY <2>6 DEF LoadPolicies
  <2>7. ASSUME NEW r \in Requests, StoreBundle(r) PROVE Inv'
    BY <2>7 DEF StoreBundle, Answered
  <2>8. ASSUME NEW r \in Requests,
               AgentStarts(r) \/ SyncStarts(r) \/ SyncUnknown(r)
        PROVE  Inv'
    <3>1. /\ \E known : Send(r, known)
          /\ UNCHANGED <<policies, committed, bundleCache>>
      BY <2>8, Zenon DEF AgentStarts, SyncStarts, SyncUnknown
    <3>2. \A q \in Requests : request'[q].pc = "store" => request'[q] = request[q]
      BY <3>1, <2>d
    <3> QED
      BY <3>1, <3>2, <2>a
  <2>9. ASSUME NEW r \in Requests, SyncAnswered(r) \/ DropAnswer(r)
        PROVE  Inv'
    BY <2>9 DEF SyncAnswered, DropAnswer, NoRequest
  <2>10. CASE SyncFails \/ AgentStops \/ UNCHANGED vars
    BY <2>10 DEF SyncFails, AgentStops, vars, serverVars
  <2> QED
    BY <2>1, <2>2, <2>3, <2>4, <2>5a, <2>5b, <2>5c, <2>6, <2>7, <2>8, <2>9, <2>10
       DEF Next, Server, Handle
<1> QED
  BY <1>1, <1>2, Typing, PTL DEF Spec

\* Redis holds no bundle that was never the endpoint's policy set; in
\* particular a paused endpoint publishes nothing (sync_agent_policies).
THEOREM NothingElseIsCached == Spec => []CachedWasCommitted
<1>1. CommittedInv => CachedWasCommitted
  BY DEF CommittedInv
<1> QED
  BY <1>1, CommittedHolds, PTL

-----------------------------------------------------------------------------
(* The rollout.                                                             *)

\* A bundle that was answered is committed, or the empty one of a pause.
GivenWasCommitted ==
    \A r \in Requests : At(r, "answered") /\ request[r].status = 200
        => request[r].bundle \in committed \cup {NoPolicies}

\* The request that is waited for names what is installed.
AwaitedIsCurrent == sync.pc \in Waiting => request[sync.request].installed = installed

RolloutInv == TypeOK /\ CommittedInv /\ GivenWasCommitted /\ AwaitedIsCurrent

LEMMA AwaitedIsRequest ==
    ASSUME TypeOK, sync.pc \in Waiting
    PROVE  sync.request \in Requests
BY DEF TypeOK, SyncStates, NoSync, Waiting

\* What an answer makes of the request that is answered.
LEMMA AnsweredFields ==
    ASSUME TypeOK, NEW r \in Requests, NEW status, NEW bundle, Answered(r, status, bundle)
    PROVE  /\ request'[r].status = status /\ request'[r].bundle = bundle
           /\ request'[r].installed = request[r].installed
           /\ \A q \in Requests : q # r => request'[q] = request[q]
<1>1. request[r] \in RequestStates
  BY DEF TypeOK, ServerTypeOK
<1>2. request'[r] = [request[r] EXCEPT !.pc = "answered", !.status = status,
                                         !.bundle = bundle]
  BY DEF Answered, TypeOK, ServerTypeOK
<1>3. \A q \in Requests : q # r => request'[q] = request[q]
  BY DEF Answered, TypeOK, ServerTypeOK
<1> QED
  BY <1>1, <1>2, <1>3 DEF RequestStates

\* A handler's step: its request keeps what it names, and an answer of 200 is a
\* bundle that was committed, or the empty one.
LEMMA HandlerStep ==
    ASSUME RolloutInv, NEW r \in Requests, Handle(r) \/ AnswerError(r)
    PROVE  /\ \A q \in Requests : request'[q].installed = request[q].installed
           /\ GivenWasCommitted'
           /\ UNCHANGED committed
<1> USE DEF RolloutInv
<1>1. UNCHANGED committed
  BY Zenon DEF Handle, ReadAgent, ReadCache, LoadPolicies, StoreBundle, AnswerError
<1>2. ASSUME NEW status, NEW bundle, Answered(r, status, bundle),
             status = 200 => bundle \in committed \cup {NoPolicies}
      PROVE  /\ \A q \in Requests : request'[q].installed = request[q].installed
             /\ GivenWasCommitted'
  <2>1. /\ request'[r].status = status /\ request'[r].bundle = bundle
        /\ request'[r].installed = request[r].installed
        /\ \A q \in Requests : q # r => request'[q] = request[q]
    BY <1>2, AnsweredFields
  <2> QED
    BY <1>1, <1>2, <2>1 DEF GivenWasCommitted, At
<1>3. ASSUME NEW pc \in {"lookup", "load", "store"}, NEW bundle,
             \/ request' = [request EXCEPT ![r].pc = pc]
             \/ request' = [request EXCEPT ![r].pc = pc, ![r].bundle = bundle]
      PROVE  /\ \A q \in Requests : request'[q].installed = request[q].installed
             /\ GivenWasCommitted'
  <2>1. request[r] \in RequestStates /\ request \in [Requests -> RequestStates]
    BY DEF TypeOK, ServerTypeOK
  <2>2. \/ request'[r] = [request[r] EXCEPT !.pc = pc]
        \/ request'[r] = [request[r] EXCEPT !.pc = pc, !.bundle = bundle]
    BY <1>3, <2>1
  <2>3. \A q \in Requests : q # r => request'[q] = request[q]
    BY <1>3, <2>1
  <2>4. request'[r].pc = pc /\ request'[r].installed = request[r].installed
    BY <2>1, <2>2 DEF RequestStates
  <2> QED
    BY <1>1, <1>3, <2>3, <2>4 DEF GivenWasCommitted, At
<1>4. CASE ReadAgent(r)
  <2>1. \/ Answered(r, 404, Nothing)
        \/ Answered(r, 200, NoPolicies)
        \/ request' = [request EXCEPT ![r].pc = "lookup"]
    BY <1>4, Zenon DEF ReadAgent
  <2> QED
    BY <1>2, <1>3, <1>1, <2>1
<1>5. CASE ReadCache(r)
  <2>1. \/ bundleCache # Nothing /\ Answered(r, 200, bundleCache)
        \/ request' = [request EXCEPT ![r].pc = "load"]
    BY <1>5, Zenon DEF ReadCache
  <2>2. bundleCache # Nothing => bundleCache \in committed
    BY DEF CommittedInv, CachedWasCommitted
  <2> QED
    BY <1>2, <1>3, <1>1, <2>1, <2>2
<1>6. CASE LoadPolicies(r)
  BY <1>1, <1>3, <1>6 DEF LoadPolicies
<1>7. CASE StoreBundle(r)
  <2>1. request[r].bundle \in committed
    BY <1>7 DEF StoreBundle, CommittedInv, LoadedWasCommitted
  <2> QED
    BY <1>1, <1>2, <1>7, <2>1 DEF StoreBundle
<1>8. CASE AnswerError(r)
  BY <1>1, <1>2, <1>8 DEF AnswerError
<1> QED
  BY <1>4, <1>5, <1>6, <1>7, <1>8 DEF Handle

\* A request that is sent names what it is given, and one that is sent or over is
\* not answered.
LEMMA SendStep ==
    ASSUME RolloutInv, NEW r \in Requests, NEW known, Send(r, known)
    PROVE  /\ request'[r].installed = known /\ request'[r].pc # "answered"
           /\ \A q \in Requests : q # r => request'[q] = request[q]
<1>1. request \in [Requests -> RequestStates]
  BY DEF RolloutInv, TypeOK, ServerTypeOK
<1>2. request'[r] = [NoRequest EXCEPT !.pc = "sent", !.installed = known]
  BY <1>1 DEF Send
<1>3. \A q \in Requests : q # r => request'[q] = request[q]
  BY <1>1 DEF Send
<1> QED
  BY <1>2, <1>3 DEF NoRequest

LEMMA OverStep ==
    ASSUME RolloutInv, NEW r \in Requests, request' = [request EXCEPT ![r] = NoRequest]
    PROVE  /\ request'[r].pc # "answered"
           /\ \A q \in Requests : q # r => request'[q] = request[q]
  BY DEF RolloutInv, TypeOK, ServerTypeOK, NoRequest

\* Both invariants, when requests but for one keep what they have.
LEMMA OneRequestMoves ==
    ASSUME RolloutInv, NEW r \in Requests, request'[r].pc # "answered", UNCHANGED committed,
           \A q \in Requests : q # r => request'[q] = request[q]
    PROVE  GivenWasCommitted'
  BY DEF RolloutInv, GivenWasCommitted, At

LEMMA RolloutInvStep ==
    ASSUME RolloutInv, [Next]_vars
    PROVE  GivenWasCommitted' /\ AwaitedIsCurrent'
<1> USE AwaitedIsRequest
<1>1. CASE /\ UNCHANGED <<request, sync, installed>> \/ (UNCHANGED request /\ sync' = NoSync)
           /\ committed \subseteq committed'
  BY <1>1 DEF RolloutInv, GivenWasCommitted, AwaitedIsCurrent, At, NoSync, Waiting
<1>2. ASSUME NEW r \in Requests, Handle(r) \/ AnswerError(r), UNCHANGED agentVars
      PROVE  GivenWasCommitted' /\ AwaitedIsCurrent'
  <2>1. GivenWasCommitted' /\ \A q \in Requests : request'[q].installed = request[q].installed
    BY <1>2, HandlerStep
  <2> QED
    BY <1>2, <2>1 DEF RolloutInv, AwaitedIsCurrent, agentVars
<1>3. ASSUME NEW r \in Requests, AgentStarts(r) \/ SyncStarts(r)
      PROVE  GivenWasCommitted' /\ AwaitedIsCurrent'
  <2>1. /\ Send(r, installed) /\ UNCHANGED <<committed, installed>>
        /\ sync'.request = r
    BY <1>3 DEF AgentStarts, SyncStarts
  <2> QED
    BY <2>1, SendStep, OneRequestMoves DEF AwaitedIsCurrent
<1>4. ASSUME NEW r \in Requests, SyncUnknown(r)
      PROVE  GivenWasCommitted' /\ AwaitedIsCurrent'
  <2>1. /\ Send(r, request[r].installed) /\ UNCHANGED <<committed, installed>>
        /\ sync.pc \in Waiting /\ sync.request = r
        /\ sync' = [sync EXCEPT !.pc = "retrying"]
    BY <1>4 DEF SyncUnknown, Waiting
  <2>2. sync'.request = r
    BY <2>1 DEF RolloutInv, TypeOK, SyncStates, NoSync
  <2>3. request[r].installed = installed
    BY <2>1 DEF RolloutInv, AwaitedIsCurrent
  <2> QED
    BY <2>1, <2>2, <2>3, SendStep, OneRequestMoves DEF AwaitedIsCurrent
<1>5. ASSUME NEW r \in Requests, SyncAnswered(r)
      PROVE  GivenWasCommitted' /\ AwaitedIsCurrent'
  <2>1. /\ request' = [request EXCEPT ![r] = NoRequest] /\ UNCHANGED committed
        /\ sync' = NoSync
    BY <1>5 DEF SyncAnswered
  <2> QED
    BY <2>1, OverStep, OneRequestMoves DEF AwaitedIsCurrent, NoSync, Waiting
<1>6. ASSUME NEW r \in Requests, DropAnswer(r)
      PROVE  GivenWasCommitted' /\ AwaitedIsCurrent'
  <2>1. /\ request' = [request EXCEPT ![r] = NoRequest] /\ UNCHANGED <<committed, agentVars>>
        /\ ~Awaited(r)
    BY <1>6 DEF DropAnswer
  <2>2. sync.pc \in Waiting => sync.request # r /\ sync.request \in Requests
    BY <2>1 DEF Awaited, RolloutInv
  <2> QED
    BY <2>1, <2>2, OverStep, OneRequestMoves DEF RolloutInv, AwaitedIsCurrent, agentVars
<1>7. CASE \/ (\E p \in PolicySets : EditPolicies(p)) /\ UNCHANGED agentVars
           \/ InvalidateBundles /\ UNCHANGED agentVars
           \/ BundleExpires /\ UNCHANGED agentVars
           \/ (\E s \in BOOLEAN : SetSuspended(s)) /\ UNCHANGED agentVars
           \/ SyncFails \/ AgentStops \/ UNCHANGED vars
  BY <1>1, <1>7 DEF EditPolicies, InvalidateBundles, BundleExpires, SetSuspended, SyncFails,
     AgentStops, vars, serverVars, agentVars
<1> QED
  BY <1>2, <1>3, <1>4, <1>5, <1>6, <1>7 DEF Next, Server

\* Every step of the server and the endpoint is one of the rollout or none.
LEMMA RolloutStep ==
    ASSUME RolloutInv, [Next]_vars
    PROVE  Rollout!RolloutNext \/ UNCHANGED <<committed, installed, enforced>>
<1>1. CASE UNCHANGED <<committed, installed, enforced>>
  BY <1>1
<1>2. ASSUME NEW p \in PolicySets, EditPolicies(p), UNCHANGED agentVars
      PROVE  Rollout!RolloutNext
  BY <1>2 DEF EditPolicies, agentVars, Rollout!Commit, Rollout!RolloutNext
<1>3. ASSUME NEW r \in Requests, SyncAnswered(r)
      PROVE  Rollout!RolloutNext \/ UNCHANGED <<committed, installed, enforced>>
  <2>0. TakeAnswer(r) /\ UNCHANGED committed
    BY <1>3 DEF SyncAnswered
  <2>1. CASE request[r].status # 200 /\ DisableAll
    BY <2>0, <2>1 DEF DisableAll, Rollout!TurnOff, Rollout!RolloutNext
  <2>2. CASE UNCHANGED <<installed, enforced, usbVars, faults>>
    BY <2>0, <2>2
  <2>3. CASE request[r].status = 200 /\ ~UpToDate(r) /\ ApplyBundle(request[r].bundle)
    <3>1. /\ installed' = request[r].bundle
          /\ enforced' \in {request[r].bundle, Mixed, Nothing, enforced}
      BY <2>3 DEF ApplyBundle, InstallBreaksOff
    <3>2. request[r].bundle \in committed \cup {NoPolicies}
      BY <1>3, <2>3 DEF SyncAnswered, RolloutInv, GivenWasCommitted
    <3>3. request[r].bundle \in PolicySets
      BY <3>2, BundleAssumption DEF RolloutInv, TypeOK, ServerTypeOK
    <3>4. request[r].installed = installed
      BY <1>3 DEF SyncAnswered, Awaited, RolloutInv, AwaitedIsCurrent
    <3>5. request[r].bundle # installed
      BY <2>3, <3>4 DEF UpToDate
    <3> QED
      BY <2>0, <3>1, <3>2, <3>3, <3>5 DEF Rollout!Adopt, Rollout!RolloutNext
  <2> QED
    BY <2>0, <2>1, <2>2, <2>3 DEF TakeAnswer
<1>4. CASE SyncFails
  BY <1>4 DEF SyncFails, DisableAll, Rollout!TurnOff, Rollout!RolloutNext
<1>5. CASE AgentStops
  BY <1>5 DEF AgentStops, Rollout!StartOver, Rollout!RolloutNext
<1>6. \/ UNCHANGED <<committed, installed, enforced>>
      \/ (\E p \in PolicySets : EditPolicies(p)) /\ UNCHANGED agentVars
      \/ \E r \in Requests : SyncAnswered(r)
      \/ SyncFails \/ AgentStops
  BY DEF Next, Server, InvalidateBundles, SetSuspended, BundleExpires, Handle, ReadAgent,
     ReadCache, LoadPolicies, StoreBundle, AnswerError, AgentStarts, SyncStarts, SyncUnknown,
     DropAnswer, agentVars, vars, serverVars
<1> QED
  BY <1>1, <1>2, <1>3, <1>4, <1>5, <1>6

LEMMA RolloutInvHolds ==
    Spec => [](TypeOK /\ CommittedInv /\ GivenWasCommitted /\ AwaitedIsCurrent)
<1>1. Init => GivenWasCommitted /\ AwaitedIsCurrent
  <2>1. Init => \A r \in Requests : request[r].pc = "idle"
    <3>1. NoRequest.pc = "idle"
      BY DEF NoRequest
    <3>2. Init => \A r \in Requests : request[r] = NoRequest
      BY DEF Init, ServerInit
    <3> QED
      BY <3>1, <3>2
  <2>2. Init => sync.pc = "idle"
    BY DEF Init, NoSync
  <2> QED
    BY <2>1, <2>2 DEF GivenWasCommitted, AwaitedIsCurrent, At, Waiting
<1>2. TypeOK /\ CommittedInv /\ GivenWasCommitted /\ AwaitedIsCurrent /\ [Next]_vars
        => GivenWasCommitted' /\ AwaitedIsCurrent'
  BY RolloutInvStep DEF RolloutInv
<1> QED
  BY <1>1, <1>2, Typing, CommittedHolds, PTL DEF Spec

\* The endpoint implements the rollout: it installs only what was once its policy
\* set, or the empty set of a pause, and never again what it says it has.
THEOREM EndpointImplementsRollout == Spec => ImplementsPolicyRollout
<1>1. Init => Rollout!RolloutInit
  BY DEF Init, ServerInit, Rollout!RolloutInit
<1>2. TypeOK /\ CommittedInv /\ GivenWasCommitted /\ AwaitedIsCurrent /\ [Next]_vars
        => [Rollout!RolloutNext]_(Rollout!rolloutVars)
  BY RolloutStep DEF RolloutInv, Rollout!rolloutVars
<1> QED
  BY <1>1, <1>2, RolloutInvHolds, PTL
  DEF Spec, ImplementsPolicyRollout, Rollout!RolloutSpec

\* An endpoint that turned itself off takes up another set than the one it still
\* reports as installed.
OffUntilAnother ==
    [][enforced = Nothing /\ enforced' # Nothing => enforced' # installed]_vars

\* What an endpoint turned off it does not take up again, unless it is given another
\* set first or starts over: why one error answer lasts (sync_policies, up_to_date).
THEOREM TurnedOffStaysOff == Spec => OffUntilAnother
<1>1. TypeOK /\ CommittedInv /\ GivenWasCommitted /\ AwaitedIsCurrent /\ [Next]_vars
        => [enforced = Nothing /\ enforced' # Nothing => enforced' # installed]_vars
  <2> SUFFICES ASSUME RolloutInv, [Next]_vars, enforced = Nothing, enforced' # Nothing
               PROVE  enforced' # installed
    BY DEF RolloutInv
  <2> QED
    <3>1. installed # Mixed
      BY AgentAssumption DEF RolloutInv, TypeOK
    <3> QED
      BY <3>1, RolloutStep DEF Rollout!RolloutNext, Rollout!Commit, Rollout!Adopt,
         Rollout!TurnOff, Rollout!StartOver
<1> QED
  BY <1>1, RolloutInvHolds, PTL DEF Spec, OffUntilAnother

=============================================================================
