------------------------- MODULE PolicyBundleCache -------------------------
(***************************************************************************)
(* How the server answers POST /agents/{id}/policies/sync: from a bundle   *)
(* kept in Redis for 30 seconds, or from the policies in PostgreSQL, while *)
(* operators edit the policies and then delete the cached bundles, and     *)
(* pause and resume the endpoint. One endpoint, so one cache key.          *)
(*                                                                         *)
(* A handler suspends at each await, so its steps interleave with those of *)
(* other handlers, and it runs on when its caller gave up.                 *)
(***************************************************************************)
EXTENDS Naturals

CONSTANTS
    Requests,    \* sync requests on the server at one time
    PolicySets,  \* the enabled policies that concern this endpoint
    NoPolicies,  \* the set with none of them
    Nothing,     \* no bundle
    MaxEdits,    \* bound on what operators do
    MaxFaults,   \* bound on the faults, the endpoint's included
    ErrorAnswers \* whether a fault may be an answer other than 200 or 404

ASSUME BundleAssumption ==
    /\ NoPolicies \in PolicySets
    /\ Nothing \notin PolicySets
    /\ MaxEdits \in Nat
    /\ MaxFaults \in Nat
    /\ ErrorAnswers \in BOOLEAN

VARIABLES
    policies,    \* what PostgreSQL holds
    suspended,   \* the agent's document says it is paused
    registered,  \* there is a document for the agent
    bundleCache, \* the bundle in Redis
    mutating,    \* edits that are committed and not yet invalidated
    request,     \* the sync_agent_policies handlers
    edits, faults,
    committed    \* ghost: every policy set there has been

serverVars == <<policies, suspended, registered, bundleCache, mutating,
                request, edits, faults, committed>>

Bundles == PolicySets \cup {Nothing}
NoRequest == [pc |-> "idle", installed |-> Nothing, bundle |-> Nothing, status |-> 0]

\* The version of a bundle is a hash of the policies in it, so two bundles
\* have one version exactly when they are the same set.
UpToDate(r) == request[r].installed = request[r].bundle

ServerInit ==
    /\ policies \in PolicySets
    /\ suspended = FALSE
    /\ registered = FALSE
    /\ bundleCache = Nothing
    /\ mutating = 0
    /\ request = [r \in Requests |-> NoRequest]
    /\ edits = 0
    /\ faults = 0
    /\ committed = {policies}

\* A bounded number of things go wrong.
Fault == faults < MaxFaults /\ faults' = faults + 1

-----------------------------------------------------------------------------
(* Operators.                                                               *)

\* create, update, delete, enable, disable: each commits ...
EditPolicies(p) ==
    /\ edits < MaxEdits
    /\ edits' = edits + 1
    /\ policies' = p
    /\ committed' = committed \cup {p}
    /\ mutating' = mutating + 1
    /\ UNCHANGED <<suspended, registered, bundleCache, request, faults>>

InvalidateBundlesAnyTime ==   \* mutant
    /\ mutating' = mutating - 1
    /\ bundleCache' = Nothing
    /\ UNCHANGED <<policies, suspended, registered, request, edits, faults,
                   committed>>

\* ... and then deletes the cached bundles; an error of Redis is swallowed.
InvalidateBundles ==
    /\ mutating > 0
    /\ mutating' = mutating - 1
    /\ \/ bundleCache' = Nothing /\ UNCHANGED faults
       \/ Fault /\ UNCHANGED bundleCache
    /\ UNCHANGED <<policies, suspended, registered, request, edits, committed>>

\* suspend_agent and resume_agent do not touch the cached bundle.
SetSuspended(s) ==
    /\ registered
    /\ edits < MaxEdits
    /\ edits' = edits + 1
    /\ suspended' = s
    /\ UNCHANGED <<policies, registered, bundleCache, mutating, request,
                   faults, committed>>

BundleNeverExpires == FALSE   \* mutant

\* After 30 seconds, or because an operator asked for a refresh.
BundleExpires ==
    /\ bundleCache # Nothing
    /\ bundleCache' = Nothing
    /\ UNCHANGED <<policies, suspended, registered, mutating, request, edits,
                   faults, committed>>

-----------------------------------------------------------------------------
(* sync_agent_policies.                                                     *)

At(r, pc) == request[r].pc = pc

Answered(r, status, bundle) ==
    request' = [request EXCEPT ![r] =
                   [@ EXCEPT !.pc = "answered", !.status = status, !.bundle = bundle]]

ReadAgentPublishing(r) ==   \* mutant
    /\ At(r, "sent")
    /\ IF ~registered THEN Answered(r, 404, Nothing)
       ELSE IF suspended
            THEN request' = [request EXCEPT ![r].pc = "store", ![r].bundle = NoPolicies]
       ELSE request' = [request EXCEPT ![r].pc = "lookup"]
    /\ UNCHANGED <<policies, suspended, registered, bundleCache, mutating,
                   edits, faults, committed>>

\* The agent's document decides between 404, the empty bundle of a paused
\* endpoint, which by-passes the cache, and the endpoint's own bundle.
ReadAgent(r) ==
    /\ At(r, "sent")
    /\ IF ~registered THEN Answered(r, 404, Nothing)
       ELSE IF suspended THEN Answered(r, 200, NoPolicies)
       ELSE request' = [request EXCEPT ![r].pc = "lookup"]
    /\ UNCHANGED <<policies, suspended, registered, bundleCache, mutating,
                   edits, faults, committed>>

\* A read that fails counts as a miss.
ReadCache(r) ==
    /\ At(r, "lookup")
    /\ \/ /\ bundleCache # Nothing
          /\ Answered(r, 200, bundleCache)
          /\ UNCHANGED faults
       \/ /\ IF bundleCache = Nothing THEN UNCHANGED faults ELSE Fault
          /\ request' = [request EXCEPT ![r].pc = "load"]
    /\ UNCHANGED <<policies, suspended, registered, bundleCache, mutating,
                   edits, committed>>

LoadPolicies(r) ==
    /\ At(r, "load")
    /\ request' = [request EXCEPT ![r].pc = "store", ![r].bundle = policies]
    /\ UNCHANGED <<policies, suspended, registered, bundleCache, mutating,
                   edits, faults, committed>>

StoreBundle(r) ==
    /\ At(r, "store")
    /\ \/ bundleCache' = request[r].bundle /\ UNCHANGED faults
       \/ Fault /\ UNCHANGED bundleCache
    /\ Answered(r, 200, request[r].bundle)
    /\ UNCHANGED <<policies, suspended, registered, mutating, edits, committed>>

\* MongoDB, PostgreSQL or the proxy in front of the server fails.
AnswerError(r) ==
    /\ ErrorAnswers
    /\ request[r].pc \in {"sent", "lookup", "load", "store"}
    /\ Fault
    /\ Answered(r, 500, Nothing)
    /\ UNCHANGED <<policies, suspended, registered, bundleCache, mutating,
                   edits, committed>>

Handle(r) == ReadAgent(r) \/ ReadCache(r) \/ LoadPolicies(r) \/ StoreBundle(r)

Stages == {"idle", "sent", "lookup", "load", "store", "answered"}
Statuses == {0, 200, 404, 500}
RequestStates ==
    [pc : Stages, installed : Bundles, bundle : Bundles, status : Statuses]

ServerTypeOK ==
    /\ policies \in PolicySets
    /\ suspended \in BOOLEAN
    /\ registered \in BOOLEAN
    /\ bundleCache \in Bundles
    /\ mutating \in Nat
    /\ request \in [Requests -> RequestStates]
    /\ edits \in 0 .. MaxEdits
    /\ faults \in 0 .. MaxFaults
    /\ committed \subseteq PolicySets

=============================================================================
