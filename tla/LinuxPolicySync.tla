-------------------------- MODULE LinuxPolicySync --------------------------
(***************************************************************************)
(* How a Linux endpoint comes by the policies it enforces: it registers,   *)
(* asks for its bundle at startup and then periodically, installs what it  *)
(* is given, and turns everything off when it cannot get an answer it      *)
(* trusts. What it enforces lives in memory; the file that blocks USB      *)
(* storage is on disk and survives the process.                            *)
(***************************************************************************)
EXTENDS PolicyBundleCache

CONSTANTS
    Blocking,      \* the policy sets that block USB storage on connect
    Mixed,         \* partly one policy set and partly another
    EndpointFaults \* whether a fault may strike while a bundle is installed

ASSUME AgentAssumption ==
    /\ Blocking \subseteq PolicySets \ {NoPolicies}
    /\ Mixed \notin Bundles
    /\ EndpointFaults \in BOOLEAN

VARIABLES
    running,
    sync,        \* the call of sync_policies in progress
    installed,   \* active_policy_version
    enforced,    \* the set its flags and lists are of; Nothing: all off
    usbBlocking, \* usb_blocking_active
    blacklist,   \* /etc/modprobe.d/cybersentinel-usb-block.conf exists
    usbFailed    \* ghost: this process last failed to write or remove it

usbVars == <<usbBlocking, blacklist, usbFailed>>
agentVars == <<running, sync, installed, enforced, usbVars>>
vars == <<serverVars, agentVars>>

Waiting == {"waiting", "retrying"}
NoSync == [pc |-> "idle"]

Init ==
    /\ ServerInit
    /\ running = FALSE
    /\ sync = NoSync
    /\ installed = Nothing
    /\ enforced = Nothing
    /\ usbBlocking = FALSE
    /\ blacklist = FALSE
    /\ usbFailed = FALSE

Awaited(r) == sync.pc \in Waiting /\ sync.request = r

-----------------------------------------------------------------------------

\* _block_usb_storage: it believes in the block when modprobe ran or the file
\* was written; a write that fails leaves the file as it was, or empty.
BlockUsb(writes) ==
    /\ usbBlocking' \in {TRUE, writes}
    /\ blacklist' \in IF writes THEN {TRUE} ELSE {blacklist, FALSE}
    /\ usbFailed' = ~writes

\* _unblock_usb_storage: whether or not the file could be removed.
UnblockUsb(removes) ==
    /\ usbBlocking' = FALSE
    /\ blacklist' = (blacklist /\ ~removes)
    /\ usbFailed' = ~removes

ReconcileUsbOnlyBlocks(shouldBlock, diskWorks) ==   \* mutant
    \/ shouldBlock /\ ~usbBlocking /\ BlockUsb(diskWorks)
    \/ ~(shouldBlock /\ ~usbBlocking) /\ UNCHANGED usbVars

\* _reconcile_usb_blocking: acts on a difference between the policy and what
\* this process believes it has done.
ReconcileUsb(shouldBlock, diskWorks) ==
    \/ shouldBlock /\ ~usbBlocking /\ BlockUsb(diskWorks)
    \/ ~shouldBlock /\ usbBlocking /\ UnblockUsb(diskWorks)
    \/ shouldBlock = usbBlocking /\ UNCHANGED usbVars

\* _disable_all_enforcement: flags and lists, and the monitors that follow
\* them; neither the installed version nor the USB block.
DisableAll ==
    /\ enforced' = Nothing
    /\ UNCHANGED <<installed, usbVars>>

\* An exception ends _apply_policy_bundle before the USB block is reconciled,
\* with all, some or none of its lists set, or after it. sync_policies logs
\* it; only the initial sync turns everything off.
InstallBreaksOff(b) ==
    \/ enforced' \in (IF sync.initial THEN {Nothing} ELSE {enforced, Mixed}) /\ UNCHANGED usbVars
    \/ sync.initial /\ enforced' = Nothing /\ ReconcileUsb(b \in Blocking, TRUE)

\* The version is taken over first, then the bundle is applied.
ApplyBundle(b) ==
    /\ installed' = b
    /\ \/ enforced' = b /\ ReconcileUsb(b \in Blocking, TRUE) /\ UNCHANGED faults
       \/ /\ EndpointFaults /\ Fault
          /\ \/ enforced' = b /\ ReconcileUsb(b \in Blocking, FALSE)
             \/ InstallBreaksOff(b)

Send(r, known) ==
    request' = [request EXCEPT ![r] = [NoRequest EXCEPT !.pc = "sent", !.installed = known]]

\* register_agent: an error is logged and the sync goes ahead.
RegisterAgent ==
    \/ registered' = TRUE /\ UNCHANGED faults
    \/ Fault /\ UNCHANGED registered

\* start(): register, then the initial sync.
AgentStarts(r) ==
    /\ ~running
    /\ At(r, "idle")
    /\ running' = TRUE
    /\ RegisterAgent
    /\ sync' = [pc |-> "waiting", initial |-> TRUE, request |-> r]
    /\ Send(r, installed)
    /\ UNCHANGED <<policies, suspended, bundleCache, mutating, edits, committed,
                   installed, enforced, usbVars>>

\* policy_sync_loop.
SyncStarts(r) ==
    /\ running
    /\ sync.pc = "idle"
    /\ At(r, "idle")
    /\ sync' = [pc |-> "waiting", initial |-> FALSE, request |-> r]
    /\ Send(r, installed)
    /\ UNCHANGED <<policies, suspended, registered, bundleCache, mutating,
                   edits, faults, committed, running, installed, enforced,
                   usbVars>>

\* The first 404: register, and ask once more with the same payload.
SyncUnknown(r) ==
    /\ At(r, "answered")
    /\ request[r].status = 404
    /\ sync.pc = "waiting" /\ sync.request = r
    /\ RegisterAgent
    /\ sync' = [sync EXCEPT !.pc = "retrying"]
    /\ Send(r, request[r].installed)
    /\ UNCHANGED <<policies, suspended, bundleCache, mutating, edits, committed,
                   running, installed, enforced, usbVars>>

TakeAnswer(r) ==
    \/ request[r].status # 200 /\ DisableAll /\ UNCHANGED faults
    \/ /\ request[r].status = 200 /\ UpToDate(r)
       /\ UNCHANGED <<installed, enforced, usbVars, faults>>
    \/ request[r].status = 200 /\ ~UpToDate(r) /\ ApplyBundle(request[r].bundle)

SyncAnsweredLate(r) ==   \* mutant
    /\ At(r, "answered")
    /\ sync.pc \in Waiting
    /\ TakeAnswer(r)
    /\ sync' = NoSync
    /\ request' = [request EXCEPT ![r] = NoRequest]
    /\ UNCHANGED <<policies, suspended, registered, bundleCache, mutating,
                   edits, committed, running>>

\* Every other answer ends the call.
SyncAnswered(r) ==
    /\ At(r, "answered")
    /\ Awaited(r)
    /\ request[r].status = 404 => sync.pc = "retrying"
    /\ TakeAnswer(r)
    /\ sync' = NoSync
    /\ request' = [request EXCEPT ![r] = NoRequest]
    /\ UNCHANGED <<policies, suspended, registered, bundleCache, mutating,
                   edits, committed, running>>

\* No answer within 15 seconds, or no connection. Only the initial sync
\* disables what, at that point, was never enabled.
SyncFails ==
    /\ sync.pc \in Waiting
    /\ Fault
    /\ sync' = NoSync
    /\ IF sync.initial THEN DisableAll
       ELSE UNCHANGED <<installed, enforced, usbVars>>
    /\ UNCHANGED <<policies, suspended, registered, bundleCache, mutating,
                   request, edits, committed, running>>

\* Nobody waits for this answer any more.
DropAnswer(r) ==
    /\ At(r, "answered")
    /\ ~Awaited(r)
    /\ request' = [request EXCEPT ![r] = NoRequest]
    /\ UNCHANGED <<policies, suspended, registered, bundleCache, mutating,
                   edits, faults, committed, agentVars>>

\* stop(), a crash or a reboot: neither removes the blacklist file.
AgentStops ==
    /\ running
    /\ Fault
    /\ running' = FALSE
    /\ sync' = NoSync
    /\ installed' = Nothing
    /\ enforced' = Nothing
    /\ usbBlocking' = FALSE
    /\ usbFailed' = FALSE
    /\ UNCHANGED <<policies, suspended, registered, bundleCache, mutating,
                   request, edits, committed, blacklist>>

Server ==
    /\ \/ \E p \in PolicySets : EditPolicies(p)
       \/ InvalidateBundles
       \/ \E s \in BOOLEAN : SetSuspended(s)
       \/ BundleExpires
       \/ \E r \in Requests : Handle(r) \/ AnswerError(r)
    /\ UNCHANGED agentVars

Next ==
    \/ Server
    \/ \E r \in Requests :
          AgentStarts(r) \/ SyncStarts(r) \/ SyncUnknown(r)
             \/ SyncAnswered(r) \/ DropAnswer(r)
    \/ SyncFails
    \/ AgentStops

Spec == Init /\ [][Next]_vars

\* systemd restarts the agent, its sync loop goes on, the server finishes what
\* it began, and Redis lets a bundle expire.
Fairness ==
    /\ WF_vars(\E r \in Requests : AgentStarts(r))
    /\ WF_vars(\E r \in Requests : SyncStarts(r))
    /\ WF_vars(InvalidateBundles /\ UNCHANGED agentVars)
    /\ WF_vars(BundleExpires /\ UNCHANGED agentVars)
    /\ \A r \in Requests :
          /\ WF_vars(Handle(r) /\ UNCHANGED agentVars)
          /\ WF_vars(SyncUnknown(r) \/ SyncAnswered(r) \/ DropAnswer(r))

FairSpec == Spec /\ Fairness

-----------------------------------------------------------------------------
(* Properties.                                                              *)

SyncStates == {NoSync} \cup [pc : Waiting, initial : BOOLEAN, request : Requests]

\* Every variable keeps its type.
TypeOK ==
    /\ ServerTypeOK
    /\ running \in BOOLEAN
    /\ sync \in SyncStates
    /\ installed \in Bundles
    /\ enforced \in Bundles \cup {Mixed}
    /\ usbBlocking \in BOOLEAN
    /\ blacklist \in BOOLEAN
    /\ usbFailed \in BOOLEAN

\* A paused endpoint never publishes its empty bundle for others to read, nor
\* does a handler that was overtaken by an edit publish what was never a
\* policy set (sync_agent_policies, "Cache is bypassed deliberately").
CachedWasCommitted == bundleCache \in committed \cup {Nothing}

\* Whatever the order of bundles, failed syncs and restarts: while a blocking
\* set is enforced this process believes in the USB block, while another one is
\* it does not, and where it believes in it the blacklist file is in place. The
\* exception is a process that could not write or remove the file: modprobe
\* alone makes it believe in a block, and nothing tries again until a bundle
\* asks for the opposite (_reconcile_usb_blocking, _block_usb_storage).
BlockingSetBlocks ==
    /\ enforced \in Blocking => usbBlocking \/ usbFailed
    /\ enforced \in PolicySets \ Blocking => ~usbBlocking
    /\ usbBlocking => blacklist \/ usbFailed

Due == IF suspended THEN NoPolicies ELSE policies

\* Once operators, faults and restarts have come to an end, the endpoint
\* enforces what it should, even if a bundle was cached after it was
\* invalidated, an invalidation failed, or requests were abandoned: unless it
\* reports for good a set that it does not enforce. An error answer does that
\* (RecoversFromErrors), and so does an exception in _apply_policy_bundle, as
\* the version is taken over before.
EventuallyCurrent ==
    <>[](enforced = installed) => <>[](enforced = Due)

\* The Linux agent's README.md:244-247 calls it the wrong failure mode when
\* "monitoring is now off until someone notices" because the manager was
\* briefly unreachable. It is what one error answer does: it turns all off and
\* keeps the installed version, so that every later sync is up_to_date.
RecoversFromErrors ==
    (installed \notin {Nothing, NoPolicies}) ~> (enforced # Nothing)

Rollout == INSTANCE PolicyRollout

\* The endpoint implements PolicyRollout: whatever is cached, answered late or
\* abandoned, it installs only what was once its policy set, or the empty set
\* of a pause, wholly or, when that fails, in part, and never again what it
\* still says it has (sync_policies).
ImplementsPolicyRollout == Rollout!RolloutSpec

=============================================================================
