-------------------------- MODULE ExtensionWorker --------------------------
(***************************************************************************)
(* The service worker of the browser extension (background.js): how it     *)
(* keeps the catalogue of applications and the policy of the server, and   *)
(* registers the guard scripts on the hosts of the catalogue.              *)
(*                                                                         *)
(* The browser tears the worker down when it is idle and starts it again   *)
(* for the next event, which runs boot. Its memory is lost, its storage    *)
(* and the registered scripts stay. Between two awaits of one job the      *)
(* steps of the others run: two boots at the start of the browser, the     *)
(* alarm, the popup, the pages that ask what they are.                     *)
(*                                                                         *)
(* Zero is nothing: the bundled list in memory, nothing in storage, no     *)
(* etag, the default policy, an empty list of the server.                  *)
(***************************************************************************)
EXTENDS Naturals, FiniteSets

CONSTANTS
    Jobs,       \* bound on the jobs of the worker that overlap
    Lists,      \* the catalogues of the server, each its own fingerprint
    Policies,   \* the matrices of the server
    Sets,       \* SCRIPT_SETS, the number of them
    MaxEdits,   \* bound on what the operators change on the server
    MaxFaults   \* bound on the ends of the worker in the middle of its jobs,
                \* and on the reads of its storage that fail

ASSUME WorkerAssumption ==
    /\ Lists \subseteq Nat \ {0} /\ Policies \subseteq Nat \ {0}
    /\ Lists # {} /\ Policies # {} /\ Jobs # {}
    /\ Sets \in Nat \ {0} /\ MaxEdits \in Nat /\ MaxFaults \in Nat

VARIABLES
    server,     \* the enabled catalogue entries and the matrix for this agent
    edits,      \* what was changed there
    keyStale,   \* the server does not accept the stored agentKey any more
    up,         \* the worker runs
    faults,     \* how often it ended with jobs under way or could not read
    memory,     \* CSDLPCatalog's entries, catalogEtag, cachedPolicy
    storage,    \* appCatalog, catalogEtag, webActivityPolicy
    scripts,    \* what each script set is registered for
    job         \* where each job of the worker is

vars == <<server, edits, keyStale, up, faults, memory, storage, scripts, job>>

Nothing == [cat |-> 0, etag |-> 0, pol |-> 0]
NoJob == [pc |-> "idle", boot |-> FALSE, seen |-> Nothing, etag |-> 0, value |-> 0,
          next |-> 1, found |-> FALSE, changed |-> FALSE]
Unregistered == [there |-> FALSE, cat |-> 0, exact |-> FALSE]

At(t, pc) == up /\ job[t].pc = pc
Goto(t, pc) == job' = [job EXCEPT ![t].pc = pc]

-----------------------------------------------------------------------------
(* The server and the life of the worker.                                  *)

OperatorEdits ==
    /\ edits < MaxEdits
    /\ edits' = edits + 1
    /\ \/ \E c \in (Lists \cup {0}) \ {server.cat} : server' = [server EXCEPT !.cat = c]
       \/ \E p \in Policies \ {server.pol} : server' = [server EXCEPT !.pol = p]
    /\ UNCHANGED <<keyStale, up, faults, memory, storage, scripts, job>>

\* The server enrols the agent anew, or forgets its key.
KeyGoesStale ==
    /\ edits < MaxEdits /\ ~keyStale
    /\ edits' = edits + 1
    /\ keyStale' = TRUE
    /\ UNCHANGED <<server, up, faults, memory, storage, scripts, job>>

Ends ==
    /\ up' = FALSE
    /\ memory' = Nothing
    /\ job' = [t \in Jobs |-> NoJob]
    /\ UNCHANGED <<server, edits, keyStale, storage, scripts>>

\* The browser ends an idle worker.
TornDown ==
    /\ up /\ \A t \in Jobs : job[t].pc = "idle"
    /\ Ends
    /\ UNCHANGED faults

\* The browser is closed, the extension reloaded, the machine stopped.
Killed ==
    /\ up /\ faults < MaxFaults
    /\ \E t \in Jobs : job[t].pc # "idle"
    /\ Ends
    /\ faults' = faults + 1

\* An event starts the worker. The start of the browser runs boot twice, from
\* the top level and from onStartup.
Wake ==
    /\ ~up
    /\ up' = TRUE
    /\ \E boots \in SUBSET Jobs :
        /\ Cardinality(boots) \in 1..2
        /\ job' = [t \in Jobs |->
                    IF t \in boots THEN [NoJob EXCEPT !.pc = "read", !.boot = TRUE] ELSE NoJob]
    /\ UNCHANGED <<server, edits, keyStale, faults, memory, storage, scripts>>

\* sendHeartbeat, by its alarm: a key that is refused is dropped, and the
\* extension enrols again.
Heartbeat ==
    /\ up /\ keyStale
    /\ keyStale' = FALSE
    /\ UNCHANGED <<server, edits, up, faults, memory, storage, scripts, job>>

-----------------------------------------------------------------------------
(* loadCaches, on a wake and for a page that asks.                         *)

\* CSDLP_RESOLVE, CYBERSENTINEL_STATE.
PageAsks(t) ==
    /\ At(t, "idle")
    /\ Goto(t, "read")
    /\ UNCHANGED <<server, edits, keyStale, up, faults, memory, storage, scripts>>

ReadStorage(t) ==
    /\ At(t, "read")
    /\ job' = [job EXCEPT ![t].pc = "load", ![t].seen = storage]
    /\ UNCHANGED <<server, edits, keyStale, up, faults, memory, storage, scripts>>

\* chrome.storage refuses the read: boot ends there, and the page is told that
\* it is no application (app: null), with the policy as it is in memory.
ReadFails(t) ==
    /\ At(t, "read") /\ faults < MaxFaults
    /\ faults' = faults + 1
    /\ job' = [job EXCEPT ![t] = NoJob]
    /\ UNCHANGED <<server, edits, keyStale, up, memory, storage, scripts>>

\* mutant: the list itself is left as it was bundled.
LoadedEtagOnly(seen) ==
    [cat |-> memory.cat, etag |-> seen.etag,
     pol |-> IF seen.pol # 0 THEN seen.pol ELSE memory.pol]

\* What memory is after storage was read as seen.
Loaded(seen) ==
    [cat |-> IF seen.cat # 0 THEN seen.cat ELSE memory.cat, etag |-> seen.etag,
     pol |-> IF seen.pol # 0 THEN seen.pol ELSE memory.pol]

\* mutant: boot leaves the scripts to a sync that brings a new catalogue.
LoadWithoutScripts(t) ==
    /\ At(t, "load") /\ job[t].boot
    /\ memory' = Loaded(job[t].seen)
    /\ job' = [job EXCEPT ![t] = [NoJob EXCEPT !.pc = "ask"]]
    /\ UNCHANGED <<server, edits, keyStale, up, faults, storage, scripts>>

LoadForBoot(t) ==
    /\ At(t, "load") /\ job[t].boot
    /\ memory' = Loaded(job[t].seen)
    /\ job' = [job EXCEPT ![t].pc = "scripts", ![t].seen = Nothing]
    /\ UNCHANGED <<server, edits, keyStale, up, faults, storage, scripts>>

\* mutant: the page is answered from memory as it is.
AnswerFromMemory(t) ==
    /\ At(t, "load") /\ ~job[t].boot
    /\ job' = [job EXCEPT ![t] = NoJob]
    /\ UNCHANGED <<server, edits, keyStale, up, faults, memory, storage, scripts>>

\* The page is answered from memory, in the same turn.
AnswerPage(t) ==
    /\ At(t, "load") /\ ~job[t].boot
    /\ memory' = Loaded(job[t].seen)
    /\ job' = [job EXCEPT ![t] = NoJob]
    /\ UNCHANGED <<server, edits, keyStale, up, faults, storage, scripts>>

-----------------------------------------------------------------------------
(* registerGuardScripts. The patterns are taken from memory once; the sets *)
(* follow one after the other, each with a look and a write.               *)

BeginRegister(t) ==
    /\ At(t, "scripts")
    /\ job' = [job EXCEPT ![t].pc = "look", ![t].value = memory.cat, ![t].next = 1]
    /\ UNCHANGED <<server, edits, keyStale, up, faults, memory, storage, scripts>>

LookForScript(t) ==
    /\ At(t, "look")
    /\ job' = [job EXCEPT ![t].pc = "write", ![t].found = scripts[job[t].next].there]
    /\ UNCHANGED <<server, edits, keyStale, up, faults, memory, storage, scripts>>

\* A set that another job has registered since the look makes the browser
\* refuse the call, and the set is updated with the exact hosts only.
WriteScript(t) ==
    LET s == job[t].next IN
    /\ At(t, "write")
    /\ scripts' = [scripts EXCEPT ![s] =
                    [there |-> TRUE, cat |-> job[t].value,
                     exact |-> job[t].found # scripts[s].there]]
    /\ job' = [job EXCEPT ![t] =
                 IF s < Sets THEN [@ EXCEPT !.pc = "look", !.next = s + 1, !.found = FALSE]
                 ELSE IF @.boot THEN [NoJob EXCEPT !.pc = "ask"] ELSE NoJob]
    /\ UNCHANGED <<server, edits, keyStale, up, faults, memory, storage>>

-----------------------------------------------------------------------------
(* syncAll: syncCatalog, syncPolicy, and the scripts if the catalogue was  *)
(* changed. An answer may be on its way for a while.                       *)

\* SYNC_ALARM, CSDLP_SYNC_NOW, CYBERSENTINEL_SETTINGS_SAVED.
StartSync(t) ==
    /\ At(t, "idle")
    /\ Goto(t, "ask")
    /\ UNCHANGED <<server, edits, keyStale, up, faults, memory, storage, scripts>>

AskCatalog(t) ==
    /\ At(t, "ask")
    /\ job' = [job EXCEPT ![t].pc = "catalog", ![t].etag = memory.etag]
    /\ UNCHANGED <<server, edits, keyStale, up, faults, memory, storage, scripts>>

\* GET /app-catalog/sync. For an etag that is its fingerprint the list comes
\* without entries, marked as unchanged; an empty one is refused. Both are 0.
ServerSendsCatalog(t) ==
    /\ At(t, "catalog") /\ ~keyStale
    /\ job' = [job EXCEPT ![t].pc = "takeCatalog", ![t].etag = 0,
                          ![t].value = IF job[t].etag = server.cat THEN 0 ELSE server.cat]
    /\ UNCHANGED <<server, edits, keyStale, up, faults, memory, storage, scripts>>

\* A list that came replaces the list and its etag, in memory and in storage.
TakeCatalog(t) ==
    LET list == job[t].value IN
    /\ At(t, "takeCatalog")
    /\ memory' = IF list # 0 THEN [memory EXCEPT !.cat = list, !.etag = list] ELSE memory
    /\ storage' = IF list # 0 THEN [storage EXCEPT !.cat = list, !.etag = list] ELSE storage
    /\ job' = [job EXCEPT ![t].pc = "policy", ![t].value = 0, ![t].changed = (list # 0)]
    /\ UNCHANGED <<server, edits, keyStale, up, faults, scripts>>

\* GET /agents/{id}/web-activity-policy.
ServerSendsPolicy(t) ==
    /\ At(t, "policy") /\ ~keyStale
    /\ job' = [job EXCEPT ![t].pc = "takePolicy", ![t].value = server.pol]
    /\ UNCHANGED <<server, edits, keyStale, up, faults, memory, storage, scripts>>

AfterSync(t) == IF job[t].changed THEN [NoJob EXCEPT !.pc = "scripts"] ELSE NoJob

TakePolicy(t) ==
    /\ At(t, "takePolicy")
    /\ memory' = [memory EXCEPT !.pol = job[t].value]
    /\ storage' = [storage EXCEPT !.pol = job[t].value]
    /\ job' = [job EXCEPT ![t] = AfterSync(t)]
    /\ UNCHANGED <<server, edits, keyStale, up, faults, scripts>>

\* No answer, the time-out, or a key the server does not accept.
RequestFails(t) ==
    /\ \/ At(t, "catalog") /\ job' = [job EXCEPT ![t].pc = "policy", ![t].etag = 0]
       \/ At(t, "policy") /\ job' = [job EXCEPT ![t] = AfterSync(t)]
    /\ UNCHANGED <<server, edits, keyStale, up, faults, memory, storage, scripts>>

-----------------------------------------------------------------------------
Init ==
    /\ server \in [cat : Lists, pol : Policies]
    /\ edits = 0 /\ faults = 0
    /\ keyStale = FALSE /\ up = FALSE
    /\ memory = Nothing /\ storage = Nothing
    /\ scripts = [s \in 1..Sets |-> Unregistered]
    /\ job = [t \in Jobs |-> NoJob]

\* What a job does by itself.
Step(t) ==
    \/ ReadStorage(t) \/ LoadForBoot(t) \/ AnswerPage(t)
    \/ BeginRegister(t) \/ LookForScript(t) \/ WriteScript(t)
    \/ AskCatalog(t) \/ TakeCatalog(t) \/ TakePolicy(t)

ServerSends(t) == ServerSendsCatalog(t) \/ ServerSendsPolicy(t)

Next ==
    \/ OperatorEdits \/ KeyGoesStale
    \/ TornDown \/ Killed \/ Wake \/ Heartbeat
    \/ \E t \in Jobs :
        \/ PageAsks(t) \/ StartSync(t)
        \/ Step(t) \/ ReadFails(t) \/ ServerSends(t) \/ RequestFails(t)

Spec == Init /\ [][Next]_vars

\* A job goes on, a request ends by its time-out if not before. The worker is
\* idle long enough to be torn down again and again, and the alarms wake it;
\* of the requests and heartbeats that are sent again and again, some arrive.
Fairness ==
    /\ []<><<TornDown>>_vars
    /\ SF_vars(Heartbeat)
    /\ SF_vars(\E t \in Jobs : ServerSendsCatalog(t))
    /\ SF_vars(\E t \in Jobs : ServerSendsPolicy(t))

FairSpec == Spec /\ Fairness

-----------------------------------------------------------------------------
TypeOK ==
    LET Cat == Lists \cup {0}
        Pol == Policies \cup {0}
        Cache == [cat : Cat, etag : Cat, pol : Pol]
    IN
    /\ server \in [cat : Cat, pol : Policies]
    /\ edits \in 0..MaxEdits /\ faults \in 0..MaxFaults
    /\ keyStale \in BOOLEAN /\ up \in BOOLEAN
    /\ memory \in Cache /\ storage \in Cache
    /\ scripts \in [1..Sets -> [there : BOOLEAN, cat : Cat, exact : BOOLEAN]]
    /\ job \in [Jobs -> [pc : {"idle", "read", "load", "scripts", "look", "write", "ask",
                                "catalog", "takeCatalog", "policy", "takePolicy"},
                         boot : BOOLEAN, seen : Cache, etag : Cat, value : Cat \cup Pol,
                         next : 1..Sets, found : BOOLEAN, changed : BOOLEAN]]

\* The etag that the next request carries is that of the catalogue in use, in
\* memory and in storage, whatever overlaps: otherwise the server would answer
\* "unchanged" for ever to an extension that has another list
\* (background.js:509, 515).
EtagNamesCatalog ==
    /\ memory.etag \in {0, memory.cat}
    /\ storage.etag \in {0, storage.cat}

\* Once a catalogue or a policy was stored, no page whose question reads the
\* storage is answered from the bundled list or from the default policy,
\* whatever it overlaps and at whatever moment of a restart it asks
\* (background.js:486: "a worker that answered 'not catalogued' while its cache
\* was empty would leave a page unguarded for the whole of that page's life").
\* A page whose read of the storage fails is answered just so (ReadFails).
AnsweredAsStored ==
    [][\A t \in Jobs :
        At(t, "load") /\ ~job[t].boot /\ up' /\ job'[t].pc = "idle"
            => /\ storage.cat # 0 => memory'.cat # 0
               /\ storage.pol # 0 => memory'.pol # 0]_vars

\* When the operators have stopped, every script set ends up registered for
\* the server's catalogue with all its patterns, and the stored policy is the
\* server's: no overlap of boots, syncs and page loads, no end of the worker
\* in the middle and no stale key leaves the extension behind for good
\* (background.js:569, 616).
ServerIsFollowed ==
    \A c \in Lists, p \in Policies :
        <>[](server.cat = c /\ server.pol = p)
            => <>[](/\ storage.pol = p
                    /\ \A s \in 1..Sets : scripts[s] = [there |-> TRUE, cat |-> c, exact |-> FALSE])

=============================================================================
