----------------------- MODULE ExtensionWorkerProofs -----------------------
(* The worker's catalogue and its etag belong together, and no page that is *)
(* answered from storage gets what was bundled once there is something      *)
(* better, for any number of overlapping jobs, catalogues, policies, edits  *)
(* and restarts.                                                            *)
EXTENDS ExtensionWorker, TLAPS

-----------------------------------------------------------------------------
(* Types.                                                                   *)

Cats == Lists \cup {0}
Pols == Policies \cup {0}
Cache == [cat : Cats, etag : Cats, pol : Pols]
Pcs == {"idle", "read", "load", "scripts", "look", "write", "ask",
        "catalog", "takeCatalog", "policy", "takePolicy"}
JobRec == [pc : Pcs, boot : BOOLEAN, seen : Cache, etag : Cats, value : Cats \cup Pols,
           next : 1..Sets, found : BOOLEAN, changed : BOOLEAN]
ScriptRec == [there : BOOLEAN, cat : Cats, exact : BOOLEAN]

ServerOK ==
    /\ server \in [cat : Cats, pol : Policies]
    /\ edits \in 0..MaxEdits /\ faults \in 0..MaxFaults
    /\ keyStale \in BOOLEAN /\ up \in BOOLEAN
CachesOK == memory \in Cache /\ storage \in Cache
ScriptsOK == scripts \in [1..Sets -> ScriptRec]
JobsOK == job \in [Jobs -> JobRec]

LEMMA TypeParts == TypeOK <=> ServerOK /\ CachesOK /\ ScriptsOK /\ JobsOK
  BY DEF TypeOK, ServerOK, CachesOK, ScriptsOK, JobsOK, Cats, Pols, Cache, Pcs, JobRec,
     ScriptRec

LEMMA TypePartsNext == ServerOK' /\ CachesOK' /\ ScriptsOK' /\ JobsOK' => TypeOK'
  BY DEF TypeOK, ServerOK, CachesOK, ScriptsOK, JobsOK, Cats, Pols, Cache, Pcs, JobRec,
     ScriptRec

-----------------------------------------------------------------------------
(* The inductive invariant.                                                 *)

\* What a job is about to store or to register is of the right kind.
CarriesItsKind(j) ==
    /\ j.pc \in {"look", "write", "takeCatalog"} => j.value \in Cats
    /\ j.pc = "takePolicy" => j.value \in Pols

\* What a job read of the storage belongs together.
ReadTogether(j) == j.pc = "load" => j.seen.etag \in {0, j.seen.cat}

JobsInv == \A t \in Jobs : CarriesItsKind(job[t]) /\ ReadTogether(job[t])

\* What was stored after a job read the storage is in memory.
ReadOrInMemory ==
    \A t \in Jobs :
        job[t].pc = "load" =>
            /\ storage.cat # 0 => job[t].seen.cat # 0 \/ memory.cat # 0
            /\ storage.pol # 0 => job[t].seen.pol # 0 \/ memory.pol # 0

WorkerInv == TypeOK /\ JobsInv /\ EtagNamesCatalog /\ ReadOrInMemory

LEMMA NothingTypes ==
    /\ Nothing \in Cache /\ Nothing.cat = 0 /\ Nothing.etag = 0 /\ Nothing.pol = 0
    /\ NoJob \in JobRec /\ NoJob.pc = "idle"
    /\ Unregistered \in ScriptRec
    /\ \A p \in {"idle", "read", "ask", "scripts"}, b \in BOOLEAN :
        /\ [NoJob EXCEPT !.pc = p] \in JobRec
        /\ [NoJob EXCEPT !.pc = p, !.boot = b] \in JobRec
<1>1. 1 \in 1..Sets /\ 0 \in Cats /\ 0 \in Pols
  BY WorkerAssumption DEF Cats, Pols
<1>2. /\ Nothing \in Cache /\ Nothing.cat = 0 /\ Nothing.etag = 0 /\ Nothing.pol = 0
      /\ Unregistered \in ScriptRec
  BY <1>1 DEF Nothing, Unregistered, Cache, ScriptRec
<1>3. NoJob \in JobRec /\ NoJob.pc = "idle"
  BY <1>1, <1>2 DEF NoJob, JobRec, Pcs
<1>4. \A p \in {"idle", "read", "ask", "scripts"}, b \in BOOLEAN :
        /\ [NoJob EXCEPT !.pc = p] \in JobRec
        /\ [NoJob EXCEPT !.pc = p, !.boot = b] \in JobRec
  BY <1>3 DEF JobRec, Pcs
<1> QED
  BY <1>2, <1>3, <1>4

LEMMA Initially == Init => WorkerInv
<1> SUFFICES ASSUME Init PROVE WorkerInv
  OBVIOUS
<1>1. ServerOK
  <2>1. server \in [cat : Cats, pol : Policies]
    BY DEF Init, Cats
  <2>2. edits \in 0..MaxEdits /\ faults \in 0..MaxFaults
    <3>1. edits = 0 /\ faults = 0
      BY DEF Init
    <3> QED
      BY <3>1, WorkerAssumption
  <2>3. keyStale = FALSE /\ up = FALSE
    BY DEF Init
  <2> QED
    BY <2>1, <2>2, <2>3 DEF ServerOK
<1>2. CachesOK /\ ScriptsOK /\ JobsOK
  BY NothingTypes DEF Init, CachesOK, ScriptsOK, JobsOK
<1>3. JobsInv /\ ReadOrInMemory
  BY NothingTypes DEF Init, JobsInv, CarriesItsKind, ReadTogether, ReadOrInMemory
<1>4. EtagNamesCatalog
  BY NothingTypes DEF Init, EtagNamesCatalog
<1> QED
  BY <1>1, <1>2, <1>3, <1>4, TypeParts DEF WorkerInv

-----------------------------------------------------------------------------
(* The steps.                                                               *)

\* A job that reads nothing of the storage leaves the caches alone.
LEMMA JobGoesOn ==
    ASSUME WorkerInv, NEW t \in Jobs, NEW r \in JobRec, r.pc # "load", CarriesItsKind(r),
           job' = [job EXCEPT ![t] = r], UNCHANGED <<memory, storage>>
    PROVE  JobsOK' /\ CachesOK' /\ JobsInv' /\ EtagNamesCatalog' /\ ReadOrInMemory'
<1>1. JobsOK /\ CachesOK
  BY TypeParts DEF WorkerInv
<1>2. JobsOK' /\ CachesOK'
  BY <1>1 DEF JobsOK, CachesOK
<1>3. \A u \in Jobs : job'[u] = IF u = t THEN r ELSE job[u]
  BY <1>1 DEF JobsOK
<1>4. JobsInv' /\ ReadOrInMemory'
  BY <1>3 DEF WorkerInv, JobsInv, ReadTogether, CarriesItsKind, ReadOrInMemory
<1> QED
  BY <1>2, <1>4 DEF WorkerInv, EtagNamesCatalog

\* The parts of a job's record.
LEMMA JobParts ==
    ASSUME WorkerInv, NEW t \in Jobs
    PROVE  /\ job[t] \in JobRec
           /\ job[t].pc \in Pcs /\ job[t].boot \in BOOLEAN /\ job[t].seen \in Cache
           /\ job[t].etag \in Cats /\ job[t].next \in 1..Sets
           /\ job[t].found \in BOOLEAN /\ job[t].changed \in BOOLEAN
           /\ job[t].value \in Cats \cup Pols
           /\ CarriesItsKind(job[t]) /\ ReadTogether(job[t])
  BY TypeParts DEF WorkerInv, JobsOK, JobRec, JobsInv

LEMMA LoadedType ==
    ASSUME CachesOK, NEW seen \in Cache PROVE Loaded(seen) \in Cache
  BY DEF Loaded, CachesOK, Cache

\* loadCaches ends: what it read takes the place of what was in memory.
LEMMA LoadStep ==
    ASSUME WorkerInv, NEW t \in Jobs, job[t].pc = "load", NEW r \in JobRec, r.pc # "load",
           CarriesItsKind(r), job' = [job EXCEPT ![t] = r],
           memory' = Loaded(job[t].seen), UNCHANGED storage
    PROVE  /\ JobsOK' /\ CachesOK' /\ JobsInv' /\ EtagNamesCatalog' /\ ReadOrInMemory'
           /\ storage.cat # 0 => memory'.cat # 0
           /\ storage.pol # 0 => memory'.pol # 0
<1> DEFINE seen == job[t].seen
<1>1. JobsOK /\ CachesOK
  BY TypeParts DEF WorkerInv
<1>2. seen \in Cache /\ seen.etag \in {0, seen.cat}
  BY JobParts DEF ReadTogether
<1>3. JobsOK' /\ CachesOK'
  BY <1>1, <1>2, LoadedType DEF JobsOK, CachesOK
<1>4. \A u \in Jobs : job'[u] = IF u = t THEN r ELSE job[u]
  BY <1>1 DEF JobsOK
<1>5. /\ memory'.cat = IF seen.cat # 0 THEN seen.cat ELSE memory.cat
      /\ memory'.etag = seen.etag
      /\ memory'.pol = IF seen.pol # 0 THEN seen.pol ELSE memory.pol
  BY DEF Loaded
<1>6. JobsInv'
  BY <1>4 DEF WorkerInv, JobsInv, ReadTogether, CarriesItsKind
<1>7. EtagNamesCatalog'
  BY <1>2, <1>5 DEF WorkerInv, EtagNamesCatalog
<1>8. ReadOrInMemory'
  BY <1>4, <1>5 DEF WorkerInv, ReadOrInMemory
<1>9. (storage.cat # 0 => memory'.cat # 0) /\ (storage.pol # 0 => memory'.pol # 0)
  BY <1>5 DEF WorkerInv, ReadOrInMemory
<1> QED
  BY <1>3, <1>6, <1>7, <1>8, <1>9

\* The worker ends, or is started.
LEMMA WorkerComesAndGoes ==
    ASSUME WorkerInv, NEW b \in [Jobs -> JobRec],
           \A t \in Jobs : b[t].pc \in {"idle", "read"}, job' = b,
           UNCHANGED storage, memory' \in {Nothing, memory}
    PROVE  JobsOK' /\ CachesOK' /\ JobsInv' /\ EtagNamesCatalog' /\ ReadOrInMemory'
<1>1. JobsOK'
  BY DEF JobsOK
<1>2. CachesOK'
  BY TypeParts, NothingTypes DEF WorkerInv, CachesOK
<1>3. JobsInv' /\ ReadOrInMemory'
  BY DEF JobsInv, ReadOrInMemory, CarriesItsKind, ReadTogether
<1>4. EtagNamesCatalog'
  BY NothingTypes DEF WorkerInv, EtagNamesCatalog
<1> QED
  BY <1>1, <1>2, <1>3, <1>4

Preserved == JobsOK' /\ CachesOK' /\ JobsInv' /\ EtagNamesCatalog' /\ ReadOrInMemory'

LEMMA ReadStorageStep ==
    ASSUME WorkerInv, NEW t \in Jobs, ReadStorage(t) PROVE Preserved
<1>1. JobsOK /\ CachesOK /\ UNCHANGED <<memory, storage>>
  BY TypeParts DEF WorkerInv, ReadStorage
<1> DEFINE r == [job[t] EXCEPT !.pc = "load", !.seen = storage]
<1>2. /\ job' = [job EXCEPT ![t] = r] /\ r.pc = "load" /\ r.seen = storage
      /\ r \in JobRec
  BY <1>1, JobParts DEF ReadStorage, JobsOK, CachesOK, JobRec, Pcs
<1>3. CachesOK' /\ EtagNamesCatalog'
  BY <1>1 DEF CachesOK, WorkerInv, EtagNamesCatalog
<1> HIDE DEF r
<1>4. JobsOK' /\ \A u \in Jobs : job'[u] = IF u = t THEN r ELSE job[u]
  BY <1>1, <1>2 DEF JobsOK
<1>5. JobsInv'
  BY <1>2, <1>4 DEF WorkerInv, JobsInv, EtagNamesCatalog, ReadTogether, CarriesItsKind
<1>6. ReadOrInMemory'
  BY <1>1, <1>2, <1>4 DEF WorkerInv, ReadOrInMemory
<1> QED
  BY <1>3, <1>4, <1>5, <1>6 DEF Preserved

\* The steps of a job that touch neither cache.
LEMMA QuietStep ==
    ASSUME WorkerInv, NEW t \in Jobs,
           \/ PageAsks(t) \/ StartSync(t) \/ BeginRegister(t) \/ LookForScript(t)
           \/ WriteScript(t) \/ AskCatalog(t) \/ ReadFails(t) \/ ServerSends(t) \/ RequestFails(t)
    PROVE  Preserved /\ job[t].pc # "load" /\ \A u \in Jobs \ {t} : job'[u] = job[u]
<1>1. JobsOK /\ CachesOK /\ ServerOK
  BY TypeParts DEF WorkerInv
<1>2. job[t].pc # "load" /\ UNCHANGED <<memory, storage>>
  BY DEF At, PageAsks, StartSync, BeginRegister, LookForScript, WriteScript, AskCatalog,
     ReadFails, ServerSends, ServerSendsCatalog, ServerSendsPolicy, RequestFails
<1>3. \E r \in JobRec : r.pc # "load" /\ CarriesItsKind(r) /\ job' = [job EXCEPT ![t] = r]
  <2>1. CASE PageAsks(t) \/ StartSync(t)
    <3> DEFINE r(p) == [job[t] EXCEPT !.pc = p]
    <3>1. \A p \in {"read", "ask"} :
            r(p) \in JobRec /\ r(p).pc = p /\ [job EXCEPT ![t].pc = p] = [job EXCEPT ![t] = r(p)]
      BY <1>1, JobParts DEF JobsOK, JobRec, Pcs
    <3>2. \E p \in {"read", "ask"} : job' = [job EXCEPT ![t].pc = p]
      BY <2>1 DEF PageAsks, StartSync, Goto
    <3> QED
      BY <3>1, <3>2 DEF CarriesItsKind
  <2>2. CASE BeginRegister(t)
    <3> DEFINE r == [job[t] EXCEPT !.pc = "look", !.value = memory.cat, !.next = 1]
    <3>1. memory.cat \in Cats /\ 1 \in 1..Sets
      BY <1>1, WorkerAssumption DEF CachesOK, Cache
    <3>2. r \in JobRec /\ r.pc = "look" /\ r.value = memory.cat
      BY <3>1, JobParts DEF JobRec, Pcs
    <3>3. job' = [job EXCEPT ![t] = r]
      BY <1>1, <2>2 DEF BeginRegister, JobsOK
    <3> QED
      BY <3>1, <3>2, <3>3 DEF CarriesItsKind
  <2>3. CASE LookForScript(t)
    <3> DEFINE r == [job[t] EXCEPT !.pc = "write", !.found = scripts[job[t].next].there]
    <3>1. scripts[job[t].next].there \in BOOLEAN
      BY JobParts, TypeParts DEF WorkerInv, ScriptsOK, ScriptRec
    <3>2. r \in JobRec /\ r.pc = "write" /\ r.value = job[t].value
      BY <3>1, JobParts DEF JobRec, Pcs
    <3>3. job' = [job EXCEPT ![t] = r]
      BY <1>1, <2>3 DEF LookForScript, JobsOK
    <3>4. job[t].value \in Cats
      BY <2>3, JobParts DEF CarriesItsKind, LookForScript, At
    <3> QED
      BY <3>2, <3>3, <3>4 DEF CarriesItsKind
  <2>4. CASE WriteScript(t)
    <3> DEFINE s == job[t].next
               on == [job[t] EXCEPT !.pc = "look", !.next = s + 1, !.found = FALSE]
               r == IF s < Sets THEN on
                    ELSE IF job[t].boot THEN [NoJob EXCEPT !.pc = "ask"] ELSE NoJob
    <3>1. job' = [job EXCEPT ![t] = r]
      BY <1>1, <2>4 DEF WriteScript, JobsOK
    <3>2. s < Sets => on \in JobRec /\ on.pc = "look" /\ on.value = job[t].value
      <4>1. s < Sets => s + 1 \in 1..Sets
        BY JobParts, WorkerAssumption
      <4> DEFINE n == s + 1
      <4> HIDE DEF n
      <4>2. n \in 1..Sets =>
              LET j == [job[t] EXCEPT !.pc = "look", !.next = n, !.found = FALSE] IN
              j \in JobRec /\ j.pc = "look" /\ j.value = job[t].value
        BY JobParts DEF JobRec, Pcs
      <4> QED
        BY <4>1, <4>2 DEF n
    <3>3. job[t].value \in Cats
      BY <2>4, JobParts DEF CarriesItsKind, WriteScript, At
    <3>4. CASE s < Sets
      BY <3>1, <3>2, <3>3, <3>4 DEF CarriesItsKind
    <3>5. CASE ~(s < Sets)
      <4>1. /\ r \in JobRec /\ r.pc \in {"idle", "ask"}
        BY <3>5, NothingTypes DEF NoJob
      <4> HIDE DEF r
      <4> QED
        BY <3>1, <4>1 DEF CarriesItsKind
    <3> QED
      BY <3>4, <3>5
  <2>5. CASE AskCatalog(t)
    <3> DEFINE r == [job[t] EXCEPT !.pc = "catalog", !.etag = memory.etag]
    <3>1. memory.etag \in Cats
      BY <1>1 DEF CachesOK, Cache
    <3>2. r \in JobRec /\ r.pc = "catalog"
      BY <3>1, JobParts DEF JobRec, Pcs
    <3>3. job' = [job EXCEPT ![t] = r]
      BY <1>1, <2>5 DEF AskCatalog, JobsOK
    <3> QED
      BY <3>2, <3>3 DEF CarriesItsKind
  <2>6. CASE ServerSendsCatalog(t)
    <3> DEFINE list == IF job[t].etag = server.cat THEN 0 ELSE server.cat
               r == [job[t] EXCEPT !.pc = "takeCatalog", !.etag = 0, !.value = list]
    <3>1. list \in Cats /\ 0 \in Cats
      BY <1>1 DEF ServerOK, Cats
    <3>2. job' = [job EXCEPT ![t] = r]
      BY <1>1, <2>6 DEF ServerSendsCatalog, JobsOK
    <3> HIDE DEF list
    <3>3. r \in JobRec /\ r.pc = "takeCatalog" /\ r.value = list
      BY <3>1, JobParts DEF JobRec, Pcs
    <3> QED
      BY <3>1, <3>2, <3>3 DEF CarriesItsKind
  <2>7. CASE ServerSendsPolicy(t)
    <3> DEFINE r == [job[t] EXCEPT !.pc = "takePolicy", !.value = server.pol]
    <3>1. server.pol \in Pols
      BY <1>1 DEF ServerOK, Pols
    <3>2. job' = [job EXCEPT ![t] = r]
      BY <1>1, <2>7 DEF ServerSendsPolicy, JobsOK
    <3>3. r \in JobRec /\ r.pc = "takePolicy" /\ r.value = server.pol
      BY <3>1, JobParts DEF JobRec, Pcs
    <3> QED
      BY <3>1, <3>2, <3>3 DEF CarriesItsKind
  <2>8. CASE RequestFails(t)
    <3> DEFINE on == [job[t] EXCEPT !.pc = "policy", !.etag = 0]
               r == IF job[t].pc = "catalog" THEN on ELSE AfterSync(t)
    <3>1. job' = [job EXCEPT ![t] = r]
      BY <1>1, <2>8 DEF RequestFails, At, JobsOK
    <3>2. on \in JobRec /\ on.pc = "policy"
      BY JobParts DEF JobRec, Pcs, Cats
    <3>3. AfterSync(t) \in JobRec /\ AfterSync(t).pc \in {"scripts", "idle"}
      BY NothingTypes DEF AfterSync, NoJob
    <3>4. r \in JobRec /\ r.pc \in {"policy", "scripts", "idle"}
      BY <3>2, <3>3
    <3> HIDE DEF r
    <3> QED
      BY <3>1, <3>4 DEF CarriesItsKind
  <2>9. CASE ReadFails(t)
    BY <2>9, NothingTypes DEF ReadFails, CarriesItsKind
  <2> QED
    BY <2>1, <2>2, <2>3, <2>4, <2>5, <2>6, <2>7, <2>8, <2>9 DEF ServerSends
<1>4. \A u \in Jobs \ {t} : job'[u] = job[u]
  BY <1>1, <1>3 DEF JobsOK
<1> QED
  BY <1>2, <1>3, <1>4, JobGoesOn DEF Preserved

\* A sync stores a list with its etag, or a policy, in both places.
LEMMA TakeStep ==
    ASSUME WorkerInv, NEW t \in Jobs, TakeCatalog(t) \/ TakePolicy(t)
    PROVE  Preserved /\ job[t].pc # "load" /\ \A u \in Jobs \ {t} : job'[u] = job[u]
<1>1. JobsOK /\ CachesOK
  BY TypeParts DEF WorkerInv
<1>2. job[t].pc # "load"
  BY DEF At, TakeCatalog, TakePolicy
<1>3. \E r \in JobRec : r.pc \in {"policy", "scripts", "idle"} /\ job' = [job EXCEPT ![t] = r]
  <2>1. CASE TakeCatalog(t)
    <3> DEFINE r == [job[t] EXCEPT !.pc = "policy", !.value = 0, !.changed = (job[t].value # 0)]
    <3>1. job' = [job EXCEPT ![t] = r]
      BY <1>1, <2>1 DEF TakeCatalog, JobsOK
    <3> DEFINE c == job[t].value # 0
    <3>2. c \in BOOLEAN
      OBVIOUS
    <3> HIDE DEF c
    <3>3. [job[t] EXCEPT !.pc = "policy", !.value = 0, !.changed = c] \in JobRec
      BY <3>2, JobParts DEF JobRec, Pcs, Cats
    <3> QED
      BY <3>1, <3>3, JobParts DEF c, JobRec
  <2>2. CASE TakePolicy(t)
    BY <2>2, NothingTypes DEF TakePolicy, AfterSync, NoJob
  <2> QED
    BY <2>1, <2>2
<1>4. \A u \in Jobs : u # t => job'[u] = job[u]
  BY <1>1, <1>3 DEF JobsOK
<1>5. JobsOK' /\ job'[t].pc # "load" /\ CarriesItsKind(job'[t])
  BY <1>1, <1>3 DEF JobsOK, CarriesItsKind
<1>6. JobsInv'
  BY <1>4, <1>5 DEF WorkerInv, JobsInv, ReadTogether
<1>7. CachesOK' /\ EtagNamesCatalog' /\ ReadOrInMemory'
  <2> DEFINE v == job[t].value
  <2>1. CASE TakeCatalog(t)
    <3>1. v \in Cats
      BY <2>1, JobParts DEF TakeCatalog, At, CarriesItsKind
    <3>2. CASE v # 0
      <4>1. /\ memory' = [memory EXCEPT !.cat = v, !.etag = v]
            /\ storage' = [storage EXCEPT !.cat = v, !.etag = v]
        BY <2>1, <3>2 DEF TakeCatalog
      <4>2. /\ CachesOK'
            /\ memory'.cat = v /\ memory'.etag = v /\ memory'.pol = memory.pol
            /\ storage'.cat = v /\ storage'.etag = v /\ storage'.pol = storage.pol
        BY <1>1, <3>1, <4>1 DEF CachesOK, Cache
      <4> QED
        BY <1>4, <1>5, <3>2, <4>2 DEF WorkerInv, EtagNamesCatalog, ReadOrInMemory
    <3>3. CASE v = 0
      <4>1. UNCHANGED <<memory, storage>>
        BY <2>1, <3>3 DEF TakeCatalog
      <4> QED
        BY <1>1, <1>4, <1>5, <4>1 DEF WorkerInv, EtagNamesCatalog, ReadOrInMemory, CachesOK
    <3> QED
      BY <3>2, <3>3
  <2>2. CASE TakePolicy(t)
    <3>1. v \in Pols
      BY <2>2, JobParts DEF TakePolicy, At, CarriesItsKind
    <3>2. /\ memory' = [memory EXCEPT !.pol = v]
          /\ storage' = [storage EXCEPT !.pol = v]
      BY <2>2 DEF TakePolicy
    <3>3. /\ CachesOK'
          /\ memory'.cat = memory.cat /\ memory'.etag = memory.etag /\ memory'.pol = v
          /\ storage'.cat = storage.cat /\ storage'.etag = storage.etag /\ storage'.pol = v
      BY <1>1, <3>1, <3>2 DEF CachesOK, Cache
    <3> QED
      BY <1>4, <1>5, <3>3 DEF WorkerInv, EtagNamesCatalog, ReadOrInMemory
  <2> QED
    BY <2>1, <2>2
<1> QED
  BY <1>2, <1>4, <1>5, <1>6, <1>7 DEF Preserved

\* What a page is told, and boot takes over.
LEMMA LoadedStep ==
    ASSUME WorkerInv, NEW t \in Jobs, LoadForBoot(t) \/ AnswerPage(t)
    PROVE  /\ Preserved
           /\ storage.cat # 0 => memory'.cat # 0
           /\ storage.pol # 0 => memory'.pol # 0
<1>1. JobsOK
  BY TypeParts DEF WorkerInv
<1>2. job[t].pc = "load" /\ memory' = Loaded(job[t].seen) /\ UNCHANGED storage
  BY DEF LoadForBoot, AnswerPage, At
<1>3. \E r \in JobRec : r.pc \in {"scripts", "idle"} /\ job' = [job EXCEPT ![t] = r]
  <2>1. CASE LoadForBoot(t)
    <3> DEFINE r == [job[t] EXCEPT !.pc = "scripts", !.seen = Nothing]
    <3>1. job' = [job EXCEPT ![t] = r]
      BY <1>1, <2>1 DEF LoadForBoot, JobsOK
    <3>2. r \in JobRec /\ r.pc = "scripts"
      <4> DEFINE n == Nothing
      <4>1. n \in Cache
        BY NothingTypes
      <4> HIDE DEF n
      <4>2. LET j == [job[t] EXCEPT !.pc = "scripts", !.seen = n] IN
            j \in JobRec /\ j.pc = "scripts"
        BY <4>1, JobParts DEF JobRec, Pcs
      <4> QED
        BY <4>2 DEF n
    <3> QED
      BY <3>1, <3>2
  <2>2. CASE AnswerPage(t)
    BY <2>2, NothingTypes DEF AnswerPage
  <2> QED
    BY <2>1, <2>2
<1> QED
  BY <1>2, <1>3, LoadStep DEF CarriesItsKind, Preserved

LEMMA LifeStep ==
    ASSUME WorkerInv, TornDown \/ Killed \/ Wake
    PROVE  Preserved /\ (up => ~up')
<1>1. CASE TornDown \/ Killed
  <2>1. Ends /\ ~up'
    BY <1>1 DEF TornDown, Killed, Ends
  <2>2. /\ job' = [t \in Jobs |-> NoJob] /\ memory' = Nothing /\ UNCHANGED storage
    BY <2>1 DEF Ends
  <2>3. job' \in [Jobs -> JobRec] /\ \A t \in Jobs : job'[t].pc \in {"idle", "read"}
    BY <2>2, NothingTypes
  <2>4. JobsOK' /\ CachesOK' /\ JobsInv' /\ EtagNamesCatalog' /\ ReadOrInMemory'
    BY <2>2, <2>3, WorkerComesAndGoes
  <2> QED
    BY <2>1, <2>4 DEF Preserved
<1>2. CASE Wake
  <2>1. PICK boots \in SUBSET Jobs : job' = [t \in Jobs |->
                    IF t \in boots THEN [NoJob EXCEPT !.pc = "read", !.boot = TRUE] ELSE NoJob]
    BY <1>2 DEF Wake
  <2> DEFINE started == [NoJob EXCEPT !.pc = "read", !.boot = TRUE]
  <2>2. started \in JobRec /\ started.pc = "read"
    BY NothingTypes DEF NoJob
  <2>3. job' = [t \in Jobs |-> IF t \in boots THEN started ELSE NoJob]
    BY <2>1
  <2> HIDE DEF started
  <2>4. job' \in [Jobs -> JobRec] /\ \A t \in Jobs : job'[t].pc \in {"idle", "read"}
    BY <2>2, <2>3, NothingTypes
  <2>5. UNCHANGED <<memory, storage>> /\ ~up
    BY <1>2 DEF Wake
  <2>6. JobsOK' /\ CachesOK' /\ JobsInv' /\ EtagNamesCatalog' /\ ReadOrInMemory'
    BY <2>4, <2>5, WorkerComesAndGoes
  <2> QED
    BY <2>5, <2>6 DEF Preserved
<1> QED
  BY <1>1, <1>2

\* The server, and what is registered in the browser.
LEMMA OutsideTypes ==
    ASSUME WorkerInv, [Next]_vars
    PROVE  ServerOK' /\ ScriptsOK'
<1>1. ServerOK /\ ScriptsOK /\ JobsOK
  BY TypeParts DEF WorkerInv
<1>2. ServerOK'
  <2>1. CASE OperatorEdits
    BY <1>1, <2>1, WorkerAssumption DEF OperatorEdits, ServerOK, Cats
  <2>2. CASE KeyGoesStale
    BY <1>1, <2>2, WorkerAssumption DEF KeyGoesStale, ServerOK
  <2>3. CASE TornDown \/ Killed \/ Wake \/ Heartbeat \/ \E t \in Jobs : ReadFails(t)
    <3>1. UNCHANGED <<server, edits>>
      BY <2>3 DEF TornDown, Killed, Ends, Wake, Heartbeat, ReadFails
    <3>2. keyStale' \in BOOLEAN /\ up' \in BOOLEAN
      BY <1>1, <2>3 DEF TornDown, Killed, Ends, Wake, Heartbeat, ReadFails, ServerOK
    <3>3. UNCHANGED faults \/ (faults < MaxFaults /\ faults' = faults + 1)
      BY <2>3 DEF TornDown, Killed, Ends, Wake, Heartbeat, ReadFails
    <3>4. faults' \in 0..MaxFaults
      BY <1>1, <3>3, WorkerAssumption DEF ServerOK
    <3> QED
      BY <1>1, <3>1, <3>2, <3>4 DEF ServerOK
  <2>4. CASE \E t \in Jobs : PageAsks(t) \/ StartSync(t) \/ Step(t) \/ ServerSends(t) \/ RequestFails(t)
    <3>1. UNCHANGED <<server, edits, faults, keyStale, up>>
      BY <2>4 DEF PageAsks, StartSync, Step, ReadStorage, LoadForBoot, AnswerPage, BeginRegister,
         LookForScript, WriteScript, AskCatalog, TakeCatalog, TakePolicy, ServerSends,
         ServerSendsCatalog, ServerSendsPolicy, RequestFails
    <3> QED
      BY <1>1, <3>1 DEF ServerOK
  <2>5. CASE UNCHANGED vars
    BY <1>1, <2>5 DEF vars, ServerOK
  <2> QED
    BY <2>1, <2>2, <2>3, <2>4, <2>5 DEF Next
<1>3. ScriptsOK'
  <2>1. ASSUME NEW t \in Jobs, WriteScript(t) PROVE ScriptsOK'
    <3> DEFINE r == [there |-> TRUE, cat |-> job[t].value,
                     exact |-> job[t].found # scripts[job[t].next].there]
    <3>1. job[t].value \in Cats
      BY <2>1, JobParts DEF WriteScript, At, CarriesItsKind
    <3> DEFINE x == job[t].found # scripts[job[t].next].there
    <3>2. x \in BOOLEAN
      OBVIOUS
    <3>3. scripts' = [scripts EXCEPT ![job[t].next] = [there |-> TRUE, cat |-> job[t].value, exact |-> x]]
      BY <2>1 DEF WriteScript
    <3> HIDE DEF x
    <3> QED
      BY <1>1, <3>1, <3>2, <3>3 DEF ScriptsOK, ScriptRec
  <2>2. CASE UNCHANGED scripts
    BY <1>1, <2>2 DEF ScriptsOK
  <2> QED
    BY <2>1, <2>2 DEF Next, vars, OperatorEdits, KeyGoesStale, TornDown, Killed, Ends, Wake, Heartbeat,
       PageAsks, StartSync, Step, ReadStorage, LoadForBoot, AnswerPage, BeginRegister,
       LookForScript, AskCatalog, TakeCatalog, TakePolicy, ReadFails, ServerSends,
       ServerSendsCatalog, ServerSendsPolicy, RequestFails
<1> QED
  BY <1>2, <1>3

LEMMA NextPreserves ==
    ASSUME WorkerInv, [Next]_vars PROVE WorkerInv'
<1>1. Preserved
  <2>1. CASE OperatorEdits \/ KeyGoesStale \/ Heartbeat \/ UNCHANGED vars
    <3>1. UNCHANGED <<memory, storage, job>>
      BY <2>1 DEF OperatorEdits, KeyGoesStale, Heartbeat, vars
    <3> QED
      BY <3>1, TypeParts DEF WorkerInv, Preserved, JobsOK, CachesOK, JobsInv, EtagNamesCatalog,
         ReadOrInMemory
  <2>2. CASE TornDown \/ Killed \/ Wake
    BY <2>2, LifeStep
  <2>3. ASSUME NEW t \in Jobs,
               \/ PageAsks(t) \/ StartSync(t) \/ Step(t) \/ ReadFails(t)
               \/ ServerSends(t) \/ RequestFails(t)
        PROVE  Preserved
    BY <2>3, ReadStorageStep, LoadedStep, QuietStep, TakeStep DEF Step
  <2> QED
    BY <2>1, <2>2, <2>3 DEF Next
<1> QED
  BY <1>1, OutsideTypes, TypePartsNext DEF Preserved, WorkerInv

-----------------------------------------------------------------------------
(* The theorems.                                                            *)

\* The invariant holds.
THEOREM Invariant == Spec => []WorkerInv
<1> QED
  BY Initially, NextPreserves, PTL DEF Spec

\* The server's, the worker's and the browser's variables keep their types.
THEOREM Typing == Spec => []TypeOK
<1>1. WorkerInv => TypeOK
  BY DEF WorkerInv
<1> QED
  BY <1>1, Invariant, PTL

\* In memory and in storage, the etag is that of the catalogue, or there is
\* none: a sync never asks for changes to a list the extension does not have.
THEOREM EtagIsOfItsCatalog == Spec => []EtagNamesCatalog
<1>1. WorkerInv => EtagNamesCatalog
  BY DEF WorkerInv
<1> QED
  BY <1>1, Invariant, PTL

\* A job that is to answer a page does so with what it loaded, or not at all.
LEMMA AnswerStep ==
    ASSUME WorkerInv, [Next]_vars, NEW t \in Jobs, At(t, "load"), ~job[t].boot, up',
           job'[t].pc = "idle"
    PROVE  /\ storage.cat # 0 => memory'.cat # 0
           /\ storage.pol # 0 => memory'.pol # 0
<1>1. JobsOK /\ job[t].pc = "load" /\ up
  BY TypeParts DEF WorkerInv, At
<1>2. CASE OperatorEdits \/ KeyGoesStale \/ Heartbeat \/ UNCHANGED vars
  BY <1>1, <1>2 DEF OperatorEdits, KeyGoesStale, Heartbeat, vars
<1>3. CASE TornDown \/ Killed \/ Wake
  BY <1>1, <1>3, LifeStep
<1>4. ASSUME NEW u \in Jobs, ReadStorage(u) PROVE FALSE
  <2>1. u # t /\ job' = [job EXCEPT ![u].pc = "load", ![u].seen = storage]
    BY <1>1, <1>4 DEF ReadStorage, At
  <2> QED
    BY <1>1, <2>1 DEF JobsOK
<1>5. ASSUME NEW u \in Jobs,
             \/ PageAsks(u) \/ StartSync(u) \/ BeginRegister(u) \/ LookForScript(u)
             \/ WriteScript(u) \/ AskCatalog(u) \/ ReadFails(u) \/ ServerSends(u) \/ RequestFails(u)
             \/ TakeCatalog(u) \/ TakePolicy(u)
      PROVE  FALSE
  BY <1>1, <1>5, QuietStep, TakeStep
<1>6. ASSUME NEW u \in Jobs, LoadForBoot(u) \/ AnswerPage(u)
      PROVE  /\ storage.cat # 0 => memory'.cat # 0
             /\ storage.pol # 0 => memory'.pol # 0
  BY <1>6, LoadedStep
<1> QED
  BY <1>2, <1>3, <1>4, <1>5, <1>6 DEF Next, Step

\* No page whose question read the storage is answered from the bundled list
\* or the default policy once a catalogue or a policy was stored. (The read may
\* fail; the page is then told that it is no application.)
THEOREM PagesGetWhatIsStored == Spec => AnsweredAsStored
<1>1. WorkerInv /\ [Next]_vars =>
        [\A t \in Jobs :
            At(t, "load") /\ ~job[t].boot /\ up' /\ job'[t].pc = "idle"
                => /\ storage.cat # 0 => memory'.cat # 0
                   /\ storage.pol # 0 => memory'.pol # 0]_vars
  BY AnswerStep
<1> QED
  BY <1>1, Invariant, PTL DEF Spec, AnsweredAsStored

=============================================================================
