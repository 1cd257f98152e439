----------------------------- MODULE VideoProofs -----------------------------
(***************************************************************************)
(* Proofs about Video, for every value of its constants.                   *)
(***************************************************************************)
EXTENDS Video, TLAPS

\* The defaults are configurations, reports and locals.
LEMMA Defaults ==
    Default \in Config /\ Unknown \in Browser /\ Nothing \in Learned /\ NoJob \in Job
<1> USE ConstantsAssumption
<1>1. Default \in Config
  BY DEF Default, Config
<1>2. Unknown \in Browser
  BY DEF Unknown, Browser
<1>3. Nothing \in Learned
  BY DEF Nothing, Learned, Scores
<1>4. NoJob \in Job
  BY <1>1, <1>2 DEF NoJob, Job, Ops
<1>5. QED BY <1>1, <1>2, <1>3, <1>4

\* The locals of a task keep their types when one of them is assigned.
LEMMA JobUpdates ==
    ASSUME NEW j \in Job
    PROVE  /\ j.op \in Ops /\ j.s \in Config /\ j.b \in Browser /\ j.old \in Config
           /\ j.prev \in Codecs \cup {None} /\ j.got \in Codecs \cup {None}
           /\ \A x \in Ops : [j EXCEPT !.op = x] \in Job
           /\ \A x \in Config : [j EXCEPT !.s = x] \in Job
           /\ \A x \in Browser : [j EXCEPT !.b = x] \in Job
           /\ \A x \in Codecs \cup {None} : [j EXCEPT !.prev = x] \in Job
           /\ \A x \in Codecs \cup {None} : [j EXCEPT !.got = x] \in Job
           /\ \A x \in Nat : [j EXCEPT !.base = x] \in Job
           /\ \A x \in Modes \cup {None} : [j EXCEPT !.mode = x] \in Job
           /\ \A x \in BOOLEAN : [j EXCEPT !.cursor = x] \in Job
           /\ \A x \in Config, y \in Nat :
                 [j EXCEPT !.s = x, !.base = y] \in Job
           /\ \A x \in Config, y \in Browser : [j EXCEPT !.old = x, !.b = y] \in Job
           /\ \A x \in Config : [j EXCEPT !.s = x, !.back = TRUE] \in Job
<1>1. /\ j.op \in Ops /\ j.s \in Config /\ j.b \in Browser /\ j.old \in Config
      /\ j.prev \in Codecs \cup {None} /\ j.got \in Codecs \cup {None}
      /\ \A x \in Ops : [j EXCEPT !.op = x] \in Job
      /\ \A x \in Config : [j EXCEPT !.s = x] \in Job
      /\ \A x \in Browser : [j EXCEPT !.b = x] \in Job
  BY DEF Job
<1>2. /\ \A x \in Codecs \cup {None} : [j EXCEPT !.prev = x] \in Job
      /\ \A x \in Codecs \cup {None} : [j EXCEPT !.got = x] \in Job
      /\ \A x \in Nat : [j EXCEPT !.base = x] \in Job
      /\ \A x \in Modes \cup {None} : [j EXCEPT !.mode = x] \in Job
  BY DEF Job
<1>3. /\ \A x \in BOOLEAN : [j EXCEPT !.cursor = x] \in Job
      /\ \A x \in Config, y \in Nat : [j EXCEPT !.s = x, !.base = y] \in Job
      /\ \A x \in Config, y \in Browser : [j EXCEPT !.old = x, !.b = y] \in Job
      /\ \A x \in Config : [j EXCEPT !.s = x, !.back = TRUE] \in Job
  BY DEF Job
<1>4. QED BY <1>1, <1>2, <1>3

\* What an assignment leaves alone.
LEMMA JobKeeps ==
    ASSUME NEW j \in Job
    PROVE  /\ \A x : [j EXCEPT !.got = x].mode = j.mode
           /\ \A x : [j EXCEPT !.cursor = x].mode = j.mode
           /\ \A x : [j EXCEPT !.mode = x].mode = x
  BY DEF Job

\* Every mode that can be selected is usable, and a manual choice is that choice.
LEMMA Selectable ==
    ASSUME NEW s \in Config, NEW b, NEW l, NEW m \in SelectEncoder(s, b, l)
    PROVE  m \in Usable /\ m \in Modes /\ (s.encoder \in {"Auto", m})
<1> USE ConstantsAssumption
<1>1. CASE s.encoder # "Auto"
  BY <1>1 DEF SelectEncoder
<1>2. CASE s.encoder = "Auto"
  <2>1. Provisional(b) \subseteq Usable
    BY DEF Provisional
  <2>2. Measured(s, b, l) \subseteq Usable
    BY DEF Measured
  <2>3. QED BY <1>2, <2>1, <2>2 DEF SelectEncoder
<1>3. QED BY <1>1, <1>2

\* A task moves on to l with locals j: only that task has to be looked at.
LEMMA TaskMoves ==
    ASSUME TaskType, NEW p \in Tasks, NEW l \in Pcs, NEW j \in Job,
           l \in Selected => j.mode \in Modes, Goto(p, l), Set(p, j)
    PROVE  TaskType'
<1>1. pc' \in [Tasks -> Pcs] /\ job' \in [Tasks -> Job]
  BY DEF TaskType, Goto, Set
<1>2. ASSUME NEW x \in Tasks, pc'[x] \in Selected PROVE job'[x].mode \in Modes
  <2>1. CASE x = p
    BY <1>2, <2>1 DEF TaskType, Goto, Set
  <2>2. CASE x # p
    BY <1>2, <2>2 DEF TaskType, Goto, Set
  <2> QED BY <2>1, <2>2
<1>3. QED BY <1>1, <1>2 DEF TaskType

\* A task moves on to l and assigns no local.
LEMMA TaskSteps ==
    ASSUME TaskType, NEW p \in Tasks, NEW l \in Pcs,
           l \in Selected => job[p].mode \in Modes, Goto(p, l), job' = job
    PROVE  TaskType'
<1>1. job[p] \in Job /\ Set(p, job[p])
  BY DEF TaskType, Set
<1>2. QED BY <1>1, TaskMoves

\* A task that answers gives up what it has.
LEMMA TaskLeaves ==
    ASSUME TaskType, AuthorityType, NEW p \in Tasks, NEW ok, Leave(p, ok)
    PROVE  TaskType' /\ update' \in Tasks \cup {None}
<1>1. NoJob \in Job
  BY Defaults
<1>2. \E l \in {"idle", "shown", "rejected"} : Goto(p, l)
  BY DEF Leave
<1>3. Set(p, NoJob)
  BY DEF Leave
<1>4. TaskType'
  BY <1>1, <1>2, <1>3, TaskMoves DEF Pcs, Selected
<1>5. QED BY <1>4 DEF Leave, AuthorityType

\* A request begins.
LEMMA TaskBegins ==
    ASSUME TaskType, BoundType, NEW p \in Tasks, NEW op \in Ops,
           NEW l \in Pcs \ Selected, NEW j \in Job, Begin(p, op, l, j)
    PROVE  TaskType' /\ BoundType'
<1> USE ConstantsAssumption
<1>1. [j EXCEPT !.op = op] \in Job
  BY JobUpdates
<1>2. TaskType'
  BY <1>1, TaskMoves DEF Begin
<1>3. ops' \in 0..MaxOps /\ meets' \in 0..MaxMeets
  BY DEF Begin, Count, BoundType
<1>4. QED BY <1>2, <1>3 DEF Begin, Note, Meets, BoundType

\* Requests that arrive keep the types.
LEMMA RequestTypes ==
    ASSUME TypeOK, NEW p \in Procs, Request(p)
    PROVE  TypeOK'
<1> USE ConstantsAssumption, Defaults DEF TypeOK
<1>0. p \in Tasks /\ {"idle", "codec", "settings", "browser", "wipe", "answer"} \subseteq Pcs \ Selected
  BY DEF Tasks, Pcs, Selected
<1>1. ASSUME NEW s \in Configs, SetVideoSettings(p, s) PROVE TypeOK'
  <2>1. [NoJob EXCEPT !.s = s, !.base = revision] \in Job
    BY JobUpdates DEF AuthorityType
  <2>2. TaskType' /\ BoundType'
    BY <1>0, <1>1, <2>1, TaskBegins DEF SetVideoSettings, Ops
  <2>3. QED BY <1>1, <2>2
            DEF SetVideoSettings, AuthorityType, CaptureType, LearnedType, HostType,
                authorityVars, captureVars, learnedVars, hostVars
<1>2. ASSUME NEW b \in Reports, SetBrowserVideoCapabilities(p, b) PROVE TypeOK'
  <2>1. [NoJob EXCEPT !.b = b] \in Job
    BY JobUpdates
  <2>2. TaskType' /\ BoundType'
    BY <1>0, <1>2, <2>1, TaskBegins DEF SetBrowserVideoCapabilities, Ops
  <2>3. QED BY <1>2, <2>2
            DEF SetBrowserVideoCapabilities, AuthorityType, CaptureType, LearnedType, HostType,
                authorityVars, captureVars, learnedVars, hostVars
<1>3. ASSUME NEW m \in Usable, VideoPresented(p, Codec[m]) PROVE TypeOK'
  <2>1. TaskType' /\ BoundType'
    BY <1>0, <1>3, TaskBegins DEF VideoPresented, Ops
  <2>2. Codec[m] \in Codecs
    BY DEF Codec, Codecs
  <2>3. browser' \in Browser
    BY <1>3, <2>2 DEF VideoPresented, AuthorityType, Browser
  <2>4. QED BY <1>3, <2>1, <2>3
            DEF VideoPresented, AuthorityType, CaptureType, LearnedType, HostType,
                captureVars, learnedVars, hostVars
<1>4. ASSUME NEW m \in Modes, NEW x \in Presets, NEW n \in Scores,
             RecordVideoBenchmark(p, m, x, n) PROVE TypeOK'
  <2>1. TaskType' /\ BoundType'
    BY <1>0, <1>4, TaskBegins DEF RecordVideoBenchmark, Ops
  <2>2. learned' \in Learned
    BY <1>4 DEF RecordVideoBenchmark, LearnedType, Learned
  <2>3. scores' \in Learned
    BY <1>4, <2>2 DEF RecordVideoBenchmark, LearnedType
  <2>4. QED BY <1>4, <2>1, <2>2, <2>3
            DEF RecordVideoBenchmark, AuthorityType, CaptureType, LearnedType, HostType,
                authorityVars, captureVars, hostVars
<1>5. ASSUME ClearVideoBenchmarks(p) PROVE TypeOK'
  <2>1. TaskType' /\ BoundType'
    BY <1>0, <1>5, TaskBegins DEF ClearVideoBenchmarks, Ops
  <2>2. QED BY <1>5, <2>1
            DEF ClearVideoBenchmarks, AuthorityType, CaptureType, LearnedType, HostType,
                authorityVars, captureVars, hostVars
<1>6. ASSUME Offer(p) PROVE TypeOK'
  <2>1. Codec[runtime] \in Codecs
    BY DEF CaptureType, Codec, Codecs
  <2>2. [NoJob EXCEPT !.prev = Codec[runtime]] \in Job
    BY <2>1, JobUpdates
  <2>3. TaskType' /\ BoundType'
    BY <1>0, <1>6, <2>2, TaskBegins DEF Offer, Ops
  <2>4. QED BY <1>6, <2>3
            DEF Offer, AuthorityType, CaptureType, LearnedType, HostType,
                authorityVars, captureVars, learnedVars, hostVars
<1>7. QED BY <1>1, <1>2, <1>3, <1>4, <1>5, <1>6 DEF Request

\* The steps before and inside apply_video_settings keep the types.
LEMMA ApplyTypes ==
    ASSUME TypeOK, NEW p \in Tasks,
           \/ ReadCodec(p) \/ ReadSettings(p) \/ ReadBrowser(p) \/ LockUpdate(p)
           \/ Select(p) \/ Compare(p) \/ Preflight(p)
           \/ StoreVideo(p) \/ StorePipeline(p) \/ StoreRuntime(p) \/ RestartCapture(p)
    PROVE  TypeOK'
<1> USE ConstantsAssumption DEF TypeOK
<1>0. job[p] \in Job /\ Codec[runtime] \in Codecs
  BY DEF TaskType, CaptureType, Codec, Codecs
<1>1. ASSUME ReadCodec(p) PROVE TypeOK'
  <2>1. [job[p] EXCEPT !.prev = Codec[runtime]] \in Job
    BY <1>0, JobUpdates
  <2>2. \E l \in {"lock", "settings", "browser"} : Goto(p, l)
    BY <1>1 DEF ReadCodec
  <2>3. TaskType'
    BY <1>1, <2>1, <2>2, TaskMoves DEF ReadCodec, Pcs, Selected
  <2>4. QED BY <1>1, <2>3
            DEF ReadCodec, AuthorityType, CaptureType, LearnedType, HostType, BoundType,
                authorityVars, captureVars, learnedVars, hostVars, boundVars
<1>2. ASSUME ReadSettings(p) PROVE TypeOK'
  <2>1. CASE Leave(p, TRUE)
    <3>1. TaskType' /\ update' \in Tasks \cup {None}
      BY <2>1, TaskLeaves
    <3>2. QED BY <1>2, <3>1
              DEF ReadSettings, AuthorityType, CaptureType, LearnedType, HostType, BoundType,
                  captureVars, learnedVars, hostVars, boundVars
  <2>2. CASE ~Leave(p, TRUE)
    <3>1. [job[p] EXCEPT !.s = settings] \in Job /\ Set(p, [job[p] EXCEPT !.s = settings])
      BY <1>0, <1>2, <2>2, JobUpdates DEF ReadSettings, AuthorityType
    <3>2. [job[p] EXCEPT !.s = settings].mode = job[p].mode
      BY <1>0 DEF Job
    <3>3. \E l \in {"codec", "select"} : Goto(p, l)
      BY <1>2, <2>2 DEF ReadSettings
    <3>4. TaskType'
      BY <3>1, <3>3, TaskMoves DEF Pcs, Selected
    <3>5. QED BY <1>2, <2>2, <3>4
              DEF ReadSettings, AuthorityType, CaptureType, LearnedType, HostType, BoundType,
                  captureVars, learnedVars, hostVars, boundVars
  <2>3. QED BY <2>1, <2>2
<1>3. ASSUME ReadBrowser(p) PROVE TypeOK'
  <2>1. [job[p] EXCEPT !.b = browser] \in Job
    BY <1>0, JobUpdates DEF AuthorityType
  <2>2. \E l \in {"select", "settings"} : Goto(p, l)
    BY <1>3 DEF ReadBrowser
  <2>3. TaskType'
    BY <1>3, <2>1, <2>2, TaskMoves DEF ReadBrowser, Pcs, Selected
  <2>4. QED BY <1>3, <2>3
            DEF ReadBrowser, AuthorityType, CaptureType, LearnedType, HostType, BoundType,
                authorityVars, captureVars, learnedVars, hostVars, boundVars
<1>4. ASSUME LockUpdate(p) PROVE TypeOK'
  <2>1. CASE Leave(p, FALSE)
    <3>1. TaskType' /\ update' \in Tasks \cup {None}
      BY <2>1, TaskLeaves
    <3>2. QED BY <1>4, <3>1
              DEF LockUpdate, AuthorityType, CaptureType, LearnedType, HostType, BoundType,
                  captureVars, learnedVars, hostVars, boundVars
  <2>2. CASE ~Leave(p, FALSE)
    <3>1. [job[p] EXCEPT !.old = settings, !.b = browser] \in Job
      BY <1>0, JobUpdates DEF AuthorityType
    <3>2. TaskType'
      BY <1>4, <2>2, <3>1, TaskMoves DEF LockUpdate, Pcs, Selected
    <3>3. QED BY <1>4, <2>2, <3>2
              DEF LockUpdate, AuthorityType, CaptureType, LearnedType, HostType, BoundType,
                  captureVars, learnedVars, hostVars, boundVars
  <2>3. QED BY <2>1, <2>2
<1>5. ASSUME Select(p) PROVE TypeOK'
  <2>1. CASE Fails(p, FALSE)
    <3>1. TaskType' /\ update' \in Tasks \cup {None}
      BY <2>1, TaskLeaves DEF Fails
    <3>2. QED BY <1>5, <2>1, <3>1
              DEF Select, Fails, Note, AuthorityType, CaptureType, LearnedType, HostType,
                  BoundType, captureVars, learnedVars, hostVars, boundVars
  <2>2. CASE ~Fails(p, FALSE)
    <3>1. PICK m \in SelectEncoder(job[p].s, job[p].b, learned) :
             Set(p, [job[p] EXCEPT !.mode = m])
      BY <1>5, <2>2 DEF Select
    <3>2. m \in Modes
      BY <1>0, <3>1, JobUpdates, Selectable
    <3>3. [job[p] EXCEPT !.mode = m] \in Job /\ [job[p] EXCEPT !.mode = m].mode = m
      BY <1>0, <3>2, JobUpdates, JobKeeps
    <3>4. TaskType'
      BY <1>5, <2>2, <3>1, <3>2, <3>3, TaskMoves DEF Select, Pcs
    <3>5. QED BY <1>5, <2>2, <3>4
              DEF Select, AuthorityType, CaptureType, LearnedType, HostType,
                  BoundType, captureVars, learnedVars, hostVars, boundVars
  <2>3. QED BY <2>1, <2>2
<1>6. ASSUME Compare(p) PROVE TypeOK'
  <2>1. \E l \in {"same", "preflight"} : Goto(p, l)
    BY <1>6 DEF Compare
  <2>2. job[p].mode \in Modes
    BY <1>6 DEF Compare, TaskType, Selected
  <2>3. TaskType'
    BY <1>6, <2>1, <2>2, TaskSteps DEF Compare, Pcs
  <2>4. QED BY <1>6, <2>3
            DEF Compare, AuthorityType, CaptureType, LearnedType, HostType, BoundType,
                authorityVars, captureVars, learnedVars, hostVars, boundVars
<1>7. ASSUME Preflight(p) PROVE TypeOK'
  <2>0. job[p].mode \in Modes
    BY <1>7 DEF Preflight, TaskType, Selected
  <2>1. CASE Fails(p, FALSE)
    <3>1. TaskType' /\ update' \in Tasks \cup {None}
      BY <2>1, TaskLeaves DEF Fails
    <3>2. QED BY <1>7, <2>1, <3>1
              DEF Preflight, Fails, Note, AuthorityType, CaptureType, LearnedType, HostType,
                  BoundType, captureVars, learnedVars, hostVars, boundVars
  <2>2. CASE Goto(p, "store") /\ UNCHANGED <<job, update, odd>>
    <3>1. TaskType'
      BY <2>0, <2>2, TaskSteps DEF Pcs
    <3>2. QED BY <1>7, <2>2, <3>1
              DEF Preflight, AuthorityType, CaptureType, LearnedType, HostType,
                  BoundType, captureVars, learnedVars, hostVars, boundVars
  <2>3. CASE /\ \E m \in Fallback(job[p].mode) : Set(p, [job[p] EXCEPT !.mode = m])
             /\ Goto(p, "store")
             /\ UNCHANGED <<update, odd>>
    <3>1. PICK m \in Fallback(job[p].mode) : Set(p, [job[p] EXCEPT !.mode = m])
      BY <2>3
    <3>2. m \in Modes
      BY <3>1 DEF Fallback
    <3>3. [job[p] EXCEPT !.mode = m] \in Job /\ [job[p] EXCEPT !.mode = m].mode = m
      BY <1>0, <3>2, JobUpdates, JobKeeps
    <3>4. TaskType'
      BY <2>3, <3>1, <3>2, <3>3, TaskMoves DEF Pcs
    <3>5. QED BY <1>7, <2>3, <3>4
              DEF Preflight, AuthorityType, CaptureType, LearnedType, HostType,
                  BoundType, captureVars, learnedVars, hostVars, boundVars
  <2>4. QED BY <1>7, <2>1, <2>2, <2>3 DEF Preflight
<1>8. ASSUME StoreVideo(p) PROVE TypeOK'
  <2>1. job[p].mode \in Modes /\ job[p].s \in Config /\ job[p].b \in Browser
    BY <1>0, <1>8, JobUpdates DEF StoreVideo, TaskType, Selected
  <2>2. [job[p] EXCEPT !.cursor = (video.cursor # job[p].s.cursor)] \in Job
    BY <1>0, JobUpdates
  <2>3. [job[p] EXCEPT !.cursor = (video.cursor # job[p].s.cursor)].mode = job[p].mode
    BY <1>0, JobKeeps
  <2>4. TaskType'
    BY <1>8, <2>1, <2>2, <2>3, TaskMoves DEF StoreVideo, Pcs
  <2>5. QED BY <1>8, <2>1, <2>4
            DEF StoreVideo, AuthorityType, CaptureType, LearnedType, HostType, BoundType,
                authorityVars, learnedVars, hostVars, boundVars
<1>9. ASSUME StorePipeline(p) PROVE TypeOK'
  <2>1. job[p].mode \in Modes /\ job[p].s \in Config
    BY <1>0, <1>9, JobUpdates DEF StorePipeline, TaskType, Selected
  <2>2. TaskType'
    BY <1>9, <2>1, TaskSteps DEF StorePipeline, Pcs
  <2>3. QED BY <1>9, <2>1, <2>2
            DEF StorePipeline, AuthorityType, CaptureType, LearnedType, HostType, BoundType,
                authorityVars, learnedVars, hostVars, boundVars
<1>10. ASSUME StoreRuntime(p) PROVE TypeOK'
  <2>1. job[p].mode \in Modes
    BY <1>10 DEF StoreRuntime, TaskType, Selected
  <2>2. \E l \in {"restart", "finish"} : Goto(p, l)
    BY <1>10 DEF StoreRuntime
  <2>3. TaskType'
    BY <1>10, <2>1, <2>2, TaskSteps DEF StoreRuntime, Pcs
  <2>4. QED BY <1>10, <2>1, <2>3
            DEF StoreRuntime, Note, AuthorityType, CaptureType, LearnedType, HostType,
                BoundType, authorityVars, learnedVars, hostVars, boundVars
<1>11. ASSUME RestartCapture(p) PROVE TypeOK'
  <2>0. job[p].mode \in Modes /\ video.cursor \in BOOLEAN
    BY <1>11 DEF RestartCapture, TaskType, Selected, CaptureType, Config
  <2>1. CASE Fails(p, TRUE)
    <3>1. TaskType' /\ update' \in Tasks \cup {None}
      BY <2>1, TaskLeaves DEF Fails
    <3>2. QED BY <1>11, <2>0, <2>1, <3>1
              DEF RestartCapture, Fails, Note, AuthorityType, CaptureType, LearnedType,
                  HostType, BoundType, learnedVars, hostVars, boundVars
  <2>2. CASE ~Fails(p, TRUE)
    <3>1. TaskType'
      BY <1>11, <2>0, <2>2, TaskSteps DEF RestartCapture, Pcs
    <3>2. QED BY <1>11, <2>0, <2>2, <3>1
              DEF RestartCapture, AuthorityType, CaptureType, LearnedType,
                  HostType, BoundType, learnedVars, hostVars, boundVars
  <2>3. QED BY <2>1, <2>2
<1>12. QED BY <1>1, <1>2, <1>3, <1>4, <1>5, <1>6, <1>7, <1>8, <1>9, <1>10, <1>11

\* What a caller does with the status keeps the types.
LEMMA ReturnTypes ==
    ASSUME TypeOK, NEW p \in Tasks, NEW got \in Codecs, Returned(p, got), boundVars' = boundVars
    PROVE  TaskType' /\ update' \in Tasks \cup {None} /\ BoundType'
<1> USE DEF TypeOK
<1>0. job[p] \in Job /\ update \in Tasks \cup {None}
  BY DEF TaskType, AuthorityType
<1>1. BoundType'
  BY DEF Returned, Note, BoundType, boundVars
<1>2. CASE \E ok \in BOOLEAN : Leave(p, ok)
  BY <1>1, <1>2, TaskLeaves
<1>3. CASE /\ \E l \in {"save", "adopt"} : Goto(p, l)
           /\ Set(p, [job[p] EXCEPT !.got = got])
           /\ UNCHANGED update
  <2>1. [job[p] EXCEPT !.got = got] \in Job
    BY <1>0, JobUpdates
  <2>2. TaskType'
    BY <1>3, <2>1, TaskMoves DEF Pcs, Selected
  <2>3. QED BY <1>0, <1>1, <1>3, <2>2
<1>4. CASE Goto(p, "close") /\ UNCHANGED <<job, update>>
  <2>1. TaskType'
    BY <1>4, TaskSteps DEF Pcs, Selected
  <2>2. QED BY <1>0, <1>1, <1>4, <2>1
<1>5. QED BY <1>2, <1>3, <1>4 DEF Returned

\* The steps at and after the end of apply_video_settings keep the types.
LEMMA LaterTypes ==
    ASSUME TypeOK, NEW p \in Tasks,
           \/ Unchanged(p) \/ Finish(p) \/ Save(p) \/ Adopt(p) \/ ClosePeer(p)
           \/ ClearSave(p) \/ OfferAnswer(p)
    PROVE  TypeOK'
<1> USE ConstantsAssumption DEF TypeOK
<1>0. job[p] \in Job /\ Codec[runtime] \in Codecs
  BY DEF TaskType, CaptureType, Codec, Codecs
<1>1. ASSUME Unchanged(p) PROVE TypeOK'
  <2>1. TaskType' /\ update' \in Tasks \cup {None} /\ BoundType'
    BY <1>0, <1>1, ReturnTypes DEF Unchanged, boundVars
  <2>2. job[p].b \in Browser
    BY <1>0, JobUpdates
  <2>3. QED BY <1>1, <2>1, <2>2
            DEF Unchanged, AuthorityType, CaptureType, LearnedType, HostType,
                learnedVars, hostVars
<1>2. ASSUME Finish(p) PROVE TypeOK'
  <2>1. TaskType' /\ update' \in Tasks \cup {None} /\ BoundType'
    BY <1>0, <1>2, ReturnTypes DEF Finish, boundVars
  <2>2. QED BY <1>2, <2>1
            DEF Finish, AuthorityType, CaptureType, LearnedType, HostType,
                captureVars, learnedVars, hostVars
<1>3. ASSUME Save(p) PROVE TypeOK'
  <2>1. job[p].s \in Config /\ job[p].old \in Config
    BY <1>0, JobUpdates
  <2>2. file' \in Config \cup {None} /\ BoundType'
    BY <1>3, <2>1 DEF Save, HostType, Note, BoundType, boundVars
  <2>3. CASE Goto(p, "adopt") /\ UNCHANGED job
    <3>1. TaskType'
      BY <2>3, TaskSteps DEF Pcs, Selected
    <3>2. QED BY <1>3, <2>2, <3>1
              DEF Save, AuthorityType, CaptureType, LearnedType, HostType,
                  authorityVars, captureVars, learnedVars
  <2>4. CASE /\ Goto(p, "select")
             /\ Set(p, [job[p] EXCEPT !.s = job[p].old, !.back = TRUE])
    <3>1. [job[p] EXCEPT !.s = job[p].old, !.back = TRUE] \in Job
      BY <1>0, <2>1, JobUpdates
    <3>2. TaskType'
      BY <2>4, <3>1, TaskMoves DEF Pcs, Selected
    <3>3. QED BY <1>3, <2>2, <3>2
              DEF Save, AuthorityType, CaptureType, LearnedType, HostType,
                  authorityVars, captureVars, learnedVars
  <2>5. QED BY <1>3, <2>3, <2>4 DEF Save
<1>4. ASSUME Adopt(p) PROVE TypeOK'
  <2>1. settings' \in Config /\ revision' \in Nat \ {0} /\ browser' \in Browser
    <3>1. job[p].s \in Config /\ job[p].b \in Browser
      BY <1>0, JobUpdates
    <3>2. QED BY <1>4, <3>1 DEF Adopt, AuthorityType
  <2>2. CASE Leave(p, TRUE)
    <3>1. TaskType' /\ update' \in Tasks \cup {None}
      BY <2>2, TaskLeaves
    <3>2. QED BY <1>4, <2>1, <3>1
              DEF Adopt, AuthorityType, CaptureType, LearnedType, HostType, BoundType,
                  captureVars, learnedVars, hostVars, boundVars
  <2>3. CASE /\ update' = IF update = p THEN None ELSE update
             /\ Goto(p, "close") /\ UNCHANGED job
    <3>1. TaskType'
      BY <2>3, TaskSteps DEF Pcs, Selected
    <3>2. QED BY <1>4, <2>1, <2>3, <3>1
              DEF Adopt, AuthorityType, CaptureType, LearnedType, HostType, BoundType,
                  captureVars, learnedVars, hostVars, boundVars
  <2>4. QED BY <1>4, <2>2, <2>3 DEF Adopt
<1>5. ASSUME ClosePeer(p) PROVE TypeOK'
  <2>1. TaskType' /\ update' \in Tasks \cup {None}
    BY <1>5, TaskLeaves DEF ClosePeer
  <2>2. QED BY <1>5, <2>1
            DEF ClosePeer, AuthorityType, CaptureType, LearnedType, HostType, BoundType,
                captureVars, learnedVars, hostVars, boundVars
<1>6. ASSUME ClearSave(p) PROVE TypeOK'
  <2>1. TaskType' /\ update' \in Tasks \cup {None}
    BY <1>6, TaskLeaves DEF ClearSave
  <2>2. QED BY <1>6, <2>1, Defaults
            DEF ClearSave, AuthorityType, CaptureType, LearnedType, HostType, BoundType,
                captureVars, hostVars, boundVars
<1>7. ASSUME OfferAnswer(p) PROVE TypeOK'
  <2>1. TaskType' /\ update' \in Tasks \cup {None}
    BY <1>7, TaskLeaves DEF OfferAnswer
  <2>2. job[p].prev \in Codecs \cup {None}
    BY <1>0, JobUpdates
  <2>3. QED BY <1>7, <2>1, <2>2
            DEF OfferAnswer, AuthorityType, CaptureType, LearnedType, HostType, BoundType,
                captureVars, learnedVars, hostVars, boundVars
<1>8. QED BY <1>1, <1>2, <1>3, <1>4, <1>5, <1>6, <1>7

\* The user interface keeps the types.
LEMMA HostTypes ==
    ASSUME TypeOK, Host
    PROVE  TypeOK'
<1> USE ConstantsAssumption DEF TypeOK
<1>0. "ui" \in Tasks /\ video.cursor \in BOOLEAN
  BY DEF Tasks, CaptureType, Config
<1>1. ASSUME NEW s \in Configs, ApplyFromHost(s) PROVE TypeOK'
  <2>1. [NoJob EXCEPT !.s = s] \in Job
    BY Defaults, JobUpdates
  <2>2. TaskType' /\ BoundType'
    BY <1>0, <1>1, <2>1, TaskBegins DEF ApplyFromHost, Ops, Pcs, Selected
  <2>3. QED BY <1>1, <2>2
            DEF ApplyFromHost, AuthorityType, CaptureType, LearnedType, HostType,
                authorityVars, captureVars, learnedVars
<1>2. ASSUME NEW s \in Configs, HostDraft(s) PROVE TypeOK'
  BY <1>2 DEF HostDraft, Count, AuthorityType, CaptureType, LearnedType, HostType, TaskType,
              BoundType, authorityVars, captureVars, learnedVars
<1>3. ASSUME HostSync PROVE TypeOK'
  BY <1>3 DEF HostSync, AuthorityType, CaptureType, LearnedType, HostType, TaskType,
              BoundType, authorityVars, captureVars, learnedVars, boundVars
<1>4. ASSUME HostChangeMonitor PROVE TypeOK'
  <2>1. TaskType'
    BY <1>0, <1>4, TaskSteps DEF HostChangeMonitor, Pcs, Selected
  <2>2. BoundType'
    BY <1>4 DEF HostChangeMonitor, Count, BoundType
  <2>3. QED BY <1>0, <1>4, <2>1, <2>2
            DEF HostChangeMonitor, AuthorityType, CaptureType, LearnedType, HostType,
                authorityVars, learnedVars, hostVars
<1>5. ASSUME HostSave PROVE TypeOK'
  <2>1. TaskType'
    BY <1>0, <1>5, TaskSteps DEF HostSave, Pcs, Selected
  <2>2. BoundType'
    BY <1>5 DEF HostSave, Count, Note, BoundType
  <2>3. QED BY <1>5, <2>1, <2>2
            DEF HostSave, AuthorityType, CaptureType, LearnedType, HostType,
                authorityVars, captureVars, learnedVars
<1>6. ASSUME HostBenchmark PROVE TypeOK'
  <2>1. BoundType'
    BY <1>6 DEF HostBenchmark, Count, BoundType
  <2>2. QED BY <1>0, <1>6, <2>1
            DEF HostBenchmark, AuthorityType, CaptureType, LearnedType, HostType, TaskType,
                authorityVars, learnedVars, hostVars
<1>7. ASSUME HostReport PROVE TypeOK'
  <2>1. TaskType'
    BY <1>0, <1>7, TaskSteps DEF HostReport, Pcs, Selected
  <2>2. QED BY <1>7, <2>1
            DEF HostReport, AuthorityType, CaptureType, LearnedType, HostType, BoundType,
                authorityVars, captureVars, learnedVars, boundVars
<1>8. ASSUME HostExit PROVE TypeOK'
  <2>1. TaskType'
    BY <1>0, <1>8, TaskSteps DEF HostExit, Pcs, Selected
  <2>2. BoundType'
    BY <1>8 DEF HostExit, Count, BoundType
  <2>3. QED BY <1>8, <2>1, <2>2
            DEF HostExit, AuthorityType, CaptureType, LearnedType, HostType,
                authorityVars, captureVars, learnedVars
<1>9. QED BY <1>1, <1>2, <1>3, <1>4, <1>5, <1>6, <1>7, <1>8 DEF Host

\* A start of the program, whatever the file holds, has the types.
LEMMA BootTypes ==
    ASSUME TypeOK, NEW f \in Config \cup {None}, Boot(f), ops' \in 0..MaxOps
    PROVE  TypeOK'
<1> USE ConstantsAssumption, Defaults DEF TypeOK
<1> DEFINE s == IF f = None THEN Default ELSE f
           modes == SelectEncoder(s, Unknown, scores)
           mode == IF modes = {} THEN "H264Software" ELSE CHOOSE m \in modes : TRUE
<1>1. s \in Config /\ s.cursor \in BOOLEAN
  BY DEF Config
<1>2. mode \in Modes
  <2>1. \A m \in modes : m \in Modes
    BY <1>1, Selectable
  <2>2. QED BY <2>1 DEF Modes
<1>3. AuthorityType' /\ HostType'
  BY <1>1 DEF Boot, AuthorityType, HostType
<1>4. pipeline' = [video |-> s, mode |-> mode] /\ runtime' = mode
  BY DEF Boot
<1>5. CaptureType'
  BY <1>1, <1>2, <1>4 DEF Boot, CaptureType
<1>6. LearnedType' /\ TaskType' /\ BoundType'
  BY DEF Boot, LearnedType, TaskType, BoundType, Pcs, Selected
<1>7. QED BY <1>3, <1>5, <1>6

\* Every component of the state keeps its type through requests, interleaved
\* steps of handlers, the user interface, exits and crashes.
THEOREM TypeCorrect == Spec => []TypeOK
<1> USE ConstantsAssumption
<1>1. Init => TypeOK
  <2> SUFFICES ASSUME Init PROVE TypeOK
    OBVIOUS
  <2> USE Defaults
  <2>1. runtime \in Modes /\ pipeline = [video |-> Default, mode |-> runtime]
    BY DEF Init, Provisional, Modes
  <2>2. AuthorityType /\ HostType /\ LearnedType
    BY DEF Init, AuthorityType, HostType, LearnedType
  <2>3. CaptureType
    BY <2>1 DEF Init, CaptureType
  <2>4. TaskType /\ BoundType
    BY DEF Init, TaskType, BoundType, Pcs, Selected
  <2>5. QED BY <2>2, <2>3, <2>4 DEF TypeOK
<1>2. TypeOK /\ [Next]_vars => TypeOK'
  <2> SUFFICES ASSUME TypeOK, [Next]_vars PROVE TypeOK'
    OBVIOUS
  <2>1. ASSUME NEW p \in Tasks, Step(p) PROVE TypeOK'
    BY <2>1, ApplyTypes, LaterTypes DEF Step
  <2>2. ASSUME Restart PROVE TypeOK'
    BY <2>2, BootTypes DEF Restart, TypeOK, HostType, BoundType
  <2>3. ASSUME Crash PROVE TypeOK'
    BY <2>3, BootTypes DEF Crash, Count, TypeOK, HostType, BoundType
  <2>4. CASE UNCHANGED vars
    BY <2>4 DEF vars, authorityVars, captureVars, learnedVars, hostVars, boundVars, TypeOK,
                AuthorityType, CaptureType, LearnedType, HostType, TaskType, BoundType
  <2>5. QED BY <2>1, <2>2, <2>3, <2>4, RequestTypes, HostTypes DEF Next
<1>3. QED BY <1>1, <1>2, PTL DEF Spec

-----------------------------------------------------------------------------
(* Edits, the pipeline and the file                                         *)

\* The steps from the selection of a mode to its use, and those of a handler
\* that holds video_update.
Chosen   == {"compare", "same", "preflight", "store", "pipeline"}
Applying == Chosen \cup {"select", "runtime", "restart", "finish", "save", "adopt"}

\* What a task relies on: its mode fits its settings; an edit holds video_update
\* while it is applied, and nobody replaced the settings it builds on since.
TaskInv(p) ==
    /\ pc[p] \in Chosen =>
          job[p].mode \in Usable /\ job[p].s.encoder \in {"Auto", job[p].mode}
    /\ pc[p] \in {"settings", "browser"} => ~Locked(job[p].op)
    /\ pc[p] = "save" => Locked(job[p].op)
    /\ pc[p] \in Applying /\ Locked(job[p].op) =>
          update = p /\ (job[p].op = "set" => job[p].base = revision)

EditInv == \A p \in Tasks : TaskInv(p)

\* Facts about one task's variables after it moved on.
LEMMA Moved ==
    ASSUME TaskType, NEW p \in Tasks
    PROVE  /\ \A l : Goto(p, l) => pc'[p] = l /\ \A q \in Tasks \ {p} : pc'[q] = pc[q]
           /\ \A j : Set(p, j) => job'[p] = j /\ \A q \in Tasks \ {p} : job'[q] = job[q]
           /\ \A ok : Leave(p, ok) => /\ pc'[p] \in {"idle", "shown", "rejected"}
                                      /\ \A q \in Tasks \ {p} : pc'[q] = pc[q] /\ job'[q] = job[q]
                                      /\ update' = IF update = p THEN None ELSE update
<1>1. \A l : Goto(p, l) => pc'[p] = l /\ \A q \in Tasks \ {p} : pc'[q] = pc[q]
  BY DEF TaskType, Goto
<1>2. \A j : Set(p, j) => job'[p] = j /\ \A q \in Tasks \ {p} : job'[q] = job[q]
  BY DEF TaskType, Set
<1>3. QED BY <1>1, <1>2 DEF Leave

\* A task that answered owes nothing.
LEMMA AnsweredInv ==
    ASSUME NEW p \in Tasks, pc'[p] \in {"idle", "shown", "rejected", "close"}
    PROVE  TaskInv(p)'
  BY DEF TaskInv, Chosen, Applying

\* The steps of one task leave the others, and the revision under an edit, alone.
LEMMA OthersKeep ==
    ASSUME TypeOK, EditInv, NEW p \in Tasks, Step(p), NEW q \in Tasks, q # p
    PROVE  /\ pc'[q] = pc[q] /\ job'[q] = job[q]
           /\ update = q => update' = q /\ revision' = revision
<1> USE ConstantsAssumption
<1>0. TaskType /\ job[p] \in Job /\ TaskInv(p) /\ q # None
  BY DEF TypeOK, TaskType, EditInv
<1> DEFINE Kept == /\ pc'[q] = pc[q] /\ job'[q] = job[q]
                   /\ update = q => update' = q /\ revision' = revision
<1>1. CASE ReadCodec(p) \/ ReadBrowser(p) \/ StoreVideo(p)
  BY <1>0, <1>1, Moved DEF ReadCodec, ReadBrowser, StoreVideo, authorityVars
<1>2. CASE Compare(p) \/ StorePipeline(p) \/ StoreRuntime(p)
  BY <1>0, <1>2, Moved DEF Compare, StorePipeline, StoreRuntime, authorityVars
<1>3. CASE ReadSettings(p)
  BY <1>0, <1>3, Moved DEF ReadSettings
<1>4. CASE LockUpdate(p)
  BY <1>0, <1>4, Moved DEF LockUpdate
<1>5. CASE Select(p)
  BY <1>0, <1>5, Moved DEF Select, Fails
<1>6. CASE Preflight(p)
  BY <1>0, <1>6, Moved DEF Preflight, Fails
<1>7. CASE RestartCapture(p)
  BY <1>0, <1>7, Moved DEF RestartCapture, Fails
<1>8. CASE Unchanged(p) \/ Finish(p)
  <2>1. revision' = revision /\ Returned(p, Codec[runtime])
    BY <1>8 DEF Unchanged, Finish
  <2>2. \/ \E ok \in BOOLEAN : Leave(p, ok)
        \/ update' = update /\ (\E j : Set(p, j)) /\ \E l : Goto(p, l)
        \/ update' = update /\ job' = job /\ \E l : Goto(p, l)
    BY <2>1 DEF Returned
  <2>3. QED BY <1>0, <2>1, <2>2, Moved
<1>9. CASE Save(p)
  BY <1>0, <1>9, Moved DEF Save, authorityVars
<1>10. CASE Adopt(p)
  <2>1. update = q => revision' = revision
    BY <1>0, <1>10 DEF Adopt, TaskInv, Applying
  <2>2. QED BY <1>0, <1>10, <2>1, Moved DEF Adopt
<1>11. CASE ClosePeer(p) \/ ClearSave(p) \/ OfferAnswer(p)
  BY <1>0, <1>11, Moved DEF ClosePeer, ClearSave, OfferAnswer
<1>12. QED BY <1>1, <1>2, <1>3, <1>4, <1>5, <1>6, <1>7, <1>8, <1>9, <1>10, <1>11 DEF Step

\* The step of a task keeps what it relies on itself.
LEMMA OwnKeeps ==
    ASSUME TypeOK, EditInv, NEW p \in Tasks, Step(p)
    PROVE  TaskInv(p)'
<1> USE ConstantsAssumption
<1>0. TaskType /\ job[p] \in Job /\ TaskInv(p) /\ p # None
  BY DEF TypeOK, TaskType, EditInv
<1>1. CASE ReadCodec(p)
  <2>0. job'[p] = [job[p] EXCEPT !.prev = Codec[runtime]]
    BY <1>0, <1>1, Moved DEF ReadCodec
  <2>1. job'[p].op = job[p].op
    BY <1>0, <2>0 DEF Job
  <2>2. \/ pc'[p] = "lock"
        \/ pc'[p] \in {"settings", "browser"} /\ ~Locked(job[p].op)
    BY <1>0, <1>1, Moved DEF ReadCodec
  <2>3. QED BY <2>1, <2>2 DEF TaskInv, Chosen, Applying
<1>2. CASE ReadSettings(p)
  <2>1. CASE Leave(p, TRUE)
    BY <1>0, <2>1, Moved, AnsweredInv
  <2>2. CASE ~Leave(p, TRUE)
    <3>0. job'[p] = [job[p] EXCEPT !.s = settings] /\ pc'[p] \in {"codec", "select"}
      BY <1>0, <1>2, <2>2, Moved DEF ReadSettings
    <3>1. job'[p].op = job[p].op
      BY <1>0, <3>0 DEF Job
    <3>2. ~Locked(job[p].op)
      BY <1>0, <1>2 DEF ReadSettings, TaskInv
    <3>3. QED BY <3>0, <3>1, <3>2 DEF TaskInv, Chosen, Applying
  <2>3. QED BY <2>1, <2>2
<1>3. CASE ReadBrowser(p)
  <2>0. job'[p] = [job[p] EXCEPT !.b = browser] /\ pc'[p] \in {"settings", "select"}
    BY <1>0, <1>3, Moved DEF ReadBrowser
  <2>1. job'[p].op = job[p].op
    BY <1>0, <2>0 DEF Job
  <2>2. ~Locked(job[p].op)
    BY <1>0, <1>3 DEF ReadBrowser, TaskInv
  <2>3. QED BY <2>0, <2>1, <2>2 DEF TaskInv, Chosen, Applying
<1>4. CASE LockUpdate(p)
  <2>1. CASE Leave(p, FALSE)
    BY <1>0, <2>1, Moved, AnsweredInv
  <2>2. CASE ~Leave(p, FALSE)
    <3>0. /\ job'[p] = [job[p] EXCEPT !.old = settings, !.b = browser]
          /\ pc'[p] = "select"
      BY <1>0, <1>4, <2>2, Moved DEF LockUpdate
    <3>1. job'[p].op = job[p].op /\ job'[p].base = job[p].base
      BY <1>0, <3>0 DEF Job
    <3>2. /\ update' = p /\ revision' = revision
          /\ job[p].op = "set" => job[p].base = revision
      BY <1>4, <2>2 DEF LockUpdate
    <3>3. QED BY <3>0, <3>1, <3>2 DEF TaskInv, Chosen, Applying
  <2>3. QED BY <2>1, <2>2
<1>5. CASE Select(p)
  <2>1. CASE Fails(p, FALSE)
    BY <1>0, <2>1, Moved, AnsweredInv DEF Fails
  <2>2. CASE ~Fails(p, FALSE)
    <3>1. PICK m \in SelectEncoder(job[p].s, job[p].b, learned) :
             Set(p, [job[p] EXCEPT !.mode = m])
      BY <1>5, <2>2 DEF Select
    <3>2. m \in Usable /\ job[p].s.encoder \in {"Auto", m}
      BY <1>0, <3>1, JobUpdates, Selectable
    <3>0. job'[p] = [job[p] EXCEPT !.mode = m]
      BY <1>0, <3>1, Moved
    <3>3. /\ job'[p].op = job[p].op /\ job'[p].base = job[p].base
          /\ job'[p].s = job[p].s /\ job'[p].mode = m
      BY <1>0, <3>0 DEF Job
    <3>4. pc'[p] = "compare" /\ update' = update /\ revision' = revision
      BY <1>0, <1>5, <2>2, Moved DEF Select
    <3>5. pc[p] = "select"
      BY <1>5 DEF Select
    <3>6. QED BY <1>0, <3>2, <3>3, <3>4, <3>5 DEF TaskInv, Applying
  <2>3. QED BY <2>1, <2>2
<1>6. CASE Compare(p) \/ StorePipeline(p) \/ StoreRuntime(p)
  <2>1. /\ pc[p] \in Chosen \/ (pc[p] = "runtime" /\ pc'[p] \in {"restart", "finish"})
        /\ pc[p] \in Applying
        /\ pc'[p] \in {"same", "preflight", "runtime", "restart", "finish"}
    BY <1>0, <1>6, Moved DEF Compare, StorePipeline, StoreRuntime, Chosen, Applying
  <2>2. job' = job /\ update' = update /\ revision' = revision
    BY <1>6 DEF Compare, StorePipeline, StoreRuntime, authorityVars
  <2>3. QED BY <1>0, <2>1, <2>2 DEF TaskInv, Chosen
<1>7. CASE Preflight(p)
  <2>0. pc[p] = "preflight" /\ revision' = revision
    BY <1>7 DEF Preflight
  <2>1. CASE Fails(p, FALSE)
    BY <1>0, <2>1, Moved, AnsweredInv DEF Fails
  <2>2. CASE Goto(p, "store") /\ UNCHANGED <<job, update, odd>>
    <3>1. pc'[p] = "store"
      BY <1>0, <2>2, Moved
    <3>2. QED BY <1>0, <2>0, <2>2, <3>1 DEF TaskInv, Chosen, Applying
  <2>3. CASE /\ job[p].s.encoder = "Auto"
             /\ \E m \in Fallback(job[p].mode) : Set(p, [job[p] EXCEPT !.mode = m])
             /\ Goto(p, "store")
             /\ UNCHANGED <<update, odd>>
    <3>1. PICK m \in Fallback(job[p].mode) : Set(p, [job[p] EXCEPT !.mode = m])
      BY <2>3
    <3>2. m \in Usable
      BY <3>1 DEF Fallback
    <3>0. job'[p] = [job[p] EXCEPT !.mode = m] /\ pc'[p] = "store"
      BY <1>0, <2>3, <3>1, Moved
    <3>3. /\ job'[p].op = job[p].op /\ job'[p].base = job[p].base
          /\ job'[p].s = job[p].s /\ job'[p].mode = m
      BY <1>0, <3>0 DEF Job
    <3>4. QED BY <1>0, <2>0, <2>3, <3>0, <3>2, <3>3 DEF TaskInv, Chosen, Applying
  <2>4. QED BY <1>7, <2>1, <2>2, <2>3 DEF Preflight
<1>8. CASE StoreVideo(p)
  <2>0. job'[p] = [job[p] EXCEPT !.cursor = (video.cursor # job[p].s.cursor)]
    BY <1>0, <1>8, Moved DEF StoreVideo
  <2>1. /\ job'[p].op = job[p].op /\ job'[p].base = job[p].base
        /\ job'[p].s = job[p].s /\ job'[p].mode = job[p].mode
    BY <1>0, <2>0 DEF Job
  <2>2. /\ pc[p] = "store" /\ pc'[p] = "pipeline"
        /\ update' = update /\ revision' = revision
    BY <1>0, <1>8, Moved DEF StoreVideo, authorityVars
  <2>3. QED BY <1>0, <2>1, <2>2 DEF TaskInv, Chosen, Applying
<1>9. CASE RestartCapture(p)
  <2>1. CASE Fails(p, TRUE)
    BY <1>0, <2>1, Moved, AnsweredInv DEF Fails
  <2>2. CASE ~Fails(p, TRUE)
    <3>1. /\ pc[p] = "restart" /\ pc'[p] = "finish" /\ job' = job
          /\ update' = update /\ revision' = revision
      BY <1>0, <1>9, <2>2, Moved DEF RestartCapture
    <3>2. QED BY <1>0, <3>1 DEF TaskInv, Chosen, Applying
  <2>3. QED BY <2>1, <2>2
<1>10. CASE Unchanged(p) \/ Finish(p)
  <2>1. /\ revision' = revision /\ Returned(p, Codec[runtime])
        /\ pc[p] \in {"same", "finish"}
    BY <1>10 DEF Unchanged, Finish
  <2>2. CASE \E ok \in BOOLEAN : Leave(p, ok)
    BY <1>0, <2>2, Moved, AnsweredInv
  <2>3. CASE Goto(p, "close")
    BY <1>0, <2>3, Moved, AnsweredInv
  <2>4. CASE /\ \/ Goto(p, "save") /\ Locked(job[p].op)
                \/ Goto(p, "adopt")
             /\ Set(p, [job[p] EXCEPT !.got = Codec[runtime]]) /\ UNCHANGED update
    <3>0. job'[p] = [job[p] EXCEPT !.got = Codec[runtime]]
      BY <1>0, <2>4, Moved
    <3>1. job'[p].op = job[p].op /\ job'[p].base = job[p].base
      BY <1>0, <3>0 DEF Job
    <3>2. pc'[p] = "adopt" \/ (pc'[p] = "save" /\ Locked(job[p].op))
      BY <1>0, <2>4, Moved
    <3>3. QED BY <1>0, <2>1, <2>4, <3>1, <3>2 DEF TaskInv, Chosen, Applying
  <2>5. QED BY <2>1, <2>2, <2>3, <2>4 DEF Returned
<1>11. CASE Save(p)
  <2>1. pc[p] = "save" /\ update' = update /\ revision' = revision
    BY <1>11 DEF Save, authorityVars
  <2>2. /\ pc'[p] \in {"adopt", "select"}
        /\ \/ job' = job
           \/ job'[p] = [job[p] EXCEPT !.s = job[p].old, !.back = TRUE]
    BY <1>0, <1>11, Moved DEF Save
  <2>3. job'[p].op = job[p].op /\ job'[p].base = job[p].base
    BY <1>0, <2>2 DEF Job
  <2>4. QED BY <1>0, <2>1, <2>2, <2>3 DEF TaskInv, Chosen, Applying
<1>12. CASE Adopt(p) \/ ClosePeer(p) \/ ClearSave(p) \/ OfferAnswer(p)
  <2>1. pc'[p] \in {"idle", "shown", "rejected", "close"}
    BY <1>0, <1>12, Moved DEF Adopt, ClosePeer, ClearSave, OfferAnswer
  <2>2. QED BY <2>1, AnsweredInv
<1>13. QED BY <1>1, <1>2, <1>3, <1>4, <1>5, <1>6, <1>7, <1>8, <1>9, <1>10, <1>11, <1>12
           DEF Step

\* Requests arrive with nothing chosen, and touch their own task only.
LEMMA BeginKeeps ==
    ASSUME TypeOK, EditInv, NEW p \in Tasks, NEW op \in Ops, NEW j \in Job,
           NEW l \in {"idle", "codec", "settings", "browser", "wipe", "answer"},
           l \in {"settings", "browser"} => ~Locked(op), Begin(p, op, l, j),
           update' = update, revision' = revision
    PROVE  EditInv'
<1>1. TaskType
  BY DEF TypeOK
<1>2. /\ pc'[p] = l /\ job'[p] = [j EXCEPT !.op = op]
      /\ \A q \in Tasks \ {p} : pc'[q] = pc[q] /\ job'[q] = job[q]
  BY <1>1, Moved DEF Begin
<1>3. job'[p].op = op
  BY <1>2 DEF Job
<1>4. TaskInv(p)'
  BY <1>2, <1>3 DEF TaskInv, Chosen, Applying
<1>5. ASSUME NEW q \in Tasks, q # p PROVE TaskInv(q)'
  BY <1>2, <1>5 DEF EditInv, TaskInv
<1>6. QED BY <1>4, <1>5 DEF EditInv

\* A start forgets every task.
LEMMA BootClears ==
    ASSUME NEW f, Boot(f)
    PROVE  EditInv'
<1>1. \A q \in Tasks : pc'[q] = "idle"
  BY DEF Boot
<1>2. QED BY <1>1, AnsweredInv DEF EditInv

\* What the tasks rely on is preserved by every step of the program.
LEMMA EditInvStep ==
    ASSUME TypeOK, EditInv, [Next]_vars
    PROVE  EditInv'
<1> USE ConstantsAssumption
<1>0. TaskType /\ NoJob \in Job /\ "ui" \in Tasks /\ Procs \subseteq Tasks
  BY Defaults DEF TypeOK, Tasks
<1>1. ASSUME NEW p \in Procs, Request(p) PROVE EditInv'
  <2>0. update' = update /\ revision' = revision /\ p \in Tasks
    BY <1>0, <1>1 DEF Request, SetVideoSettings, SetBrowserVideoCapabilities, VideoPresented,
                      RecordVideoBenchmark, ClearVideoBenchmarks, Offer, authorityVars
  <2>1. ASSUME NEW s \in Configs, SetVideoSettings(p, s) PROVE EditInv'
    <3>1. [NoJob EXCEPT !.s = s, !.base = revision] \in Job
      BY <1>0, JobUpdates DEF TypeOK, AuthorityType
    <3>2. QED BY <2>0, <2>1, <3>1, BeginKeeps DEF SetVideoSettings, Ops
  <2>2. ASSUME NEW b \in Reports, SetBrowserVideoCapabilities(p, b) PROVE EditInv'
    <3>1. [NoJob EXCEPT !.b = b] \in Job
      BY <1>0, JobUpdates
    <3>2. QED BY <2>0, <2>2, <3>1, BeginKeeps DEF SetBrowserVideoCapabilities, Ops
  <2>3. ASSUME NEW c, VideoPresented(p, c) PROVE EditInv'
    BY <1>0, <2>0, <2>3, BeginKeeps DEF VideoPresented, Ops, Locked
  <2>4. ASSUME NEW m, NEW x, NEW n, RecordVideoBenchmark(p, m, x, n) PROVE EditInv'
    BY <1>0, <2>0, <2>4, BeginKeeps DEF RecordVideoBenchmark, Ops, Locked
  <2>5. ASSUME ClearVideoBenchmarks(p) PROVE EditInv'
    BY <1>0, <2>0, <2>5, BeginKeeps DEF ClearVideoBenchmarks, Ops
  <2>6. ASSUME Offer(p) PROVE EditInv'
    <3>1. Codec[runtime] \in Codecs
      BY DEF TypeOK, CaptureType, Codec, Codecs
    <3>2. [NoJob EXCEPT !.prev = Codec[runtime]] \in Job
      BY <1>0, <3>1, JobUpdates
    <3>3. QED BY <2>0, <2>6, <3>2, BeginKeeps DEF Offer, Ops
  <2>7. QED BY <1>1, <2>1, <2>2, <2>3, <2>4, <2>5, <2>6 DEF Request
<1>2. ASSUME NEW p \in Tasks, Step(p) PROVE EditInv'
  <2>1. TaskInv(p)'
    BY <1>2, OwnKeeps
  <2>2. ASSUME NEW q \in Tasks, q # p PROVE TaskInv(q)'
    <3>1. /\ pc'[q] = pc[q] /\ job'[q] = job[q]
          /\ update = q => update' = q /\ revision' = revision
      BY <1>2, <2>2, OthersKeep
    <3>2. QED BY <3>1 DEF EditInv, TaskInv
  <2>3. QED BY <2>1, <2>2 DEF EditInv
<1>3. ASSUME NEW s \in Configs, ApplyFromHost(s) PROVE EditInv'
  <2>1. [NoJob EXCEPT !.s = s] \in Job
    BY <1>0, JobUpdates
  <2>2. QED BY <1>0, <1>3, <2>1, BeginKeeps DEF ApplyFromHost, Ops, authorityVars
<1>4. ASSUME HostChangeMonitor \/ HostSave \/ HostReport \/ HostExit PROVE EditInv'
  <2>1. /\ job' = job /\ update' = update /\ revision' = revision
        /\ \E l \in {"saving", "idle", "exit"} : Goto("ui", l)
    BY <1>4 DEF HostChangeMonitor, HostSave, HostReport, HostExit, authorityVars
  <2>2. /\ pc'["ui"] \in {"saving", "idle", "exit"}
        /\ \A q \in Tasks \ {"ui"} : pc'[q] = pc[q]
    BY <1>0, <2>1, Moved
  <2>3. TaskInv("ui")'
    BY <2>2 DEF TaskInv, Chosen, Applying
  <2>4. ASSUME NEW q \in Tasks, q # "ui" PROVE TaskInv(q)'
    BY <2>1, <2>2, <2>4 DEF EditInv, TaskInv
  <2>5. QED BY <2>3, <2>4 DEF EditInv
<1>5. ASSUME \/ HostSync \/ HostBenchmark \/ UNCHANGED vars
             \/ \E s \in Configs : HostDraft(s)
      PROVE EditInv'
  <2>1. pc' = pc /\ job' = job /\ update' = update /\ revision' = revision
    BY <1>5 DEF HostSync, HostBenchmark, HostDraft, vars, authorityVars
  <2>2. QED BY <2>1 DEF EditInv, TaskInv
<1>6. ASSUME Restart \/ Crash PROVE EditInv'
  BY <1>6, BootClears DEF Restart, Crash
<1>7. QED BY <1>1, <1>2, <1>3, <1>4, <1>5, <1>6 DEF Next, Host

\* Along every behaviour an edit that is being applied holds video_update and
\* builds on the current revision, and the mode a task chose fits its settings.
THEOREM EditsHoldLock == Spec => []EditInv
<1>1. Init => EditInv
  BY DEF Init, EditInv, TaskInv, Chosen, Applying
<1>2. TypeOK /\ EditInv /\ [Next]_vars => EditInv'
  BY EditInvStep
<1>3. QED BY <1>1, <1>2, TypeCorrect, PTL DEF Spec

\* No edit is lost: however many requests pass their first look at the revision,
\* the settings a request replaces are the ones its author had seen.
THEOREM EditsStayCurrent == Spec => EditsBuildOnCurrent
<1>1. EditInv /\ [Next]_vars =>
         [\A p \in Procs :
             pc[p] = "adopt" /\ job[p].op = "set" /\ revision' = revision + 1
             /\ pc'[p] # "adopt" => job[p].base = revision]_vars
  BY DEF EditInv, TaskInv, Applying, Locked, Tasks
<1>2. QED BY <1>1, EditsHoldLock, PTL DEF Spec, EditsBuildOnCurrent

\* What the encoder is told is a usable mode and, for a manual choice, that
\* choice, whatever overlaps, falls back or is rolled back.
THEOREM PipelineStaysCoherent == Spec => []PipelineCoherent
<1>1. Init => PipelineCoherent
  BY DEF Init, PipelineCoherent
<1>2. TypeOK /\ EditInv /\ PipelineCoherent /\ [Next]_vars => PipelineCoherent'
  <2> SUFFICES ASSUME TypeOK, EditInv, PipelineCoherent, [Next]_vars
               PROVE  PipelineCoherent'
    OBVIOUS
  <2>1. ASSUME NEW p \in Tasks, StorePipeline(p) PROVE PipelineCoherent'
    <3>1. job[p].mode \in Usable /\ job[p].s.encoder \in {"Auto", job[p].mode}
      BY <2>1 DEF StorePipeline, EditInv, TaskInv, Chosen
    <3>2. pipeline' = [video |-> job[p].s, mode |-> job[p].mode]
      BY <2>1 DEF StorePipeline
    <3>3. QED BY <3>1, <3>2 DEF PipelineCoherent
  <2>2. ASSUME Restart \/ Crash PROVE PipelineCoherent'
    BY <2>2 DEF Restart, Crash, Boot, PipelineCoherent
  <2>3. ASSUME NEW p \in Tasks, Step(p), ~StorePipeline(p)
        PROVE pipeline' = pipeline /\ booted' = booted
    <3>1. CASE \/ ReadCodec(p) \/ ReadSettings(p) \/ ReadBrowser(p) \/ LockUpdate(p)
               \/ Select(p) \/ Compare(p) \/ Preflight(p) \/ StoreVideo(p)
      BY <3>1 DEF ReadCodec, ReadSettings, ReadBrowser, LockUpdate, Select, Compare,
                  Preflight, StoreVideo, captureVars
    <3>2. CASE \/ StoreRuntime(p) \/ RestartCapture(p) \/ Unchanged(p) \/ Finish(p)
               \/ Save(p) \/ Adopt(p) \/ ClosePeer(p) \/ ClearSave(p) \/ OfferAnswer(p)
      BY <3>2 DEF StoreRuntime, RestartCapture, Unchanged, Finish, Save, Adopt, ClosePeer,
                  ClearSave, OfferAnswer, captureVars
    <3>3. QED BY <2>3, <3>1, <3>2 DEF Step
  <2>4. ASSUME \/ \E p \in Procs : Request(p)
               \/ Host \/ UNCHANGED vars
        PROVE pipeline' = pipeline /\ booted' = booted
    <3>1. CASE \E p \in Procs : Request(p)
      BY <3>1 DEF Request, SetVideoSettings, SetBrowserVideoCapabilities, VideoPresented,
                  RecordVideoBenchmark, ClearVideoBenchmarks, Offer, captureVars
    <3>2. CASE Host
      BY <3>2 DEF Host, ApplyFromHost, HostDraft, HostSync, HostChangeMonitor, HostSave,
                  HostBenchmark, HostReport, HostExit, captureVars
    <3>3. QED BY <2>4, <3>1, <3>2 DEF vars, captureVars
  <2>5. QED BY <2>1, <2>2, <2>3, <2>4 DEF Next, PipelineCoherent
<1>3. QED BY <1>1, <1>2, TypeCorrect, EditsHoldLock, PTL DEF Spec

\* An edit that is saved and not yet adopted.
Adopting(p) == pc[p] = "adopt" /\ Locked(job[p].op)

\* config.toml is ahead of the authority by the edit that is being adopted, if any.
FileInv ==
    odd \cap {"draft", "broken"} = {} =>
        /\ \A p \in Tasks : Adopting(p) => file = job[p].s
        /\ (\A p \in Tasks : ~Adopting(p)) => file = settings

\* Steps that neither save nor adopt an edit.
LEMMA FileQuiet ==
    ASSUME FileInv, NEW p \in Tasks, ~Adopting(p), ~Adopting(p)', odd \subseteq odd',
           file' = file, settings' = settings,
           \A q \in Tasks \ {p} : pc'[q] = pc[q] /\ job'[q] = job[q]
    PROVE  FileInv'
<1>1. \A q \in Tasks : Adopting(q)' <=> Adopting(q)
  BY DEF Adopting
<1>2. \A q \in Tasks : Adopting(q)' => job'[q] = job[q]
  OBVIOUS
<1>3. QED BY <1>1, <1>2 DEF FileInv

\* Every step of a task keeps FileInv.
LEMMA FileStep ==
    ASSUME TypeOK, EditInv, FileInv, NEW p \in Tasks, Step(p)
    PROVE  FileInv'
<1>0. /\ TaskType /\ job[p] \in Job /\ TaskInv(p)
      /\ \A q \in Tasks \ {p} : pc'[q] = pc[q] /\ job'[q] = job[q]
  BY OthersKeep DEF TypeOK, TaskType, EditInv
<1>1. ASSUME Locked(job[p].op), pc[p] \in Applying, NEW q \in Tasks, q # p
      PROVE  ~Adopting(q) /\ ~Adopting(q)'
  BY <1>0, <1>1 DEF EditInv, TaskInv, Adopting, Applying
<1>2. CASE Save(p)
  <2>1. Locked(job[p].op) /\ pc[p] = "save" /\ pc[p] \in Applying /\ ~Adopting(p)
    BY <1>0, <1>2 DEF Save, TaskInv, Applying, Adopting
  <2>2. \A q \in Tasks : ~Adopting(q)
    BY <1>1, <2>1
  <2>3. CASE file' = job[p].s /\ Goto(p, "adopt") /\ UNCHANGED <<job, odd>>
    <3>1. pc'[p] = "adopt" /\ Adopting(p)'
      BY <1>0, <2>1, <2>3, Moved DEF Adopting
    <3>2. QED BY <1>1, <2>1, <2>3, <3>1 DEF FileInv
  <2>4. CASE /\ file' \in {file, None} /\ Note(IF file' = None THEN {"broken"} ELSE {})
             /\ Goto(p, "select")
    <3>1. ~Adopting(p)' /\ settings' = settings
      BY <1>0, <1>2, <2>4, Moved DEF Adopting, Save, authorityVars
    <3>2. CASE file' = None
      BY <2>4, <3>2 DEF FileInv, Note
    <3>3. CASE file' # None
      BY <1>0, <2>1, <2>4, <3>1, <3>3, FileQuiet DEF Note
    <3>4. QED BY <3>2, <3>3
  <2>5. QED BY <1>2, <2>3, <2>4 DEF Save
<1>3. CASE Adopt(p)
  <2>1. file' = file /\ odd' = odd /\ pc[p] = "adopt"
    BY <1>3 DEF Adopt, hostVars
  <2>2. ~Adopting(p)'
    <3>1. (\E ok \in BOOLEAN : Leave(p, ok)) \/ Goto(p, "close")
      BY <1>3 DEF Adopt
    <3>2. pc'[p] # "adopt"
      BY <1>0, <3>1, Moved
    <3>3. QED BY <3>2 DEF Adopting
  <2>3. CASE Locked(job[p].op)
    <3>1. settings' = job[p].s
      BY <1>3, <2>3 DEF Adopt, Locked
    <3>2. \A q \in Tasks : ~Adopting(q)'
      BY <1>1, <2>1, <2>2, <2>3 DEF Applying
    <3>3. odd \cap {"draft", "broken"} = {} => file = job[p].s
      BY <2>1, <2>3 DEF FileInv, Adopting
    <3>4. QED BY <2>1, <3>1, <3>2, <3>3 DEF FileInv
  <2>4. CASE ~Locked(job[p].op)
    <3>1. settings' = settings /\ ~Adopting(p)
      BY <1>3, <2>4 DEF Adopt, Adopting
    <3>2. QED BY <1>0, <2>1, <2>2, <3>1, FileQuiet
  <2>5. QED BY <2>3, <2>4
<1>4. CASE Unchanged(p) \/ Finish(p)
  <2>1. /\ Returned(p, Codec[runtime]) /\ pc[p] # "adopt"
        /\ file' = file /\ settings' = settings /\ odd \subseteq odd'
    BY <1>4 DEF Unchanged, Finish, hostVars, Returned, Note
  <2>2. CASE \E ok \in BOOLEAN : Leave(p, ok)
    BY <1>0, <2>1, <2>2, Moved, FileQuiet DEF Adopting
  <2>3. CASE Goto(p, "close") \/ Goto(p, "save")
    BY <1>0, <2>1, <2>3, Moved, FileQuiet DEF Adopting
  <2>4. CASE job[p].op = "caps" /\ Set(p, [job[p] EXCEPT !.got = Codec[runtime]])
    <3>1. job'[p] = [job[p] EXCEPT !.got = Codec[runtime]]
      BY <1>0, <2>4, Moved
    <3>2. job'[p].op = "caps"
      BY <1>0, <2>4, <3>1 DEF Job
    <3>3. QED BY <1>0, <2>1, <3>2, FileQuiet DEF Adopting, Locked
  <2>5. QED BY <2>1, <2>2, <2>3, <2>4 DEF Returned
<1>5. CASE \/ ReadCodec(p) \/ ReadSettings(p) \/ ReadBrowser(p) \/ LockUpdate(p)
           \/ Select(p) \/ Compare(p)
  <2>1. /\ pc[p] # "adopt" /\ file' = file /\ settings' = settings /\ odd \subseteq odd'
    BY <1>5 DEF ReadCodec, ReadSettings, ReadBrowser, LockUpdate, Select, Compare, Fails,
                Note, hostVars, authorityVars
  <2>2. pc'[p] # "adopt"
    <3>1. \/ \E ok \in BOOLEAN : Leave(p, ok)
          \/ \E l \in Pcs \ {"adopt"} : Goto(p, l)
      BY <1>5 DEF ReadCodec, ReadSettings, ReadBrowser, LockUpdate, Select, Compare, Fails,
                  Pcs
    <3>2. QED BY <1>0, <3>1, Moved
  <2>3. QED BY <1>0, <2>1, <2>2, FileQuiet DEF Adopting
<1>6. CASE \/ Preflight(p) \/ StoreVideo(p) \/ StorePipeline(p) \/ StoreRuntime(p)
           \/ RestartCapture(p) \/ ClosePeer(p) \/ ClearSave(p) \/ OfferAnswer(p)
  <2>1. /\ pc[p] # "adopt" /\ file' = file /\ settings' = settings /\ odd \subseteq odd'
    BY <1>6 DEF Preflight, StoreVideo, StorePipeline, StoreRuntime, RestartCapture,
                ClosePeer, ClearSave, OfferAnswer, Fails, Note, hostVars, authorityVars
  <2>2. pc'[p] # "adopt"
    <3>1. \/ \E ok \in BOOLEAN : Leave(p, ok)
          \/ \E l \in Pcs \ {"adopt"} : Goto(p, l)
      BY <1>6 DEF Preflight, StoreVideo, StorePipeline, StoreRuntime, RestartCapture,
                  ClosePeer, ClearSave, OfferAnswer, Fails, Pcs
    <3>2. QED BY <1>0, <3>1, Moved
  <2>3. QED BY <1>0, <2>1, <2>2, FileQuiet DEF Adopting
<1>7. QED BY <1>2, <1>3, <1>4, <1>5, <1>6 DEF Step

\* A start reads the file it finds, or notices that it cannot.
LEMMA FileBoot ==
    ASSUME NEW f, Boot(f)
    PROVE  FileInv'
  BY DEF Boot, FileInv, Adopting

\* At rest config.toml holds the accepted settings, whatever failed, was rolled
\* back or crashed, unless the user interface saved a copy that differed or a
\* write left a file that cannot be read.
THEOREM FileStaysCurrent == Spec => []FileFollowsAuthority
<1> USE ConstantsAssumption
<1>1. Init => FileInv
  BY DEF Init, FileInv, Adopting
<1>2. TypeOK /\ EditInv /\ FileInv /\ [Next]_vars => FileInv'
  <2> SUFFICES ASSUME TypeOK, EditInv, FileInv, [Next]_vars PROVE FileInv'
    OBVIOUS
  <2>0. TaskType /\ "ui" \in Tasks /\ Procs \subseteq Tasks
    BY DEF TypeOK, Tasks
  <2>1. ASSUME NEW p \in Tasks, NEW op, NEW j,
               NEW l \in {"idle", "codec", "settings", "browser", "wipe", "answer"},
               Begin(p, op, l, j), file' = file, settings' = settings
        PROVE  FileInv'
    <3>1. /\ pc[p] # "adopt" /\ pc'[p] # "adopt" /\ odd \subseteq odd'
          /\ \A q \in Tasks \ {p} : pc'[q] = pc[q] /\ job'[q] = job[q]
      BY <2>0, <2>1, Moved DEF Begin, Note
    <3>2. QED BY <2>1, <3>1, FileQuiet DEF Adopting
  <2>2. ASSUME NEW p \in Procs, Request(p) PROVE FileInv'
    <3>1. /\ file' = file /\ settings' = settings
          /\ \E op, j : \E l \in {"idle", "codec", "settings", "browser", "wipe", "answer"} :
                Begin(p, op, l, j)
      BY <2>2 DEF Request, SetVideoSettings, SetBrowserVideoCapabilities, VideoPresented,
                  RecordVideoBenchmark, ClearVideoBenchmarks, Offer, authorityVars, hostVars
    <3>2. QED BY <2>0, <2>1, <3>1
  <2>3. ASSUME NEW s \in Configs, ApplyFromHost(s) PROVE FileInv'
    BY <2>0, <2>1, <2>3 DEF ApplyFromHost, authorityVars
  <2>4. ASSUME HostSave PROVE FileInv'
    <3>1. /\ pc["ui"] # "adopt" /\ pc'["ui"] # "adopt" /\ odd \subseteq odd'
          /\ job' = job /\ settings' = settings
          /\ \A q \in Tasks \ {"ui"} : pc'[q] = pc[q]
      BY <2>0, <2>4, Moved DEF HostSave, Note, authorityVars
    <3>2. file' = file \/ "draft" \in odd' \/ "broken" \in odd'
      BY <2>4 DEF HostSave, Note
    <3>3. CASE file' = file
      BY <2>0, <3>1, <3>3, FileQuiet DEF Adopting
    <3>4. QED BY <3>2, <3>3 DEF FileInv
  <2>5. ASSUME HostChangeMonitor \/ HostReport \/ HostExit PROVE FileInv'
    <3>1. /\ pc["ui"] # "adopt" /\ pc'["ui"] # "adopt" /\ odd' = odd
          /\ job' = job /\ settings' = settings /\ file' = file
          /\ \A q \in Tasks \ {"ui"} : pc'[q] = pc[q]
      BY <2>0, <2>5, Moved DEF HostChangeMonitor, HostReport, HostExit, authorityVars,
                               hostVars, boundVars
    <3>2. QED BY <2>0, <3>1, FileQuiet DEF Adopting
  <2>6. ASSUME \/ HostSync \/ HostBenchmark \/ UNCHANGED vars
               \/ \E s \in Configs : HostDraft(s)
        PROVE FileInv'
    <3>1. pc' = pc /\ job' = job /\ file' = file /\ settings' = settings /\ odd' = odd
      BY <2>6 DEF HostSync, HostBenchmark, HostDraft, vars, authorityVars, hostVars
    <3>2. QED BY <3>1 DEF FileInv, Adopting
  <2>7. ASSUME Restart \/ Crash PROVE FileInv'
    BY <2>7, FileBoot DEF Restart, Crash
  <2>8. QED BY <2>2, <2>3, <2>4, <2>5, <2>6, <2>7, FileStep DEF Next, Host
<1>3. FileInv => FileFollowsAuthority
  BY DEF FileInv, FileFollowsAuthority, AtRest, Adopting
<1>4. QED BY <1>1, <1>2, <1>3, TypeCorrect, EditsHoldLock, PTL DEF Spec

-----------------------------------------------------------------------------
(* The pipeline, the authority and the peer                                 *)

\* The requests that apply settings without video_update, and the steps at which a
\* task neither applies anything nor is about to.
Free  == {"caps", "presented", "bench"}
Aside == {"idle", "saving", "exit"}

\* The steps at which nothing has been stored yet.
Before == {"select", "compare", "preflight", "store"}

\* Which request is at which step, and that only an edit that could not be saved is
\* rolling back.
PathTask(p) ==
    /\ pc[p] \in {"codec", "lock", "settings", "browser"} => ~job[p].back
    /\ pc[p] = "lock" => Locked(job[p].op)
    /\ pc[p] = "codec" => Locked(job[p].op) \/ job[p].op \in {"caps", "bench"}
    /\ pc[p] = "settings" => job[p].op \in Free
    /\ pc[p] = "browser" => job[p].op \in {"presented", "bench"}
    /\ pc[p] \in Applying => Locked(job[p].op) \/ job[p].op \in Free

PathInv == \A p \in Tasks : PathTask(p)

\* Requests without video_update run by themselves; with no overlap at all, every
\* request does.
MeetInv ==
    /\ "crossed" \notin odd =>
          \A p, q \in Tasks : p # q /\ pc[p] \notin Aside /\ job[p].op \in Free => pc[q] \in Aside
    /\ "stale" \notin odd =>
          \A p, q \in Tasks : p # q => pc[p] \in Aside \/ pc[q] \in Aside

\* The capture manager's copies agree with each other, and with the authority.
Coherent ==
    pipeline.video = video /\ pipeline.mode = runtime /\ grab \in {None, video.cursor}
Calm == Coherent /\ video = settings

\* How far a task has carried its settings.
RunTask(p) ==
    /\ pc[p] \in {"codec", "browser"} /\ job[p].op = "bench" => job[p].s = settings
    /\ pc[p] \in Applying =>
          /\ job[p].op \in Free \/ job[p].back => job[p].s = settings
          /\ Locked(job[p].op) => job[p].old = settings
    /\ pc[p] \in Before => Coherent /\ (~job[p].back => video = settings)
    /\ pc[p] \in {"same", "save", "adopt"} => Coherent /\ video = job[p].s
    /\ pc[p] \in {"pipeline", "runtime", "restart", "finish"} => video = job[p].s
    /\ pc[p] \in {"pipeline", "runtime"} => job[p].cursor \/ grab \in {None, video.cursor}
    /\ pc[p] \in {"runtime", "restart", "finish"} =>
          pipeline.video = job[p].s /\ pipeline.mode = job[p].mode
    /\ pc[p] \in {"restart", "finish"} => runtime = job[p].mode
    /\ pc[p] = "finish" => grab \in {None, video.cursor}

\* While nothing exceptional happened: all copies agree when nobody applies settings.
RunInv ==
    odd \cap {"crossed", "failed"} = {} =>
        /\ (\A p \in Tasks : pc[p] \notin Applying) => Calm
        /\ \A p \in Tasks : RunTask(p)

\* A task that has read the codec, and one that may have changed it since.
Read(p) ==
    \/ pc[p] = "answer"
    \/ pc[p] \in Applying \cup {"lock"} /\ Locked(job[p].op)
    \/ pc[p] \in Applying \cup {"settings"} /\ job[p].op = "caps"
    \/ pc[p] \in Applying \cup {"browser"} /\ job[p].op = "bench"
Late(p) ==
    \/ pc[p] = "close"
    \/ pc[p] \in {"restart", "finish", "save", "adopt"} /\ job[p].op # "presented"
    \/ pc[p] \in Applying /\ job[p].back

\* What a task knows of the peer.
PeerTask(p) ==
    /\ Late(p) /\ pc[p] # "close" => peer \in {None, job[p].prev}
    /\ Read(p) /\ ~Late(p) => job[p].prev = Codec[runtime]
    /\ pc[p] \in {"save", "adopt"} => job[p].got = Codec[runtime]

\* The retained peer has the codec that is encoded, or the task that changed the
\* codec will close it.
PeerInv ==
    odd \cap {"crossed", "stale", "failed", "silent"} = {} =>
        /\ (\A p \in Tasks : ~Late(p)) => peer \in {None, Codec[runtime]}
        /\ \A p \in Tasks : PeerTask(p)

\* What an assignment to a local of a task does to the locals that matter here.
LEMMA Assigned ==
    ASSUME TaskType, NEW p \in Tasks
    PROVE  /\ \A x : Set(p, [job[p] EXCEPT !.prev = x]) =>
                 /\ job'[p].prev = x /\ job'[p].op = job[p].op /\ job'[p].s = job[p].s
                 /\ job'[p].back = job[p].back
           /\ \A x : Set(p, [job[p] EXCEPT !.s = x]) =>
                 /\ job'[p].s = x /\ job'[p].op = job[p].op /\ job'[p].prev = job[p].prev
                 /\ job'[p].back = job[p].back
           /\ \A x : Set(p, [job[p] EXCEPT !.b = x]) =>
                 /\ job'[p].s = job[p].s /\ job'[p].op = job[p].op
                 /\ job'[p].prev = job[p].prev /\ job'[p].back = job[p].back
           /\ \A x, y : Set(p, [job[p] EXCEPT !.old = x, !.b = y]) =>
                 /\ job'[p].old = x /\ job'[p].s = job[p].s /\ job'[p].op = job[p].op
                 /\ job'[p].prev = job[p].prev /\ job'[p].back = job[p].back
           /\ \A x : Set(p, [job[p] EXCEPT !.mode = x]) =>
                 /\ job'[p].old = job[p].old /\ job'[p].s = job[p].s
                 /\ job'[p].op = job[p].op /\ job'[p].prev = job[p].prev
                 /\ job'[p].back = job[p].back
           /\ \A x : Set(p, [job[p] EXCEPT !.cursor = x]) =>
                 /\ job'[p].cursor = x /\ job'[p].mode = job[p].mode
                 /\ job'[p].old = job[p].old /\ job'[p].s = job[p].s
                 /\ job'[p].op = job[p].op /\ job'[p].prev = job[p].prev
                 /\ job'[p].back = job[p].back
           /\ \A x : Set(p, [job[p] EXCEPT !.got = x]) =>
                 /\ job'[p].got = x /\ job'[p].old = job[p].old /\ job'[p].s = job[p].s
                 /\ job'[p].op = job[p].op /\ job'[p].prev = job[p].prev
                 /\ job'[p].back = job[p].back
           /\ \A x : Set(p, [job[p] EXCEPT !.s = x, !.back = TRUE]) =>
                 /\ job'[p].s = x /\ job'[p].back = TRUE /\ job'[p].old = job[p].old
                 /\ job'[p].op = job[p].op /\ job'[p].prev = job[p].prev
<1>0. job[p] \in Job /\ \A j : Set(p, j) => job'[p] = j
  BY Moved DEF TaskType
<1>1. \A x : Set(p, [job[p] EXCEPT !.prev = x]) =>
         /\ job'[p].prev = x /\ job'[p].op = job[p].op /\ job'[p].s = job[p].s
         /\ job'[p].back = job[p].back
  BY <1>0 DEF Job
<1>2. \A x : Set(p, [job[p] EXCEPT !.s = x]) =>
         /\ job'[p].s = x /\ job'[p].op = job[p].op /\ job'[p].prev = job[p].prev
         /\ job'[p].back = job[p].back
  BY <1>0 DEF Job
<1>3. \A x : Set(p, [job[p] EXCEPT !.b = x]) =>
         /\ job'[p].s = job[p].s /\ job'[p].op = job[p].op
         /\ job'[p].prev = job[p].prev /\ job'[p].back = job[p].back
  BY <1>0 DEF Job
<1>4. \A x, y : Set(p, [job[p] EXCEPT !.old = x, !.b = y]) =>
         /\ job'[p].old = x /\ job'[p].s = job[p].s /\ job'[p].op = job[p].op
         /\ job'[p].prev = job[p].prev /\ job'[p].back = job[p].back
  BY <1>0 DEF Job
<1>5. \A x : Set(p, [job[p] EXCEPT !.mode = x]) =>
         /\ job'[p].old = job[p].old /\ job'[p].s = job[p].s
         /\ job'[p].op = job[p].op /\ job'[p].prev = job[p].prev
         /\ job'[p].back = job[p].back
  BY <1>0 DEF Job
<1>6. \A x : Set(p, [job[p] EXCEPT !.cursor = x]) =>
         /\ job'[p].cursor = x /\ job'[p].mode = job[p].mode
         /\ job'[p].old = job[p].old /\ job'[p].s = job[p].s
         /\ job'[p].op = job[p].op /\ job'[p].prev = job[p].prev
         /\ job'[p].back = job[p].back
  BY <1>0 DEF Job
<1>7. \A x : Set(p, [job[p] EXCEPT !.got = x]) =>
         /\ job'[p].got = x /\ job'[p].old = job[p].old /\ job'[p].s = job[p].s
         /\ job'[p].op = job[p].op /\ job'[p].prev = job[p].prev
         /\ job'[p].back = job[p].back
  BY <1>0 DEF Job
<1>8. \A x : Set(p, [job[p] EXCEPT !.s = x, !.back = TRUE]) =>
         /\ job'[p].s = x /\ job'[p].back = TRUE /\ job'[p].old = job[p].old
         /\ job'[p].op = job[p].op /\ job'[p].prev = job[p].prev
  BY <1>0 DEF Job
<1>9. QED BY <1>1, <1>2, <1>3, <1>4, <1>5, <1>6, <1>7, <1>8

\* A task that answers has nothing left to do, and its locals are forgotten.
LEMMA Answers ==
    ASSUME TaskType, NEW p \in Tasks, NEW ok, Leave(p, ok)
    PROVE  pc'[p] \in {"idle", "shown", "rejected"} /\ job'[p] = NoJob
  BY Moved DEF Leave

\* A step of apply_video_settings ends with an answer or goes on.
LEMMA Returns ==
    ASSUME TaskType, NEW p \in Tasks, NEW got, Returned(p, got)
    PROVE  /\ odd \subseteq odd'
           /\ job[p].back /\ got # job[p].prev => "silent" \in odd'
           /\ \/ /\ \/ Locked(job[p].op) /\ job[p].back
                    \/ job[p].op = "presented"
                    \/ job[p].op = "bench" /\ got = job[p].prev
                 /\ pc'[p] \in {"idle", "shown", "rejected"} /\ job'[p] = NoJob
              \/ /\ \/ Locked(job[p].op) /\ ~job[p].back /\ pc'[p] = "save"
                    \/ job[p].op = "caps" /\ pc'[p] = "adopt"
                 /\ job'[p].got = got /\ job'[p].old = job[p].old /\ job'[p].s = job[p].s
                 /\ job'[p].op = job[p].op /\ job'[p].prev = job[p].prev
                 /\ job'[p].back = job[p].back
              \/ job[p].op = "bench" /\ pc'[p] = "close" /\ job'[p] = job[p]
<1>1. /\ odd \subseteq odd'
      /\ job[p].back /\ got # job[p].prev => "silent" \in odd'
  BY DEF Returned, Note
<1>2. CASE \/ Locked(job[p].op) /\ job[p].back /\ Leave(p, FALSE)
           \/ job[p].op = "presented" /\ Leave(p, TRUE)
           \/ job[p].op = "bench" /\ got = job[p].prev /\ Leave(p, TRUE)
  BY <1>1, <1>2, Answers
<1>3. CASE /\ Locked(job[p].op) /\ ~job[p].back
           /\ Set(p, [job[p] EXCEPT !.got = got]) /\ Goto(p, "save")
  <2>1. pc'[p] = "save"
    BY <1>3, Moved
  <2>2. /\ job'[p].got = got /\ job'[p].old = job[p].old /\ job'[p].s = job[p].s
        /\ job'[p].op = job[p].op /\ job'[p].prev = job[p].prev
        /\ job'[p].back = job[p].back
    BY <1>3, Assigned
  <2>3. QED BY <1>1, <1>3, <2>1, <2>2
<1>4. CASE /\ job[p].op = "caps"
           /\ Set(p, [job[p] EXCEPT !.got = got]) /\ Goto(p, "adopt")
  <2>1. pc'[p] = "adopt"
    BY <1>4, Moved
  <2>2. /\ job'[p].got = got /\ job'[p].old = job[p].old /\ job'[p].s = job[p].s
        /\ job'[p].op = job[p].op /\ job'[p].prev = job[p].prev
        /\ job'[p].back = job[p].back
    BY <1>4, Assigned
  <2>3. QED BY <1>1, <1>4, <2>1, <2>2
<1>5. CASE job[p].op = "bench" /\ Goto(p, "close") /\ UNCHANGED <<job, update>>
  BY <1>1, <1>5, Moved
<1>6. QED BY <1>2, <1>3, <1>4, <1>5 DEF Returned

\* Tasks that only prepare, or clean up, leave the settings and the capture manager.
LEMMA Outside ==
    ASSUME NEW p \in Tasks, Step(p), pc[p] \notin Applying
    PROVE  /\ \/ ReadCodec(p) \/ ReadSettings(p) \/ ReadBrowser(p) \/ LockUpdate(p)
              \/ ClosePeer(p) \/ ClearSave(p) \/ OfferAnswer(p)
           /\ settings' = settings /\ video' = video /\ pipeline' = pipeline
           /\ runtime' = runtime /\ grab' = grab /\ odd' = odd
<1>1. \/ ReadCodec(p) \/ ReadSettings(p) \/ ReadBrowser(p) \/ LockUpdate(p)
      \/ ClosePeer(p) \/ ClearSave(p) \/ OfferAnswer(p)
  BY DEF Step, Select, Compare, Unchanged, Preflight, StoreVideo, StorePipeline,
         StoreRuntime, RestartCapture, Finish, Save, Adopt, Applying, Chosen
<1>2. QED BY <1>1 DEF ReadCodec, ReadSettings, ReadBrowser, LockUpdate, ClosePeer, ClearSave,
                      OfferAnswer, authorityVars, captureVars

\* A task that takes a step is not aside, and goes on with the same request or ends it.
LEMMA Steps ==
    ASSUME TypeOK, NEW p \in Tasks, Step(p)
    PROVE  /\ pc[p] \notin Aside /\ odd \subseteq odd'
           /\ job'[p].op \in {job[p].op, "clear"}
<1>0. TaskType
  BY DEF TypeOK
<1>1. CASE pc[p] \notin Applying
  <2>1. pc[p] \notin Aside
    BY <1>1, Outside DEF ReadCodec, ReadSettings, ReadBrowser, LockUpdate, ClosePeer,
                         ClearSave, OfferAnswer, Aside
  <2>2. CASE \E ok \in BOOLEAN : Leave(p, ok)
    BY <1>0, <1>1, <2>1, <2>2, Outside, Answers DEF NoJob
  <2>3. CASE ~\E ok \in BOOLEAN : Leave(p, ok)
    <3>1. \/ Set(p, [job[p] EXCEPT !.prev = Codec[runtime]])
          \/ Set(p, [job[p] EXCEPT !.s = settings])
          \/ Set(p, [job[p] EXCEPT !.b = browser])
          \/ Set(p, [job[p] EXCEPT !.old = settings, !.b = browser])
      BY <1>1, <2>3, Outside DEF ReadCodec, ReadSettings, ReadBrowser, LockUpdate, ClosePeer,
                                 ClearSave, OfferAnswer
    <3>2. QED BY <1>0, <1>1, <2>1, <3>1, Outside, Assigned
  <2>4. QED BY <2>2, <2>3
<1>2. CASE pc[p] \in Applying
  <2>0. pc[p] \notin Aside
    BY <1>2 DEF Applying, Chosen, Aside
  <2>1. CASE Unchanged(p) \/ Finish(p)
    <3>1. Returned(p, Codec[runtime])
      BY <2>1 DEF Unchanged, Finish
    <3>2. QED BY <1>0, <2>0, <3>1, Returns DEF NoJob
  <2>2. CASE Select(p) \/ Preflight(p)
    <3>1. odd \subseteq odd'
      BY <2>2 DEF Select, Preflight, Fails, Note
    <3>2. \/ \E ok \in BOOLEAN : Leave(p, ok)
          \/ \E m : Set(p, [job[p] EXCEPT !.mode = m])
          \/ job' = job
      BY <2>2 DEF Select, Preflight, Fails
    <3>3. (\E ok \in BOOLEAN : Leave(p, ok)) => job'[p].op = "clear"
      BY <1>0, Answers DEF NoJob
    <3>4. (\E m : Set(p, [job[p] EXCEPT !.mode = m])) => job'[p].op = job[p].op
      BY <1>0, Assigned
    <3>5. QED BY <2>0, <3>1, <3>2, <3>3, <3>4
  <2>3. CASE \/ Compare(p) \/ StorePipeline(p) \/ StoreRuntime(p)
    BY <2>0, <2>3 DEF Compare, StorePipeline, StoreRuntime, Note
  <2>4. CASE StoreVideo(p)
    BY <1>0, <2>0, <2>4, Assigned DEF StoreVideo
  <2>5. CASE RestartCapture(p) \/ Adopt(p)
    <3>1. odd \subseteq odd'
      BY <2>5 DEF RestartCapture, Adopt, Fails, Note
    <3>2. (\E ok \in BOOLEAN : Leave(p, ok)) \/ job' = job
      BY <2>5 DEF RestartCapture, Adopt, Fails
    <3>3. QED BY <1>0, <2>0, <3>1, <3>2, Answers DEF NoJob
  <2>6. CASE Save(p)
    BY <1>0, <2>0, <2>6, Assigned DEF Save, Note
  <2>7. CASE \/ ReadCodec(p) \/ ReadSettings(p) \/ ReadBrowser(p) \/ LockUpdate(p)
             \/ ClosePeer(p) \/ ClearSave(p) \/ OfferAnswer(p)
    BY <1>2, <2>7 DEF ReadCodec, ReadSettings, ReadBrowser, LockUpdate, ClosePeer, ClearSave,
                      OfferAnswer, Applying, Chosen
  <2>8. QED BY <2>1, <2>2, <2>3, <2>4, <2>5, <2>6, <2>7 DEF Step
<1>3. QED BY <1>1, <1>2

\* Only one task at a time applies settings, unless one without video_update met
\* another request.
LEMMA Sole ==
    ASSUME TypeOK, EditInv, PathInv, MeetInv, "crossed" \notin odd,
           NEW p \in Tasks, NEW q \in Tasks, q # p, pc[p] \notin Aside,
           \/ pc[p] \in Applying
           \/ job[p].op \in Free
           \/ pc[p] = "lock" /\ update = None
    PROVE  pc[q] \notin Applying
<1> USE ConstantsAssumption
<1>0. p # None /\ q # None /\ \A x \in Applying : x \notin Aside
  BY DEF Applying, Chosen, Aside
<1>1. CASE job[p].op \in Free
  BY <1>0, <1>1 DEF MeetInv
<1>2. CASE pc[p] \in Applying /\ job[p].op \notin Free
  <2>1. update = p
    BY <1>2 DEF PathInv, PathTask, EditInv, TaskInv
  <2>2. ASSUME pc[q] \in Applying PROVE FALSE
    <3>1. job[q].op \in Free \/ update = q
      BY <2>2 DEF PathInv, PathTask, EditInv, TaskInv
    <3>2. QED BY <1>0, <1>2, <2>1, <2>2, <3>1 DEF MeetInv
  <2>3. QED BY <2>2
<1>3. CASE pc[p] = "lock" /\ update = None
  <2>1. ASSUME pc[q] \in Applying PROVE FALSE
    <3>1. job[q].op \in Free \/ update = q
      BY <2>1 DEF PathInv, PathTask, EditInv, TaskInv
    <3>2. QED BY <1>0, <1>3, <2>1, <3>1 DEF MeetInv
  <2>2. QED BY <2>1
<1>4. QED BY <1>1, <1>2, <1>3

\* What the other tasks rely on survives the step of a task.
LEMMA RunOthers ==
    ASSUME TypeOK, EditInv, PathInv, MeetInv, RunInv, NEW p \in Tasks, Step(p),
           odd' \cap {"crossed", "failed"} = {}, NEW q \in Tasks, q # p
    PROVE  RunTask(q)'
<1>1. pc'[q] = pc[q] /\ job'[q] = job[q]
  BY OthersKeep
<1>2. pc[p] \notin Aside /\ odd \cap {"crossed", "failed"} = {} /\ "crossed" \notin odd
  BY Steps
<1>3. CASE pc[p] \in Applying
  <2>1. pc[q] \notin Applying
    BY <1>2, <1>3, Sole
  <2>2. job[q].op = "bench" => pc[q] \in Aside
    BY <1>2 DEF MeetInv, Free
  <2>3. QED BY <1>1, <2>1, <2>2 DEF RunTask, Applying, Chosen, Before, Aside
<1>4. CASE pc[p] \notin Applying
  <2>1. /\ settings' = settings /\ video' = video /\ pipeline' = pipeline
        /\ runtime' = runtime /\ grab' = grab
    BY <1>4, Outside
  <2>2. RunTask(q)
    BY <1>2 DEF RunInv
  <2>3. QED BY <1>1, <2>1, <2>2 DEF RunTask, Coherent
<1>5. QED BY <1>3, <1>4

\* What the steps before apply_video_settings do, by action.
LEMMA Preparing ==
    ASSUME TypeOK, NEW p \in Tasks
    PROVE  /\ ReadCodec(p) =>
                 /\ pc[p] = "codec" /\ job'[p].prev = Codec[runtime] /\ job'[p].op = job[p].op
                 /\ job'[p].s = job[p].s /\ job'[p].back = job[p].back
                 /\ pc'[p] = IF Locked(job[p].op) THEN "lock"
                             ELSE IF job[p].op = "caps" THEN "settings" ELSE "browser"
           /\ ReadSettings(p) =>
                 /\ pc[p] = "settings"
                 /\ \/ pc'[p] \in {"idle", "shown", "rejected"} /\ job'[p] = NoJob
                    \/ /\ job'[p].s = settings /\ job'[p].op = job[p].op
                       /\ job'[p].prev = job[p].prev /\ job'[p].back = job[p].back
                       /\ pc'[p] = IF job[p].op = "bench" THEN "codec" ELSE "select"
           /\ ReadBrowser(p) =>
                 /\ pc[p] = "browser" /\ job'[p].op = job[p].op /\ job'[p].s = job[p].s
                 /\ job'[p].prev = job[p].prev /\ job'[p].back = job[p].back
                 /\ pc'[p] = IF job[p].op = "bench" THEN "select" ELSE "settings"
           /\ LockUpdate(p) =>
                 /\ pc[p] = "lock" /\ update = None
                 /\ \/ pc'[p] \in {"idle", "shown", "rejected"} /\ job'[p] = NoJob
                    \/ /\ pc'[p] = "select" /\ job'[p].old = settings
                       /\ job'[p].s = job[p].s /\ job'[p].op = job[p].op
                       /\ job'[p].prev = job[p].prev /\ job'[p].back = job[p].back
           /\ ClosePeer(p) \/ ClearSave(p) \/ OfferAnswer(p) =>
                 /\ pc[p] \in {"close", "wipe", "answer"}
                 /\ pc'[p] \in {"idle", "shown", "rejected"} /\ job'[p] = NoJob
<1>0. TaskType
  BY DEF TypeOK
<1>1. ASSUME ReadCodec(p)
      PROVE  /\ pc[p] = "codec" /\ job'[p].prev = Codec[runtime] /\ job'[p].op = job[p].op
             /\ job'[p].s = job[p].s /\ job'[p].back = job[p].back
             /\ pc'[p] = IF Locked(job[p].op) THEN "lock"
                         ELSE IF job[p].op = "caps" THEN "settings" ELSE "browser"
  <2>1. pc'[p] = IF Locked(job[p].op) THEN "lock"
                 ELSE IF job[p].op = "caps" THEN "settings" ELSE "browser"
    BY <1>0, <1>1, Moved DEF ReadCodec
  <2>2. QED BY <1>0, <1>1, <2>1, Assigned DEF ReadCodec
<1>2. ASSUME ReadSettings(p)
      PROVE  /\ pc[p] = "settings"
             /\ \/ pc'[p] \in {"idle", "shown", "rejected"} /\ job'[p] = NoJob
                \/ /\ job'[p].s = settings /\ job'[p].op = job[p].op
                   /\ job'[p].prev = job[p].prev /\ job'[p].back = job[p].back
                   /\ pc'[p] = IF job[p].op = "bench" THEN "codec" ELSE "select"
  <2>1. CASE Leave(p, TRUE)
    BY <1>0, <1>2, <2>1, Answers DEF ReadSettings
  <2>2. CASE ~Leave(p, TRUE)
    <3>1. pc'[p] = IF job[p].op = "bench" THEN "codec" ELSE "select"
      BY <1>0, <1>2, <2>2, Moved DEF ReadSettings
    <3>2. Set(p, [job[p] EXCEPT !.s = settings]) /\ pc[p] = "settings"
      BY <1>2, <2>2 DEF ReadSettings
    <3>3. QED BY <1>0, <3>1, <3>2, Assigned
  <2>3. QED BY <2>1, <2>2
<1>3. ASSUME ReadBrowser(p)
      PROVE  /\ pc[p] = "browser" /\ job'[p].op = job[p].op /\ job'[p].s = job[p].s
             /\ job'[p].prev = job[p].prev /\ job'[p].back = job[p].back
             /\ pc'[p] = IF job[p].op = "bench" THEN "select" ELSE "settings"
  <2>1. pc'[p] = IF job[p].op = "bench" THEN "select" ELSE "settings"
    BY <1>0, <1>3, Moved DEF ReadBrowser
  <2>2. QED BY <1>0, <1>3, <2>1, Assigned DEF ReadBrowser
<1>4. ASSUME LockUpdate(p)
      PROVE  /\ pc[p] = "lock" /\ update = None
             /\ \/ pc'[p] \in {"idle", "shown", "rejected"} /\ job'[p] = NoJob
                \/ /\ pc'[p] = "select" /\ job'[p].old = settings
                   /\ job'[p].s = job[p].s /\ job'[p].op = job[p].op
                   /\ job'[p].prev = job[p].prev /\ job'[p].back = job[p].back
  <2>1. CASE Leave(p, FALSE)
    BY <1>0, <1>4, <2>1, Answers DEF LockUpdate
  <2>2. CASE ~Leave(p, FALSE)
    <3>1. /\ Set(p, [job[p] EXCEPT !.old = settings, !.b = browser]) /\ Goto(p, "select")
          /\ pc[p] = "lock" /\ update = None
      BY <1>4, <2>2 DEF LockUpdate
    <3>2. pc'[p] = "select"
      BY <1>0, <3>1, Moved
    <3>3. QED BY <1>0, <3>1, <3>2, Assigned
  <2>3. QED BY <2>1, <2>2
<1>5. ASSUME ClosePeer(p) \/ ClearSave(p) \/ OfferAnswer(p)
      PROVE  /\ pc[p] \in {"close", "wipe", "answer"}
             /\ pc'[p] \in {"idle", "shown", "rejected"} /\ job'[p] = NoJob
  <2>1. Leave(p, TRUE) /\ pc[p] \in {"close", "wipe", "answer"}
    BY <1>5 DEF ClosePeer, ClearSave, OfferAnswer
  <2>2. QED BY <1>0, <2>1, Answers
<1>6. QED BY <1>1, <1>2, <1>3, <1>4, <1>5

\* What the steps of apply_video_settings do to the task, by action.  Only an error
\* of a rollback, or after a change, is recorded.
LEMMA Carrying ==
    ASSUME TypeOK, NEW p \in Tasks
    PROVE  /\ Select(p) \/ Preflight(p) =>
                 /\ pc[p] = "select" \/ pc[p] = "preflight"
                 /\ \/ /\ pc'[p] \in {"idle", "shown", "rejected"} /\ job'[p] = NoJob
                       /\ job[p].back => "failed" \in odd'
                    \/ /\ pc'[p] \in {"compare", "store"} /\ job'[p].old = job[p].old
                       /\ job'[p].s = job[p].s /\ job'[p].op = job[p].op
                       /\ job'[p].prev = job[p].prev /\ job'[p].back = job[p].back
           /\ Compare(p) =>
                 /\ pc[p] = "compare" /\ job' = job
                 /\ \/ pc'[p] = "same" /\ video = job[p].s
                    \/ pc'[p] = "preflight"
           /\ StoreVideo(p) =>
                 /\ pc[p] = "store" /\ pc'[p] = "pipeline"
                 /\ job'[p].cursor = (video.cursor # job[p].s.cursor)
                 /\ job'[p].mode = job[p].mode /\ job'[p].old = job[p].old
                 /\ job'[p].s = job[p].s /\ job'[p].op = job[p].op
                 /\ job'[p].prev = job[p].prev /\ job'[p].back = job[p].back
           /\ StorePipeline(p) => pc[p] = "pipeline" /\ pc'[p] = "runtime" /\ job' = job
           /\ StoreRuntime(p) =>
                 /\ pc[p] = "runtime" /\ job' = job
                 /\ pc'[p] = IF job[p].cursor THEN "restart" ELSE "finish"
           /\ RestartCapture(p) =>
                 /\ pc[p] = "restart"
                 /\ \/ "failed" \in odd' /\ pc'[p] \in {"idle", "shown", "rejected"}
                    \/ pc'[p] = "finish" /\ job' = job /\ grab' = video.cursor /\ odd' = odd
           /\ Unchanged(p) \/ Finish(p) =>
                 (pc[p] = "same" \/ pc[p] = "finish") /\ Returned(p, Codec[runtime])
<1>0. TaskType
  BY DEF TypeOK
<1>1. ASSUME Select(p) \/ Preflight(p)
      PROVE  /\ pc[p] = "select" \/ pc[p] = "preflight"
             /\ \/ /\ pc'[p] \in {"idle", "shown", "rejected"} /\ job'[p] = NoJob
                   /\ job[p].back => "failed" \in odd'
                \/ /\ pc'[p] \in {"compare", "store"} /\ job'[p].old = job[p].old
                   /\ job'[p].s = job[p].s /\ job'[p].op = job[p].op
                   /\ job'[p].prev = job[p].prev /\ job'[p].back = job[p].back
  <2>1. pc[p] = "select" \/ pc[p] = "preflight"
    BY <1>1 DEF Select, Preflight
  <2>2. CASE Fails(p, FALSE)
    <3>1. Leave(p, FALSE) /\ (job[p].back => "failed" \in odd')
      BY <2>2 DEF Fails, Note
    <3>2. QED BY <1>0, <2>1, <3>1, Answers
  <2>3. CASE ~Fails(p, FALSE)
    <3>1. Goto(p, "compare") \/ Goto(p, "store")
      BY <1>1, <2>3 DEF Select, Preflight
    <3>2. pc'[p] \in {"compare", "store"}
      BY <1>0, <3>1, Moved
    <3>3. job' = job \/ \E m : Set(p, [job[p] EXCEPT !.mode = m])
      BY <1>1, <2>3 DEF Select, Preflight
    <3>4. CASE job' = job
      BY <2>1, <3>2, <3>4
    <3>5. CASE \E m : Set(p, [job[p] EXCEPT !.mode = m])
      <4>1. PICK m : Set(p, [job[p] EXCEPT !.mode = m])
        BY <3>5
      <4>2. /\ job'[p].old = job[p].old /\ job'[p].s = job[p].s /\ job'[p].op = job[p].op
            /\ job'[p].prev = job[p].prev /\ job'[p].back = job[p].back
        BY <1>0, <4>1, Assigned
      <4>3. QED BY <2>1, <3>2, <4>2
    <3>6. QED BY <3>3, <3>4, <3>5
  <2>4. QED BY <2>2, <2>3
<1>2. ASSUME Compare(p)
      PROVE  /\ pc[p] = "compare" /\ job' = job
             /\ \/ pc'[p] = "same" /\ video = job[p].s
                \/ pc'[p] = "preflight"
  BY <1>0, <1>2, Moved DEF Compare
<1>3. ASSUME StoreVideo(p)
      PROVE  /\ pc[p] = "store" /\ pc'[p] = "pipeline"
             /\ job'[p].cursor = (video.cursor # job[p].s.cursor)
             /\ job'[p].mode = job[p].mode /\ job'[p].old = job[p].old
             /\ job'[p].s = job[p].s /\ job'[p].op = job[p].op
             /\ job'[p].prev = job[p].prev /\ job'[p].back = job[p].back
  <2>1. /\ Set(p, [job[p] EXCEPT !.cursor = (video.cursor # job[p].s.cursor)])
        /\ pc[p] = "store" /\ pc'[p] = "pipeline"
    BY <1>0, <1>3, Moved DEF StoreVideo
  <2>2. QED BY <1>0, <2>1, Assigned
<1>4. ASSUME StorePipeline(p) PROVE pc[p] = "pipeline" /\ pc'[p] = "runtime" /\ job' = job
  BY <1>0, <1>4, Moved DEF StorePipeline
<1>5. ASSUME StoreRuntime(p)
      PROVE  /\ pc[p] = "runtime" /\ job' = job
             /\ pc'[p] = IF job[p].cursor THEN "restart" ELSE "finish"
  BY <1>0, <1>5, Moved DEF StoreRuntime
<1>6. ASSUME RestartCapture(p)
      PROVE  /\ pc[p] = "restart"
             /\ \/ "failed" \in odd' /\ pc'[p] \in {"idle", "shown", "rejected"}
                \/ pc'[p] = "finish" /\ job' = job /\ grab' = video.cursor /\ odd' = odd
  <2>1. CASE Fails(p, TRUE)
    <3>1. Leave(p, FALSE) /\ "failed" \in odd'
      BY <2>1 DEF Fails, Note
    <3>2. QED BY <1>0, <1>6, <3>1, Answers DEF RestartCapture
  <2>2. CASE ~Fails(p, TRUE)
    BY <1>0, <1>6, <2>2, Moved DEF RestartCapture
  <2>3. QED BY <2>1, <2>2
<1>7. ASSUME Unchanged(p) \/ Finish(p)
      PROVE  (pc[p] = "same" \/ pc[p] = "finish") /\ Returned(p, Codec[runtime])
  BY <1>7 DEF Unchanged, Finish
<1>8. QED BY <1>1, <1>2, <1>3, <1>4, <1>5, <1>6, <1>7

\* What saving and adopting do to the task.
LEMMA Concluding ==
    ASSUME TypeOK, NEW p \in Tasks
    PROVE  /\ Save(p) =>
                 /\ pc[p] = "save"
                 /\ \/ pc'[p] = "adopt" /\ job' = job
                    \/ /\ pc'[p] = "select" /\ job'[p].s = job[p].old /\ job'[p].back = TRUE
                       /\ job'[p].old = job[p].old /\ job'[p].op = job[p].op
                       /\ job'[p].prev = job[p].prev
           /\ Adopt(p) =>
                 /\ pc[p] = "adopt"
                 /\ \/ /\ job[p].got = job[p].prev
                       /\ pc'[p] \in {"idle", "shown", "rejected"} /\ job'[p] = NoJob
                    \/ pc'[p] = "close" /\ job' = job
                 /\ settings' = IF Locked(job[p].op) THEN job[p].s ELSE settings
<1>0. TaskType
  BY DEF TypeOK
<1>1. ASSUME Save(p)
      PROVE  /\ pc[p] = "save"
             /\ \/ pc'[p] = "adopt" /\ job' = job
                \/ /\ pc'[p] = "select" /\ job'[p].s = job[p].old /\ job'[p].back = TRUE
                   /\ job'[p].old = job[p].old /\ job'[p].op = job[p].op
                   /\ job'[p].prev = job[p].prev
  <2>1. CASE Goto(p, "adopt") /\ UNCHANGED <<job, odd>>
    BY <1>0, <1>1, <2>1, Moved DEF Save
  <2>2. CASE /\ Set(p, [job[p] EXCEPT !.s = job[p].old, !.back = TRUE])
             /\ Goto(p, "select")
    <3>1. pc[p] = "save" /\ pc'[p] = "select"
      BY <1>0, <1>1, <2>2, Moved DEF Save
    <3>2. QED BY <1>0, <2>2, <3>1, Assigned
  <2>3. QED BY <1>1, <2>1, <2>2 DEF Save
<1>2. ASSUME Adopt(p)
      PROVE  /\ pc[p] = "adopt"
             /\ \/ /\ job[p].got = job[p].prev
                   /\ pc'[p] \in {"idle", "shown", "rejected"} /\ job'[p] = NoJob
                \/ pc'[p] = "close" /\ job' = job
             /\ settings' = IF Locked(job[p].op) THEN job[p].s ELSE settings
  <2>1. pc[p] = "adopt" /\ settings' = IF Locked(job[p].op) THEN job[p].s ELSE settings
    BY <1>2 DEF Adopt, Locked
  <2>2. CASE job[p].got = job[p].prev /\ Leave(p, TRUE)
    BY <1>0, <2>1, <2>2, Answers
  <2>3. CASE Goto(p, "close") /\ UNCHANGED job
    BY <1>0, <2>1, <2>3, Moved
  <2>4. QED BY <1>2, <2>2, <2>3 DEF Adopt
<1>3. QED BY <1>1, <1>2

\* A task stays on the path of its request.
LEMMA PathOwn ==
    ASSUME TypeOK, EditInv, PathInv, NEW p \in Tasks, Step(p)
    PROVE  PathTask(p)'
<1>0. TaskType /\ PathTask(p) /\ TaskInv(p)
  BY DEF PathInv, EditInv, TypeOK
<1>1. ASSUME pc'[p] \in {"idle", "shown", "rejected", "close"} PROVE PathTask(p)'
  BY <1>1 DEF PathTask, Applying, Chosen
<1>2. ASSUME pc[p] \in Applying, pc'[p] \in Applying, job'[p].op = job[p].op
      PROVE  PathTask(p)'
  BY <1>0, <1>2 DEF PathTask, Applying, Chosen, Locked
<1>3. CASE ReadCodec(p)
  BY <1>0, <1>3, Preparing DEF PathTask, Applying, Chosen, Locked, Free
<1>4. CASE ReadSettings(p)
  BY <1>0, <1>1, <1>4, Preparing DEF PathTask, Applying, Chosen, Locked, Free
<1>5. CASE ReadBrowser(p)
  BY <1>0, <1>5, Preparing DEF PathTask, Applying, Chosen, Locked, Free
<1>6. CASE LockUpdate(p)
  BY <1>0, <1>1, <1>6, Preparing DEF PathTask, Applying, Chosen, Locked, Free
<1>7. CASE ClosePeer(p) \/ ClearSave(p) \/ OfferAnswer(p)
  BY <1>1, <1>7, Preparing
<1>8. CASE \/ Select(p) \/ Preflight(p) \/ Compare(p) \/ StoreVideo(p) \/ StorePipeline(p)
           \/ StoreRuntime(p) \/ RestartCapture(p)
  BY <1>1, <1>2, <1>8, Carrying DEF Applying, Chosen
<1>9. CASE Unchanged(p) \/ Finish(p)
  <2>1. pc[p] \in Applying /\ Returned(p, Codec[runtime])
    BY <1>9, Carrying DEF Applying, Chosen
  <2>2. \/ pc'[p] \in {"idle", "shown", "rejected", "close"}
        \/ pc'[p] \in Applying /\ job'[p].op = job[p].op
    BY <1>0, <2>1, Returns DEF Applying, Chosen
  <2>3. QED BY <1>1, <1>2, <2>1, <2>2
<1>10. CASE Save(p) \/ Adopt(p)
  BY <1>1, <1>2, <1>10, Concluding DEF Applying, Chosen
<1>11. QED BY <1>3, <1>4, <1>5, <1>6, <1>7, <1>8, <1>9, <1>10 DEF Step

\* A task keeps its own account, and the last one leaves everything in agreement.
LEMMA RunOwn ==
    ASSUME TypeOK, EditInv, PathInv, MeetInv, RunInv, NEW p \in Tasks, Step(p),
           odd' \cap {"crossed", "failed"} = {}
    PROVE  /\ RunTask(p)'
           /\ (\A q \in Tasks : pc'[q] \notin Applying) => Calm'
<1>0. /\ TaskType /\ PathTask(p) /\ TaskInv(p) /\ RunTask(p)
      /\ pc[p] \notin Aside /\ odd \cap {"crossed", "failed"} = {} /\ "crossed" \notin odd
      /\ \A q \in Tasks \ {p} : pc'[q] = pc[q] /\ job'[q] = job[q]
      /\ job[p] \in Job
  BY Steps, OthersKeep DEF PathInv, EditInv, TypeOK, TaskType, RunInv
<1>1. ASSUME pc[p] \notin Applying, \A q \in Tasks \ {p} : pc[q] \notin Applying PROVE Calm
  BY <1>0, <1>1 DEF RunInv
<1>2. ASSUME pc'[p] \in {"idle", "shown", "rejected", "close"}
      PROVE  RunTask(p)'
  BY <1>2 DEF RunTask, Applying, Chosen, Before
<1>3. CASE pc[p] \notin Applying
  <2>1. /\ settings' = settings /\ video' = video /\ pipeline' = pipeline
        /\ runtime' = runtime /\ grab' = grab
    BY <1>3, Outside
  <2>2. (\A q \in Tasks : pc'[q] \notin Applying) => Calm'
    BY <1>0, <1>1, <1>3, <2>1 DEF Calm, Coherent
  <2>3. ASSUME \/ job[p].op \in Free
               \/ pc[p] = "lock" /\ update = None
        PROVE  Calm
    BY <1>0, <1>1, <1>3, <2>3, Sole
  <2>4. CASE ReadCodec(p)
    <3>1. RunTask(p)'
      BY <1>0, <2>1, <2>4, Preparing DEF RunTask, Applying, Chosen, Before
    <3>2. QED BY <2>2, <3>1
  <2>5. CASE ReadSettings(p)
    <3>1. CASE pc'[p] \in {"idle", "shown", "rejected"}
      BY <1>2, <2>2, <3>1
    <3>2. CASE pc'[p] \notin {"idle", "shown", "rejected"}
      <4>1. /\ job'[p].s = settings /\ job'[p].op = job[p].op /\ job'[p].back = job[p].back
            /\ pc'[p] \in {"codec", "select"} /\ pc[p] = "settings"
        BY <2>5, <3>2, Preparing
      <4>2. job[p].op \in Free /\ ~Locked(job[p].op) /\ Calm
        BY <1>0, <2>3, <4>1 DEF PathTask, Free, Locked
      <4>3. RunTask(p)'
        BY <2>1, <4>1, <4>2 DEF RunTask, Applying, Chosen, Before, Calm, Coherent
      <4>4. QED BY <2>2, <4>3
    <3>3. QED BY <3>1, <3>2
  <2>6. CASE ReadBrowser(p)
    <3>1. /\ job'[p].s = job[p].s /\ job'[p].op = job[p].op /\ job'[p].back = job[p].back
          /\ pc'[p] = "settings" \/ (pc'[p] = "select" /\ job[p].op = "bench")
          /\ pc[p] = "browser"
      BY <2>6, Preparing
    <3>2. job[p].op \in Free /\ ~Locked(job[p].op) /\ Calm
      BY <1>0, <2>3, <3>1 DEF PathTask, Free, Locked
    <3>3. pc'[p] = "select" => job[p].s = settings
      BY <1>0, <3>1 DEF RunTask
    <3>4. RunTask(p)'
      BY <2>1, <3>1, <3>2, <3>3 DEF RunTask, Applying, Chosen, Before, Calm, Coherent
    <3>5. QED BY <2>2, <3>4
  <2>7. CASE LockUpdate(p)
    <3>1. CASE pc'[p] \in {"idle", "shown", "rejected"}
      BY <1>2, <2>2, <3>1
    <3>2. CASE pc'[p] \notin {"idle", "shown", "rejected"}
      <4>1. /\ job'[p].s = job[p].s /\ job'[p].op = job[p].op /\ job'[p].back = job[p].back
            /\ job'[p].old = settings /\ pc'[p] = "select" /\ pc[p] = "lock" /\ update = None
        BY <2>7, <3>2, Preparing
      <4>2. job[p].op \notin Free /\ ~job[p].back /\ Calm
        BY <1>0, <2>3, <4>1 DEF PathTask, Free, Locked
      <4>3. RunTask(p)'
        BY <2>1, <4>1, <4>2 DEF RunTask, Applying, Chosen, Before, Calm, Coherent
      <4>4. QED BY <2>2, <4>3
    <3>3. QED BY <3>1, <3>2
  <2>8. CASE ClosePeer(p) \/ ClearSave(p) \/ OfferAnswer(p)
    BY <1>2, <2>2, <2>8, Preparing
  <2>9. QED BY <1>3, <2>4, <2>5, <2>6, <2>7, <2>8, Outside
<1>4. CASE pc[p] \in Applying
  <2>1. Locked(job[p].op) \/ job[p].op \in Free
    BY <1>0, <1>4 DEF PathTask
  <2>2. CASE Select(p) \/ Preflight(p)
    <3>1. /\ settings' = settings /\ video' = video /\ pipeline' = pipeline
          /\ runtime' = runtime /\ grab' = grab
      BY <2>2 DEF Select, Preflight, captureVars
    <3>2. Coherent /\ (~job[p].back => video = settings) /\ Coherent'
      BY <1>0, <2>2, <3>1, Carrying DEF RunTask, Before, Coherent
    <3>3. CASE pc'[p] \in {"compare", "store"}
      <4>1. /\ job'[p].old = job[p].old /\ job'[p].s = job[p].s /\ job'[p].op = job[p].op
            /\ job'[p].back = job[p].back
        BY <2>2, <3>3, Carrying
      <4>2. RunTask(p)'
        BY <1>0, <1>4, <3>1, <3>2, <3>3, <4>1 DEF RunTask, Applying, Chosen, Before
      <4>3. QED BY <3>3, <4>2 DEF Applying, Chosen
    <3>4. CASE pc'[p] \notin {"compare", "store"}
      <4>1. pc'[p] \in {"idle", "shown", "rejected"} /\ ~job[p].back
        BY <2>2, <3>4, Carrying
      <4>2. QED BY <1>2, <3>1, <3>2, <4>1 DEF Calm
    <3>5. QED BY <3>3, <3>4
  <2>3. CASE Compare(p)
    <3>1. /\ settings' = settings /\ video' = video /\ pipeline' = pipeline
          /\ runtime' = runtime /\ grab' = grab
      BY <2>3 DEF Compare, authorityVars, captureVars
    <3>2. RunTask(p)' /\ pc'[p] \in Applying
      BY <1>0, <1>4, <2>3, <3>1, Carrying DEF RunTask, Applying, Chosen, Before, Coherent
    <3>3. QED BY <3>2
  <2>4. CASE StoreVideo(p)
    <3>1. /\ settings' = settings /\ video' = job[p].s /\ grab' = grab
      BY <2>4 DEF StoreVideo, authorityVars
    <3>2. pc[p] = "store" /\ grab \in {None, video.cursor}
      BY <1>0, <2>4, Carrying DEF RunTask, Before, Coherent
    <3>3. job'[p].cursor \/ grab' \in {None, video'.cursor}
      BY <2>4, <3>1, <3>2, Carrying
    <3>4. RunTask(p)' /\ pc'[p] \in Applying
      BY <1>0, <1>4, <2>4, <3>1, <3>3, Carrying DEF RunTask, Applying, Chosen, Before
    <3>5. QED BY <3>4
  <2>5. CASE StorePipeline(p)
    <3>1. /\ settings' = settings /\ video' = video /\ grab' = grab
          /\ pipeline'.video = job[p].s /\ pipeline'.mode = job[p].mode
      BY <2>5 DEF StorePipeline, authorityVars
    <3>2. RunTask(p)' /\ pc'[p] \in Applying
      BY <1>0, <1>4, <2>5, <3>1, Carrying DEF RunTask, Applying, Chosen, Before
    <3>3. QED BY <3>2
  <2>6. CASE StoreRuntime(p)
    <3>1. /\ settings' = settings /\ video' = video /\ grab' = grab /\ pipeline' = pipeline
          /\ runtime' = job[p].mode
      BY <2>6 DEF StoreRuntime, authorityVars
    <3>2. RunTask(p)' /\ pc'[p] \in Applying
      BY <1>0, <1>4, <2>6, <3>1, Carrying DEF RunTask, Applying, Chosen, Before
    <3>3. QED BY <3>2
  <2>7. CASE RestartCapture(p)
    <3>1. /\ settings' = settings /\ video' = video /\ pipeline' = pipeline
          /\ runtime' = runtime
      BY <2>7 DEF RestartCapture
    <3>2. /\ pc[p] = "restart" /\ pc'[p] = "finish" /\ job' = job /\ grab' = video.cursor
      BY <2>7, Carrying
    <3>3. RunTask(p)' /\ pc'[p] \in Applying
      BY <1>0, <1>4, <3>1, <3>2 DEF RunTask, Applying, Chosen, Before
    <3>4. QED BY <3>3
  <2>8. CASE Unchanged(p) \/ Finish(p)
    <3>1. /\ settings' = settings /\ video' = video /\ pipeline' = pipeline
          /\ runtime' = runtime /\ grab' = grab
      BY <2>8 DEF Unchanged, Finish, captureVars
    <3>2. Coherent /\ video = job[p].s /\ Coherent'
      BY <1>0, <2>8, <3>1, Carrying DEF RunTask, Coherent
    <3>3. job[p].op \in Free \/ job[p].back => job[p].s = settings
      BY <1>0, <1>4 DEF RunTask
    <3>4. Returned(p, Codec[runtime])
      BY <2>8, Carrying
    <3>5. CASE pc'[p] \in {"save", "adopt"}
      <4>1. /\ job'[p].old = job[p].old /\ job'[p].s = job[p].s /\ job'[p].op = job[p].op
            /\ job'[p].back = job[p].back
        BY <1>0, <3>4, <3>5, Returns
      <4>2. RunTask(p)'
        BY <1>0, <1>4, <3>1, <3>2, <3>5, <4>1 DEF RunTask, Applying, Chosen, Before
      <4>3. QED BY <3>5, <4>2 DEF Applying
    <3>6. CASE pc'[p] \notin {"save", "adopt"}
      <4>1. /\ pc'[p] \in {"idle", "shown", "rejected", "close"}
            /\ job[p].op \in Free \/ job[p].back
        BY <1>0, <3>4, <3>6, Returns DEF Free
      <4>2. QED BY <1>2, <3>1, <3>2, <3>3, <4>1 DEF Calm
    <3>7. QED BY <3>5, <3>6
  <2>9. CASE Save(p)
    <3>1. /\ settings' = settings /\ video' = video /\ pipeline' = pipeline
          /\ runtime' = runtime /\ grab' = grab
      BY <2>9 DEF Save, authorityVars, captureVars
    <3>2. /\ Coherent /\ video = job[p].s /\ Locked(job[p].op) /\ Coherent'
          /\ job[p].old = settings
      BY <1>0, <1>4, <2>9, <3>1, Concluding DEF RunTask, Coherent, TaskInv
    <3>3. CASE pc'[p] = "adopt"
      <4>1. RunTask(p)'
        BY <1>0, <1>4, <2>9, <3>1, <3>2, <3>3, Concluding DEF RunTask, Applying, Chosen, Before
      <4>2. QED BY <3>3, <4>1 DEF Applying
    <3>4. CASE pc'[p] # "adopt"
      <4>1. /\ pc'[p] = "select" /\ job'[p].s = job[p].old /\ job'[p].back = TRUE
            /\ job'[p].old = job[p].old /\ job'[p].op = job[p].op
        BY <2>9, <3>4, Concluding
      <4>2. RunTask(p)'
        BY <3>1, <3>2, <4>1 DEF RunTask, Applying, Chosen, Before
      <4>3. QED BY <4>1, <4>2 DEF Applying
    <3>5. QED BY <3>3, <3>4
  <2>10. CASE Adopt(p)
    <3>1. /\ video' = video /\ pipeline' = pipeline /\ runtime' = runtime /\ grab' = grab
      BY <2>10 DEF Adopt, captureVars
    <3>2. Coherent /\ video = job[p].s /\ Coherent'
      BY <1>0, <2>10, <3>1, Concluding DEF RunTask, Coherent
    <3>3. job[p].op \in Free => job[p].s = settings
      BY <1>0, <1>4 DEF RunTask
    <3>4. settings' = job[p].s
      BY <2>1, <2>10, <3>3, Concluding
    <3>5. pc'[p] \in {"idle", "shown", "rejected", "close"}
      BY <2>10, Concluding
    <3>6. QED BY <1>2, <3>1, <3>2, <3>4, <3>5 DEF Calm
  <2>11. CASE \/ ReadCodec(p) \/ ReadSettings(p) \/ ReadBrowser(p) \/ LockUpdate(p)
              \/ ClosePeer(p) \/ ClearSave(p) \/ OfferAnswer(p)
    BY <1>4, <2>11, Preparing DEF Applying, Chosen
  <2>12. QED BY <2>2, <2>3, <2>4, <2>5, <2>6, <2>7, <2>8, <2>9, <2>10, <2>11 DEF Step
<1>5. QED BY <1>3, <1>4

\* What the peer's codec needs of the other tasks survives the step of a task.
LEMMA PeerOthers ==
    ASSUME TypeOK, EditInv, MeetInv, NEW p \in Tasks, Step(p), "stale" \notin odd',
           NEW q \in Tasks, q # p
    PROVE  ~Late(q) /\ ~Late(q)' /\ PeerTask(q)'
<1>1. pc'[q] = pc[q] /\ job'[q] = job[q] /\ pc[p] \notin Aside /\ "stale" \notin odd
  BY OthersKeep, Steps
<1>2. pc[q] \in Aside
  BY <1>1 DEF MeetInv
<1>3. QED BY <1>1, <1>2 DEF Late, Read, PeerTask, Aside, Applying, Chosen

\* A task that changes the codec closes the peer, or does not change it after all.
LEMMA PeerOwn ==
    ASSUME TypeOK, EditInv, PathInv, MeetInv, PeerInv, NEW p \in Tasks, Step(p),
           odd' \cap {"crossed", "stale", "failed", "silent"} = {}
    PROVE  PeerTask(p)' /\ (~Late(p)' => peer' \in {None, Codec[runtime']})
<1> USE ConstantsAssumption
<1>0. /\ TaskType /\ PathTask(p) /\ TaskInv(p) /\ PeerTask(p) /\ odd \subseteq odd'
      /\ odd \cap {"crossed", "stale", "failed", "silent"} = {} /\ "stale" \notin odd'
  BY Steps DEF PathInv, EditInv, TypeOK, PeerInv
<1>1. ~Late(p) => peer \in {None, Codec[runtime]}
  BY <1>0, PeerOthers DEF PeerInv
<1>2. ASSUME pc'[p] \in {"idle", "shown", "rejected", "close"} PROVE PeerTask(p)'
  BY <1>2 DEF PeerTask, Late, Read, Applying, Chosen
<1>3. CASE pc[p] \notin Applying
  <2>1. runtime' = runtime
    BY <1>3, Outside
  <2>2. Late(p) <=> pc[p] = "close"
    BY <1>3 DEF Late, Applying, Chosen
  <2>3. CASE ClosePeer(p)
    BY <1>2, <2>3, Preparing DEF ClosePeer
  <2>4. CASE OfferAnswer(p)
    <3>1. pc[p] = "answer" /\ peer' = job[p].prev
      BY <2>4 DEF OfferAnswer
    <3>2. job[p].prev = Codec[runtime]
      BY <1>0, <2>2, <3>1 DEF PeerTask, Read
    <3>3. QED BY <1>2, <2>1, <2>4, <3>1, <3>2, Preparing
  <2>5. CASE ClearSave(p)
    <3>1. peer' = peer /\ pc[p] = "wipe"
      BY <2>5 DEF ClearSave
    <3>2. QED BY <1>1, <1>2, <2>1, <2>2, <2>5, <3>1, Preparing
  <2>6. CASE ReadCodec(p)
    <3>1. peer' = peer /\ job'[p].prev = Codec[runtime] /\ pc[p] = "codec"
          /\ pc'[p] \in {"lock", "settings", "browser"}
      BY <2>6, Preparing DEF ReadCodec
    <3>2. PeerTask(p)'
      BY <2>1, <3>1 DEF PeerTask, Late, Applying, Chosen
    <3>3. QED BY <1>1, <2>1, <2>2, <3>1, <3>2
  <2>7. CASE ReadSettings(p)
    <3>1. peer' = peer /\ pc[p] = "settings"
      BY <2>7 DEF ReadSettings
    <3>2. peer' \in {None, Codec[runtime']}
      BY <1>1, <2>1, <2>2, <3>1
    <3>3. CASE pc'[p] \in {"idle", "shown", "rejected"}
      BY <1>2, <3>2, <3>3
    <3>4. CASE pc'[p] \notin {"idle", "shown", "rejected"}
      <4>1. /\ job'[p].op = job[p].op /\ job'[p].prev = job[p].prev
            /\ job'[p].back = job[p].back
            /\ pc'[p] = IF job[p].op = "bench" THEN "codec" ELSE "select"
        BY <2>7, <3>4, Preparing
      <4>2. job[p].op \in Free /\ ~job[p].back
        BY <1>0, <3>1 DEF PathTask
      <4>3. job[p].op = "caps" => job[p].prev = Codec[runtime]
        BY <1>0, <2>2, <3>1 DEF PeerTask, Read
      <4>4. PeerTask(p)'
        BY <2>1, <4>1, <4>2, <4>3 DEF PeerTask, Late, Read, Applying, Chosen, Free, Locked
      <4>5. QED BY <3>2, <4>4
    <3>5. QED BY <3>3, <3>4
  <2>8. CASE ReadBrowser(p)
    <3>1. peer' = peer /\ pc[p] = "browser"
      BY <2>8 DEF ReadBrowser
    <3>2. peer' \in {None, Codec[runtime']}
      BY <1>1, <2>1, <2>2, <3>1
    <3>3. /\ job'[p].op = job[p].op /\ job'[p].prev = job[p].prev
          /\ job'[p].back = job[p].back
          /\ pc'[p] = IF job[p].op = "bench" THEN "select" ELSE "settings"
      BY <2>8, Preparing
    <3>4. job[p].op \in {"presented", "bench"} /\ ~job[p].back
      BY <1>0, <3>1 DEF PathTask
    <3>5. job[p].op = "bench" => job[p].prev = Codec[runtime]
      BY <1>0, <2>2, <3>1 DEF PeerTask, Read
    <3>6. PeerTask(p)'
      BY <2>1, <3>3, <3>4, <3>5 DEF PeerTask, Late, Read, Applying, Chosen, Locked
    <3>7. QED BY <3>2, <3>6
  <2>9. CASE LockUpdate(p)
    <3>1. peer' = peer /\ pc[p] = "lock"
      BY <2>9 DEF LockUpdate
    <3>2. peer' \in {None, Codec[runtime']}
      BY <1>1, <2>1, <2>2, <3>1
    <3>3. CASE pc'[p] \in {"idle", "shown", "rejected"}
      BY <1>2, <3>2, <3>3
    <3>4. CASE pc'[p] \notin {"idle", "shown", "rejected"}
      <4>1. /\ job'[p].op = job[p].op /\ job'[p].prev = job[p].prev
            /\ job'[p].back = job[p].back /\ pc'[p] = "select"
        BY <2>9, <3>4, Preparing
      <4>2. Locked(job[p].op) /\ ~job[p].back
        BY <1>0, <3>1 DEF PathTask
      <4>3. job[p].prev = Codec[runtime]
        BY <1>0, <2>2, <3>1, <4>2 DEF PeerTask, Read
      <4>4. PeerTask(p)'
        BY <2>1, <4>1, <4>2, <4>3 DEF PeerTask, Late, Read, Applying, Chosen
      <4>5. QED BY <3>2, <4>4
    <3>5. QED BY <3>3, <3>4
  <2>10. QED BY <1>3, <2>3, <2>4, <2>5, <2>6, <2>7, <2>8, <2>9, Outside
<1>4. CASE pc[p] \in Applying
  <2>0. Locked(job[p].op) \/ job[p].op \in Free
    BY <1>0, <1>4 DEF PathTask
  <2>1. job[p].op # "presented" => Read(p)
    BY <1>4, <2>0 DEF Read, Free
  <2>2. ~Late(p) /\ job[p].op # "presented" => job[p].prev = Codec[runtime]
    BY <1>0, <2>1 DEF PeerTask
  <2>3. pc[p] # "close"
    BY <1>4 DEF Applying, Chosen
  <2>4. Late(p) => peer \in {None, job[p].prev}
    BY <1>0, <2>3 DEF PeerTask
  <2>5. ASSUME peer' = peer, runtime' = runtime, pc'[p] \in Applying,
               job'[p].op = job[p].op, job'[p].prev = job[p].prev,
               job'[p].back = job[p].back, Late(p)' <=> Late(p),
               pc'[p] \notin {"save", "adopt"}
        PROVE  PeerTask(p)' /\ (~Late(p)' => peer' \in {None, Codec[runtime']})
    <3>1. Read(p)' => job[p].op # "presented"
      BY <2>5 DEF Read, Locked, Applying, Chosen
    <3>2. QED BY <1>1, <2>2, <2>4, <2>5, <3>1 DEF PeerTask
  <2>6. CASE Select(p) \/ Preflight(p)
    <3>1. peer' = peer /\ runtime' = runtime
      BY <2>6 DEF Select, Preflight, captureVars
    <3>2. CASE pc'[p] \in {"compare", "store"}
      <4>1. /\ job'[p].op = job[p].op /\ job'[p].prev = job[p].prev
            /\ job'[p].back = job[p].back /\ pc'[p] \in Applying
            /\ pc[p] = "select" \/ pc[p] = "preflight"
        BY <2>6, <3>2, Carrying DEF Applying, Chosen
      <4>2. Late(p)' <=> Late(p)
        BY <1>4, <3>2, <4>1 DEF Late
      <4>3. QED BY <2>5, <3>1, <3>2, <4>1, <4>2
    <3>3. CASE pc'[p] \notin {"compare", "store"}
      <4>1. /\ pc'[p] \in {"idle", "shown", "rejected"} /\ ~job[p].back
            /\ pc[p] = "select" \/ pc[p] = "preflight"
        BY <2>6, <3>3, Carrying
      <4>2. ~Late(p)
        BY <4>1 DEF Late
      <4>3. QED BY <1>1, <1>2, <3>1, <4>1, <4>2
    <3>4. QED BY <3>2, <3>3
  <2>7. CASE Compare(p) \/ StoreVideo(p) \/ StorePipeline(p)
    <3>1. peer' = peer /\ runtime' = runtime
      BY <2>7 DEF Compare, StoreVideo, StorePipeline, captureVars
    <3>2. /\ job'[p].op = job[p].op /\ job'[p].prev = job[p].prev
          /\ job'[p].back = job[p].back
          /\ pc[p] \in {"compare", "store", "pipeline"}
          /\ pc'[p] \in {"same", "preflight", "pipeline", "runtime"}
      BY <2>7, Carrying
    <3>3. pc'[p] \in Applying /\ (Late(p)' <=> Late(p))
      BY <1>4, <3>2 DEF Late, Applying, Chosen
    <3>4. QED BY <2>5, <3>1, <3>2, <3>3
  <2>8. CASE StoreRuntime(p)
    <3>1. /\ peer' = peer /\ runtime' = job[p].mode
          /\ job[p].op = "presented" => Codec[job[p].mode] = Codec[runtime]
      BY <2>8 DEF StoreRuntime, Note
    <3>2. /\ pc[p] = "runtime" /\ job' = job /\ pc'[p] \in {"restart", "finish"}
      BY <2>8, Carrying
    <3>3. CASE job[p].op = "presented" /\ ~job[p].back
      <4>1. ~Late(p) /\ ~Late(p)' /\ ~Read(p)'
        BY <3>2, <3>3 DEF Late, Read, Locked, Applying, Chosen
      <4>2. QED BY <1>1, <3>1, <3>2, <3>3, <4>1 DEF PeerTask
    <3>4. CASE job[p].op # "presented" \/ job[p].back
      <4>1. Late(p)'
        BY <3>2, <3>4 DEF Late, Applying, Chosen
      <4>2. peer \in {None, job[p].prev}
        <5>1. CASE Late(p)
          BY <2>4, <5>1
        <5>2. CASE ~Late(p)
          <6>1. job[p].op # "presented"
            BY <1>4, <3>4, <5>2 DEF Late
          <6>2. QED BY <1>1, <2>2, <5>2, <6>1
        <5>3. QED BY <5>1, <5>2
      <4>3. QED BY <3>1, <3>2, <4>1, <4>2 DEF PeerTask
    <3>5. QED BY <3>3, <3>4
  <2>9. CASE RestartCapture(p)
    <3>1. peer' = peer /\ runtime' = runtime
      BY <2>9 DEF RestartCapture
    <3>2. pc[p] = "restart" /\ pc'[p] = "finish" /\ job' = job
      BY <2>9, Carrying
    <3>3. pc'[p] \in Applying /\ (Late(p)' <=> Late(p))
      BY <1>4, <3>2 DEF Late, Applying
    <3>4. QED BY <2>5, <3>1, <3>2, <3>3
  <2>10. CASE Unchanged(p) \/ Finish(p)
    <3>1. peer' = peer /\ runtime' = runtime
      BY <2>10 DEF Unchanged, Finish, captureVars
    <3>2. Returned(p, Codec[runtime]) /\ (pc[p] = "same" \/ pc[p] = "finish")
      BY <2>10, Carrying
    <3>3. peer \in {None, job[p].prev} \/ job[p].op = "presented"
      BY <1>1, <2>2, <2>4
    <3>4. job[p].back => job[p].prev = Codec[runtime]
      BY <1>0, <3>2, Returns
    <3>5. CASE pc'[p] \in {"save", "adopt"}
      <4>1. /\ job'[p].op = job[p].op /\ job'[p].prev = job[p].prev
            /\ job'[p].got = Codec[runtime] /\ job[p].op # "presented"
        BY <1>0, <3>2, <3>5, Returns DEF Locked
      <4>2. Late(p)'
        BY <3>5, <4>1 DEF Late
      <4>3. QED BY <3>1, <3>3, <3>5, <4>1, <4>2 DEF PeerTask
    <3>6. CASE pc'[p] = "close"
      BY <1>2, <3>6 DEF Late
    <3>7. CASE pc'[p] \in {"idle", "shown", "rejected"}
      <4>1. \/ job[p].back
            \/ job[p].op = "presented"
            \/ job[p].op = "bench" /\ job[p].prev = Codec[runtime]
        BY <1>0, <3>2, <3>7, Returns
      <4>2. peer \in {None, Codec[runtime]}
        <5>1. CASE job[p].back
          <6>1. Late(p)
            BY <1>4, <5>1 DEF Late
          <6>2. QED BY <2>4, <3>4, <5>1, <6>1
        <5>2. CASE ~job[p].back /\ job[p].op = "presented"
          BY <1>1, <2>3, <5>2 DEF Late
        <5>3. CASE job[p].op = "bench" /\ job[p].prev = Codec[runtime]
          BY <3>3, <5>3
        <5>4. QED BY <4>1, <5>1, <5>2, <5>3
      <4>3. QED BY <1>2, <3>1, <3>7, <4>2
    <3>8. QED BY <1>0, <3>2, <3>5, <3>6, <3>7, Returns
  <2>11. CASE Save(p)
    <3>1. peer' = peer /\ runtime' = runtime
      BY <2>11 DEF Save, captureVars
    <3>2. pc[p] = "save" /\ Locked(job[p].op)
      BY <1>0, <2>11 DEF Save, TaskInv
    <3>3. peer \in {None, job[p].prev} /\ job[p].got = Codec[runtime]
      BY <1>0, <2>4, <3>2 DEF Late, PeerTask, Locked
    <3>4. CASE pc'[p] = "adopt"
      <4>1. job' = job
        BY <2>11, <3>4, Concluding
      <4>2. Late(p)'
        BY <3>2, <3>4, <4>1 DEF Late, Locked
      <4>3. QED BY <3>1, <3>3, <4>1, <4>2 DEF PeerTask
    <3>5. CASE pc'[p] # "adopt"
      <4>1. /\ pc'[p] = "select" /\ job'[p].back = TRUE /\ job'[p].prev = job[p].prev
        BY <2>11, <3>5, Concluding
      <4>2. Late(p)'
        BY <4>1 DEF Late, Applying
      <4>3. QED BY <3>1, <3>3, <4>1, <4>2 DEF PeerTask
    <3>6. QED BY <3>4, <3>5
  <2>12. CASE Adopt(p)
    <3>1. peer' = peer /\ runtime' = runtime
      BY <2>12 DEF Adopt, captureVars
    <3>2. pc[p] = "adopt" /\ job[p].op # "presented"
      BY <2>12 DEF Adopt, Locked
    <3>3. peer \in {None, job[p].prev} /\ job[p].got = Codec[runtime]
      BY <1>0, <2>4, <3>2 DEF Late, PeerTask
    <3>4. CASE pc'[p] = "close"
      BY <1>2, <3>4 DEF Late
    <3>5. CASE pc'[p] # "close"
      <4>1. job[p].got = job[p].prev /\ pc'[p] \in {"idle", "shown", "rejected"}
        BY <2>12, <3>5, Concluding
      <4>2. QED BY <1>2, <3>1, <3>3, <4>1
    <3>6. QED BY <3>4, <3>5
  <2>13. CASE \/ ReadCodec(p) \/ ReadSettings(p) \/ ReadBrowser(p) \/ LockUpdate(p)
              \/ ClosePeer(p) \/ ClearSave(p) \/ OfferAnswer(p)
    BY <1>4, <2>13, Preparing DEF Applying, Chosen
  <2>14. QED BY <2>6, <2>7, <2>8, <2>9, <2>10, <2>11, <2>12, <2>13 DEF Step
<1>5. QED BY <1>3, <1>4

\* Which tasks run next to each other does not change when one of them goes on.
LEMMA MeetStep ==
    ASSUME TypeOK, EditInv, MeetInv, NEW p \in Tasks, Step(p)
    PROVE  MeetInv'
<1>1. /\ pc[p] \notin Aside /\ odd \subseteq odd'
      /\ job'[p].op \in {job[p].op, "clear"}
      /\ \A q \in Tasks \ {p} : pc'[q] = pc[q] /\ job'[q] = job[q]
  BY Steps, OthersKeep
<1>2. ASSUME "crossed" \notin odd', NEW x \in Tasks, NEW y \in Tasks, x # y,
             pc'[x] \notin Aside, job'[x].op \in Free
      PROVE  pc'[y] \in Aside
  <2>1. pc[x] \notin Aside /\ job[x].op \in Free
    BY <1>1, <1>2 DEF Free
  <2>2. pc[y] \in Aside
    BY <1>1, <1>2, <2>1 DEF MeetInv
  <2>3. QED BY <1>1, <2>2
<1>3. ASSUME "stale" \notin odd', NEW x \in Tasks, NEW y \in Tasks, x # y
      PROVE  pc'[x] \in Aside \/ pc'[y] \in Aside
  <2>1. pc[x] \in Aside \/ pc[y] \in Aside
    BY <1>1, <1>3 DEF MeetInv
  <2>2. QED BY <1>1, <2>1
<1>4. QED BY <1>2, <1>3 DEF MeetInv

\* What a request finds when it begins.
Arrival(op, j) ==
    /\ ~j.back
    /\ op = "offer" => j.prev = Codec[runtime]

\* A request that begins has stored nothing, and notices whom it meets.
LEMMA Begins ==
    ASSUME TypeOK, PathInv, MeetInv, RunInv, PeerInv, NEW p \in Tasks, NEW op \in Ops,
           NEW j \in Job, Arrival(op, j),
           NEW l \in {"idle", "codec", "settings", "browser", "wipe", "answer"},
           l = "codec" => op \in {"set", "host", "caps"},
           l = "settings" => op = "bench", l = "browser" => op = "presented",
           l = "answer" => op = "offer",
           Begin(p, op, l, j),
           settings' = settings, video' = video, pipeline' = pipeline, runtime' = runtime,
           grab' = grab, peer' = peer
    PROVE  PathInv' /\ MeetInv' /\ RunInv' /\ PeerInv'
<1>0. TaskType
  BY DEF TypeOK
<1>1. /\ pc[p] = "idle" /\ pc'[p] = l /\ job'[p] = [j EXCEPT !.op = op]
      /\ \A q \in Tasks \ {p} : pc'[q] = pc[q] /\ job'[q] = job[q]
      /\ odd' = odd \cup Meets(p, op)
  BY <1>0, Moved DEF Begin, Note
<1>2. job'[p].op = op /\ job'[p].back = j.back /\ job'[p].prev = j.prev
  BY <1>1 DEF Job
<1>3. l \notin Applying /\ odd \subseteq odd' /\ pc[p] \notin Applying /\ pc[p] \in Aside
  BY <1>1 DEF Applying, Chosen, Aside
<1>4. PathInv'
  <2>1. PathTask(p)'
    BY <1>1, <1>2, <1>3 DEF PathTask, Arrival, Locked, Free
  <2>2. ASSUME NEW q \in Tasks, q # p PROVE PathTask(q)'
    BY <1>1, <2>2 DEF PathInv, PathTask
  <2>3. QED BY <2>1, <2>2 DEF PathInv
<1>5. MeetInv'
  <2>1. ASSUME NEW q \in Tasks, q # p, pc[q] # "idle" PROVE "stale" \in odd'
    BY <1>1, <2>1 DEF Meets, Others
  <2>2. ASSUME NEW q \in Tasks, q # p, pc[q] # "idle", op \in Free \/ job[q].op \in Free
        PROVE  "crossed" \in odd'
    <3>1. q \in Others(p)
      BY <2>2 DEF Others
    <3>2. \E o \in {op} \cup {job[x].op : x \in Others(p)} : o \in {"caps", "presented", "bench"}
      BY <2>2, <3>1 DEF Free
    <3>3. "crossed" \in Meets(p, op)
      BY <3>1, <3>2 DEF Meets
    <3>4. QED BY <1>1, <3>3
  <2>3. ASSUME "crossed" \notin odd', NEW x \in Tasks, NEW y \in Tasks, x # y,
               pc'[x] \notin Aside, job'[x].op \in Free
        PROVE  pc'[y] \in Aside
    <3>1. CASE x = p
      <4>1. pc[y] = "idle"
        BY <1>2, <2>2, <2>3, <3>1
      <4>2. QED BY <1>1, <2>3, <3>1, <4>1 DEF Aside
    <3>2. CASE y = p
      <4>1. pc[x] # "idle" /\ job[x].op \in Free /\ x # p
        BY <1>1, <2>3, <3>2 DEF Aside
      <4>2. QED BY <2>2, <2>3, <4>1
    <3>3. CASE x # p /\ y # p
      BY <1>1, <1>3, <2>3, <3>3 DEF MeetInv
    <3>4. QED BY <3>1, <3>2, <3>3
  <2>4. ASSUME "stale" \notin odd', NEW x \in Tasks, NEW y \in Tasks, x # y
        PROVE  pc'[x] \in Aside \/ pc'[y] \in Aside
    <3>1. \A q \in Tasks : q # p => pc[q] = "idle"
      BY <2>1, <2>4
    <3>2. QED BY <1>1, <2>4, <3>1 DEF Aside
  <2>5. QED BY <2>3, <2>4 DEF MeetInv
<1>6. RunInv'
  <2> SUFFICES ASSUME odd' \cap {"crossed", "failed"} = {}
               PROVE  /\ (\A q \in Tasks : pc'[q] \notin Applying) => Calm'
                      /\ \A q \in Tasks : RunTask(q)'
    BY DEF RunInv
  <2>1. odd \cap {"crossed", "failed"} = {}
    BY <1>3
  <2>2. RunTask(p)'
    BY <1>1, <1>2 DEF RunTask, Applying, Chosen, Before
  <2>3. ASSUME NEW q \in Tasks, q # p PROVE RunTask(q)'
    BY <1>1, <2>1, <2>3 DEF RunInv, RunTask, Coherent
  <2>4. (\A q \in Tasks : pc'[q] \notin Applying) => Calm'
    BY <1>1, <1>3, <2>1 DEF RunInv, Calm, Coherent
  <2>5. QED BY <2>2, <2>3, <2>4
<1>7. PeerInv'
  <2> SUFFICES ASSUME odd' \cap {"crossed", "stale", "failed", "silent"} = {}
               PROVE  /\ (\A q \in Tasks : ~Late(q)') => peer' \in {None, Codec[runtime']}
                      /\ \A q \in Tasks : PeerTask(q)'
    BY DEF PeerInv
  <2>1. odd \cap {"crossed", "stale", "failed", "silent"} = {}
    BY <1>3
  <2>2. PeerTask(p)'
    BY <1>1, <1>2 DEF PeerTask, Late, Read, Applying, Chosen, Arrival, Locked
  <2>3. ASSUME NEW q \in Tasks, q # p PROVE PeerTask(q)'
    BY <1>1, <2>1, <2>3 DEF PeerInv, PeerTask, Late, Read
  <2>4. ~Late(p)
    BY <1>1 DEF Late, Applying, Chosen
  <2>5. (\A q \in Tasks : ~Late(q)') => peer' \in {None, Codec[runtime']}
    <3>1. ASSUME NEW q \in Tasks, q # p PROVE Late(q)' <=> Late(q)
      BY <1>1, <3>1 DEF Late
    <3>2. QED BY <2>1, <2>4, <3>1 DEF PeerInv
  <2>6. QED BY <2>2, <2>3, <2>5
<1>8. QED BY <1>4, <1>5, <1>6, <1>7

\* The user interface only starts or stops the capture, with the cursor option that
\* the capture manager has.
LEMMA HostAside ==
    ASSUME TypeOK, PathInv, MeetInv, RunInv, PeerInv,
           pc["ui"] \in {"idle", "saving", "shown", "rejected"},
           pc'["ui"] \in Aside, \A q \in Tasks \ {"ui"} : pc'[q] = pc[q],
           job' = job, odd \subseteq odd',
           settings' = settings, video' = video, pipeline' = pipeline, runtime' = runtime,
           grab' \in {grab, video.cursor, None}, peer' = peer
    PROVE  PathInv' /\ MeetInv' /\ RunInv' /\ PeerInv'
<1>0. "ui" \in Tasks
  BY DEF Tasks
<1>1. PathInv'
  <2>1. PathTask("ui")'
    BY DEF PathTask, Aside, Applying, Chosen
  <2>2. ASSUME NEW q \in Tasks, q # "ui" PROVE PathTask(q)'
    BY <2>2 DEF PathInv, PathTask
  <2>3. QED BY <2>1, <2>2 DEF PathInv
<1>2. MeetInv'
  <2>1. ASSUME "crossed" \notin odd', NEW x \in Tasks, NEW y \in Tasks, x # y,
               pc'[x] \notin Aside, job'[x].op \in Free
        PROVE  pc'[y] \in Aside
    BY <2>1 DEF MeetInv
  <2>2. ASSUME "stale" \notin odd', NEW x \in Tasks, NEW y \in Tasks, x # y
        PROVE  pc'[x] \in Aside \/ pc'[y] \in Aside
    BY <2>2 DEF MeetInv
  <2>3. QED BY <2>1, <2>2 DEF MeetInv
<1>3. RunInv'
  <2> SUFFICES ASSUME odd' \cap {"crossed", "failed"} = {}
               PROVE  /\ (\A q \in Tasks : pc'[q] \notin Applying) => Calm'
                      /\ \A q \in Tasks : RunTask(q)'
    BY DEF RunInv
  <2>1. odd \cap {"crossed", "failed"} = {}
    OBVIOUS
  <2>2. RunTask("ui")'
    BY DEF RunTask, Aside, Applying, Chosen, Before
  <2>3. Coherent => Coherent'
    BY DEF Coherent
  <2>4. ASSUME NEW q \in Tasks, q # "ui" PROVE RunTask(q)'
    <3>1. RunTask(q) /\ pc'[q] = pc[q] /\ job'[q] = job[q]
      BY <2>1, <2>4 DEF RunInv
    <3>2. QED BY <2>3, <3>1 DEF RunTask
  <2>5. pc["ui"] \notin Applying
    BY DEF Applying, Chosen
  <2>6. (\A q \in Tasks : pc'[q] \notin Applying) => Calm'
    BY <2>1, <2>3, <2>5 DEF RunInv, Calm
  <2>7. QED BY <2>2, <2>4, <2>6
<1>4. PeerInv'
  <2> SUFFICES ASSUME odd' \cap {"crossed", "stale", "failed", "silent"} = {}
               PROVE  /\ (\A q \in Tasks : ~Late(q)') => peer' \in {None, Codec[runtime']}
                      /\ \A q \in Tasks : PeerTask(q)'
    BY DEF PeerInv
  <2>1. odd \cap {"crossed", "stale", "failed", "silent"} = {}
    OBVIOUS
  <2>2. PeerTask("ui")' /\ ~Late("ui")
    BY DEF PeerTask, Late, Read, Aside, Applying, Chosen
  <2>3. ASSUME NEW q \in Tasks, q # "ui" PROVE PeerTask(q)' /\ (Late(q)' <=> Late(q))
    BY <2>1, <2>3 DEF PeerInv, PeerTask, Late, Read
  <2>4. (\A q \in Tasks : ~Late(q)') => peer' \in {None, Codec[runtime']}
    BY <2>1, <2>2, <2>3 DEF PeerInv
  <2>5. QED BY <2>2, <2>3, <2>4
<1>5. QED BY <1>1, <1>2, <1>3, <1>4

\* Everything that the copies of the settings and the peer rest on.
CopiesInv == PathInv /\ MeetInv /\ RunInv /\ PeerInv

\* Requests that arrive, from a browser or from the user interface.
LEMMA CopiesBegin ==
    ASSUME TypeOK, CopiesInv,
           \/ \E p \in Procs : Request(p)
           \/ \E s \in Configs : ApplyFromHost(s)
    PROVE  CopiesInv'
<1> USE ConstantsAssumption, Defaults
<1>0. /\ Procs \subseteq Tasks /\ "ui" \in Tasks /\ NoJob.back = FALSE /\ revision \in Nat
      /\ Codec[runtime] \in Codecs
  BY DEF Tasks, NoJob, TypeOK, AuthorityType, CaptureType, Codec, Codecs
<1>1. ASSUME NEW p \in Procs, NEW s \in Configs, SetVideoSettings(p, s) PROVE CopiesInv'
  <2>1. [NoJob EXCEPT !.s = s, !.base = revision] \in Job
    BY <1>0, JobUpdates
  <2>2. Arrival("set", [NoJob EXCEPT !.s = s, !.base = revision])
    BY DEF Arrival, NoJob
  <2>3. QED BY <1>0, <1>1, <2>1, <2>2, Begins
            DEF SetVideoSettings, CopiesInv, Ops, authorityVars, captureVars
<1>2. ASSUME NEW p \in Procs, NEW b \in Reports, SetBrowserVideoCapabilities(p, b)
      PROVE  CopiesInv'
  <2>1. [NoJob EXCEPT !.b = b] \in Job
    BY JobUpdates
  <2>2. Arrival("caps", [NoJob EXCEPT !.b = b])
    BY DEF Arrival, NoJob
  <2>3. QED BY <1>0, <1>2, <2>1, <2>2, Begins
            DEF SetBrowserVideoCapabilities, CopiesInv, Ops, authorityVars, captureVars
<1>3. ASSUME NEW p \in Procs, NEW c, VideoPresented(p, c) PROVE CopiesInv'
  <2>1. Arrival("presented", NoJob)
    BY <1>0 DEF Arrival
  <2>2. QED BY <1>0, <1>3, <2>1, Begins DEF VideoPresented, CopiesInv, Ops, captureVars
<1>4. ASSUME NEW p \in Procs, NEW m, NEW x, NEW n, RecordVideoBenchmark(p, m, x, n)
      PROVE  CopiesInv'
  <2>1. Arrival("bench", NoJob)
    BY <1>0 DEF Arrival
  <2>2. \E l \in {"idle", "settings"} : Begin(p, "bench", l, NoJob)
    BY <1>4 DEF RecordVideoBenchmark
  <2>3. UNCHANGED <<authorityVars, captureVars, hostVars, peer>>
    BY <1>4 DEF RecordVideoBenchmark
  <2>4. QED BY <1>0, <2>1, <2>2, <2>3, Begins DEF CopiesInv, Ops, authorityVars, captureVars
<1>5. ASSUME NEW p \in Procs, ClearVideoBenchmarks(p) PROVE CopiesInv'
  <2>1. Arrival("clear", NoJob)
    BY <1>0 DEF Arrival
  <2>2. QED BY <1>0, <1>5, <2>1, Begins
            DEF ClearVideoBenchmarks, CopiesInv, Ops, authorityVars, captureVars
<1>6. ASSUME NEW p \in Procs, Offer(p) PROVE CopiesInv'
  <2>1. [NoJob EXCEPT !.prev = Codec[runtime]] \in Job
    BY <1>0, JobUpdates
  <2>2. Arrival("offer", [NoJob EXCEPT !.prev = Codec[runtime]])
    BY DEF Arrival, NoJob
  <2>3. QED BY <1>0, <1>6, <2>1, <2>2, Begins
            DEF Offer, CopiesInv, Ops, authorityVars, captureVars
<1>7. ASSUME NEW s \in Configs, ApplyFromHost(s) PROVE CopiesInv'
  <2>1. [NoJob EXCEPT !.s = s] \in Job
    BY JobUpdates
  <2>2. Arrival("host", [NoJob EXCEPT !.s = s])
    BY DEF Arrival, NoJob
  <2>3. QED BY <1>0, <1>7, <2>1, <2>2, Begins
            DEF ApplyFromHost, CopiesInv, Ops, authorityVars, captureVars
<1>8. QED BY <1>1, <1>2, <1>3, <1>4, <1>5, <1>6, <1>7 DEF Request

\* The steps of the tasks that run.
LEMMA CopiesStep ==
    ASSUME TypeOK, EditInv, CopiesInv, NEW p \in Tasks, Step(p)
    PROVE  CopiesInv'
<1>1. PathInv'
  <2>1. PathTask(p)'
    BY PathOwn DEF CopiesInv
  <2>2. ASSUME NEW q \in Tasks, q # p PROVE PathTask(q)'
    BY <2>2, OthersKeep DEF CopiesInv, PathInv, PathTask
  <2>3. QED BY <2>1, <2>2 DEF PathInv
<1>2. MeetInv'
  BY MeetStep DEF CopiesInv
<1>3. RunInv'
  BY RunOwn, RunOthers DEF CopiesInv, RunInv
<1>4. PeerInv'
  <2> SUFFICES ASSUME odd' \cap {"crossed", "stale", "failed", "silent"} = {}
               PROVE  /\ (\A q \in Tasks : ~Late(q)') => peer' \in {None, Codec[runtime']}
                      /\ \A q \in Tasks : PeerTask(q)'
    BY DEF PeerInv
  <2>1. PeerTask(p)' /\ (~Late(p)' => peer' \in {None, Codec[runtime']})
    BY PeerOwn DEF CopiesInv
  <2>2. ASSUME NEW q \in Tasks, q # p PROVE PeerTask(q)'
    BY <2>2, PeerOthers DEF CopiesInv
  <2>3. QED BY <2>1, <2>2
<1>5. QED BY <1>1, <1>2, <1>3, <1>4 DEF CopiesInv

\* A start of the program brings all copies back together.
LEMMA CopiesBoot ==
    ASSUME NEW f, Boot(f)
    PROVE  CopiesInv'
<1>1. \A q \in Tasks : pc'[q] = "idle"
  BY DEF Boot
<1>2. Calm' /\ peer' = None
  BY DEF Boot, Calm, Coherent
<1>3. PathInv' /\ MeetInv'
  BY <1>1 DEF PathInv, PathTask, MeetInv, Aside, Applying, Chosen
<1>4. RunInv'
  BY <1>1, <1>2 DEF RunInv, RunTask, Applying, Chosen, Before
<1>5. PeerInv'
  BY <1>1, <1>2 DEF PeerInv, PeerTask, Late, Read, Applying, Chosen
<1>6. QED BY <1>3, <1>4, <1>5 DEF CopiesInv

\* Along every behaviour a task that applies settings knows how far it has come, and
\* nobody else is in its way unless that was recorded.
THEOREM CopiesAccounted == Spec => []CopiesInv
<1>1. Init => CopiesInv
  <2> SUFFICES ASSUME Init PROVE CopiesInv
    OBVIOUS
  <2>1. \A q \in Tasks : pc[q] = "idle"
    BY DEF Init
  <2>2. Calm /\ peer = None
    BY DEF Init, Calm, Coherent, Default
  <2>3. PathInv /\ MeetInv
    BY <2>1 DEF PathInv, PathTask, MeetInv, Aside, Applying, Chosen
  <2>4. RunInv
    BY <2>1, <2>2 DEF RunInv, RunTask, Applying, Chosen, Before
  <2>5. PeerInv
    BY <2>1, <2>2 DEF PeerInv, PeerTask, Late, Read, Applying, Chosen
  <2>6. QED BY <2>3, <2>4, <2>5 DEF CopiesInv
<1>2. TypeOK /\ EditInv /\ CopiesInv /\ [Next]_vars => CopiesInv'
  <2> SUFFICES ASSUME TypeOK, EditInv, CopiesInv, [Next]_vars PROVE CopiesInv'
    OBVIOUS
  <2>0. TaskType /\ "ui" \in Tasks
    BY DEF TypeOK, Tasks
  <2>1. ASSUME HostChangeMonitor \/ HostSave \/ HostReport \/ HostExit PROVE CopiesInv'
    <3>1. \E l \in {"saving", "idle", "exit"} : Goto("ui", l)
      BY <2>1 DEF HostChangeMonitor, HostSave, HostReport, HostExit
    <3>2. pc'["ui"] \in Aside /\ \A q \in Tasks \ {"ui"} : pc'[q] = pc[q]
      BY <2>0, <3>1, Moved DEF Aside
    <3>3. /\ pc["ui"] \in {"idle", "saving", "shown", "rejected"}
          /\ job' = job /\ odd \subseteq odd' /\ settings' = settings /\ video' = video
          /\ pipeline' = pipeline /\ runtime' = runtime
          /\ grab' \in {grab, video.cursor, None} /\ peer' = peer
      BY <2>1 DEF HostChangeMonitor, HostSave, HostReport, HostExit, Note, authorityVars,
                  captureVars
    <3>4. QED BY <3>2, <3>3, HostAside DEF CopiesInv
  <2>2. ASSUME HostBenchmark PROVE CopiesInv'
    <3>1. /\ pc["ui"] = "idle" /\ pc' = pc
          /\ job' = job /\ odd \subseteq odd' /\ settings' = settings /\ video' = video
          /\ pipeline' = pipeline /\ runtime' = runtime
          /\ grab' \in {grab, video.cursor, None} /\ peer' = peer
      BY <2>2 DEF HostBenchmark, authorityVars
    <3>2. QED BY <3>1, HostAside DEF CopiesInv, Aside
  <2>3. ASSUME HostSync \/ (\E s \in Configs : HostDraft(s)) \/ UNCHANGED vars
        PROVE  CopiesInv'
    <3>1. /\ pc' = pc /\ job' = job /\ odd' = odd /\ settings' = settings /\ video' = video
          /\ pipeline' = pipeline /\ runtime' = runtime /\ grab' = grab /\ peer' = peer
      BY <2>3 DEF HostSync, HostDraft, vars, authorityVars, captureVars
    <3>2. PathInv' /\ MeetInv'
      BY <3>1 DEF CopiesInv, PathInv, PathTask, MeetInv
    <3>3. RunInv'
      BY <3>1 DEF CopiesInv, RunInv, RunTask, Calm, Coherent
    <3>4. PeerInv'
      BY <3>1 DEF CopiesInv, PeerInv, PeerTask, Late, Read
    <3>5. QED BY <3>2, <3>3, <3>4 DEF CopiesInv
  <2>4. ASSUME Restart \/ Crash PROVE CopiesInv'
    BY <2>4, CopiesBoot DEF Restart, Crash
  <2>5. QED BY <2>1, <2>2, <2>3, <2>4, CopiesBegin, CopiesStep DEF Next, Host
<1>3. QED BY <1>1, <1>2, TypeCorrect, EditsHoldLock, PTL DEF Spec

\* At rest the running pipeline, the capture manager and the authority have one
\* configuration and the capture its cursor option, through failed preflights, failed
\* saves, rollbacks and restarts, unless a request without video_update met another one
\* or an error came after the pipeline was changed.
THEOREM RuntimeStaysTrue == Spec => []RuntimeFollowsAuthority
<1>1. CopiesInv => RuntimeFollowsAuthority
  <2> SUFFICES ASSUME CopiesInv, AtRest, odd \cap {"crossed", "failed"} = {} PROVE Calm
    BY DEF RuntimeFollowsAuthority, Calm, Coherent
  <2>1. \A p \in Tasks : pc[p] \notin Applying
    BY DEF AtRest, Applying, Chosen
  <2>2. QED BY <2>1 DEF CopiesInv, RunInv
<1>2. QED BY <1>1, CopiesAccounted, PTL

\* A retained peer has the codec that is encoded, as long as requests do not overlap, no
\* error came after a change, and neither a presentation nor a rollback changed the codec.
THEOREM PeerKeepsCodec == Spec => []PeerHasCodec
<1>1. CopiesInv => PeerHasCodec
  <2> SUFFICES ASSUME CopiesInv, AtRest, odd \cap {"crossed", "stale", "failed", "silent"} = {}
               PROVE  peer \in {None, Codec[runtime]}
    BY DEF PeerHasCodec
  <2>1. \A p \in Tasks : ~Late(p)
    BY DEF AtRest, Late, Applying, Chosen
  <2>2. QED BY <2>1 DEF CopiesInv, PeerInv
<1>2. QED BY <1>1, CopiesAccounted, PTL
=============================================================================
