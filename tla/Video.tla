-------------------------------- MODULE Video --------------------------------
(***************************************************************************)
(* The video settings of one host: the revisioned authority and the        *)
(* handlers of crates/transport/src/server.rs, the capture manager that    *)
(* carries them out (crates/host-windows/src/capture.rs), the files they   *)
(* are kept in (core/src/config.rs, host-windows/src/learned.rs), the      *)
(* user interface that shares them (apps/windows-host/src/main.rs), and    *)
(* the peer that was negotiated for one codec.                             *)
(*                                                                         *)
(* The handlers run on a multi-threaded runtime and take one mutex at a    *)
(* time, so a handler is a task whose steps end where it releases a lock;  *)
(* only edits hold video_update from their check to their adoption.  A     *)
(* configuration is its encoder, its active preset and the cursor option.  *)
(* Requests that are refused by a check of their own fields change nothing *)
(* and are left out.                                                       *)
(***************************************************************************)
EXTENDS Integers, FiniteSets

CONSTANTS
    Procs,        \* request handlers that can run at once
    Presets,      \* active presets: profile, width, frame rate, bitrates
    Usable,       \* encoder modes whose discovered candidate is_usable
    Configs,      \* bound: the configurations users ask for
    Reports,      \* bound: the capability reports browsers send
    MaxScore,     \* bound: scores of a benchmark that passed its gates
    MaxOps,       \* bound: requests, host actions and restarts
    MaxMeets,     \* bound: requests that begin while another one runs
    None

Modes  == {"H264Hardware", "HevcHardware", "Av1Hardware", "H264Software"}
Codecs == {"h264", "hevc", "av1"}

\* EncoderMode::codec of the modes that have one.
Codec == [m \in Modes |-> IF m = "HevcHardware" THEN "hevc"
                          ELSE IF m = "Av1Hardware" THEN "av1" ELSE "h264"]

Config  == [encoder : Modes \cup {"Auto"}, preset : Presets, cursor : BOOLEAN]
Browser == [known : BOOLEAN, reported : SUBSET Codecs, presented : SUBSET Codecs]
\* score_auto_candidate: 0 when a gate failed, else the rank of the weighted sum.
Scores  == 0..MaxScore
Learned == [Modes -> [Presets -> Scores]]
Tasks   == Procs \cup {"ui"}
Ops     == {"set", "host", "caps", "presented", "bench", "clear", "offer"}

ASSUME ConstantsAssumption ==
    /\ Usable \subseteq Modes /\ Configs \subseteq Config /\ Reports \subseteq Browser
    /\ Presets # {} /\ MaxScore \in Nat /\ MaxOps \in Nat /\ MaxMeets \in Nat
    /\ "ui" \notin Procs /\ None \notin Config /\ None \notin Modes \cup Codecs
    /\ None \notin Tasks

VARIABLES
    settings, revision,  \* AppState.video_settings
    update,              \* AppState.video_update: the task that holds it
    browser,             \* AppState.browser_video
    video, known,        \* CaptureManager.video and .browser
    pipeline,            \* CaptureManager.pipeline: configuration and mode
    booted,              \* TRUE until the pipeline is changed for the first time
    runtime,             \* CaptureManager.runtime: the active mode
    grab,                \* the running capture: its cursor option, or None
    learned,             \* CaptureManager.learned: mode, preset -> score, 0 none
    file, scores,        \* config.toml and codec-benchmarks.json
    config, seen,        \* HostApp: config.video and last_video_revision
    peer,                \* codec of the retained peer, or None
    pc, job,             \* tasks: next step and locals
    ops, meets,          \* bounds
    odd                  \* history: the exceptional things that happened

authorityVars == <<settings, revision, update, browser>>
captureVars   == <<video, known, pipeline, booted, runtime, grab>>
learnedVars   == <<learned, scores>>
hostVars      == <<file, config, seen>>
boundVars     == <<ops, meets>>
vars == <<authorityVars, captureVars, learnedVars, hostVars, peer, pc, job, boundVars, odd>>

\* The locals of a task: s and b are what it applies, prev the codec it read
\* first, got the codec apply_video_settings returned, base and old the revision
\* and the settings it replaces, mode the selected encoder, cursor whether the
\* capture must restart, back whether it is rolling back.
Job == [op : Ops, s : Config, b : Browser, prev : Codecs \cup {None},
        got : Codecs \cup {None}, base : Nat, old : Config,
        mode : Modes \cup {None}, cursor : BOOLEAN, back : BOOLEAN]

Pcs == {"idle", "codec", "settings", "browser", "lock", "select", "compare", "same",
        "preflight", "store", "pipeline", "runtime", "restart", "finish", "save",
        "adopt", "close", "wipe", "answer", "shown", "rejected", "saving", "exit"}

Unknown == [known |-> FALSE, reported |-> {}, presented |-> {}]
Default == [encoder |-> "Auto", preset |-> CHOOSE x \in Presets : TRUE, cursor |-> TRUE]
Nothing == [m \in Modes |-> [x \in Presets |-> 0]]
NoJob   == [op |-> "clear", s |-> Default, b |-> Unknown, prev |-> None, got |-> None,
            base |-> 0, old |-> Default, mode |-> None, cursor |-> FALSE, back |-> FALSE]

AuthorityType ==
    /\ settings \in Config /\ revision \in Nat \ {0} /\ update \in Tasks \cup {None}
    /\ browser \in Browser
CaptureType ==
    /\ video \in Config /\ known \in Browser /\ booted \in BOOLEAN
    /\ pipeline \in [video : Config, mode : Modes]
    /\ runtime \in Modes /\ grab \in BOOLEAN \cup {None}
LearnedType == learned \in Learned /\ scores \in Learned
HostType ==
    /\ file \in Config \cup {None} /\ config \in Config /\ seen \in Nat
    /\ peer \in Codecs \cup {None}
\* From the selection on a task has a mode.
Selected == {"compare", "same", "preflight", "store", "pipeline", "runtime", "restart",
             "finish"}
TaskType ==
    /\ pc \in [Tasks -> Pcs] /\ job \in [Tasks -> Job]
    /\ \A p \in Tasks : pc[p] \in Selected => job[p].mode \in Modes
BoundType ==
    /\ ops \in 0..MaxOps /\ meets \in 0..MaxMeets
    /\ odd \subseteq {"crossed", "stale", "failed", "silent", "draft", "broken"}
TypeOK ==
    AuthorityType /\ CaptureType /\ LearnedType /\ HostType /\ TaskType /\ BoundType

-----------------------------------------------------------------------------
(* select_encoder                                                           *)

\* functional(HevcHardware).or_else(|| functional(H264Hardware))...
Provisional(b) ==
    IF "hevc" \in b.reported /\ "HevcHardware" \in Usable THEN {"HevcHardware"}
    ELSE IF "H264Hardware" \in Usable THEN {"H264Hardware"}
    ELSE Usable \cap {"H264Software"}

\* Candidates with a verified result for this receiver and this preset.
Measured(s, b, l) ==
    {m \in Usable : b.known /\ Codec[m] \in b.reported /\ l[m][s.preset] > 0}

\* The modes select_encoder may return; none when it returns an error.
SelectEncoder(s, b, l) ==
    IF s.encoder # "Auto"
    THEN {m \in Usable : m = s.encoder /\ (b.known => Codec[m] \in b.reported)}
    ELSE IF Measured(s, b, l) # {}
    THEN {m \in Measured(s, b, l) :
             \A n \in Measured(s, b, l) : l[n][s.preset] <= l[m][s.preset]}
    ELSE Provisional(b)

\* What Auto may return to when the selected encoder does not initialize.
Fallback(m) == {n \in Usable \cap {"H264Hardware", "H264Software"} : n # m}

-----------------------------------------------------------------------------
(* Tasks                                                                    *)

Goto(p, l) == pc' = [pc EXCEPT ![p] = l]
Set(p, j) == job' = [job EXCEPT ![p] = j]
Note(x) == odd' = odd \cup x
Count == ops < MaxOps /\ ops' = ops + 1
Locked(op) == op \in {"set", "host"}

\* Tasks that run next to each other: `stale` when any two do, `crossed` when
\* one of them applies settings without holding video_update.
Others(p) == {q \in Tasks : q # p /\ pc[q] # "idle"}
Meets(p, op) ==
    {x \in {"stale", "crossed"} :
        /\ Others(p) # {}
        /\ x = "crossed" => \E o \in {op} \cup {job[q].op : q \in Others(p)} :
                               o \in {"caps", "presented", "bench"}}

\* A request passes its authorization and its checks.
Begin(p, op, l, j) ==
    /\ pc[p] = "idle"
    /\ Count
    /\ meets' = IF Others(p) = {} THEN meets ELSE meets + 1
    /\ meets' <= MaxMeets
    /\ Goto(p, l)
    /\ Set(p, [j EXCEPT !.op = op])
    /\ Note(Meets(p, op))

\* The handler answers; the user interface reads the outcome in a last step.
Leave(p, ok) ==
    /\ Goto(p, IF p # "ui" THEN "idle" ELSE IF ok THEN "shown" ELSE "rejected")
    /\ Set(p, NoJob)
    /\ update' = IF update = p THEN None ELSE update

\* An error after the pipeline was changed, or during a rollback, leaves the
\* capture manager with other settings than the authority.
Fails(p, changed) ==
    /\ Leave(p, FALSE)
    /\ Note(IF changed \/ job[p].back THEN {"failed"} ELSE {})

-----------------------------------------------------------------------------
(* The handlers up to apply_video_settings                                  *)

\* set_video_settings: base_revision is current at the first check.
SetVideoSettings(p, s) ==
    /\ Begin(p, "set", "codec", [NoJob EXCEPT !.s = s, !.base = revision])
    /\ UNCHANGED <<authorityVars, captureVars, learnedVars, hostVars, peer>>

\* The encoders the card offers: Auto, and what the compatibility matrix shows as
\* usable here and reported by a known receiver.
Offered(m) == m = "Auto" \/ (m \in Usable /\ (browser.known => Codec[m] \in browser.reported))

\* source_settings_card: a new encoder or profile, or APPLY LIVE in the frame
\* of an edit; apply_video_settings, apply_video_settings_from_host.
ApplyFromHost(s) ==
    /\ s # config
    /\ s.encoder # config.encoder => Offered(s.encoder)
    /\ Begin("ui", "host", "codec", [NoJob EXCEPT !.s = s])
    /\ config' = s
    /\ UNCHANGED <<authorityVars, captureVars, learnedVars, file, seen, peer>>

SetBrowserVideoCapabilities(p, b) ==
    /\ Begin(p, "caps", "codec", [NoJob EXCEPT !.b = b])
    /\ UNCHANGED <<authorityVars, captureVars, learnedVars, hostVars, peer>>

\* video_presented: flags are added to browser_video under its lock.
VideoPresented(p, c) ==
    /\ Begin(p, "presented", "browser", NoJob)
    /\ browser' = [browser EXCEPT !.presented = @ \cup {c}]
    /\ UNCHANGED <<settings, revision, update, captureVars, learnedVars, hostVars, peer>>

\* record_auto_benchmark: the receiver is the applied one and has presented the
\* codec, the candidate is usable; a result that failed its gates scores 0.
\* The results are saved under their lock; if that fails the handler stops.
RecordVideoBenchmark(p, m, x, score) ==
    /\ known.known /\ Codec[m] \in known.presented /\ m \in Usable
    /\ learned' = [learned EXCEPT ![m][x] = score]
    /\ \/ /\ Begin(p, "bench", "settings", NoJob)
          /\ scores' = learned'
       \/ /\ Begin(p, "bench", "idle", NoJob)
          /\ scores' = scores
    /\ UNCHANGED <<authorityVars, captureVars, hostVars, peer>>

\* clear_auto_benchmarks: the list is emptied and its lock released, ...
ClearVideoBenchmarks(p) ==
    /\ Begin(p, "clear", "wipe", NoJob)
    /\ learned' = Nothing
    /\ UNCHANGED <<authorityVars, captureVars, scores, hostVars, peer>>

\* ... then the empty list is saved, or not.
ClearSave(p) ==
    /\ pc[p] = "wipe"
    /\ scores' \in {Nothing, scores}
    /\ Leave(p, TRUE)
    /\ UNCHANGED <<settings, revision, browser, captureVars, learned, hostVars, peer,
                   boundVars, odd>>

\* video_runtime_status().codec before the change.
ReadCodec(p) ==
    /\ pc[p] = "codec"
    /\ Set(p, [job[p] EXCEPT !.prev = Codec[runtime]])
    /\ Goto(p, IF Locked(job[p].op) THEN "lock"
               ELSE IF job[p].op = "caps" THEN "settings" ELSE "browser")
    /\ UNCHANGED <<authorityVars, captureVars, learnedVars, hostVars, peer, boundVars, odd>>

\* A copy of the settings; a benchmark result is applied in Auto only.
ReadSettings(p) ==
    /\ pc[p] = "settings"
    /\ \/ /\ job[p].op = "bench" /\ settings.encoder # "Auto"
          /\ Leave(p, TRUE)
       \/ /\ job[p].op = "bench" => settings.encoder = "Auto"
          /\ Set(p, [job[p] EXCEPT !.s = settings])
          /\ Goto(p, IF job[p].op = "bench" THEN "codec" ELSE "select")
          /\ UNCHANGED update
    /\ UNCHANGED <<settings, revision, browser, captureVars, learnedVars, hostVars, peer,
                   boundVars, odd>>

ReadBrowser(p) ==
    /\ pc[p] = "browser"
    /\ Set(p, [job[p] EXCEPT !.b = browser])
    /\ Goto(p, IF job[p].op = "bench" THEN "select" ELSE "settings")
    /\ UNCHANGED <<authorityVars, captureVars, learnedVars, hostVars, peer, boundVars, odd>>

\* Mutation: the revision is not compared again under video_update.
MutantCheckOnce(p) ==
    /\ pc[p] = "lock" /\ update = None
    /\ update' = p
    /\ Set(p, [job[p] EXCEPT !.old = settings, !.b = browser])
    /\ Goto(p, "select")
    /\ UNCHANGED <<settings, revision, browser, captureVars, learnedVars, hostVars, peer,
                   boundVars, odd>>

\* apply_video_settings_state takes video_update and compares again; a task that
\* finds another revision returns its error.
LockUpdate(p) ==
    /\ pc[p] = "lock" /\ update = None
    /\ \/ /\ job[p].op = "set" => job[p].base = revision
          /\ update' = p
          /\ Set(p, [job[p] EXCEPT !.old = settings, !.b = browser])
          /\ Goto(p, "select")
       \/ /\ job[p].op = "set" /\ job[p].base # revision
          /\ Leave(p, FALSE)
    /\ UNCHANGED <<settings, revision, browser, captureVars, learnedVars, hostVars, peer,
                   boundVars, odd>>

-----------------------------------------------------------------------------
(* CaptureManager::apply_video_settings                                     *)

Select(p) ==
    LET modes == SelectEncoder(job[p].s, job[p].b, learned) IN
    /\ pc[p] = "select"
    /\ \/ /\ \E m \in modes : Set(p, [job[p] EXCEPT !.mode = m])
          /\ Goto(p, "compare")
          /\ UNCHANGED <<update, odd>>
       \/ modes = {} /\ Fails(p, FALSE)
    /\ UNCHANGED <<settings, revision, browser, captureVars, learnedVars, hostVars, peer,
                   boundVars>>

\* Nothing changes: only the copy of the browser's report is kept.
Compare(p) ==
    /\ pc[p] = "compare"
    /\ Goto(p, IF video = job[p].s /\ runtime = job[p].mode THEN "same" ELSE "preflight")
    /\ UNCHANGED <<authorityVars, captureVars, learnedVars, hostVars, peer, job,
                   boundVars, odd>>

\* Mutation: a manual encoder that does not initialize is replaced as well.
MutantReplaceManual(p) ==
    /\ pc[p] = "preflight"
    /\ \/ Goto(p, "store") /\ UNCHANGED <<job, update, odd>>
       \/ /\ \E m \in Fallback(job[p].mode) : Set(p, [job[p] EXCEPT !.mode = m])
          /\ Goto(p, "store")
          /\ UNCHANGED <<update, odd>>
       \/ Fails(p, FALSE)
    /\ UNCHANGED <<settings, revision, browser, captureVars, learnedVars, hostVars, peer,
                   boundVars>>

\* preflight_encoder, which may fail for any encoder; only Auto falls back.
Preflight(p) ==
    /\ pc[p] = "preflight"
    /\ \/ Goto(p, "store") /\ UNCHANGED <<job, update, odd>>
       \/ /\ job[p].s.encoder = "Auto"
          /\ \E m \in Fallback(job[p].mode) : Set(p, [job[p] EXCEPT !.mode = m])
          /\ Goto(p, "store")
          /\ UNCHANGED <<update, odd>>
       \/ Fails(p, FALSE)
    /\ UNCHANGED <<settings, revision, browser, captureVars, learnedVars, hostVars, peer,
                   boundVars>>

StoreVideo(p) ==
    /\ pc[p] = "store"
    /\ Set(p, [job[p] EXCEPT !.cursor = (video.cursor # job[p].s.cursor)])
    /\ video' = job[p].s
    /\ known' = job[p].b
    /\ Goto(p, "pipeline")
    /\ UNCHANGED <<authorityVars, pipeline, booted, runtime, grab, learnedVars, hostVars,
                   peer, boundVars, odd>>

\* Configuration and mode change together, under the lock the encoder reads.
StorePipeline(p) ==
    /\ pc[p] = "pipeline"
    /\ pipeline' = [video |-> job[p].s, mode |-> job[p].mode]
    /\ booted' = FALSE
    /\ Goto(p, "runtime")
    /\ UNCHANGED <<authorityVars, video, known, runtime, grab, learnedVars, hostVars, peer,
                   job, boundVars, odd>>

StoreRuntime(p) ==
    /\ pc[p] = "runtime"
    /\ runtime' = job[p].mode
    /\ Note(IF job[p].op = "presented" /\ Codec[job[p].mode] # Codec[runtime]
            THEN {"silent"} ELSE {})
    /\ Goto(p, IF job[p].cursor THEN "restart" ELSE "finish")
    /\ UNCHANGED <<authorityVars, video, known, pipeline, booted, grab, learnedVars, hostVars,
                   peer, job, boundVars>>

\* start_monitor, which stops the capture before it can fail.
RestartCapture(p) ==
    /\ pc[p] = "restart"
    /\ \/ grab' = video.cursor /\ Goto(p, "finish") /\ UNCHANGED <<job, update, odd>>
       \/ grab' = None /\ Fails(p, TRUE)
    /\ UNCHANGED <<settings, revision, browser, video, known, pipeline, booted, runtime,
                   learnedVars, hostVars, peer, boundVars>>

\* Mutation: record_video_benchmark keeps the peer.
MutantBenchKeepsPeer(p, got) ==
    /\ IF job[p].op \in {"presented", "bench"} \/ job[p].back
       THEN Leave(p, TRUE)
       ELSE /\ Set(p, [job[p] EXCEPT !.got = got])
            /\ Goto(p, IF job[p].op = "caps" THEN "adopt" ELSE "save")
            /\ UNCHANGED update
    /\ Note(IF job[p].back /\ got # job[p].prev THEN {"silent"} ELSE {})

\* What the callers do with the runtime status that is returned.  A rollback
\* selects an encoder again, and its outcome is not looked at.
Returned(p, got) ==
    /\ \/ Locked(job[p].op) /\ job[p].back /\ Leave(p, FALSE)
       \/ /\ Locked(job[p].op) /\ ~job[p].back
          /\ Set(p, [job[p] EXCEPT !.got = got]) /\ Goto(p, "save")
          /\ UNCHANGED update
       \/ /\ job[p].op = "caps"
          /\ Set(p, [job[p] EXCEPT !.got = got]) /\ Goto(p, "adopt")
          /\ UNCHANGED update
       \/ job[p].op = "presented" /\ Leave(p, TRUE)
       \/ job[p].op = "bench" /\ got = job[p].prev /\ Leave(p, TRUE)
       \/ /\ job[p].op = "bench" /\ got # job[p].prev
          /\ Goto(p, "close")
          /\ UNCHANGED <<job, update>>
    /\ Note(IF job[p].back /\ got # job[p].prev THEN {"silent"} ELSE {})

Unchanged(p) ==
    /\ pc[p] = "same"
    /\ known' = job[p].b
    /\ Returned(p, Codec[runtime])
    /\ UNCHANGED <<settings, revision, browser, video, pipeline, booted, runtime, grab,
                   learnedVars, hostVars, peer, boundVars>>

\* A keyframe is requested; the status is read again before it is returned.
Finish(p) ==
    /\ pc[p] = "finish"
    /\ Returned(p, Codec[runtime])
    /\ UNCHANGED <<settings, revision, browser, captureVars, learnedVars, hostVars, peer,
                   boundVars>>

-----------------------------------------------------------------------------
(* The handlers after apply_video_settings                                  *)

\* Mutation: the rollback of a change that could not be saved is left out.
MutantNoRollback(p) ==
    /\ pc[p] = "save"
    /\ \/ file # None /\ file' = job[p].s /\ Goto(p, "adopt") /\ UNCHANGED <<job, update>>
       \/ file' \in {file, None} /\ Leave(p, FALSE)
    /\ UNCHANGED <<settings, revision, browser, captureVars, learnedVars, config, seen, peer,
                   boundVars, odd>>

\* Mutation: a failed save is ignored.
MutantIgnoreSaveError(p) ==
    /\ pc[p] = "save"
    /\ file' \in {file, IF file = None THEN None ELSE job[p].s}
    /\ Goto(p, "adopt")
    /\ UNCHANGED <<authorityVars, captureVars, learnedVars, config, seen, peer, job,
                   boundVars, odd>>

\* save_video_settings reads config.toml and writes it again; when that fails
\* (always, when the file cannot be read) the previous settings are applied.  A
\* failed write may leave a file that cannot be read: None.
Save(p) ==
    /\ pc[p] = "save"
    /\ \/ /\ file # None
          /\ file' = job[p].s
          /\ Goto(p, "adopt")
          /\ UNCHANGED <<job, odd>>
       \/ /\ file' \in {file, None}
          /\ Note(IF file' = None THEN {"broken"} ELSE {})
          /\ Set(p, [job[p] EXCEPT !.s = job[p].old, !.back = TRUE])
          /\ Goto(p, "select")
    /\ UNCHANGED <<authorityVars, captureVars, learnedVars, config, seen, peer, boundVars>>

\* The settings or the report become the shared ones; a peer of another codec
\* has to go.
Adopt(p) ==
    /\ pc[p] = "adopt"
    /\ \/ /\ Locked(job[p].op)
          /\ settings' = job[p].s /\ revision' = revision + 1
          /\ UNCHANGED browser
       \/ /\ job[p].op = "caps"
          /\ browser' = job[p].b
          /\ UNCHANGED <<settings, revision>>
    /\ \/ job[p].got = job[p].prev /\ Leave(p, TRUE)
       \/ /\ job[p].got # job[p].prev
          /\ update' = IF update = p THEN None ELSE update
          /\ Goto(p, "close")
          /\ UNCHANGED job
    /\ UNCHANGED <<captureVars, learnedVars, hostVars, peer, boundVars, odd>>

ClosePeer(p) ==
    /\ pc[p] = "close"
    /\ peer' = None
    /\ Leave(p, TRUE)
    /\ UNCHANGED <<settings, revision, browser, captureVars, learnedVars, hostVars,
                   boundVars, odd>>

-----------------------------------------------------------------------------
(* webrtc_offer: the codec is read before the negotiation                   *)

Offer(p) ==
    /\ Begin(p, "offer", "answer", [NoJob EXCEPT !.prev = Codec[runtime]])
    /\ UNCHANGED <<authorityVars, captureVars, learnedVars, hostVars, peer>>

OfferAnswer(p) ==
    /\ pc[p] = "answer"
    /\ peer' = job[p].prev
    /\ Leave(p, TRUE)
    /\ UNCHANGED <<settings, revision, browser, captureVars, learnedVars, hostVars,
                   boundVars, odd>>

-----------------------------------------------------------------------------
(* HostApp                                                                  *)

\* ui: every frame looks at the revision; another one replaces config.video.
HostSync ==
    /\ pc["ui"] = "idle"
    /\ seen' = revision
    /\ config' = IF seen # revision THEN settings ELSE config
    /\ UNCHANGED <<authorityVars, captureVars, learnedVars, file, peer, pc, job, boundVars, odd>>

\* source_settings_card: an edit that is not applied stays in config.video.
HostDraft(s) ==
    /\ pc["ui"] = "idle"
    /\ s.encoder = config.encoder /\ s # config
    /\ config' = s
    /\ Count
    /\ UNCHANGED <<authorityVars, captureVars, learnedVars, file, seen, peer, pc, job,
                   meets, odd>>

\* change_monitor: the capture starts again, or fails to, and then the
\* configuration is saved.
HostChangeMonitor ==
    /\ pc["ui"] = "idle"
    /\ grab' \in {video.cursor, None}
    /\ Goto("ui", "saving")
    /\ Count
    /\ UNCHANGED <<authorityVars, video, known, pipeline, booted, runtime, learnedVars,
                   hostVars, peer, job, meets, odd>>

\* config.save() of change_monitor, and of handlers that change other parts of
\* the configuration (apply_input_options, the Files page, the adoption of input
\* settings): all of it is written, config.video included.
HostSave ==
    /\ pc["ui"] \in {"idle", "saving"}
    /\ file' \in {config, None}
    /\ Note((IF file' = None THEN {"broken"} ELSE {})
            \cup (IF config # file THEN {"draft"} ELSE {}))
    /\ Goto("ui", "idle")
    /\ \/ pc["ui"] = "saving" /\ UNCHANGED ops
       \/ pc["ui"] = "idle" /\ Count
    /\ UNCHANGED <<authorityVars, captureVars, learnedVars, config, seen, peer, job, meets>>

\* start_video_benchmark stops the capture, poll_video_benchmark starts it again.
HostBenchmark ==
    /\ pc["ui"] = "idle"
    /\ grab' \in {video.cursor, None}
    /\ Count
    /\ UNCHANGED <<authorityVars, video, known, pipeline, booted, runtime, learnedVars,
                   hostVars, peer, pc, job, meets, odd>>

\* apply_video_settings: Ok or Err.
HostReport ==
    /\ pc["ui"] \in {"shown", "rejected"}
    /\ config' = settings
    /\ seen' = IF pc["ui"] = "shown" THEN revision ELSE seen
    /\ Goto("ui", "idle")
    /\ UNCHANGED <<authorityVars, captureVars, learnedVars, file, peer, job, boundVars, odd>>

\* on_exit: the settings are read, the server stopped, the configuration saved.
HostExit ==
    /\ pc["ui"] = "idle"
    /\ config' = settings
    /\ Goto("ui", "exit")
    /\ Count
    /\ UNCHANGED <<authorityVars, captureVars, learnedVars, file, seen, peer, job, meets, odd>>

\* main: everything is loaded again; defaults stand in for a broken file, and
\* OpenH264 for an encoder that cannot be selected.
Boot(f) ==
    LET s == IF f = None THEN Default ELSE f
        modes == SelectEncoder(s, Unknown, scores)
        mode == IF modes = {} THEN "H264Software" ELSE CHOOSE m \in modes : TRUE
    IN
    /\ file' = f
    /\ settings' = s /\ revision' = 1 /\ update' = None /\ browser' = Unknown
    /\ video' = s /\ known' = Unknown /\ booted' = TRUE
    /\ pipeline' = [video |-> s, mode |-> mode] /\ runtime' = mode
    /\ grab' \in {s.cursor, None}
    /\ learned' = scores
    /\ config' = s /\ seen' = 1
    /\ peer' = None
    /\ pc' = [p \in Tasks |-> "idle"] /\ job' = [p \in Tasks |-> NoJob]
    /\ odd' = IF f = None THEN {"broken"} ELSE {}
    /\ UNCHANGED <<scores, meets>>

Restart ==
    /\ pc["ui"] = "exit"
    /\ \A p \in Procs : pc[p] \in {"idle", "close", "answer"}
    /\ \E f \in {config, None} : Boot(f)
    /\ UNCHANGED ops

Crash == Count /\ Boot(file)

-----------------------------------------------------------------------------
Init ==
    LET mode == IF Provisional(Unknown) = {} THEN "H264Software"
                ELSE CHOOSE m \in Provisional(Unknown) : TRUE IN
    /\ settings = Default /\ revision = 1 /\ update = None /\ browser = Unknown
    /\ video = Default /\ known = Unknown /\ booted = TRUE
    /\ pipeline = [video |-> Default, mode |-> mode] /\ runtime = mode
    /\ grab = TRUE
    /\ learned = Nothing /\ scores = Nothing
    /\ file = Default /\ config = Default /\ seen = 1
    /\ peer = None
    /\ pc = [p \in Tasks |-> "idle"] /\ job = [p \in Tasks |-> NoJob]
    /\ ops = 0 /\ meets = 0 /\ odd = {}

\* A task takes its next step.
Step(p) ==
    \/ ReadCodec(p) \/ ReadSettings(p) \/ ReadBrowser(p) \/ LockUpdate(p)
    \/ Select(p) \/ Compare(p) \/ Unchanged(p) \/ Preflight(p)
    \/ StoreVideo(p) \/ StorePipeline(p) \/ StoreRuntime(p) \/ RestartCapture(p)
    \/ Finish(p) \/ Save(p) \/ Adopt(p) \/ ClosePeer(p) \/ ClearSave(p) \/ OfferAnswer(p)

Request(p) ==
    \/ \E s \in Configs : SetVideoSettings(p, s)
    \/ \E b \in Reports : SetBrowserVideoCapabilities(p, b)
    \/ \E m \in Usable : VideoPresented(p, Codec[m])
    \/ \E m \in Modes, x \in Presets, n \in Scores : RecordVideoBenchmark(p, m, x, n)
    \/ ClearVideoBenchmarks(p)
    \/ Offer(p)

Host ==
    \/ \E s \in Configs : ApplyFromHost(s) \/ HostDraft(s)
    \/ HostSync \/ HostChangeMonitor \/ HostSave \/ HostBenchmark \/ HostReport \/ HostExit

Next ==
    \/ \E p \in Procs : Request(p)
    \/ \E p \in Tasks : Step(p)
    \/ Host \/ Restart \/ Crash

Spec == Init /\ [][Next]_vars

-----------------------------------------------------------------------------
(* Properties                                                               *)

AtRest == \A p \in Tasks : pc[p] = "idle"

\* No edit is lost: settings are replaced only by an edit of the user at the
\* host, or by a request whose author had seen the settings it replaces, however
\* many requests passed their first check of the revision together.
EditsBuildOnCurrent ==
    [][\A p \in Procs :
          pc[p] = "adopt" /\ job[p].op = "set" /\ revision' = revision + 1
          /\ pc'[p] # "adopt" => job[p].base = revision]_vars

\* What the encoder is told is consistent whatever overlaps: a usable mode, and
\* for a manual choice that choice; only a start without any usable encoder for
\* the saved choice substitutes OpenH264.
PipelineCoherent ==
    ~booted => /\ pipeline.mode \in Usable
               /\ pipeline.video.encoder \in {"Auto", pipeline.mode}

\* When no request that applies settings without video_update met another one,
\* and no error came after the pipeline was changed: at rest the running
\* pipeline, the capture manager and the authority have one configuration, and
\* the capture shows or hides the cursor as it says.
RuntimeFollowsAuthority ==
    AtRest /\ odd \cap {"crossed", "failed"} = {} =>
        /\ pipeline.video = settings /\ video = settings
        /\ pipeline.mode = runtime
        /\ grab \in {None, video.cursor}

\* A retained peer was negotiated for the codec that is encoded, as long as
\* requests do not overlap, no error came after a change, and neither a report of
\* a presentation nor a rollback changed the codec.
PeerHasCodec ==
    AtRest /\ odd \cap {"crossed", "stale", "failed", "silent"} = {} =>
        peer \in {None, Codec[runtime]}

\* At rest config.toml holds the accepted settings, whatever failed, unless the
\* user interface saved a copy that differed or a write left a broken file.
FileFollowsAuthority ==
    AtRest /\ odd \cap {"draft", "broken"} = {} => file = settings
==============================================================================
