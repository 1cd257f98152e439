-------------------------------- MODULE Frames --------------------------------
(***************************************************************************)
(* The threads between the screen and the broadcast channel: the capture   *)
(* callback or the test pattern, the preprocessing thread, the encoder     *)
(* thread, and the calls that start, stop and reconfigure them             *)
(* (crates/host-windows/src/capture.rs, gpu_preprocess.rs, encoder.rs,     *)
(* mf_encoder.rs).  The stages hand each other single frames through two   *)
(* latest-frame slots; settings reach them through atomics and the         *)
(* pipeline selection, keyframe requests through one shared flag.          *)
(*                                                                         *)
(* A picture is its size, and the GPU surface it lives in if it has one;   *)
(* frame rates, and the rebuilds for one alone, are left out.              *)
(* The calls of the capture manager are taken one at a time.               *)
(***************************************************************************)
EXTENDS Integers, FiniteSets

CONSTANTS
    Sources,        \* what is captured: "monitor", "pattern" or both
    Modes,          \* encoder modes in use
    Sizes,          \* picture sizes, ordered
    StartWidth,     \* the configured width at the start
    MaxInFlight,    \* MAX_IN_FLIGHT_SURFACES
    MaxGeneration,  \* bound: changes of the pipeline
    MaxUpsets,      \* bound: failures, skipped frames, changes of the display
    None

VARIABLES
    display,         \* size of the captured monitor
    live,            \* live_hardware and live_max_width
    pipeline,        \* PipelineSelection: generation and active_mode
    applying,        \* mode apply_video_settings is about to publish, or None
    asked,           \* KeyframeRequest.pending
    manager,         \* start_monitor, start_test_pattern_size, stop: next step
    source,          \* the thread that produces frames
    gpuOff,          \* ScreenCapture.gpu_capture_unavailable
    captures,        \* GpuSurfacePool of the capture callback
    slot, prepared,  \* LatestFrame and LatestPreparedFrame
    prep,            \* preprocessing thread: next step, frame and selection
    processor,       \* GpuVideoProcessor: input and output size, pool
    failedAt,        \* gpu_failed_generation
    coder,           \* encoder thread: next step, frame and selection
    generation, enc, \* encode_video_loop: generation and encoder
    upsets

sharedVars  == <<display, live, pipeline, applying>>
captureVars == <<manager, source, gpuOff, captures>>
prepVars    == <<prep, processor, failedAt>>
coderVars   == <<coder, generation, enc>>
vars == <<sharedVars, asked, captureVars, slot, prepared, prepVars, coderVars, upsets>>

RequiresHardware(m) == m # "H264Software"

\* Surfaces that can be alive at once: two pools, four frames of older pools and a
\* new one.
Surfaces  == 1..(2 * MaxInFlight + 5)
Frame     == [gpu : BOOLEAN, size : Sizes, surface : Surfaces \cup {None}]
Pool      == [key : Sizes \cup {None}, surfaces : SUBSET Surfaces]
Selection == [generation : 0..MaxGeneration, mode : Modes]
\* A thread: its next step, the frame it works on, the selection it read, and
\* whether the frame's surface is still what it was when the frame was made.
Thread    == [at : {"none", "take", "work", "make", "encode", "join", "done"},
              frame : Frame \cup {None}, sel : Selection \cup {None}, intact : BOOLEAN]
Slot      == [frame : Frame \cup {None}, stopped : BOOLEAN]
\* A video encoder: fresh until its first packet, asked by request_keyframe, built
\* for a D3D11 device, direct GPU input disabled, the size in its configuration
\* and the size its instance was built for.
Encoder   == [mode : Modes, fresh : BOOLEAN, force : BOOLEAN, d3d : BOOLEAN,
              disabled : BOOLEAN, config : Sizes, size : Sizes]
Processors == [in : Sizes, out : Sizes, pool : Pool]

ASSUME ConstantsAssumption ==
    /\ Sources \subseteq {"monitor", "pattern"} /\ Sources # {}
    /\ Modes \subseteq {"H264Hardware", "HevcHardware", "H264Software"} /\ Modes # {}
    /\ Sizes \subseteq Nat /\ Sizes # {} /\ StartWidth \in Sizes
    /\ MaxInFlight \in Nat \ {0} /\ MaxGeneration \in Nat /\ MaxUpsets \in Nat
    /\ None \notin Nat \cup Modes \cup Frame \cup Selection \cup Encoder \cup Processors

Idle    == [at |-> "none", frame |-> None, sel |-> None, intact |-> TRUE]
Empty   == [frame |-> None, stopped |-> FALSE]
NoPool  == [key |-> None, surfaces |-> {}]

SharedType ==
    /\ display \in Sizes /\ live \in [hardware : BOOLEAN, width : Sizes]
    /\ pipeline \in Selection /\ applying \in Modes \cup {None} /\ asked \in BOOLEAN
    /\ upsets \in 0..MaxUpsets
CaptureType ==
    /\ manager \in {"idle", "spawned", "running", "slot", "producer", "encoder"}
    /\ source \in {"none", "monitor", "check", "draw", "ended"} /\ gpuOff \in BOOLEAN
    /\ captures \in Pool /\ Cardinality(captures.surfaces) <= MaxInFlight
SlotType == slot \in Slot /\ prepared \in Slot
PrepType ==
    /\ prep \in Thread /\ (prep.at = "work" => prep.frame # None /\ prep.sel # None)
    /\ processor \in Processors \cup {None}
    /\ processor # None => Cardinality(processor.pool.surfaces) <= MaxInFlight
    /\ failedAt \in 0..MaxGeneration \cup {None}
CoderType ==
    /\ coder \in Thread
    /\ coder.at \in {"make", "encode"} => coder.frame # None /\ coder.sel # None
    /\ generation \in 0..MaxGeneration \cup {None}
    /\ enc \in Encoder \cup {None}
    /\ coder.at = "encode" => enc # None
TypeOK == SharedType /\ CaptureType /\ SlotType /\ PrepType /\ CoderType

Upset == upsets < MaxUpsets /\ upsets' = upsets + 1

-----------------------------------------------------------------------------
(* GpuSurfacePool                                                           *)

SurfaceOf(f) == IF f = None THEN None ELSE f.surface
\* Surfaces with a second Arc: the frames in the slots and in the threads' hands.
Held == {SurfaceOf(f) : f \in {slot.frame, prep.frame, prepared.frame, coder.frame}} \ {None}
Alive == Held \cup captures.surfaces
              \cup (IF processor = None THEN {} ELSE processor.pool.surfaces)
Least(S) == CHOOSE s \in S : \A t \in S : s <= t

\* Mutation: the strong count of a pooled surface is not looked at.
MutantReuseHeld(pool, size) ==
    LET own == IF pool.key = size THEN pool.surfaces ELSE {} IN
    IF own # {} THEN [pool |-> [key |-> size, surfaces |-> own], surface |-> Least(own)]
    ELSE LET s == Least(Surfaces \ Alive) IN
         [pool |-> [key |-> size, surfaces |-> own \cup {s}], surface |-> s]

\* Mutation: a new surface is created whatever the number of surfaces.
MutantUnbounded(pool, size) ==
    LET own == IF pool.key = size THEN pool.surfaces ELSE {}
        s   == Least(IF own \ Held # {} THEN own \ Held ELSE Surfaces \ Alive)
    IN  [pool |-> [key |-> size, surfaces |-> own \cup {s}], surface |-> s]

\* acquire: a pool for another size is emptied first; a surface nobody else
\* holds, a new one while there is room, or None.
Acquire(pool, size) ==
    LET own  == IF pool.key = size THEN pool.surfaces ELSE {}
        free == own \ Held
        new  == Least(Surfaces \ Alive)
    IN  IF free # {}
        THEN [pool |-> [key |-> size, surfaces |-> own], surface |-> Least(free)]
        ELSE IF Cardinality(own) >= MaxInFlight
        THEN [pool |-> [key |-> size, surfaces |-> own], surface |-> None]
        ELSE [pool |-> [key |-> size, surfaces |-> own \cup {new}], surface |-> new]

\* A thread whose surface s is written to no longer has an intact frame.
Overwrite(t, s) == [t EXCEPT !.intact = @ /\ SurfaceOf(t.frame) # s]

CpuFrame(size) == [gpu |-> FALSE, size |-> size, surface |-> None]
GpuFrame(size, s) == [gpu |-> TRUE, size |-> size, surface |-> s]
\* LatestFrame::submit: a frame that was not taken is replaced.
Submit(s, f) == [s EXCEPT !.frame = f]

-----------------------------------------------------------------------------
(* Sources                                                                  *)

\* on_frame_arrived, on the GPU: copy_capture_surface finds a surface, or the
\* frame is dropped.
FrameArrivedGpu ==
    LET got == Acquire(captures, display) IN
    /\ source = "monitor" /\ live.hardware /\ ~gpuOff
    /\ captures' = got.pool
    /\ \/ /\ got.surface # None
          /\ slot' = Submit(slot, GpuFrame(display, got.surface))
          /\ prep' = Overwrite(prep, got.surface)
       \/ got.surface = None /\ UNCHANGED <<slot, prep>>
    /\ UNCHANGED <<sharedVars, asked, manager, source, gpuOff, prepared, processor, failedAt,
                   coderVars, upsets>>

\* ... or through system memory: for a software encoder, after a failed GPU
\* copy, and for the frame whose copy fails.
FrameArrivedCpu ==
    /\ source = "monitor"
    /\ \/ ~(live.hardware /\ ~gpuOff)
          /\ UNCHANGED <<gpuOff, upsets>>
       \/ live.hardware /\ ~gpuOff /\ gpuOff' = TRUE /\ Upset
    /\ slot' = Submit(slot, CpuFrame(display))
    /\ UNCHANGED <<sharedVars, asked, manager, source, captures, prepared, prepVars,
                   coderVars>>

\* The capture item is closed: on_closed.
CaptureClosed ==
    /\ source = "monitor" /\ source' = "ended" /\ Upset
    /\ slot' = [slot EXCEPT !.stopped = TRUE]
    /\ UNCHANGED <<sharedVars, asked, manager, gpuOff, captures, prepared, prepVars,
                   coderVars>>

\* frame.buffer() fails and on_frame_arrived returns its error: the capture ends
\* and nobody stops the slot.
CaptureFails ==
    /\ source = "monitor" /\ source' = "ended" /\ Upset
    /\ UNCHANGED <<sharedVars, asked, manager, gpuOff, captures, slot, prepared, prepVars,
                   coderVars>>

\* The captured monitor gets another size; that of the pattern is fixed.
DisplayChanges ==
    /\ source = "monitor" /\ Upset
    /\ display' \in Sizes \ {display}
    /\ UNCHANGED <<live, pipeline, applying, asked, captureVars, slot, prepared, prepVars,
                   coderVars>>

\* Mutation: the producer does not look at the slot it fills.
MutantPatternGoesOn ==
    /\ source = "check"
    /\ source' = "draw"
    /\ UNCHANGED <<sharedVars, asked, manager, gpuOff, captures, slot, prepared, prepVars,
                   coderVars, upsets>>

\* test_pattern_loop: the slot is looked at, ...
PatternCheck ==
    /\ source = "check"
    /\ source' = IF slot.stopped THEN "ended" ELSE "draw"
    /\ UNCHANGED <<sharedVars, asked, manager, gpuOff, captures, slot, prepared, prepVars,
                   coderVars, upsets>>

\* ... and the frame drawn is submitted, stopped or not.
PatternSubmit ==
    /\ source = "draw"
    /\ source' = "check"
    /\ slot' = Submit(slot, CpuFrame(display))
    /\ UNCHANGED <<sharedVars, asked, manager, gpuOff, captures, prepared, prepVars,
                   coderVars, upsets>>

-----------------------------------------------------------------------------
(* preprocess_loop                                                          *)

\* slot.take(), which returns the last frame of a stopped slot, and the
\* selection of this frame.
PrepTake ==
    /\ prep.at = "take" /\ slot.frame # None
    /\ prep' = [at |-> "work", frame |-> slot.frame, sel |-> pipeline, intact |-> TRUE]
    /\ slot' = [slot EXCEPT !.frame = None]
    /\ UNCHANGED <<sharedVars, asked, captureVars, prepared, processor, failedAt,
                   coderVars, upsets>>

\* The slot is stopped and empty: output.stop(), the processor is dropped.
PrepEnd ==
    /\ prep.at = "take" /\ slot.frame = None /\ slot.stopped
    /\ prep' = [Idle EXCEPT !.at = "done"]
    /\ processor' = None /\ failedAt' = None
    /\ prepared' = [prepared EXCEPT !.stopped = TRUE]
    /\ UNCHANGED <<sharedVars, asked, captureVars, slot, coderVars, upsets>>

\* output_dimensions, resize_frame: no wider than live_max_width.
OutputSize(size) == IF size <= live.width THEN size ELSE live.width

OnGpu == prep.frame.gpu /\ RequiresHardware(prep.sel.mode) /\ failedAt # prep.sel.generation

\* GpuVideoProcessor::matches, or a new one with an empty pool.
Processor(f) ==
    IF processor # None /\ processor.in = f.size /\ processor.out = OutputSize(f.size)
    THEN processor
    ELSE [in |-> f.size, out |-> OutputSize(f.size), pool |-> NoPool]

\* GpuVideoProcessor::process into a surface of its pool; a full pool drops the frame.
PrepGpu ==
    LET f   == prep.frame
        got == Acquire(Processor(f).pool, OutputSize(f.size))
    IN  /\ prep.at = "work" /\ OnGpu
        /\ processor' = [Processor(f) EXCEPT !.pool = got.pool]
        /\ \/ /\ got.surface # None
              /\ prepared' = Submit(prepared, GpuFrame(OutputSize(f.size), got.surface))
              /\ coder' = Overwrite(coder, got.surface)
           \/ got.surface = None /\ UNCHANGED <<prepared, coder>>
        /\ prep' = [Idle EXCEPT !.at = "take"]
        /\ UNCHANGED <<sharedVars, asked, captureVars, slot, failedAt, generation, enc,
                       upsets>>

\* Resize and conversion in system memory: without GPU preprocessing, or when it
\* fails for this frame and for the rest of its generation.
PrepCpu ==
    LET size == OutputSize(prep.frame.size) IN
    /\ prep.at = "work"
    /\ \/ ~OnGpu /\ UNCHANGED <<processor, failedAt, upsets>>
       \/ OnGpu /\ processor' = None /\ failedAt' = prep.sel.generation /\ Upset
    /\ prepared' = Submit(prepared, CpuFrame(size))
    /\ prep' = [Idle EXCEPT !.at = "take"]
    /\ UNCHANGED <<sharedVars, asked, captureVars, slot, coderVars>>

\* read_bgra or the resizer fails, after GPU preprocessing if it was tried: the
\* frame is lost.
PrepFails ==
    /\ prep.at = "work" /\ Upset
    /\ \/ ~OnGpu /\ UNCHANGED <<processor, failedAt>>
       \/ OnGpu /\ processor' = None /\ failedAt' = prep.sel.generation
    /\ prep' = [Idle EXCEPT !.at = "take"]
    /\ UNCHANGED <<sharedVars, asked, captureVars, slot, prepared, coderVars>>

-----------------------------------------------------------------------------
(* encode_video_loop                                                        *)

\* Mutation: the encoder of the previous generation is kept.
MutantKeepEncoder ==
    /\ coder.at = "take" /\ prepared.frame # None
    /\ coder' = [at |-> "make", frame |-> prepared.frame, sel |-> pipeline, intact |-> TRUE]
    /\ prepared' = [prepared EXCEPT !.frame = None]
    /\ generation' = pipeline.generation
    /\ UNCHANGED <<sharedVars, asked, captureVars, slot, prepVars, enc, upsets>>

\* prepared.take() and the selection; the encoder of another generation is shut
\* down.
CoderTake ==
    /\ coder.at = "take" /\ prepared.frame # None
    /\ coder' = [at |-> "make", frame |-> prepared.frame, sel |-> pipeline, intact |-> TRUE]
    /\ prepared' = [prepared EXCEPT !.frame = None]
    /\ generation' = pipeline.generation
    /\ enc' = IF generation = pipeline.generation THEN enc ELSE None
    /\ UNCHANGED <<sharedVars, asked, captureVars, slot, prepVars, upsets>>

\* create_video_encoder for the mode selected and the size of this frame.
Created == [mode |-> coder.sel.mode, fresh |-> TRUE, force |-> FALSE, d3d |-> FALSE,
            disabled |-> FALSE, config |-> coder.frame.size, size |-> coder.frame.size]

\* An encoder there is or is created; then keyframe_request.take(), or a software
\* encoder whose last keyframe is old (to ask a fresh one changes nothing).
CoderMake ==
    /\ coder.at = "make"
    /\ \E due \in BOOLEAN :
          LET e == IF enc = None THEN Created ELSE enc IN
          /\ due => e.mode = "H264Software" /\ ~e.fresh
          /\ enc' = [e EXCEPT !.force = @ \/ asked \/ due]
    /\ asked' = FALSE
    /\ coder' = [coder EXCEPT !.at = "encode"]
    /\ UNCHANGED <<sharedVars, captureVars, slot, prepared, prepVars, generation, upsets>>

\* create_video_encoder fails: the loop goes on to the next frame and the request
\* stays pending.
CoderMakeFails ==
    /\ coder.at = "make" /\ enc = None /\ Upset
    /\ coder' = [Idle EXCEPT !.at = "take"]
    /\ UNCHANGED <<sharedVars, asked, captureVars, slot, prepared, prepVars, generation, enc>>

\* What becomes of an encoder that is given a frame, and how many calls failed on
\* the way: None is an error of encode().
Result(e, n) == [enc |-> e, failures |-> n]

\* MediaFoundationVideoEncoder::rebuild: the configuration changes even if the
\* new instance cannot be created.
Rebuilt(e, f, d3d) ==
    [e EXCEPT !.fresh = TRUE, !.force = FALSE, !.d3d = d3d, !.config = f.size,
              !.size = f.size]
Rebuild(e, f) == {Result(Rebuilt(e, f, FALSE), 0), Result(None, 1)}

\* encode_nv12, encode_texture: input, its events and the output packet; any of
\* it may fail or time out.
EncodeSample(results) == {Result(None, 1)} \cup results

\* Nv12Readback::read through a staging texture, which may fail as well.
Readback(results) == {Result(None, 1)} \cup results

\* encode_gpu_assisted: readback, a rebuild when one is needed.
Assisted(e, f) ==
    Readback(EncodeSample(IF e.force \/ e.d3d \/ f.size # e.config
                          THEN Rebuild(e, f) ELSE {Result(e, 0)}))

\* The same after n failed calls.
After(n, results) == {[r EXCEPT !.failures = @ + n] : r \in results}

\* encode of a frame in system memory.
EncodeI420(e, f) ==
    EncodeSample(IF e.force \/ f.size # e.config \/ e.d3d
                 THEN Rebuild(e, f) ELSE {Result(e, 0)})

\* Mutation: direct GPU input stays on after the rebuild for it failed.
MutantKeepDirect(e, f) ==
    IF e.disabled THEN Assisted(e, f)
    ELSE IF e.force \/ f.size # e.config \/ ~e.d3d
    THEN {Result(Rebuilt(e, f, TRUE), 0)} \cup After(1, Assisted([e EXCEPT !.config = f.size], f))
    ELSE {Result(e, 0)}

\* encode of a GPU surface: a D3D11 instance if one can be built and accepts the
\* surface, else GPU-assisted readback from then on.
EncodeGpu(e, f) ==
    LET off == [e EXCEPT !.disabled = TRUE, !.config = f.size]
        direct(d) == {Result(d, 0)} \cup
                     After(1, Assisted([d EXCEPT !.disabled = TRUE], f))
    IN  IF e.disabled THEN Assisted(e, f)
        ELSE IF e.force \/ f.size # e.config \/ ~e.d3d
        THEN direct(Rebuilt(e, f, TRUE)) \cup After(1, Assisted(off, f))
        ELSE direct(e)

\* OpenH264 takes system memory only; it adapts to the size of the picture.
EncodeOpenH264(e, f) ==
    {Result(None, 1)} \cup
    IF f.gpu THEN {Result(None, 0)}
    ELSE {Result([e EXCEPT !.config = f.size, !.size = f.size], 0)}

\* VideoEncoder::encode of the two implementations.
Encode(e, f) ==
    IF e.mode = "H264Software" THEN EncodeOpenH264(e, f)
    ELSE IF f.gpu THEN EncodeGpu(e, f) ELSE EncodeI420(e, f)

Spend(n) == upsets + n <= MaxUpsets /\ upsets' = upsets + n

\* A packet is sent.  The first packet of an instance is a keyframe, as is the
\* next one after force_intra_frame.
CoderSends ==
    /\ coder.at = "encode"
    /\ \E r \in Encode(enc, coder.frame), key \in BOOLEAN :
          /\ r.enc # None /\ Spend(r.failures)
          /\ (r.enc.fresh \/ r.enc.force) => key
          /\ enc' = [r.enc EXCEPT !.fresh = FALSE, !.force = @ /\ ~key]
    /\ coder' = [Idle EXCEPT !.at = "take"]
    /\ UNCHANGED <<sharedVars, asked, captureVars, slot, prepared, prepVars, generation>>

\* OpenH264 skips the frame.
CoderSkips ==
    /\ coder.at = "encode" /\ enc.mode = "H264Software" /\ ~coder.frame.gpu /\ Upset
    /\ enc' = [enc EXCEPT !.config = coder.frame.size, !.size = coder.frame.size]
    /\ coder' = [Idle EXCEPT !.at = "take"]
    /\ UNCHANGED <<sharedVars, asked, captureVars, slot, prepared, prepVars, generation>>

\* encode fails: the encoder is shut down and dropped.
CoderFails ==
    /\ coder.at = "encode"
    /\ \E r \in Encode(enc, coder.frame) : r.enc = None /\ Spend(r.failures)
    /\ enc' = None
    /\ coder' = [Idle EXCEPT !.at = "take"]
    /\ UNCHANGED <<sharedVars, asked, captureVars, slot, prepared, prepVars, generation>>

\* The prepared slot is stopped and empty: the encoder is shut down.
CoderEnd ==
    /\ coder.at = "take" /\ prepared.frame = None /\ prepared.stopped
    /\ coder' = [Idle EXCEPT !.at = "join"]
    /\ enc' = None /\ generation' = None
    /\ UNCHANGED <<sharedVars, asked, captureVars, slot, prepared, prepVars, upsets>>

\* encode_loop joins the preprocessing thread.
CoderJoin ==
    /\ coder.at = "join" /\ prep.at = "done"
    /\ coder' = [Idle EXCEPT !.at = "done"]
    /\ UNCHANGED <<sharedVars, asked, captureVars, slot, prepared, prepVars, generation, enc,
                   upsets>>

-----------------------------------------------------------------------------
(* CaptureManager: start_monitor, start_test_pattern_size, stop             *)

\* A new slot and the encoder thread, which starts the preprocessing thread; if
\* that fails the encoder thread returns.
Spawn(threads) ==
    /\ manager = "idle" /\ manager' = "spawned"
    /\ slot' = Empty /\ prepared' = Empty
    /\ \/ threads /\ UNCHANGED upsets
       \/ ~threads /\ Upset
    /\ prep' = [Idle EXCEPT !.at = IF threads THEN "take" ELSE "none"]
    /\ coder' = [Idle EXCEPT !.at = IF threads THEN "take" ELSE "done"]
    /\ UNCHANGED <<sharedVars, asked, source, gpuOff, captures, processor, failedAt,
                   generation, enc>>

\* start_free_threaded, with a new ScreenCapture, or the pattern's thread.
StartSource ==
    /\ manager = "spawned" /\ manager' = "running"
    /\ source' \in {IF s = "monitor" THEN s ELSE "check" : s \in Sources}
    /\ UNCHANGED <<sharedVars, asked, gpuOff, captures, slot, prepared, prepVars, coderVars,
                   upsets>>

\* start_free_threaded fails: the slot is stopped and the encoder thread joined.
StartFails ==
    /\ manager = "spawned" /\ Upset
    /\ manager' = "encoder"
    /\ slot' = [slot EXCEPT !.stopped = TRUE]
    /\ UNCHANGED <<sharedVars, asked, source, gpuOff, captures, prepared, prepVars,
                   coderVars>>

\* stop: control.stop() returns when the capture thread has ended and its
\* ScreenCapture is dropped, ...
StopControl ==
    /\ manager = "running" /\ manager' = "slot"
    /\ source' = IF source = "monitor" THEN "ended" ELSE source
    /\ gpuOff' = FALSE /\ captures' = NoPool
    /\ UNCHANGED <<sharedVars, asked, slot, prepared, prepVars, coderVars, upsets>>

\* ... the slot is stopped, ...
StopSlot ==
    /\ manager = "slot" /\ manager' = "producer"
    /\ slot' = [slot EXCEPT !.stopped = TRUE]
    /\ UNCHANGED <<sharedVars, asked, source, gpuOff, captures, prepared, prepVars, coderVars,
                   upsets>>

\* ... the producer is joined, ...
JoinProducer ==
    /\ manager = "producer" /\ source = "ended"
    /\ manager' = "encoder"
    /\ UNCHANGED <<sharedVars, asked, source, gpuOff, captures, slot, prepared, prepVars,
                   coderVars, upsets>>

\* ... and the encoder thread.
JoinEncoder ==
    /\ manager = "encoder" /\ coder.at = "done"
    /\ manager' = "idle" /\ source' = "none"
    /\ prep' = Idle /\ coder' = Idle
    /\ UNCHANGED <<sharedVars, asked, gpuOff, captures, slot, prepared, processor, failedAt,
                   generation, enc, upsets>>

\* apply_video_settings: the atomics first, ...
ApplyLive(mode, width) ==
    /\ applying = None /\ pipeline.generation < MaxGeneration
    /\ live' = [hardware |-> RequiresHardware(mode), width |-> width]
    /\ applying' = mode
    /\ UNCHANGED <<display, pipeline, asked, captureVars, slot, prepared, prepVars, coderVars,
                   upsets>>

\* ... then the selection; a keyframe is asked for at the end.
ApplyPipeline ==
    /\ applying # None /\ applying' = None
    /\ pipeline' = [generation |-> pipeline.generation + 1, mode |-> applying]
    /\ asked' = TRUE
    /\ UNCHANGED <<display, live, captureVars, slot, prepared, prepVars, coderVars, upsets>>

\* Connected peers and browsers ask for keyframes.
RequestKeyframe ==
    /\ ~asked /\ asked' = TRUE
    /\ UNCHANGED <<sharedVars, captureVars, slot, prepared, prepVars, coderVars, upsets>>

-----------------------------------------------------------------------------

Init ==
    /\ display \in Sizes
    /\ \E m \in Modes :
          /\ pipeline = [generation |-> 0, mode |-> m]
          /\ live = [hardware |-> RequiresHardware(m), width |-> StartWidth]
    /\ applying = None /\ asked = FALSE /\ manager = "idle" /\ source = "none"
    /\ gpuOff = FALSE /\ captures = NoPool /\ slot = Empty /\ prepared = Empty
    /\ prep = Idle /\ processor = None /\ failedAt = None
    /\ coder = Idle /\ generation = None /\ enc = None /\ upsets = 0

Source   == FrameArrivedGpu \/ FrameArrivedCpu \/ PatternCheck \/ PatternSubmit
Prep     == PrepTake \/ PrepEnd \/ PrepGpu \/ PrepCpu \/ PrepFails
Coder    == CoderTake \/ CoderMake \/ CoderMakeFails \/ CoderSends \/ CoderSkips
            \/ CoderFails \/ CoderEnd \/ CoderJoin
Stopping == StopSlot \/ JoinProducer \/ JoinEncoder

Next ==
    \/ Source \/ CaptureClosed \/ CaptureFails \/ DisplayChanges
    \/ Prep \/ Coder
    \/ \E b \in BOOLEAN : Spawn(b)
    \/ StartSource \/ StartFails \/ StopControl \/ Stopping
    \/ \E m \in Modes, w \in Sizes : ApplyLive(m, w)
    \/ ApplyPipeline \/ RequestKeyframe

Spec == Init /\ [][Next]_vars

\* Threads and tasks run, calls that began go on, and the screen keeps changing.
Fairness ==
    /\ WF_vars(Source) /\ WF_vars(Prep) /\ WF_vars(Coder) /\ WF_vars(Stopping)
    /\ WF_vars(StartSource \/ StartFails) /\ WF_vars(ApplyPipeline)

FairSpec == Spec /\ Fairness

-----------------------------------------------------------------------------
(* Properties                                                               *)

\* No stage has the surface it reads overwritten by the stage before it, with
\* pools that are emptied, refilled and replaced while frames are in flight.
Intact == prep.intact /\ coder.intact

\* While direct GPU input has not been given up, the encoder instance was built
\* for the size its configuration says, so that a frame of that size may be
\* handed to it.
BuiltForSize == enc # None /\ ~enc.disabled => enc.size = enc.config

\* stop() returns: the threads of the pipeline end one after the other.
StopReturns == (manager \in {"slot", "producer", "encoder"}) ~> (manager = "idle")

\* The encoder thread is the one Playout describes: whatever the other threads,
\* the surfaces and the rebuilt instances do, requests are taken, encoders are
\* made, dropped and begun anew exactly as the video tasks of the peers rely on.
EncoderThread == INSTANCE Playout WITH
    Peers <- {}, Capacity <- 1, Instances <- 1, peer <- [p \in {} |-> None],
    stage <- IF coder.at \in {"make", "encode"} THEN coder.at ELSE "take",
    sel <- coder.sel,
    enc <- IF enc = None THEN None
           ELSE [mode |-> enc.mode, instance |-> 0, fresh |-> enc.fresh, force |-> enc.force]
EncodesAsPlayout == EncoderThread!Spec

ASSUME RefinementAssumption == None \notin EncoderThread!Encoder
=============================================================================
