------------------------------ MODULE Injector -------------------------------
(***************************************************************************)
(* PointerInjector (crates/host-windows/src/input.rs), which turns remote  *)
(* input into Windows contacts, buttons and keys, with the threads that    *)
(* share it: the transport that delivers packets in order, the handlers    *)
(* that reset it, PUT /api/input and the host UI that change its options.  *)
(* The browser contributes the order in which PointerEngine emits the      *)
(* lifecycle of a contact.  Windows is external: it knows what it holds.   *)
(***************************************************************************)
EXTENDS Integers, Sequences, FiniteSets

CONSTANTS
    PenIds, TouchIds,  \* browser pointer ids
    Buttons,           \* mouse button bits, as numbers in append order
    Codes,             \* DOM key codes
    Vk,                \* virtual_key_for_code: code -> virtual key
    ChordKey,          \* the modifier of a command chord
    MaxTouch,          \* MAX_TOUCH_CONTACTS
    Enabled,           \* options enabled at start
    Toggles,           \* options the host UI's user may toggle
    MaxRev,            \* bound: revisions of the shared settings
    MayFail,           \* a native call that fits may still fail
    Refuses,           \* devices that refuse a frame that does not fit their
                       \* contacts (the others ignore what does not fit)
    None

Options == {"pen", "touch", "mouse", "keyboard", "gestures", "palm"}
Shared  == {"touch", "gestures"}  \* RemoteInputSettings
Keys    == {Vk[c] : c \in Codes} \cup {ChordKey}
Terminal == {"Up", "Cancel"}      \* Action::is_terminal

Sample(d, a, i) == [dev |-> d, act |-> a, id |-> i]
Samples ==
    [dev : {"pen"}, act : {"Down", "Move", "Hover", "Up", "Cancel"}, id : PenIds]
    \cup [dev : {"touch"}, act : {"Down", "Move", "Up", "Cancel"}, id : TouchIds]
    \cup [dev : {"mouse"}, act : {"Down", "Move"}, id : SUBSET Buttons]
    \cup [dev : {"mouse"}, act : {"Hover", "Up", "Cancel"}, id : {{}}]
    \cup [dev : {"key"}, act : {"Down", "Up"}, id : Codes]
    \cup [dev : {"chord", "reset"}, act : {"Down"}, id : {0}]
Contacts == ({"pen"} \X PenIds) \cup ({"touch"} \X TouchIds)
            \cup {<<"mouse", 0>>} \cup ({"key"} \X Codes)

ASSUME ConstantsAssumption ==
    /\ None \notin PenIds /\ None \notin [id : PenIds, down : BOOLEAN]
    /\ None \notin [options : SUBSET Options, left : Seq(Samples)]
    /\ None \notin [by : {"host", "browser"}, new : SUBSET Shared]
    /\ Buttons \subseteq Nat \ {0} /\ MaxTouch \in Nat
    /\ Vk \in [Codes -> {Vk[c] : c \in Codes}]
    /\ Enabled \subseteq Options /\ Toggles \subseteq Options
    /\ MaxRev \in Nat /\ MayFail \in BOOLEAN /\ Refuses \subseteq {"pen", "touch"}

VARIABLES
    pen, touches, buttons, keys,    \* InjectorState
    options,                        \* the options lock
    job,       \* the packet being processed: the options read, samples left
    locked,    \* the packet holds the state lock
    wpen, wtouch, wbuttons, wkeys,  \* what Windows holds down
    active,    \* contacts and keys down in the browser's engines
    closing,   \* a lost transport whose close handler has not run
    settings, revision,             \* AppState.input_settings
    apply,     \* its lock: who applies which settings, or None
    config, seen, ui,               \* host UI: config.input, last_input_revision, step
    result     \* outcome of the last reset_all, until another input step

stateVars    == <<pen, touches, buttons, keys>>
windowsVars  == <<wpen, wtouch, wbuttons, wkeys>>
settingsVars == <<settings, revision, apply>>
uiVars       == <<config, seen, ui>>
vars == <<stateVars, options, job, locked, windowsVars, active, closing,
          settingsVars, uiVars, result>>

TypeOK ==
    /\ pen \in [id : PenIds, down : BOOLEAN] \cup {None}
    /\ touches \subseteq TouchIds /\ buttons \subseteq Buttons /\ keys \subseteq Codes
    /\ options \subseteq Options /\ locked \in BOOLEAN
    /\ job = None \/ job \in [options : SUBSET Options, left : Seq(Samples) \ {<<>>}]
    /\ locked => job # None
    /\ wpen \in PenIds \cup {None} /\ wtouch \subseteq TouchIds
    /\ wbuttons \subseteq Buttons /\ wkeys \subseteq Keys
    /\ active \subseteq Contacts /\ closing \in BOOLEAN
    /\ settings \subseteq Shared /\ revision \in 0..MaxRev
    /\ apply \in [by : {"host", "browser"}, new : SUBSET Shared] \cup {None}
    /\ apply # None => revision < MaxRev
    /\ config \subseteq Options /\ seen \in 0..MaxRev
    /\ ui \in {"idle", "options", "settings", "applying"}
    /\ result \in {"none", "ok", "err"}

Init ==
    /\ pen = None /\ touches = {} /\ buttons = {} /\ keys = {}
    /\ options = Enabled /\ job = None /\ locked = FALSE
    /\ wpen = None /\ wtouch = {} /\ wbuttons = {} /\ wkeys = {}
    /\ active = {} /\ closing = FALSE
    /\ settings = Enabled \cap Shared /\ revision = 0 /\ apply = None
    /\ config = Enabled /\ seen = 0 /\ ui = "idle"
    /\ result = "none"

-----------------------------------------------------------------------------
(* Windows, and the helpers of input.rs                                     *)

\* What a native call may answer, when the frame fits the device's contacts or not.
Answers(d, fits) ==
    IF fits THEN IF MayFail THEN BOOLEAN ELSE {TRUE} ELSE {d \notin Refuses}

\* InjectSyntheticPointerInput(PT_PEN): flags of the action, for one pointer.
PenFits(act, id, was, w) ==
    CASE act = "Down"                  -> w = None
      [] act = "Move" /\ was           -> w = id
      [] act \in Terminal              -> w = id
      [] OTHER                         -> w = None

PenHeld(act, id, w) ==
    CASE act = "Down" /\ w = None      -> id
      [] act \in Terminal /\ w = id    -> None
      [] OTHER                         -> w

\* append_mouse_button_changes: Windows' buttons once the changes in s are sent.
Sent(s, to) == (wbuttons \ (s \ to)) \cup (s \cap to)
Changed(a, b) == (a \ b) \cup (b \ a)

\* SendInput stops early: a proper prefix of the changes in append order.
Prefixes(s) == {{b \in s : b < m} : m \in s \cup {0}}

-----------------------------------------------------------------------------
(* reset_all, under the state lock                                          *)

\* release_pen takes the tracked pen before it lifts it.
PenCall == pen # None /\ pen.down
LiftedPen == IF PenCall /\ wpen = pen.id THEN None ELSE wpen
TouchesFit == touches \subseteq wtouch /\ Cardinality(touches) <= MaxTouch

ResetPenFails ==
    /\ PenCall /\ FALSE \in Answers("pen", wpen = pen.id)
    /\ pen' = None /\ result' = "err"
    /\ UNCHANGED <<touches, buttons, keys, windowsVars>>

ResetTouchFails ==
    /\ PenCall => TRUE \in Answers("pen", wpen = pen.id)
    /\ touches # {} /\ FALSE \in Answers("touch", TouchesFit)
    /\ pen' = None /\ wpen' = LiftedPen /\ result' = "err"
    /\ UNCHANGED <<touches, buttons, keys, wtouch, wbuttons, wkeys>>

\* release_remote_state is cut short: buttons first, then keys.
ResetRemoteFails ==
    /\ MayFail /\ (buttons # {} \/ keys # {})
    /\ PenCall => TRUE \in Answers("pen", wpen = pen.id)
    /\ touches # {} => TRUE \in Answers("touch", TouchesFit)
    /\ pen' = None /\ wpen' = LiftedPen
    /\ touches' = {} /\ wtouch' = wtouch \ touches
    /\ \/ wbuttons' \in {Sent(s, {}) : s \in Prefixes(buttons)} /\ wkeys' = wkeys
       \/ /\ wbuttons' = Sent(buttons, {})
          /\ \E s \in SUBSET keys \ {keys} : wkeys' = wkeys \ {Vk[c] : c \in s}
    /\ result' = "err"
    /\ UNCHANGED <<buttons, keys>>

\* Mutation: the pressed keys are forgotten without being released.
MutantForgetKeys ==
    /\ PenCall => TRUE \in Answers("pen", wpen = pen.id)
    /\ touches # {} => TRUE \in Answers("touch", TouchesFit)
    /\ pen' = None /\ wpen' = LiftedPen
    /\ touches' = {} /\ wtouch' = wtouch \ touches
    /\ buttons' = {} /\ wbuttons' = Sent(buttons, {})
    /\ keys' = {} /\ result' = "ok"
    /\ UNCHANGED wkeys

ResetSucceeds ==
    /\ PenCall => TRUE \in Answers("pen", wpen = pen.id)
    /\ touches # {} => TRUE \in Answers("touch", TouchesFit)
    /\ pen' = None /\ wpen' = LiftedPen
    /\ touches' = {} /\ wtouch' = wtouch \ touches
    /\ buttons' = {} /\ wbuttons' = Sent(buttons, {})
    /\ keys' = {} /\ wkeys' = wkeys \ {Vk[c] : c \in keys}
    /\ result' = "ok"

reset_all ==
    /\ ~locked
    /\ ResetPenFails \/ ResetTouchFails \/ ResetRemoteFails \/ ResetSucceeds

-----------------------------------------------------------------------------
(* The browser's engines send, a transport receives: process_input_packet  *)
(* reads the options before the sink takes the state lock.                  *)

Receive(samples) ==
    /\ job = None
    /\ job' = [options |-> options, left |-> samples]
    /\ UNCHANGED <<stateVars, options, locked, windowsVars, closing, settingsVars,
                   uiVars, result>>

\* pointerdown, with the coalesced move that may follow it in its batch.
PointerDown(d, i) ==
    /\ <<d, i>> \notin active
    /\ active' = active \cup {<<d, i>>}
    /\ \/ Receive(<<Sample(d, "Down", i)>>)
       \/ Receive(<<Sample(d, "Down", i), Sample(d, "Move", i)>>)

PointerMove(d, i) ==
    /\ <<d, i>> \in active \/ d = "pen"
    /\ Receive(<<Sample(d, IF <<d, i>> \in active THEN "Move" ELSE "Hover", i)>>)
    /\ UNCHANGED active

PointerEnd(d, i) ==
    /\ <<d, i>> \in active
    /\ active' = active \ {<<d, i>>}
    /\ \E a \in Terminal :
          \/ Receive(<<Sample(d, a, i)>>)
          \/ Receive(<<Sample(d, "Move", i), Sample(d, a, i)>>)

\* A mouse stays one contact while any button is down; its end has no buttons.
MouseInput(flags) ==
    LET was == <<"mouse", 0>> \in active IN
    \/ /\ flags # {}
       /\ active' = active \cup {<<"mouse", 0>>}
       /\ Receive(<<Sample("mouse", IF was THEN "Move" ELSE "Down", flags)>>)
    \/ /\ flags = {}
       /\ active' = active \ {<<"mouse", 0>>}
       /\ \E a \in IF was THEN Terminal ELSE {"Hover"} : Receive(<<Sample("mouse", a, {})>>)

KeyInput(c) ==
    \/ active' = active \cup {<<"key", c>>} /\ Receive(<<Sample("key", "Down", c)>>)
    \/ /\ <<"key", c>> \in active
       /\ active' = active \ {<<"key", c>>}
       /\ Receive(<<Sample("key", "Up", c)>>)

Command == Receive(<<Sample("chord", "Down", 0)>>) /\ UNCHANGED active

\* resetRemoteInput: the engine forgets its keys.
ResetInput ==
    /\ active' = active \ ({"key"} \X Codes)
    /\ Receive(<<Sample("reset", "Down", 0)>>)

\* handleInputTransportClose: abandonAll; the host notices later.
TransportLost ==
    /\ job = None /\ ~closing
    /\ active' = {} /\ closing' = TRUE
    /\ UNCHANGED <<stateVars, options, job, locked, windowsVars, settingsVars, uiVars, result>>

-----------------------------------------------------------------------------
(* inject_batch, inject_keyboard, inject_command                            *)

Current == Head(job.left)

\* The next sample, or the end: an error ends the batch.
Advance(ok) ==
    /\ IF ok /\ Len(job.left) > 1
         THEN job' = [job EXCEPT !.left = Tail(@)] /\ locked' = TRUE
         ELSE job' = None /\ locked' = FALSE

Step(d) ==
    /\ job # None
    /\ Current.dev = d
    /\ UNCHANGED <<options, active, closing, settingsVars, uiVars>>

Gate(d) ==
    CASE d = "touch" -> /\ "touch" \in job.options
                        /\ ~("palm" \in job.options /\ pen # None /\ pen.down)
      [] d = "key"   -> "keyboard" \in job.options
      [] d = "chord" -> "gestures" \in job.options
      [] OTHER       -> d \in job.options

Skipped ==
    /\ job # None /\ Current.dev # "reset" /\ ~Gate(Current.dev)
    /\ Step(Current.dev) /\ Advance(TRUE)
    /\ result' = "none"
    /\ UNCHANGED <<stateVars, windowsVars>>

OtherPen == pen # None /\ pen.id # Current.id

\* release_pen of another pointer fails: its error ends the batch.
SwitchPenFails ==
    /\ Step("pen") /\ Gate("pen") /\ OtherPen
    /\ PenCall /\ FALSE \in Answers("pen", wpen = pen.id)
    /\ pen' = None /\ result' = "none"
    /\ Advance(FALSE)
    /\ UNCHANGED <<touches, buttons, keys, windowsVars>>

\* Mutation: a move is recorded as hovering.
MutantMoveLifts ==
    LET was == ~OtherPen /\ pen # None /\ pen.down
        w   == IF OtherPen THEN LiftedPen ELSE wpen
        fit == PenFits(Current.act, Current.id, was, w)
    IN  /\ Step("pen") /\ Gate("pen")
        /\ OtherPen /\ PenCall => TRUE \in Answers("pen", wpen = pen.id)
        /\ \E ok \in Answers("pen", fit) :
              /\ Advance(ok)
              /\ wpen' = IF ok THEN PenHeld(Current.act, Current.id, w) ELSE w
              /\ pen' = CASE ~ok -> IF OtherPen THEN None ELSE pen
                          [] ok /\ Current.act \in Terminal -> None
                          [] OTHER -> [id |-> Current.id, down |-> Current.act = "Down"]
        /\ result' = "none"
        /\ UNCHANGED <<touches, buttons, keys, wtouch, wbuttons, wkeys>>

InjectPen ==
    LET was == ~OtherPen /\ pen # None /\ pen.down
        w   == IF OtherPen THEN LiftedPen ELSE wpen
        fit == PenFits(Current.act, Current.id, was, w)
    IN  /\ Step("pen") /\ Gate("pen")
        /\ OtherPen /\ PenCall => TRUE \in Answers("pen", wpen = pen.id)
        /\ \E ok \in Answers("pen", fit) :
              /\ Advance(ok)
              /\ wpen' = IF ok THEN PenHeld(Current.act, Current.id, w) ELSE w
              /\ pen' = CASE ~ok -> IF OtherPen THEN None ELSE pen
                          [] ok /\ Current.act \in Terminal -> None
                          [] OTHER -> [id |-> Current.id,
                                       down |-> Current.act = "Down" \/ (Current.act = "Move" /\ was)]
        /\ result' = "none"
        /\ UNCHANGED <<touches, buttons, keys, wtouch, wbuttons, wkeys>>

\* Mutation: a lifted touch is forgotten before the frame is sent.
MutantForgetFirst ==
    LET all == IF Current.act \in Terminal THEN touches ELSE touches \cup {Current.id}
        fit == /\ Cardinality(all \cup {Current.id}) <= MaxTouch
               /\ all \ {Current.id} \subseteq wtouch
               /\ (Current.act = "Down") # (Current.id \in wtouch)
    IN  /\ Step("touch") /\ Gate("touch")
        /\ \E ok \in Answers("touch", fit) :
              /\ Advance(ok)
              /\ touches' = IF Current.act \in Terminal THEN all \ {Current.id} ELSE all
              /\ wtouch' = CASE ok /\ Current.act = "Down" -> wtouch \cup {Current.id}
                             [] ok /\ Current.act \in Terminal -> wtouch \ {Current.id}
                             [] OTHER -> wtouch
        /\ result' = "none"
        /\ UNCHANGED <<pen, buttons, keys, wpen, wbuttons, wkeys>>

\* One frame carries every tracked touch; a sample is tracked before it is sent.
InjectTouch ==
    LET all == IF Current.act \in Terminal THEN touches ELSE touches \cup {Current.id}
        fit == /\ Cardinality(all \cup {Current.id}) <= MaxTouch
               /\ all \ {Current.id} \subseteq wtouch
               /\ (Current.act = "Down") # (Current.id \in wtouch)
    IN  /\ Step("touch") /\ Gate("touch")
        /\ \E ok \in Answers("touch", fit) :
              /\ Advance(ok)
              /\ touches' = IF ok /\ Current.act \in Terminal THEN all \ {Current.id} ELSE all
              /\ wtouch' = CASE ok /\ Current.act = "Down" -> wtouch \cup {Current.id}
                             [] ok /\ Current.act \in Terminal -> wtouch \ {Current.id}
                             [] OTHER -> wtouch
        /\ result' = "none"
        /\ UNCHANGED <<pen, buttons, keys, wpen, wbuttons, wkeys>>

\* Mutation: a canceled mouse sends no button changes.
MutantCancelSendsNothing ==
    /\ Step("mouse") /\ Gate("mouse")
    /\ wbuttons' = IF Current.act = "Cancel" THEN wbuttons
                   ELSE Sent(Changed(buttons, Current.id), Current.id)
    /\ buttons' = IF Current.act \in Terminal THEN {} ELSE Current.id
    /\ Advance(TRUE)
    /\ result' = "none"
    /\ UNCHANGED <<pen, touches, keys, wpen, wtouch, wkeys>>

InjectMouse ==
    /\ Step("mouse") /\ Gate("mouse")
    /\ \/ /\ wbuttons' = Sent(Changed(buttons, Current.id), Current.id)
          /\ buttons' = IF Current.act \in Terminal THEN {} ELSE Current.id
          /\ Advance(TRUE)
       \/ /\ MayFail
          /\ wbuttons' \in {Sent(s, Current.id) : s \in Prefixes(Changed(buttons, Current.id))}
          /\ Advance(FALSE)
          /\ UNCHANGED buttons
    /\ result' = "none"
    /\ UNCHANGED <<pen, touches, keys, wpen, wtouch, wkeys>>

InjectKey ==
    /\ Step("key") /\ Gate("key")
    /\ \E ok \in Answers("key", TRUE) :
          /\ Advance(ok)
          /\ keys' = CASE Current.act = "Up" -> keys \ {Current.id}
                       [] Current.act = "Down" /\ ok -> keys \cup {Current.id}
                       [] OTHER -> keys
          /\ wkeys' = CASE ok /\ Current.act = "Down" -> wkeys \cup {Vk[Current.id]}
                        [] ok /\ Current.act = "Up" -> wkeys \ {Vk[Current.id]}
                        [] OTHER -> wkeys
    /\ result' = "none"
    /\ UNCHANGED <<pen, touches, buttons, wpen, wtouch, wbuttons>>

\* send_chord presses and releases; cut short, the modifier may stay down.
InjectCommand ==
    /\ Step("chord") /\ Gate("chord")
    /\ \/ Advance(TRUE) /\ UNCHANGED wkeys
       \/ MayFail /\ Advance(FALSE) /\ wkeys' \in {wkeys, wkeys \cup {ChordKey}}
    /\ result' = "none"
    /\ UNCHANGED <<stateVars, wpen, wtouch, wbuttons>>

InjectReset ==
    /\ Step("reset")
    /\ reset_all
    /\ Advance(TRUE)

-----------------------------------------------------------------------------
(* Resets by other threads, and the options                                 *)

\* close_active_peer, a codec change, change_monitor, disconnect, peer loss.
HostReset ==
    /\ reset_all
    /\ UNCHANGED <<options, job, locked, active, closing, settingsVars, uiVars>>

\* Mutation: a transport closes without reset_all.
MutantCloseWithoutReset ==
    /\ closing /\ closing' = FALSE
    /\ UNCHANGED <<stateVars, options, job, locked, windowsVars, active, settingsVars,
                   uiVars, result>>

\* The close handler of a lost transport.
CloseReset ==
    /\ closing /\ closing' = FALSE
    /\ reset_all
    /\ UNCHANGED <<options, job, locked, active, settingsVars, uiVars>>

\* set_input_settings with the current revision: the lock, then reset_all.
SetInputSettings(new) ==
    /\ apply = None /\ revision < MaxRev
    /\ new # settings
    /\ reset_all
    /\ apply' = IF result' = "ok" THEN [by |-> "browser", new |-> new] ELSE None
    /\ UNCHANGED <<options, job, locked, active, closing, settings, revision, uiVars>>

\* Mutation: the settings are published but the injector keeps its options.
MutantKeepGate ==
    /\ apply # None
    /\ settings' = apply.new /\ revision' = revision + 1 /\ apply' = None
    /\ IF apply.by = "host" THEN seen' = revision' /\ ui' = "idle" ELSE UNCHANGED <<seen, ui>>
    /\ UNCHANGED <<stateVars, options, job, locked, windowsVars, active, closing, config, result>>

\* set_remote_input_options writes the options; the revision is published.
ApplySettings ==
    /\ apply # None
    /\ options' = (options \ Shared) \cup apply.new
    /\ settings' = apply.new /\ revision' = revision + 1 /\ apply' = None
    /\ IF apply.by = "host" THEN seen' = revision' /\ ui' = "idle" ELSE UNCHANGED <<seen, ui>>
    /\ UNCHANGED <<stateVars, job, locked, windowsVars, active, closing, config, result>>

\* Start of a UI frame: adopt what the browser changed.
HostSync ==
    /\ ui = "idle" /\ apply = None /\ seen # revision
    /\ seen' = revision
    /\ config' = (config \ Shared) \cup settings
    /\ UNCHANGED <<stateVars, options, job, locked, windowsVars, active, closing,
                   settingsVars, ui, result>>

\* apply_input_options: reset_all, whose error is ignored,
HostToggle(o) ==
    /\ ui = "idle" /\ revision < MaxRev
    /\ config' = Changed(config, {o})
    /\ reset_all
    /\ ui' = "options"
    /\ UNCHANGED <<options, job, locked, active, closing, settingsVars, seen>>

\* then set_options,
HostSetOptions ==
    /\ ui = "options"
    /\ options' = config /\ ui' = "settings"
    /\ UNCHANGED <<stateVars, job, locked, windowsVars, active, closing, settingsVars,
                   config, seen, result>>

\* then apply_input_settings_from_host, which does nothing for equal settings.
HostApplyEqual ==
    /\ ui = "settings" /\ apply = None
    /\ config \cap Shared = settings
    /\ seen' = revision /\ ui' = "idle"
    /\ UNCHANGED <<stateVars, options, job, locked, windowsVars, active, closing,
                   settingsVars, config, result>>

HostApply ==
    /\ ui = "settings" /\ apply = None /\ revision < MaxRev
    /\ config \cap Shared # settings
    /\ reset_all
    /\ IF result' = "ok"
         THEN apply' = [by |-> "host", new |-> config \cap Shared] /\ ui' = "applying"
         ELSE apply' = None /\ ui' = "idle"
    /\ UNCHANGED <<options, job, locked, active, closing, settings, revision, config, seen>>

-----------------------------------------------------------------------------
Browser ==
    \/ \E i \in PenIds : PointerDown("pen", i) \/ PointerMove("pen", i) \/ PointerEnd("pen", i)
    \/ \E i \in TouchIds : PointerDown("touch", i) \/ PointerMove("touch", i) \/ PointerEnd("touch", i)
    \/ \E f \in SUBSET Buttons : MouseInput(f)
    \/ \E c \in Codes : KeyInput(c)
    \/ Command \/ ResetInput \/ TransportLost

Inject ==
    \/ Skipped \/ SwitchPenFails \/ InjectPen \/ InjectTouch \/ InjectMouse
    \/ InjectKey \/ InjectCommand \/ InjectReset

Host ==
    \/ HostReset \/ CloseReset
    \/ \E new \in SUBSET Shared : SetInputSettings(new)
    \/ ApplySettings
    \/ HostSync \/ HostSetOptions \/ HostApplyEqual \/ HostApply
    \/ \E o \in Toggles : HostToggle(o)

Next == Browser \/ Inject \/ Host
Spec == Init /\ [][Next]_vars

-----------------------------------------------------------------------------
(* Properties                                                               *)

NothingHeld == wpen = None /\ wtouch = {} /\ wbuttons = {} /\ wkeys = {}

\* Whatever Windows holds down for the remote input is recorded in
\* InjectorState, so that a reset can find it: through switches between pens,
\* samples that are skipped or refused, and resets in the middle of a contact.
WindowsTracked ==
    /\ wpen # None => pen = [id |-> wpen, down |-> TRUE]
    /\ wtouch \subseteq touches
    /\ wbuttons \subseteq buttons
    /\ wkeys \subseteq {Vk[c] : c \in keys}

\* Even when native calls fail, a touch that Windows holds is recorded: it is
\* tracked before it is sent and forgotten only after it was lifted.
TouchesTracked == wtouch \subseteq touches

\* When reset_all returns Ok, Windows holds nothing of the remote input.
ResetReleases == result = "ok" => NothingHeld

\* Once the browser has sent the end of every contact and key, and the host
\* has processed it, Windows holds nothing, while the options stay as they are
\* and palm rejection does not drop the end of a touch.
AllUpReleased == active = {} /\ job = None /\ ~closing => NothingHeld

\* With no change under way, the injector's options are the shared settings
\* and the host's own, and a host UI that has seen the revision shows them.
SharedState ==
    ui = "idle" /\ apply = None =>
        /\ options \cap Shared = settings
        /\ options \ Shared = config \ Shared
        /\ seen = revision => config \cap Shared = settings
==============================================================================
