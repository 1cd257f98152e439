---------------------------- MODULE InjectorProofs ----------------------------
(***************************************************************************)
(* What the injector guarantees for any set of pointers, buttons and keys. *)
(***************************************************************************)
EXTENDS Injector, SequenceTheorems, TLAPS

\* A sequence of two or more has a tail that is not empty.
LEMMA LongTail ==
    ASSUME NEW S, NEW s \in Seq(S), Len(s) > 1
    PROVE  Tail(s) \in Seq(S) \ {<<>>}
  <1>1. s # <<>>
    BY EmptySeq
  <1>2. Tail(s) \in Seq(S) /\ Len(Tail(s)) = Len(s) - 1
    BY <1>1, HeadTailProperties
  <1>3. Len(s) \in Nat
    BY LenProperties
  <1>4. Len(<<>>) = 0
    BY EmptySeq
  <1>5. ASSUME Tail(s) = <<>> PROVE FALSE
    <2>1. Len(Tail(s)) = Len(<<>>)
      BY <1>5, Zenon
    <2>2. Len(s) - 1 = 0
      BY <1>2, <1>4, <2>1
    <2>3. \A n \in Nat : n > 1 => n - 1 # 0
      OBVIOUS
    <2>. QED BY <1>3, <2>2, <2>3, Zenon
  <1>. QED BY <1>2, <1>5

\* What the sample under way is.
LEMMA CurrentSample ==
    ASSUME TypeOK, job # None
    PROVE  /\ Current \in Samples
           /\ job.options \subseteq Options
           /\ Len(job.left) \in Nat /\ Len(job.left) >= 1
           /\ Len(job.left) > 1 => Tail(job.left) \in Seq(Samples) \ {<<>>}
  <1>1. job.left \in Seq(Samples) /\ job.left # <<>> /\ job.options \subseteq Options
    BY DEF TypeOK
  <1>2. Len(job.left) \in Nat /\ Len(job.left) >= 1 /\ Head(job.left) \in Samples
    BY <1>1
  <1>3. ASSUME Len(job.left) > 1 PROVE Tail(job.left) \in Seq(Samples) \ {<<>>}
    BY <1>1, <1>3, LongTail
  <1>. QED BY <1>1, <1>2, <1>3 DEF Current

\* The end of a sample keeps the packet's type.
LEMMA AdvanceType ==
    ASSUME TypeOK, job # None, NEW ok \in BOOLEAN, Advance(ok)
    PROVE  /\ job' = None \/ job' \in [options : SUBSET Options, left : Seq(Samples) \ {<<>>}]
           /\ locked' \in BOOLEAN /\ (locked' => job' # None)
  <1>1. CASE ok /\ Len(job.left) > 1
    <2>1. job \in [options : SUBSET Options, left : Seq(Samples) \ {<<>>}]
      BY DEF TypeOK
    <2>2. job' = [job EXCEPT !.left = Tail(@)] /\ locked' = TRUE
      BY <1>1 DEF Advance
    <2>3. job' \in [options : SUBSET Options, left : Seq(Samples) \ {<<>>}]
      BY <2>1, <2>2, <1>1, CurrentSample
    <2>4. job' \in [options : SUBSET Options, left : Seq(Samples)]
      BY <2>3
    <2>. QED BY <2>2, <2>3, <2>4, ConstantsAssumption
  <1>2. CASE ~(ok /\ Len(job.left) > 1)
    BY <1>2 DEF Advance
  <1>. QED BY <1>1, <1>2

\* reset_all keeps the types of the injector's state and of Windows'.
LEMMA ResetType ==
    ASSUME TypeOK, reset_all
    PROVE  /\ pen' \in [id : PenIds, down : BOOLEAN] \cup {None}
           /\ touches' \subseteq TouchIds /\ buttons' \subseteq Buttons /\ keys' \subseteq Codes
           /\ wpen' \in PenIds \cup {None} /\ wtouch' \subseteq TouchIds
           /\ wbuttons' \subseteq Buttons /\ wkeys' \subseteq Keys
           /\ result' \in {"ok", "err"}
  <1>1. CASE ResetPenFails
    BY <1>1 DEF ResetPenFails, windowsVars, TypeOK
  <1>2. CASE ResetTouchFails
    BY <1>2 DEF ResetTouchFails, LiftedPen, TypeOK
  <1>3. CASE ResetRemoteFails
    BY <1>3 DEF ResetRemoteFails, LiftedPen, Sent, Prefixes, TypeOK
  <1>4. CASE ResetSucceeds
    BY <1>4 DEF ResetSucceeds, LiftedPen, Sent, TypeOK
  <1>. QED BY <1>1, <1>2, <1>3, <1>4 DEF reset_all

\* The pen that Windows holds is the one the injector would release.
LEMMA HeldPen ==
    ASSUME TypeOK, WindowsTracked, wpen # None
    PROVE  pen # None /\ pen.id = wpen /\ pen.down = TRUE /\ wpen \in PenIds
  <1>1. wpen \in PenIds
    BY DEF TypeOK
  <1>2. pen = [id |-> wpen, down |-> TRUE]
    BY DEF WindowsTracked
  <1>3. [id |-> wpen, down |-> TRUE] \in [id : PenIds, down : BOOLEAN]
    BY <1>1
  <1>. QED BY <1>1, <1>2, <1>3, ConstantsAssumption

\* Without failures a call answers whether it fits.
LEMMA StrictAnswer ==
    ASSUME MayFail = FALSE, "pen" \in Refuses, NEW f \in BOOLEAN
    PROVE  Answers("pen", f) = {f}
  BY DEF Answers

\* Whether a pen sample fits is a truth value.
LEMMA PenFitsBoolean ==
    ASSUME NEW a, NEW i, NEW was \in BOOLEAN, NEW w
    PROVE  PenFits(a, i, was, w) \in BOOLEAN
  BY DEF PenFits

\* reset_all, when Windows refuses what does not fit and nothing else fails:
\* what stays held stays tracked, and an Ok means that nothing is held.
LEMMA ResetTracked ==
    ASSUME MayFail = FALSE, "pen" \in Refuses, TypeOK, WindowsTracked, reset_all
    PROVE  WindowsTracked' /\ ResetReleases'
  <1>1. LiftedPen = None
    BY HeldPen DEF LiftedPen, PenCall
  <1>2. CASE ResetPenFails
    <2>1. wpen # pen.id
      BY <1>2, StrictAnswer DEF ResetPenFails
    <2>2. wpen = None
      BY <2>1, HeldPen
    <2>. QED BY <1>2, <2>2 DEF ResetPenFails, windowsVars, WindowsTracked, ResetReleases
  <1>3. CASE ResetTouchFails
    BY <1>1, <1>3 DEF ResetTouchFails, WindowsTracked, ResetReleases
  <1>4. CASE ResetRemoteFails
    BY <1>4 DEF ResetRemoteFails
  <1>5. CASE ResetSucceeds
    BY <1>1, <1>5 DEF ResetSucceeds, Sent, WindowsTracked, ResetReleases, NothingHeld
  <1>. QED BY <1>2, <1>3, <1>4, <1>5 DEF reset_all

\* A pen sample keeps the pen that Windows holds tracked.
LEMMA PenTracked ==
    ASSUME MayFail = FALSE, "pen" \in Refuses, TypeOK, WindowsTracked, InjectPen
    PROVE  WindowsTracked' /\ ResetReleases'
  <1>. DEFINE was == ~OtherPen /\ pen # None /\ pen.down
              w   == IF OtherPen THEN LiftedPen ELSE wpen
              fit == PenFits(Current.act, Current.id, was, w)
  <1>1. PICK ok \in Answers("pen", fit) :
          /\ wpen' = IF ok THEN PenHeld(Current.act, Current.id, w) ELSE w
          /\ pen' = CASE ~ok -> IF OtherPen THEN None ELSE pen
                      [] ok /\ Current.act \in Terminal -> None
                      [] OTHER -> [id |-> Current.id,
                                   down |-> Current.act = "Down" \/ (Current.act = "Move" /\ was)]
    BY DEF InjectPen
  <1>2. /\ result' = "none" /\ UNCHANGED <<touches, buttons, keys, wtouch, wbuttons, wkeys>>
        /\ job # None /\ Current.dev = "pen"
    BY DEF InjectPen, Step
  <1>3. Current.act \in {"Down", "Move", "Hover", "Up", "Cancel"} /\ Current.id \in PenIds
    BY <1>2, CurrentSample DEF Samples
  <1>4. ok = fit
    <2>1. was \in BOOLEAN
      BY DEF TypeOK
    <2>2. fit \in BOOLEAN
      BY <2>1, PenFitsBoolean
    <2>. QED BY <1>1, <2>2, StrictAnswer
  <1>5. w # None => ~OtherPen /\ w = Current.id /\ pen = [id |-> w, down |-> TRUE] /\ was
    <2>1. CASE OtherPen
      BY <2>1, HeldPen DEF LiftedPen, PenCall
    <2>2. CASE ~OtherPen
      BY <2>2, HeldPen DEF OtherPen, WindowsTracked
    <2>. QED BY <2>1, <2>2
  <1>6. wpen' # None => pen' = [id |-> wpen', down |-> TRUE]
    <2>1. CASE ~ok
      BY <1>1, <1>5, <2>1
    <2>2. CASE ok /\ Current.act = "Down"
      BY <1>1, <1>4, <2>2 DEF PenFits, PenHeld, Terminal
    <2>3. CASE ok /\ Current.act = "Move"
      BY <1>1, <1>3, <1>4, <1>5, <2>3 DEF PenFits, PenHeld, Terminal
    <2>4. CASE ok /\ Current.act = "Hover"
      BY <1>1, <1>3, <1>4, <1>5, <2>4 DEF PenFits, PenHeld, Terminal
    <2>5. CASE ok /\ Current.act \in Terminal
      BY <1>1, <1>3, <1>4, <1>5, <2>5 DEF PenFits, PenHeld, Terminal
    <2>6. ok \in BOOLEAN
      BY <1>1 DEF Answers
    <2>. QED BY <1>3, <2>1, <2>2, <2>3, <2>4, <2>5, <2>6 DEF Terminal
  <1>. QED BY <1>2, <1>6 DEF WindowsTracked, ResetReleases

-----------------------------------------------------------------------------
(* Type correctness                                                         *)

\* What the browser's engines emit are samples, and what receiving one does.
LEMMA ReceiveType ==
    ASSUME TypeOK, NEW samples \in Seq(Samples), samples # <<>>, Receive(samples),
           active' \subseteq Contacts
    PROVE  TypeOK'
  <1>1. job' \in [options : SUBSET Options, left : Seq(Samples) \ {<<>>}]
    BY DEF Receive, TypeOK
  <1>2. locked' = locked /\ job = None
    BY DEF Receive
  <1>3. /\ UNCHANGED <<pen, touches, buttons, keys, wpen, wtouch, wbuttons, wkeys>>
        /\ UNCHANGED <<options, closing, settings, revision, apply, config, seen, ui, result>>
    BY DEF Receive, stateVars, windowsVars, settingsVars, uiVars
  <1>4. ~locked
    BY <1>2 DEF TypeOK
  <1>. QED BY <1>1, <1>2, <1>3, <1>4 DEF TypeOK

\* The batches of one and of two samples.
LEMMA Batch ==
    ASSUME NEW a \in Samples, NEW b \in Samples
    PROVE  /\ <<a>> \in Seq(Samples) /\ <<a>> # <<>>
           /\ <<a, b>> \in Seq(Samples) /\ <<a, b>> # <<>>
  OBVIOUS

\* What the browser emits keeps the types.
LEMMA BrowserType ==
    ASSUME TypeOK, Browser
    PROVE  TypeOK'
  <1>1. ASSUME NEW d \in {"pen", "touch"}, NEW i, <<d, i>> \in Contacts,
               d = "pen" => i \in PenIds, d = "touch" => i \in TouchIds,
               PointerDown(d, i) \/ PointerMove(d, i) \/ PointerEnd(d, i)
        PROVE  TypeOK'
    <2>1. /\ Sample(d, "Down", i) \in Samples /\ Sample(d, "Move", i) \in Samples
          /\ \A a \in Terminal : Sample(d, a, i) \in Samples
          /\ d = "pen" => Sample(d, "Hover", i) \in Samples
      BY <1>1 DEF Sample, Samples, Terminal
    <2>2. active \subseteq Contacts
      BY DEF TypeOK
    <2>3. CASE PointerDown(d, i)
      <3>1. active' \subseteq Contacts
        BY <1>1, <2>2, <2>3 DEF PointerDown
      <3>2. CASE Receive(<<Sample(d, "Down", i)>>)
        BY <2>1, <3>1, <3>2, Batch, ReceiveType
      <3>3. CASE Receive(<<Sample(d, "Down", i), Sample(d, "Move", i)>>)
        BY <2>1, <3>1, <3>3, Batch, ReceiveType
      <3>. QED BY <2>3, <3>2, <3>3 DEF PointerDown
    <2>4. CASE PointerMove(d, i)
      <3>1. active' \subseteq Contacts
        BY <2>2, <2>4 DEF PointerMove
      <3>2. PICK s \in Samples : Receive(<<s>>)
        BY <2>1, <2>4 DEF PointerMove
      <3>. QED BY <3>1, <3>2, Batch, ReceiveType
    <2>5. CASE PointerEnd(d, i)
      <3>1. active' \subseteq Contacts
        BY <2>2, <2>5 DEF PointerEnd
      <3>2. PICK a \in Terminal : \/ Receive(<<Sample(d, a, i)>>)
                                  \/ Receive(<<Sample(d, "Move", i), Sample(d, a, i)>>)
        BY <2>5 DEF PointerEnd
      <3>3. CASE Receive(<<Sample(d, a, i)>>)
        BY <2>1, <3>1, <3>3, Batch, ReceiveType
      <3>4. CASE Receive(<<Sample(d, "Move", i), Sample(d, a, i)>>)
        BY <2>1, <3>1, <3>4, Batch, ReceiveType
      <3>. QED BY <3>2, <3>3, <3>4
    <2>. QED BY <1>1, <2>3, <2>4, <2>5
  <1>2. ASSUME NEW f \in SUBSET Buttons, MouseInput(f) PROVE TypeOK'
    <2>1. active' \subseteq Contacts
      BY <1>2 DEF MouseInput, Contacts, TypeOK
    <2>2. PICK s \in Samples : Receive(<<s>>)
      BY <1>2 DEF MouseInput, Sample, Samples, Terminal
    <2>. QED BY <2>1, <2>2, Batch, ReceiveType
  <1>3. ASSUME NEW c \in Codes, KeyInput(c) PROVE TypeOK'
    <2>1. active' \subseteq Contacts
      BY <1>3 DEF KeyInput, Contacts, TypeOK
    <2>2. PICK s \in Samples : Receive(<<s>>)
      BY <1>3 DEF KeyInput, Sample, Samples
    <2>. QED BY <2>1, <2>2, Batch, ReceiveType
  <1>4. CASE Command \/ ResetInput
    <2>1. active' \subseteq Contacts
      BY <1>4 DEF Command, ResetInput, TypeOK
    <2>2. PICK s \in Samples : Receive(<<s>>)
      BY <1>4 DEF Command, ResetInput, Sample, Samples
    <2>. QED BY <2>1, <2>2, Batch, ReceiveType
  <1>5. CASE TransportLost
    BY <1>5 DEF TransportLost, stateVars, windowsVars, settingsVars, uiVars, TypeOK
  <1>6. /\ \A i \in PenIds : <<"pen", i>> \in Contacts
        /\ \A i \in TouchIds : <<"touch", i>> \in Contacts
    BY DEF Contacts
  <1>7. CASE \E i \in PenIds : PointerDown("pen", i) \/ PointerMove("pen", i) \/ PointerEnd("pen", i)
    BY <1>1, <1>6, <1>7
  <1>8. CASE \E i \in TouchIds : \/ PointerDown("touch", i) \/ PointerMove("touch", i)
                                \/ PointerEnd("touch", i)
    BY <1>1, <1>6, <1>8
  <1>. QED BY <1>2, <1>3, <1>4, <1>5, <1>7, <1>8 DEF Browser

\* What a sample's step leaves alone.
LEMMA StepKeeps ==
    ASSUME TypeOK, NEW d, Step(d)
    PROVE  /\ job # None /\ Current.dev = d /\ Current \in Samples
           /\ UNCHANGED <<options, active, closing, settings, revision, apply, config, seen, ui>>
  BY CurrentSample DEF Step, settingsVars, uiVars

\* A native call succeeds or fails.
LEMMA AnswersBoolean ==
    ASSUME NEW d, NEW f
    PROVE  Answers(d, f) \subseteq BOOLEAN
  BY ConstantsAssumption DEF Answers

\* Every sample that is injected keeps the types.
LEMMA InjectType ==
    ASSUME TypeOK, Inject
    PROVE  TypeOK'
  <1>. USE DEF stateVars, windowsVars
  <1>. DEFINE Rest == /\ job' = None \/ job' \in [options : SUBSET Options, left : Seq(Samples) \ {<<>>}]
                      /\ locked' \in BOOLEAN /\ (locked' => job' # None)
                      /\ UNCHANGED <<options, active, closing, settings, revision, apply,
                                     config, seen, ui>>
  <1>0. ASSUME NEW d, Step(d), NEW ok \in BOOLEAN, Advance(ok) PROVE Rest
    BY <1>0, StepKeeps, AdvanceType
  <1>1. CASE Skipped
    <2>1. Rest
      BY <1>0, <1>1 DEF Skipped
    <2>. QED BY <1>1, <2>1 DEF Skipped, TypeOK
  <1>2. CASE SwitchPenFails
    <2>1. Rest
      BY <1>0, <1>2 DEF SwitchPenFails
    <2>. QED BY <1>2, <2>1 DEF SwitchPenFails, TypeOK
  <1>3. CASE InjectPen
    <2>. DEFINE was == ~OtherPen /\ pen # None /\ pen.down
                w   == IF OtherPen THEN LiftedPen ELSE wpen
                fit == PenFits(Current.act, Current.id, was, w)
    <2>1. PICK ok \in Answers("pen", fit) :
            /\ Advance(ok)
            /\ wpen' = IF ok THEN PenHeld(Current.act, Current.id, w) ELSE w
            /\ pen' = CASE ~ok -> IF OtherPen THEN None ELSE pen
                        [] ok /\ Current.act \in Terminal -> None
                        [] OTHER -> [id |-> Current.id,
                                     down |-> Current.act = "Down" \/ (Current.act = "Move" /\ was)]
      BY <1>3 DEF InjectPen
    <2>2. ok \in BOOLEAN
      BY <2>1, AnswersBoolean
    <2>3. Rest
      BY <1>0, <1>3, <2>1, <2>2 DEF InjectPen
    <2>4. Current.id \in PenIds
      BY <1>3, StepKeeps DEF InjectPen, Samples
    <2>5. w \in PenIds \cup {None} /\ was \in BOOLEAN
      BY DEF LiftedPen, TypeOK
    <2>6. wpen' \in PenIds \cup {None}
      BY <2>1, <2>4, <2>5 DEF PenHeld
    <2>7. pen' \in [id : PenIds, down : BOOLEAN] \cup {None}
      BY <2>1, <2>2, <2>4, <2>5 DEF TypeOK
    <2>. QED BY <1>3, <2>3, <2>6, <2>7 DEF InjectPen, TypeOK
  <1>4. CASE InjectTouch
    <2>. DEFINE all == IF Current.act \in Terminal THEN touches ELSE touches \cup {Current.id}
                fit == /\ Cardinality(all \cup {Current.id}) <= MaxTouch
                       /\ all \ {Current.id} \subseteq wtouch
                       /\ (Current.act = "Down") # (Current.id \in wtouch)
    <2>1. PICK ok \in Answers("touch", fit) :
            /\ Advance(ok)
            /\ touches' = IF ok /\ Current.act \in Terminal THEN all \ {Current.id} ELSE all
            /\ wtouch' = CASE ok /\ Current.act = "Down" -> wtouch \cup {Current.id}
                           [] ok /\ Current.act \in Terminal -> wtouch \ {Current.id}
                           [] OTHER -> wtouch
      BY <1>4 DEF InjectTouch
    <2>2. ok \in BOOLEAN
      BY <2>1, AnswersBoolean
    <2>3. Rest
      BY <1>0, <1>4, <2>1, <2>2 DEF InjectTouch
    <2>4. Current.id \in TouchIds
      BY <1>4, StepKeeps DEF InjectTouch, Samples
    <2>5. touches' \subseteq TouchIds /\ wtouch' \subseteq TouchIds
      BY <2>1, <2>4 DEF TypeOK
    <2>. QED BY <1>4, <2>3, <2>5 DEF InjectTouch, TypeOK
  <1>5. CASE InjectMouse
    <2>1. Rest
      BY <1>0, <1>5 DEF InjectMouse
    <2>2. Current.id \subseteq Buttons
      BY <1>5, StepKeeps DEF InjectMouse, Samples
    <2>3. buttons' \subseteq Buttons /\ wbuttons' \subseteq Buttons
      BY <1>5, <2>2 DEF InjectMouse, Sent, Changed, Prefixes, TypeOK
    <2>. QED BY <1>5, <2>1, <2>3 DEF InjectMouse, TypeOK
  <1>6. CASE InjectKey
    <2>1. PICK ok \in Answers("key", TRUE) :
            /\ Advance(ok)
            /\ keys' = CASE Current.act = "Up" -> keys \ {Current.id}
                         [] Current.act = "Down" /\ ok -> keys \cup {Current.id}
                         [] OTHER -> keys
            /\ wkeys' = CASE ok /\ Current.act = "Down" -> wkeys \cup {Vk[Current.id]}
                          [] ok /\ Current.act = "Up" -> wkeys \ {Vk[Current.id]}
                          [] OTHER -> wkeys
      BY <1>6 DEF InjectKey
    <2>2. ok \in BOOLEAN
      BY <2>1, AnswersBoolean
    <2>3. Rest
      BY <1>0, <1>6, <2>1, <2>2 DEF InjectKey
    <2>4. Current.id \in Codes
      BY <1>6, StepKeeps DEF InjectKey, Samples
    <2>5. keys' \subseteq Codes /\ wkeys' \subseteq Keys
      BY <2>1, <2>4 DEF Keys, TypeOK
    <2>. QED BY <1>6, <2>3, <2>5 DEF InjectKey, TypeOK
  <1>7. CASE InjectCommand
    <2>1. Rest
      BY <1>0, <1>7 DEF InjectCommand
    <2>2. wkeys' \subseteq Keys
      BY <1>7 DEF InjectCommand, Keys, TypeOK
    <2>. QED BY <1>7, <2>1, <2>2 DEF InjectCommand, TypeOK
  <1>8. CASE InjectReset
    <2>1. Rest
      BY <1>0, <1>8 DEF InjectReset
    <2>2. reset_all
      BY <1>8 DEF InjectReset
    <2>. QED BY <2>1, <2>2, ResetType DEF TypeOK
  <1>. QED BY <1>1, <1>2, <1>3, <1>4, <1>5, <1>6, <1>7, <1>8 DEF Inject

\* Resets and changes of the settings keep the types.
LEMMA HostType ==
    ASSUME TypeOK, Host
    PROVE  TypeOK'
  <1>. USE DEF stateVars, windowsVars, settingsVars, uiVars
  <1>1. CASE HostReset
    BY <1>1, ResetType DEF HostReset, TypeOK
  <1>2. CASE CloseReset
    BY <1>2, ResetType DEF CloseReset, TypeOK
  <1>3. ASSUME NEW new \in SUBSET Shared, SetInputSettings(new) PROVE TypeOK'
    <2>1. reset_all /\ apply' \in [by : {"host", "browser"}, new : SUBSET Shared] \cup {None}
      BY <1>3 DEF SetInputSettings
    <2>. QED BY <1>3, <2>1, ResetType DEF SetInputSettings, TypeOK
  <1>4. CASE ApplySettings
    <2>0. revision' \in 0..MaxRev
      <3>1. revision \in 0..MaxRev /\ revision < MaxRev /\ revision' = revision + 1
        BY <1>4 DEF ApplySettings, TypeOK
      <3>. QED BY <3>1, ConstantsAssumption
    <2>1. apply \in [by : {"host", "browser"}, new : SUBSET Shared] /\ apply' = None
      BY <1>4 DEF ApplySettings, TypeOK
    <2>3. seen' \in 0..MaxRev /\ ui' \in {"idle", "options", "settings", "applying"}
      BY <1>4, <2>0 DEF ApplySettings, TypeOK
    <2>2. options' \subseteq Options /\ settings' \subseteq Shared
      BY <1>4, <2>1 DEF ApplySettings, Options, Shared, TypeOK
    <2>. QED BY <1>4, <2>0, <2>1, <2>2, <2>3 DEF ApplySettings, TypeOK
  <1>5. CASE HostSync
    BY <1>5 DEF HostSync, Options, Shared, TypeOK
  <1>6. ASSUME NEW o \in Toggles, HostToggle(o) PROVE TypeOK'
    <2>1. reset_all /\ config' \subseteq Options
      BY <1>6, ConstantsAssumption DEF HostToggle, Changed, TypeOK
    <2>. QED BY <1>6, <2>1, ResetType DEF HostToggle, TypeOK
  <1>7. CASE HostSetOptions
    BY <1>7 DEF HostSetOptions, TypeOK
  <1>8. CASE HostApplyEqual
    BY <1>8 DEF HostApplyEqual, TypeOK
  <1>9. CASE HostApply
    <2>1. reset_all /\ apply' \in [by : {"host", "browser"}, new : SUBSET Shared] \cup {None}
      BY <1>9 DEF HostApply
    <2>2. ui' \in {"applying", "idle"}
      BY <1>9 DEF HostApply
    <2>. QED BY <1>9, <2>1, <2>2, ResetType DEF HostApply, TypeOK
  <1>. QED BY <1>1, <1>2, <1>3, <1>4, <1>5, <1>6, <1>7, <1>8, <1>9 DEF Host

\* Type correctness: the packet under way always has a sample left, the state
\* lock is held only by it, and nothing outside the configured pointers,
\* buttons, keys and options is ever recorded.
THEOREM TypeCorrect == Spec => []TypeOK
  <1>1. Init => TypeOK
    <2>. SUFFICES ASSUME Init PROVE TypeOK
      OBVIOUS
    <2>1. revision \in 0..MaxRev /\ seen \in 0..MaxRev
      BY ConstantsAssumption DEF Init
    <2>2. options \subseteq Options /\ config \subseteq Options /\ settings \subseteq Shared
      BY ConstantsAssumption DEF Init
    <2>. QED BY <2>1, <2>2 DEF Init, TypeOK
  <1>2. TypeOK /\ [Next]_vars => TypeOK'
    <2>1. ASSUME TypeOK, UNCHANGED vars PROVE TypeOK'
      BY <2>1 DEF vars, stateVars, windowsVars, settingsVars, uiVars, TypeOK
    <2>. QED BY <2>1, BrowserType, InjectType, HostType DEF Next
  <1>. QED BY <1>1, <1>2, PTL DEF Spec

-----------------------------------------------------------------------------
(* Everything Windows holds is tracked, and a reset finds it                *)

\* A step that changes neither side.
LEMMA QuietTracked ==
    ASSUME WindowsTracked, ResetReleases,
           UNCHANGED <<stateVars, windowsVars, result>>
    PROVE  WindowsTracked' /\ ResetReleases'
  BY DEF stateVars, windowsVars, WindowsTracked, ResetReleases, NothingHeld

\* A touch sample, with any answer of Windows.
LEMMA TouchStep ==
    ASSUME TouchesTracked, InjectTouch
    PROVE  TouchesTracked'
  BY DEF InjectTouch, TouchesTracked, Terminal

\* No step makes Windows hold what is not tracked, and a reset releases what is.
LEMMA TrackedStep ==
    ASSUME MayFail = FALSE, "pen" \in Refuses, TypeOK, WindowsTracked, ResetReleases,
           [Next]_vars
    PROVE  WindowsTracked' /\ ResetReleases'
  <1>1. CASE UNCHANGED vars \/ Browser
    <2>1. UNCHANGED <<stateVars, windowsVars, result>>
      BY <1>1 DEF vars, Browser, PointerDown, PointerMove, PointerEnd, MouseInput, KeyInput,
                  Command, ResetInput, TransportLost, Receive
    <2>. QED BY <2>1, QuietTracked
  <1>2. CASE Inject
    <2>1. CASE Skipped
      BY <2>1 DEF Skipped, stateVars, windowsVars, WindowsTracked, ResetReleases
    <2>2. CASE SwitchPenFails
      <3>1. wpen # pen.id
        BY <2>2, StrictAnswer DEF SwitchPenFails
      <3>2. wpen = None
        BY <3>1, HeldPen
      <3>. QED BY <2>2, <3>2 DEF SwitchPenFails, windowsVars, WindowsTracked, ResetReleases
    <2>3. CASE InjectPen
      BY <2>3, PenTracked
    <2>4. CASE InjectTouch
      <3>1. TouchesTracked'
        BY <2>4, TouchStep DEF WindowsTracked, TouchesTracked
      <3>. QED BY <2>4, <3>1 DEF InjectTouch, WindowsTracked, TouchesTracked, ResetReleases
    <2>5. CASE InjectMouse
      <3>1. Current.act \in Terminal => Current.id = {}
        BY <2>5, StepKeeps DEF InjectMouse, Samples, Terminal
      <3>2. /\ wbuttons' = Sent(Changed(buttons, Current.id), Current.id)
            /\ buttons' = IF Current.act \in Terminal THEN {} ELSE Current.id
        BY <2>5 DEF InjectMouse
      <3>3. wbuttons \subseteq buttons
        BY DEF WindowsTracked
      <3>4. wbuttons' \subseteq Current.id
        BY <3>2, <3>3 DEF Sent, Changed
      <3>5. wbuttons' \subseteq buttons'
        BY <3>1, <3>2, <3>4
      <3>. QED BY <2>5, <3>5 DEF InjectMouse, WindowsTracked, ResetReleases
    <2>6. CASE InjectKey
      BY <2>6 DEF InjectKey, Answers, WindowsTracked, ResetReleases
    <2>7. CASE InjectCommand
      BY <2>7 DEF InjectCommand, stateVars, WindowsTracked, ResetReleases
    <2>8. CASE InjectReset
      BY <2>8, ResetTracked DEF InjectReset
    <2>. QED BY <1>2, <2>1, <2>2, <2>3, <2>4, <2>5, <2>6, <2>7, <2>8 DEF Inject
  <1>3. CASE Host
    <2>1. CASE reset_all
      BY <2>1, ResetTracked
    <2>2. CASE ApplySettings \/ HostSync \/ HostSetOptions \/ HostApplyEqual
      <3>1. UNCHANGED <<stateVars, windowsVars, result>>
        BY <2>2 DEF ApplySettings, HostSync, HostSetOptions, HostApplyEqual
      <3>. QED BY <3>1, QuietTracked
    <2>. QED BY <1>3, <2>1, <2>2 DEF Host, HostReset, CloseReset, SetInputSettings, HostToggle, HostApply
  <1>. QED BY <1>1, <1>2, <1>3 DEF Next

\* While native calls fail only when they do not fit what Windows holds, every
\* pen, touch, button and key that Windows holds is recorded in InjectorState.
THEOREM WindowsStaysTracked ==
    ASSUME MayFail = FALSE, "pen" \in Refuses
    PROVE  Spec => []WindowsTracked
  <1>1. Init => WindowsTracked /\ ResetReleases
    BY DEF Init, WindowsTracked, ResetReleases
  <1>2. TypeOK /\ WindowsTracked /\ ResetReleases /\ [Next]_vars
          => (WindowsTracked /\ ResetReleases)'
    BY TrackedStep
  <1>. QED BY <1>1, <1>2, TypeCorrect, PTL DEF Spec

\* Under the same assumption a reset_all that returns Ok has released
\* everything that Windows held.
THEOREM ResetReleasesAll ==
    ASSUME MayFail = FALSE, "pen" \in Refuses
    PROVE  Spec => []ResetReleases
  <1>1. Init => WindowsTracked /\ ResetReleases
    BY DEF Init, WindowsTracked, ResetReleases
  <1>2. TypeOK /\ WindowsTracked /\ ResetReleases /\ [Next]_vars
          => (WindowsTracked /\ ResetReleases)'
    BY TrackedStep
  <1>. QED BY <1>1, <1>2, TypeCorrect, PTL DEF Spec

\* Whatever native calls fail and whatever Windows refuses, a touch contact
\* that Windows holds stays recorded.
THEOREM TouchesStayTracked == Spec => []TouchesTracked
  <1>1. Init => TouchesTracked
    BY DEF Init, TouchesTracked
  <1>2. TouchesTracked /\ [Next]_vars => TouchesTracked'
    <2>. SUFFICES ASSUME TouchesTracked, [Next]_vars PROVE TouchesTracked'
      OBVIOUS
    <2>1. CASE UNCHANGED vars \/ Browser
      <3>1. UNCHANGED <<stateVars, windowsVars>>
        BY <2>1 DEF vars, Browser, PointerDown, PointerMove, PointerEnd, MouseInput, KeyInput,
                    Command, ResetInput, TransportLost, Receive
      <3>. QED BY <3>1 DEF stateVars, windowsVars, TouchesTracked
    <2>2. CASE reset_all
      BY <2>2 DEF reset_all, ResetPenFails, ResetTouchFails, ResetRemoteFails, ResetSucceeds,
                  windowsVars, TouchesTracked
    <2>3. CASE InjectTouch
      BY <2>3, TouchStep
    <2>4. CASE Inject /\ ~InjectTouch
      <3>1. CASE InjectReset
        BY <2>2, <3>1 DEF InjectReset
      <3>2. CASE ~InjectReset
        <4>1. UNCHANGED <<touches, wtouch>>
          BY <2>4, <3>2 DEF Inject, Skipped, SwitchPenFails, InjectPen, InjectMouse, InjectKey,
                            InjectCommand, stateVars, windowsVars
        <4>. QED BY <4>1 DEF TouchesTracked
      <3>. QED BY <3>1, <3>2
    <2>5. CASE Host /\ ~reset_all
      <3>1. UNCHANGED <<stateVars, windowsVars>>
        BY <2>5 DEF Host, HostReset, CloseReset, SetInputSettings, ApplySettings, HostSync,
                    HostSetOptions, HostApplyEqual, HostApply, HostToggle
      <3>. QED BY <3>1 DEF stateVars, windowsVars, TouchesTracked
    <2>. QED BY <2>1, <2>2, <2>3, <2>4, <2>5 DEF Next
  <1>. QED BY <1>1, <1>2, PTL DEF Spec

-----------------------------------------------------------------------------
(* The shared settings                                                      *)

\* SharedState while a change is under way: between set_options and
\* apply_input_settings_from_host the injector follows either the host's
\* configuration or what a browser applied meanwhile.
SettingsInv ==
    /\ seen <= revision
    /\ ui = "applying" => apply # None /\ apply.by = "host" /\ apply.new = config \cap Shared
    /\ apply # None /\ apply.by = "host" => ui = "applying"
    /\ ui \in {"idle", "options"} /\ apply = None => options \cap Shared = settings
    /\ ui = "settings" /\ apply = None => options \cap Shared \in {settings, config \cap Shared}
    /\ ui # "options" => options \ Shared = config \ Shared
    /\ ui = "idle" /\ seen = revision => config \cap Shared = settings

\* Without failures reset_all returns Ok.
LEMMA ResetOk ==
    ASSUME MayFail = FALSE, Refuses = {}, reset_all
    PROVE  result' = "ok"
  BY DEF reset_all, ResetPenFails, ResetTouchFails, ResetRemoteFails, ResetSucceeds, Answers

\* Every step of the two paths to the settings keeps SettingsInv.
LEMMA SettingsStep ==
    ASSUME MayFail = FALSE, Refuses = {}, TypeOK, SettingsInv, [Next]_vars
    PROVE  SettingsInv'
  <1>. USE DEF settingsVars, uiVars
  <1>1. CASE \/ UNCHANGED vars \/ Browser \/ Inject \/ HostReset \/ CloseReset
    <2>1. UNCHANGED <<options, settings, revision, apply, config, seen, ui>>
      BY <1>1 DEF vars, Browser, PointerDown, PointerMove, PointerEnd, MouseInput, KeyInput,
                  Command, ResetInput, TransportLost, Receive, Inject, Skipped, SwitchPenFails,
                  InjectPen, InjectTouch, InjectMouse, InjectKey, InjectCommand, InjectReset,
                  Step, HostReset, CloseReset
    <2>. QED BY <2>1 DEF SettingsInv
  <1>2. ASSUME NEW new \in SUBSET Shared, SetInputSettings(new) PROVE SettingsInv'
    <2>1. /\ apply = None /\ apply' = [by |-> "browser", new |-> new]
          /\ UNCHANGED <<options, settings, revision, config, seen, ui>>
      BY <1>2, ResetOk DEF SetInputSettings
    <2>2. apply' # None
      BY <2>1, ConstantsAssumption
    <2>. QED BY <2>1, <2>2 DEF SettingsInv
  <1>3. CASE ApplySettings
    <2>1. /\ apply \in [by : {"host", "browser"}, new : SUBSET Shared] /\ apply # None
          /\ revision \in Nat /\ seen \in Nat
      BY <1>3 DEF ApplySettings, TypeOK
    <2>2. /\ options' = (options \ Shared) \cup apply.new /\ settings' = apply.new
          /\ revision' = revision + 1 /\ apply' = None /\ config' = config
      BY <1>3 DEF ApplySettings
    <2>3. options' \cap Shared = settings' /\ options' \ Shared = options \ Shared
      BY <2>1, <2>2
    <2>4. CASE apply.by = "host"
      BY <1>3, <2>1, <2>2, <2>3, <2>4 DEF ApplySettings, SettingsInv
    <2>5. CASE apply.by = "browser"
      BY <1>3, <2>1, <2>2, <2>3, <2>5 DEF ApplySettings, SettingsInv
    <2>. QED BY <2>1, <2>4, <2>5
  <1>4. CASE HostSync
    BY <1>4 DEF HostSync, SettingsInv, TypeOK
  <1>5. ASSUME NEW o \in Toggles, HostToggle(o) PROVE SettingsInv'
    BY <1>5 DEF HostToggle, SettingsInv
  <1>6. CASE HostSetOptions
    BY <1>6 DEF HostSetOptions, SettingsInv
  <1>7. CASE HostApplyEqual
    BY <1>7 DEF HostApplyEqual, SettingsInv, TypeOK
  <1>8. CASE HostApply
    <2>1. /\ apply = None /\ apply' = [by |-> "host", new |-> config \cap Shared]
          /\ ui = "settings" /\ ui' = "applying"
          /\ UNCHANGED <<options, settings, revision, config, seen>>
      BY <1>8, ResetOk DEF HostApply
    <2>2. apply' # None
      BY <2>1, ConstantsAssumption
    <2>. QED BY <2>1, <2>2 DEF SettingsInv
  <1>. QED BY <1>1, <1>2, <1>3, <1>4, <1>5, <1>6, <1>7, <1>8 DEF Next, Host

\* As long as no native call fails, the injector, the shared settings and the
\* host UI agree whenever no change is under way, however the host's edits and
\* the browser's interleave.
THEOREM SettingsStayShared ==
    ASSUME MayFail = FALSE, Refuses = {}
    PROVE  Spec => []SharedState
  <1>1. Init => SettingsInv
    BY ConstantsAssumption DEF Init, SettingsInv
  <1>2. TypeOK /\ SettingsInv /\ [Next]_vars => SettingsInv'
    BY SettingsStep
  <1>3. SettingsInv => SharedState
    BY DEF SettingsInv, SharedState
  <1>. QED BY <1>1, <1>2, <1>3, TypeCorrect, PTL DEF Spec

-----------------------------------------------------------------------------
(* Once everything is up in the browser nothing is held: what Windows holds  *)
(* is down in the browser, or its end is in the packet under way, or the     *)
(* transport it came through was lost and is still to be closed.             *)

\* The packet under way ends the contact i of device d.
EndsWith(d, i) ==
    /\ job # None
    /\ \E a \in Terminal : \/ job.left = <<Sample(d, a, i)>>
                           \/ job.left = <<Sample(d, "Move", i), Sample(d, a, i)>>

\* The packets of the browser's engines: a contact that is down stays down in
\* its packet, or the packet ends it.
PacketInv ==
    job # None =>
        \/ \E d \in {"pen", "touch"} : \E i :
              /\ <<d, i>> \in active
              /\ \/ job.left = <<Sample(d, "Down", i)>>
                 \/ job.left = <<Sample(d, "Move", i)>>
                 \/ job.left = <<Sample(d, "Down", i), Sample(d, "Move", i)>>
        \/ \E d \in {"pen", "touch"} : \E i : EndsWith(d, i)
        \/ \E i : job.left = <<Sample("pen", "Hover", i)>>
        \/ \E s : /\ job.left = <<s>> /\ s.dev \notin {"pen", "touch"}
                  /\ s.dev = "mouse" /\ s.id # {} => <<"mouse", 0>> \in active
                  /\ s.dev = "key" /\ s.act = "Down" => <<"key", s.id>> \in active

\* The options stay as they were at the start.
OptionsInv ==
    /\ ui = "idle" /\ apply = None /\ options = Enabled
    /\ job # None => job.options = Enabled

\* The injector believes a pen down only while Windows does.
PenInv == pen # None /\ pen.down => wpen = pen.id

DownInv ==
    /\ wpen # None => closing \/ <<"pen", wpen>> \in active \/ EndsWith("pen", wpen)
    /\ \A i \in wtouch : closing \/ <<"touch", i>> \in active \/ EndsWith("touch", i)
    /\ wbuttons # {} => \/ closing \/ <<"mouse", 0>> \in active
                        \/ job # None /\ Current.dev = "mouse" /\ Current.id = {}
    /\ \A c \in keys : \/ closing \/ <<"key", c>> \in active
                       \/ job # None /\ (Current = Sample("key", "Up", c) \/ Current.dev = "reset")

EndsInv == PacketInv /\ OptionsInv /\ PenInv /\ DownInv

\* The first sample of a packet that ends a contact.
LEMMA EndsHead ==
    ASSUME NEW d, NEW i, EndsWith(d, i)
    PROVE  Current.dev = d /\ Current.id = i /\ Current.act \in {"Move"} \cup Terminal
  BY DEF EndsWith, Current, Sample, Terminal

\* The rest of a packet after one of its samples.
LEMMA PacketAdvances ==
    ASSUME TypeOK, PacketInv, job # None, NEW ok \in BOOLEAN, Advance(ok), active' = active
    PROVE  /\ PacketInv'
           /\ job' # None => job'.options = job.options
           /\ Current.dev \notin {"pen", "touch"} => job' = None
           /\ \A d, i : EndsWith(d, i) => \/ Current.act = "Move" /\ ok /\ EndsWith(d, i)'
                                          \/ Current.act = "Move" /\ ~ok
                                          \/ Current.act \in Terminal
  <1>1. job \in [options : SUBSET Options, left : Seq(Samples) \ {<<>>}]
    BY DEF TypeOK
  <1>2. CASE ok /\ Len(job.left) > 1
    <2>0. \A s : job.left # <<s>>
      <3>1. \A s : Len(<<s>>) = 1
        OBVIOUS
      <3>2. ASSUME NEW s, job.left = <<s>> PROVE FALSE
        <4>1. Len(job.left) = 1
          BY <3>1, <3>2, Zenon
        <4>2. ~(1 > 1)
          OBVIOUS
        <4>. QED BY <1>2, <4>1, <4>2, Zenon
      <3>. QED BY <3>2
    <2>1. job' = [job EXCEPT !.left = Tail(@)]
      BY <1>2 DEF Advance
    <2>2. /\ job'.left = Tail(job.left) /\ job'.options = job.options
      BY <1>1, <2>1
    <2>3. job' # None
      BY <1>2, AdvanceType, CurrentSample, ConstantsAssumption DEF Advance
    <2>4. ASSUME NEW d, NEW i, EndsWith(d, i)
          PROVE  Current.act = "Move" /\ EndsWith(d, i)'
      <3>1. PICK a \in Terminal : job.left = <<Sample(d, "Move", i), Sample(d, a, i)>>
        BY <2>0, <2>4 DEF EndsWith
      <3>2. Tail(job.left) = <<Sample(d, a, i)>> /\ Current = Sample(d, "Move", i)
        BY <3>1 DEF Current
      <3>. QED BY <2>2, <2>3, <3>2 DEF EndsWith, Sample
    <2>5. ASSUME NEW d, NEW i, job.left = <<Sample(d, "Down", i), Sample(d, "Move", i)>>
          PROVE  job'.left = <<Sample(d, "Move", i)>>
      BY <2>2, <2>5
    <2>6. PacketInv'
      <3>1. CASE \E d \in {"pen", "touch"} : \E i : EndsWith(d, i)
        BY <2>4, <3>1 DEF PacketInv
      <3>2. CASE \E d \in {"pen", "touch"} : \E i :
                   <<d, i>> \in active /\ job.left = <<Sample(d, "Down", i), Sample(d, "Move", i)>>
        <4>0. PICK d \in {"pen", "touch"} : \E i :
                 <<d, i>> \in active /\ job.left = <<Sample(d, "Down", i), Sample(d, "Move", i)>>
          BY <3>2
        <4>1. PICK i :
                 <<d, i>> \in active /\ job.left = <<Sample(d, "Down", i), Sample(d, "Move", i)>>
          BY <4>0
        <4>2. job'.left = <<Sample(d, "Move", i)>>
          BY <2>5, <4>1
        <4>. QED BY <4>1, <4>2 DEF PacketInv
      <3>. QED BY <2>0, <3>1, <3>2 DEF PacketInv
    <2>7. Current.dev \in {"pen", "touch"}
      <3>1. CASE \E d \in {"pen", "touch"} : \E i : EndsWith(d, i)
        BY <3>1, EndsHead
      <3>2. CASE \E d \in {"pen", "touch"} : \E i :
                   job.left = <<Sample(d, "Down", i), Sample(d, "Move", i)>>
        BY <3>2 DEF Current, Sample
      <3>. QED BY <2>0, <3>1, <3>2 DEF PacketInv
    <2>. QED BY <1>2, <2>2, <2>4, <2>6, <2>7
  <1>3. CASE ~(ok /\ Len(job.left) > 1)
    <2>1. job' = None
      BY <1>3 DEF Advance
    <2>2. ASSUME NEW d, NEW i, EndsWith(d, i), ok PROVE Current.act \in Terminal
      BY <1>3, <2>2 DEF EndsWith, Current, Sample
    <2>. QED BY <2>1, <2>2, EndsHead DEF PacketInv
  <1>. QED BY <1>2, <1>3

\* reset_all releases everything: no call of it fails.
LEMMA ResetReleasesEverything ==
    ASSUME MayFail = FALSE, Refuses = {"pen"}, TypeOK, WindowsTracked, PenInv, reset_all
    PROVE  NothingHeld' /\ keys' = {} /\ PenInv'
  <1>1. ~ResetPenFails /\ ~ResetTouchFails /\ ~ResetRemoteFails
    BY DEF ResetPenFails, ResetTouchFails, ResetRemoteFails, PenCall, PenInv, Answers
  <1>2. ResetSucceeds
    BY <1>1 DEF reset_all
  <1>3. result' = "ok" /\ keys' = {} /\ pen' = None
    BY <1>2 DEF ResetSucceeds
  <1>4. ResetReleases'
    BY ResetTracked
  <1>. QED BY <1>3, <1>4 DEF ResetReleases, PenInv

\* A pen sample leaves down no pen but its own, and that only while the contact
\* goes on.
LEMMA PenSample ==
    ASSUME MayFail = FALSE, Refuses = {"pen"}, TypeOK, WindowsTracked, PenInv, InjectPen
    PROVE  /\ PenInv' /\ wpen' \in {None, Current.id}
           /\ Current.act \in Terminal => wpen' = None
           /\ Current.act = "Hover" => wpen' \in {None, wpen}
           /\ \E ok \in BOOLEAN : Advance(ok) /\ (Current.act = "Move" /\ ~ok => wpen' = None)
  <1>. DEFINE was == ~OtherPen /\ pen # None /\ pen.down
              w   == IF OtherPen THEN LiftedPen ELSE wpen
              fit == PenFits(Current.act, Current.id, was, w)
  <1>1. PICK ok \in Answers("pen", fit) :
          /\ Advance(ok)
          /\ wpen' = IF ok THEN PenHeld(Current.act, Current.id, w) ELSE w
          /\ pen' = CASE ~ok -> IF OtherPen THEN None ELSE pen
                      [] ok /\ Current.act \in Terminal -> None
                      [] OTHER -> [id |-> Current.id,
                                   down |-> Current.act = "Down" \/ (Current.act = "Move" /\ was)]
    BY DEF InjectPen
  <1>2. job # None /\ Current.dev = "pen"
    BY DEF InjectPen, Step
  <1>3. Current.act \in {"Down", "Move", "Hover", "Up", "Cancel"} /\ Current.id \in PenIds
    BY <1>2, CurrentSample DEF Samples
  <1>4. ok = fit /\ ok \in BOOLEAN /\ was \in BOOLEAN
    <2>1. was \in BOOLEAN
      BY DEF TypeOK
    <2>2. fit \in BOOLEAN
      BY <2>1, PenFitsBoolean
    <2>. QED BY <1>1, <2>1, <2>2, StrictAnswer
  <1>5. /\ w # None => ~OtherPen /\ w = wpen /\ w = Current.id /\ was
        /\ was => w = Current.id
    <2>1. CASE OtherPen
      BY <2>1, HeldPen DEF LiftedPen, PenCall
    <2>2. CASE ~OtherPen
      BY <2>2, HeldPen DEF OtherPen, PenInv
    <2>. QED BY <2>1, <2>2
  <1>6. None \notin PenIds /\ None \notin [id : PenIds, down : BOOLEAN]
    BY ConstantsAssumption
  <1>0. Advance(ok)
    BY <1>1
  <1>. HIDE DEF was, w, fit
  <1>7. CASE ~ok
    <2>1. wpen' = w /\ pen' = IF OtherPen THEN None ELSE pen
      BY <1>1, <1>7
    <2>2. PenInv'
      <3>1. CASE OtherPen
        BY <2>1, <3>1 DEF PenInv
      <3>2. CASE ~OtherPen
        BY <2>1, <3>2 DEF PenInv, w
      <3>. QED BY <3>1, <3>2
    <2>3. Current.act \in {"Move"} \cup Terminal => w = None
      BY <1>3, <1>4, <1>5, <1>7 DEF fit, PenFits, Terminal
    <2>. QED BY <1>0, <1>4, <1>5, <2>1, <2>2, <2>3
  <1>8. CASE ok /\ Current.act = "Down"
    <2>1. wpen' = Current.id /\ pen' = [id |-> Current.id, down |-> TRUE]
      BY <1>1, <1>3, <1>4, <1>8 DEF fit, PenFits, PenHeld, Terminal
    <2>. QED BY <1>0, <1>4, <1>8, <2>1 DEF PenInv, Terminal
  <1>9. CASE ok /\ Current.act = "Move"
    <2>1. wpen' = w /\ pen' = [id |-> Current.id, down |-> was]
      BY <1>1, <1>3, <1>4, <1>9 DEF PenHeld, Terminal
    <2>. QED BY <1>0, <1>4, <1>5, <1>9, <2>1 DEF PenInv, Terminal
  <1>10. CASE ok /\ Current.act = "Hover"
    <2>1. wpen' = w /\ pen' = [id |-> Current.id, down |-> FALSE]
      BY <1>1, <1>3, <1>4, <1>10 DEF PenHeld, Terminal
    <2>. QED BY <1>0, <1>4, <1>5, <1>10, <2>1 DEF PenInv, Terminal
  <1>11. CASE ok /\ Current.act \in Terminal
    <2>1. w = Current.id
      BY <1>3, <1>4, <1>11 DEF fit, PenFits, Terminal
    <2>2. wpen' = None /\ pen' = None
      BY <1>1, <1>3, <1>4, <1>11, <2>1 DEF PenHeld, Terminal
    <2>. QED BY <1>0, <1>4, <1>11, <2>2 DEF PenInv, Terminal
  <1>. QED BY <1>3, <1>4, <1>7, <1>8, <1>9, <1>10, <1>11 DEF Terminal

\* A step of the browser: it receives a packet, or loses the transport.
LEMMA BrowserEnds ==
    ASSUME TypeOK, EndsInv, Browser
    PROVE  EndsInv'
  <1>. USE DEF stateVars, windowsVars, settingsVars, uiVars
  <1>1. UNCHANGED <<pen, touches, buttons, keys, wpen, wtouch, wbuttons, wkeys, options, apply, ui>>
    BY DEF Browser, PointerDown, PointerMove, PointerEnd, MouseInput, KeyInput, Command,
       ResetInput, TransportLost, Receive
  <1>2. job = None
    BY DEF Browser, PointerDown, PointerMove, PointerEnd, MouseInput, KeyInput, Command,
       ResetInput, TransportLost, Receive
  <1>3. PenInv'
    BY <1>1 DEF EndsInv, PenInv
  \* What is held is down in the browser, or a lost transport is to be closed.
  <1>4. /\ wpen # None => closing \/ <<"pen", wpen>> \in active
        /\ \A i \in wtouch : closing \/ <<"touch", i>> \in active
        /\ wbuttons # {} => closing \/ <<"mouse", 0>> \in active
        /\ \A c \in keys : closing \/ <<"key", c>> \in active
    BY <1>2 DEF EndsInv, DownInv, EndsWith
  <1>5. ASSUME NEW s, Receive(s) PROVE job' = [options |-> Enabled, left |-> s] /\ closing' = closing
    BY <1>5 DEF Receive, EndsInv, OptionsInv
  <1>6. OptionsInv'
    <2>1. CASE TransportLost
      BY <1>1, <1>2, <2>1 DEF TransportLost, EndsInv, OptionsInv
    <2>2. CASE ~TransportLost
      <3>1. PICK s : Receive(s)
        BY <2>2 DEF Browser, PointerDown, PointerMove, PointerEnd, MouseInput, KeyInput, Command,
           ResetInput
      <3>. QED BY <1>1, <1>5, <3>1 DEF EndsInv, OptionsInv
    <2>. QED BY <2>1, <2>2
  <1>7. ASSUME NEW s, Receive(s), s \in Seq(Samples) \ {<<>>}
        PROVE  /\ job' # None /\ job'.left = s /\ Current' = Head(s)
               /\ \A x : s = <<x>> => Current' = x
    <2>1. job' = [options |-> options, left |-> s]
      BY <1>7 DEF Receive
    <2>2. job' \in [options : SUBSET Options, left : Seq(Samples)]
      BY <1>7, <2>1 DEF TypeOK
    <2>. QED BY <2>1, <2>2, ConstantsAssumption DEF Current
  <1>. DEFINE Good == PacketInv' /\ DownInv'
  \* A packet that ends nothing.
  <1>8. ASSUME active \subseteq active', closing' = closing PROVE DownInv'
    BY <1>1, <1>4, <1>8 DEF DownInv
  \* Packets of a pen or a touch.
  <1>9. ASSUME NEW d \in {"pen", "touch"}, NEW i, <<d, i>> \in Contacts,
               d = "pen" => i \in PenIds, d = "touch" => i \in TouchIds,
               PointerDown(d, i) \/ PointerMove(d, i) \/ PointerEnd(d, i)
        PROVE  Good
    <2>1. /\ Sample(d, "Down", i) \in Samples /\ Sample(d, "Move", i) \in Samples
          /\ \A a \in Terminal : Sample(d, a, i) \in Samples
          /\ d = "pen" => Sample(d, "Hover", i) \in Samples
      BY <1>9 DEF Sample, Samples, Terminal
    <2>2. CASE PointerDown(d, i)
      <3>1. active \subseteq active' /\ <<d, i>> \in active'
        BY <2>2 DEF PointerDown
      <3>2. PICK s \in {<<Sample(d, "Down", i)>>, <<Sample(d, "Down", i), Sample(d, "Move", i)>>} :
               Receive(s)
        BY <2>2 DEF PointerDown
      <3>3. job'.left = s
        BY <1>7, <2>1, <3>2, Batch
      <3>4. PacketInv'
        BY <3>1, <3>2, <3>3 DEF PacketInv
      <3>. QED BY <1>5, <1>8, <3>1, <3>2, <3>4
    <2>3. CASE PointerMove(d, i)
      <3>1. active' = active
        BY <2>3 DEF PointerMove
      <3>2. CASE <<d, i>> \in active
        <4>1. Receive(<<Sample(d, "Move", i)>>)
          BY <2>3, <3>2 DEF PointerMove
        <4>2. job'.left = <<Sample(d, "Move", i)>>
          BY <1>7, <2>1, <4>1, Batch
        <4>3. PacketInv'
          BY <3>1, <3>2, <4>2 DEF PacketInv
        <4>. QED BY <1>5, <1>8, <3>1, <4>1, <4>3
      <3>3. CASE <<d, i>> \notin active
        <4>1. d = "pen" /\ Receive(<<Sample("pen", "Hover", i)>>)
          BY <2>3, <3>3 DEF PointerMove
        <4>2. job'.left = <<Sample("pen", "Hover", i)>>
          BY <1>7, <2>1, <4>1, Batch
        <4>3. PacketInv'
          BY <4>2 DEF PacketInv
        <4>. QED BY <1>5, <1>8, <3>1, <4>1, <4>3
      <3>. QED BY <3>2, <3>3
    <2>4. CASE PointerEnd(d, i)
      <3>1. active' = active \ {<<d, i>>}
        BY <2>4 DEF PointerEnd
      <3>2. PICK a \in Terminal : \/ Receive(<<Sample(d, a, i)>>)
                                  \/ Receive(<<Sample(d, "Move", i), Sample(d, a, i)>>)
        BY <2>4 DEF PointerEnd
      <3>3. /\ closing' = closing /\ job' # None
            /\ \/ job'.left = <<Sample(d, a, i)>>
               \/ job'.left = <<Sample(d, "Move", i), Sample(d, a, i)>>
        BY <1>5, <1>7, <2>1, <3>2, Batch
      <3>4. EndsWith(d, i)'
        BY <3>3 DEF EndsWith
      <3>5. PacketInv'
        BY <3>4 DEF PacketInv
      <3>6. \A c \in Contacts : c # <<d, i>> /\ c \in active => c \in active'
        BY <3>1
      <3>7. DownInv'
        <4>1. \A j : j # i \/ d # "pen" => (<<"pen", j>> \in active => <<"pen", j>> \in active')
          BY <3>1
        <4>2. \A j : j # i \/ d # "touch" => (<<"touch", j>> \in active => <<"touch", j>> \in active')
          BY <3>1
        <4>3. /\ <<"mouse", 0>> \in active => <<"mouse", 0>> \in active'
              /\ \A c : <<"key", c>> \in active => <<"key", c>> \in active'
          BY <3>1
        <4>4. wpen' # None => closing' \/ <<"pen", wpen'>> \in active' \/ EndsWith("pen", wpen)'
          BY <1>1, <1>4, <3>3, <3>4, <4>1
        <4>5. \A j \in wtouch' : closing' \/ <<"touch", j>> \in active' \/ EndsWith("touch", j)'
          BY <1>1, <1>4, <3>3, <3>4, <4>2
        <4>. QED BY <1>1, <1>4, <3>3, <4>3, <4>4, <4>5 DEF DownInv
      <3>. QED BY <3>5, <3>7
    <2>. QED BY <1>9, <2>2, <2>3, <2>4
  <1>10. ASSUME NEW f \in SUBSET Buttons, MouseInput(f) PROVE Good
    <2>1. PICK s \in Samples : /\ Receive(<<s>>) /\ s.dev = "mouse" /\ s.id = f
                               /\ active' = IF f = {} THEN active \ {<<"mouse", 0>>}
                                                      ELSE active \cup {<<"mouse", 0>>}
      BY <1>10 DEF MouseInput, Sample, Samples, Terminal
    <2>2. job' # None /\ job'.left = <<s>> /\ Current' = s /\ closing' = closing
      BY <1>5, <1>7, <2>1, Batch
    <2>3. PacketInv'
      <3>1. s.dev = "mouse" /\ (s.id # {} => <<"mouse", 0>> \in active')
        BY <2>1
      <3>. QED BY <2>2, <3>1 DEF PacketInv
    <2>4. /\ \A i : <<"pen", i>> \in active => <<"pen", i>> \in active'
          /\ \A i : <<"touch", i>> \in active => <<"touch", i>> \in active'
          /\ \A c : <<"key", c>> \in active => <<"key", c>> \in active'
          /\ f # {} => <<"mouse", 0>> \in active'
      BY <2>1
    <2>5. DownInv'
      BY <1>1, <1>4, <2>1, <2>2, <2>4 DEF DownInv
    <2>. QED BY <2>3, <2>5
  <1>11. ASSUME NEW c \in Codes, KeyInput(c) PROVE Good
    <2>1. PICK a \in {"Down", "Up"} :
             /\ Receive(<<Sample("key", a, c)>>)
             /\ active' = IF a = "Up" THEN active \ {<<"key", c>>} ELSE active \cup {<<"key", c>>}
      BY <1>11 DEF KeyInput
    <2>2. Sample("key", a, c) \in Samples /\ Sample("key", a, c).dev = "key"
      BY DEF Sample, Samples
    <2>3. /\ job' # None /\ job'.left = <<Sample("key", a, c)>> /\ Current' = Sample("key", a, c)
          /\ closing' = closing
      BY <1>5, <1>7, <2>1, <2>2, Batch
    <2>4. PacketInv'
      <3>1. a = "Down" => <<"key", c>> \in active'
        BY <2>1
      <3>2. Sample("key", a, c).act = a /\ Sample("key", a, c).id = c
        BY DEF Sample
      <3>. QED BY <2>2, <2>3, <3>1, <3>2 DEF PacketInv
    <2>5. /\ \A i : <<"pen", i>> \in active => <<"pen", i>> \in active'
          /\ \A i : <<"touch", i>> \in active => <<"touch", i>> \in active'
          /\ <<"mouse", 0>> \in active => <<"mouse", 0>> \in active'
          /\ \A x : x # c \/ a # "Up" => (<<"key", x>> \in active => <<"key", x>> \in active')
      BY <2>1
    <2>6. DownInv'
      BY <1>1, <1>4, <2>1, <2>3, <2>5 DEF DownInv
    <2>. QED BY <2>4, <2>6
  <1>12. ASSUME Command PROVE Good
    <2>1. Receive(<<Sample("chord", "Down", 0)>>) /\ active' = active
      BY <1>12 DEF Command
    <2>2. Sample("chord", "Down", 0) \in Samples /\ Sample("chord", "Down", 0).dev = "chord"
      BY DEF Sample, Samples
    <2>3. job'.left = <<Sample("chord", "Down", 0)>> /\ closing' = closing
      BY <1>5, <1>7, <2>1, <2>2, Batch
    <2>4. PacketInv'
      BY <2>2, <2>3 DEF PacketInv
    <2>. QED BY <1>8, <2>1, <2>3, <2>4
  <1>13. ASSUME ResetInput PROVE Good
    <2>1. Receive(<<Sample("reset", "Down", 0)>>) /\ active' = active \ ({"key"} \X Codes)
      BY <1>13 DEF ResetInput
    <2>2. Sample("reset", "Down", 0) \in Samples /\ Sample("reset", "Down", 0).dev = "reset"
      BY DEF Sample, Samples
    <2>3. /\ job' # None /\ job'.left = <<Sample("reset", "Down", 0)>> /\ Current'.dev = "reset"
          /\ closing' = closing
      BY <1>5, <1>7, <2>1, <2>2, Batch
    <2>4. PacketInv'
      BY <2>2, <2>3 DEF PacketInv
    <2>5. /\ \A i : <<"pen", i>> \in active => <<"pen", i>> \in active'
          /\ \A i : <<"touch", i>> \in active => <<"touch", i>> \in active'
          /\ <<"mouse", 0>> \in active => <<"mouse", 0>> \in active'
      BY <2>1
    <2>6. DownInv'
      BY <1>1, <1>4, <2>3, <2>5 DEF DownInv
    <2>. QED BY <2>4, <2>6
  <1>14. ASSUME TransportLost PROVE Good
    BY <1>2, <1>14 DEF TransportLost, PacketInv, DownInv
  <1>15. /\ \A i \in PenIds : <<"pen", i>> \in Contacts
         /\ \A i \in TouchIds : <<"touch", i>> \in Contacts
    BY DEF Contacts
  <1>16. Good
    BY <1>9, <1>10, <1>11, <1>12, <1>13, <1>14, <1>15 DEF Browser
  <1>. QED BY <1>3, <1>6, <1>16 DEF EndsInv

\* A sample of the packet under way.
LEMMA InjectEnds ==
    ASSUME MayFail = FALSE, Refuses = {"pen"}, "palm" \notin Enabled,
           {"pen", "touch", "mouse", "keyboard"} \subseteq Enabled,
           TypeOK, WindowsTracked, EndsInv, Inject
    PROVE  EndsInv'
  <1>. USE DEF stateVars, windowsVars, settingsVars, uiVars
  <1>0. job # None /\ job.options = Enabled /\ PacketInv /\ OptionsInv /\ PenInv /\ DownInv
    BY DEF Inject, Skipped, SwitchPenFails, InjectPen, InjectTouch, InjectMouse, InjectKey,
       InjectCommand, InjectReset, Step, EndsInv, OptionsInv
  <1>1. UNCHANGED <<options, active, closing, apply, ui>>
    BY DEF Inject, Skipped, SwitchPenFails, InjectPen, InjectTouch, InjectMouse, InjectKey,
       InjectCommand, InjectReset, Step
  <1>2. ASSUME NEW ok \in BOOLEAN, Advance(ok)
        PROVE  /\ PacketInv' /\ OptionsInv'
               /\ Current.dev \notin {"pen", "touch"} => job' = None
               /\ \A d, i : EndsWith(d, i) => \/ Current.act = "Move" /\ ok /\ EndsWith(d, i)'
                                              \/ Current.act = "Move" /\ ~ok
                                              \/ Current.act \in Terminal
    BY <1>0, <1>1, <1>2, PacketAdvances DEF OptionsInv
  <1>3. \A d \in {"pen", "touch"} : \A i : EndsWith(d, i) => Current.dev = d /\ Current.id = i
    BY EndsHead
  <1>4. \A c : Current = Sample("key", "Up", c) => Current.dev = "key" /\ Current.id = c
               /\ Current.act = "Up"
    BY DEF Sample
  \* A mouse with a button down and a key that goes down are down in the browser.
  <1>4a. /\ Current.dev = "mouse" /\ Current.id # {} => <<"mouse", 0>> \in active
         /\ Current.dev = "key" /\ Current.act = "Down" => <<"key", Current.id>> \in active
    <2>1. CASE \E s : /\ job.left = <<s>> /\ s.dev \notin {"pen", "touch"}
                      /\ s.dev = "mouse" /\ s.id # {} => <<"mouse", 0>> \in active
                      /\ s.dev = "key" /\ s.act = "Down" => <<"key", s.id>> \in active
      BY <2>1 DEF Current
    <2>2. CASE Current.dev \in {"pen", "touch"}
      BY <2>2
    <2>3. CASE \E d \in {"pen", "touch"} : \E i : EndsWith(d, i)
      BY <1>3, <2>2, <2>3
    <2>4. CASE \E d \in {"pen", "touch"} : \E i :
                 \/ job.left = <<Sample(d, "Down", i)>>
                 \/ job.left = <<Sample(d, "Move", i)>>
                 \/ job.left = <<Sample(d, "Hover", i)>>
                 \/ job.left = <<Sample(d, "Down", i), Sample(d, "Move", i)>>
      BY <2>2, <2>4 DEF Current, Sample
    <2>. QED BY <1>0, <2>1, <2>3, <2>4 DEF PacketInv
  <1>5. CASE Skipped
    <2>1. Current.dev \in {"pen", "touch", "mouse", "key", "chord", "reset"}
      BY <1>0, CurrentSample DEF Samples
    <2>2. Current.dev = "chord"
      BY <1>0, <1>5, <2>1 DEF Skipped, Gate
    <2>3. UNCHANGED <<pen, keys, wpen, wtouch, wbuttons>> /\ Advance(TRUE)
      BY <1>5 DEF Skipped
    <2>4. PacketInv' /\ OptionsInv'
      BY <1>2, <2>3
    <2>5. PenInv'
      BY <1>0, <2>3 DEF PenInv
    <2>6. DownInv'
      BY <1>0, <1>1, <1>3, <1>4, <2>2, <2>3 DEF DownInv
    <2>. QED BY <2>4, <2>5, <2>6 DEF EndsInv
  <1>6. CASE SwitchPenFails
    BY <1>0, <1>6 DEF SwitchPenFails, PenCall, PenInv, Answers
  <1>7. CASE InjectPen
    <2>1. /\ PenInv' /\ wpen' \in {None, Current.id}
          /\ Current.act \in Terminal => wpen' = None
          /\ Current.act = "Hover" => wpen' \in {None, wpen}
      BY <1>0, <1>7, PenSample
    <2>2. PICK ok \in BOOLEAN : Advance(ok) /\ (Current.act = "Move" /\ ~ok => wpen' = None)
      BY <1>0, <1>7, PenSample
    <2>3. UNCHANGED <<keys, wtouch, wbuttons>> /\ Current.dev = "pen"
      BY <1>7 DEF InjectPen, Step
    <2>4. wpen' # None => closing \/ <<"pen", wpen'>> \in active \/ EndsWith("pen", wpen)'
      <3>. SUFFICES ASSUME wpen' # None, ~closing
                    PROVE  <<"pen", wpen'>> \in active \/ EndsWith("pen", wpen)'
        OBVIOUS
      <3>0. wpen' = Current.id /\ Current.act \notin Terminal
        BY <2>1
      <3>1. PICK i : i = Current.id
        OBVIOUS
      <3>2. CASE \E j : job.left = <<Sample("pen", "Hover", j)>>
        <4>1. Current.act = "Hover"
          BY <3>2 DEF Current, Sample
        <4>2. wpen = wpen'
          BY <2>1, <4>1
        <4>3. ~EndsWith("pen", wpen)
          BY <4>1, EndsHead DEF Terminal
        <4>. QED BY <1>0, <4>2, <4>3 DEF DownInv
      <3>3. CASE \E d \in {"pen", "touch"} : \E j : EndsWith(d, j)
        <4>1. EndsWith("pen", i)
          BY <1>3, <2>3, <3>1, <3>3
        <4>2. EndsWith("pen", i)'
          BY <1>2, <2>2, <3>0, <4>1
        <4>3. wpen' = i
          BY <3>0, <3>1
        <4>. QED BY <4>2, <4>3 DEF EndsWith
      <3>4. CASE \E d \in {"pen", "touch"} : \E j :
                   /\ <<d, j>> \in active
                   /\ \/ job.left = <<Sample(d, "Down", j)>>
                      \/ job.left = <<Sample(d, "Move", j)>>
                      \/ job.left = <<Sample(d, "Down", j), Sample(d, "Move", j)>>
        BY <2>3, <3>0, <3>4 DEF Current, Sample
      <3>5. CASE \E s : job.left = <<s>> /\ s.dev \notin {"pen", "touch"}
        BY <2>3, <3>5 DEF Current
      <3>. QED BY <1>0, <3>2, <3>3, <3>4, <3>5 DEF PacketInv
    <2>5. DownInv'
      BY <1>0, <1>1, <1>3, <1>4, <2>3, <2>4 DEF DownInv
    <2>. QED BY <1>2, <2>1, <2>2, <2>5 DEF EndsInv
  <1>8. CASE InjectTouch
    <2>. DEFINE all == IF Current.act \in Terminal THEN touches ELSE touches \cup {Current.id}
                fit == /\ Cardinality(all \cup {Current.id}) <= MaxTouch
                       /\ all \ {Current.id} \subseteq wtouch
                       /\ (Current.act = "Down") # (Current.id \in wtouch)
    <2>1. PICK ok \in Answers("touch", fit) :
            /\ Advance(ok)
            /\ wtouch' = CASE ok /\ Current.act = "Down" -> wtouch \cup {Current.id}
                           [] ok /\ Current.act \in Terminal -> wtouch \ {Current.id}
                           [] OTHER -> wtouch
      BY <1>8 DEF InjectTouch
    <2>. HIDE DEF fit
    <2>2. ok = TRUE
      BY <2>1 DEF Answers
    <2>3. UNCHANGED <<pen, keys, wpen, wbuttons>> /\ Current.dev = "touch"
      BY <1>8 DEF InjectTouch, Step
    <2>4. /\ wtouch' \subseteq wtouch \cup {Current.id}
          /\ Current.act \in Terminal => wtouch' = wtouch \ {Current.id}
          /\ Current.act # "Down" => wtouch' \subseteq wtouch
      BY <2>1, <2>2 DEF Terminal
    <2>5. ASSUME NEW i \in wtouch', ~closing
          PROVE  <<"touch", i>> \in active \/ EndsWith("touch", i)'
      <3>1. CASE Current.act = "Down" /\ i = Current.id
        <4>1. ASSUME NEW d \in {"pen", "touch"}, NEW j, EndsWith(d, j) PROVE FALSE
          BY <3>1, <4>1, EndsHead DEF Terminal
        <4>2. CASE \E d \in {"pen", "touch"} : \E j :
                     /\ <<d, j>> \in active
                     /\ \/ job.left = <<Sample(d, "Down", j)>>
                        \/ job.left = <<Sample(d, "Move", j)>>
                        \/ job.left = <<Sample(d, "Down", j), Sample(d, "Move", j)>>
          BY <2>3, <3>1, <4>2 DEF Current, Sample
        <4>3. CASE \E s : job.left = <<s>> /\ s.dev \notin {"pen", "touch"}
          BY <2>3, <4>3 DEF Current
        <4>4. CASE \E j : job.left = <<Sample("pen", "Hover", j)>>
          BY <2>3, <4>4 DEF Current, Sample
        <4>. QED BY <1>0, <4>1, <4>2, <4>3, <4>4 DEF PacketInv
      <3>2. CASE ~(Current.act = "Down" /\ i = Current.id)
        <4>1. i \in wtouch
          BY <2>4, <2>5, <3>2
        <4>2. <<"touch", i>> \in active \/ EndsWith("touch", i)
          BY <1>0, <2>5, <4>1 DEF DownInv
        <4>3. ASSUME EndsWith("touch", i) PROVE EndsWith("touch", i)'
          BY <1>2, <1>3, <2>1, <2>2, <2>4, <2>5, <4>3
        <4>. QED BY <4>2, <4>3
      <3>. QED BY <3>1, <3>2
    <2>6. DownInv'
      BY <1>0, <1>1, <1>3, <1>4, <2>3, <2>5 DEF DownInv
    <2>7. PenInv'
      BY <1>0, <2>3 DEF PenInv
    <2>8. PacketInv' /\ OptionsInv'
      BY <1>2, <2>1, <2>2
    <2>. QED BY <2>6, <2>7, <2>8 DEF EndsInv
  <1>9. CASE InjectMouse
    <2>1. /\ Advance(TRUE) /\ Current.dev = "mouse" /\ UNCHANGED <<pen, keys, wpen, wtouch>>
          /\ wbuttons' = Sent(Changed(buttons, Current.id), Current.id)
      BY <1>9 DEF InjectMouse, Step
    <2>2. PacketInv' /\ OptionsInv' /\ job' = None
      BY <1>2, <2>1
    <2>3. wbuttons' \subseteq Current.id
      BY <2>1 DEF Sent, Changed, WindowsTracked
    <2>4. Current.id = {} \/ <<"mouse", 0>> \in active \/ closing \/ wbuttons' = {}
      BY <1>4a, <2>1, <2>3
    <2>5. PenInv'
      BY <1>0, <2>1 DEF PenInv
    <2>6. DownInv'
      BY <1>0, <1>1, <1>3, <1>4, <2>1, <2>3, <2>4 DEF DownInv
    <2>. QED BY <2>2, <2>5, <2>6 DEF EndsInv
  <1>10. CASE InjectKey
    <2>1. /\ Advance(TRUE) /\ Current.dev = "key" /\ UNCHANGED <<pen, wpen, wtouch, wbuttons>>
      BY <1>10 DEF InjectKey, Step, Answers
    <2>2. PacketInv' /\ OptionsInv' /\ job' = None
      BY <1>2, <2>1
    <2>3. Current.act \in {"Down", "Up"}
      BY <1>0, <2>1, CurrentSample DEF Samples
    <2>4. keys' = IF Current.act = "Up" THEN keys \ {Current.id} ELSE keys \cup {Current.id}
      BY <1>10, <2>3 DEF InjectKey, Answers
    <2>5. PenInv'
      BY <1>0, <2>1 DEF PenInv
    <2>6. DownInv'
      BY <1>0, <1>1, <1>3, <1>4, <1>4a, <2>1, <2>3, <2>4 DEF DownInv
    <2>. QED BY <2>2, <2>5, <2>6 DEF EndsInv
  <1>11. CASE InjectCommand
    <2>1. Advance(TRUE) /\ Current.dev = "chord" /\ UNCHANGED <<pen, keys, wpen, wtouch, wbuttons>>
      BY <1>11 DEF InjectCommand, Step
    <2>2. PacketInv' /\ OptionsInv'
      BY <1>2, <2>1
    <2>3. PenInv'
      BY <1>0, <2>1 DEF PenInv
    <2>4. DownInv'
      BY <1>0, <1>1, <1>3, <1>4, <2>1 DEF DownInv
    <2>. QED BY <2>2, <2>3, <2>4 DEF EndsInv
  <1>12. CASE InjectReset
    <2>1. NothingHeld' /\ keys' = {} /\ PenInv' /\ Advance(TRUE)
      BY <1>0, <1>12, ResetReleasesEverything DEF InjectReset
    <2>2. PacketInv' /\ OptionsInv'
      BY <1>2, <2>1
    <2>3. DownInv'
      BY <2>1 DEF DownInv, NothingHeld
    <2>. QED BY <2>1, <2>2, <2>3 DEF EndsInv
  <1>. QED BY <1>5, <1>6, <1>7, <1>8, <1>9, <1>10, <1>11, <1>12 DEF Inject

\* A reset by another thread, a close handler, the host UI.
LEMMA HostEnds ==
    ASSUME MayFail = FALSE, Refuses = {"pen"}, MaxRev = 0,
           TypeOK, WindowsTracked, EndsInv, Host
    PROVE  EndsInv'
  <1>. USE DEF stateVars, windowsVars, settingsVars, uiVars
  <1>1. ui = "idle" /\ apply = None /\ revision = 0
    BY DEF EndsInv, OptionsInv, TypeOK
  <1>2. CASE HostReset \/ CloseReset
    <2>1. reset_all /\ UNCHANGED <<options, job, active, apply, ui>>
      BY <1>2 DEF HostReset, CloseReset
    <2>2. NothingHeld' /\ keys' = {} /\ PenInv'
      BY <2>1, ResetReleasesEverything DEF EndsInv
    <2>3. PacketInv' /\ OptionsInv'
      BY <2>1 DEF EndsInv, PacketInv, OptionsInv, EndsWith
    <2>4. DownInv'
      BY <2>2 DEF DownInv, NothingHeld
    <2>. QED BY <2>2, <2>3, <2>4 DEF EndsInv
  <1>3. CASE HostSync
    <2>1. UNCHANGED <<options, job, active, closing, apply, ui, pen, keys, wpen, wtouch, wbuttons>>
      BY <1>3 DEF HostSync
    <2>2. PacketInv' /\ OptionsInv' /\ PenInv'
      BY <2>1 DEF EndsInv, PacketInv, OptionsInv, PenInv, EndsWith
    <2>3. DownInv'
      BY <2>1 DEF EndsInv, DownInv, EndsWith, Current
    <2>. QED BY <2>2, <2>3 DEF EndsInv
  <1>4. HostReset \/ CloseReset \/ HostSync
    BY <1>1 DEF Host, SetInputSettings, ApplySettings, HostToggle, HostSetOptions,
       HostApplyEqual, HostApply
  <1>. QED BY <1>2, <1>3, <1>4

\* Once every contact and key is up in the browser and its packets are processed,
\* Windows holds nothing, for any pointers, buttons and keys and whatever resets
\* and lost transports come in between: while pen, touch, mouse and keyboard are
\* enabled, palm rejection is off and no option changes, native calls fail only
\* where a pen frame does not fit and a touch frame that does not is ignored.
THEOREM AllUpStaysReleased ==
    ASSUME MayFail = FALSE, Refuses = {"pen"}, MaxRev = 0, "palm" \notin Enabled,
           {"pen", "touch", "mouse", "keyboard"} \subseteq Enabled
    PROVE  Spec => []AllUpReleased
  <1>1. Init => WindowsTracked /\ ResetReleases /\ EndsInv
    BY DEF Init, WindowsTracked, ResetReleases, EndsInv, PacketInv, OptionsInv, PenInv, DownInv
  <1>2. TypeOK /\ WindowsTracked /\ ResetReleases /\ EndsInv /\ [Next]_vars
          => (WindowsTracked /\ ResetReleases /\ EndsInv)'
    <2>. SUFFICES ASSUME TypeOK, WindowsTracked, ResetReleases, EndsInv, [Next]_vars
                  PROVE  (WindowsTracked /\ ResetReleases /\ EndsInv)'
      OBVIOUS
    <2>1. CASE UNCHANGED vars
      <3>1. EndsInv'
        BY <2>1 DEF vars, stateVars, windowsVars, settingsVars, uiVars, EndsInv, PacketInv,
           OptionsInv, PenInv, DownInv, EndsWith, Current
      <3>. QED BY <3>1, TrackedStep
    <2>. QED BY <2>1, TrackedStep, BrowserEnds, InjectEnds, HostEnds DEF Next
  <1>3. WindowsTracked /\ EndsInv => AllUpReleased
    BY DEF WindowsTracked, EndsInv, DownInv, AllUpReleased, NothingHeld, EndsWith
  <1>. QED BY <1>1, <1>2, <1>3, TypeCorrect, PTL DEF Spec
==============================================================================
