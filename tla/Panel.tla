-------------------------------- MODULE Panel --------------------------------
(***************************************************************************)
(* What the panel holds of the game (ui/overlay.cpp, hooks/frame.cpp,       *)
(* hooks/cursor.cpp, hooks/windowmode.cpp): resources on its device and the *)
(* mouse.  The game's own calls - EndScene, Present, Reset - run through    *)
(* the hooks on the game thread; the worker moves the hook of Reset to the  *)
(* device the game really has, stops everything at a key, and takes the     *)
(* hooks away.                                                              *)
(*                                                                          *)
(* A device that holds something of ours cannot be reset, and a pointer     *)
(* that is not given back leaves the game without a mouse.                  *)
(***************************************************************************)
EXTENDS Naturals, SequencesExt

CONSTANTS
  Lines,    \* what a line of bot.cfg can be: [key, value]
  MaxLines  \* bound of the model: lines of bot.cfg

VARIABLES
  device,      \* "ok" or "lost"
  full,        \* it is a fullscreen device
  another,     \* the game made another device than g_device
  front,       \* the window is in front
  hooks,       \* of "present", "endscene" and "reset", those that reach the game's calls
  adopted,     \* g_device_adopted
  config,      \* [window, background]: what bot.cfg says
  styled,      \* g_styled
  initialised, \* g_initialised
  disabled,    \* g_disabled
  believed,    \* g_windowed, or "unasked"
  live,        \* g_resources_live
  made,        \* there are resources of the panel's on the device
  mode,        \* g_mode: "closed", "menu", "passive", "interactive"
  freed,       \* g_freed: the pointer is ours
  fresh,       \* what the game is told of the pointer is not older than the taking
  switching,   \* the game thread is in SetMode: "none", or the pointer to "take" or "give"
  disarming,   \* the worker is in SetMode
  told,        \* history: a hook looked since the device or the focus last changed
  raced        \* history: the worker closed the panel while the game thread opened it

game == <<device, full, another, front>>
setup == <<hooks, adopted, config, styled>>
held == <<live, made, believed>>
panel == <<initialised, disabled>>
pointer == <<freed, fresh>>
threads == <<mode, switching, disarming, raced>>
vars == <<game, setup, held, panel, pointer, threads, told>>

-----------------------------------------------------------------------------
(* bot.cfg.                                                                *)

Off(value) == value = "off"

\* ReadConfig: line by line to the end of the file, the last word on a key
\* standing, except that nothing turns the window on again.
Read(c, line) ==
  CASE line.key = "background" -> [c EXCEPT !.background = ~Off(line.value)]
    [] line.key = "window" -> [c EXCEPT !.window = @ /\ ~Off(line.value)]
    [] OTHER -> c
ReadConfig(lines) == FoldLeft(Read, [window |-> TRUE, background |-> FALSE], lines)

Init ==
  /\ device = "ok" /\ full = TRUE /\ another = FALSE /\ front = TRUE
  /\ hooks \in {h \in SUBSET {"present", "endscene", "reset"} : h \cap {"present", "endscene"} # {}}
  /\ adopted = FALSE /\ styled = FALSE
  /\ config \in {ReadConfig(f) : f \in UNION {[1..n -> Lines] : n \in 0..MaxLines}}
  /\ initialised = FALSE /\ disabled = FALSE
  /\ believed = "unasked" /\ live = FALSE /\ made = FALSE
  /\ mode = "closed" /\ freed = FALSE /\ fresh = FALSE
  /\ switching = "none" /\ disarming = FALSE /\ told = FALSE /\ raced = FALSE

-----------------------------------------------------------------------------
(* What is held on the device.                                             *)

\* Only a fullscreen device is lost with the focus; which it is, is asked once
\* for each device.
Asks == initialised /\ live /\ ~front
DeviceIsWindowed ==
  IF believed = "unasked" THEN (IF full THEN "fullscreen" ELSE "windowed") ELSE believed

\* Mutated form: a window behind another is no reason to let go of anything.
ReleasesNothing == FALSE
ReleaseIfUnfocused == Asks /\ DeviceIsWindowed = "fullscreen"

OnLostDevice == initialised /\ live
\* One of the two, or neither.
LetGoIf(gone) ==
  /\ believed' = IF Asks THEN DeviceIsWindowed ELSE believed
  /\ IF gone THEN live' = FALSE /\ made' = FALSE ELSE UNCHANGED <<live, made>>

GameThread == switching = "none"

HookedPresent ==
  /\ GameThread /\ "present" \in hooks
  /\ LetGoIf(ReleaseIfUnfocused \/ (device = "lost" /\ OnLostDevice))
  /\ told' = TRUE
  /\ UNCHANGED <<game, setup, panel, pointer, threads>>

\* A reset succeeds when nothing is held.  Ours lets go first and asks for a
\* window; another module's own way to the device does neither.
Reset(windowed) ==
  /\ device' = IF made' THEN "lost" ELSE "ok"
  /\ full' \in IF windowed THEN {FALSE} ELSE BOOLEAN
  /\ told' = FALSE

HookedReset ==
  /\ GameThread /\ "reset" \in hooks
  /\ live' = (live /\ ~OnLostDevice) /\ made' = (made /\ ~OnLostDevice)
  /\ Reset(config.window)
  /\ styled' = (styled \/ (config.window /\ device' = "ok"))
  /\ UNCHANGED <<another, front, hooks, adopted, config, believed, panel, pointer, threads>>

ResetElsewhere ==
  /\ GameThread /\ UNCHANGED <<live, made>> /\ Reset(FALSE)
  /\ UNCHANGED <<another, front, setup, believed, panel, pointer, threads>>

-----------------------------------------------------------------------------
(* The mode and the mouse.                                                 *)

\* SetMode, up to the pointer.
SetMode(m) ==
  /\ mode' = m
  /\ switching' = IF m = "interactive" THEN "take" ELSE "give"

\* The pointer is taken from where it is.
SetFreed(b) ==
  /\ freed' = b
  /\ fresh' = (fresh \/ (b /\ ~freed))

SwitchEnds ==
  /\ switching # "none" /\ switching' = "none"
  /\ SetFreed(switching = "take")
  /\ raced' = (switching = "take" /\ mode # "interactive")
  /\ UNCHANGED <<game, setup, held, panel, mode, disarming, told>>

\* F11, Escape, the game's own menu, and the menu's last item.
Turned ==
  CASE mode = "closed" -> {"menu"}
    [] mode = "menu" -> {"closed", "interactive"}
    [] mode = "interactive" -> {"passive"}
    [] mode = "passive" -> {"closed"}

AnswerInstead == freed \/ (config.background /\ ~front)

\* The game puts the pointer where it wants it, or the hand moves it.
HookedSetCursorPos ==
  /\ GameThread /\ fresh' = AnswerInstead
  /\ UNCHANGED <<game, setup, held, panel, freed, threads, told>>

Hand ==
  /\ ~freed /\ fresh' = FALSE
  /\ UNCHANGED <<game, setup, held, panel, freed, threads, told>>

-----------------------------------------------------------------------------
(* EndScene.                                                               *)

\* Mutated form: the mouse stays with a panel that is hidden.
DisableWithTheMouse ==
  /\ disabled' = TRUE /\ mode' = "closed" /\ switching' = "none"
  /\ UNCHANGED pointer
DisableAfterFault ==
  /\ disabled' = TRUE /\ mode' = "closed" /\ switching' = "none"
  /\ freed' = FALSE /\ UNCHANGED fresh

\* A hidden panel is brought back by the key and does nothing else.
RenderDisabled ==
  /\ disabled
  /\ \/ UNCHANGED <<disabled, mode, switching>>
     \/ disabled' = FALSE /\ SetMode("closed")
  /\ UNCHANGED <<game, setup, held, initialised, pointer, disarming, raced>>

\* Not drawn: the device is lost, or the window is behind another.
RenderNothing ==
  /\ ~disabled /\ (device = "lost" \/ (initialised /\ ~front))
  /\ LetGoIf(ReleaseIfUnfocused \/ (device = "lost" /\ OnLostDevice))
  /\ UNCHANGED <<game, setup, panel, pointer, threads>>

\* The panel is begun, again when the game has another device; then the keys,
\* then something to draw, or not, or a fault in it.
Render ==
  /\ ~disabled /\ device = "ok" /\ (front \/ ~initialised)
  /\ initialised' = TRUE /\ another' = FALSE
  /\ believed' = IF another \/ ~initialised THEN "unasked" ELSE believed
  /\ \E drawn \in BOOLEAN :
       /\ live' = (live \/ drawn)
       /\ made' = (drawn \/ (made /\ ~another))
  /\ \/ DisableAfterFault
     \/ /\ freed' = (freed /\ ~(another /\ initialised)) /\ UNCHANGED <<fresh, disabled>>
        /\ \/ UNCHANGED <<mode, switching>>
           \/ \E m \in Turned : SetMode(m)
  /\ UNCHANGED <<device, full, front, setup, disarming, raced>>

HookedEndScene ==
  /\ GameThread /\ "endscene" \in hooks
  /\ RenderDisabled \/ RenderNothing \/ Render
  \* A panel begun behind another window is told of it a call later.
  /\ told' = (IF disabled THEN told ELSE initialised \/ front)

-----------------------------------------------------------------------------
(* The worker.                                                             *)

AdoptGameDevice ==
  /\ hooks # {} /\ ~adopted /\ adopted' = TRUE
  /\ hooks' \in {hooks, hooks \cup {"reset"}}
  /\ UNCHANGED <<game, config, styled, held, panel, pointer, threads, told>>

\* Overlay::Disarm, in the two steps of SetMode.
Disarm ==
  /\ hooks # {} /\ ~disarming /\ disarming' = TRUE /\ mode' = "closed"
  /\ UNCHANGED <<game, setup, held, panel, pointer, switching, told, raced>>

DisarmEnds ==
  /\ disarming /\ disarming' = FALSE /\ SetFreed(FALSE)
  /\ UNCHANGED <<game, setup, held, panel, mode, switching, told, raced>>

\* The hooks go before what they draw with.
Uninstall ==
  /\ ~disarming /\ GameThread /\ hooks # {} /\ hooks' = {}
  /\ initialised' = FALSE /\ made' = (made /\ ~initialised) /\ SetFreed(FALSE)
  /\ UNCHANGED <<game, adopted, config, styled, believed, live, disabled, threads, told>>

-----------------------------------------------------------------------------
(* The game and its user.                                                  *)

Lose ==
  /\ GameThread /\ device = "ok" /\ device' = "lost" /\ told' = FALSE
  /\ UNCHANGED <<full, another, front, setup, held, panel, pointer, threads>>

\* The game makes itself another device; what was held of ours stays with the
\* old one.
Recreate ==
  /\ GameThread /\ initialised /\ another' = TRUE /\ device' = "ok" /\ full' \in BOOLEAN
  /\ told' = FALSE
  /\ UNCHANGED <<front, setup, held, panel, pointer, threads>>

Look ==
  /\ front' = ~front /\ told' = FALSE
  /\ UNCHANGED <<device, full, another, setup, held, panel, pointer, threads>>

Next ==
  \/ HookedPresent \/ HookedEndScene \/ HookedReset \/ ResetElsewhere
  \/ SwitchEnds \/ HookedSetCursorPos \/ Hand
  \/ AdoptGameDevice \/ Disarm \/ DisarmEnds \/ Uninstall
  \/ Lose \/ Recreate \/ Look

Spec == Init /\ [][Next]_vars

-----------------------------------------------------------------------------
(* Properties.                                                             *)

\* Once a hook has run on a lost device, or on a fullscreen one whose window
\* is behind another, nothing of the panel's is on it, so that whoever resets
\* it, through the hook or not, is not held up by it; except that a device
\* asked about while it was a window is believed to be one for good
\* (overlay.cpp:91-93, 2153-2154: "asked once per device and re-asked after a
\* reset"); a panel hidden after a fault does not look where EndScene is all that
\* runs.  A panel that is not begun holds nothing.
NothingHeldAtReset ==
  /\ told /\ ~another =>
       /\ device = "lost" => ~made
       /\ full /\ ~front /\ believed # "windowed" => ~made
  /\ made => initialised /\ live

\* The mouse is the panel's only while it is interactive - unless the worker
\* closed it in the middle of the step that opens it - never that of a hidden
\* one, and while it is, the game is told of a pointer no older than the
\* taking (cursor.cpp:154-155, "Answering the game with a stale point would
\* hand it one enormous delta").
PointerChangesHands ==
  /\ freed => mode = "interactive" \/ switching = "give" \/ disarming \/ raced
  /\ freed => fresh
=============================================================================
