--------------------------------- MODULE Procs ---------------------------------
(***************************************************************************)
(* The procedures of the game's window (ui/overlay.cpp).  The module puts   *)
(* its own before the game's; whoever hooks after it is called first and    *)
(* decides what everybody else hears.  It steps back in front, keeps the    *)
(* neighbour behind it, and knows its own older place in the chain, behind  *)
(* the neighbour, by the message being the one it handles already.  Every   *)
(* message runs down the chain on the game thread, and one may be sent      *)
(* while another is handled.                                                *)
(*                                                                          *)
(* While the menu is open a press goes no further than the head of the      *)
(* chain; the loss of the focus goes no further when the game is to carry   *)
(* on in the background; a bare Alt never does.                             *)
(***************************************************************************)
EXTENDS Naturals, Sequences

CONSTANTS
  Neighbours,  \* modules that hook the window as well
  kFrames,     \* messages under way that are remembered
  kRehooks,    \* times it steps back in front
  MaxNested    \* bound of the model: messages under way at once

VARIABLES
  registered,  \* the window's procedure
  behind,      \* whom each neighbour calls
  previous,    \* g_previous_wndproc
  headNext,    \* g_head_next
  initialised,      \* g_initialised
  rehooks,
  mode,        \* g_mode: "closed", "menu", or the "developer"'s panel
  typing,      \* g_typing_task
  background,  \* WindowMode::RunsInBackground
  under,       \* messages under way, the innermost last: [m, at, heads, kept]:
               \*   whom each is with, and how often the head handled it
  front,       \* the window is in front
  pressed,     \* a key of the game's is down
  held,        \* the game holds it
  excused      \* history: it was let go of where the game does not hear it

chain == <<registered, behind, previous, headNext, initialised, rehooks>>
panel == <<mode, typing>>
key == <<front, pressed, held, excused>>
vars == <<chain, panel, background, under, key>>

Quiet == under = <<>>

Init ==
  /\ registered = "game" /\ behind = [n \in Neighbours |-> "nobody"]
  /\ previous = "nobody" /\ headNext = "nobody" /\ initialised = FALSE /\ rehooks = 0
  /\ mode = "closed" /\ typing = FALSE /\ background \in BOOLEAN
  /\ under = <<>> /\ front = TRUE /\ pressed = FALSE /\ held = FALSE /\ excused = FALSE

-----------------------------------------------------------------------------
(* The chain.                                                              *)

\* A panel begun, and ended because the game has another device.
Initialise ==
  /\ Quiet /\ ~initialised /\ initialised' = TRUE
  /\ previous' = registered /\ registered' = "ours" /\ headNext' = "nobody"
  /\ UNCHANGED <<behind, rehooks, panel, background, under, key>>

Teardown ==
  /\ Quiet /\ initialised /\ initialised' = FALSE
  /\ registered' = previous /\ previous' = "nobody"
  /\ UNCHANGED <<behind, headNext, rehooks, panel, background, under, key>>

\* A neighbour puts itself in front of whoever is there.
Hook(n) ==
  /\ Quiet /\ registered \notin Neighbours
  /\ behind' = [behind EXCEPT ![n] = registered] /\ registered' = n
  /\ UNCHANGED <<previous, headNext, initialised, rehooks, panel, background, under, key>>

\* TendWndProcChain: back in front, until that was done too often; or a look
\* whether the neighbour passes anything on, which only the log is told.
StepBack ==
  /\ Quiet /\ initialised /\ registered # "ours" /\ rehooks < kRehooks
  /\ rehooks' = rehooks + 1 /\ headNext' = registered /\ registered' = "ours"
  /\ UNCHANGED <<behind, previous, initialised, panel, background, under, key>>

Message(m, at) == [m |-> m, at |-> at, heads |-> 0]

Probe ==
  /\ Quiet /\ initialised /\ headNext # "nobody"
  /\ under' = <<Message("probe", headNext)>>
  /\ UNCHANGED <<chain, panel, background, key>>

-----------------------------------------------------------------------------
(* A message on its way down.                                              *)

Top == under[Len(under)]
\* What the head handles now, as far as it is remembered.
Handling[n \in 0..Len(under)] ==
  IF n = 0 THEN <<>> ELSE Handling[n - 1] \o [i \in 1..under[n].heads |-> under[n].m]
Frames ==
  LET all == Handling[Len(under)]
  IN  SubSeq(all, 1, IF Len(all) < kFrames THEN Len(all) ELSE kFrames)

\* Mutated form: the last message that is remembered is not compared.
HandledButLast == \E i \in 1..(Len(Frames) - 1) : Frames[i] = Top.m
Handled == \E i \in DOMAIN Frames : Frames[i] = Top.m

\* What goes no further than the head of the chain.
Presses == {"down", "enter"}
Kept(m) ==
  \/ m = "lost" /\ background
  \/ m = "alt"
  \/ m \in Presses /\ mode = "menu"
  \/ m = "up" /\ mode = "menu" /\ typing

GoTo(at) == under' = [under EXCEPT ![Len(under)].at = at]
Ends == under' = SubSeq(under, 1, Len(under) - 1)
\* Enter keeps what was typed, unless it is the one that opened the field;
\* Escape leaves it.
Typed(m) ==
  IF mode = "menu" /\ typing /\ m = "enter" THEN typing' \in BOOLEAN ELSE UNCHANGED typing

\* The game holds the key a while longer.
Excuse == excused' = (excused \/ (held /\ Top.m \in {"up", "lost"}))

AtOurs ==
  /\ ~Quiet /\ Top.at = "ours"
  /\ IF Top.m = "probe" THEN Ends /\ UNCHANGED <<typing, excused>>
     ELSE IF Handled THEN GoTo(previous) /\ UNCHANGED <<typing, excused>>
     ELSE /\ Typed(Top.m)
          /\ IF Kept(Top.m)
             THEN Ends /\ Excuse
             ELSE /\ under' = [under EXCEPT ![Len(under)].heads = @ + 1,
                                            ![Len(under)].at =
                                              IF headNext # "nobody" THEN headNext ELSE previous]
                  /\ UNCHANGED excused
  /\ UNCHANGED <<chain, mode, background, front, pressed, held>>

\* A neighbour passes a message on, or does not.
AtNeighbour ==
  /\ ~Quiet /\ Top.at \in Neighbours
  /\ \/ Ends /\ Excuse
     \/ GoTo(behind[Top.at]) /\ UNCHANGED excused
  /\ UNCHANGED <<chain, panel, background, front, pressed, held>>

\* The game takes the key for pressed or let go; without the focus it lets go
\* of everything.
AtTheGame ==
  /\ ~Quiet /\ Top.at = "game" /\ Ends
  /\ held' = (Top.m = "down" \/ (held /\ Top.m \notin {"up", "lost"}))
  /\ excused' = (excused /\ held' /\ Top.m # "down")
  /\ UNCHANGED <<chain, panel, background, front, pressed>>

-----------------------------------------------------------------------------
(* Hands, and what is sent in handling something else.                     *)

Arrive(m) == under' = Append(under, Message(m, registered))

Press == Quiet /\ front /\ ~pressed /\ pressed' = TRUE /\ Arrive("down") /\ UNCHANGED <<front, held, excused>>
LetGo ==
  /\ Quiet /\ pressed /\ pressed' = FALSE
  /\ IF front THEN Arrive("up") ELSE UNCHANGED under
  /\ UNCHANGED <<front, held, excused>>
Write == Quiet /\ front /\ Arrive("enter") /\ UNCHANGED key
LookAway == Quiet /\ front /\ front' = FALSE /\ Arrive("lost") /\ UNCHANGED <<pressed, held, excused>>
LookBack == Quiet /\ ~front /\ front' = TRUE /\ UNCHANGED <<under, pressed, held, excused>>
Sent ==
  /\ ~Quiet /\ Len(under) < MaxNested /\ Top.m # "probe" /\ (Arrive("alt") \/ Arrive("paint"))
  /\ UNCHANGED key

Hands ==
  /\ Press \/ LetGo \/ Write \/ LookAway \/ LookBack \/ Sent
  /\ UNCHANGED <<chain, panel, background>>

\* F11, Escape, the pause menu and the item that takes a task; the way into
\* the developer's panel and out of it.  What was being typed stays open when
\* the menu closes.
Menu ==
  /\ Quiet /\ initialised
  /\ \/ mode = "closed" /\ mode' = "menu" /\ UNCHANGED typing
     \/ mode # "closed" /\ mode' = "closed" /\ UNCHANGED typing
     \/ mode = "menu" /\ ~typing /\ mode' = "developer" /\ UNCHANGED typing
     \/ mode = "menu" /\ ~typing /\ typing' = TRUE /\ UNCHANGED mode
  /\ UNCHANGED <<chain, background, under, key>>

Next ==
  \/ Initialise \/ Teardown \/ StepBack \/ Probe
  \/ \E n \in Neighbours : Hook(n)
  \/ AtOurs \/ AtNeighbour \/ AtTheGame
  \/ Hands \/ Menu

Spec == Init /\ [][Next]_vars

-----------------------------------------------------------------------------
(* Properties.                                                             *)

\* Whatever is sent while whatever is handled, and whoever hooked in whichever
\* order, a message is handled once at the head of the chain; the game hears no
\* press while the menu is open, no loss of the focus in the background and no
\* bare Alt; and what it holds is held, or was let go of while a task was typed,
\* behind another window or into a neighbour that passes nothing on
\* (overlay.cpp:493-496, 529-537, 606-610, "Releases go through, so a key that
\* was held when the menu opened is let go of in the game too").
GameHearsWhatItShould ==
  /\ \A n \in DOMAIN under : under[n].heads <= 1
  /\ initialised /\ ~Quiet /\ Top.at = "game" =>
       /\ mode = "menu" => Top.m \notin Presses
       /\ background => Top.m # "lost"
       /\ Top.m # "alt"
  /\ Quiet /\ held /\ ~pressed => excused
===============================================================================
