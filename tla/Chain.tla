-------------------------------- MODULE Chain --------------------------------
(***************************************************************************)
(* A chain of actions (actions/chain.cpp): the steps a client hands over   *)
(* and a look every fifth of a second that moves the chain on, or stops it *)
(* because something happened in the world.                                *)
(*                                                                         *)
(* The time since g_step_ms is read in three stretches: fresh, past what   *)
(* the step waits for (kAfterKeyMs, kAfterSayMs or its own ms), and past   *)
(* kStepLimitMs.  The journey (actions/travel.cpp) is here only what the   *)
(* chain sees of it: whether it is under way and how far it has brought    *)
(* the character.  A look that cannot read the character does nothing.     *)
(***************************************************************************)
EXTENDS Dialogs

CONSTANTS
  Chains,     \* the chains a client may hand over
  OnDialog,   \* StopWhen.on_dialog
  OnSpokenTo, \* StopWhen.on_spoken_to
  OnHurt,     \* StopWhen.on_hurt
  HurtBy,     \* StopWhen.hurt_by
  MaxHealth,  \* bound of the model
  MaxChains   \* bound of the model: chains handed over

\* What a step can be; anything else handed over is passed over, and a chain
\* of no steps is refused.
Kinds == {"go", "press", "say", "answer", "wait"}

ASSUME ChainAssumption ==
  /\ \A list \in Chains : list \in Seq([kind : Kinds, what : STRING]) /\ list # <<>>
  /\ {OnDialog, OnSpokenTo, OnHurt} \subseteq BOOLEAN
  /\ HurtBy \in Nat \ {0} /\ MaxHealth \in Nat /\ MaxChains \in Nat

VARIABLES
  steps,      \* g_steps: [kind, what]
  stepAt,     \* g_at, counted from one: the step under way
  running,    \* g_running
  started,    \* g_started_step
  since,      \* how long ago g_step_ms is
  stoppedBy,  \* g_stopped_by
  healthWas,  \* g_health_was
  healthNow,  \* g_health_now
  lastChat,   \* g_last_chat, "" when empty
  trip,       \* a journey is under way: TravelGet().travelling
  away,       \* how far the goal of the step under way is
  health,     \* the health of the character
  newest,     \* the newest line of the chat
  chains,     \* chains handed over
  highest     \* history: the highest health read since the chain began

kept == <<steps, running, stoppedBy, healthWas, healthNow, lastChat, highest>>
world == <<trip, away, health, newest>>
chainvars == <<kept, stepAt, started, since, world, chains>>
vars == <<dialogs, chainvars>>
ground == <<screen, cursor, chatOpen, owed, unasked, shown, answers, replaced, said>>

Reasons == {"", "done", "dialog", "spoken_to", "hurt", "blocked", "cancelled"}
\* within stop_within; within the 1.2 m more that a look allows; further.
Distances == {"there", "near", "far"}
Texts == {"noise", "named"}

Init ==
  /\ DialogsInit
  /\ steps = <<>> /\ stepAt = 1 /\ running = FALSE /\ started = FALSE /\ since = "fresh"
  /\ stoppedBy = "" /\ healthWas = -1 /\ healthNow = -1 /\ lastChat = ""
  /\ trip = FALSE /\ away = "far" /\ health = MaxHealth /\ newest = "noise"
  /\ chains = 0 /\ highest = 0

\* Mutated form: the journey goes on when the chain has ended.
WalkOn == trip
\* Stop and CancelTravel.
StandStill == FALSE

Finish(why) == running' = FALSE /\ stoppedBy' = why /\ trip' = StandStill

-----------------------------------------------------------------------------
(* What the tools ask for.                                                 *)

\* The act tool.
RunChain(list) ==
  /\ chains < MaxChains /\ chains' = chains + 1
  /\ steps' = list /\ stepAt' = 1 /\ started' = FALSE /\ since' = "fresh"
  /\ trip' = FALSE /\ away' \in Distances
  /\ healthNow' = health /\ healthWas' = health /\ highest' = health
  /\ lastChat' = ""
  /\ LET blind == Shown /\ list[1].kind # "answer"
     IN running' = ~blind /\ stoppedBy' = IF blind THEN "dialog" ELSE ""
  /\ UNCHANGED <<dialogs, health, newest>>

\* The act_stop tool.
StopChain ==
  /\ running /\ Finish("cancelled")
  /\ UNCHANGED <<dialogs, steps, stepAt, started, since, healthWas, healthNow, lastChat,
                 away, health, newest, chains, highest>>

\* The stop tool: CancelTravel and Stop, and not StopChain.
StopTool ==
  /\ running /\ trip' = FALSE
  /\ UNCHANGED <<dialogs, kept, stepAt, started, since, away, health, newest, chains>>

-----------------------------------------------------------------------------
(* One look.                                                               *)

Step == steps[stepAt]

Hurt(now) == OnHurt /\ healthWas - now >= HurtBy
\* The loss is measured from the highest health since the chain began.
Raised(now) == IF now > healthWas THEN now ELSE healthWas

\* Only the newest line is looked at, and the first look only remembers it.
SpokenTo == OnSpokenTo /\ lastChat # "" /\ newest # lastChat /\ newest = "named"

\* Mutated form: a step may take for ever.
InterruptionUnlimited(now) ==
  IF stepAt > Len(steps) THEN "done"
  ELSE IF Shown /\ Step.kind # "answer" THEN "dialog" ELSE "none"
\* What stops the chain at this look, in the order the code asks.
Interruption(now) ==
  IF stepAt > Len(steps) THEN "done"
  ELSE IF Shown /\ Step.kind # "answer" THEN "dialog"
  ELSE IF Hurt(now) THEN "hurt"
  ELSE IF SpokenTo THEN "spoken_to"
  ELSE IF since = "overdue" THEN "blocked" ELSE "none"

Interrupt(now) ==
  /\ Interruption(now) # "none"
  /\ Finish(Interruption(now))
  /\ UNCHANGED <<script, stepAt, started, since, away>>

\* next()
Advance ==
  /\ stepAt' = stepAt + 1 /\ started' = FALSE /\ since' = "fresh"
  /\ away' \in Distances
  /\ UNCHANGED <<script, running, stoppedBy, trip>>

\* Mutated form: the keys of the step are not waited for.
PlayedUnasked == since # "fresh"
Played == ~KeysBusy /\ since # "fresh"

\* A step of keys has begun: its clock starts with it.
Begin(keys) ==
  /\ ~started /\ started' = TRUE /\ since' = "fresh"
  /\ script' = script \o keys
  /\ UNCHANGED <<stepAt, running, stoppedBy, trip, away>>
End == started /\ Played /\ Advance

Blocked == Finish("blocked") /\ UNCHANGED <<script, stepAt, started, since, away>>

Arrive == Step.kind = "go" /\ away # "far" /\ Advance
Depart ==
  /\ Step.kind = "go" /\ away = "far" /\ ~started
  /\ started' = TRUE /\ trip' = TRUE
  /\ UNCHANGED <<script, stepAt, running, stoppedBy, since, away>>
\* It stopped without arriving: another go, until the limit runs out.
TryAgain ==
  /\ Step.kind = "go" /\ away = "far" /\ started /\ ~trip
  /\ started' = FALSE
  /\ UNCHANGED <<script, stepAt, running, stoppedBy, since, trip, away>>

PressKey ==
  /\ Step.kind = "press"
  /\ \/ Step.what # "unknown" /\ Begin(Press("hold", 1, Nobody, AnyRow))
     \/ Step.what = "unknown" /\ ~started /\ Blocked
     \/ End
Say == Step.kind = "say" /\ (Begin(ChatLine) \/ End)
Wait == Step.kind = "wait" /\ (Begin(<<>>) \/ (started /\ since # "fresh" /\ Advance))

AnswerScreen ==
  /\ Shown
  /\ LET row == RowSaying(Rows(screen), Step.what) IN
     \/ Step.what = AnyRow /\ Begin(Press("return", 1, screen.nth, AnyRow))
     \/ Step.what = "second button" /\ Begin(Press("escape", 1, screen.nth, AnyRow))
     \/ /\ Step.what \in Labels \ {AnyRow} /\ row >= 0
        /\ Begin(GoToRow(Rows(screen), row, screen.nth, Step.what)
                   \o Press("return", 1, screen.nth, Step.what))
     \/ Step.what \in Labels \ {AnyRow} /\ row < 0 /\ ~started /\ Blocked
AnswerStep == Step.kind = "answer" /\ (AnswerScreen \/ End)

\* The step goes on: he walks, the keys are played, the dialog is not there yet.
StillAtIt ==
  /\ \/ Step.kind = "go" /\ away = "far" /\ started /\ trip
     \/ Step.kind \in {"press", "say", "answer"} /\ started /\ ~Played
     \/ Step.kind = "wait" /\ started /\ since = "fresh"
     \/ Step.kind = "answer" /\ ~started /\ ~Shown
  /\ UNCHANGED <<script, stepAt, started, since, running, stoppedBy, trip, away>>

ChainTick ==
  /\ running
  \* RefreshWorld: the world is read once a second.
  /\ healthNow' \in {healthNow, health}
  /\ \/ Interrupt(healthNow')
     \/ /\ Interruption(healthNow') = "none"
        /\ Arrive \/ Depart \/ TryAgain \/ PressKey \/ Say \/ AnswerStep \/ Wait \/ StillAtIt
  /\ healthWas' = IF OnHurt /\ Interruption(healthNow') \notin {"done", "dialog"}
                  THEN Raised(healthNow') ELSE healthWas
  /\ highest' = IF healthNow' > highest THEN healthNow' ELSE highest
  /\ lastChat' = IF OnSpokenTo THEN newest ELSE lastChat
  /\ UNCHANGED <<ground, steps, health, newest, chains>>

-----------------------------------------------------------------------------
(* The world goes on.                                                      *)

Clock ==
  /\ \/ since = "fresh" /\ since' = "after"
     \/ since = "after" /\ since' = "overdue"
  /\ UNCHANGED <<dialogs, kept, stepAt, started, world, chains>>

\* The journey comes nearer, arrives or gives up.
Journey ==
  /\ trip
  /\ \/ away = "far" /\ away' = "near" /\ UNCHANGED trip
     \/ away = "near" /\ away' = "there" /\ trip' = FALSE
     \/ UNCHANGED away /\ trip' = FALSE
  /\ UNCHANGED <<dialogs, kept, stepAt, started, since, health, newest, chains>>

Health ==
  /\ OnHurt
  /\ health' \in {health - 1, health + 1} \cap (0..MaxHealth)
  /\ UNCHANGED <<dialogs, kept, stepAt, started, since, trip, away, newest, chains>>

Chat ==
  /\ OnSpokenTo
  /\ newest' \in Texts
  /\ UNCHANGED <<dialogs, kept, stepAt, started, since, trip, away, health, chains>>

Next ==
  \/ \E list \in Chains : RunChain(list)
  \/ StopChain \/ StopTool
  \/ ChainTick
  \/ Clock \/ Journey \/ Health \/ Chat
  \/ (Client \/ Server) /\ UNCHANGED chainvars

Spec == Init /\ [][Next]_vars

\* Looks that can read the character, the clock and frames go on.
Fairness ==
  /\ WF_vars(ChainTick) /\ WF_vars(Clock)
  /\ WF_vars(KeysTick /\ UNCHANGED chainvars)
FairSpec == Spec /\ Fairness

-----------------------------------------------------------------------------
(* Properties.                                                             *)

\* Every variable keeps its type; a chain that runs has no reason to have
\* stopped, and a journey is under way only while it runs.
TypeOK ==
  /\ DialogsTypeOK
  /\ stepAt \in 1..(Len(steps) + 1) /\ running \in BOOLEAN /\ started \in BOOLEAN
  /\ since \in {"fresh", "after", "overdue"} /\ stoppedBy \in Reasons
  /\ healthWas \in -1..MaxHealth /\ healthNow \in -1..MaxHealth
  /\ lastChat \in Texts \cup {""} /\ trip \in BOOLEAN /\ away \in Distances
  /\ health \in 0..MaxHealth /\ newest \in Texts /\ chains \in 0..MaxChains
  /\ highest \in 0..MaxHealth

StepsOf(kind) == Cardinality({i \in DOMAIN steps : steps[i].kind = kind})
Answered == {a \in answers : a.for # Nobody}

\* "done" is said only of what the game saw: every line of the chain was sent
\* and every answer was given to the dialog it was read from, on the row it
\* names (chain.cpp:85-91, 243, 278).
DoneMeansSeen ==
  stoppedBy = "done" /\ chains = 1 /\ unasked = 0 =>
    /\ said = StepsOf("say")
    /\ Cardinality({a \in Answered : a.on = a.for /\ a.want \in {a.chose, AnyRow}})
         = StepsOf("answer")

\* A chain that stops on being hurt does not go on past a look that saw its
\* character HurtBy below the best health it had seen, however slowly it was
\* lost (chain.cpp:94-97).
HurtStopsIt == running /\ OnHurt => highest - healthNow < HurtBy

\* No journey of a chain outlives it: whatever ends the chain, the character
\* stands (chain.cpp:73-78).
NoJourneyAfterTheChain == trip => running

\* Every chain ends, at the latest by the limit of its step
\* (chain.cpp:22-24, 180-184).
ChainsEnd == running ~> ~running
=============================================================================
