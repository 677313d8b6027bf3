------------------------------- MODULE Watch -------------------------------
(***************************************************************************)
(* WatchEvents (state/events.cpp): five times a second the game thread     *)
(* compares how things are with how they were when it last looked, and     *)
(* notes what changed; it reads the last lines of the chat, finds the line *)
(* it had come to by its text, notes those after it, and puts what a       *)
(* stranger said on his record (People).  The two tickers it begins with,  *)
(* of a menu and of a chain, are modelled in Chain.                        *)
(*                                                                         *)
(* Lines of chat have a place, which the code does not see, and a text.    *)
(* One stranger is followed: Mine are the texts he says that name this     *)
(* character, Others is everything else.                                   *)
(***************************************************************************)
EXTENDS People, Sequences, FiniteSets

CONSTANTS
  Mine, Others,  \* texts
  kChatLines,    \* how many lines of chat are read
  kLastFew,      \* how many are taken when the mark has scrolled away
  Dialogs,       \* dialogs the server shows
  MaxHealth,     \* health at the start, in steps of kHurtBy
  MaxLines,      \* bound of the model: lines of chat
  MaxChanges     \* bound of the model: other things that happen

Texts == Mine \cup Others
NoText == "no line yet"
NoDialog == "none"

VARIABLES
  \* how things are
  said,      \* the texts of the chat so far, by place
  now,       \* the dialog, whether spawned, whether on a journey
  health,
  \* what the last look saw
  mark,      \* g_last_chat_line, and NoText before g_chat_started
  looked,    \* g_had_dialog and g_dialog_id, g_active, g_travelling
  \* history
  told,      \* what the notes made so far say of the things in now
  noted,     \* the lines that have been noted
  came,      \* the last line of the chat at the last look
  fresh,     \* the last thing that happened was a look
  changes

happenings == <<said, now, health, changes>>
watcher == <<mark, looked, person, lastHealth>>
history == <<told, noted, came>>
vars == <<happenings, watcher, history, fresh>>

Things == [dialog : Dialogs \cup {NoDialog}, active : BOOLEAN, travelling : BOOLEAN]
AtStart == [dialog |-> NoDialog, active |-> FALSE, travelling |-> FALSE]

Init ==
  /\ said \in {<<>>} \cup {<<t>> : t \in Texts}
  /\ now = AtStart /\ health = MaxHealth
  /\ mark = NoText /\ looked = AtStart
  /\ PeopleInit(MaxHealth)
  /\ told = AtStart /\ noted = {} /\ came = 0
  /\ fresh = FALSE /\ changes = 0

-----------------------------------------------------------------------------
(* What happens between two looks.                                         *)

Say ==
  /\ Len(said) < MaxLines
  /\ \E t \in Texts : said' = Append(said, t)
  /\ fresh' = FALSE
  /\ UNCHANGED <<now, health, changes, watcher, history>>

Change ==
  /\ changes < MaxChanges /\ changes' = changes + 1
  /\ now' \in Things /\ now' # now
  /\ fresh' = FALSE
  /\ UNCHANGED <<said, health, watcher, history>>

LoseHealth ==
  /\ health > 0 /\ health' = health - 1
  /\ fresh' = FALSE
  /\ UNCHANGED <<said, now, changes, watcher, history>>

-----------------------------------------------------------------------------
(* The chat, from wherever it was left.                                    *)

First == IF Len(said) > kChatLines THEN Len(said) - kChatLines + 1 ELSE 1
Lines == First..Len(said)
Marks == {i \in Lines : said[i] = mark}

\* The first line to note: the one after the first that reads like the mark;
\* the last few when the mark has scrolled away; none on the first look.
AfterTheMark == 1 + CHOOSE i \in Marks : \A j \in Marks : i <= j
From ==
  IF mark = NoText THEN Len(said) + 1
  ELSE IF Marks # {} THEN AfterTheMark
  ELSE IF Cardinality(Lines) > kLastFew THEN Len(said) - kLastFew + 1
  ELSE First
News == From..Len(said)

WatchChat ==
  /\ noted' = noted \cup News
  /\ mark' = IF Lines = {} THEN mark ELSE said[Len(said)]
  /\ came' = Len(said)

\* What the lines noted put on the stranger's record.
HeardIn(p) ==
  LET naming == {i \in News : said[i] \in Mine}
  IN IF naming = {} THEN p ELSE Heard(p, Cardinality(naming))

-----------------------------------------------------------------------------
(* The other things, each noted when it differs from the last look.        *)

Remember == looked' = now

\* Mutated form: changes are noted only once the character was in the world.
WatchThingsOnceActive ==
  /\ told' = [k \in DOMAIN told |->
                IF looked.active /\ now[k] # looked[k] THEN now[k] ELSE told[k]]
  /\ Remember
WatchThings ==
  /\ told' = [k \in DOMAIN told |->
                IF now[k] # looked[k] THEN now[k] ELSE told[k]]
  /\ Remember

\* WatchEvents.  The world is read for the record of people once a second, so
\* on some looks only, and when it is readable.
WatchEvents ==
  /\ WatchThings
  /\ \/ /\ UNCHANGED lastHealth
        /\ person' = HeardIn(person)
     \/ /\ \E seen \in Sightings : Possible(seen)
             /\ person' = HeardIn(Saw(person, seen, health))
        /\ lastHealth' = HealthSeen(health)
  /\ WatchChat
  /\ fresh' = TRUE
  /\ UNCHANGED happenings

\* The set_standing tool.
Decide ==
  /\ \/ \E standing \in Standings : SetStanding(standing)
     \/ HandBack
  /\ fresh' = FALSE
  /\ UNCHANGED <<happenings, mark, looked, history>>

Next == Say \/ Change \/ LoseHealth \/ WatchEvents \/ Decide
Spec == Init /\ [][Next]_vars

-----------------------------------------------------------------------------
TypeOK ==
  /\ said \in Seq(Texts) /\ Len(said) <= MaxLines
  /\ now \in Things /\ looked \in Things /\ told \in Things
  /\ health \in 0..MaxHealth /\ lastHealth \in 0..MaxHealth
  /\ mark \in Texts \cup {NoText}
  /\ person \in Person
  /\ noted \subseteq 1..MaxLines /\ came \in 0..Len(said)
  /\ fresh \in BOOLEAN /\ changes \in 0..MaxChanges

\* Right after a look the notes describe how things are: whoever reads all of
\* them knows the dialog on screen, whether the character is in the world,
\* whether it is on a journey, and every line said since the look before while
\* the last line of that look is among those read ("The chat, from wherever it
\* was left", events.cpp).
NotesTellHowThingsAre ==
  [][fresh' => /\ told' = now
               /\ \A i \in Lines : came \in Lines /\ i > came => i \in noted']_vars

=============================================================================
