--------------------------------- MODULE MCSeen ---------------------------------
\* What a reader is told and what is done on its word, each on its own: the notes
\* kept for it, the look that makes them, and a walk of the server's menus.
EXTENDS DialogPath

CONSTANTS
  kKeep, kKeepChat, Kinds, Limits, MaxNotes, MaxSessions,
  Mine, Others, kChatLines, kLastFew, Dialogs, MaxHealth, MaxLines, MaxChanges

\* Whoever asks for notes asks for one at least, as the tool's schema has it; no
\* line of chat reads like none.
ASSUME SeenAssumption ==
  /\ Limits \subseteq Nat \ {0}
  /\ kChatLines \in Nat \ {0}
  /\ "no line yet" \notin Mine \cup Others

VARIABLES
  what,                                                      \* what is looked at
  events, chat, nextSeq, dropped, kindOf, kinds, cursorAt,   \* Events
  more, got, upTo, missed, carried, session,
  spoken, now, health, changes, mark, looked,        \* Watch
  person, lastHealth, told, noted, came, fresh

eventvars == <<events, chat, nextSeq, dropped, kindOf, kinds, cursorAt, more, got, upTo,
               missed, carried, session>>
watchvars == <<spoken, now, health, changes, mark, looked, person, lastHealth,
               told, noted, came, fresh>>

E == INSTANCE Events WITH since <- cursorAt
W == INSTANCE Watch WITH said <- spoken

SeenInit ==
  /\ what \in {"events", "watch", "menus"}
  /\ E!Init /\ W!Init /\ Init
  /\ what # "events" => kinds = {}
  /\ what # "watch" => spoken = <<>>

SeenNext ==
  /\ UNCHANGED what
  /\ \/ what = "events" /\ E!Next /\ UNCHANGED <<watchvars, vars>>
     \/ what = "watch" /\ W!Next /\ UNCHANGED <<eventvars, vars>>
     \/ what = "menus" /\ Next /\ UNCHANGED <<eventvars, watchvars>>

SeenSpec == SeenInit /\ [][SeenNext]_<<what, eventvars, watchvars, vars>> /\ Fairness

\* A reader that passes on the number it was given misses nothing (Events).
NothingMissed == E!NothingMissed

\* The notes describe how things are (Watch).
NotesTellHowThingsAre == W!NotesTellHowThingsAre

(***************************************************************************)
(* Two menus with the same rows in different places, those of one below a  *)
(* line of column names.                                                   *)
(***************************************************************************)
MCMenus == {[id |-> 1, rows |-> <<"jobs", "bank">>, headers |-> FALSE],
            [id |-> 2, rows |-> <<"name", "bank", "jobs">>, headers |-> TRUE]}
MCPaths == {<<"jobs", "bank">>}

\* Two kinds besides the chat; one text of a stranger who names the character,
\* one of anything else.
MCKinds == {"chat", "death", "travel"}
MCLimits == {1, 2}
MCMine == {"hello"}
MCOthers == {"noise"}
MCDialogs == {"menu"}
===============================================================================
