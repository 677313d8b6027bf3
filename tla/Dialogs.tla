------------------------------ MODULE Dialogs ------------------------------
(***************************************************************************)
(* The ground the menu walk (samp/dialog_path.cpp) and the chain of        *)
(* actions (actions/chain.cpp) stand on: the client's dialog, the chat     *)
(* input, the script of keystrokes and the server that shows dialogs.      *)
(*                                                                         *)
(* The key player itself is module Keys; here a keystroke is one step and  *)
(* has its effect when it is played.  The client and the server are not    *)
(* part of the repository: they do what dialog.cpp reads of them and what  *)
(* the comments of the two callers rely on.                                *)
(*                                                                         *)
(* A keystroke carries, as history, the showing of the dialog it was       *)
(* chosen for and the row it is to choose.                                 *)
(***************************************************************************)
EXTENDS Integers, Sequences, FiniteSets

CONSTANTS
  Menus,       \* what the server may show: [id, rows, headers]
  MaxShown,    \* bound of the model: dialogs shown
  MaxUnasked,  \* bound of the model: dialogs shown or hidden without being asked
  Lingers      \* an answered dialog may stay up after the last key was played

ASSUME DialogsAssumption ==
  /\ MaxShown \in Nat /\ MaxUnasked \in Nat /\ Lingers \in BOOLEAN
  /\ \A m \in Menus : m.rows \in Seq(STRING) /\ m.rows # <<>> /\ m.headers \in BOOLEAN

VARIABLES
  screen,    \* the dialog on screen and whether it is answered, <<>> when none
  cursor,    \* the row of the list that is selected
  chatOpen,  \* the chat input is open
  script,    \* the keystrokes queued, the next one first
  owed,      \* answers and chat lines the server has not reacted to
  unasked,   \* things the server did unasked
  shown,     \* how many dialogs have been shown
  answers,   \* history: the answers dialogs were given, by anybody
  replaced,  \* history: the dialogs the server took away unanswered
  said       \* history: lines of chat sent

dialogs == <<screen, cursor, chatOpen, script, owed, unasked, shown, answers, replaced,
             said>>

Nobody == 0
AnyRow == "any"
Labels == {AnyRow} \cup UNION {{m.rows[i] : i \in DOMAIN m.rows} : m \in Menus}
Key == [key : {"up", "down", "return", "escape", "T", "text", "hold"},
        for : 0..MaxShown, want : Labels]
Answer == [on : 1..MaxShown, for : 0..MaxShown, want : Labels, chose : Labels,
           headed : BOOLEAN]

DialogsInit ==
  /\ screen = <<>> /\ cursor = 1 /\ chatOpen = FALSE /\ script = <<>>
  /\ owed = 0 /\ unasked = 0 /\ shown = 0 /\ answers = {} /\ replaced = {}
  /\ said = 0

DialogsTypeOK ==
  /\ screen = <<>> \/ screen \in [menu : Menus, nth : 1..MaxShown, answered : BOOLEAN]
  /\ cursor \in Nat \ {0} /\ chatOpen \in BOOLEAN /\ script \in Seq(Key)
  /\ owed \in Nat /\ unasked \in 0..MaxUnasked /\ shown \in 0..MaxShown
  /\ answers \subseteq Answer /\ replaced \subseteq 1..MaxShown /\ said \in Nat

KeysBusy == script # <<>>
\* dialog.shown: an answered dialog is still shown until the client hides it.
Shown == screen # <<>>
TakesKeys == Shown /\ ~screen.answered

\* The line of column names of a "tab list with headers" cannot be chosen.
Choosable(menu) == IF menu.headers THEN Tail(menu.rows) ELSE menu.rows

-----------------------------------------------------------------------------
(* Reading a row: talk.cpp.  A label stands for the texts that mention it. *)

Rows(dialog) == dialog.menu.rows
Saying(rows, want) == {i \in DOMAIN rows : rows[i] = want}
NotThere == -1
Ambiguous == -2
RowSaying(rows, want) ==
  LET found == Saying(rows, want) IN
  IF found = {} THEN NotThere
  ELSE IF Cardinality(found) > 1 THEN Ambiguous
  ELSE (CHOOSE i \in found : TRUE) - 1

Press(key, times, for, want) ==
  [i \in 1..times |-> [key |-> key, for |-> for, want |-> want]]
\* Up to the top, down to the row.
GoToRow(rows, row, for, want) ==
  Press("up", Len(rows), for, want) \o Press("down", row, for, want)
\* A line of chat: T, the text, Enter.
ChatLine == Press("T", 1, Nobody, AnyRow) \o Press("text", 1, Nobody, AnyRow)
              \o Press("return", 1, Nobody, AnyRow)

-----------------------------------------------------------------------------
(* The client takes the next keystroke.                                    *)

MoveCursor(key) ==
  /\ key \in {"up", "down"} /\ TakesKeys
  /\ cursor' = IF key = "up" THEN IF cursor > 1 THEN cursor - 1 ELSE 1
               ELSE IF cursor < Len(Choosable(screen.menu)) THEN cursor + 1 ELSE cursor
  /\ UNCHANGED <<screen, chatOpen, owed, answers, said>>

AnswerDialog(k) ==
  /\ k.key \in {"return", "escape"} /\ TakesKeys
  /\ answers' = answers \cup
       {[on |-> screen.nth, for |-> k.for, want |-> k.want,
         chose |-> IF k.key = "return" THEN Choosable(screen.menu)[cursor] ELSE AnyRow,
         headed |-> screen.menu.headers]}
  /\ screen' = IF Lingers THEN [screen EXCEPT !.answered = TRUE] ELSE <<>>
  /\ owed' = owed + 1
  /\ UNCHANGED <<cursor, chatOpen, said>>

UseChat(key) ==
  /\ ~Shown /\ key \in {"T", "return", "escape"}
  /\ chatOpen' = (key = "T")
  /\ LET sent == IF chatOpen /\ key = "return" THEN 1 ELSE 0
     IN owed' = owed + sent /\ said' = said + sent
  /\ UNCHANGED <<screen, cursor, answers>>

Lost(key) ==
  /\ \/ key \in {"text", "hold"}
     \/ key \in {"up", "down"} /\ ~TakesKeys
     \/ Shown /\ (key = "T" \/ ~TakesKeys)
  /\ UNCHANGED <<screen, cursor, chatOpen, owed, answers, said>>

KeysTick ==
  /\ KeysBusy /\ script' = Tail(script)
  /\ \/ MoveCursor(Head(script).key)
     \/ AnswerDialog(Head(script))
     \/ UseChat(Head(script).key)
     \/ Lost(Head(script).key)
  /\ UNCHANGED <<unasked, shown, replaced>>

\* The client hides the answered dialog.
Hide ==
  /\ Shown /\ screen.answered /\ screen' = <<>>
  /\ UNCHANGED <<cursor, chatOpen, script, owed, unasked, shown, answers, replaced, said>>

-----------------------------------------------------------------------------
(* The server.                                                             *)

TakesAway == replaced' = IF TakesKeys THEN replaced \cup {screen.nth} ELSE replaced

Show(menu) ==
  /\ shown < MaxShown /\ shown' = shown + 1
  /\ screen' = [menu |-> menu, nth |-> shown + 1, answered |-> FALSE]
  \* The selection starts wherever the client left it.
  /\ cursor' \in 1..Len(Choosable(menu))
  /\ TakesAway /\ UNCHANGED <<chatOpen, script, answers, said>>

React ==
  /\ owed > 0 /\ owed' = owed - 1 /\ UNCHANGED unasked
  /\ \/ \E m \in Menus : Show(m)
     \/ UNCHANGED <<screen, cursor, chatOpen, script, shown, answers, replaced, said>>

Unasked ==
  /\ unasked < MaxUnasked /\ unasked' = unasked + 1 /\ UNCHANGED owed
  /\ \/ \E m \in Menus : Show(m)
     \/ /\ Shown /\ screen' = <<>> /\ TakesAway
        /\ UNCHANGED <<cursor, chatOpen, script, shown, answers, said>>

Client == KeysTick \/ Hide
Server == React \/ Unasked
=============================================================================
