----------------------------- MODULE DialogPath -----------------------------
(***************************************************************************)
(* Walking a server's menus (samp/dialog_path.cpp): every look answers at  *)
(* most one dialog, by keystrokes that choose the row which says what the  *)
(* step says, and then waits for the server to show the next one.          *)
(*                                                                         *)
(* Time since the last answer was queued is read in three stretches: up to *)
(* kSettleMs, up to kWaitForNextMs, and beyond.  The clock may cross from  *)
(* one to the next at any moment, whatever the keys and the server do.     *)
(*                                                                         *)
(* StopWalkingDialogs has no caller and is left out.                       *)
(***************************************************************************)
EXTENDS Dialogs

CONSTANTS
  Paths,     \* the paths a client may ask for: sequences of row names
  MaxWalks   \* bound of the model: walks asked for

ASSUME DialogPathAssumption ==
  MaxWalks \in Nat /\ \A p \in Paths : p \in Seq(STRING) /\ p # <<>>

VARIABLES
  path,        \* g_steps
  pathAt,      \* g_at: steps answered
  walking,     \* g_walking
  answeredId,  \* g_answered_id, -1 when none
  since,       \* how long ago g_answered_ms is
  note,        \* g_note: why the walk ended
  walks        \* walks asked for

ground == <<screen, cursor, chatOpen, owed, unasked, shown, answers, replaced, said>>
pathvars == <<path, pathAt, walking, answeredId, since, note, walks>>
vars == <<dialogs, pathvars>>

Notes == {"idle", "walking", "nothing appeared", "server silent", "no such row",
          "several rows", "walked all"}
Ids == {m.id : m \in Menus} \cup {-1}

Init ==
  /\ DialogsInit
  /\ path = <<>> /\ pathAt = 0 /\ walking = FALSE /\ answeredId = -1
  /\ since = "settling" /\ note = "idle" /\ walks = 0

\* The follow_dialog tool: a chat line first, if one is given, and the walk.
FollowDialog(steps, openWith) ==
  /\ walks < MaxWalks /\ walks' = walks + 1
  /\ script' = IF openWith THEN script \o ChatLine ELSE script
  /\ path' = steps /\ pathAt' = 0 /\ answeredId' = -1 /\ since' = "settling"
  /\ walking' = TRUE /\ note' = "walking"
  /\ UNCHANGED ground

Finish(why) ==
  /\ walking' = FALSE /\ note' = why /\ path' = <<>>
  /\ UNCHANGED walks

Waiting == KeysBusy
\* Mutated form: an answered dialog that is still up is taken for the next one.
StaleNever == ~Shown
Stale == Shown => screen.menu.id = answeredId

\* Mutated form: the first dialog is waited for without end.
GiveUpOnceStarted ==
  /\ Stale /\ since = "overdue" /\ pathAt > 0
  /\ Finish("server silent")
  /\ UNCHANGED <<script, pathAt, answeredId, since>>
GiveUp ==
  /\ Stale /\ since = "overdue"
  /\ Finish(IF pathAt = 0 THEN "nothing appeared" ELSE "server silent")
  /\ UNCHANGED <<script, pathAt, answeredId, since>>

NoRow(row) ==
  /\ row < 0
  /\ Finish(IF row = NotThere THEN "no such row" ELSE "several rows")
  /\ UNCHANGED <<script, pathAt, answeredId, since>>

Choose(row, want) ==
  GoToRow(Rows(screen), row, screen.nth, want) \o Press("return", 1, screen.nth, want)

AllDone(at) == at >= Len(path)

AnswerStep(row, want) ==
  /\ row >= 0
  /\ script' = script \o Choose(row, want)
  /\ answeredId' = screen.menu.id /\ since' = "settling" /\ pathAt' = pathAt + 1
  /\ IF AllDone(pathAt + 1) THEN Finish("walked all")
     ELSE UNCHANGED <<path, walking, note, walks>>

DialogPathTick ==
  /\ walking /\ since # "settling" /\ ~Waiting
  /\ \/ GiveUp
     \/ /\ ~Stale
        /\ LET want == path[pathAt + 1]
               row == RowSaying(Rows(screen), want)
           IN NoRow(row) \/ AnswerStep(row, want)
  /\ UNCHANGED ground

Clock ==
  /\ \/ since = "settling" /\ since' = "settled"
     \/ since = "settled" /\ since' = "overdue"
  /\ UNCHANGED <<dialogs, path, pathAt, walking, answeredId, note, walks>>

Next ==
  \/ \E steps \in Paths, openWith \in BOOLEAN : FollowDialog(steps, openWith)
  \/ DialogPathTick
  \/ Clock
  \/ (Client \/ Server) /\ UNCHANGED pathvars

Spec == Init /\ [][Next]_vars

\* Looks, frames and the clock go on; a server need not react at all.
Fairness ==
  /\ WF_vars(DialogPathTick) /\ WF_vars(Clock)
  /\ WF_vars(KeysTick /\ UNCHANGED pathvars)
FairSpec == Spec /\ Fairness

-----------------------------------------------------------------------------
(* Properties.                                                             *)

\* Every variable keeps its type.
TypeOK ==
  /\ DialogsTypeOK
  /\ path \in Seq(Labels) /\ pathAt \in Nat /\ walking \in BOOLEAN
  /\ answeredId \in Ids /\ since \in {"settling", "settled", "overdue"}
  /\ note \in Notes /\ walks \in 0..MaxWalks
  /\ walking => pathAt < Len(path)

ByThePath == {a \in answers : a.for # Nobody}

\* No step lands in the wrong menu: the Enter of a step answers the very
\* dialog the step was read from, however late the server and the client are,
\* and chooses the row the step names, wherever the selection stood - in a list
\* whose first line is a row: one that begins with the names of its columns is
\* off by one, because the arrows are counted over lines of text.
\* Where it does not, the server took that dialog away in the meantime, or it
\* was still up although answered in a way this walk does not know of: by
\* another walk, or by an Enter meant for something else
\* (dialog_path.cpp:47, 67-113).
LandsWhereRead ==
  \A a \in ByThePath :
    /\ \/ a.on = a.for
       \/ a.for \in replaced
       \/ \E b \in answers : b.on = a.for /\ (walks > 1 \/ b.for # a.for)
    /\ a.on = a.for => a.chose = a.want \/ a.headed

\* Every walk ends: with its steps answered, with a row that is not there, or
\* with nothing to answer for kWaitForNextMs (dialog_path.cpp:76-83).
WalksEnd == walking ~> ~walking
=============================================================================
