------------------------------- MODULE Events -------------------------------
(***************************************************************************)
(* What has happened since you last looked (state/events.cpp).  Notes are  *)
(* numbered, and kept in two memories: the chat in one of kKeepChat, all   *)
(* else in one of kKeep, each dropping its oldest.  A reader passes the    *)
(* number it has come to and gets what came after, oldest first over both  *)
(* memories, at most so many and only the kinds it asked for, and the      *)
(* number to pass next time.                                               *)
(*                                                                         *)
(* A memory is the set of the numbers in it: a deque that is only appended *)
(* to and emptied from the front is sorted by number.  The game process    *)
(* ends and starts again; the agent that reads outlives it and still has   *)
(* the number of the session before.                                       *)
(***************************************************************************)
EXTENDS Naturals, FiniteSets, FiniteSetsExt

CONSTANTS
  kKeep, kKeepChat,  \* how many of each memory are kept
  Kinds,             \* kinds of note, "chat" among them
  Limits,            \* what readers ask for at most
  MaxNotes,          \* bound of the model: notes of one session
  MaxSessions        \* bound of the model: times the game is started

VARIABLES
  events, chat,  \* g_events and g_chat
  nextSeq,       \* g_next_seq
  dropped,       \* g_dropped
  kindOf,        \* the kind of each note made
  \* the reader
  kinds,         \* the kinds it asks for, none for all of them
  since,         \* the number it will pass
  more,          \* whether it was told there is more
  got,           \* the notes of this session it has been given
  \* history
  upTo,          \* the newest note when it last read
  missed,        \* notes it wanted that were dropped before it read them
  carried,       \* the number it brought along from the session before
  session

memory == <<events, chat, nextSeq, dropped, kindOf>>
reader == <<since, more, got>>
vars == <<memory, kinds, reader, upTo, missed, carried, session>>

Kept == events \cup chat
Noted == 1..(nextSeq - 1)
Wanted(s) == kinds = {} \/ kindOf[s] \in kinds
Newest == IF Kept = {} THEN 0 ELSE Max(Kept)

Init ==
  /\ events = {} /\ chat = {} /\ nextSeq = 1 /\ dropped = 0
  /\ kindOf = [s \in {} |-> "chat"]
  /\ kinds \in SUBSET Kinds
  /\ since = 0 /\ more = FALSE /\ got = {}
  /\ upTo = 0 /\ missed = {} /\ carried = 0 /\ session = 1

-----------------------------------------------------------------------------
\* What of a memory is kept after a note has gone into it, and what is not.
PushedOut(ring, keep) ==
  {s \in ring : Cardinality({t \in ring : t > s}) >= keep}

IsChat(kind) == kind = "chat"

Drops(kind, out) == Cardinality(out)

Note(kind) ==
  LET ring == IF IsChat(kind) THEN chat ELSE events
      keep == IF IsChat(kind) THEN kKeepChat ELSE kKeep
      out == PushedOut(ring \cup {nextSeq}, keep)
      now == (ring \cup {nextSeq}) \ out
  IN
    /\ nextSeq <= MaxNotes
    /\ nextSeq' = nextSeq + 1
    /\ kindOf' = [s \in Noted \cup {nextSeq} |->
                    IF s = nextSeq THEN kind ELSE kindOf[s]]
    /\ IF IsChat(kind) THEN chat' = now /\ events' = events
                       ELSE events' = now /\ chat' = chat
    /\ dropped' = dropped + Drops(kind, out)
    /\ missed' = missed \cup {s \in out \ got : s > since}
    /\ UNCHANGED <<kinds, reader, upTo, carried, session>>

\* EventsSince.  The answer is the oldest wanted ones, as many as asked for.
After == {s \in Kept : s > since /\ Wanted(s)}
Oldest(limit) == {s \in After : Cardinality({t \in After : t <= s}) <= limit}

\* The number to pass next: that of the last one given if there was no room
\* for more, and else the newest of all, which has been looked at.
CursorAtNewest(limit) == IF Newest > since THEN Newest ELSE since
CursorAtLastGiven(limit) ==
  IF After = {} THEN since ELSE Max(Oldest(limit))
Cursor(limit) ==
  IF Cardinality(After) >= limit THEN Max(Oldest(limit))
  ELSE IF Newest > since THEN Newest ELSE since

More(limit) == Cursor(limit) < Newest

EventsSince(limit) ==
  /\ got' = got \cup Oldest(limit)
  /\ since' = Cursor(limit)
  /\ more' = More(limit)
  /\ upTo' = nextSeq - 1
  /\ UNCHANGED <<memory, kinds, missed, carried, session>>

\* The game is closed and started again.
Restart ==
  /\ session < MaxSessions
  /\ session' = session + 1
  /\ events' = {} /\ chat' = {} /\ nextSeq' = 1 /\ dropped' = 0
  /\ kindOf' = [s \in {} |-> "chat"]
  /\ got' = {} /\ missed' = {} /\ upTo' = 0
  /\ carried' = since
  /\ UNCHANGED <<kinds, since, more>>

Read == \E limit \in Limits : EventsSince(limit)
Next == \/ \E kind \in Kinds : Note(kind)
        \/ Read
        \/ Restart

Spec == Init /\ [][Next]_vars
\* An agent that goes on polling.
FairSpec == Spec /\ WF_vars(Read)

-----------------------------------------------------------------------------
TypeOK ==
  /\ events \subseteq Noted /\ chat \subseteq Noted
  /\ nextSeq \in 1..(MaxNotes + 1) /\ dropped \in Nat
  /\ kindOf \in [Noted -> Kinds] /\ kinds \subseteq Kinds
  \* A number is never ahead of the notes of its session.
  /\ since \in 0..Max({carried, nextSeq - 1}) /\ more \in BOOLEAN
  /\ got \subseteq Noted /\ upTo \in 0..(nextSeq - 1) /\ missed \subseteq Noted
  /\ carried \in Nat /\ session \in 1..MaxSessions

\* A reader that passes on the number it was given has been given every note
\* of this session it wanted up to there, but for those dropped before it came
\* for them, whatever limits it used.
NothingMissed ==
  {s \in Noted : carried < s /\ s <= since /\ Wanted(s)} \subseteq got \cup missed

=============================================================================
