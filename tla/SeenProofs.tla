------------------------------ MODULE SeenProofs ------------------------------
(***************************************************************************)
(* What a reader of the client is told and what is done on its word, for   *)
(* every size of the two memories of notes, every limit, every menu and    *)
(* every number of walks:                                                  *)
(*   ReaderMissesNothing      a reader that passes on the number it was    *)
(*                            given misses nothing;                        *)
(*   LookTellsHowThingsAre    the notes describe how things are;           *)
(*   EveryStepLandsWhereRead  a step of a menu walk answers the dialog it  *)
(*                            was read from.                               *)
(***************************************************************************)
EXTENDS MCSeen, FiniteSetTheorems, SequenceTheorems, WellFoundedInduction, TLAPS

everything == <<what, eventvars, watchvars, vars>>

-----------------------------------------------------------------------------
(* Sets of numbers.                                                        *)

\* A set of numbers that is not empty has a least one,
LEMMA Least ==
  ASSUME NEW S \in SUBSET Nat, S # {}
  PROVE  \E x \in S : \A y \in S : x <= y
<1>1. PICK x \in S : \A y \in S : <<y, x>> \notin OpToRel(<, Nat)
  BY NatLessThanWellFounded, WFMin
<1>2. \A y \in S : ~ (y < x)
  BY <1>1 DEF OpToRel
<1> QED  BY <1>2

\* and a greatest one if it is bounded.
LEMMA Greatest ==
  ASSUME NEW S \in SUBSET Nat, S # {}, NEW n \in Nat, \A s \in S : s <= n
  PROVE  /\ E!Max(S) \in S /\ \A y \in S : y <= E!Max(S)
<1> DEFINE Down == {d \in Nat : n - d \in S}
<1>1. Down # {}
  <2>1. PICK s \in S : TRUE
    OBVIOUS
  <2>2. n - s \in Nat /\ n - (n - s) = s
    BY <2>1
  <2> QED  BY <2>2
<1>2. PICK d \in Down : \A e \in Down : d <= e
  BY <1>1, Least
<1>3. n - d \in S /\ \A y \in S : n - y \in Down
  BY <1>2
<1>4. \A y \in S : n - d >= y
  BY <1>2, <1>3
<1>5. \E x \in S : \A y \in S : x >= y
  BY <1>3, <1>4
<1> HIDE DEF Down
<1> QED  BY <1>5 DEF E!Max

\* Sets are counted in one way.
LEMMA Counted == \A S : E!Cardinality(S) = Cardinality(S)
BY DEF E!Cardinality, Cardinality

-----------------------------------------------------------------------------
(* The notes (Events).  A note that was dropped is one the reader has been *)
(* given, one that is at or below its number, or one that counts as missed.*)

Numbered ==
  /\ nextSeq \in Nat \ {0} /\ cursorAt \in Nat /\ carried \in Nat
  /\ events \subseteq E!Noted /\ chat \subseteq E!Noted
  /\ cursorAt <= carried \/ cursorAt < nextSeq
Accounted ==
  \A s \in E!Noted \ E!Kept : s <= cursorAt \/ s \in got \cup missed
NotesInv == Numbered /\ Accounted /\ NothingMissed

\* The oldest notes are given before younger ones, and the number handed back
\* is no further than what was given.
LEMMA CursorGivesAll ==
  ASSUME Numbered, NEW limit \in Nat \ {0}
  PROVE  /\ E!Cursor(limit) \in Nat
         /\ E!Cursor(limit) <= cursorAt \/ E!Cursor(limit) < nextSeq
         /\ cursorAt <= E!Cursor(limit)
         /\ \A s \in E!After : s <= E!Cursor(limit) => s \in E!Oldest(limit)
<1>1. E!Noted \subseteq Nat /\ E!Kept \subseteq E!Noted /\ \A s \in E!Noted : s <= nextSeq - 1
  BY DEF Numbered, E!Noted, E!Kept
<1>2. nextSeq - 1 \in Nat
  BY DEF Numbered
<1>3. E!After \in SUBSET Nat /\ E!After \subseteq E!Kept /\ IsFiniteSet(E!After)
  <2>1. E!After \in SUBSET Nat /\ E!After \subseteq E!Kept
    BY <1>1 DEF E!After
  <2> QED  BY <1>1, <1>2, <2>1, FS_BoundedSetOfNaturals
<1> DEFINE UpTo(m) == {t \in E!After : t <= m}
<1>4. \A m \in Nat : IsFiniteSet(UpTo(m)) /\ Cardinality(UpTo(m)) \in Nat
  BY <1>3, FS_Subset, FS_CardinalityType
<1>5. CASE Cardinality(E!After) >= limit
  <2>1. E!After # {}
    BY <1>5, FS_EmptySet
  <2>2. PICK m \in E!After : \A t \in E!After : m <= t
    BY <1>3, <2>1, Least
  <2>3. UpTo(m) = {m}
    <3>1. \A t \in E!After : t <= m => t = m
      BY <1>3, <2>2
    <3>2. m <= m
      BY <1>3
    <3> QED  BY <2>2, <3>1, <3>2, Zenon
  <2>4. m \in E!Oldest(limit)
    <3>1. Cardinality(UpTo(m)) <= limit
      BY <2>3, FS_Singleton
    <3> QED  BY <3>1, Counted DEF E!Oldest
  <2>5. E!Oldest(limit) \subseteq E!After
    BY DEF E!Oldest
  <2>6. /\ E!Max(E!Oldest(limit)) \in E!Oldest(limit)
        /\ \A t \in E!Oldest(limit) : t <= E!Max(E!Oldest(limit))
    BY <1>1, <1>2, <1>3, <2>4, <2>5, Greatest
  <2> DEFINE top == E!Max(E!Oldest(limit))
  <2>7. E!Cursor(limit) = top
    BY <1>5, Counted DEF E!Cursor
  <2>8. top \in E!After /\ Cardinality(UpTo(top)) <= limit
    BY <2>5, <2>6, Counted DEF E!Oldest
  <2>9. ASSUME NEW s \in E!After, s <= top
        PROVE  s \in E!Oldest(limit)
    <3>1. s \in Nat /\ top \in Nat
      BY <1>3, <2>8
    <3>2. UpTo(s) \in SUBSET UpTo(top)
      <4>1. \A t \in E!After : t <= s => t <= top
        BY <1>3, <2>9, <3>1
      <4> QED  BY <4>1, Zenon
    <3>3. Cardinality(UpTo(s)) <= Cardinality(UpTo(top))
      BY <1>4, <3>1, <3>2, FS_Subset
    <3>4. Cardinality(UpTo(s)) <= limit
      BY <1>4, <2>8, <3>1, <3>3
    <3> QED  BY <3>4, Counted DEF E!Oldest
  <2>10. top \in Nat /\ top <= nextSeq - 1 /\ cursorAt <= top
    BY <1>1, <1>3, <2>8 DEF E!After, Numbered
  <2> QED  BY <2>7, <2>9, <2>10 DEF Numbered
<1>6. CASE ~(Cardinality(E!After) >= limit)
  <2>1. Cardinality(E!After) \in Nat
    BY <1>3, FS_CardinalityType
  <2>2. \A s \in E!After : s \in E!Oldest(limit)
    <3> TAKE s \in E!After
    <3>1. UpTo(s) \in SUBSET E!After /\ s \in Nat
      BY <1>3
    <3>2. Cardinality(UpTo(s)) <= Cardinality(E!After)
      BY <1>3, <3>1, FS_Subset
    <3>3. Cardinality(UpTo(s)) <= limit
      BY <1>4, <1>6, <2>1, <3>1, <3>2
    <3> QED  BY <3>3, Counted DEF E!Oldest
  <2>3. E!Cursor(limit) = IF E!Newest > cursorAt THEN E!Newest ELSE cursorAt
    BY <1>6, Counted DEF E!Cursor
  <2>4. E!Newest \in 0..(nextSeq - 1)
    <3>1. CASE E!Kept = {}
      BY <1>2, <3>1 DEF E!Newest
    <3>2. CASE E!Kept # {}
      <4>1. E!Max(E!Kept) \in E!Kept
        BY <1>1, <1>2, <3>2, Greatest
      <4>2. E!Newest = E!Max(E!Kept)
        BY <3>2 DEF E!Newest
      <4>3. E!Newest \in Nat /\ E!Newest <= nextSeq - 1
        BY <1>1, <4>1, <4>2
      <4> QED  BY <1>2, <4>3
    <3> QED  BY <3>1, <3>2
  <2> QED  BY <2>2, <2>3, <2>4 DEF Numbered
<1> QED  BY <1>5, <1>6

\* Somebody looks: what is between the old number and the new is given now, or
\* was dropped and counts.
LEMMA ReadKeeps ==
  ASSUME NotesInv, NEW limit \in Limits, E!EventsSince(limit)
  PROVE  NotesInv'
<1>1. limit \in Nat \ {0}
  BY SeenAssumption DEF SeenAssumption
<1>2. /\ E!Cursor(limit) \in Nat
      /\ E!Cursor(limit) <= cursorAt \/ E!Cursor(limit) < nextSeq
      /\ cursorAt <= E!Cursor(limit)
      /\ \A s \in E!After : s <= E!Cursor(limit) => s \in E!Oldest(limit)
  BY <1>1, CursorGivesAll DEF NotesInv
<1>3. /\ UNCHANGED <<events, chat, nextSeq, dropped, kindOf, kinds, missed, carried>>
      /\ cursorAt' = E!Cursor(limit) /\ got' = got \cup E!Oldest(limit)
  BY DEF E!EventsSince, E!memory
<1>4. E!Noted' = E!Noted /\ E!Kept' = E!Kept /\ E!Noted \subseteq Nat
  BY <1>3 DEF E!Noted, E!Kept, NotesInv, Numbered
<1>5. Numbered'
  BY <1>2, <1>3, <1>4 DEF NotesInv, Numbered
<1>6. Accounted'
  BY <1>2, <1>3, <1>4 DEF NotesInv, Numbered, Accounted
<1>7. NothingMissed'
  <2>1. ASSUME NEW s \in E!Noted, carried < s, s <= E!Cursor(limit), E!Wanted(s)
        PROVE  s \in got \cup missed \cup E!Oldest(limit)
    <3>1. CASE s <= cursorAt
      BY <2>1, <3>1 DEF NotesInv, NothingMissed, E!NothingMissed
    <3>2. CASE s > cursorAt /\ s \notin E!Kept
      BY <1>4, <3>2 DEF NotesInv, Accounted, Numbered
    <3>3. CASE s > cursorAt /\ s \in E!Kept
      BY <1>2, <2>1, <3>3 DEF E!After
    <3> QED  BY <1>4, <3>1, <3>2, <3>3 DEF NotesInv, Numbered
  <2>2. \A s \in E!Noted : E!Wanted(s)' = E!Wanted(s)
    BY <1>3 DEF E!Wanted
  <2> QED  BY <1>3, <1>4, <2>1, <2>2 DEF NothingMissed, E!NothingMissed
<1> QED  BY <1>5, <1>6, <1>7 DEF NotesInv

\* Something is noted: what is pushed out counts unless it was given.
LEMMA NoteKeeps ==
  ASSUME NotesInv, NEW kind \in Kinds, E!Note(kind)
  PROVE  NotesInv'
<1>1. PICK ring, keep, out :
        /\ ring = (IF E!IsChat(kind) THEN chat ELSE events)
        /\ out = E!PushedOut(ring \cup {nextSeq}, keep)
        /\ IF E!IsChat(kind) THEN chat' = (ring \cup {nextSeq}) \ out /\ events' = events
                            ELSE events' = (ring \cup {nextSeq}) \ out /\ chat' = chat
        /\ missed' = missed \cup {s \in out \ got : s > cursorAt}
  BY DEF E!Note
<1>2. /\ nextSeq' = nextSeq + 1 /\ UNCHANGED <<kinds, cursorAt, got, carried>>
      /\ kindOf' = [s \in E!Noted \cup {nextSeq} |-> IF s = nextSeq THEN kind ELSE kindOf[s]]
  BY DEF E!Note, E!reader
<1>3. /\ E!Noted' = E!Noted \cup {nextSeq} /\ nextSeq \notin E!Noted
      /\ E!Noted \subseteq Nat /\ nextSeq \in Nat \ {0}
  BY <1>2 DEF E!Noted, NotesInv, Numbered
<1>4. /\ E!Kept' \subseteq E!Kept \cup {nextSeq}
      /\ \A s \in E!Kept \cup {nextSeq} : s \notin E!Kept' => s \in out
  BY <1>1 DEF E!Kept
<1>5. Numbered'
  <2>1. ring \subseteq E!Noted /\ events \subseteq E!Noted /\ chat \subseteq E!Noted
    BY <1>1 DEF NotesInv, Numbered
  <2>2. events' \subseteq E!Noted' /\ chat' \subseteq E!Noted'
    BY <1>1, <1>3, <2>1
  <2> QED  BY <1>2, <1>3, <2>2 DEF NotesInv, Numbered
<1>6. Accounted'
  <2>1. ASSUME NEW s \in E!Noted \cup {nextSeq}, s \notin E!Kept', s > cursorAt
        PROVE  s \in got \cup missed'
    <3>1. CASE s \in E!Kept \cup {nextSeq}
      BY <1>1, <1>4, <2>1, <3>1
    <3>2. CASE s \in E!Noted \ E!Kept
      BY <1>1, <1>3, <2>1, <3>2 DEF NotesInv, Accounted, Numbered
    <3> QED  BY <2>1, <3>1, <3>2
  <2>2. \A s \in E!Noted \cup {nextSeq} : s > cursorAt \/ s <= cursorAt
    BY <1>3 DEF NotesInv, Numbered
  <2> QED  BY <1>2, <1>3, <2>1, <2>2 DEF Accounted
<1>7. NothingMissed'
  <2>1. ~(carried < nextSeq /\ nextSeq <= cursorAt)
    BY <1>3 DEF NotesInv, Numbered
  <2>2. \A s \in E!Noted : E!Wanted(s)' = E!Wanted(s)
    BY <1>2, <1>3 DEF E!Wanted
  <2>3. missed \subseteq missed'
    BY <1>1
  <2> QED  BY <1>2, <1>3, <2>1, <2>2, <2>3 DEF NotesInv, NothingMissed, E!NothingMissed
<1> QED  BY <1>5, <1>6, <1>7 DEF NotesInv

\* The game is started again: nothing has been noted, and the number is older.
LEMMA RestartKeeps ==
  ASSUME NotesInv, E!Restart
  PROVE  NotesInv'
<1>1. E!Noted' = {} /\ E!Kept' = {}
  BY DEF E!Restart, E!Noted, E!Kept
<1> QED
  BY <1>1 DEF E!Restart, NotesInv, Numbered, Accounted, NothingMissed, E!NothingMissed

\* A reader that passes on the number it was given has been given every note
\* it wanted, or it was dropped before it came for it.
THEOREM ReaderMissesNothing == SeenSpec => []NothingMissed
<1>1. SeenInit => NotesInv
  <2> SUFFICES ASSUME E!Init PROVE NotesInv
    BY DEF SeenInit
  <2>1. E!Noted = {} /\ E!Kept = {}
    BY DEF E!Init, E!Noted, E!Kept
  <2> QED
    BY <2>1 DEF E!Init, NotesInv, Numbered, Accounted, NothingMissed, E!NothingMissed
<1>2. NotesInv /\ [SeenNext]_everything => NotesInv'
  <2> SUFFICES ASSUME NotesInv, [SeenNext]_everything PROVE NotesInv'
    OBVIOUS
  <2>1. CASE UNCHANGED eventvars
    BY <2>1 DEF eventvars, NotesInv, Numbered, Accounted, NothingMissed,
                E!NothingMissed, E!Noted, E!Kept, E!Wanted
  <2>2. CASE E!Next
    BY <2>2, NoteKeeps, ReadKeeps, RestartKeeps DEF E!Next, E!Read
  <2> QED  BY <2>1, <2>2 DEF SeenNext, everything
<1>3. NotesInv => NothingMissed
  BY DEF NotesInv
<1> QED  BY <1>1, <1>2, <1>3, PTL DEF SeenSpec, everything

-----------------------------------------------------------------------------
(* The look (Watch).  What has been told is what the last look saw, and    *)
(* the mark reads like the line it came to.                                *)

LookInv ==
  /\ now \in W!Things /\ told \in W!Things /\ told = looked
  /\ spoken \in Seq(W!Texts) /\ came \in 0..Len(spoken)
  /\ came = 0 \/ mark = spoken[came]
Told ==
  fresh' => /\ told' = now
            /\ \A i \in W!Lines : came \in W!Lines /\ i > came => i \in noted'

\* The lines that are read are the last of those said; if any was, the last.
LEMMA LinesAreTheLast ==
  ASSUME LookInv
  PROVE  /\ Len(spoken) \in Nat /\ W!First \in Nat \ {0}
         /\ W!Lines = W!First..Len(spoken)
         /\ W!Lines = {} => Len(spoken) = 0
<1>1. spoken \in Seq(W!Texts)
  BY DEF LookInv
<1>2. Len(spoken) \in Nat
  BY <1>1
<1>3. kChatLines \in Nat \ {0}
  BY SeenAssumption DEF SeenAssumption
<1> QED  BY <1>2, <1>3 DEF W!First, W!Lines

\* A look tells what is, and does not pass over a line said since the last one.
LEMMA LookTells ==
  ASSUME LookInv, W!WatchEvents
  PROVE  Told /\ LookInv'
<1>1. told' = now
  <2>1. told' = [k \in DOMAIN told |-> IF now[k] # looked[k] THEN now[k] ELSE told[k]]
    BY DEF W!WatchEvents, W!WatchThings
  <2>2. DOMAIN told = DOMAIN now /\ now = [k \in DOMAIN now |-> now[k]]
    BY DEF LookInv, W!Things
  <2> QED  BY <2>1, <2>2 DEF LookInv
<1>2. ASSUME NEW i \in W!Lines, came \in W!Lines, i > came
      PROVE  i \in noted'
  <2>1. /\ W!Lines \subseteq Nat /\ came \in Nat \ {0} /\ i \in Nat /\ i <= Len(spoken)
        /\ Len(spoken) \in Nat
    BY <1>2, LinesAreTheLast
  <2>2. spoken[came] \in W!Texts /\ mark = spoken[came]
    BY <2>1 DEF LookInv
  <2>3. mark # W!NoText
    BY <2>2, SeenAssumption DEF SeenAssumption, W!Texts, W!NoText
  <2>4. came \in W!Marks /\ W!Marks \in SUBSET Nat
    BY <1>2, <2>1, <2>2 DEF W!Marks
  <2>5. \E m \in W!Marks : \A j \in W!Marks : m <= j
    BY <2>4, Least
  <2> DEFINE m == CHOOSE n \in W!Marks : \A j \in W!Marks : n <= j
  <2>6. m \in Nat /\ m <= came
    BY <2>4, <2>5
  <2>7. W!From = 1 + m
    BY <2>3, <2>4 DEF W!From, W!AfterTheMark
  <2> HIDE DEF m
  <2>8. i \in W!News
    BY <1>2, <2>1, <2>6, <2>7 DEF W!News
  <2> QED  BY <2>8 DEF W!WatchEvents, W!WatchChat
<1>3. LookInv'
  <2>1. looked' = now /\ UNCHANGED <<spoken, now>> /\ came' = Len(spoken)
        /\ mark' = IF W!Lines = {} THEN mark ELSE spoken[Len(spoken)]
    BY DEF W!WatchEvents, W!WatchThings, W!Remember, W!WatchChat, W!happenings
  <2> QED  BY <1>1, <2>1, LinesAreTheLast DEF LookInv
<1> QED  BY <1>1, <1>2, <1>3 DEF Told

\* Nothing else makes a note, and lines are only added.
LEMMA OthersKeepTheLook ==
  ASSUME LookInv, W!Say \/ W!Change \/ W!LoseHealth \/ W!Decide
  PROVE  Told /\ LookInv'
<1> USE DEF LookInv, Told, W!watcher, W!history, W!happenings
<1>1. CASE W!Say
  <2>1. PICK t \in W!Texts : spoken' = Append(spoken, t)
    BY <1>1 DEF W!Say
  <2>2. /\ spoken' \in Seq(W!Texts) /\ Len(spoken') = Len(spoken) + 1
        /\ \A i \in 1..Len(spoken) : spoken'[i] = spoken[i]
    BY <2>1
  <2> QED  BY <1>1, <2>2 DEF W!Say
<1>2. CASE W!Change
  BY <1>2 DEF W!Change
<1>3. CASE W!LoseHealth
  BY <1>3 DEF W!LoseHealth
<1>4. CASE W!Decide
  BY <1>4 DEF W!Decide
<1> QED  BY <1>1, <1>2, <1>3, <1>4

\* Right after a look the notes describe how things are, and no line said since
\* the look before is left out while the line it came to is among those read.
THEOREM LookTellsHowThingsAre == SeenSpec => NotesTellHowThingsAre
<1>1. SeenInit => LookInv
  <2> SUFFICES ASSUME W!Init PROVE LookInv
    BY DEF SeenInit
  <2>1. W!AtStart \in W!Things
    BY DEF W!Things, W!AtStart
  <2>2. spoken \in Seq(W!Texts)
    <3>1. CASE spoken = <<>>
      BY <3>1
    <3>2. ASSUME NEW t \in W!Texts, spoken = <<t>>
          PROVE  spoken \in Seq(W!Texts)
      BY <3>2
    <3> QED  BY <3>1, <3>2 DEF W!Init
  <2>3. Len(spoken) \in Nat
    BY <2>2
  <2> QED  BY <2>1, <2>2, <2>3 DEF W!Init, LookInv
<1>2. LookInv /\ [SeenNext]_everything => LookInv' /\ [Told]_W!vars
  <2> SUFFICES ASSUME LookInv, [SeenNext]_everything PROVE LookInv' /\ [Told]_W!vars
    OBVIOUS
  <2>1. CASE UNCHANGED watchvars
    <3>1. UNCHANGED W!vars
      BY <2>1 DEF watchvars, W!vars, W!happenings, W!watcher, W!history
    <3> QED  BY <2>1, <3>1 DEF watchvars, LookInv
  <2>2. CASE W!Next
    BY <2>2, LookTells, OthersKeepTheLook DEF W!Next
  <2> QED  BY <2>1, <2>2 DEF SeenNext, everything
<1> QED
  BY <1>1, <1>2, PTL DEF SeenSpec, everything, NotesTellHowThingsAre,
                         W!NotesTellHowThingsAre, Told

-----------------------------------------------------------------------------
(* A walk of the menus (DialogPath).  What is left of a step's keystrokes  *)
(* is at the head of the script, and the dialog they were read from is     *)
(* still to be answered, or was taken away, or was answered by somebody    *)
(* else; while it is still to be answered the selection is as far from the *)
(* row as the keystrokes that are left.                                    *)

Arrows == {"up", "down"}
Presses == Arrows \cup {"return", "T", "text"}
Words == STRING \cup {AnyRow}
AKey == [key : Presses, for : Nat, want : Words]
ADialog == [menu : Menus, nth : Nat \ {0}, answered : BOOLEAN]

GroundTyped ==
  /\ screen = <<>> \/ screen \in ADialog
  /\ Shown => screen.nth <= shown /\ cursor <= Len(Choosable(screen.menu))
  /\ cursor \in Nat \ {0} /\ shown \in Nat
  /\ script \in Seq(AKey)
PathTyped ==
  /\ path \in Seq(STRING) /\ pathAt \in Nat /\ walks \in Nat
  /\ walking => pathAt < Len(path)

\* What is left of a step: so many times up, so many times down, and Enter.
Stroke(key, for, want) == [key |-> key, for |-> for, want |-> want]
Holds(keys, ups, downs, for, want) ==
  /\ ups + downs < Len(keys)
  /\ \A i \in 1..ups : keys[i] = Stroke("up", for, want)
  /\ \A i \in (ups + 1)..(ups + downs) : keys[i] = Stroke("down", for, want)
  /\ keys[ups + downs + 1] = Stroke("return", for, want)
  /\ \A i \in (ups + downs + 2)..Len(keys) : keys[i].for = Nobody
Left(ups, downs, for, want) == Holds(script, ups, downs, for, want)

\* Somebody else answered that dialog, or another walk did.
Excused(nth) == \E b \in answers : b.on = nth /\ (walks > 1 \/ b.for # nth)
ToBeAnswered(nth) == TakesKeys /\ screen.nth = nth

Aimed(ups, downs, for, want) ==
  ToBeAnswered(for) /\ ~screen.menu.headers =>
    \E i \in DOMAIN Rows(screen) :
      /\ Rows(screen)[i] = want /\ downs < i
      /\ IF ups > 0 THEN downs = i - 1 /\ cursor <= ups ELSE cursor = i - downs
AStepIsLeft ==
  \E ups, downs \in Nat, for \in Nat \ {0}, want \in STRING :
    /\ Left(ups, downs, for, want) /\ Aimed(ups, downs, for, want)
    /\ for <= shown /\ walks > 0
    /\ ToBeAnswered(for) \/ for \in replaced \/ Excused(for)
    /\ walks = 1 /\ Shown /\ screen.nth = for => answeredId = screen.menu.id
NothingIsLeft == \A i \in DOMAIN script : script[i].for = Nobody

\* A dialog that is still up although answered was answered by this walk, which
\* knows it by its id, or otherwise.
AnsweredAndUp ==
  Shown /\ screen.answered =>
    \E b \in answers : /\ b.on = screen.nth
                       /\ walks > 1 \/ b.for # b.on \/ answeredId = screen.menu.id
BeforeTheFirstWalk ==
  walks = 0 => NothingIsLeft /\ ~walking /\ \A b \in answers : b.for = Nobody

MenusInv ==
  /\ GroundTyped /\ PathTyped
  /\ NothingIsLeft \/ AStepIsLeft
  /\ AnsweredAndUp /\ BeforeTheFirstWalk /\ LandsWhereRead

\* An answer of the walk that is where it should be, or excused.
Lands(a) ==
  /\ a.on = a.for \/ a.for \in replaced \/ Excused(a.for)
  /\ a.on = a.for => a.chose = a.want \/ a.headed

LEMMA AllLand ==
  /\ LandsWhereRead <=> \A a \in answers : a.for # Nobody => Lands(a)
  /\ LandsWhereRead' <=> \A a \in answers' : a.for # Nobody => Lands(a)'
BY DEF LandsWhereRead, ByThePath, Lands, Excused

\* What happened cannot be undone.
LEMMA StillExcused ==
  ASSUME PathTyped, answers \subseteq answers', replaced \subseteq replaced',
         walks' \in Nat, walks <= walks'
  PROVE  /\ \A nth : Excused(nth) => Excused(nth)'
         /\ \A a : Lands(a) => Lands(a)'
<1>1. ASSUME NEW nth, Excused(nth)
      PROVE  Excused(nth)'
  BY <1>1 DEF Excused, PathTyped
<1> QED  BY <1>1 DEF Lands

\* The next keystroke is taken from the script.
LEMMA OneKeyLess ==
  ASSUME GroundTyped, script # <<>>, script' = Tail(script)
  PROVE  /\ script' \in Seq(AKey) /\ Len(script') = Len(script) - 1
         /\ \A i \in 1..Len(script') : script'[i] = script[i + 1]
         /\ Head(script) = script[1] /\ Head(script) \in AKey
         /\ Len(script) \in Nat /\ Len(script) > 0
BY DEF GroundTyped

LEMMA LeftShrinks ==
  ASSUME GroundTyped, script # <<>>, script' = Tail(script),
         NEW ups \in Nat, NEW downs \in Nat, NEW for, NEW want,
         Left(ups, downs, for, want)
  PROVE  /\ ups > 0 => /\ Head(script) = Stroke("up", for, want)
                       /\ Left(ups - 1, downs, for, want)'
         /\ ups = 0 /\ downs > 0 => /\ Head(script) = Stroke("down", for, want)
                                   /\ Left(0, downs - 1, for, want)'
         /\ ups = 0 /\ downs = 0 => /\ Head(script) = Stroke("return", for, want)
                                   /\ NothingIsLeft'
<1>1. /\ Len(script') = Len(script) - 1 /\ Len(script) \in Nat /\ Len(script) > 0
      /\ \A i \in 1..Len(script') : script'[i] = script[i + 1]
      /\ Head(script) = script[1] /\ DOMAIN script' = 1..Len(script')
  BY OneKeyLess
<1>2. CASE ups > 0
  BY <1>1, <1>2 DEF Left, Holds
<1>3. CASE ups = 0 /\ downs > 0
  BY <1>1, <1>3 DEF Left, Holds
<1>4. CASE ups = 0 /\ downs = 0
  BY <1>1, <1>4 DEF Left, Holds, NothingIsLeft
<1> QED  BY <1>2, <1>3, <1>4

LEMMA NothingShrinks ==
  ASSUME GroundTyped, script # <<>>, script' = Tail(script), NothingIsLeft
  PROVE  NothingIsLeft' /\ Head(script).for = Nobody
<1>1. /\ Len(script') = Len(script) - 1 /\ Len(script) \in Nat /\ Len(script) > 0
      /\ \A i \in 1..Len(script') : script'[i] = script[i + 1]
      /\ Head(script) = script[1] /\ DOMAIN script' = 1..Len(script')
      /\ DOMAIN script = 1..Len(script)
  BY OneKeyLess DEF GroundTyped
<1> QED  BY <1>1 DEF NothingIsLeft

LEMMA MenuRows ==
  ASSUME NEW m \in Menus
  PROVE  /\ m.rows \in Seq(STRING) /\ Len(m.rows) \in Nat /\ Len(m.rows) > 0
         /\ m.headers \in BOOLEAN
         /\ Choosable(m) \in Seq(STRING) /\ Len(Choosable(m)) \in Nat
         /\ ~m.headers => Choosable(m) = m.rows
<1>1. m.rows \in Seq(STRING) /\ m.rows # <<>> /\ m.headers \in BOOLEAN
  BY DialogsAssumption DEF DialogsAssumption
<1>2. Len(m.rows) \in Nat /\ Len(m.rows) > 0
  BY <1>1, EmptySeq, LenProperties
<1>3. Tail(m.rows) \in Seq(STRING)
  BY <1>1, HeadTailProperties
<1>4. Choosable(m) \in Seq(STRING) /\ (~m.headers => Choosable(m) = m.rows)
  BY <1>1, <1>3 DEF Choosable
<1> QED  BY <1>1, <1>2, <1>4

\* What the client does with the dialog when it is answered.
LEMMA Answered ==
  ASSUME GroundTyped, Shown,
         screen' = IF Lingers THEN [screen EXCEPT !.answered = TRUE] ELSE <<>>
  PROVE  \/ screen' = <<>>
         \/ /\ screen' \in ADialog /\ screen'.menu = screen.menu
            /\ screen'.nth = screen.nth /\ screen'.answered
<1>1. screen \in ADialog
  BY DEF GroundTyped, Shown
<1> QED  BY <1>1 DEF ADialog

LEMMA KeyTyped ==
  ASSUME GroundTyped, KeysTick
  PROVE  GroundTyped'
<1>1. script' \in Seq(AKey) /\ shown' = shown
  BY OneKeyLess DEF KeysTick, KeysBusy
<1>2. CASE MoveCursor(Head(script).key)
  <2>1. screen' = screen /\ screen \in ADialog /\ Shown /\ Shown'
    BY <1>2 DEF MoveCursor, TakesKeys, Shown, GroundTyped
  <2>2. screen.menu \in Menus
    BY <2>1 DEF ADialog
  <2>3. cursor' \in Nat \ {0} /\ cursor' <= Len(Choosable(screen.menu))
    BY <1>2, <2>1, <2>2, MenuRows DEF MoveCursor, GroundTyped
  <2> QED  BY <1>1, <2>1, <2>3 DEF GroundTyped
<1>3. CASE AnswerDialog(Head(script))
  <2>1. cursor' = cursor /\ Shown
    BY <1>3 DEF AnswerDialog, TakesKeys
  <2>2. \/ screen' = <<>>
        \/ screen' \in ADialog /\ screen'.menu = screen.menu /\ screen'.nth = screen.nth
    BY <1>3, <2>1, Answered DEF AnswerDialog
  <2> QED  BY <1>1, <2>1, <2>2 DEF GroundTyped, Shown
<1>4. CASE UseChat(Head(script).key)
  BY <1>1, <1>4 DEF UseChat, GroundTyped, Shown
<1>5. CASE Lost(Head(script).key)
  BY <1>1, <1>5 DEF Lost, GroundTyped, Shown
<1> QED  BY <1>2, <1>3, <1>4, <1>5 DEF KeysTick

\* A keystroke that is no Enter moves the selection of the dialog it was meant
\* for one nearer to its row, as long as that is to be answered.
LEMMA ArrowKeepsStep ==
  ASSUME GroundTyped, KeysTick, UNCHANGED <<pathvars, screen, answers>>,
         NEW ups \in Nat, NEW downs \in Nat, NEW for \in Nat \ {0}, NEW want \in STRING,
         Left(ups, downs, for, want), Aimed(ups, downs, for, want), ups + downs > 0
  PROVE  \E u, d \in Nat : Left(u, d, for, want)' /\ Aimed(u, d, for, want)'
<1>1. script # <<>> /\ script' = Tail(script)
  BY DEF KeysTick, KeysBusy
<1>2. ToBeAnswered(for)' => ToBeAnswered(for) /\ screen \in ADialog
  BY DEF ToBeAnswered, TakesKeys, Shown, GroundTyped
<1>3. CASE ups > 0
  <2>1. Head(script).key = "up" /\ Left(ups - 1, downs, for, want)' /\ ups - 1 \in Nat
    BY <1>1, <1>3, LeftShrinks DEF Stroke
  <2>2. ToBeAnswered(for) => cursor' = IF cursor > 1 THEN cursor - 1 ELSE 1
    BY <2>1 DEF KeysTick, ToBeAnswered, MoveCursor, AnswerDialog, UseChat, Lost, TakesKeys
  <2>3. Aimed(ups - 1, downs, for, want)'
    <3> SUFFICES ASSUME ToBeAnswered(for)', ~screen.menu.headers
                 PROVE  \E i \in DOMAIN Rows(screen) :
                          /\ Rows(screen)[i] = want /\ downs < i
                          /\ IF ups - 1 > 0 THEN downs = i - 1 /\ cursor' <= ups - 1
                             ELSE cursor' = i - downs
      BY DEF Aimed, Rows
    <3>1. PICK i \in DOMAIN Rows(screen) :
            Rows(screen)[i] = want /\ downs < i /\ downs = i - 1 /\ cursor <= ups
      BY <1>2, <1>3 DEF Aimed
    <3>2. i \in Nat /\ cursor \in Nat \ {0}
      BY <1>2, <3>1, MenuRows DEF Rows, ADialog, GroundTyped
    <3> QED  BY <1>2, <1>3, <2>2, <3>1, <3>2
  <2> QED  BY <2>1, <2>3
<1>4. CASE ups = 0
  <2>1. Head(script).key = "down" /\ Left(0, downs - 1, for, want)' /\ downs - 1 \in Nat
    BY <1>1, <1>4, LeftShrinks DEF Stroke
  <2>2. ToBeAnswered(for) =>
          cursor' = IF cursor < Len(Choosable(screen.menu)) THEN cursor + 1 ELSE cursor
    BY <2>1 DEF KeysTick, ToBeAnswered, MoveCursor, AnswerDialog, UseChat, Lost, TakesKeys
  <2>3. Aimed(0, downs - 1, for, want)'
    <3> SUFFICES ASSUME ToBeAnswered(for)', ~screen.menu.headers
                 PROVE  \E i \in DOMAIN Rows(screen) :
                          /\ Rows(screen)[i] = want /\ downs - 1 < i
                          /\ cursor' = i - (downs - 1)
      BY DEF Aimed, Rows
    <3>1. PICK i \in DOMAIN Rows(screen) :
            Rows(screen)[i] = want /\ downs < i /\ cursor = i - downs
      BY <1>2, <1>4 DEF Aimed
    <3>2. /\ i \in Nat /\ cursor \in Nat \ {0} /\ i <= Len(Rows(screen))
          /\ Choosable(screen.menu) = Rows(screen) /\ Len(Rows(screen)) \in Nat
      BY <1>2, <3>1, MenuRows DEF Rows, ADialog, GroundTyped
    <3> QED  BY <1>2, <1>4, <2>1, <2>2, <3>1, <3>2
  <2>4. 0 \in Nat
    OBVIOUS
  <2> QED  BY <2>1, <2>3, <2>4
<1>5. ups > 0 \/ ups = 0
  OBVIOUS
<1> QED  BY <1>3, <1>4, <1>5

\* What the script holds survives a step that leaves it alone.
LEMMA SameScript ==
  ASSUME script' = script
  PROVE  /\ NothingIsLeft => NothingIsLeft'
         /\ \A u, d, for, want : Left(u, d, for, want) => Left(u, d, for, want)'
BY DEF NothingIsLeft, Left, Holds

LEMMA SameStep ==
  ASSUME UNCHANGED <<script, screen, cursor, answers, replaced, shown, walks, answeredId>>,
         AStepIsLeft
  PROVE  AStepIsLeft'
<1>1. PICK ups, downs \in Nat, for \in Nat \ {0}, want \in STRING :
        /\ Left(ups, downs, for, want) /\ Aimed(ups, downs, for, want)
        /\ for <= shown /\ walks > 0
        /\ ToBeAnswered(for) \/ for \in replaced \/ Excused(for)
        /\ walks = 1 /\ Shown /\ screen.nth = for => answeredId = screen.menu.id
  BY DEF AStepIsLeft
<1>2. Left(ups, downs, for, want)'
  BY <1>1, SameScript
<1>3. Aimed(ups, downs, for, want)'
  BY <1>1 DEF Aimed, ToBeAnswered, TakesKeys, Shown, Rows
<1>4. (ToBeAnswered(for) \/ for \in replaced \/ Excused(for))'
  BY <1>1 DEF ToBeAnswered, TakesKeys, Shown, Excused
<1>5. (walks = 1 /\ Shown /\ screen.nth = for => answeredId = screen.menu.id)'
  BY <1>1 DEF Shown
<1> QED  BY <1>1, <1>2, <1>3, <1>4, <1>5 DEF AStepIsLeft

LEMMA KeysKeepMenus ==
  ASSUME MenusInv, KeysTick, UNCHANGED pathvars
  PROVE  MenusInv'
<1>1. GroundTyped' /\ PathTyped'
  BY KeyTyped DEF MenusInv, PathTyped, pathvars
<1>2. /\ script # <<>> /\ script' = Tail(script) /\ shown' = shown /\ replaced' = replaced
      /\ walks' = walks /\ walks \in Nat /\ walking' = walking /\ answeredId' = answeredId
  BY DEF KeysTick, KeysBusy, MenusInv, PathTyped, pathvars
<1>3. answers \subseteq answers'
  BY DEF KeysTick, MoveCursor, AnswerDialog, UseChat, Lost
<1>4. /\ \A nth : Excused(nth) => Excused(nth)'
      /\ \A a : Lands(a) => Lands(a)'
  BY <1>2, <1>3, StillExcused DEF MenusInv
<1>5. \A a \in answers : a.for # Nobody => Lands(a)
  BY AllLand DEF MenusInv
<1>6. CASE Head(script).key \in {"return", "escape"} /\ AnswerDialog(Head(script))
  <2>0. PICK a : a = [on |-> screen.nth, for |-> Head(script).for,
                     want |-> Head(script).want,
                     chose |-> IF Head(script).key = "return"
                               THEN Choosable(screen.menu)[cursor] ELSE AnyRow,
                     headed |-> screen.menu.headers]
    OBVIOUS
  <2>1. /\ answers' = answers \cup {a} /\ TakesKeys /\ Shown /\ cursor' = cursor
        /\ screen \in ADialog
        /\ \/ screen' = <<>>
           \/ /\ screen' \in ADialog /\ screen'.menu = screen.menu
              /\ screen'.nth = screen.nth /\ screen'.answered
    <3>1. screen \in ADialog /\ Shown
      BY <1>6 DEF AnswerDialog, TakesKeys, Shown, MenusInv, GroundTyped
    <3>2. \/ screen' = <<>>
          \/ /\ screen' \in ADialog /\ screen'.menu = screen.menu
             /\ screen'.nth = screen.nth /\ screen'.answered
      BY <1>6, <3>1, Answered DEF AnswerDialog, MenusInv
    <3> QED  BY <1>6, <2>0, <3>1, <3>2 DEF AnswerDialog
  <2>2. a.on = screen.nth /\ a.on # Nobody /\ a.for = Head(script).for
    BY <2>0, <2>1 DEF ADialog, Nobody
  <2>3. CASE NothingIsLeft
    <3>1. NothingIsLeft' /\ a.for = Nobody
      BY <1>2, <2>2, <2>3, NothingShrinks DEF MenusInv
    <3>2. AnsweredAndUp'
      BY <2>1, <2>2, <3>1 DEF AnsweredAndUp, Shown
    <3>3. BeforeTheFirstWalk'
      BY <1>2, <2>1, <3>1 DEF BeforeTheFirstWalk, MenusInv
    <3>4. LandsWhereRead'
      BY <1>4, <1>5, <2>1, <3>1, AllLand
    <3> QED  BY <1>1, <3>1, <3>2, <3>3, <3>4 DEF MenusInv
  <2>4. CASE ~NothingIsLeft
    <3>1. PICK ups, downs \in Nat, for \in Nat \ {0}, want \in STRING :
            /\ Left(ups, downs, for, want) /\ Aimed(ups, downs, for, want)
            /\ for <= shown /\ walks > 0
            /\ ToBeAnswered(for) \/ for \in replaced \/ Excused(for)
            /\ walks = 1 /\ Shown /\ screen.nth = for => answeredId = screen.menu.id
      BY <2>4 DEF MenusInv, AStepIsLeft
    <3>2. ups = 0 /\ downs = 0 /\ Head(script) = Stroke("return", for, want) /\ NothingIsLeft'
      <4>1. \/ ups > 0
            \/ ups = 0 /\ downs > 0
            \/ ups = 0 /\ downs = 0
        OBVIOUS
      <4> QED  BY <1>2, <1>6, <3>1, <4>1, LeftShrinks DEF Stroke, MenusInv
    <3>3. /\ a.for = for /\ a.want = want /\ a.headed = screen.menu.headers
          /\ a.chose = Choosable(screen.menu)[cursor]
      BY <2>0, <3>2 DEF Stroke
    <3>4. for = screen.nth => a.chose = a.want \/ a.headed
      <4> SUFFICES ASSUME for = screen.nth, ~screen.menu.headers
                   PROVE  a.chose = a.want
        BY <3>3
      <4>1. PICK i \in DOMAIN Rows(screen) : Rows(screen)[i] = want /\ cursor = i
        <5>1. \E i \in DOMAIN Rows(screen) : Rows(screen)[i] = want /\ cursor = i - 0
          BY <2>1, <3>1, <3>2 DEF Aimed, ToBeAnswered
        <5>2. DOMAIN Rows(screen) \subseteq Nat
          BY <2>1, MenuRows DEF Rows, ADialog
        <5> QED  BY <5>1, <5>2
      <4>2. Choosable(screen.menu) = Rows(screen)
        BY <2>1, MenuRows DEF Rows, ADialog
      <4> QED  BY <3>3, <4>1, <4>2
    <3>5. Lands(a)'
      <4>1. for # screen.nth => for \in replaced \/ Excused(for)
        BY <3>1 DEF ToBeAnswered
      <4>2. for # screen.nth => for \in replaced' \/ Excused(for)'
        BY <1>2, <1>4, <4>1
      <4>3. /\ a.on = a.for \/ a.for \in replaced' \/ Excused(a.for)'
            /\ a.on = a.for => a.chose = a.want \/ a.headed
        BY <2>2, <3>3, <3>4, <4>2
      <4> QED  BY <4>3 DEF Lands
    <3>6. LandsWhereRead'
      <4> QED  BY <1>4, <1>5, <2>1, <3>5, AllLand
    <3>7. AnsweredAndUp'
      <4> SUFFICES ASSUME Shown', screen'.answered
                   PROVE  walks' > 1 \/ a.for # a.on \/ answeredId' = screen'.menu.id
        BY <2>1, <2>2 DEF AnsweredAndUp, Shown
      <4>1. screen'.menu = screen.menu
        BY <2>1 DEF Shown
      <4>2. walks = 1 \/ walks > 1
        BY <1>2, <3>1
      <4> QED  BY <1>2, <2>1, <2>2, <3>1, <3>3, <4>1, <4>2
    <3>8. BeforeTheFirstWalk'
      BY <1>2, <3>1 DEF BeforeTheFirstWalk
    <3> QED  BY <1>1, <3>2, <3>6, <3>7, <3>8 DEF MenusInv
  <2> QED  BY <2>3, <2>4
<1>7. CASE UNCHANGED <<screen, answers>>
  <2>1. LandsWhereRead'
    BY <1>4, <1>5, <1>7, AllLand
  <2>2. AnsweredAndUp'
    BY <1>2, <1>7 DEF AnsweredAndUp, Shown, MenusInv
  <2>3. CASE NothingIsLeft
    <3>1. NothingIsLeft'
      BY <1>2, <2>3, NothingShrinks DEF MenusInv
    <3> QED  BY <1>1, <1>2, <1>7, <2>1, <2>2, <3>1 DEF MenusInv, BeforeTheFirstWalk
  <2>4. CASE ~NothingIsLeft
    <3>1. PICK ups, downs \in Nat, for \in Nat \ {0}, want \in STRING :
            /\ Left(ups, downs, for, want) /\ Aimed(ups, downs, for, want)
            /\ for <= shown /\ walks > 0
            /\ ToBeAnswered(for) \/ for \in replaced \/ Excused(for)
            /\ walks = 1 /\ Shown /\ screen.nth = for => answeredId = screen.menu.id
      BY <2>4 DEF MenusInv, AStepIsLeft
    <3>2. BeforeTheFirstWalk'
      BY <1>2, <3>1 DEF BeforeTheFirstWalk
    <3>3. ups + downs > 0 \/ (ups = 0 /\ downs = 0)
      OBVIOUS
    <3>4. NothingIsLeft' \/ AStepIsLeft'
      <4>1. CASE ups = 0 /\ downs = 0
        BY <1>2, <3>1, <4>1, LeftShrinks DEF MenusInv
      <4>2. CASE ups + downs > 0
        <5>1. PICK u, d \in Nat : Left(u, d, for, want)' /\ Aimed(u, d, for, want)'
          BY <1>7, <3>1, <4>2, ArrowKeepsStep DEF MenusInv
        <5>2. (ToBeAnswered(for) \/ for \in replaced \/ Excused(for))'
          BY <1>2, <1>4, <1>7, <3>1 DEF ToBeAnswered, TakesKeys, Shown
        <5>3. (walks = 1 /\ Shown /\ screen.nth = for => answeredId = screen.menu.id)'
          BY <1>2, <1>7, <3>1 DEF Shown
        <5> QED  BY <1>2, <3>1, <5>1, <5>2, <5>3 DEF AStepIsLeft
      <4> QED  BY <3>3, <4>1, <4>2
    <3> QED  BY <1>1, <2>1, <2>2, <3>2, <3>4 DEF MenusInv
  <2> QED  BY <2>3, <2>4
<1> QED  BY <1>6, <1>7 DEF KeysTick, MoveCursor, AnswerDialog, UseChat, Lost

\* What the client and the server do to the screen meanwhile - hide an answered
\* dialog, take one away, show another - leaves the step as it is or excuses it.
LEMMA ScreenKeepsMenus ==
  ASSUME MenusInv, GroundTyped', UNCHANGED <<script, answers, pathvars>>,
         shown <= shown', replaced' = IF TakesKeys THEN replaced \cup {screen.nth} ELSE replaced,
         ~Shown' \/ (screen'.nth > shown /\ ~screen'.answered)
  PROVE  MenusInv'
<1>1. /\ PathTyped' /\ walks' = walks /\ walks \in Nat /\ answeredId' = answeredId
      /\ replaced \subseteq replaced'
  BY DEF MenusInv, PathTyped, pathvars
<1>2. /\ \A nth : Excused(nth) => Excused(nth)'
      /\ \A a : Lands(a) => Lands(a)'
  BY <1>1, StillExcused DEF MenusInv
<1>3. LandsWhereRead'
  BY <1>2, AllLand DEF MenusInv
<1>4. AnsweredAndUp' /\ BeforeTheFirstWalk'
  BY <1>1, SameScript DEF AnsweredAndUp, BeforeTheFirstWalk, MenusInv, pathvars
<1>5. ASSUME AStepIsLeft
      PROVE  AStepIsLeft'
  <2>1. PICK ups, downs \in Nat, for \in Nat \ {0}, want \in STRING :
          /\ Left(ups, downs, for, want) /\ Aimed(ups, downs, for, want)
          /\ for <= shown /\ walks > 0
          /\ ToBeAnswered(for) \/ for \in replaced \/ Excused(for)
          /\ walks = 1 /\ Shown /\ screen.nth = for => answeredId = screen.menu.id
    BY <1>5 DEF AStepIsLeft
  <2>2. shown \in Nat /\ shown' \in Nat /\ (Shown' => screen' \in ADialog)
    BY DEF MenusInv, GroundTyped, Shown
  <2>3. Shown' => screen'.nth # for
    BY <2>1, <2>2 DEF ADialog
  <2>4. ~ToBeAnswered(for)'
    BY <2>3 DEF ToBeAnswered, TakesKeys
  <2>5. for \in replaced' \/ Excused(for)'
    BY <1>1, <1>2, <2>1 DEF ToBeAnswered
  <2>6. Left(ups, downs, for, want)' /\ for <= shown'
    BY <2>1, <2>2, SameScript
  <2>7. Aimed(ups, downs, for, want)'
    BY <2>4 DEF Aimed
  <2> QED  BY <1>1, <2>1, <2>3, <2>5, <2>6, <2>7 DEF AStepIsLeft
<1> QED  BY <1>1, <1>3, <1>4, <1>5, SameScript DEF MenusInv

LEMMA HideKeepsMenus ==
  ASSUME MenusInv, Hide, UNCHANGED pathvars
  PROVE  MenusInv'
<1>1. /\ UNCHANGED <<script, answers, pathvars, shown, replaced, cursor>>
      /\ ~TakesKeys /\ ~Shown'
  BY DEF Hide, TakesKeys, Shown
<1>2. GroundTyped' /\ shown <= shown'
  BY <1>1 DEF MenusInv, GroundTyped, Shown
<1> QED  BY <1>1, <1>2, ScreenKeepsMenus

LEMMA ServerKeepsMenus ==
  ASSUME MenusInv, Server, UNCHANGED pathvars
  PROVE  MenusInv'
<1>1. ASSUME NEW m \in Menus, Show(m)
      PROVE  MenusInv'
  <2>1. /\ shown \in Nat /\ shown' = shown + 1 /\ UNCHANGED <<script, answers>>
        /\ screen' = [menu |-> m, nth |-> shown + 1, answered |-> FALSE]
        /\ cursor' \in 1..Len(Choosable(m)) /\ TakesAway
    BY <1>1 DEF Show, MenusInv, GroundTyped
  <2>2. screen' \in ADialog
    BY <2>1 DEF ADialog
  <2>3. cursor' \in Nat \ {0} /\ cursor' <= Len(Choosable(screen'.menu))
    BY <2>1, MenuRows
  <2>4. GroundTyped'
    BY <2>1, <2>2, <2>3 DEF GroundTyped, MenusInv
  <2> QED  BY <2>1, <2>4, ScreenKeepsMenus DEF TakesAway
<1>2. CASE UNCHANGED <<screen, cursor, chatOpen, script, shown, answers, replaced, said>>
  <2>1. GroundTyped' /\ PathTyped' /\ LandsWhereRead' /\ AnsweredAndUp' /\ BeforeTheFirstWalk'
    BY <1>2, SameScript DEF MenusInv, GroundTyped, PathTyped, LandsWhereRead, ByThePath,
       AnsweredAndUp, BeforeTheFirstWalk, Shown, pathvars
  <2>2. AStepIsLeft => AStepIsLeft'
    BY <1>2, SameStep DEF pathvars
  <2> QED  BY <1>2, <2>1, <2>2, SameScript DEF MenusInv
<1>3. CASE /\ Shown /\ screen' = <<>> /\ TakesAway
           /\ UNCHANGED <<cursor, chatOpen, script, shown, answers, said>>
  <2>1. GroundTyped' /\ shown <= shown' /\ ~Shown'
    BY <1>3 DEF MenusInv, GroundTyped, Shown
  <2> QED  BY <1>3, <2>1, ScreenKeepsMenus DEF TakesAway
<1> QED  BY <1>1, <1>2, <1>3 DEF Server, React, Unasked

-----------------------------------------------------------------------------

\* A key pressed so many times.
LEMMA PressIs ==
  ASSUME NEW key \in Presses, NEW n \in Nat, NEW for \in Nat, NEW want \in Words
  PROVE  /\ Press(key, n, for, want) \in Seq(AKey) /\ Len(Press(key, n, for, want)) = n
         /\ \A i \in 1..n : Press(key, n, for, want)[i] = Stroke(key, for, want)
<1> DEFINE p == Press(key, n, for, want)
<1>1. Stroke(key, for, want) \in AKey
  BY DEF Stroke, AKey
<1>2. /\ p \in [1..n -> AKey] /\ DOMAIN p = 1..n
      /\ \A i \in 1..n : p[i] = Stroke(key, for, want)
  BY <1>1 DEF Press, Stroke
<1> HIDE DEF p
<1>3. p \in Seq(AKey)
  BY <1>2, SeqDef
<1>4. Len(p) = n
  BY <1>2, <1>3, LenProperties
<1> QED  BY <1>2, <1>3, <1>4 DEF p

\* A line of chat goes before the walk's own keystrokes and is nobody's.
LEMMA ChatLineIsNobodys ==
  /\ ChatLine \in Seq(AKey)
  /\ \A i \in DOMAIN ChatLine : ChatLine[i].for = Nobody
<1> DEFINE p(key) == Press(key, 1, Nobody, AnyRow)
<1>1. ASSUME NEW key \in Presses
      PROVE  p(key) \in Seq(AKey) /\ Len(p(key)) = 1 /\ p(key)[1].for = Nobody
  <2>1. Nobody \in Nat /\ 1 \in Nat /\ 1 \in 1..1
    BY DEF Nobody
  <2>2. AnyRow \in Words
    BY DEF Words
  <2>3. /\ p(key) \in Seq(AKey) /\ Len(p(key)) = 1
        /\ \A i \in 1..1 : p(key)[i] = Stroke(key, Nobody, AnyRow)
    BY <1>1, <2>1, <2>2, PressIs, Zenon
  <2> HIDE DEF p
  <2> QED  BY <2>1, <2>3 DEF Stroke
<1> DEFINE t == p("T")  x == p("text")  r == p("return")
<1>2. /\ t \in Seq(AKey) /\ Len(t) = 1 /\ t[1].for = Nobody
      /\ x \in Seq(AKey) /\ Len(x) = 1 /\ x[1].for = Nobody
      /\ r \in Seq(AKey) /\ Len(r) = 1 /\ r[1].for = Nobody
  <2>1. "T" \in Presses /\ "text" \in Presses /\ "return" \in Presses
    BY DEF Presses
  <2> HIDE DEF p
  <2> QED  BY <1>1, <2>1
<1>3. ChatLine = (t \o x) \o r
  BY DEF ChatLine
<1> HIDE DEF t, x, r
<1>4. /\ t \o x \in Seq(AKey) /\ Len(t \o x) = 2
      /\ (t \o x)[1] = t[1] /\ (t \o x)[2] = x[1]
  BY <1>2, ConcatProperties
<1>5. /\ ChatLine \in Seq(AKey) /\ DOMAIN ChatLine = 1..3
      /\ ChatLine[1] = t[1] /\ ChatLine[2] = x[1] /\ ChatLine[3] = r[1]
  BY <1>2, <1>3, <1>4, ConcatProperties, LenProperties
<1> QED  BY <1>2, <1>5

LEMMA AppendedLeft ==
  ASSUME GroundTyped, NEW line \in Seq(AKey), script' = script \o line,
         \A i \in DOMAIN line : line[i].for = Nobody
  PROVE  /\ script' \in Seq(AKey)
         /\ NothingIsLeft => NothingIsLeft'
         /\ \A u, d \in Nat : \A for, want : Left(u, d, for, want) => Left(u, d, for, want)'
<1>1. /\ script \in Seq(AKey) /\ Len(script) \in Nat /\ Len(line) \in Nat
      /\ script' \in Seq(AKey) /\ Len(script') = Len(script) + Len(line)
      /\ DOMAIN script = 1..Len(script) /\ DOMAIN script' = 1..Len(script')
      /\ DOMAIN line = 1..Len(line)
      /\ \A i \in 1..Len(script) : script'[i] = script[i]
      /\ \A i \in 1..Len(script') : i > Len(script) => script'[i] = line[i - Len(script)]
  BY DEF GroundTyped
<1>2. \A i \in 1..Len(script') : i > Len(script) => script'[i].for = Nobody
  <2> TAKE i \in 1..Len(script')
  <2> HAVE i > Len(script)
  <2>1. i - Len(script) \in DOMAIN line
    BY <1>1
  <2> QED  BY <1>1, <2>1
<1>3. NothingIsLeft => NothingIsLeft'
  BY <1>1, <1>2 DEF NothingIsLeft
<1>4. ASSUME NEW u \in Nat, NEW d \in Nat, NEW for, NEW want, Left(u, d, for, want)
      PROVE  Left(u, d, for, want)'
  <2>1. u + d < Len(script')
    BY <1>1, <1>4 DEF Left, Holds
  <2>2. \A i \in 1..(u + d + 1) : script'[i] = script[i]
    BY <1>1, <1>4 DEF Left, Holds
  <2>3. \A i \in 1..u : script'[i] = Stroke("up", for, want)
    BY <1>4, <2>2 DEF Left, Holds
  <2>4. \A i \in (u + 1)..(u + d) : script'[i] = Stroke("down", for, want)
    BY <1>4, <2>2 DEF Left, Holds
  <2>5. script'[u + d + 1] = Stroke("return", for, want)
    BY <1>4, <2>2 DEF Left, Holds
  <2>6. \A i \in (u + d + 2)..Len(script') : script'[i].for = Nobody
    BY <1>1, <1>2, <1>4 DEF Left, Holds
  <2> QED  BY <2>1, <2>3, <2>4, <2>5, <2>6 DEF Left, Holds
<1> QED  BY <1>1, <1>3, <1>4

LEMMA FollowKeepsMenus ==
  ASSUME MenusInv, NEW steps \in Paths, NEW openWith \in BOOLEAN, FollowDialog(steps, openWith)
  PROVE  MenusInv'
<1>1. /\ UNCHANGED <<screen, cursor, shown, answers, replaced>> /\ answeredId' = -1
      /\ path' = steps /\ pathAt' = 0 /\ walks' = walks + 1 /\ walks \in Nat
  BY DEF FollowDialog, ground, MenusInv, PathTyped
<1>2. /\ script' \in Seq(AKey)
      /\ NothingIsLeft => NothingIsLeft'
      /\ \A u, d \in Nat : \A for, want : Left(u, d, for, want) => Left(u, d, for, want)'
  <2>1. CASE script' = script
    BY <2>1, SameScript DEF MenusInv, GroundTyped
  <2>2. CASE script' = script \o ChatLine
    BY <2>2, ChatLineIsNobodys, AppendedLeft DEF MenusInv
  <2> QED  BY <2>1, <2>2 DEF FollowDialog
<1>3. GroundTyped' /\ PathTyped'
  <2>1. steps \in Seq(STRING) /\ steps # <<>>
    BY DialogPathAssumption DEF DialogPathAssumption
  <2> QED  BY <1>1, <1>2, <2>1 DEF MenusInv, GroundTyped, PathTyped, Shown
<1>4. /\ \A nth : Excused(nth) => Excused(nth)'
      /\ \A a : Lands(a) => Lands(a)'
  BY <1>1, StillExcused DEF MenusInv
<1>5. LandsWhereRead'
  BY <1>1, <1>4, AllLand DEF MenusInv
<1>6. BeforeTheFirstWalk'
  BY <1>1 DEF BeforeTheFirstWalk
<1>7. AnsweredAndUp'
  <2> SUFFICES ASSUME Shown, screen.answered
               PROVE  \E b \in answers : b.on = screen.nth /\ (walks' > 1 \/ b.for # b.on)
    BY <1>1 DEF AnsweredAndUp, Shown
  <2>1. PICK b \in answers : b.on = screen.nth
    BY DEF MenusInv, AnsweredAndUp
  <2>2. screen.nth # Nobody
    BY DEF MenusInv, GroundTyped, Shown, ADialog, Nobody
  <2>3. walks = 0 \/ walks' > 1
    BY <1>1
  <2> QED  BY <2>1, <2>2, <2>3 DEF MenusInv, BeforeTheFirstWalk
<1>8. AStepIsLeft => AStepIsLeft'
  <2> HAVE AStepIsLeft
  <2>1. PICK ups, downs \in Nat, for \in Nat \ {0}, want \in STRING :
          /\ Left(ups, downs, for, want) /\ Aimed(ups, downs, for, want)
          /\ for <= shown /\ walks > 0
          /\ ToBeAnswered(for) \/ for \in replaced \/ Excused(for)
    BY DEF AStepIsLeft
  <2>2. walks' > 1
    BY <1>1, <2>1
  <2>3. Left(ups, downs, for, want)' /\ Aimed(ups, downs, for, want)'
    BY <1>1, <1>2, <2>1 DEF Aimed, ToBeAnswered, TakesKeys, Shown, Rows
  <2>4. (ToBeAnswered(for) \/ for \in replaced \/ Excused(for))'
    BY <1>1, <1>4, <2>1 DEF ToBeAnswered, TakesKeys, Shown
  <2> QED  BY <1>1, <2>1, <2>2, <2>3, <2>4 DEF AStepIsLeft
<1> QED  BY <1>2, <1>3, <1>5, <1>6, <1>7, <1>8 DEF MenusInv

\* One sequence after another.
LEMMA Joined ==
  ASSUME NEW S, NEW s \in Seq(S), NEW t \in Seq(S), NEW j, j = s \o t,
         NEW n \in Nat, n = Len(s), NEW k \in Nat, k = Len(t)
  PROVE  /\ j \in Seq(S) /\ Len(j) = n + k
         /\ \A i \in 1..n : j[i] = s[i]
         /\ \A i \in 1..k : j[n + i] = t[i]
<1>1. j \in Seq(S) /\ Len(j) = n + k
  OBVIOUS
<1>2. \A i \in 1..n : j[i] = s[i]
  OBVIOUS
<1>3. \A i \in 1..k : j[n + i] = t[i]
  <2> TAKE i \in 1..k
  <2>1. n + i \in 1..(Len(s) + Len(t)) /\ ~(n + i <= Len(s)) /\ (n + i) - Len(s) = i
    OBVIOUS
  <2> QED  BY <2>1, ConcatProperties
<1> QED  BY <1>1, <1>2, <1>3

\* Keystrokes up, keystrokes down and Enter hold a step.
LEMMA PartsHold ==
  ASSUME NEW n \in Nat, NEW k \in Nat, NEW for, NEW want,
         NEW u \in Seq(AKey), NEW d \in Seq(AKey), NEW r \in Seq(AKey),
         n = Len(u), k = Len(d), Len(r) = 1,
         \A i \in 1..n : u[i] = Stroke("up", for, want),
         \A i \in 1..k : d[i] = Stroke("down", for, want),
         r[1] = Stroke("return", for, want)
  PROVE  (u \o d) \o r \in Seq(AKey) /\ Holds((u \o d) \o r, n, k, for, want)
<1>1. PICK ud : ud = u \o d
  OBVIOUS
<1>2. /\ ud \in Seq(AKey) /\ Len(ud) = n + k
      /\ \A i \in 1..n : ud[i] = u[i]
      /\ \A i \in 1..k : ud[n + i] = d[i]
  BY <1>1, Joined
<1>3. \A i \in 1..n : ud[i] = Stroke("up", for, want)
  BY <1>2
<1>4. \A i \in (n + 1)..(n + k) : ud[i] = Stroke("down", for, want)
  <2> TAKE i \in (n + 1)..(n + k)
  <2>1. i - n \in 1..k /\ n + (i - n) = i
    OBVIOUS
  <2> QED  BY <1>2, <2>1
<1>5. PICK m \in Nat : m = n + k
  OBVIOUS
<1>6. PICK j : j = ud \o r
  OBVIOUS
<1>7. ud \in Seq(AKey) /\ m = Len(ud)
  BY <1>2, <1>5
<1>8. j \in Seq(AKey) /\ Len(j) = m + 1 /\ \A i \in 1..m : j[i] = ud[i]
  <2>1. j \in Seq(AKey)
    BY <1>6, <1>7
  <2>2. Len(j) = m + 1
    <3>1. Len(ud \o r) = Len(ud) + Len(r)
      BY <1>7, ConcatProperties, Zenon
    <3> QED  BY <1>6, <1>7, <3>1
  <2>3. \A i \in 1..m : j[i] = ud[i]
    <3> TAKE i \in 1..m
    <3>1. i \in 1..(Len(ud) + Len(r)) /\ i <= Len(ud)
      BY <1>7
    <3> QED  BY <1>6, <1>7, <3>1, ConcatProperties
  <2> QED  BY <2>1, <2>2, <2>3
<1>9. j[m + 1] = r[1]
  <2>1. PICK i \in Nat : i = m + 1
    OBVIOUS
  <2>2. i \in 1..(Len(ud) + Len(r)) /\ ~(i <= Len(ud)) /\ i - Len(ud) = 1
    BY <1>7, <2>1
  <2>3. (ud \o r)[i] = IF i <= Len(ud) THEN ud[i] ELSE r[i - Len(ud)]
    BY <1>7, <2>2, ConcatProperties
  <2>4. (ud \o r)[i] = r[1]
    BY <2>2, <2>3, Zenon
  <2> QED  BY <1>6, <2>1, <2>4
<1>10. \A i \in 1..n : j[i] = Stroke("up", for, want)
  <2>1. \A i \in 1..n : i \in 1..m
    BY <1>5
  <2> QED  BY <1>3, <1>8, <2>1
<1>11. \A i \in (n + 1)..(n + k) : j[i] = Stroke("down", for, want)
  BY <1>4, <1>5, <1>8
<1>12. /\ j[n + k + 1] = Stroke("return", for, want)
       /\ n + k < Len(j) /\ (n + k + 2)..Len(j) = {}
  BY <1>5, <1>8, <1>9
<1>13. Holds(j, n, k, for, want)
  BY <1>10, <1>11, <1>12 DEF Holds
<1> QED  BY <1>1, <1>6, <1>8, <1>13

\* What a step queues: to the top, down to the row, and Enter.
LEMMA ChosenIsLeft ==
  ASSUME NEW rows, NEW n \in Nat, n = Len(rows),
         NEW row \in Nat, NEW for \in Nat, NEW want \in STRING,
         script' = GoToRow(rows, row, for, want) \o Press("return", 1, for, want)
  PROVE  script' \in Seq(AKey) /\ Left(n, row, for, want)'
<1>1. /\ "up" \in Presses /\ "down" \in Presses /\ "return" \in Presses
      /\ want \in Words /\ 1 \in Nat /\ 1 \in 1..1
  BY DEF Presses, Arrows, Words
<1> DEFINE p(key, times) == Press(key, times, for, want)
           u == p("up", n)
           d == p("down", row)
           r == p("return", 1)
<1>2. \A key \in Presses : \A times \in Nat :
        /\ p(key, times) \in Seq(AKey) /\ Len(p(key, times)) = times
        /\ \A i \in 1..times : p(key, times)[i] = Stroke(key, for, want)
  BY <1>1, PressIs
<1>3. script' = (u \o d) \o r
  BY DEF GoToRow
<1> HIDE DEF p
<1>4. /\ u \in Seq(AKey) /\ n = Len(u)
      /\ \A i \in 1..n : u[i] = Stroke("up", for, want)
      /\ d \in Seq(AKey) /\ row = Len(d)
      /\ \A i \in 1..row : d[i] = Stroke("down", for, want)
      /\ r \in Seq(AKey) /\ Len(r) = 1 /\ r[1] = Stroke("return", for, want)
  BY <1>1, <1>2
<1> HIDE DEF u, d, r
<1>5. (u \o d) \o r \in Seq(AKey) /\ Holds((u \o d) \o r, n, row, for, want)
  BY <1>4, PartsHold, SMTT(60)
<1> QED  BY <1>3, <1>5 DEF Left

\* The row the reading gives says what was asked for.
LEMMA RowSays ==
  ASSUME NEW rows, DOMAIN rows = 1..Len(rows), Len(rows) \in Nat, NEW want,
         RowSaying(rows, want) >= 0
  PROVE  /\ RowSaying(rows, want) \in Nat /\ RowSaying(rows, want) + 1 \in DOMAIN rows
         /\ rows[RowSaying(rows, want) + 1] = want
<1> DEFINE found == Saying(rows, want)
<1>1. found \subseteq DOMAIN rows /\ \A i \in found : rows[i] = want
  BY DEF Saying
<1>2. RowSaying(rows, want) = IF found = {} THEN -1
                              ELSE IF Cardinality(found) > 1 THEN -2
                              ELSE (CHOOSE i \in found : TRUE) - 1
  BY DEF RowSaying, NotThere, Ambiguous
<1> HIDE DEF found
<1>3. found # {} /\ RowSaying(rows, want) = (CHOOSE i \in found : TRUE) - 1
  BY <1>2
<1>4. (CHOOSE i \in found : TRUE) \in found
  BY <1>3
<1> QED  BY <1>1, <1>3, <1>4

LEMMA StepKeepsMenus ==
  ASSUME MenusInv, ~Waiting, ~Stale, walking, UNCHANGED ground, NEW row, NEW want,
         want = path[pathAt + 1], row = RowSaying(Rows(screen), want), AnswerStep(row, want)
  PROVE  MenusInv'
<1>1. /\ Shown /\ screen \in ADialog /\ script = <<>> /\ answeredId # screen.menu.id
      /\ want \in STRING /\ shown \in Nat /\ screen.nth <= shown /\ cursor \in Nat \ {0}
      /\ cursor <= Len(Choosable(screen.menu))
  BY DEF Waiting, KeysBusy, Stale, MenusInv, GroundTyped, PathTyped, Shown
<1>3. /\ Rows(screen) \in Seq(STRING) /\ Len(Rows(screen)) \in Nat /\ Len(Rows(screen)) > 0
      /\ DOMAIN Rows(screen) = 1..Len(Rows(screen))
      /\ ~screen.menu.headers => Choosable(screen.menu) = Rows(screen)
  BY <1>1, MenuRows DEF Rows, ADialog
<1>4. /\ row \in Nat /\ row + 1 \in DOMAIN Rows(screen) /\ Rows(screen)[row + 1] = want
  BY <1>3, RowSays DEF AnswerStep
<1>2. /\ UNCHANGED <<screen, cursor, shown, answers, replaced, walks>>
      /\ answeredId' = screen.menu.id /\ walks \in Nat /\ walks > 0
      /\ script' = Choose(row, want)
  <2>1. walks # 0
    BY DEF MenusInv, BeforeTheFirstWalk
  <2>2. script' = Choose(row, want)
    <3>1. script' = script \o Choose(row, want) /\ script = <<>>
      BY <1>1 DEF AnswerStep
    <3>2. ASSUME NEW key \in Presses, NEW n \in Nat
          PROVE  Press(key, n, screen.nth, want) \in Seq(AKey)
      BY <1>1, PressIs DEF ADialog, Words
    <3>3. Len(Rows(screen)) \in Nat /\ row \in Nat
      BY <1>3, <1>4
    <3>4. Choose(row, want) \in Seq(AKey)
      <4>1. /\ Press("up", Len(Rows(screen)), screen.nth, want) \in Seq(AKey)
            /\ Press("down", row, screen.nth, want) \in Seq(AKey)
            /\ Press("return", 1, screen.nth, want) \in Seq(AKey)
        BY <3>2, <3>3 DEF Presses, Arrows
      <4>2. /\ Press("up", Len(Rows(screen)), screen.nth, want)
                 \o Press("down", row, screen.nth, want) \in Seq(AKey)
        BY <4>1
      <4> QED  BY <4>1, <4>2 DEF Choose, GoToRow
    <3> QED  BY <3>1, <3>4
  <2>3. walks \in Nat /\ walks > 0
    BY <2>1 DEF MenusInv, PathTyped
  <2>4. walks' = walks /\ answeredId' = screen.menu.id
    BY DEF AnswerStep, Finish
  <2> QED  BY <2>2, <2>3, <2>4 DEF ground
<1>5. screen.nth \in Nat \ {0}
  BY <1>1 DEF ADialog
<1>6. script' \in Seq(AKey) /\ Left(Len(Rows(screen)), row, screen.nth, want)'
  BY <1>1, <1>2, <1>3, <1>4, <1>5, ChosenIsLeft DEF Choose, MenusInv
<1>7. Aimed(Len(Rows(screen)), row, screen.nth, want)'
  <2> SUFFICES ASSUME ~screen.menu.headers
               PROVE  \E i \in DOMAIN Rows(screen) :
                        /\ Rows(screen)[i] = want /\ row < i
                        /\ row = i - 1 /\ cursor <= Len(Rows(screen))
    BY <1>2, <1>3 DEF Aimed, Rows
  <2>1. row < row + 1 /\ row = (row + 1) - 1
    BY <1>4
  <2>2. cursor <= Len(Rows(screen))
    BY <1>1, <1>3
  <2> QED  BY <1>4, <2>1, <2>2
<1>8. (ToBeAnswered(screen.nth) \/ Excused(screen.nth))'
  <2>1. CASE screen.answered
    BY <1>1, <1>2, <2>1 DEF MenusInv, AnsweredAndUp, Excused
  <2>2. CASE ~screen.answered
    BY <1>1, <1>2, <2>2 DEF ToBeAnswered, TakesKeys, Shown
  <2> QED  BY <2>1, <2>2
<1>9. AStepIsLeft'
  BY <1>1, <1>2, <1>3, <1>4, <1>5, <1>6, <1>7, <1>8 DEF AStepIsLeft
<1>10. LandsWhereRead' /\ BeforeTheFirstWalk' /\ AnsweredAndUp'
  <2>1. LandsWhereRead'
    BY <1>2, StillExcused, AllLand DEF MenusInv
  <2>2. AnsweredAndUp'
    BY <1>2 DEF MenusInv, AnsweredAndUp, Shown
  <2> QED  BY <1>2, <2>1, <2>2 DEF BeforeTheFirstWalk
<1>11. GroundTyped'
  BY <1>2, <1>6 DEF MenusInv, GroundTyped, Shown
<1>12. PathTyped'
  <2>1. CASE AllDone(pathAt + 1)
    <3>1. path' = <<>> /\ ~walking' /\ pathAt' = pathAt + 1
      BY <2>1 DEF AnswerStep, Finish
    <3> QED  BY <1>2, <3>1 DEF MenusInv, PathTyped
  <2>2. CASE ~AllDone(pathAt + 1)
    BY <1>2, <2>2 DEF MenusInv, PathTyped, AnswerStep, AllDone
  <2> QED  BY <2>1, <2>2
<1> QED  BY <1>9, <1>10, <1>11, <1>12 DEF MenusInv

\* A step that leaves the screen, the keystrokes and the answers as they are.
LEMMA RestKeepsMenus ==
  ASSUME MenusInv, UNCHANGED <<ground, script, walks, answeredId>>,
         path' \in Seq(STRING), pathAt' \in Nat, walking' => walking /\ pathAt' < Len(path')
  PROVE  MenusInv'
<1>1. GroundTyped' /\ PathTyped' /\ LandsWhereRead' /\ AnsweredAndUp'
  BY DEF MenusInv, GroundTyped, PathTyped, LandsWhereRead, ByThePath, AnsweredAndUp, Shown, ground
<1>2. AStepIsLeft => AStepIsLeft'
  BY SameStep DEF ground
<1> QED  BY <1>1, <1>2, SameScript DEF MenusInv, BeforeTheFirstWalk, ground

LEMMA TickKeepsMenus ==
  ASSUME MenusInv, DialogPathTick
  PROVE  MenusInv'
<1>1. ASSUME NEW why, Finish(why), UNCHANGED <<script, pathAt, answeredId, since>>
      PROVE  MenusInv'
  <2>1. UNCHANGED ground /\ UNCHANGED <<script, walks, answeredId>> /\ ~walking'
    BY <1>1 DEF DialogPathTick, Finish
  <2>2. path' \in Seq(STRING) /\ pathAt' \in Nat
    BY <1>1 DEF Finish, MenusInv, PathTyped
  <2> QED  BY <2>1, <2>2, RestKeepsMenus
<1>2. CASE GiveUp \/ \E row : NoRow(row)
  BY <1>1, <1>2 DEF GiveUp, NoRow
<1>3. CASE /\ ~Stale
           /\ AnswerStep(RowSaying(Rows(screen), path[pathAt + 1]), path[pathAt + 1])
  BY <1>3, StepKeepsMenus DEF DialogPathTick
<1> QED  BY <1>1, <1>2, <1>3 DEF DialogPathTick

\* The Enter of a step answers the very dialog the step was read from and
\* chooses the row the step names, or the server or somebody else spoilt it
\* (dialog_path.cpp:67-113), for every menu, every path and every number of walks.
THEOREM EveryStepLandsWhereRead == SeenSpec => []LandsWhereRead
<1>1. SeenInit => MenusInv
  <2> SUFFICES ASSUME Init
               PROVE  MenusInv
    BY DEF SeenInit
  <2>1. GroundTyped /\ PathTyped
    BY DEF Init, DialogsInit, GroundTyped, PathTyped, Shown
  <2> QED  BY <2>1 DEF Init, DialogsInit, MenusInv, NothingIsLeft, AnsweredAndUp,
             BeforeTheFirstWalk, LandsWhereRead, ByThePath, Shown
<1>2. MenusInv /\ [SeenNext]_everything => MenusInv'
  <2> SUFFICES ASSUME MenusInv, [SeenNext]_everything
               PROVE  MenusInv'
    OBVIOUS
  <2>1. CASE UNCHANGED vars
    <3>1. UNCHANGED <<ground, script, walks, answeredId, path, pathAt, walking>>
      BY <2>1 DEF vars, dialogs, ground, pathvars
    <3> QED  BY <3>1, RestKeepsMenus DEF MenusInv, PathTyped
  <2>2. CASE Next
    <3>1. ASSUME NEW steps \in Paths, NEW openWith \in BOOLEAN, FollowDialog(steps, openWith)
          PROVE  MenusInv'
      BY <3>1, FollowKeepsMenus
    <3>2. CASE DialogPathTick
      BY <3>2, TickKeepsMenus
    <3>3. CASE Clock
      <4>1. UNCHANGED <<ground, script, walks, answeredId, path, pathAt, walking>>
        BY <3>3 DEF Clock, dialogs, ground
      <4> QED  BY <4>1, RestKeepsMenus DEF MenusInv, PathTyped
    <3>4. CASE KeysTick /\ UNCHANGED pathvars
      BY <3>4, KeysKeepMenus
    <3>5. CASE Hide /\ UNCHANGED pathvars
      BY <3>5, HideKeepsMenus
    <3>6. CASE Server /\ UNCHANGED pathvars
      BY <3>6, ServerKeepsMenus
    <3> QED  BY <2>2, <3>1, <3>2, <3>3, <3>4, <3>5, <3>6 DEF Next, Client
  <2> QED  BY <2>1, <2>2 DEF SeenNext, everything
<1>3. MenusInv => LandsWhereRead
  BY DEF MenusInv
<1> QED  BY <1>1, <1>2, <1>3, PTL DEF SeenSpec, everything

===============================================================================
