---------------------------------- MODULE Trail ----------------------------------
(***************************************************************************)
(* What he knows because he has walked it (nav/trail.cpp): squares he has  *)
(* stood in, the steps between them, the file they are kept in, and a way  *)
(* over them.  A square is <<x, storey>>; how far apart two are is given.  *)
(* The file is written over in one go, now and again while he walks and on *)
(* the way out; the game may go down at any moment, and in the middle of a *)
(* write it leaves the file cut off anywhere - after a line, between two   *)
(* numbers of one or inside a number.                                      *)
(***************************************************************************)
EXTENDS Integers, Sequences, FiniteSets, SequencesExt, FiniteSetsExt

CONSTANTS
  Squares,
  Questions,      \* bound of the model: the pairs a way is asked between
  Far(_, _),      \* metres between two squares, and from one storey to the next
  CutStep(_),     \* what a step's last number may read as when the file ends in it
  CutSquare(_),   \* and a line's first three
  kStepAtMost,
  kNearEnough,
  kMaxVisited,
  kSaveEvery,     \* steps of his between two saves
  MaxSteps,       \* bound of the model: steps he takes in one sitting
  MaxStepsTorn,   \* bound of the model: and in one over a file that was cut off
  MaxLives        \* bound of the model: times the module is started

NoSquare == <<>>
Empty == <<>>   \* the function on nothing

VARIABLES
  up,         \* the module runs: "yes", "leaving" once it has saved, "no"
  map,        \* g_map: square -> squares he has stepped to from it
  last,       \* g_last, NoSquare without g_had_last
  loaded, dirty,
  sinceSave,  \* since g_saved_ms
  file,       \* lines of bot.trail: square -> squares; nothing before the first
  route,      \* what the last question was answered with, until something else happens
  asked,      \* [from, to]
  steps, lives,
  stepped,    \* history: the steps taken, in pairs; what the game went down with is forgotten
  torn        \* history: the file was cut off once

vars == <<up, map, last, loaded, dirty, sinceSave, file, route, asked, steps, lives,
          stepped, torn>>
memory == <<map, last, loaded, dirty, sinceSave>>
history == <<stepped, torn>>

Init ==
  /\ up = "yes" /\ map = Empty /\ last = NoSquare
  /\ loaded = FALSE /\ dirty = FALSE /\ sinceSave = kSaveEvery /\ file = Empty
  /\ route = <<>> /\ asked = <<>> /\ steps = 0 /\ lives = 1
  /\ stepped = {} /\ torn = FALSE

(***************************************************************************)
(* Learning.                                                               *)
(***************************************************************************)
\* The file is read once, before the first visit or question.
Known == IF loaded THEN map ELSE file

Join(m, a, b) == [m EXCEPT ![a] = @ \cup {b}]

\* Written over in one go, if the file opens.
Save(m, isDirty) ==
  \/ isDirty /\ file' = m /\ dirty' = FALSE /\ sinceSave' = 0
  \/ file' = file /\ dirty' = isDirty /\ sinceSave' = Min({sinceSave + 1, kSaveEvery})

\* Mutated form: as it would be if wherever he turns up were a step away.
IsAStepAnyhow(key) == last # NoSquare /\ last # key

\* A step, not a teleport.
IsAStep(key) == last # NoSquare /\ last # key /\ Far(last, key) <= kStepAtMost

\* A frame on his feet: the square he stands in, joined with the last when the
\* two are a step apart; a full map takes nothing in, not even where he is.
Visited(m, key) ==
  LET with == [s \in DOMAIN m \cup {key} |-> IF s \in DOMAIN m THEN m[s] ELSE {}]
      joined == IF IsAStep(key) THEN Join(Join(with, last, key), key, last) ELSE with
  IN  IF Cardinality(DOMAIN m) >= kMaxVisited
      THEN map' = m /\ UNCHANGED <<last, dirty, sinceSave, file>>
      ELSE /\ map' = joined /\ last' = key
           /\ IF sinceSave >= kSaveEvery THEN Save(joined, dirty \/ IsAStep(key))
              ELSE /\ dirty' = (dirty \/ IsAStep(key)) /\ file' = file
                   /\ sinceSave' = sinceSave + 1

\* He walks to a square beside him, or a server puts him down anywhere.
Step ==
  /\ up # "no" /\ steps < (IF torn THEN MaxStepsTorn ELSE MaxSteps)
  /\ steps' = steps + 1 /\ loaded' = TRUE
  /\ \E key \in Squares :
       /\ Visited(Known, key)
       /\ stepped' = stepped \cup
            {pair \in {<<last, key>>, <<key, last>>} :
               last # NoSquare /\ last # key /\ Far(last, key) <= kStepAtMost}
  /\ route' = <<>> /\ asked' = <<>>
  /\ UNCHANGED <<up, lives, torn>>

(***************************************************************************)
(* A way over what he has walked.                                          *)
(***************************************************************************)
Closest(m, to) ==
  LET storey == {s \in DOMAIN m : s[2] = to[2]}
  IN  {s \in storey : /\ Far(s, to) <= kNearEnough
                      /\ \A o \in storey : Far(s, to) <= Far(o, to)}

\* A* from one to the other, a look at a time: the cheapest estimate first, and
\* a square put back whenever a cheaper way to it turns up.
Look(m, goal, s) ==
  LET here == CHOOSE o \in s.open : \A p \in s.open : o[1] <= p[1]
      known == here[2] \in DOMAIN m
      dear(n) == s.cost[here[2]] + Far(here[2], n)
      better == {n \in (IF known THEN m[here[2]] ELSE {}) :
                   n \in DOMAIN s.cost => dear(n) < s.cost[n]}
  IN  IF s.open = {} \/ s.arrived THEN s
      ELSE IF here[2] = goal THEN [s EXCEPT !.arrived = TRUE]
      ELSE [s EXCEPT
              !.open = (@ \ {here}) \cup {<<dear(n) + Far(n, goal), n>> : n \in better},
              !.cost = [n \in DOMAIN @ \cup better |-> IF n \in better THEN dear(n) ELSE @[n]],
              !.came = [n \in DOMAIN @ \cup better |-> IF n \in better THEN here[2] ELSE @[n]]]

\* A look for each step on record (the code stops at 200000) and one for the
\* start; then back from square to square he was come to from.
Way(m, start, goal) ==
  LET Over(s) == CHOOSE r \in {Look(m, goal, v) : v \in {s}} : TRUE
      n == 1 + Cardinality(UNION {{s} \X m[s] : s \in DOMAIN m})
      s == FoldLeft(LAMBDA v, i : Over(v),
                    [open |-> {<<Far(start, goal), start>>}, cost |-> [s \in {start} |-> 0],
                     came |-> Empty, arrived |-> FALSE],
                    [i \in 1..n |-> i])
  IN  IF ~s.arrived THEN <<>>
      ELSE FoldLeft(LAMBDA w, i : IF w[1] = start THEN w ELSE <<s.came[w[1]]>> \o w,
                    <<goal>>, [i \in 1..Cardinality(DOMAIN s.came) |-> i])

Route ==
  /\ up # "no" /\ loaded' = TRUE /\ map' = Known
  /\ \E q \in Questions :
       /\ asked' = q
       /\ IF Closest(Known, q[1]) = {} \/ Closest(Known, q[2]) = {} THEN route' = <<>>
          ELSE \E start \in Closest(Known, q[1]), goal \in Closest(Known, q[2]) :
                 route' = Way(Known, start, goal)
  /\ UNCHANGED <<up, last, dirty, sinceSave, file, steps, lives, history>>

(***************************************************************************)
(* The end of it, and the next time.                                       *)
(***************************************************************************)
\* The way out saves what is not saved yet; he may walk on until the game is
\* closed (dllmain.cpp Main saves before it stops what walks him).
Leave ==
  /\ up = "yes" /\ up' = "leaving"
  /\ \/ dirty /\ file' = map /\ dirty' = FALSE /\ sinceSave' = 0
     \/ UNCHANGED <<file, dirty, sinceSave>>   \* nothing to save, or the file does not open
  /\ route' = <<>> /\ asked' = <<>>
  /\ UNCHANGED <<map, last, loaded, steps, lives, stepped, torn>>

\* The game goes down, left or not.
Down ==
  /\ up # "no" /\ up' = "no" /\ route' = <<>> /\ asked' = <<>>
  /\ UNCHANGED <<memory, file, steps, lives, history>>

\* It goes down in the middle of a save: some lines are whole, and of one there
\* may be a part - some of the steps from it and one more whose last number is
\* cut short, or the square itself cut short.
TornSave ==
  /\ up # "no" /\ dirty /\ up' = "no" /\ torn' = TRUE
  /\ \E lines \in SUBSET DOMAIN map :
       LET WholeAnd(s, to) == [l \in lines \cup {s} |-> IF l \in lines THEN map[l] ELSE to]
       IN  \/ file' = [l \in lines |-> map[l]]
           \/ \E s \in DOMAIN map \ lines :
                \/ \E some \in SUBSET map[s] : file' = WholeAnd(s, some)
                \/ \E some \in SUBSET map[s], t \in map[s] : \E cut \in CutStep(t) :
                     file' = WholeAnd(s, some \cup {cut})
                \/ \E cut \in CutSquare(s) : file' = WholeAnd(cut, {})
  /\ route' = <<>> /\ asked' = <<>>
  /\ UNCHANGED <<memory, steps, lives, stepped>>

Restart ==
  /\ up = "no" /\ lives < MaxLives /\ lives' = lives + 1 /\ up' = "yes"
  /\ map' = Empty /\ last' = NoSquare /\ loaded' = FALSE /\ dirty' = FALSE
  /\ sinceSave' = kSaveEvery /\ steps' = 0 /\ route' = <<>> /\ asked' = <<>>
  /\ stepped' = {s \in stepped : s[1] \in DOMAIN file /\ s[2] \in file[s[1]]}
  /\ UNCHANGED <<file, torn>>

Next == Step \/ Route \/ Leave \/ Down \/ TornSave \/ Restart

Spec == Init /\ [][Next]_vars

(***************************************************************************)
(* What should hold.                                                       *)
(***************************************************************************)
StepsWereTaken == ~torn => \A i \in 2..Len(route) : <<route[i - 1], route[i]>> \in stepped
Reached(m, from) ==
  FoldLeft(LAMBDA r, i : r \cup UNION {m[n] : n \in r \cap DOMAIN m},
           {from}, [i \in 1..Cardinality(Squares) |-> i])
WayIsGiven ==
  asked # <<>> /\ Range(asked) \subseteq DOMAIN map =>
    IF route = <<>> THEN asked[2] \notin Reached(map, asked[1])
    ELSE route[1] = asked[1] /\ route[Len(route)] = asked[2]

\* Every step of a way that is given was taken once, in this sitting or one
\* before it, unless a file was cut off; and between two squares on record a way
\* is given whenever steps on record lead there, from the one to the other
\* (trail.hpp "A way from here to there over squares he has walked").
WaysWereWalked == StepsWereTaken /\ WayIsGiven

\* A cut off file puts no square on record he never stood in (trail.cpp
\* TrailLoad "checked before each number rather than after, so a truncated file
\* cannot invent one").
NothingInvented == \A s \in DOMAIN map : \A t \in map[s] : <<s, t>> \in stepped
===============================================================================
