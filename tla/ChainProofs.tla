----------------------------- MODULE ChainProofs -----------------------------
(***************************************************************************)
(* Three invariants of Chain for every set of chains and menus, every      *)
(* bound and every StopWhen: the walk that ends with the chain, the wound  *)
(* that ends the chain, and the "done" that is said only of what was seen. *)
(*                                                                         *)
(* The second is not inductive alone.  A look compares with g_health_was,  *)
(* and that this is the best health the chain has seen, whatever the order *)
(* of wounds, healing and looks, is what has to be carried along.          *)
(*                                                                         *)
(* The third is about the whole way from the reading of a row to the last  *)
(* keystroke of the last step: what has to be carried along is what the    *)
(* keystrokes still to come will do, wherever the selection is, and that   *)
(* nothing takes the place of the dialog they are for (Following).         *)
(***************************************************************************)
EXTENDS Chain, FiniteSetTheorems, SequenceTheorems, TLAPS

\* What a look compares with, and what the property speaks about.
Healths ==
  /\ healthWas \in Int /\ healthNow \in Int /\ highest \in Int /\ health \in 0..MaxHealth
  /\ running /\ OnHurt => healthWas = highest

IInv == NoJourneyAfterTheChain /\ Healths /\ HurtStopsIt

\* It holds before any chain is handed over.
LEMMA Start == Init => IInv
<1> SUFFICES ASSUME Init  PROVE IInv
  OBVIOUS
<1>1. MaxHealth \in Nat  BY ChainAssumption DEF ChainAssumption
<1>2. /\ running = FALSE /\ trip = FALSE /\ health = MaxHealth
      /\ healthWas = -1 /\ healthNow = -1 /\ highest = 0
  BY DEF Init
<1>3. health \in 0..MaxHealth  BY <1>1, <1>2
<1> QED  BY <1>2, <1>3 DEF IInv, NoJourneyAfterTheChain, Healths, HurtStopsIt

\* Steps that leave the chain, its health and the journey alone.
Aside == UNCHANGED <<running, healthWas, healthNow, highest, health, trip>>

\* Such a step keeps the invariant.
LEMMA AsideKeeps == IInv /\ Aside => IInv'
  BY DEF IInv, NoJourneyAfterTheChain, Healths, HurtStopsIt, Aside

\* What the looks do to the journey: it is under way afterwards only while the
\* chain runs, and the chain runs afterwards only if nothing interrupted it.
LEMMA Look ==
  ASSUME ChainTick, IInv
  PROVE  /\ trip' => running'
         /\ running' => Interruption(healthNow') = "none"
<1>1. trip => running  BY DEF IInv, NoJourneyAfterTheChain
<1>2. running  BY DEF ChainTick
<1>3. CASE Interrupt(healthNow')
  BY <1>3 DEF Interrupt, Finish, StandStill
<1>4. CASE Interruption(healthNow') = "none"
           /\ (Arrive \/ Depart \/ TryAgain \/ PressKey \/ Say \/ AnswerStep \/ Wait \/ StillAtIt)
  <2>1. ASSUME NEW keys, Begin(keys)  PROVE trip' => running'
    BY <1>2, <2>1 DEF Begin
  <2>2. Advance \/ End => (trip' => running')  BY <1>2 DEF Advance, End
  <2>3. Blocked => (trip' => running')  BY DEF Blocked, Finish, StandStill
  <2>4. Arrive \/ Depart \/ TryAgain \/ StillAtIt => (trip' => running')
    BY <1>2, <2>2 DEF Arrive, Depart, TryAgain, StillAtIt
  <2>5. PressKey => (trip' => running')  BY <2>1, <2>2, <2>3 DEF PressKey
  <2>6. Say \/ Wait => (trip' => running')  BY <2>1, <2>2 DEF Say, Wait
  <2>7. AnswerStep => (trip' => running')
    BY <2>1, <2>2, <2>3 DEF AnswerStep, AnswerScreen
  <2> QED  BY <1>4, <2>4, <2>5, <2>6, <2>7
<1> QED  BY <1>3, <1>4 DEF ChainTick

\* Arithmetic that is easier for the provers without primes.
LEMMA Below ==
  ASSUME NEW a \in Int, NEW b \in Int, NEW c \in Int, ~(a - b >= c)
  PROVE  a - b < c
  OBVIOUS

\* Nothing is lost by a look that saw the best.
LEMMA Nothing == ASSUME NEW a \in Int  PROVE a - a = 0
  OBVIOUS

\* A look that lets the chain go on has seen it less than HurtBy below its best.
LEMMA LookKeeps == ASSUME ChainTick, IInv  PROVE IInv'
<1>1. (trip' => running') /\ (running' => Interruption(healthNow') = "none")  BY Look
<1>2. /\ running /\ healthNow' \in {healthNow, health}
      /\ healthWas' = IF OnHurt /\ Interruption(healthNow') \notin {"done", "dialog"}
                       THEN Raised(healthNow') ELSE healthWas
      /\ UNCHANGED health
      /\ highest' = IF healthNow' > highest THEN healthNow' ELSE highest
  BY DEF ChainTick
<1>3. HurtBy \in Int /\ 0 < HurtBy  BY ChainAssumption DEF ChainAssumption
<1>4. healthNow' \in Int /\ healthWas' \in Int /\ highest' \in Int
  BY <1>2, <1>3 DEF IInv, Healths, Raised
<1>6. health' \in 0..MaxHealth  BY <1>2 DEF IInv, Healths
<1>5. ASSUME running', OnHurt
      PROVE  healthWas' = highest' /\ highest' - healthNow' < HurtBy
  <2>1. ~Hurt(healthNow')  BY <1>1, <1>5 DEF Interruption
  <2>2. ~(healthWas - healthNow' >= HurtBy)  BY <2>1, <1>5 DEF Hurt
  <2>3. healthWas = highest  BY <1>2, <1>5 DEF IInv, Healths
  <2>4. healthWas \in Int /\ highest \in Int  BY DEF IInv, Healths
  <2>5. healthWas' = IF healthNow' > highest THEN healthNow' ELSE highest
    BY <1>1, <1>2, <1>5, <2>3 DEF Raised
  <2>6. healthWas' = highest'  BY <1>2, <2>5
  <2>7. highest - healthNow' < HurtBy  BY <1>3, <1>4, <2>2, <2>3, <2>4, Below
  <2>8. highest' - healthNow' < HurtBy
    <3>1. CASE healthNow' > highest
      <4>1. highest' = healthNow'  BY <1>2, <3>1
      <4>2. highest' - healthNow' = 0  BY <1>4, <4>1, Nothing
      <4> QED  BY <1>3, <4>2
    <3>2. CASE ~(healthNow' > highest)  BY <1>2, <2>7, <3>2
    <3> QED  BY <3>1, <3>2
  <2> QED  BY <2>6, <2>8
<1> QED  BY <1>1, <1>4, <1>5, <1>6 DEF IInv, NoJourneyAfterTheChain, Healths, HurtStopsIt

\* Every step keeps the invariant.
LEMMA Keeps == IInv /\ [Next]_vars => IInv'
<1> SUFFICES ASSUME IInv, [Next]_vars  PROVE IInv'
  OBVIOUS
<1>0. MaxHealth \in Nat /\ HurtBy \in Nat \ {0}  BY ChainAssumption DEF ChainAssumption
<1>1. CASE UNCHANGED vars
  BY <1>1, AsideKeeps DEF Aside, vars, chainvars, kept, world
<1>2. ASSUME NEW list \in Chains, RunChain(list)  PROVE IInv'
  <2>1. /\ trip' = FALSE /\ healthNow' = health /\ healthWas' = health
        /\ highest' = health /\ health' = health
    BY <1>2 DEF RunChain
  <2>2. health \in Int /\ health \in 0..MaxHealth  BY <1>0 DEF IInv, Healths
  <2>3. highest' - healthNow' < HurtBy  BY <1>0, <2>1, <2>2
  <2> QED  BY <2>1, <2>2, <2>3 DEF IInv, NoJourneyAfterTheChain, Healths, HurtStopsIt
<1>3. CASE StopChain
  BY <1>3 DEF StopChain, Finish, StandStill, IInv, NoJourneyAfterTheChain, Healths, HurtStopsIt
<1>4. CASE StopTool
  BY <1>4 DEF StopTool, kept, IInv, NoJourneyAfterTheChain, Healths, HurtStopsIt
<1>5. CASE ChainTick
  BY <1>5, LookKeeps
<1>6. CASE Clock
  BY <1>6, AsideKeeps DEF Clock, Aside, kept, world
<1>7. CASE Journey
  BY <1>7 DEF Journey, kept, IInv, NoJourneyAfterTheChain, Healths, HurtStopsIt
<1>8. CASE Health
  BY <1>0, <1>8 DEF Health, kept, IInv, NoJourneyAfterTheChain, Healths, HurtStopsIt
<1>9. CASE Chat
  BY <1>9, AsideKeeps DEF Chat, Aside, kept
<1>10. CASE (Client \/ Server) /\ UNCHANGED chainvars
  BY <1>10, AsideKeeps DEF Aside, chainvars, kept, world
<1> QED  BY <1>1, <1>2, <1>3, <1>4, <1>5, <1>6, <1>7, <1>8, <1>9, <1>10 DEF Next

\* The invariant the two theorems below rest on.
THEOREM ChainInvariant == Spec => []IInv
<1> QED  BY Start, Keeps, PTL DEF Spec

\* Whatever ends a chain, its journey ends with it: there is never a journey
\* without a chain that runs (chain.cpp:73-78).
THEOREM JourneyEndsWithTheChain == Spec => []NoJourneyAfterTheChain
<1>1. IInv => NoJourneyAfterTheChain  BY DEF IInv
<1> QED  BY <1>1, ChainInvariant, PTL

\* A chain that stops on being hurt goes on only while the last health read is
\* less than HurtBy below the best it has read (chain.cpp:94-97).
THEOREM HurtStopsTheChain == Spec => []HurtStopsIt
<1>1. IInv => HurtStopsIt  BY DEF IInv
<1> QED  BY <1>1, ChainInvariant, PTL

-----------------------------------------------------------------------------
(* What a chain has done.  As long as a dialog stays only until it is      *)
(* answered, no list begins with the names of its columns, nothing comes   *)
(* unasked and one line of chat is sent, the server owes at most one       *)
(* dialog: there is none while the line is typed, and while one is         *)
(* answered none takes its place.  A second line may be typed into a       *)
(* dialog that the answer before it has brought up.                        *)

AsTheyCome ==
  /\ ~Lingers /\ \A m \in Menus : ~m.headers
  /\ \A list \in Chains : \A i, j \in DOMAIN list :
       list[i].kind = "say" /\ list[j].kind = "say" => i = j

KeyNames == {"up", "down", "return", "escape", "T", "text", "hold"}
AKey == [key : KeyNames, for : Nat, want : Labels]

\* The steps of a kind that have done what they do.
Past(i) == i < stepAt \/ (i = stepAt /\ started /\ script = <<>>)
DoneOf(kind) == {i \in DOMAIN steps : steps[i].kind = kind /\ Past(i)}

StepsTyped ==
  /\ steps \in Seq([kind : Kinds, what : STRING])
  /\ \A i, j \in DOMAIN steps : steps[i].kind = "say" /\ steps[j].kind = "say" => i = j
  /\ stepAt \in 1..(Len(steps) + 1) /\ started \in BOOLEAN /\ script \in Seq(AKey)
  /\ stepAt > Len(steps) => ~started
  /\ ~started => script = <<>>
  /\ ~running => stepAt > Len(steps)

\* The server owes a dialog for a line or for an answer, or it has come up.
Owed ==
  /\ said \in Nat /\ owed \in Nat /\ owed <= said /\ (Shown => owed + 1 <= said)
  /\ said = Cardinality(DoneOf("say"))

\* Every answer was for the dialog it was given to, on the row it names.
Lands(a) == a.for # Nobody /\ a.on = a.for /\ a.want \in {a.chose, AnyRow}
AllLand ==
  /\ IsFiniteSet(answers) /\ Cardinality(answers) = Cardinality(DoneOf("answer"))
  /\ shown \in Nat /\ \A a \in answers : Lands(a) /\ a.on \in 1..shown

OnScreen ==
  Shown => /\ screen.menu \in Menus /\ screen.nth = shown /\ shown > 0 /\ screen.answered = FALSE
           /\ cursor \in 1..Len(Rows(screen))
           /\ \A a \in answers : a.on < shown

\* What is left of the keystrokes of a line,
LineLeft(s) ==
  \/ Len(s) = 3 /\ s[1].key = "T" /\ s[2].key = "text" /\ s[3].key = "return"
  \/ Len(s) = 2 /\ s[1].key = "text" /\ s[2].key = "return" /\ chatOpen
  \/ Len(s) = 1 /\ s[1].key = "return" /\ chatOpen

\* and of an answer: up to the top, down to the row, and Enter.
RowLeft(s, ups, downs, row) ==
  /\ Len(s) = ups + downs + 1
  /\ \A i \in 1..Len(s) : /\ s[i].key = IF i <= ups THEN "up"
                                        ELSE IF i <= ups + downs THEN "down" ELSE "return"
                          /\ s[i].want = Rows(screen)[row]
  /\ IF ups = 0 THEN cursor + downs = row ELSE cursor <= ups + 1 /\ downs = row - 1
AnswerLeft(s) ==
  /\ Shown /\ \A i \in 1..Len(s) : s[i].for = screen.nth
  /\ \/ Len(s) = 1 /\ s[1].key \in {"return", "escape"} /\ s[1].want = AnyRow
     \/ \E ups, downs \in Nat : \E row \in 1..Len(Rows(screen)) : RowLeft(s, ups, downs, row)

KeysLeft ==
  script # <<>> =>
    \/ Step.kind = "press" /\ \A i \in 1..Len(script) : script[i].key = "hold"
    \/ Step.kind = "say" /\ LineLeft(script)
    \/ Step.kind = "answer" /\ AnswerLeft(script)

Following == StepsTyped /\ Owed /\ AllLand /\ OnScreen /\ KeysLeft

\* Before the first chain nothing has happened, unless unasked.
Untouched ==
  /\ script = <<>> /\ answers = {} /\ said = 0 /\ owed = 0 /\ screen = <<>> /\ ~running
  /\ shown = 0 /\ stoppedBy = ""

DoneInv ==
  /\ chains \in Nat /\ unasked \in Nat /\ (running => stoppedBy = "")
  /\ unasked = 0 /\ chains = 0 => Untouched
  /\ unasked = 0 /\ chains = 1 /\ (running \/ stoppedBy = "done") => Following

-----------------------------------------------------------------------------
(* Counting.                                                               *)

\* The steps that are done can be counted.
LEMMA DoneIsFinite ==
  ASSUME StepsTyped, NEW kind
  PROVE  IsFiniteSet(DoneOf(kind)) /\ Cardinality(DoneOf(kind)) \in Nat
<1>1. Len(steps) \in Nat /\ DOMAIN steps = 1..Len(steps)
  BY DEF StepsTyped
<1>2. IsFiniteSet(1..Len(steps))
  BY <1>1, FS_Interval
<1>3. DoneOf(kind) \subseteq 1..Len(steps)
  BY <1>1 DEF DoneOf
<1> QED  BY <1>2, <1>3, FS_Subset, FS_CardinalityType

\* A line is sent once.
LEMMA SaidOnce ==
  ASSUME StepsTyped
  PROVE  /\ Cardinality(DoneOf("say")) <= 1
         /\ stepAt \in DOMAIN steps /\ Step.kind = "say" /\ ~Past(stepAt)
              => Cardinality(DoneOf("say")) = 0
<1>1. \A i, j \in DoneOf("say") : i = j
  BY DEF StepsTyped, DoneOf
<1>2. CASE DoneOf("say") = {}
  BY <1>2, FS_EmptySet
<1>3. CASE DoneOf("say") # {}
  <2>1. PICK i \in DoneOf("say") : DoneOf("say") = {i}
    BY <1>1, <1>3
  <2>2. Cardinality(DoneOf("say")) = 1
    BY <2>1, FS_Singleton
  <2>3. ~(stepAt \in DOMAIN steps /\ Step.kind = "say" /\ ~Past(stepAt))
    BY <2>1 DEF DoneOf, StepsTyped, Step
  <2> QED  BY <2>2, <2>3
<1> QED  BY <1>2, <1>3

\* What is done stays as it is while no step is done with.
LEMMA SameDone ==
  ASSUME UNCHANGED steps, NEW kind,
         \A i \in DOMAIN steps : steps[i].kind = kind => (Past(i)' <=> Past(i))
  PROVE  DoneOf(kind)' = DoneOf(kind)
BY DEF DoneOf

\* The step under way is done with its last keystroke.
LEMMA OneMoreDone ==
  ASSUME StepsTyped, UNCHANGED <<steps, stepAt, started>>, started,
         script # <<>>, script' = <<>>, NEW kind
  PROVE  /\ Step.kind = kind => Cardinality(DoneOf(kind)') = Cardinality(DoneOf(kind)) + 1
         /\ Step.kind # kind => DoneOf(kind)' = DoneOf(kind)
<1>1. stepAt \in DOMAIN steps
  BY DEF StepsTyped
<1>2. stepAt \notin DoneOf(kind)
  BY DEF DoneOf, Past, StepsTyped
<1>3. \A i \in DOMAIN steps : Past(i)' <=> Past(i) \/ i = stepAt
  BY <1>1 DEF Past, StepsTyped
<1>4. Step.kind = kind => DoneOf(kind)' = DoneOf(kind) \cup {stepAt}
  BY <1>1, <1>3 DEF DoneOf, Step
<1>5. Step.kind # kind => DoneOf(kind)' = DoneOf(kind)
  BY <1>3 DEF DoneOf, Step
<1>6. Cardinality(DoneOf(kind) \cup {stepAt}) = Cardinality(DoneOf(kind)) + 1
  BY <1>2, DoneIsFinite, FS_AddElement
<1> QED  BY <1>4, <1>5, <1>6

-----------------------------------------------------------------------------
(* The client takes a keystroke.                                           *)

\* A list without names of columns: every row can be chosen.
LEMMA PlainRows ==
  ASSUME AsTheyCome, NEW m \in Menus
  PROVE  /\ Choosable(m) = m.rows /\ Len(m.rows) \in Nat /\ Len(m.rows) > 0
         /\ DOMAIN m.rows = 1..Len(m.rows) /\ \A i \in 1..Len(m.rows) : m.rows[i] \in Labels
<1>1. m.rows \in Seq(STRING) /\ m.rows # <<>> /\ ~m.headers
  BY DialogsAssumption DEF DialogsAssumption, AsTheyCome
<1>2. Len(m.rows) \in Nat /\ Len(m.rows) > 0 /\ DOMAIN m.rows = 1..Len(m.rows)
  BY <1>1, EmptySeq, LenProperties
<1>3. Choosable(m) = m.rows
  BY <1>1 DEF Choosable
<1>4. \A i \in 1..Len(m.rows) : m.rows[i] \in Labels
  BY <1>2 DEF Labels
<1> QED  BY <1>2, <1>3, <1>4

\* A keystroke is taken: the next one is first.
LEMMA OneKeyLess ==
  ASSUME StepsTyped, KeysTick
  PROVE  /\ script # <<>> /\ started /\ stepAt \in DOMAIN steps /\ script' \in Seq(AKey)
         /\ Len(script) \in Nat /\ Len(script) > 0 /\ Len(script') = Len(script) - 1
         /\ \A i \in 1..Len(script') : script'[i] = script[i + 1]
         /\ Head(script) = script[1] /\ script[1] \in AKey
         /\ script' = <<>> <=> Len(script) = 1
<1>1. script # <<>> /\ script' = Tail(script)
  BY DEF KeysTick, KeysBusy
<1>2. started /\ stepAt \in DOMAIN steps
  BY <1>1 DEF StepsTyped
<1>3. /\ Len(script) \in Nat /\ Len(script) > 0 /\ script' \in Seq(AKey)
      /\ Len(script') = Len(script) - 1 /\ Head(script) = script[1] /\ script[1] \in AKey
      /\ \A i \in 1..Len(script') : script'[i] = script[i + 1]
  BY <1>1 DEF StepsTyped
<1>4. script' = <<>> <=> Len(script') = 0
  BY <1>3, EmptySeq
<1> QED  BY <1>1, <1>2, <1>3, <1>4

\* That leaves the steps as they are.
LEMMA StepsStayTyped ==
  ASSUME StepsTyped, KeysTick, UNCHANGED <<steps, stepAt, started, running>>
  PROVE  StepsTyped'
<1>1. script' \in Seq(AKey) /\ started
  BY OneKeyLess
<1> QED  BY <1>1 DEF StepsTyped

\* As long as keystrokes are left nothing more is done than was.
LEMMA NothingDoneYet ==
  ASSUME StepsTyped, UNCHANGED <<steps, stepAt, started>>, script # <<>>, script' # <<>>, NEW kind
  PROVE  DoneOf(kind)' = DoneOf(kind)
<1>1. \A i \in DOMAIN steps : Past(i)' <=> Past(i)
  BY DEF Past
<1> QED  BY <1>1, SameDone

\* A key held down touches nothing.
LEMMA HoldFollows ==
  ASSUME Following, KeysTick, UNCHANGED chainvars, UNCHANGED shown, Step.kind = "press"
  PROVE  Following'
<1>1. UNCHANGED <<steps, stepAt, started, running>>
  BY DEF chainvars, kept
<1>2. StepsTyped /\ StepsTyped'
  BY <1>1, StepsStayTyped DEF Following
<1>3. /\ script # <<>> /\ started /\ Head(script) = script[1] /\ Len(script) > 0 /\ Len(script) \in Nat
      /\ Len(script') = Len(script) - 1 /\ \A i \in 1..Len(script') : script'[i] = script[i + 1]
  BY <1>2, OneKeyLess
<1>4. \A i \in 1..Len(script) : script[i].key = "hold"
  BY <1>3 DEF Following, KeysLeft
<1>5. Head(script).key = "hold"
  BY <1>3, <1>4
<1>6. UNCHANGED <<screen, cursor, owed, answers, said>>
  BY <1>5 DEF KeysTick, MoveCursor, AnswerDialog, UseChat, Lost
<1>7. \A kind \in {"say", "answer"} : DoneOf(kind)' = DoneOf(kind)
  <2>1. CASE script' = <<>>
    BY <1>1, <1>2, <1>3, <2>1, OneMoreDone
  <2>2. CASE script' # <<>>
    BY <1>1, <1>2, <1>3, <2>2, NothingDoneYet
  <2> QED  BY <2>1, <2>2
<1>8. Owed' /\ AllLand' /\ OnScreen'
  BY <1>6, <1>7 DEF Following, Owed, AllLand, OnScreen, Shown, Rows, Lands
<1>9. KeysLeft'
  BY <1>1, <1>3, <1>4 DEF KeysLeft, Step
<1> QED  BY <1>2, <1>8, <1>9 DEF Following

\* A keystroke of a line: with the last one the line is sent.
LEMMA LineFollows ==
  ASSUME Following, KeysTick, UNCHANGED chainvars, UNCHANGED shown, Step.kind = "say"
  PROVE  Following'
<1>1. UNCHANGED <<steps, stepAt, started, running>>
  BY DEF chainvars, kept
<1>2. StepsTyped /\ StepsTyped'
  BY <1>1, StepsStayTyped DEF Following
<1>3. /\ script # <<>> /\ started /\ Head(script) = script[1] /\ Len(script) > 0 /\ Len(script) \in Nat
      /\ Len(script') = Len(script) - 1 /\ \A i \in 1..Len(script') : script'[i] = script[i + 1]
      /\ stepAt \in DOMAIN steps /\ (script' = <<>> <=> Len(script) = 1)
  BY <1>2, OneKeyLess
<1>4. said = 0 /\ owed = 0 /\ ~Shown
  <2>1. ~Past(stepAt)
    BY <1>2, <1>3 DEF Past, StepsTyped
  <2>2. Cardinality(DoneOf("say")) = 0
    BY <1>2, <1>3, <2>1, SaidOnce
  <2> QED  BY <2>2 DEF Following, Owed
<1>5. LineLeft(script)
  BY <1>3 DEF Following, KeysLeft
<1>6. UNCHANGED <<screen, cursor, answers>>
  BY <1>3, <1>4, <1>5 DEF KeysTick, MoveCursor, AnswerDialog, UseChat, Lost, LineLeft, TakesKeys
<1>7. CASE Len(script) > 1
  <2>1. UNCHANGED <<owed, said>> /\ (Len(script) = 3 => chatOpen') /\ (Len(script) = 2 => chatOpen')
    <3>1. CASE Head(script).key = "T"
      <4>1. UseChat("T")
        BY <1>4, <3>1 DEF KeysTick, MoveCursor, AnswerDialog, UseChat, Lost, TakesKeys
      <4>2. chatOpen' /\ owed' = owed + 0 /\ said' = said + 0
        BY <4>1 DEF UseChat
      <4> QED  BY <1>4, <4>2
    <3>2. CASE Head(script).key = "text"
      BY <1>3, <1>4, <1>5, <1>7, <3>2
         DEF KeysTick, MoveCursor, AnswerDialog, UseChat, Lost, LineLeft, TakesKeys
    <3> QED  BY <1>3, <1>5, <1>7, <3>1, <3>2 DEF LineLeft
  <2>2. LineLeft(script)'
    BY <1>3, <1>5, <1>7, <2>1 DEF LineLeft
  <2>3. \A kind \in {"say", "answer"} : DoneOf(kind)' = DoneOf(kind)
    BY <1>1, <1>2, <1>3, <1>7, NothingDoneYet
  <2>4. Owed' /\ AllLand' /\ OnScreen'
    BY <1>6, <2>1, <2>3 DEF Following, Owed, AllLand, OnScreen, Shown, Rows, Lands
  <2>5. KeysLeft'
    BY <1>1, <2>2 DEF KeysLeft, Step
  <2> QED  BY <1>2, <2>4, <2>5 DEF Following
<1>8. CASE Len(script) = 1
  <2>1. owed' = 1 /\ said' = 1
    <3>1. Head(script).key = "return" /\ chatOpen
      BY <1>3, <1>5, <1>8 DEF LineLeft
    <3>2. UseChat("return")
      BY <1>4, <3>1 DEF KeysTick, MoveCursor, AnswerDialog, UseChat, Lost, TakesKeys
    <3>3. owed' = owed + 1 /\ said' = said + 1
      BY <3>1, <3>2 DEF UseChat
    <3> QED  BY <1>4, <3>3
  <2>2. script' = <<>> /\ ~Shown'
    BY <1>3, <1>4, <1>6, <1>8 DEF Shown
  <2>3. /\ Cardinality(DoneOf("say")') = Cardinality(DoneOf("say")) + 1
        /\ DoneOf("answer")' = DoneOf("answer")
    BY <1>1, <1>2, <1>3, <2>2, OneMoreDone
  <2>4. Owed'
    BY <1>4, <2>1, <2>2, <2>3 DEF Following, Owed
  <2>5. AllLand' /\ OnScreen'
    BY <1>6, <2>2, <2>3 DEF Following, AllLand, OnScreen, Lands
  <2>6. KeysLeft'
    BY <2>2 DEF KeysLeft
  <2> QED  BY <1>2, <2>4, <2>5, <2>6 DEF Following
<1> QED  BY <1>3, <1>7, <1>8

\* The selection moves one nearer to its row.
LEMMA ArrowFollows ==
  ASSUME AsTheyCome, Following, KeysTick, UNCHANGED chainvars, UNCHANGED shown,
         Step.kind = "answer", Len(script) > 1
  PROVE  Following'
<1>1. UNCHANGED <<steps, stepAt, started, running>>
  BY DEF chainvars, kept
<1>2. StepsTyped /\ StepsTyped'
  BY <1>1, StepsStayTyped DEF Following
<1>3. /\ script # <<>> /\ started /\ Head(script) = script[1] /\ Len(script) \in Nat
      /\ Len(script') = Len(script) - 1 /\ \A i \in 1..Len(script') : script'[i] = script[i + 1]
      /\ script' # <<>>
  BY <1>2, OneKeyLess
<1>4. /\ Shown /\ TakesKeys /\ screen.menu \in Menus /\ cursor \in 1..Len(Rows(screen))
      /\ \A i \in 1..Len(script) : script[i].for = screen.nth
  BY <1>3 DEF Following, KeysLeft, AnswerLeft, OnScreen, TakesKeys
<1>5. PICK ups \in Nat, downs \in Nat, row \in 1..Len(Rows(screen)) : RowLeft(script, ups, downs, row)
  BY <1>3 DEF Following, KeysLeft, AnswerLeft
<1>6. Choosable(screen.menu) = Rows(screen) /\ Len(Rows(screen)) \in Nat
  BY <1>4, PlainRows DEF Rows
<1>7. Head(script).key = IF ups > 0 THEN "up" ELSE "down"
  BY <1>3, <1>5 DEF RowLeft
<1>8. /\ UNCHANGED <<screen, owed, answers, said>>
      /\ cursor' = IF ups > 0 THEN IF cursor > 1 THEN cursor - 1 ELSE 1
                   ELSE IF cursor < Len(Rows(screen)) THEN cursor + 1 ELSE cursor
  BY <1>4, <1>6, <1>7 DEF KeysTick, MoveCursor, AnswerDialog, UseChat, Lost
<1>9. \E u, d \in Nat : RowLeft(script, u, d, row)'
  <2>1. CASE ups > 0
    <3>1. ups - 1 \in Nat
      BY <2>1
    <3>2. RowLeft(script, ups - 1, downs, row)'
      <4>1. Len(script') = (ups - 1) + downs + 1 /\ Rows(screen)' = Rows(screen)
        BY <1>3, <1>5, <1>8 DEF RowLeft, Rows
      <4>2. ASSUME NEW i \in 1..Len(script')
            PROVE  /\ script'[i].key = IF i <= ups - 1 THEN "up"
                                       ELSE IF i <= (ups - 1) + downs THEN "down" ELSE "return"
                   /\ script'[i].want = Rows(screen)[row]
        <5>1. i + 1 \in 1..Len(script) /\ script'[i] = script[i + 1] /\ i \in Int
          BY <1>3, <4>2
        <5>2. (i + 1 <= ups <=> i <= ups - 1) /\ (i + 1 <= ups + downs <=> i <= (ups - 1) + downs)
          BY <5>1
        <5> QED  BY <1>5, <5>1, <5>2 DEF RowLeft
      <4>3. IF ups - 1 = 0 THEN cursor' + downs = row
            ELSE cursor' <= (ups - 1) + 1 /\ downs = row - 1
        <5>1. cursor <= ups + 1 /\ downs = row - 1 /\ cursor \in Int /\ row \in Int
          BY <1>4, <1>5, <1>6, <2>1 DEF RowLeft
        <5>2. cursor' = IF cursor > 1 THEN cursor - 1 ELSE 1
          BY <1>8, <2>1
        <5> QED  BY <2>1, <5>1, <5>2
      <4> QED  BY <4>1, <4>2, <4>3 DEF RowLeft
    <3> QED  BY <3>1, <3>2
  <2>2. CASE ups = 0
    <3>1. downs - 1 \in Nat
      BY <1>5, <2>2 DEF RowLeft
    <3>2. RowLeft(script, 0, downs - 1, row)'
      BY <1>3, <1>4, <1>5, <1>6, <1>8, <2>2, <3>1 DEF RowLeft, Rows
    <3> QED  BY <3>1, <3>2
  <2> QED  BY <2>1, <2>2
<1>10. \A kind \in {"say", "answer"} : DoneOf(kind)' = DoneOf(kind)
  BY <1>1, <1>2, <1>3, NothingDoneYet
<1>11. Owed' /\ AllLand'
  BY <1>8, <1>10 DEF Following, Owed, AllLand, Shown, Lands
<1>12. OnScreen'
  <2>1. cursor' \in 1..Len(Rows(screen))
    BY <1>4, <1>6, <1>8
  <2> QED  BY <1>8, <2>1 DEF Following, OnScreen, Shown, Rows
<1>13. KeysLeft'
  <2>1. \A i \in 1..Len(script') : script'[i].for = screen'.nth
    BY <1>3, <1>4, <1>8
  <2>2. Shown' /\ row \in 1..Len(Rows(screen')) /\ Step'.kind = "answer"
    BY <1>1, <1>4, <1>8 DEF Shown, Step
  <2> QED  BY <1>9, <2>1, <2>2 DEF KeysLeft, AnswerLeft
<1> QED  BY <1>2, <1>11, <1>12, <1>13 DEF Following

\* The last keystroke answers, and the row is the one that was meant.
LEMMA EnterFollows ==
  ASSUME AsTheyCome, Following, KeysTick, UNCHANGED chainvars, UNCHANGED shown,
         Step.kind = "answer", Len(script) = 1
  PROVE  Following'
<1>1. UNCHANGED <<steps, stepAt, started, running>>
  BY DEF chainvars, kept
<1>2. StepsTyped /\ StepsTyped'
  BY <1>1, StepsStayTyped DEF Following
<1>3. script # <<>> /\ started /\ Head(script) = script[1] /\ script' = <<>>
  BY <1>2, OneKeyLess
<1>4. /\ Shown /\ TakesKeys /\ screen.menu \in Menus /\ cursor \in 1..Len(Rows(screen))
      /\ script[1].for = screen.nth /\ screen.nth = shown /\ shown > 0 /\ shown \in Nat
      /\ \A a \in answers : a.on < shown
  BY <1>3 DEF Following, KeysLeft, AnswerLeft, OnScreen, TakesKeys, AllLand
<1>5. Choosable(screen.menu) = Rows(screen)
  BY <1>4, PlainRows DEF Rows
<1>6. /\ script[1].key \in {"return", "escape"}
      /\ script[1].want = AnyRow \/ (script[1].key = "return" /\ script[1].want = Rows(screen)[cursor])
  <2>1. CASE script[1].key \in {"return", "escape"} /\ script[1].want = AnyRow
    BY <2>1
  <2>2. ASSUME NEW ups \in Nat, NEW downs \in Nat, NEW row \in 1..Len(Rows(screen)),
               RowLeft(script, ups, downs, row)
        PROVE  script[1].key = "return" /\ script[1].want = Rows(screen)[cursor]
    <3>1. ups = 0 /\ downs = 0
      <4>1. 1 = ups + downs + 1
        BY <2>2 DEF RowLeft
      <4> QED  BY <4>1
    <3>2. cursor = row
      BY <1>4, <2>2, <3>1 DEF RowLeft
    <3> QED  BY <2>2, <3>1, <3>2 DEF RowLeft
  <2> QED  BY <1>3, <2>1, <2>2 DEF Following, KeysLeft, AnswerLeft
<1>7. PICK a : a = [on |-> screen.nth, for |-> script[1].for, want |-> script[1].want,
                    chose |-> IF script[1].key = "return" THEN Choosable(screen.menu)[cursor]
                              ELSE AnyRow,
                    headed |-> screen.menu.headers]
  OBVIOUS
<1>8. answers' = answers \cup {a} /\ screen' = <<>> /\ owed' = owed + 1 /\ said' = said
  BY <1>3, <1>4, <1>6, <1>7 DEF KeysTick, MoveCursor, AnswerDialog, UseChat, Lost, AsTheyCome
<1>9. a.on = shown /\ a.for = shown /\ Lands(a)
  BY <1>4, <1>5, <1>6, <1>7 DEF Lands, Nobody
<1>10. /\ Cardinality(DoneOf("answer")') = Cardinality(DoneOf("answer")) + 1
       /\ DoneOf("say")' = DoneOf("say")
  BY <1>1, <1>2, <1>3, OneMoreDone
<1>11. ~Shown'
  BY <1>8 DEF Shown
<1>12. Owed'
  BY <1>4, <1>8, <1>10, <1>11 DEF Following, Owed
<1>13. AllLand'
  <2>1. IsFiniteSet(answers) /\ a \notin answers
    BY <1>4, <1>9 DEF Following, AllLand
  <2>2. IsFiniteSet(answers') /\ Cardinality(answers') = Cardinality(answers) + 1
    BY <1>8, <2>1, FS_AddElement
  <2>3. \A b \in answers' : b \in answers \/ b = a
    BY <1>8
  <2>4. \A b \in answers' : Lands(b) /\ b.on \in 1..shown
    BY <1>4, <1>9, <2>3 DEF Following, AllLand
  <2> QED  BY <1>10, <2>2, <2>4 DEF Following, AllLand, Lands
<1>14. OnScreen' /\ KeysLeft'
  BY <1>3, <1>11 DEF OnScreen, KeysLeft
<1> QED  BY <1>2, <1>12, <1>13, <1>14 DEF Following

\* Whatever keystroke is next, the chain goes on as it should.
LEMMA KeyFollows ==
  ASSUME AsTheyCome, Following, KeysTick, UNCHANGED chainvars
  PROVE  Following'
<1>1. script # <<>> /\ Len(script) \in Nat /\ Len(script) > 0 /\ UNCHANGED shown
  BY OneKeyLess DEF Following, KeysTick
<1>2. Step.kind \in {"press", "say", "answer"}
  BY <1>1 DEF Following, KeysLeft
<1>3. CASE Step.kind = "press"
  BY <1>1, <1>3, HoldFollows
<1>4. CASE Step.kind = "say"
  BY <1>1, <1>4, LineFollows
<1>5. CASE Step.kind = "answer" /\ Len(script) > 1
  BY <1>1, <1>5, ArrowFollows
<1>6. CASE Step.kind = "answer" /\ Len(script) = 1
  BY <1>1, <1>6, EnterFollows
<1>7. Len(script) > 1 \/ Len(script) = 1
  BY <1>1
<1> QED  BY <1>2, <1>3, <1>4, <1>5, <1>6, <1>7

-----------------------------------------------------------------------------
(* The server, and a look.                                                 *)

\* The dialog the server owes comes up before nobody's keystrokes.
LEMMA ReactFollows ==
  ASSUME AsTheyCome, Following, React, UNCHANGED chainvars
  PROVE  Following'
<1>1. UNCHANGED <<steps, stepAt, started, running, script, said, answers>>
  BY DEF chainvars, kept, React, Show
<1>2. StepsTyped /\ StepsTyped'
  BY <1>1 DEF Following, StepsTyped
<1>3. owed > 0 /\ owed' = owed - 1 /\ owed \in Nat /\ owed <= said /\ said \in Nat
  BY DEF Following, Owed, React
<1>4. ~Shown
  <2>1. said <= 1
    BY <1>2, SaidOnce DEF Following, Owed
  <2> QED  BY <1>3, <2>1 DEF Following, Owed
<1>5. \A kind \in {"say", "answer"} : DoneOf(kind)' = DoneOf(kind)
  BY <1>1 DEF DoneOf, Past
<1>6. Owed'
  BY <1>1, <1>3, <1>5 DEF Following, Owed
<1>7. KeysLeft'
  <2> SUFFICES ASSUME script # <<>>
               PROVE  Step.kind = "press" /\ \A i \in 1..Len(script) : script[i].key = "hold"
    BY <1>1 DEF KeysLeft, Step
  <2>1. Step.kind # "answer" \/ Shown
    BY DEF Following, KeysLeft, AnswerLeft
  <2>2. Step.kind # "say"
    <3>1. stepAt \in DOMAIN steps /\ ~Past(stepAt)
      BY <1>2 DEF StepsTyped, Past
    <3> QED  BY <1>2, <1>3, <3>1, SaidOnce DEF Following, Owed
  <2> QED  BY <1>4, <2>1, <2>2 DEF Following, KeysLeft
<1>8. ASSUME NEW m \in Menus, Show(m)
      PROVE  Following'
  <2>1. /\ shown' = shown + 1 /\ shown \in Nat /\ \A a \in answers : Lands(a) /\ a.on \in 1..shown
        /\ screen' = [menu |-> m, nth |-> shown + 1, answered |-> FALSE]
    BY <1>8 DEF Show, Following, AllLand
  <2>2. cursor' \in 1..Len(m.rows)
    BY <1>8, PlainRows DEF Show
  <2>3. AllLand'
    BY <1>1, <1>5, <2>1 DEF Following, AllLand, Lands
  <2>4. OnScreen'
    BY <1>1, <2>1, <2>2 DEF OnScreen, Rows
  <2> QED  BY <1>2, <1>6, <1>7, <2>3, <2>4 DEF Following
<1>9. CASE UNCHANGED <<screen, cursor, chatOpen, script, shown, answers, replaced, said>>
  <2>1. AllLand' /\ OnScreen'
    BY <1>5, <1>9 DEF Following, AllLand, OnScreen, Shown, Rows, Lands
  <2> QED  BY <1>2, <1>6, <1>7, <2>1 DEF Following
<1> QED  BY <1>8, <1>9 DEF React

\* A look touches neither dialogs nor what was said.
LEMMA LookFollows ==
  ASSUME Following, UNCHANGED <<ground, steps>>, StepsTyped', KeysLeft',
         \A kind \in {"say", "answer"} : DoneOf(kind)' = DoneOf(kind)
  PROVE  Following'
BY DEF Following, Owed, AllLand, OnScreen, Shown, Rows, Lands, ground

\* A step that is done is left behind.
LEMMA AdvanceFollows ==
  ASSUME Following, UNCHANGED <<ground, steps>>, Advance, stepAt <= Len(steps), script = <<>>, running,
         Step.kind \in {"say", "answer"} => started
  PROVE  Following'
<1>1. /\ stepAt' = stepAt + 1 /\ started' = FALSE /\ script' = <<>> /\ running'
      /\ stepAt \in Nat /\ Len(steps) \in Nat /\ script' \in Seq(AKey)
  BY DEF Advance, Following, StepsTyped
<1>2. StepsTyped'
  <2>1. stepAt' \in 1..(Len(steps) + 1)
    BY <1>1 DEF Following, StepsTyped
  <2> QED  BY <1>1, <2>1 DEF Following, StepsTyped
<1>3. ASSUME NEW kind \in {"say", "answer"}
      PROVE  DoneOf(kind)' = DoneOf(kind)
  <2>1. \A i \in DOMAIN steps : i \in Nat
    BY DEF Following, StepsTyped
  <2>2. \A i \in DOMAIN steps : steps[i].kind = kind => (Past(i)' <=> Past(i))
    BY <1>1, <1>3, <2>1 DEF Past, Step
  <2> QED  BY <2>2, SameDone
<1> QED  BY <1>1, <1>2, <1>3, LookFollows DEF KeysLeft

\* A step begins, and its keystrokes are the ones it should have.
LEMMA BeginFollows ==
  ASSUME Following, UNCHANGED <<ground, steps>>, NEW keys \in Seq(AKey), Begin(keys),
         stepAt <= Len(steps), running, Step.kind \in {"say", "answer"} => keys # <<>>,
         keys # <<>> =>
           \/ Step.kind = "press" /\ \A i \in 1..Len(keys) : keys[i].key = "hold"
           \/ Step.kind = "say" /\ LineLeft(keys)
           \/ Step.kind = "answer" /\ AnswerLeft(keys)
  PROVE  Following'
<1>1. /\ ~started /\ started' = TRUE /\ UNCHANGED <<stepAt, running>> /\ script = <<>>
      /\ script' = script \o keys
  BY DEF Begin, Following, StepsTyped
<1>2. script' = keys
  BY <1>1
<1>3. StepsTyped'
  BY <1>1, <1>2 DEF Following, StepsTyped
<1>4. ASSUME NEW kind \in {"say", "answer"}
      PROVE  DoneOf(kind)' = DoneOf(kind)
  <2>1. \A i \in DOMAIN steps : steps[i].kind = kind => (Past(i)' <=> Past(i))
    BY <1>1, <1>2, <1>4 DEF Past, Step
  <2> QED  BY <2>1, SameDone
<1>5. KeysLeft'
  <2>1. LineLeft(keys) => Len(keys) = 3 \/ chatOpen'
    BY DEF LineLeft, ground
  <2>2. /\ LineLeft(keys) => LineLeft(script)'
        /\ AnswerLeft(keys) => AnswerLeft(script)'
    BY <1>2 DEF LineLeft, AnswerLeft, RowLeft, Shown, Rows, ground
  <2>3. Step' = Step
    BY <1>1 DEF Step
  <2> QED  BY <1>2, <2>2, <2>3 DEF KeysLeft
<1> QED  BY <1>3, <1>4, <1>5, LookFollows

\* A look after which the step is still the one under way.
LEMMA StayFollows ==
  ASSUME Following, UNCHANGED <<ground, steps, script, stepAt>>, running' => running,
         started' \in BOOLEAN, started' # started => Step.kind = "go" /\ stepAt <= Len(steps),
         ~running' => stepAt > Len(steps)
  PROVE  Following'
<1>1. script # <<>> => started' = started
  BY DEF Following, KeysLeft
<1>2. StepsTyped'
  <2>1. stepAt > Len(steps) => started' = started
    BY DEF Following, StepsTyped
  <2>2. stepAt > Len(steps) => ~started'
    BY <2>1 DEF Following, StepsTyped
  <2>3. ~started' => script = <<>>
    BY <1>1 DEF Following, StepsTyped
  <2> QED  BY <2>2, <2>3 DEF Following, StepsTyped
<1>3. ASSUME NEW kind \in {"say", "answer"}
      PROVE  DoneOf(kind)' = DoneOf(kind)
  <2>1. \A i \in DOMAIN steps : steps[i].kind = kind => (Past(i)' <=> Past(i))
    BY <1>3 DEF Past, Step, Following, StepsTyped
  <2> QED  BY <2>1, SameDone
<1>4. KeysLeft'
  <2>1. Step' = Step /\ (LineLeft(script) => LineLeft(script)')
        /\ (AnswerLeft(script) => AnswerLeft(script)')
    BY DEF Step, LineLeft, AnswerLeft, RowLeft, Shown, Rows, ground
  <2> QED  BY <2>1 DEF Following, KeysLeft
<1> QED  BY <1>2, <1>3, <1>4, LookFollows

-----------------------------------------------------------------------------
(* What a look types.                                                      *)

\* A key pressed so many times.
LEMMA PressIs ==
  ASSUME NEW key \in KeyNames, NEW n \in Nat, NEW for \in Nat, NEW want \in Labels
  PROVE  /\ Press(key, n, for, want) \in Seq(AKey) /\ Len(Press(key, n, for, want)) = n
         /\ \A i \in 1..n : Press(key, n, for, want)[i] = [key |-> key, for |-> for, want |-> want]
<1> DEFINE p == Press(key, n, for, want)
<1>1. [key |-> key, for |-> for, want |-> want] \in AKey
  BY DEF AKey
<1>2. /\ p \in [1..n -> AKey] /\ DOMAIN p = 1..n
      /\ \A i \in 1..n : p[i] = [key |-> key, for |-> for, want |-> want]
  BY <1>1 DEF Press
<1> HIDE DEF p
<1>3. p \in Seq(AKey)
  BY <1>2, SeqDef
<1>4. Len(p) = n
  BY <1>2, <1>3, LenProperties
<1> QED  BY <1>2, <1>3, <1>4 DEF p

\* A key pressed once.
LEMMA OncePressed ==
  ASSUME NEW key \in KeyNames, NEW for \in Nat, NEW want \in Labels
  PROVE  /\ Press(key, 1, for, want) \in Seq(AKey) /\ Len(Press(key, 1, for, want)) = 1
         /\ Press(key, 1, for, want) # <<>>
         /\ Press(key, 1, for, want)[1] = [key |-> key, for |-> for, want |-> want]
<1>1. 1 \in Nat /\ 1 \in 1..1
  OBVIOUS
<1> DEFINE p == Press(key, 1, for, want)
<1>2. /\ p \in Seq(AKey) /\ Len(p) = 1
      /\ \A i \in 1..1 : p[i] = [key |-> key, for |-> for, want |-> want]
  BY <1>1, PressIs
<1> HIDE DEF p
<1>3. Len(<<>>) = 0 /\ 0 # 1
  OBVIOUS
<1>4. p # <<>>
  BY <1>2, <1>3
<1> QED  BY <1>1, <1>2, <1>4 DEF p

\* One line of keys after the other.
Then(x, y, z) ==
  /\ z \in Seq(AKey) /\ Len(z) = Len(x) + Len(y)
  /\ \A i \in 1..Len(x) : z[i] = x[i]
  /\ \A i \in 1..Len(y) : z[Len(x) + i] = y[i]

\* Both halves are found in it.
LEMMA Joined ==
  ASSUME NEW x \in Seq(AKey), NEW y \in Seq(AKey)
  PROVE  Then(x, y, x \o y)
<1>1. Len(x) \in Nat /\ Len(y) \in Nat
  OBVIOUS
<1>2. PICK z : z = x \o y
  OBVIOUS
<1>3. /\ z \in Seq(AKey) /\ Len(z) = Len(x) + Len(y)
      /\ \A i \in 1..Len(x) + Len(y) : z[i] = IF i <= Len(x) THEN x[i] ELSE y[i - Len(x)]
  BY <1>2, ConcatProperties, Zenon
<1>4. PICK n, m \in Nat : n = Len(x) /\ m = Len(y)
  BY <1>1
<1>5. \A i \in 1..n : z[i] = x[i]
  BY <1>3, <1>4
<1>6. \A i \in 1..m : z[n + i] = y[i]
  <2> TAKE i \in 1..m
  <2>1. n + i \in 1..n + m /\ ~(n + i <= n) /\ n + i - n = i
    OBVIOUS
  <2> QED  BY <1>3, <1>4, <2>1
<1>7. Then(x, y, z)
  BY <1>3, <1>4, <1>5, <1>6 DEF Then
<1> QED  BY <1>2, <1>7

\* A line is T, its text and Enter.
LEMMA ChatLineIs == ChatLine \in Seq(AKey) /\ ChatLine # <<>> /\ LineLeft(ChatLine)
<1> DEFINE p(key) == Press(key, 1, Nobody, AnyRow)
<1>1. ASSUME NEW key \in KeyNames
      PROVE  p(key) \in Seq(AKey) /\ Len(p(key)) = 1 /\ p(key)[1].key = key
  <2>1. Nobody \in Nat /\ AnyRow \in Labels
    BY DEF Nobody, Labels
  <2>2. /\ p(key) \in Seq(AKey) /\ Len(p(key)) = 1
        /\ p(key)[1] = [key |-> key, for |-> Nobody, want |-> AnyRow]
    BY <1>1, <2>1, OncePressed, Zenon
  <2> HIDE DEF p
  <2> QED  BY <2>2
<1> DEFINE t == p("T")  x == p("text")  r == p("return")
<1>2. /\ t \in Seq(AKey) /\ Len(t) = 1 /\ t[1].key = "T"
      /\ x \in Seq(AKey) /\ Len(x) = 1 /\ x[1].key = "text"
      /\ r \in Seq(AKey) /\ Len(r) = 1 /\ r[1].key = "return"
  <2>1. "T" \in KeyNames /\ "text" \in KeyNames /\ "return" \in KeyNames
    BY DEF KeyNames
  <2> HIDE DEF p
  <2> QED  BY <1>1, <2>1
<1>3. PICK a : a = t \o x
  OBVIOUS
<1>4. ChatLine = a \o r
  BY <1>3 DEF ChatLine
<1> HIDE DEF t, x, r
<1>5. /\ a \in Seq(AKey) /\ Len(a) = 2 /\ a[1] = t[1] /\ a[2] = x[1]
  <2>1. /\ a \in Seq(AKey) /\ Len(a) = Len(t) + Len(x)
        /\ \A i \in 1..Len(t) : a[i] = t[i]
        /\ \A i \in 1..Len(x) : a[Len(t) + i] = x[i]
    <3>1. t \in Seq(AKey)
      BY <1>2
    <3>2. x \in Seq(AKey)
      BY <1>2
    <3>3. Then(t, x, a)
      BY <3>1, <3>2, <1>3, Joined, Zenon
    <3> QED  BY <3>3 DEF Then
  <2> QED  BY <1>2, <2>1
<1>6. PICK s : s = ChatLine
  OBVIOUS
<1>7. /\ s \in Seq(AKey) /\ Len(s) = 3 /\ s[1] = t[1] /\ s[2] = x[1] /\ s[3] = r[1]
  <2>1. /\ s \in Seq(AKey) /\ Len(s) = Len(a) + Len(r)
        /\ \A i \in 1..Len(a) : s[i] = a[i]
        /\ \A i \in 1..Len(r) : s[Len(a) + i] = r[i]
    <3>1. a \in Seq(AKey)
      BY <1>5
    <3>2. r \in Seq(AKey)
      BY <1>2
    <3>3. s = a \o r
      BY <1>4, <1>6, Zenon
    <3>4. Then(a, r, s)
      BY <3>1, <3>2, <3>3, Joined, Zenon
    <3> QED  BY <3>4 DEF Then
  <2> QED  BY <1>2, <1>5, <2>1
<1>8. Len(<<>>) = 0 /\ 0 # 3
  OBVIOUS
<1>9. s # <<>>
  BY <1>7, <1>8
<1>10. LineLeft(s)
  BY <1>2, <1>7 DEF LineLeft
<1> QED  BY <1>6, <1>7, <1>9, <1>10

\* Up to the top, down to the row, and Enter.
Chosen(s, n, row, for, want) ==
  /\ s \in Seq(AKey) /\ Len(s) = n + row + 1 /\ s # <<>>
  /\ \A i \in 1..Len(s) :
       /\ s[i].key = IF i <= n THEN "up" ELSE IF i <= n + row THEN "down" ELSE "return"
       /\ s[i].want = want /\ s[i].for = for

\* That is what the chain types for a row.
LEMMA ChosenIs ==
  ASSUME NEW rows, NEW n \in Nat, n = Len(rows), NEW row \in Nat, NEW for \in Nat,
         NEW want \in Labels, NEW s, s = GoToRow(rows, row, for, want) \o Press("return", 1, for, want)
  PROVE  Chosen(s, n, row, for, want)
<1> DEFINE K(key) == [key |-> key, for |-> for, want |-> want]
           p(key, times) == Press(key, times, for, want)
           u == p("up", n)
           d == p("down", row)
           r == p("return", 1)
<1>1. \A key \in KeyNames : \A times \in Nat :
        /\ p(key, times) \in Seq(AKey) /\ Len(p(key, times)) = times
        /\ \A i \in 1..times : p(key, times)[i] = K(key)
  BY PressIs
<1>2. s = (u \o d) \o r
  BY DEF GoToRow
<1> HIDE DEF p
<1>3. /\ u \in Seq(AKey) /\ n = Len(u) /\ \A i \in 1..n : u[i] = K("up")
      /\ d \in Seq(AKey) /\ row = Len(d) /\ \A i \in 1..row : d[i] = K("down")
      /\ r \in Seq(AKey) /\ Len(r) = 1 /\ r[1] = K("return")
  <2>1. "up" \in KeyNames /\ "down" \in KeyNames /\ "return" \in KeyNames /\ 1 \in Nat /\ 1 \in 1..1
    BY DEF KeyNames
  <2> QED  BY <1>1, <2>1
<1> HIDE DEF u, d, r
<1>4. PICK a : a = u \o d
  OBVIOUS
<1>5. /\ a \in Seq(AKey) /\ Len(a) = n + row
      /\ \A i \in 1..n : a[i] = K("up")
      /\ \A i \in 1..row : a[n + i] = K("down")
  <2>1. /\ a \in Seq(AKey) /\ Len(a) = Len(u) + Len(d)
        /\ \A i \in 1..Len(u) : a[i] = u[i]
        /\ \A i \in 1..Len(d) : a[Len(u) + i] = d[i]
    <3>1. u \in Seq(AKey)
      BY <1>3
    <3>2. d \in Seq(AKey)
      BY <1>3
    <3>3. Then(u, d, a)
      BY <3>1, <3>2, <1>4, Joined, Zenon
    <3> QED  BY <3>3 DEF Then
  <2> QED  BY <1>3, <2>1
<1>6. s = a \o r
  BY <1>2, <1>4
<1>7. PICK m \in Nat : m = n + row
  OBVIOUS
<1>8. /\ s \in Seq(AKey) /\ Len(s) = m + 1
      /\ \A i \in 1..m : s[i] = a[i]
      /\ s[m + 1] = K("return")
  <2>1. /\ s \in Seq(AKey) /\ Len(s) = Len(a) + Len(r)
        /\ \A i \in 1..Len(a) : s[i] = a[i]
        /\ \A i \in 1..Len(r) : s[Len(a) + i] = r[i]
    <3>1. a \in Seq(AKey)
      BY <1>5
    <3>2. r \in Seq(AKey)
      BY <1>3
    <3>3. Then(a, r, s)
      BY <3>1, <3>2, <1>6, Joined, Zenon
    <3> QED  BY <3>3 DEF Then
  <2>2. 1 \in 1..Len(r) /\ Len(a) = m
    BY <1>3, <1>5, <1>7
  <2> QED  BY <1>3, <2>1, <2>2
<1>9. ASSUME NEW i \in 1..Len(s)
      PROVE  /\ s[i].key = IF i <= n THEN "up" ELSE IF i <= n + row THEN "down" ELSE "return"
             /\ s[i].want = want /\ s[i].for = for
  <2>1. CASE i <= n
    <3>1. i \in 1..n /\ i \in 1..m
      BY <1>7, <1>8, <2>1
    <3>2. s[i] = K("up")
      BY <1>5, <1>8, <3>1
    <3> QED  BY <2>1, <3>2
  <2>2. CASE i > n /\ i <= m
    <3>1. i - n \in 1..row /\ n + (i - n) = i /\ i \in 1..m /\ ~(i <= n) /\ i <= n + row
      BY <1>7, <2>2
    <3>2. s[i] = a[i]
      BY <1>8, <3>1
    <3>3. a[n + (i - n)] = K("down")
      BY <1>5, <3>1
    <3>4. s[i] = K("down")
      BY <3>1, <3>2, <3>3
    <3> QED  BY <3>1, <3>4
  <2>3. CASE i = m + 1
    <3>1. ~(i <= n) /\ ~(i <= n + row)
      BY <1>7, <2>3
    <3> QED  BY <1>8, <2>3, <3>1
  <2> QED  BY <1>7, <1>8, <2>1, <2>2, <2>3
<1>10. Len(<<>>) = 0 /\ Len(s) # 0
  BY <1>8
<1>11. s # <<>>
  BY <1>10
<1> QED  BY <1>7, <1>8, <1>9, <1>11 DEF Chosen

\* The row the reading gives says what was asked for.
LEMMA RowSays ==
  ASSUME NEW rows, DOMAIN rows = 1..Len(rows), Len(rows) \in Nat, NEW want,
         RowSaying(rows, want) >= 0
  PROVE  /\ RowSaying(rows, want) \in Nat /\ RowSaying(rows, want) + 1 \in 1..Len(rows)
         /\ rows[RowSaying(rows, want) + 1] = want
<1> DEFINE found == Saying(rows, want)
<1>1. found \subseteq DOMAIN rows /\ \A i \in found : rows[i] = want
  BY DEF Saying
<1>2. RowSaying(rows, want) = IF found = {} THEN -1
                              ELSE IF Cardinality(found) > 1 THEN -2
                              ELSE (CHOOSE i \in found : TRUE) - 1
  BY DEF RowSaying, NotThere, Ambiguous
<1> HIDE DEF found
<1>3. found # {} /\ RowSaying(rows, want) = (CHOOSE i \in found : TRUE) - 1
  BY <1>2
<1>4. (CHOOSE i \in found : TRUE) \in found
  BY <1>3
<1> QED  BY <1>1, <1>3, <1>4

-----------------------------------------------------------------------------
(* A look moves the chain on.                                              *)

\* What ends a chain with "done" leaves everything done.
LEMMA InterruptFollows ==
  ASSUME Following, UNCHANGED <<ground, steps>>, NEW seen, Interrupt(seen),
         running' \/ stoppedBy' = "done"
  PROVE  Following'
<1>1. /\ running' = FALSE /\ stoppedBy' = Interruption(seen)
      /\ UNCHANGED <<script, stepAt, started>>
  BY DEF Interrupt, Finish
<1>2. Interruption(seen) = "done"
  BY <1>1
<1>3. stepAt > Len(steps)
  BY <1>2 DEF Interruption
<1>4. started' \in BOOLEAN
  BY <1>1 DEF Following, StepsTyped
<1> QED  BY <1>1, <1>3, <1>4, StayFollows

\* The keystrokes of a step are played, and the next step begins.
LEMMA PlayedFollows ==
  ASSUME Following, UNCHANGED <<ground, steps>>, End, stepAt <= Len(steps), running
  PROVE  Following'
<1>1. started /\ script = <<>> /\ Advance
  BY DEF End, Played, KeysBusy
<1> QED  BY <1>1, AdvanceFollows

\* A look at a key to be pressed,
LEMMA PressFollows ==
  ASSUME Following, UNCHANGED <<ground, steps>>, PressKey, stepAt <= Len(steps), running,
         running' \/ stoppedBy' = "done"
  PROVE  Following'
<1>1. ~Blocked
  BY DEF Blocked, Finish
<1>2. CASE Begin(Press("hold", 1, Nobody, AnyRow))
  <2>1. PICK keys : keys = Press("hold", 1, Nobody, AnyRow)
    OBVIOUS
  <2>2. "hold" \in KeyNames /\ Nobody \in Nat /\ AnyRow \in Labels
    BY DEF KeyNames, Nobody, Labels
  <2>3. keys \in Seq(AKey) /\ Len(keys) = 1 /\ keys[1].key = "hold"
    <3>1. /\ keys \in Seq(AKey) /\ Len(keys) = 1
          /\ keys[1] = [key |-> "hold", for |-> Nobody, want |-> AnyRow]
      BY <2>1, <2>2, OncePressed, Zenon
    <3> QED  BY <3>1
  <2>4. Step.kind = "press" /\ Begin(keys)
    BY <1>2, <2>1, Zenon DEF PressKey
  <2>5. \A i \in 1..Len(keys) : keys[i].key = "hold"
    BY <2>3
  <2> QED  BY <2>3, <2>4, <2>5, BeginFollows
<1> QED  BY <1>1, <1>2, PlayedFollows DEF PressKey

\* at a line to be sent,
LEMMA SayFollows ==
  ASSUME Following, UNCHANGED <<ground, steps>>, Say, stepAt <= Len(steps), running
  PROVE  Following'
<1>1. CASE Begin(ChatLine)
  <2>1. Step.kind = "say"
    BY DEF Say
  <2> QED  BY <1>1, <2>1, ChatLineIs, BeginFollows
<1> QED  BY <1>1, PlayedFollows DEF Say

\* at a wait,
LEMMA WaitFollows ==
  ASSUME Following, UNCHANGED <<ground, steps>>, Wait, stepAt <= Len(steps), running
  PROVE  Following'
<1>1. Step.kind = "wait" /\ <<>> \in Seq(AKey)
  BY DEF Wait
<1>2. CASE Begin(<<>>)
  BY <1>1, <1>2, BeginFollows
<1>3. CASE Advance
  <2>1. script = <<>>
    BY <1>1 DEF Following, KeysLeft
  <2> QED  BY <1>1, <1>3, <2>1, AdvanceFollows
<1> QED  BY <1>2, <1>3 DEF Wait

\* Enter, or Esc, for the dialog that is up.
LEMMA ButtonFollows ==
  ASSUME Following, UNCHANGED <<ground, steps>>, Step.kind = "answer", Shown,
         stepAt <= Len(steps), running,
         NEW key \in {"return", "escape"}, Begin(Press(key, 1, screen.nth, AnyRow))
  PROVE  Following'
<1>1. PICK keys : keys = Press(key, 1, screen.nth, AnyRow)
  OBVIOUS
<1>2. key \in KeyNames /\ screen.nth \in Nat /\ AnyRow \in Labels
  BY DEF KeyNames, Following, OnScreen, AllLand, Labels
<1>3. /\ keys \in Seq(AKey) /\ Len(keys) = 1 /\ keys # <<>>
      /\ keys[1] = [key |-> key, for |-> screen.nth, want |-> AnyRow]
  BY <1>1, <1>2, OncePressed
<1>4. AnswerLeft(keys)
  BY <1>3 DEF AnswerLeft
<1>5. Begin(keys)
  BY <1>1, Zenon
<1> QED  BY <1>3, <1>4, <1>5, BeginFollows

\* the row that was asked for, of the dialog that is up,
LEMMA RowFollows ==
  ASSUME AsTheyCome, Following, UNCHANGED <<ground, steps>>, Step.kind = "answer", Shown,
         stepAt <= Len(steps), running, Step.what \in Labels,
         NEW row, row = RowSaying(Rows(screen), Step.what), row >= 0,
         Begin(GoToRow(Rows(screen), row, screen.nth, Step.what)
                 \o Press("return", 1, screen.nth, Step.what))
  PROVE  Following'
<1>1. /\ screen.menu \in Menus /\ screen.nth \in Nat /\ cursor \in 1..Len(Rows(screen))
  BY DEF Following, OnScreen, AllLand
<1>2. /\ Len(Rows(screen)) \in Nat /\ Len(Rows(screen)) > 0
      /\ DOMAIN Rows(screen) = 1..Len(Rows(screen))
  BY <1>1, PlainRows DEF Rows
<1>3. /\ row \in Nat /\ row + 1 \in 1..Len(Rows(screen)) /\ Rows(screen)[row + 1] = Step.what
  BY <1>2, RowSays
<1>4. PICK n \in Nat : n = Len(Rows(screen))
  BY <1>2
<1>5. PICK keys : keys = GoToRow(Rows(screen), row, screen.nth, Step.what)
                           \o Press("return", 1, screen.nth, Step.what)
  OBVIOUS
<1>6. Chosen(keys, n, row, screen.nth, Step.what)
  <2>1. row \in Nat /\ screen.nth \in Nat /\ Step.what \in Labels /\ n \in Nat
    BY <1>1, <1>3, <1>4
  <2> QED  BY <1>4, <1>5, <2>1, ChosenIs, Zenon
<1>7. RowLeft(keys, n, row, row + 1)
  <2>1. n # 0 /\ cursor <= n + 1 /\ row = (row + 1) - 1
    BY <1>1, <1>2, <1>3, <1>4
  <2>2. \A i \in 1..Len(keys) :
          /\ keys[i].key = IF i <= n THEN "up" ELSE IF i <= n + row THEN "down" ELSE "return"
          /\ keys[i].want = Rows(screen)[row + 1]
    BY <1>3, <1>6 DEF Chosen
  <2>3. Len(keys) = n + row + 1
    BY <1>6 DEF Chosen
  <2> QED  BY <2>1, <2>2, <2>3 DEF RowLeft
<1>8. AnswerLeft(keys)
  BY <1>3, <1>6, <1>7 DEF AnswerLeft, Chosen
<1>9. Begin(keys)
  BY <1>5, Zenon
<1> QED  BY <1>6, <1>8, <1>9, BeginFollows DEF Chosen

\* and at an answer.
LEMMA AnswerFollows ==
  ASSUME AsTheyCome, Following, UNCHANGED <<ground, steps>>, AnswerStep, stepAt <= Len(steps),
         running, running' \/ stoppedBy' = "done"
  PROVE  Following'
<1>1. Step.kind = "answer"
  BY DEF AnswerStep
<1>2. CASE AnswerScreen
  <2>1. Shown /\ ~Blocked
    BY <1>2 DEF AnswerScreen, Blocked, Finish
  <2>2. PICK row : row = RowSaying(Rows(screen), Step.what)
    OBVIOUS
  <2>3. CASE Begin(Press("return", 1, screen.nth, AnyRow))
    BY <1>1, <2>1, <2>3, ButtonFollows
  <2>4. CASE Begin(Press("escape", 1, screen.nth, AnyRow))
    BY <1>1, <2>1, <2>4, ButtonFollows
  <2>5. CASE /\ Step.what \in Labels /\ row >= 0
             /\ Begin(GoToRow(Rows(screen), row, screen.nth, Step.what)
                        \o Press("return", 1, screen.nth, Step.what))
    BY <1>1, <2>1, <2>2, <2>5, RowFollows
  <2> QED  BY <1>2, <2>1, <2>2, <2>3, <2>4, <2>5, Zenon DEF AnswerScreen
<1> QED  BY <1>2, PlayedFollows DEF AnswerStep

\* Whatever a look does, a chain that goes on or is done goes on as it should.
LEMMA LookTicks ==
  ASSUME AsTheyCome, Following, ChainTick, running' \/ stoppedBy' = "done"
  PROVE  Following'
<1>1. /\ running /\ UNCHANGED <<ground, steps>> /\ started \in BOOLEAN
      /\ stepAt \in Nat /\ Len(steps) \in Nat
  BY DEF ChainTick, Following, StepsTyped
<1>2. PICK seen : seen = healthNow'
  OBVIOUS
<1>3. CASE Interrupt(seen)
  BY <1>1, <1>3, InterruptFollows
<1>4. CASE Interruption(seen) = "none"
  <2>1. stepAt <= Len(steps)
    BY <1>1, <1>4 DEF Interruption
  <2>2. CASE Arrive
    <3>1. Step.kind = "go" /\ Advance
      BY <2>2 DEF Arrive
    <3>2. script = <<>>
      BY <3>1 DEF Following, KeysLeft
    <3> QED  BY <1>1, <2>1, <3>1, <3>2, AdvanceFollows
  <2>3. CASE Depart
    <3>1. Step.kind = "go" /\ started' \in BOOLEAN /\ UNCHANGED <<script, stepAt, running>>
      BY <2>3 DEF Depart
    <3> QED  BY <1>1, <2>1, <3>1, StayFollows
  <2>4. CASE TryAgain
    <3>1. Step.kind = "go" /\ started' \in BOOLEAN /\ UNCHANGED <<script, stepAt, running>>
      BY <2>4 DEF TryAgain
    <3> QED  BY <1>1, <2>1, <3>1, StayFollows
  <2>5. CASE PressKey
    BY <1>1, <2>1, <2>5, PressFollows
  <2>6. CASE Say
    BY <1>1, <2>1, <2>6, SayFollows
  <2>7. CASE AnswerStep
    BY <1>1, <2>1, <2>7, AnswerFollows
  <2>8. CASE Wait
    BY <1>1, <2>1, <2>8, WaitFollows
  <2>9. CASE StillAtIt
    <3>1. UNCHANGED <<script, stepAt, running, started>>
      BY <2>9 DEF StillAtIt
    <3> QED  BY <1>1, <3>1, StayFollows
  <2>10. Arrive \/ Depart \/ TryAgain \/ PressKey \/ Say \/ AnswerStep \/ Wait \/ StillAtIt
    <3>1. ~Interrupt(seen)
      BY <1>4 DEF Interrupt
    <3> QED  BY <1>2, <3>1, Zenon DEF ChainTick
  <2> QED  BY <2>2, <2>3, <2>4, <2>5, <2>6, <2>7, <2>8, <2>9, <2>10
<1>5. Interrupt(seen) \/ Interruption(seen) = "none"
  BY <1>2, Zenon DEF ChainTick
<1> QED  BY <1>3, <1>4, <1>5

-----------------------------------------------------------------------------
(* The invariant, and what "done" says.                                    *)

\* A look leaves the chain as it runs, or ends it.
LEMMA LookStops == ChainTick => UNCHANGED <<running, stoppedBy>> \/ running' = FALSE
<1> SUFFICES ASSUME ChainTick  PROVE UNCHANGED <<running, stoppedBy>> \/ running' = FALSE
  OBVIOUS
<1>1. PICK seen : seen = healthNow'
  OBVIOUS
<1>2. \/ Interrupt(seen)
      \/ Arrive \/ Depart \/ TryAgain \/ PressKey \/ Say \/ AnswerStep \/ Wait \/ StillAtIt
  BY <1>1, Zenon DEF ChainTick
<1>3. CASE Interrupt(seen) \/ Arrive \/ Depart \/ TryAgain \/ StillAtIt
  BY <1>3 DEF Interrupt, Finish, Arrive, Advance, Depart, TryAgain, StillAtIt
<1>4. CASE PressKey \/ Say \/ Wait
  BY <1>4 DEF PressKey, Say, Wait, Begin, Blocked, Finish, End, Advance
<1>5. CASE AnswerStep
  BY <1>5 DEF AnswerStep, AnswerScreen, Begin, Blocked, Finish, End, Advance
<1> QED  BY <1>2, <1>3, <1>4, <1>5

\* The first chain is handed over where nothing has happened.
LEMMA FirstFollows ==
  ASSUME AsTheyCome, Untouched, NEW list \in Chains, RunChain(list)
  PROVE  Following'
<1>1. /\ steps' = list /\ stepAt' = 1 /\ started' = FALSE /\ running' /\ script' = <<>>
      /\ answers' = {} /\ said' = 0 /\ owed' = 0 /\ screen' = <<>> /\ shown' = 0
  BY DEF RunChain, Untouched, Shown, dialogs
<1>2. list \in Seq([kind : Kinds, what : STRING]) /\ list # <<>>
  BY ChainAssumption DEF ChainAssumption
<1>3. Len(list) \in Nat /\ DOMAIN list = 1..Len(list)
  BY <1>2
<1>4. \A i, j \in DOMAIN list : list[i].kind = "say" /\ list[j].kind = "say" => i = j
  BY DEF AsTheyCome
<1>5. StepsTyped'
  <2>1. <<>> \in Seq(AKey) /\ 1 \in 1..(Len(list) + 1)
    BY <1>3
  <2> QED  BY <1>1, <1>2, <1>4, <2>1 DEF StepsTyped
<1>6. ASSUME NEW kind
      PROVE  Cardinality(DoneOf(kind)') = 0
  <2>1. DoneOf(kind)' = {}
    BY <1>1, <1>3 DEF DoneOf, Past
  <2> QED  BY <2>1, FS_EmptySet
<1>7. ~Shown'
  BY <1>1 DEF Shown
<1>8. Owed' /\ AllLand'
  <2>1. IsFiniteSet({}) /\ Cardinality({}) = 0
    BY FS_EmptySet
  <2> QED  BY <1>1, <1>6, <1>7, <2>1 DEF Owed, AllLand
<1> QED  BY <1>1, <1>5, <1>7, <1>8 DEF Following, OnScreen, KeysLeft

\* It holds before the first chain.
LEMMA DoneStart == Init => DoneInv
<1> SUFFICES ASSUME Init  PROVE DoneInv
  OBVIOUS
<1>1. chains = 0 /\ unasked = 0 /\ ~running /\ stoppedBy = ""
  BY DEF Init, DialogsInit
<1>2. Untouched
  BY DEF Init, DialogsInit, Untouched
<1> QED  BY <1>1, <1>2 DEF DoneInv

\* What passes the chain and its dialogs by.
LEMMA PassesBy ==
  ASSUME DoneInv, UNCHANGED <<dialogs, steps, stepAt, started, running, stoppedBy, chains>>
  PROVE  DoneInv'
<1>1. UNCHANGED <<ground, script>>
  BY DEF dialogs, ground
<1>2. Following => Following'
  <2> SUFFICES ASSUME Following  PROVE Following'
    OBVIOUS
  <2>1. started' \in BOOLEAN /\ (~running' => stepAt > Len(steps))
    BY DEF Following, StepsTyped
  <2> QED  BY <1>1, <2>1, StayFollows
<1> QED  BY <1>1, <1>2 DEF DoneInv, Untouched, ground

\* Counting one more.
LEMMA OneOn == ASSUME NEW n \in Nat  PROVE n + 1 \in Nat /\ n + 1 # 0 /\ (n + 1 = 1 => n = 0)
OBVIOUS

\* Every step keeps it.
LEMMA DoneKeeps == ASSUME AsTheyCome, DoneInv, [Next]_vars  PROVE DoneInv'
<1>1. ASSUME NEW list \in Chains, RunChain(list)
      PROVE  DoneInv'
  <2>1. /\ chains \in Nat /\ chains' = chains + 1 /\ unasked' = unasked /\ unasked \in Nat
        /\ (running' => stoppedBy' = "")
    BY <1>1 DEF RunChain, DoneInv, dialogs
  <2>2. unasked = 0 /\ chains = 0 => Following'
    BY <1>1, FirstFollows DEF DoneInv
  <2>3. chains' \in Nat /\ unasked' \in Nat /\ chains' # 0 /\ (chains' = 1 => chains = 0)
    BY <2>1, OneOn, Zenon
  <2> QED  BY <2>1, <2>2, <2>3 DEF DoneInv
<1>2. CASE StopChain
  <2>1. /\ running /\ running' = FALSE /\ stoppedBy' = "cancelled" /\ UNCHANGED <<chains, unasked>>
    BY <1>2 DEF StopChain, Finish, dialogs
  <2> QED  BY <2>1 DEF DoneInv, Untouched
<1>3. CASE ChainTick
  <2>1. running /\ UNCHANGED <<chains, unasked>>
    BY <1>3 DEF ChainTick, ground
  <2>2. running' => stoppedBy' = ""
    BY <1>3, <2>1, LookStops DEF DoneInv
  <2>3. unasked = 0 /\ chains = 1 /\ (running' \/ stoppedBy' = "done") => Following'
    BY <1>3, <2>1, LookTicks DEF DoneInv
  <2> QED  BY <2>1, <2>2, <2>3 DEF DoneInv, Untouched
<1>4. CASE StopTool \/ Clock \/ Journey \/ Health \/ Chat \/ UNCHANGED vars
  <2>1. UNCHANGED <<dialogs, steps, stepAt, started, running, stoppedBy, chains>>
    BY <1>4 DEF StopTool, Clock, Journey, Health, Chat, vars, chainvars, kept
  <2> QED  BY <2>1, PassesBy
<1>5. CASE UNCHANGED chainvars /\ (KeysTick \/ Hide \/ React)
  <2>1. UNCHANGED <<unasked, chains, running, stoppedBy>>
    BY <1>5 DEF KeysTick, Hide, React, chainvars, kept
  <2>2. unasked = 0 => chains # 0
    <3>1. ~Untouched
      <4>1. script # <<>> \/ screen # <<>> \/ owed > 0
        BY <1>5, Zenon DEF KeysTick, Hide, React, KeysBusy, Shown
      <4>2. ~(0 > 0)
        OBVIOUS
      <4> QED  BY <4>1, <4>2, Zenon DEF Untouched
    <3> QED  BY <3>1 DEF DoneInv
  <2>3. Following => Following'
    <3>1. Following => ~Hide
      BY DEF Hide, Following, OnScreen
    <3> QED  BY <1>5, <3>1, KeyFollows, ReactFollows
  <2> QED  BY <2>1, <2>2, <2>3 DEF DoneInv
<1>6. CASE UNCHANGED chainvars /\ Unasked
  <2>1. /\ unasked' = unasked + 1 /\ UNCHANGED <<chains, running, stoppedBy>>
    BY <1>6 DEF Unasked, chainvars, kept
  <2>2. unasked' \in Nat /\ unasked' # 0
    <3>1. unasked \in Nat
      BY DEF DoneInv
    <3> QED  BY <2>1, <3>1, OneOn, Zenon
  <2> QED  BY <2>1, <2>2 DEF DoneInv
<1> QED  BY <1>1, <1>2, <1>3, <1>4, <1>5, <1>6 DEF Next, Client, Server

\* A chain that ended by itself has done all its steps.
LEMMA AllDone ==
  ASSUME Following, ~running, NEW kind
  PROVE  Cardinality(DoneOf(kind)) = StepsOf(kind)
<1>1. Len(steps) \in Nat /\ DOMAIN steps = 1..Len(steps) /\ stepAt > Len(steps) /\ stepAt \in Nat
  BY DEF Following, StepsTyped
<1>2. DoneOf(kind) = {i \in DOMAIN steps : steps[i].kind = kind}
  BY <1>1 DEF DoneOf, Past
<1> QED  BY <1>2 DEF StepsOf

\* The invariant says what is meant.
LEMMA DoneSays == DoneInv => DoneMeansSeen
<1> SUFFICES ASSUME DoneInv, stoppedBy = "done", chains = 1, unasked = 0
             PROVE  /\ said = StepsOf("say")
                    /\ Cardinality({a \in Answered : a.on = a.for /\ a.want \in {a.chose, AnyRow}})
                         = StepsOf("answer")
  BY DEF DoneMeansSeen
<1>1. Following /\ ~running
  BY DEF DoneInv
<1>2. {a \in Answered : a.on = a.for /\ a.want \in {a.chose, AnyRow}} = answers
  BY <1>1 DEF Following, AllLand, Lands, Answered
<1> QED  BY <1>1, <1>2, AllDone DEF Following, Owed, AllLand

\* As long as dialogs come as they should (AsTheyCome), "done" is said only of
\* what the game saw: every line was sent, and every answer was given to the
\* dialog it was read from, on the row it names (chain.cpp:85-91, 243, 278).
THEOREM DoneIsSeen == ASSUME AsTheyCome  PROVE Spec => []DoneMeansSeen
<1>1. DoneInv /\ [Next]_vars => DoneInv'
  BY DoneKeeps
<1> QED  BY <1>1, DoneStart, DoneSays, PTL DEF Spec
==============================================================================
