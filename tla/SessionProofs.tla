----------------------------- MODULE SessionProofs -----------------------------
(***************************************************************************)
(* Being in a server, for every number of pools, of keys waiting and of    *)
(* dialogs: the layout leads into this session's pools, the password lands *)
(* where it was meant, and the seat is given up.  Each comes from what is  *)
(* on its way to it: what the worker has found and not yet stored, the     *)
(* keys not yet played.                                                    *)
(***************************************************************************)
EXTENDS Session, TLAPS

-----------------------------------------------------------------------------
(* Types: the flags, what leads into the pools, and the rest.              *)

Flags ==
  /\ loaded \in BOOLEAN /\ seated \in BOOLEAN /\ spawned \in BOOLEAN
  /\ hostAgrees \in BOOLEAN /\ resolved \in BOOLEAN /\ tooSoon \in BOOLEAN
  /\ sent \in BOOLEAN /\ swapped \in BOOLEAN /\ lost \in BOOLEAN
  /\ recovered \in BOOLEAN /\ overtaken \in BOOLEAN /\ misled \in BOOLEAN
Searches == [on : BOOLEAN, resolved : BOOLEAN, layout : Layouts, old : BOOLEAN]
Leads == pools \in 0..MaxPools /\ layout \in Layouts /\ search \in Searches
Words ==
  /\ state \in {"none", "waiting", "connecting", "joining", "connected"}
  /\ dialog \in Dialogs \cup {NoDialog} /\ meant \in Dialogs \cup {NoDialog}
  /\ landed \in Dialogs \cup {NoDialog, NotPlayed}
  /\ script \in Seq({"password", "enter"})

LEMMA TypeParts == TypeOK <=> Flags /\ Leads /\ Words
BY DEF TypeOK, Places, Flags, Leads, Searches, Words

Findable == [resolved : BOOLEAN, layout : Layouts, early : BOOLEAN]

\* Whatever a search comes to is a finding, and leads into the pools of the
\* moment or nowhere.
LEMMA FindingsFind ==
  ASSUME Leads, NEW f \in Findings
  PROVE  f \in Findable /\ f.layout.pools \in {0, pools}
<1>1. 0 \in 0..MaxPools /\ pools \in 0..MaxPools
  BY SessionAssumption DEF SessionAssumption, Leads
<1>2. NoLayout \in Layouts /\ NoLayout.pools = 0
  BY <1>1 DEF NoLayout, Layouts
<1>3. CASE f \in {Again, Hopeless, TooEarly}
  <2>1. Again \in Findable /\ Hopeless \in Findable /\ TooEarly \in Findable
    BY <1>2 DEF Again, Hopeless, TooEarly, Findable
  <2>2. f.layout = NoLayout
    BY <1>3 DEF Again, Hopeless, TooEarly
  <2> QED  BY <1>2, <1>3, <2>1, <2>2
<1>4. CASE f \in Found
  <2>1. PICK s \in BOOLEAN :
           f = [resolved |-> TRUE, layout |-> [pools |-> pools, self |-> s], early |-> FALSE]
    BY <1>4 DEF Found
  <2>2. [pools |-> pools, self |-> s] \in Layouts
    BY <1>1 DEF Layouts
  <2> QED  BY <2>1, <2>2 DEF Findable
<1> QED  BY <1>3, <1>4 DEF Findings

\* What the game thread's search leaves is typed, and leads into the pools of
\* the moment or is what it was.
LEMMA ResolveTyped ==
  ASSUME Flags, Leads, ResolveLayout
  PROVE  /\ resolved' \in BOOLEAN /\ layout' \in Layouts /\ tooSoon' \in BOOLEAN
         /\ misled' \in BOOLEAN
         /\ layout'.pools \in {0, pools} \/ layout' = layout
<1>1. CASE resolved \/ tooSoon
  BY <1>1 DEF ResolveLayout, Flags, Leads, found
<1>2. CASE ~(resolved \/ tooSoon)
  <2>1. PICK f \in Findings : /\ resolved' = f.resolved /\ layout' = f.layout
                              /\ tooSoon' = TRUE /\ misled' = (misled \/ f.early)
    BY <1>2 DEF ResolveLayout
  <2>2. f \in Findable /\ f.layout.pools \in {0, pools}
    BY FindingsFind
  <2>3. f.resolved \in BOOLEAN /\ f.layout \in Layouts /\ f.early \in BOOLEAN
    BY <2>2 DEF Findable
  <2> QED  BY <2>1, <2>2, <2>3 DEF Flags
<1> QED  BY <1>1, <1>2

\* They have their types at the start.
LEMMA TypeInit == Init => TypeOK
<1> SUFFICES ASSUME Init PROVE Flags /\ Leads /\ Words
  BY TypeParts
<1>1. Flags
  BY Zenon DEF Init, Flags
<1>2. NoLayout \in Layouts
  BY SessionAssumption DEF SessionAssumption, NoLayout, Layouts
<1>3. Leads
  BY <1>2, SessionAssumption DEF SessionAssumption, Init, NoSearch, Leads, Searches
<1>4. Words
  BY DEF Init, Words
<1> QED  BY <1>1, <1>3, <1>4

LEMMA NothingFound == NoLayout \in Layouts /\ NoSearch \in Searches
BY SessionAssumption DEF SessionAssumption, NoLayout, NoSearch, Layouts, Searches

\* A search under way is marked without being changed otherwise.
LEMMA Marked ==
  ASSUME Leads, search' = [search EXCEPT !.old = @ \/ search.on]
  PROVE  /\ search' \in Searches
         /\ search'.on = search.on /\ search'.layout = search.layout
         /\ search.on => search'.old
BY DEF Leads, Searches

\* No step gives a flag another value.
LEMMA FlagsStep == TypeOK /\ [Next]_vars => Flags'
<1> SUFFICES ASSUME Flags, Leads, Words, [Next]_vars PROVE Flags'
  BY TypeParts
<1> USE DEF Flags, client, found, typing, history, Module
<1>1. CASE ReadLayout
  BY <1>1, ResolveTyped, Zenon DEF ReadLayout
<1>2. CASE BeginSearch
  <2>1. PICK f \in Findings : misled' = (misled \/ f.early)
    BY <1>2 DEF BeginSearch
  <2>2. f.early \in BOOLEAN
    BY FindingsFind DEF Findable
  <2> QED  BY <1>2, <2>1, <2>2, Zenon DEF BeginSearch
<1>3. CASE EndSearch
  <2>1. search.resolved \in BOOLEAN /\ search.old \in BOOLEAN
    BY DEF Leads, Searches
  <2> QED  BY <1>3, <2>1, Zenon DEF EndSearch
<1>4. CASE RetryPasses
  BY <1>4, Zenon DEF RetryPasses
<1>5. CASE WatchLogin
  BY <1>5, ResolveTyped, Zenon DEF WatchLogin, StartTyping
<1>6. CASE LoginNow
  BY <1>6, Zenon DEF LoginNow, StartTyping
<1>7. CASE OtherKeys
  BY <1>7, Zenon DEF OtherKeys
<1>8. CASE PlayKey
  BY <1>8, Zenon DEF PlayKey
<1>9. CASE ReconnectRestart
   BY <1>9, Zenon DEF ReconnectRestart, Part, TornDown, ForgetLayout,
     AskedToJoinAgain
<1>10. CASE ReconnectCalls
  BY <1>10, Zenon DEF ReconnectCalls, Part, ForgetLayout, AskedToJoinAgain
<1>11. CASE ReconnectUnwritten
  BY <1>11, Zenon DEF ReconnectUnwritten, Part
<1>12. CASE Load
  BY <1>12, Zenon DEF Load
<1>13. CASE Connect
  BY <1>13, Zenon DEF Connect
<1>14. CASE Join
  BY <1>14, Zenon DEF Join
<1>15. CASE Spawn
  BY <1>15, Zenon DEF Spawn
<1>16. CASE Recover
  BY <1>16, Zenon DEF Recover, TornDown
<1>17. CASE TimeOut
  BY <1>17, Zenon DEF TimeOut
<1>18. CASE ServerDialog
  BY <1>18, Zenon DEF ServerDialog
<1>19. CASE UNCHANGED vars
  BY <1>19, Zenon DEF vars
<1> QED
   BY <1>1, <1>2, <1>3, <1>4, <1>5, <1>6, <1>7, <1>8, <1>9, <1>10, <1>11, <1>12,
     <1>13, <1>14, <1>15, <1>16, <1>17, <1>18, <1>19 DEF Next

\* Nothing leads anywhere but into pools there have been.
LEMMA LeadsStep == TypeOK /\ [Next]_vars => Leads'
<1> SUFFICES ASSUME Flags, Leads, Words, [Next]_vars PROVE Leads'
  BY TypeParts
<1> USE DEF Leads, client, found, typing, history, Module
<1>1. CASE ReadLayout
  BY <1>1, ResolveTyped DEF ReadLayout
<1>2. CASE BeginSearch
  <2>1. PICK f \in Findings :
           search' = [on |-> TRUE, resolved |-> f.resolved, layout |-> f.layout, old |-> FALSE]
    BY <1>2 DEF BeginSearch
  <2>2. f \in Findable
    BY FindingsFind
  <2>3. f.resolved \in BOOLEAN /\ f.layout \in Layouts
    BY <2>2 DEF Findable
  <2> QED  BY <1>2, <2>1, <2>3 DEF BeginSearch, Searches
<1>3. CASE EndSearch
  BY <1>3, NothingFound DEF EndSearch, Searches
<1>4. CASE RetryPasses
  BY <1>4 DEF RetryPasses
<1>5. CASE WatchLogin
  BY <1>5, ResolveTyped DEF WatchLogin
<1>6. CASE LoginNow
  BY <1>6 DEF LoginNow, StartTyping
<1>7. CASE OtherKeys
  BY <1>7 DEF OtherKeys
<1>8. CASE PlayKey
  BY <1>8 DEF PlayKey
<1>9. CASE ReconnectRestart
   BY <1>9, NothingFound, Marked, SessionAssumption DEF ReconnectRestart,
     TornDown, ForgetLayout, AskedToJoinAgain, SessionAssumption
<1>10. CASE ReconnectCalls
  BY <1>10, NothingFound, Marked DEF ReconnectCalls, ForgetLayout, AskedToJoinAgain
<1>11. CASE ReconnectUnwritten
  BY <1>11 DEF ReconnectUnwritten, Part
<1>12. CASE Load
  BY <1>12 DEF Load
<1>13. CASE Connect
  BY <1>13 DEF Connect
<1>14. CASE Join
  BY <1>14, SessionAssumption DEF Join, SessionAssumption
<1>15. CASE Spawn
  BY <1>15 DEF Spawn
<1>16. CASE Recover
  BY <1>16, SessionAssumption DEF Recover, TornDown, SessionAssumption
<1>17. CASE TimeOut
  BY <1>17 DEF TimeOut
<1>18. CASE ServerDialog
  BY <1>18 DEF ServerDialog
<1>19. CASE UNCHANGED vars
  BY <1>19 DEF vars
<1> QED
   BY <1>1, <1>2, <1>3, <1>4, <1>5, <1>6, <1>7, <1>8, <1>9, <1>10, <1>11, <1>12,
     <1>13, <1>14, <1>15, <1>16, <1>17, <1>18, <1>19 DEF Next

\* No step leaves the states of the game, the dialogs and the keys.
LEMMA WordsStep == TypeOK /\ [Next]_vars => Words'
<1> SUFFICES ASSUME Flags, Leads, Words, [Next]_vars PROVE Words'
  BY TypeParts
<1> USE DEF Words, client, found, typing, history, Module
<1>1. CASE ReadLayout
  BY <1>1 DEF ReadLayout
<1>2. CASE BeginSearch
  BY <1>2 DEF BeginSearch
<1>3. CASE EndSearch
  BY <1>3 DEF EndSearch
<1>4. CASE RetryPasses
  BY <1>4 DEF RetryPasses
<1>5. CASE WatchLogin
  BY <1>5 DEF WatchLogin, StartTyping, Answerable, Dialogs
<1>6. CASE LoginNow
  BY <1>6 DEF LoginNow, StartTyping, Answerable, Dialogs
<1>7. CASE OtherKeys
  BY <1>7 DEF OtherKeys
<1>8. CASE PlayKey
  BY <1>8 DEF PlayKey
<1>9. CASE ReconnectRestart
  BY <1>9 DEF ReconnectRestart, Part, TornDown, ForgetLayout, AskedToJoinAgain
<1>10. CASE ReconnectCalls
  BY <1>10 DEF ReconnectCalls, Part, ForgetLayout, AskedToJoinAgain
<1>11. CASE ReconnectUnwritten
  BY <1>11 DEF ReconnectUnwritten, Part
<1>12. CASE Load
  BY <1>12 DEF Load
<1>13. CASE Connect
  BY <1>13 DEF Connect
<1>14. CASE Join
  BY <1>14 DEF Join
<1>15. CASE Spawn
  BY <1>15 DEF Spawn
<1>16. CASE Recover
  BY <1>16 DEF Recover, TornDown
<1>17. CASE TimeOut
  BY <1>17 DEF TimeOut
<1>18. CASE ServerDialog
  BY <1>18 DEF ServerDialog
<1>19. CASE UNCHANGED vars
  BY <1>19 DEF vars
<1> QED
   BY <1>1, <1>2, <1>3, <1>4, <1>5, <1>6, <1>7, <1>8, <1>9, <1>10, <1>11, <1>12,
     <1>13, <1>14, <1>15, <1>16, <1>17, <1>18, <1>19 DEF Next

\* Every variable of the session keeps its type.
THEOREM Typed == Spec => []TypeOK
<1>1. TypeOK /\ [Next]_vars => TypeOK'
  <2>1. Flags' /\ Leads' /\ Words' => TypeOK'
    BY DEF TypeOK, Places, Flags, Leads, Searches, Words
  <2> QED  BY <2>1, FlagsStep, LeadsStep, WordsStep
<1> QED  BY TypeInit, <1>1, PTL DEF Spec

-----------------------------------------------------------------------------
(* The layout.  What the worker has found is as good as what is stored: it *)
(* leads into this session's pools, or the worker will be known to have    *)
(* been overtaken, or the client tore a session down by itself.            *)

FindIsOfThisSession ==
  search.on /\ search.layout.pools \notin {0, pools} => search.old \/ recovered
LayoutInv == LayoutIsOfThisSession /\ FindIsOfThisSession

\* No step leads the layout astray.
LEMMA LayoutStep == TypeOK /\ LayoutInv /\ [Next]_vars => LayoutInv'
<1> SUFFICES ASSUME Flags, Leads, Words, LayoutInv, [Next]_vars PROVE LayoutInv'
  BY TypeParts
<1> USE DEF LayoutInv, LayoutIsOfThisSession, FindIsOfThisSession, Leads,
        client, found, typing, history, Module
<1>1. CASE ReadLayout
  BY <1>1, ResolveTyped DEF ReadLayout
<1>2. CASE BeginSearch
  <2>1. PICK f \in Findings :
           search' = [on |-> TRUE, resolved |-> f.resolved, layout |-> f.layout, old |-> FALSE]
    BY <1>2 DEF BeginSearch
  <2>2. f.layout.pools \in {0, pools}
    BY FindingsFind
  <2> QED  BY <1>2, <2>1, <2>2 DEF BeginSearch
<1>3. CASE EndSearch
  BY <1>3 DEF EndSearch, NoSearch
<1>4. CASE RetryPasses
  BY <1>4 DEF RetryPasses
<1>5. CASE WatchLogin
  BY <1>5, ResolveTyped DEF WatchLogin
<1>6. CASE LoginNow
  BY <1>6 DEF LoginNow, StartTyping
<1>7. CASE OtherKeys
  BY <1>7 DEF OtherKeys
<1>8. CASE PlayKey
  BY <1>8 DEF PlayKey
<1>9. CASE ReconnectRestart
   BY <1>9, Marked DEF ReconnectRestart, TornDown, ForgetLayout, AskedToJoinAgain,
     NoLayout
<1>10. CASE ReconnectCalls
  BY <1>10, Marked DEF ReconnectCalls, ForgetLayout, AskedToJoinAgain, NoLayout
<1>11. CASE ReconnectUnwritten
  BY <1>11 DEF ReconnectUnwritten, Part
<1>12. CASE Load
  BY <1>12 DEF Load
<1>13. CASE Connect
  BY <1>13 DEF Connect
<1>14. CASE Join
  BY <1>14 DEF Join
<1>15. CASE Spawn
  BY <1>15 DEF Spawn
<1>16. CASE Recover
  BY <1>16 DEF Recover, TornDown
<1>17. CASE TimeOut
  BY <1>17 DEF TimeOut
<1>18. CASE ServerDialog
  BY <1>18 DEF ServerDialog
<1>19. CASE UNCHANGED vars
  BY <1>19 DEF vars
<1> QED
   BY <1>1, <1>2, <1>3, <1>4, <1>5, <1>6, <1>7, <1>8, <1>9, <1>10, <1>11, <1>12,
     <1>13, <1>14, <1>15, <1>16, <1>17, <1>18, <1>19 DEF Next

\* Nothing is read out of the pools of an earlier session, but where the
\* client tore one down by itself or the worker was searching meanwhile.
THEOREM LayoutStaysInItsSession == Spec => []LayoutIsOfThisSession
<1>1. Init => LayoutInv
  BY DEF Init, LayoutInv, LayoutIsOfThisSession, FindIsOfThisSession, NoLayout, NoSearch
<1>2. LayoutInv => LayoutIsOfThisSession
  BY DEF LayoutInv
<1> QED  BY <1>1, <1>2, LayoutStep, Typed, PTL DEF Spec

-----------------------------------------------------------------------------
(* The password.  It is only ever the next key to be played, and while it  *)
(* waits the dialog it was typed for is up, or the server changed it.      *)

OnlyNext == \A i \in DOMAIN script : i > 1 => script[i] = "enter"
WaitsForItsDialog ==
  script # <<>> /\ Head(script) = "password" =>
    meant # NoDialog /\ landed = NotPlayed /\ (dialog = meant \/ swapped)
PasswordInv == PasswordLandsWhereMeant /\ OnlyNext /\ WaitsForItsDialog

\* Typing is begun when nothing else is to be played.
LEMMA TypingKeeps ==
  ASSUME TypeOK, PasswordInv, StartTyping, dialog' = dialog
  PROVE  PasswordInv'
<1>1. script' = <<"password", "enter">>
  BY DEF StartTyping, Quiet
<1>2. dialog \in Asking /\ dialog # NoDialog
  BY SessionAssumption DEF SessionAssumption, StartTyping, Answerable, Dialogs
<1>3. OnlyNext'
  <2>1. DOMAIN script' = {1, 2} /\ script'[2] = "enter"
    BY <1>1
  <2> QED  BY <2>1 DEF OnlyNext
<1> QED
   BY <1>2, <1>3 DEF StartTyping, PasswordInv, PasswordLandsWhereMeant,
     WaitsForItsDialog

LEMMA PasswordStep == TypeOK /\ PasswordInv /\ [Next]_vars => PasswordInv'
<1> SUFFICES ASSUME TypeOK, PasswordInv, [Next]_vars PROVE PasswordInv'
  OBVIOUS
<1> USE DEF PasswordInv, PasswordLandsWhereMeant, OnlyNext, WaitsForItsDialog,
        client, found, typing, history, Module
<1>1. CASE ReadLayout
  BY <1>1 DEF ReadLayout
<1>2. CASE BeginSearch
  BY <1>2 DEF BeginSearch
<1>3. CASE EndSearch
  BY <1>3 DEF EndSearch
<1>4. CASE RetryPasses
  BY <1>4 DEF RetryPasses
<1>5. CASE WatchLogin
  BY <1>5, TypingKeeps DEF WatchLogin
<1>6. CASE LoginNow
  BY <1>6, TypingKeeps DEF LoginNow
<1>7. CASE OtherKeys
  <2>1. script \in Seq({"password", "enter"})
    BY TypeParts DEF Words
  <2>2. /\ DOMAIN script' = 1..(Len(script) + 1) /\ script'[Len(script) + 1] = "enter"
        /\ \A i \in DOMAIN script : script'[i] = script[i]
        /\ script # <<>> => Head(script') = Head(script)
        /\ script = <<>> => Head(script') = "enter"
    BY <1>7, <2>1 DEF OtherKeys
  <2> QED  BY <1>7, <2>1, <2>2 DEF OtherKeys
<1>8. CASE PlayKey
  <2>1. script \in Seq({"password", "enter"})
    BY TypeParts DEF Words
  <2>2. /\ DOMAIN script' = 1..(Len(script) - 1)
        /\ \A i \in DOMAIN script' : script'[i] = "enter"
    BY <1>8, <2>1 DEF PlayKey
  <2>3. script' # <<>> => Head(script') = "enter"
    BY <1>8, <2>1, <2>2 DEF PlayKey
  <2> QED  BY <1>8, <2>2, <2>3 DEF PlayKey
<1>9. CASE ReconnectRestart
  BY <1>9 DEF ReconnectRestart, Part, TornDown, ForgetLayout, AskedToJoinAgain
<1>10. CASE ReconnectCalls
  BY <1>10 DEF ReconnectCalls, Part, ForgetLayout, AskedToJoinAgain
<1>11. CASE ReconnectUnwritten
  BY <1>11 DEF ReconnectUnwritten, Part
<1>12. CASE Load
  BY <1>12 DEF Load
<1>13. CASE Connect
  BY <1>13 DEF Connect
<1>14. CASE Join
  BY <1>14 DEF Join
<1>15. CASE Spawn
  BY <1>15 DEF Spawn
<1>16. CASE Recover
  BY <1>16 DEF Recover, TornDown
<1>17. CASE TimeOut
  BY <1>17 DEF TimeOut
<1>18. CASE ServerDialog
  BY <1>18 DEF ServerDialog
<1>19. CASE UNCHANGED vars
  BY <1>19 DEF vars
<1> QED
   BY <1>1, <1>2, <1>3, <1>4, <1>5, <1>6, <1>7, <1>8, <1>9, <1>10, <1>11, <1>12,
     <1>13, <1>14, <1>15, <1>16, <1>17, <1>18, <1>19 DEF Next

\* The password is played into the dialog it was typed for, whatever keys
\* others queue and whatever else happens, unless the server changed the dialog.
THEOREM PasswordIsForThisDialog == Spec => []PasswordLandsWhereMeant
<1>1. Init => PasswordInv
  BY DEF Init, PasswordInv, PasswordLandsWhereMeant, OnlyNext, WaitsForItsDialog
<1>2. PasswordInv => PasswordLandsWhereMeant
  BY DEF PasswordInv
<1> QED  BY <1>1, <1>2, PasswordStep, Typed, PTL DEF Spec

-----------------------------------------------------------------------------
(* The seat.                                                               *)

\* He never waits for a seat he still has, unless the connection was lost.
THEOREM SeatIsFree == Spec => []SeatIsGivenUp
<1>1. Init => SeatIsGivenUp
  BY DEF Init, SeatIsGivenUp
<1>2. SeatIsGivenUp /\ [Next]_vars => SeatIsGivenUp'
  <2> SUFFICES ASSUME SeatIsGivenUp, [Next]_vars PROVE SeatIsGivenUp'
    OBVIOUS
  <2> USE DEF SeatIsGivenUp, Held, client, found, typing, history, Module
  <2>1. CASE ReadLayout
    BY <2>1 DEF ReadLayout
  <2>2. CASE BeginSearch
    BY <2>2 DEF BeginSearch
  <2>3. CASE EndSearch
    BY <2>3 DEF EndSearch
  <2>4. CASE RetryPasses
    BY <2>4 DEF RetryPasses
  <2>5. CASE WatchLogin
    BY <2>5 DEF WatchLogin, StartTyping
  <2>6. CASE LoginNow
    BY <2>6 DEF LoginNow, StartTyping
  <2>7. CASE OtherKeys
    BY <2>7 DEF OtherKeys
  <2>8. CASE PlayKey
    BY <2>8 DEF PlayKey
  <2>9. CASE ReconnectRestart
    BY <2>9 DEF ReconnectRestart, Part, TornDown, ForgetLayout, AskedToJoinAgain
  <2>10. CASE ReconnectCalls
    BY <2>10 DEF ReconnectCalls, Part, ForgetLayout, AskedToJoinAgain
  <2>11. CASE ReconnectUnwritten
    BY <2>11 DEF ReconnectUnwritten, Part
  <2>12. CASE Load
    BY <2>12 DEF Load
  <2>13. CASE Connect
    BY <2>13 DEF Connect
  <2>14. CASE Join
    BY <2>14 DEF Join
  <2>15. CASE Spawn
    BY <2>15 DEF Spawn
  <2>16. CASE Recover
    BY <2>16 DEF Recover, TornDown
  <2>17. CASE TimeOut
    BY <2>17 DEF TimeOut
  <2>18. CASE ServerDialog
    BY <2>18 DEF ServerDialog
  <2>19. CASE UNCHANGED vars
    BY <2>19 DEF vars
  <2> QED
     BY <2>1, <2>2, <2>3, <2>4, <2>5, <2>6, <2>7, <2>8, <2>9, <2>10, <2>11, <2>12,
       <2>13, <2>14, <2>15, <2>16, <2>17, <2>18, <2>19 DEF Next
<1> QED  BY <1>1, <1>2, PTL DEF Spec

===============================================================================
