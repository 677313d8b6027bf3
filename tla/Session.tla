-------------------------------- MODULE Session --------------------------------
(***************************************************************************)
(* Being in a server.  The client's structures are found once and kept     *)
(* (ResolveLayout, samp/world.cpp), the client can be asked to join again  *)
(* (samp/reconnect.cpp), and the server's password dialog is answered from *)
(* a file (samp/login.cpp), which has to know through that layout whether  *)
(* he has spawned.                                                         *)
(*                                                                         *)
(* The client makes its pools anew each time a session is torn down, by    *)
(* Reconnect or by itself; pools are numbered as they are made.  The       *)
(* layout is read by the game thread and, through WatchSampInput, by the   *)
(* worker, with no lock between them: a search of the worker is two steps, *)
(* what it finds and the storing of it.  The server keeps a seat for a     *)
(* player until it is told that he left or finds it out, and turns him     *)
(* away while it does.                                                     *)
(***************************************************************************)
EXTENDS Naturals, Sequences

CONSTANTS
  Asking,       \* dialogs that can be answered: input or password style, and
                \*   a caption bot.login asks for
  OtherDialogs,
  MaxPools,     \* bound of the model: times the pools are made
  MaxScript     \* bound of the model: keys waiting to be played

NoDialog == "none"
NotPlayed == "not played"
Dialogs == Asking \cup OtherDialogs

ASSUME SessionAssumption ==
  /\ Asking \cap OtherDialogs = {} /\ Dialogs \cap {NoDialog, NotPlayed} = {}
  /\ MaxPools \in Nat \ {0} /\ MaxScript \in Nat

VARIABLES
  \* the client and its server
  loaded,      \* samp.dll is in the process
  state,       \* CNetGame's game state, "none" while there is no CNetGame
  seated,      \* the server keeps a seat for him
  pools,       \* the number of the pools it has, 0 while it has none
  spawned,     \* the local player is active
  hostAgrees,  \* the address in CNetGame is the one the launcher was given
  dialog,
  \* the layout
  resolved,    \* g_resolved
  layout,      \* g_layout: the pools it leads to, and whether his own record
               \*   was found in them; NoLayout when it is not valid
  tooSoon,     \* g_last_attempt_ms is less than kRetryAfterMs ago
  search,      \* what the worker has found and not stored
  \* the login
  sent,        \* g_sent; g_have goes with it
  script,      \* keys to be played: "password" and "enter", what others do aside
  \* history
  meant,       \* the dialog the password was typed for
  landed,      \* the dialog it was played into
  swapped,     \* the server changed the dialog before that
  lost,        \* the connection was lost, and no Reconnect or joining since
  recovered,   \* the client made new pools by itself, and no Reconnect since
  overtaken,   \* the worker stored what it had found before a Reconnect
  misled       \* a search came to an end before there was anything to find

client == <<loaded, state, seated, pools, spawned, hostAgrees>>
found == <<resolved, layout, tooSoon>>
typing == <<script, meant, landed, swapped>>
history == <<lost, recovered, overtaken, misled>>
vars == <<client, dialog, found, search, sent, typing, history>>

NoLayout == [pools |-> 0, self |-> FALSE]
NoSearch == [on |-> FALSE, resolved |-> FALSE, layout |-> NoLayout, old |-> FALSE]

Init ==
  /\ loaded \in BOOLEAN /\ state = "none" /\ seated = FALSE
  /\ pools = 0 /\ spawned = FALSE
  /\ hostAgrees \in BOOLEAN
  /\ dialog = NoDialog
  /\ resolved = FALSE /\ layout = NoLayout /\ tooSoon = FALSE
  /\ search = NoSearch
  /\ sent = FALSE
  /\ script = <<>>
  /\ meant = NoDialog /\ landed = NotPlayed /\ swapped = FALSE
  /\ lost = FALSE /\ recovered = FALSE /\ overtaken = FALSE /\ misled = FALSE

-----------------------------------------------------------------------------
(* ResolveLayout.                                                          *)

\* What a search comes to: whether it is the last, what it found, and
\* whether it was too early to be the last.
Again == [resolved |-> FALSE, layout |-> NoLayout, early |-> FALSE]
Hopeless == [resolved |-> TRUE, layout |-> NoLayout, early |-> FALSE]
TooEarly == [resolved |-> TRUE, layout |-> NoLayout, early |-> TRUE]
Found == {[resolved |-> TRUE, layout |-> [pools |-> pools, self |-> s], early |-> FALSE]
            : s \in BOOLEAN}

\* Mutated form: having no CNetGame is taken for the last word too.
FindingsGivingUp ==
  IF ~loaded THEN {TooEarly}
  ELSE IF state = "none" THEN {Hopeless}
  ELSE IF ~hostAgrees THEN {Again, Hopeless}
  ELSE IF pools = 0 THEN {Again}
  ELSE {Again, TooEarly} \cup Found

\* Without samp.dll, with another address in CNetGame than the launcher's, or
\* with names that read in neither width of string, nothing is looked for
\* again; without a CNetGame, its address or a pool it is.
Findings ==
  IF ~loaded THEN {TooEarly}
  ELSE IF state = "none" THEN {Again}
  ELSE IF ~hostAgrees THEN {Again, Hopeless}
  ELSE IF pools = 0 THEN {Again}
  ELSE {Again, TooEarly} \cup Found

\* On the game thread, in one step.
ResolveLayout ==
  IF resolved \/ tooSoon
  THEN UNCHANGED <<found, misled>>
  ELSE \E f \in Findings :
         /\ resolved' = f.resolved /\ layout' = f.layout
         /\ tooSoon' = TRUE /\ misled' = (misled \/ f.early)

\* ReadWorld, ReadLocalPed and whatever else asks for the layout.
ReadLayout ==
  /\ ~resolved /\ ~tooSoon /\ ResolveLayout
  /\ UNCHANGED <<client, dialog, search, sent, typing, lost, recovered, overtaken>>

\* WatchSampInput, on the worker: it looks, and later stores what it found.
BeginSearch ==
  /\ ~search.on /\ ~resolved /\ ~tooSoon
  /\ tooSoon' = TRUE
  /\ \E f \in Findings :
       /\ search' = [on |-> TRUE, resolved |-> f.resolved, layout |-> f.layout,
                     old |-> FALSE]
       /\ misled' = (misled \/ f.early)
  /\ UNCHANGED <<client, dialog, resolved, layout, sent, typing, lost, recovered, overtaken>>
EndSearch ==
  /\ search.on /\ search' = NoSearch
  /\ resolved' = search.resolved /\ layout' = search.layout
  /\ overtaken' = (overtaken \/ search.old)
  /\ UNCHANGED <<client, dialog, tooSoon, sent, typing, lost, recovered, misled>>

RetryPasses ==
  /\ tooSoon /\ tooSoon' = FALSE
  /\ UNCHANGED <<client, dialog, resolved, layout, search, sent, typing, history>>

-----------------------------------------------------------------------------
(* The login (samp/login.cpp).                                             *)

\* LocalPlayerObject: his own record says whether he has spawned - nothing
\* without it, and anything at all when it is read out of pools that are gone.
Readable == layout'.self /\ layout'.pools = pools
Readings ==
  IF ~layout'.self THEN {"unknown"}
  ELSE IF ~Readable THEN {"unknown", "spawned", "not spawned"}
  ELSE IF spawned THEN {"spawned"} ELSE {"not spawned"}

\* Mutated form: keys that are still to be played are nobody's business.
QuietAlways == TRUE
Quiet == script = <<>>
Answerable == dialog \in Asking

\* The keys would reach the game - its window is in front, or it runs behind
\* another - which is a matter of the moment.
StartTyping ==
  /\ ~sent /\ Quiet /\ Answerable
  /\ script' = script \o <<"password", "enter">>
  /\ sent' = TRUE
  /\ meant' = dialog /\ landed' = NotPlayed /\ swapped' = FALSE

BeforeTheSpawn(reading) == reading # "spawned"

\* Once a frame, when bot.login says so.  The layout is asked for only when
\* there is something to type.
WatchLogin ==
  /\ ~sent /\ Quiet
  /\ ResolveLayout
  /\ \E reading \in Readings : BeforeTheSpawn(reading)
  /\ StartTyping
  /\ UNCHANGED <<client, dialog, search, lost, recovered, overtaken>>

\* The login tool, whether or not he has spawned.
LoginNow ==
  /\ StartTyping
  /\ UNCHANGED <<client, dialog, found, search, history>>

\* A tool or a menu walk queues keys of its own.
OtherKeys ==
  /\ Len(script) < MaxScript
  /\ script' = Append(script, "enter")
  /\ UNCHANGED <<client, dialog, found, search, sent, meant, landed, swapped, history>>

\* KeysTick plays the next one, and Enter answers whatever dialog is up.
PlayKey ==
  /\ script # <<>> /\ script' = Tail(script)
  /\ IF Head(script) = "password"
     THEN landed' = dialog /\ UNCHANGED <<dialog, meant, swapped>>
     ELSE /\ dialog' = NoDialog
          /\ IF landed = NotPlayed THEN UNCHANGED <<meant, landed, swapped>>
             ELSE meant' = NoDialog /\ landed' = NotPlayed /\ swapped' = FALSE
  /\ UNCHANGED <<client, found, search, sent, history>>

-----------------------------------------------------------------------------
(* Reconnect (samp/reconnect.cpp).  Where a check fails nothing is called. *)

\* Mutated form: only a client that has joined has a session to end.
HeldJoined == state = "connected"
\* He is in a server, as far as the client knows.
Held == state \in {"connected", "joining"}
\* Disconnect, which waits for the server to hear of it.
Part == seated' = IF Held THEN FALSE ELSE seated

\* The session is torn down: the character is gone and the pools are new.
TornDown == spawned' = FALSE /\ pools < MaxPools /\ pools' = pools + 1

\* Mutated form: the layout is kept.
KeepLayout == UNCHANGED <<resolved, layout>>
ForgetLayout == resolved' = FALSE /\ layout' = NoLayout

AskedToJoinAgain ==
  /\ lost' = (lost /\ ~Held) /\ recovered' = FALSE /\ overtaken' = FALSE
  /\ search' = [search EXCEPT !.old = @ \/ search.on]
  /\ UNCHANGED <<loaded, hostAgrees, dialog, tooSoon, sent, typing, misled>>

\* The client's own recovery.  It ends waiting to connect and joins by itself.
ReconnectRestart ==
  /\ state # "none"
  /\ Part /\ TornDown /\ state' = "waiting"
  /\ ForgetLayout /\ AskedToJoinAgain

\* Disconnect and Connect alone: the character and the pools stay.  The client
\* may refuse to connect, and is left connecting all the same.
ReconnectCalls ==
  /\ state # "none"
  /\ Part /\ state' = "connecting" /\ UNCHANGED <<pools, spawned>>
  /\ ForgetLayout /\ AskedToJoinAgain

\* He has parted, and then the state cannot be written.
ReconnectUnwritten ==
  /\ Held /\ Part
  /\ UNCHANGED <<loaded, state, pools, spawned, hostAgrees, dialog, found,
                 search, sent, typing, history>>

-----------------------------------------------------------------------------
(* The client and the server, as they like.                                *)

Module == <<found, search, sent, overtaken, misled>>

Load ==
  /\ ~loaded /\ loaded' = TRUE
  /\ UNCHANGED <<state, seated, pools, spawned, hostAgrees, dialog, typing,
                 lost, recovered, Module>>

\* The client's own way in.
Connect ==
  /\ loaded
  /\ \/ state = "none" /\ state' = "waiting"
     \/ state \in {"waiting", "connecting"} /\ state' = "connecting"
     \/ state = "connecting" /\ state' = "waiting"
  /\ UNCHANGED <<loaded, seated, pools, spawned, hostAgrees, dialog, typing,
                 lost, recovered, Module>>
Join ==
  /\ \/ /\ state = "connecting" /\ ~seated /\ seated' = TRUE
        /\ state' = "joining" /\ pools' = IF pools = 0 THEN 1 ELSE pools
     \/ state = "joining" /\ state' = "connected" /\ UNCHANGED <<seated, pools>>
  /\ lost' = FALSE
  /\ UNCHANGED <<loaded, spawned, hostAgrees, dialog, typing, recovered, Module>>

\* He spawns, and dies.
Spawn ==
  /\ state = "connected" /\ spawned' = ~spawned
  /\ UNCHANGED <<loaded, state, seated, pools, hostAgrees, dialog, typing,
                 lost, recovered, Module>>

\* The connection is lost.  The client puts itself back, and the server may
\* not know, until it finds out.
Recover ==
  /\ Held /\ TornDown /\ state' = "waiting"
  /\ seated' \in {seated, FALSE} /\ lost' = TRUE /\ recovered' = TRUE
  /\ UNCHANGED <<loaded, hostAgrees, dialog, typing, Module>>
TimeOut ==
  /\ seated /\ ~Held /\ seated' = FALSE
  /\ UNCHANGED <<loaded, state, pools, spawned, hostAgrees, dialog, typing,
                 lost, recovered, Module>>

ServerDialog ==
  /\ Held
  /\ dialog' \in (Dialogs \cup {NoDialog}) \ {dialog}
  /\ swapped' = (swapped \/ (meant # NoDialog /\ landed = NotPlayed))
  /\ UNCHANGED <<client, script, meant, landed, lost, recovered, Module>>

Next ==
  \/ ReadLayout \/ BeginSearch \/ EndSearch \/ RetryPasses
  \/ WatchLogin \/ LoginNow \/ OtherKeys \/ PlayKey
  \/ ReconnectRestart \/ ReconnectCalls \/ ReconnectUnwritten
  \/ Load \/ Connect \/ Join \/ Spawn \/ Recover \/ TimeOut \/ ServerDialog

Spec == Init /\ [][Next]_vars

\* The module keeps looking, and what it looks at comes to read right.
Fairness ==
  /\ WF_vars(RetryPasses) /\ WF_vars(EndSearch)
  /\ SF_vars(ReadLayout /\ layout'.pools # 0)
FairSpec == Spec /\ Fairness

-----------------------------------------------------------------------------
Places ==
  /\ loaded \in BOOLEAN /\ seated \in BOOLEAN /\ spawned \in BOOLEAN
  /\ state \in {"none", "waiting", "connecting", "joining", "connected"}
  /\ hostAgrees \in BOOLEAN
  /\ pools \in 0..MaxPools
  /\ dialog \in Dialogs \cup {NoDialog} /\ meant \in Dialogs \cup {NoDialog}
  /\ landed \in Dialogs \cup {NoDialog, NotPlayed}
Layouts == [pools : 0..MaxPools, self : BOOLEAN]
\* Every variable keeps its type.
TypeOK ==
  /\ Places
  /\ resolved \in BOOLEAN /\ layout \in Layouts /\ tooSoon \in BOOLEAN
  /\ search \in [on : BOOLEAN, resolved : BOOLEAN, layout : Layouts, old : BOOLEAN]
  /\ sent \in BOOLEAN
  /\ script \in Seq({"password", "enter"})
  /\ swapped \in BOOLEAN /\ lost \in BOOLEAN /\ recovered \in BOOLEAN
  /\ overtaken \in BOOLEAN /\ misled \in BOOLEAN

\* "Whatever the pools held belonged to the session that just ended"
\* (reconnect.cpp:538): once he has been asked to join again nothing is read
\* out of the pools of an earlier session, unless the client has torn one
\* down by itself since, or the worker was searching meanwhile.
LayoutIsOfThisSession ==
  layout.pools \notin {0, pools} => recovered \/ overtaken

\* The password is played into the dialog it was typed for, whatever keys
\* others have queued, unless the server changed the dialog in between
\* (login.cpp:172-187).
PasswordLandsWhereMeant == landed \in {NotPlayed, meant} \/ swapped

\* He is not left to be "turned away as already in the game"
\* (reconnect.cpp:107-112): when he is to join and his old seat is still
\* taken, the connection had been lost before.
SeatIsGivenUp == seated /\ ~Held => lost

\* The structures are found in the end, in a client with pools and the
\* launcher's address, unless a search ended for good before they could be.
LayoutIsFound ==
  <>[](pools # 0 /\ hostAgrees) => <>(layout.pools # 0 \/ misled)

=============================================================================
