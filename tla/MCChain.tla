------------------------------- MODULE MCChain -------------------------------
(* Chains of actions, and by itself the chat they read what was said from.  *)
EXTENDS Chain

CONSTANTS
  Ring, Arrangements, kMinStrings, kMinSentences, kMinRun, kMaxEntries,
  kMinTimeSamples, kMinTimeDistinct, kMaxAge, kMinSignatureVoters, kMaxVoters,
  kMaxProposers, kMaxAnchoredAttempts, kRetryAfter, Utterances, Pauses, MaxLines

VARIABLES
  what,                                                       \* what is looked at
  memory, lines, now, joined, resolved, layout, lastAttempt, attempts  \* ChatLog

logvars == <<memory, lines, now, joined, resolved, layout, lastAttempt, attempts>>

Log == INSTANCE ChatLog WITH said <- lines

ReadingInit ==
  /\ what \in {"chain", "chat"} /\ Init /\ Log!Init
  /\ what = "chain" => memory = CHOOSE m \in Arrangements : TRUE
ReadingNext ==
  /\ UNCHANGED what
  /\ \/ what = "chain" /\ Next /\ UNCHANGED logvars
     \/ what = "chat" /\ Log!Next /\ UNCHANGED vars
ReadingSpec == ReadingInit /\ [][ReadingNext]_<<what, vars, logvars>> /\ Fairness

\* What is read of the chat was said (ChatLog).
ReadsWhatWasSaid == Log!ReadsWhatWasSaid

(***************************************************************************)
(* Short chains that hold every kind of step, and what may follow it.      *)
(***************************************************************************)

MCMenus == {[id |-> 1, rows |-> <<"jobs", "bank">>, headers |-> FALSE],
            [id |-> 2, rows |-> <<"bank", "phone">>, headers |-> FALSE]}
S(kind, word) == [kind |-> kind, what |-> word]
Do(kind) == S(kind, AnyRow)
\* Lines of chat are followed by answers.
MCChains == {<<Do("go"), Do("press"), Do("wait")>>,
             <<Do("go"), Do("go")>>,
             <<S("press", "unknown")>>,
             <<Do("say"), S("answer", "bank"), Do("answer")>>,
             <<Do("press"), Do("say"), S("answer", "jobs"), Do("go")>>,
             <<Do("say"), S("answer", "second button"), Do("wait")>>}

(***************************************************************************)
(* A client's chat: filled from its first entry on, or pushed in at it; with *)
(* or without scraps in its unused entries and commands behind it; found by *)
(* the known pointer, which may lead elsewhere or nowhere.                 *)
(***************************************************************************)
MCArrangements ==
  {[fill |-> f, unused |-> "scrap", behind |-> <<"command">>, known |-> "chat"] :
     f \in {"append", "push"}}
  \cup {[fill |-> "append", unused |-> "nothing", behind |-> <<"nothing", "command">>, known |-> "nowhere"],
        [fill |-> "push", unused |-> "nothing", behind |-> <<>>, known |-> "tips"]}
MCUtterances == {[says |-> "line", kind |-> 1, who |-> 1], [says |-> "word", kind |-> 2, who |-> 2]}
=============================================================================
