------------------------------- MODULE People -------------------------------
(***************************************************************************)
(* Who is who (state/people.cpp): the record of one stranger and what it   *)
(* adds up to.  Counts matter up to the highest threshold of Judge and are *)
(* kept up to there.                                                       *)
(***************************************************************************)
EXTENDS Naturals

Standings == {"neutral", "friend", "wary", "enemy"}

\* No threshold of Judge is above three.
Enough == 3
OneMore(n) == IF n < Enough THEN n + 1 ELSE n

VARIABLES
  person,     \* the record: counts, the standing, and whether set by hand
  lastHealth  \* g_last_health: what this character had at the last look

Person == [spokeToMe : 0..Enough, armedNear : 0..Enough,
           nearWhenHurt : 0..Enough, byHand : BOOLEAN, standing : Standings]
Stranger == [spokeToMe |-> 0, armedNear |-> 0, nearWhenHurt |-> 0,
             byHand |-> FALSE, standing |-> "neutral"]

PeopleInit(health) == person = Stranger /\ lastHealth = health

\* Judge, when nobody has said otherwise.
Verdict(p) ==
  IF p.nearWhenHurt >= 2 THEN "enemy"
  ELSE IF p.armedNear >= 3 THEN "wary"
  ELSE IF p.spokeToMe >= 2 /\ p.armedNear = 0 THEN "friend"
  ELSE "neutral"
Judge(p) == IF p.byHand THEN p ELSE [p EXCEPT !.standing = Verdict(p)]

\* SawWorld, when a second has gone by since it last looked: how the person
\* is seen, and the health of this character.  Health is in steps of kHurtBy.
Sightings == [near : BOOLEAN, close : BOOLEAN, armed : BOOLEAN]
Possible(seen) == seen.close => seen.near
Seen(p, seen, hurt) ==
  IF ~seen.near THEN p
  ELSE [p EXCEPT !.armedNear = IF seen.armed THEN OneMore(@) ELSE @,
                 !.nearWhenHurt = IF hurt /\ seen.armed /\ seen.close
                                  THEN OneMore(@) ELSE @]

HealthSeen(health) == health

Saw(p, seen, health) == Judge(Seen(p, seen, health < lastHealth))

\* HeardLine for some lines of his, m of them naming this character.
Heard(p, m) ==
  Judge([p EXCEPT !.spokeToMe = IF @ + m < Enough THEN @ + m ELSE Enough])

\* SetStanding, from the transport's thread: an empty standing hands the
\* judgement back.
SetStanding(standing) ==
  /\ person' = [person EXCEPT !.byHand = TRUE, !.standing = standing]
  /\ UNCHANGED lastHealth
HandBack ==
  /\ person' = Judge([person EXCEPT !.byHand = FALSE])
  /\ UNCHANGED lastHealth
=============================================================================
