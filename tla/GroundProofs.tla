------------------------------ MODULE GroundProofs ------------------------------
(***************************************************************************)
(* A route being worked out (Planner), for every set of nodes, length of a *)
(* way and number of plans:                                                *)
(*   GridIsOutlived     the grid is there as long as somebody searches it; *)
(*   WalkedIsVerified   what a plan says was walked was walked.            *)
(* The room he is in (Room), of any size and with anything in it:          *)
(*   RoomIsFlooded      he gets as near as the room allows, over floor and *)
(*                      past every corner.                                 *)
(* What he has walked (Trail), over any squares, and what is left of them: *)
(*   StepsWereWalked    a way given over it was walked, step by step, and  *)
(*                      one is given wherever steps on record lead;        *)
(*   RecordIsOfSteps    nothing is on record that was not.                 *)
(* Ways over the map's nodes (Ways), in any finite city:                   *)
(*   ShortestIsFound    a way that is found is as short as any, and one is *)
(*                      found wherever there is one.                       *)
(***************************************************************************)
EXTENDS MCGround, FiniteSetTheorems, SequenceTheorems, NaturalsInduction, WellFoundedInduction, TLAPS

everything == <<what, vars, waysvars, trailvars, planvars, roomvars>>

-----------------------------------------------------------------------------
(* Sequences of anything.                                                  *)

IsSeq(s) == \E P : s \in Seq(P)

LEMMA Counted ==
  ASSUME NEW s, IsSeq(s)
  PROVE  Len(s) \in Nat /\ DOMAIN s = 1..Len(s)
BY LenProperties DEF IsSeq

LEMMA Widened ==
  ASSUME NEW s, NEW t, IsSeq(s), IsSeq(t)
  PROVE  \E P : s \in Seq(P) /\ t \in Seq(P)
<1>1. PICK P, Q : s \in Seq(P) /\ t \in Seq(Q)
  BY DEF IsSeq
<1>2. s \in Seq(P \cup Q) /\ t \in Seq(P \cup Q)
  <2>1. P \subseteq P \cup Q /\ Q \subseteq P \cup Q
    OBVIOUS
  <2> QED  BY <1>1, <2>1, SeqMonotonic
<1> QED  BY <1>2

LEMMA Joined ==
  ASSUME NEW s, NEW t, IsSeq(s), IsSeq(t)
  PROVE  /\ IsSeq(s \o t) /\ Len(s \o t) = Len(s) + Len(t)
         /\ \A i \in 1..Len(s) : (s \o t)[i] = s[i]
         /\ \A i \in Len(s) + 1..Len(s) + Len(t) : (s \o t)[i] = t[i - Len(s)]
<1>1. PICK P : s \in Seq(P) /\ t \in Seq(P)
  BY Widened
<1>2. Len(s) \in Nat /\ Len(t) \in Nat
  BY Counted
<1>3. /\ s \o t \in Seq(P) /\ Len(s \o t) = Len(s) + Len(t)
      /\ \A i \in 1..Len(s) + Len(t) :
           (s \o t)[i] = IF i <= Len(s) THEN s[i] ELSE t[i - Len(s)]
  BY <1>1, ConcatProperties
<1>4. IsSeq(s \o t)
  BY <1>3 DEF IsSeq
<1>5. ASSUME NEW i \in 1..Len(s)
      PROVE  (s \o t)[i] = s[i]
  BY <1>2, <1>3
<1>6. ASSUME NEW i \in Len(s) + 1..Len(s) + Len(t)
      PROVE  (s \o t)[i] = t[i - Len(s)]
  BY <1>2, <1>3
<1> QED  BY <1>3, <1>4, <1>5, <1>6

LEMMA Listed ==
  ASSUME NEW n \in Nat, NEW s, s = [i \in 1..n |-> s[i]]
  PROVE  IsSeq(s) /\ Len(s) = n
<1> DEFINE P == {s[i] : i \in 1..n}
<1>1. s \in [1..n -> P]
  OBVIOUS
<1>2. s \in Seq(P)
  BY <1>1, SeqDef
<1>3. DOMAIN s = 1..n /\ DOMAIN s = 1..Len(s) /\ Len(s) \in Nat
  BY <1>1, <1>2, LenProperties
<1>4. PICK m \in Nat : m = Len(s)
  BY <1>3
<1>5. m = n
  <2>1. 1..m = 1..n
    BY <1>3, <1>4
  <2> QED  BY ONLY <2>1, <1>4, n \in Nat
<1> QED  BY <1>2, <1>4, <1>5 DEF IsSeq

LEMMA Alone ==
  ASSUME NEW x
  PROVE  IsSeq(<<x>>) /\ Len(<<x>>) = 1 /\ <<x>>[1] = x
<1>1. <<x>> \in Seq({x})
  OBVIOUS
<1> QED  BY <1>1 DEF IsSeq

LEMMA Longer ==
  ASSUME NEW s, IsSeq(s), NEW x
  PROVE  /\ IsSeq(Append(s, x)) /\ Len(Append(s, x)) = Len(s) + 1
         /\ \A i \in 1..Len(s) : Append(s, x)[i] = s[i]
         /\ Append(s, x)[Len(s) + 1] = x
<1>1. PICK P : s \in Seq(P) /\ <<x>> \in Seq(P)
  BY Widened, Alone
<1>2. x \in P /\ Len(s) \in Nat
  <2>1. <<x>>[1] \in P
    BY <1>1, ElementOfSeq, Alone
  <2> QED  BY <2>1, Counted
<1>3. Append(s, x) \in Seq(P) /\ Append(s, x) \in Seq(P \cup {x})
  BY <1>1, <1>2
<1> QED  BY <1>1, <1>2, <1>3, AppendProperties DEF IsSeq

-----------------------------------------------------------------------------
(* Points of a way: one that says its leg was walked says from where.      *)

Honest(s) == \A i \in 2..Len(s) : s[i].seen => s[i].from = s[i - 1].at

\* Honest points before honest ones, the first of which was walked to from the
\* last.
LEMMA HonestJoined ==
  ASSUME NEW s, IsSeq(s), Honest(s), Len(s) > 0,
         NEW t, IsSeq(t), Honest(t),
         Len(t) > 0 => (t[1].seen => t[1].from = s[Len(s)].at)
  PROVE  /\ IsSeq(s \o t) /\ Honest(s \o t) /\ Len(s \o t) = Len(s) + Len(t)
         /\ Len(s \o t) > 0 /\ (s \o t)[1] = s[1]
         /\ Len(t) > 0 => (s \o t)[Len(s \o t)] = t[Len(t)]
         /\ Len(t) = 0 => (s \o t)[Len(s \o t)] = s[Len(s)]
<1>1. PICK k \in Nat, m \in Nat : k = Len(s) /\ m = Len(t)
  BY Counted
<1>2. PICK u : u = s \o t
  OBVIOUS
<1>3. /\ IsSeq(u) /\ Len(u) = k + m
      /\ \A i \in 1..k : u[i] = s[i]
      /\ \A i \in k + 1..k + m : u[i] = t[i - k]
  BY <1>1, <1>2, Joined
<1>4. ASSUME NEW i \in 2..k + m, u[i].seen
      PROVE  u[i].from = u[i - 1].at
  <2>1. CASE i <= k
    <3>1. i \in 1..k /\ i - 1 \in 1..k /\ i \in 2..k
      BY <2>1, <1>1
    <3> QED  BY <1>1, <1>3, <1>4, <3>1 DEF Honest
  <2>2. CASE i = k + 1
    <3>1. i \in k + 1..k + m /\ i - 1 \in 1..k /\ i - k = 1 /\ i - 1 = k /\ m > 0
      BY <2>2, <1>1
    <3>2. u[i] = t[1] /\ u[i - 1] = s[k]
      BY <1>3, <3>1
    <3> QED  BY <1>1, <1>4, <3>1, <3>2
  <2>3. CASE i > k + 1
    <3>1. /\ i \in k + 1..k + m /\ i - 1 \in k + 1..k + m /\ (i - 1) - k = (i - k) - 1
          /\ i - k \in 2..m
      BY <2>3, <1>1
    <3>2. u[i] = t[i - k] /\ u[i - 1] = t[(i - k) - 1]
      BY <1>3, <3>1
    <3> QED  BY <1>1, <1>4, <3>1, <3>2 DEF Honest
  <2> QED  BY <2>1, <2>2, <2>3
<1>5. Honest(u)
  BY <1>3, <1>4 DEF Honest
<1>6. 1 \in 1..k /\ u[1] = s[1]
  BY <1>1, <1>3
<1>7. m > 0 => u[k + m] = t[m]
  <2> SUFFICES ASSUME m > 0 PROVE u[k + m] = t[m]
    OBVIOUS
  <2>1. k + m \in k + 1..k + m /\ (k + m) - k = m
    OBVIOUS
  <2> QED  BY <1>3, <2>1
<1>8. m = 0 => u[k + m] = s[k]
  BY <1>1, <1>3
<1> QED  BY <1>1, <1>2, <1>3, <1>5, <1>6, <1>7, <1>8

LEMMA HonestAlone ==
  ASSUME NEW x
  PROVE  Honest(<<x>>) /\ IsSeq(<<x>>) /\ Len(<<x>>) = 1 /\ <<x>>[1] = x
BY Alone DEF Honest

\* The cells of a way over open ground, from where he stands.
LEMMA CellsHonest ==
  ASSUME NEW n \in Nat, NEW s, s = Planning!OverCells(n)
  PROVE  /\ IsSeq(s) /\ Len(s) = n /\ Honest(s)
         /\ n > 0 => s[1].from = A /\ s[n].at = Planning!Cell(n)
<1>1. /\ s = [i \in 1..n |-> s[i]]
      /\ \A i \in 1..n : /\ s[i].at = Planning!Cell(i)
                         /\ s[i].from = IF i = 1 THEN A ELSE Planning!Cell(i - 1)
  BY DEF Planning!OverCells, Planning!Walked
<1>2. IsSeq(s) /\ Len(s) = n
  BY <1>1, Listed
<1>3. ASSUME NEW i \in 2..n
      PROVE  s[i].from = s[i - 1].at
  <2>1. i \in 1..n /\ i - 1 \in 1..n /\ i # 1
    OBVIOUS
  <2> QED  BY <1>1, <2>1
<1> QED  BY <1>1, <1>2, <1>3 DEF Honest

\* A way by the pavements: walked to its first node and from its last.
LEMMA PavementsHonest ==
  ASSUME NEW path \in Planning!Paths, prefix \in Nat, Planning!RouteFromAStar(path)
  PROVE  IsSeq(tight') /\ Len(tight') > 0 /\ Honest(tight') /\ smoothing' = FALSE
         /\ UNCHANGED <<pulled, resumed>> /\ stage' = "smooth"
<1>1. PICK n \in Nat \ {0} : path \in [1..n -> {n1, n2}] /\ path[1] = startNode
                             /\ path[Len(path)] = goalNode
  <2>1. PICK n \in Nat \ {0} : path \in [1..n -> {n1, n2}]
    BY DEF Planning!Paths
  <2> QED  BY <2>1 DEF Planning!Paths
<1>2. Len(path) = n
  BY <1>1, Listed
<1>3. PICK lead : lead = <<Planning!Point(A)>>
  OBVIOUS
<1>4. PICK cells : cells = Planning!OverCells(prefix)
  OBVIOUS
<1>5. PICK first : first = <<Planning!Walked(path[1], IF prefix = 0 THEN A
                                                      ELSE Planning!Cell(prefix))>>
  OBVIOUS
<1>6. PICK rest : rest = [i \in 1..(Len(path) - 1) |-> Planning!Point(path[i + 1])]
  OBVIOUS
<1>7. PICK tail : tail = <<Planning!Walked(B, goalNode)>>
  OBVIOUS
<1>8. tight' = lead \o cells \o first \o rest \o tail
  BY <1>3, <1>4, <1>5, <1>6, <1>7 DEF Planning!RouteFromAStar
<1>9. /\ IsSeq(lead) /\ Len(lead) = 1 /\ Honest(lead) /\ lead[1].at = A
  BY <1>3, HonestAlone DEF Planning!Point
<1>10. /\ IsSeq(cells) /\ Len(cells) = prefix /\ Honest(cells)
       /\ prefix > 0 => cells[1].from = A /\ cells[prefix].at = Planning!Cell(prefix)
  BY <1>4, CellsHonest
<1>11. /\ IsSeq(first) /\ Len(first) = 1 /\ Honest(first) /\ first[1].at = path[1]
       /\ first[1].from = IF prefix = 0 THEN A ELSE Planning!Cell(prefix)
  BY <1>5, HonestAlone DEF Planning!Walked
<1>12. /\ IsSeq(rest) /\ Len(rest) = n - 1 /\ Honest(rest)
       /\ \A i \in 1..n - 1 : ~rest[i].seen /\ rest[i].at = path[i + 1]
  <2>1. /\ rest = [i \in 1..n - 1 |-> rest[i]]
        /\ \A i \in 1..n - 1 : rest[i].seen = FALSE /\ rest[i].at = path[i + 1]
    BY <1>2, <1>6 DEF Planning!Point
  <2>2. IsSeq(rest) /\ Len(rest) = n - 1
    BY <2>1, Listed
  <2> QED  BY <2>1, <2>2 DEF Honest
<1>13. /\ IsSeq(tail) /\ Len(tail) = 1 /\ Honest(tail) /\ tail[1].from = goalNode
  BY <1>7, HonestAlone DEF Planning!Walked
<1>14. PICK a : a = lead \o cells
  OBVIOUS
<1>15. /\ IsSeq(a) /\ Honest(a) /\ Len(a) > 0
       /\ a[Len(a)].at = IF prefix = 0 THEN A ELSE Planning!Cell(prefix)
  <2>1. /\ IsSeq(a) /\ Honest(a) /\ Len(a) > 0
        /\ Len(cells) > 0 => a[Len(a)] = cells[Len(cells)]
        /\ Len(cells) = 0 => a[Len(a)] = lead[Len(lead)]
    <3>1. Len(cells) > 0 => (cells[1].seen => cells[1].from = lead[Len(lead)].at)
      BY <1>9, <1>10
    <3>2. Len(lead) > 0 /\ IsSeq(lead) /\ Honest(lead) /\ IsSeq(cells) /\ Honest(cells)
      BY <1>9, <1>10
    <3> QED  BY <1>14, <3>1, <3>2, HonestJoined, Zenon
  <2> QED  BY <1>9, <1>10, <2>1
<1>16. PICK b : b = a \o first
  OBVIOUS
<1>17. IsSeq(b) /\ Honest(b) /\ Len(b) > 0 /\ b[Len(b)].at = path[1]
  BY <1>11, <1>15, <1>16, HonestJoined
<1>18. PICK c : c = b \o rest
  OBVIOUS
<1>19. IsSeq(c) /\ Honest(c) /\ Len(c) > 0 /\ c[Len(c)].at = goalNode
  <2>1. Len(rest) > 0 => 1 \in 1..n - 1
    BY <1>12
  <2>2. /\ IsSeq(c) /\ Honest(c) /\ Len(c) > 0
        /\ Len(rest) > 0 => c[Len(c)] = rest[Len(rest)]
        /\ Len(rest) = 0 => c[Len(c)] = b[Len(b)]
    BY <1>12, <1>17, <1>18, <2>1, HonestJoined
  <2>3. CASE n = 1
    BY <1>1, <1>2, <1>12, <1>17, <2>2, <2>3
  <2>4. CASE n > 1
    <3>1. n - 1 \in 1..n - 1 /\ (n - 1) + 1 = n /\ n - 1 > 0
      BY <2>4
    <3> QED  BY <1>1, <1>2, <1>12, <2>2, <3>1
  <2> QED  BY <2>2, <2>3, <2>4
<1>20. PICK d : d = c \o tail
  OBVIOUS
<1>21. IsSeq(d) /\ Honest(d) /\ Len(d) > 0
  BY <1>13, <1>19, <1>20, HonestJoined
<1>22. tight' = d
  BY <1>8, <1>14, <1>16, <1>18, <1>20
<1> QED  BY <1>21, <1>22 DEF Planning!RouteFromAStar

\* A way over open ground.
LEMMA LatticeHonest ==
  ASSUME NEW n \in Nat, Planning!RouteFromLattice(n)
  PROVE  /\ IsSeq(tight') /\ Len(tight') > 0 /\ Honest(tight')
         /\ resumed' = (resumed \/ smoothing)
         /\ UNCHANGED <<pulled, smoothing>> /\ stage' = "smooth"
<1>1. PICK lead : lead = <<Planning!Point(A)>>
  OBVIOUS
<1>2. PICK cells : cells = Planning!OverCells(n)
  OBVIOUS
<1>3. PICK tail : tail = <<Planning!Point(B)>>
  OBVIOUS
<1>4. /\ IsSeq(lead) /\ Len(lead) = 1 /\ Honest(lead) /\ lead[1].at = A
      /\ IsSeq(tail) /\ Len(tail) = 1 /\ Honest(tail) /\ tail[1].seen = FALSE
  BY <1>1, <1>3, HonestAlone DEF Planning!Point
<1>5. IsSeq(cells) /\ Len(cells) = n /\ Honest(cells) /\ (n > 0 => cells[1].from = A)
  BY <1>2, CellsHonest
<1>6. PICK a : a = lead \o cells
  OBVIOUS
<1>7. IsSeq(a) /\ Honest(a) /\ Len(a) > 0
  <2>1. Len(cells) > 0 => (cells[1].seen => cells[1].from = lead[Len(lead)].at)
    BY <1>4, <1>5
  <2>2. Len(lead) > 0 /\ IsSeq(lead) /\ Honest(lead) /\ IsSeq(cells) /\ Honest(cells)
    BY <1>4, <1>5
  <2> QED  BY <1>6, <2>1, <2>2, HonestJoined, Zenon
<1>8. PICK b : b = a \o tail
  OBVIOUS
<1>9. IsSeq(b) /\ Honest(b) /\ Len(b) > 0
  BY <1>4, <1>7, <1>8, HonestJoined
<1>10. tight' = b
  BY <1>1, <1>2, <1>3, <1>6, <1>8 DEF Planning!RouteFromLattice
<1> QED  BY <1>9, <1>10 DEF Planning!RouteFromLattice

-----------------------------------------------------------------------------
(* The plan: what is pulled tight is honest as far as it has got, and the  *)
(* legs are of what came of it.                                            *)

Told ==
  \A k \in 1..Len(legs) :
    /\ legs[k].from = tight[k].at /\ legs[k].to = tight[k + 1].at
    /\ legs[k].verified => legs[k].walked \/ resumed

RouteInv ==
  /\ prefix \in Nat /\ smoothing \in BOOLEAN /\ resumed \in BOOLEAN
  /\ stage \in {"ends", "direct", "field"} => tight = <<>>
  /\ stage \in {"smooth", "verify"} =>
       IsSeq(tight) /\ Len(tight) > 0 /\ (resumed = FALSE => Honest(tight))
  /\ smoothing = TRUE => IsSeq(pulled) /\ Len(pulled) > 0
  /\ stage = "smooth" /\ smoothing = TRUE /\ resumed = FALSE =>
       /\ Honest(pulled) /\ si \in 1..Len(tight)
       /\ pulled[Len(pulled)].at = tight[si].at
       /\ sj \in Int /\ (sj <= Len(tight) \/ sj <= si + 1)
  /\ stage \notin {"verify", "done"} => legs = <<>>
  /\ stage = "verify" => IsSeq(legs) /\ Len(legs) < Len(tight) /\ Told
  /\ stage = "done" /\ ok /\ tight # <<>> =>
       IsSeq(legs) /\ Len(legs) = Len(tight) - 1 /\ Told

LEMMA RouteInvInit == ASSUME Planning!Init PROVE RouteInv
BY DEF Planning!Init, RouteInv

LEMMA RouteStays ==
  ASSUME RouteInv, UNCHANGED <<stage, prefix, smoothing, resumed, tight, pulled, si, sj, legs, ok>>
  PROVE  RouteInv'
BY DEF RouteInv, Told

LEMMA RouteAfresh ==
  ASSUME Planning!Afresh, stage' \in {"ends", "none"}
  PROVE  RouteInv'
BY DEF Planning!Afresh, RouteInv

LEMMA RouteInVain ==
  ASSUME RouteInv, stage' = "done", ok' = FALSE, UNCHANGED <<prefix, smoothing, resumed, pulled>>
  PROVE  RouteInv'
BY DEF RouteInv

\* A route that is one line, or the field's.
LEMMA RouteOutright ==
  ASSUME RouteInv, stage \in {"direct", "field"}, stage' = "done",
         UNCHANGED <<prefix, smoothing, resumed, tight, pulled>>
  PROVE  RouteInv'
BY DEF RouteInv

LEMMA RouteNotYet ==
  ASSUME RouteInv, stage \in {"ends", "direct", "field"}, stage' \in {"direct", "field"},
         UNCHANGED <<prefix, smoothing, resumed, tight, pulled, legs>>
  PROVE  RouteInv'
BY DEF RouteInv

LEMMA RouteSought ==
  ASSUME RouteInv, stage' \in {"joinStart", "joinGoal", "astar", "lattice"}, prefix' \in Nat,
         legs' = <<>>, UNCHANGED <<smoothing, resumed, tight, pulled>>
  PROVE  RouteInv'
BY DEF RouteInv

\* A new route to be pulled tight, by the pavements or over open ground: what is
\* left of another one is owned to.
LEMMA RouteFound ==
  ASSUME RouteInv, stage' = "smooth", IsSeq(tight'), Len(tight') > 0, Honest(tight'),
         smoothing' \in BOOLEAN, smoothing' = TRUE => smoothing = TRUE /\ resumed' = TRUE,
         resumed' \in BOOLEAN, legs' = <<>>, UNCHANGED <<prefix, pulled>>
  PROVE  RouteInv'
BY DEF RouteInv

-----------------------------------------------------------------------------
(* Pulling tight.                                                          *)

\* What the smoothing under way stands on, begun or not.
Standing ==
  /\ IsSeq(tight) /\ Len(tight) > 0 /\ IsSeq(Planning!Pulled) /\ Len(Planning!Pulled) > 0
  /\ resumed = FALSE =>
       /\ Honest(tight) /\ Honest(Planning!Pulled) /\ Planning!I \in 1..Len(tight)
       /\ Planning!Pulled[Len(Planning!Pulled)].at = tight[Planning!I].at
       /\ Planning!J \in Int
       /\ Planning!J <= Len(tight) \/ Planning!J <= Planning!I + 1

LEMMA FurthestIsWithin ==
  ASSUME Len(tight) \in Nat, NEW i \in Int
  PROVE  Planning!Furthest(i) \in Int /\ Planning!Furthest(i) <= Len(tight)
BY GroundAssumption DEF GroundAssumption, Planning!Furthest

LEMMA SmoothingStands ==
  ASSUME RouteInv, stage = "smooth"
  PROVE  Standing
<1>1. IsSeq(tight) /\ Len(tight) > 0 /\ Len(tight) \in Nat /\ (resumed = FALSE => Honest(tight))
  BY Counted DEF RouteInv
<1>2. CASE smoothing = TRUE
  <2>1. Planning!Pulled = pulled /\ Planning!I = si /\ Planning!J = sj
    BY <1>2 DEF Planning!Pulled, Planning!I, Planning!J
  <2> QED  BY <1>1, <1>2, <2>1 DEF RouteInv, Standing
<1>3. CASE smoothing = FALSE
  <2>1. PICK x : x = Planning!Point(tight[1].at)
    OBVIOUS
  <2>2. Planning!Pulled = <<x>> /\ Planning!I = 1 /\ Planning!J = Planning!Furthest(1)
    BY <1>3, <2>1 DEF Planning!Pulled, Planning!I, Planning!J
  <2>3. IsSeq(<<x>>) /\ Len(<<x>>) = 1 /\ <<x>>[1] = x /\ Honest(<<x>>)
    BY HonestAlone
  <2>4. x.at = tight[1].at
    BY <2>1 DEF Planning!Point
  <2>5. Planning!J \in Int /\ Planning!J <= Len(tight)
    BY <1>1, <2>2, FurthestIsWithin
  <2>6. 1 \in 1..Len(tight)
    BY <1>1
  <2> QED  BY <1>1, <2>2, <2>3, <2>4, <2>5, <2>6 DEF Standing
<1> QED  BY <1>2, <1>3 DEF RouteInv

\* One more point, honest after the last.
LEMMA HonestLonger ==
  ASSUME NEW s, IsSeq(s), Len(s) > 0, Honest(s),
         NEW x, x.seen => x.from = s[Len(s)].at
  PROVE  Honest(Append(s, x))
<1>1. PICK k \in Nat : k = Len(s)
  BY Counted
<1>2. PICK u : u = Append(s, x)
  OBVIOUS
<1>3. Len(u) = k + 1 /\ (\A i \in 1..k : u[i] = s[i]) /\ u[k + 1] = x
  BY <1>1, <1>2, Longer
<1>4. ASSUME NEW i \in 2..k + 1, u[i].seen
      PROVE  u[i].from = u[i - 1].at
  <2>1. CASE i = k + 1
    <3>1. i - 1 = k /\ k \in 1..k
      BY <2>1, <1>1
    <3> QED  BY <1>1, <1>3, <1>4, <2>1, <3>1
  <2>2. CASE i # k + 1
    <3>1. i \in 1..k /\ i - 1 \in 1..k /\ i \in 2..k
      BY <2>2
    <3> QED  BY <1>1, <1>3, <1>4, <3>1 DEF Honest
  <2> QED  BY <2>1, <2>2
<1> QED  BY <1>2, <1>3, <1>4 DEF Honest

\* The smoothing goes on with what it has pulled so far.
LEMMA SmoothingGoesOn ==
  ASSUME RouteInv, stage = "smooth", stage' = "smooth", smoothing' = TRUE,
         UNCHANGED <<prefix, resumed, tight, legs>>,
         IsSeq(pulled'), Len(pulled') > 0,
         resumed = FALSE =>
           /\ Honest(pulled') /\ si' \in 1..Len(tight)
           /\ pulled'[Len(pulled')].at = tight[si'].at
           /\ sj' \in Int /\ (sj' <= Len(tight) \/ sj' <= si' + 1)
  PROVE  RouteInv'
BY DEF RouteInv

LEMMA KeptHonest ==
  ASSUME RouteInv, stage = "smooth", smoothing' = TRUE, Planning!KeepNext,
         UNCHANGED <<stage, prefix, resumed, tight, legs>>
  PROVE  RouteInv'
<1>1. Standing
  BY SmoothingStands
<1>2. PICK s, i, n : s = Planning!Pulled /\ i = Planning!I /\ n = Len(tight)
  OBVIOUS
<1>3. /\ pulled' = Append(s, tight[i + 1]) /\ si' = i + 1
      /\ sj' = Planning!Furthest(i + 1) /\ i < n
  BY <1>2 DEF Planning!KeepNext
<1>4. /\ IsSeq(s) /\ Len(s) > 0 /\ n \in Nat
      /\ resumed = FALSE => Honest(tight) /\ Honest(s) /\ i \in 1..n /\ s[Len(s)].at = tight[i].at
  BY <1>1, <1>2, Counted DEF Standing
<1>5. PICK x : x = tight[i + 1]
  OBVIOUS
<1>6. /\ IsSeq(Append(s, x)) /\ Len(Append(s, x)) = Len(s) + 1
      /\ Append(s, x)[Len(s) + 1] = x /\ Len(s) \in Nat
  BY <1>4, Longer, Counted
<1>7. IsSeq(pulled') /\ Len(pulled') > 0 /\ pulled'[Len(pulled')] = x
  BY <1>3, <1>5, <1>6
<1>8. ASSUME resumed = FALSE
      PROVE  /\ Honest(pulled') /\ si' \in 1..Len(tight)
             /\ pulled'[Len(pulled')].at = tight[si'].at
             /\ sj' \in Int /\ sj' <= Len(tight)
  <2>1. i \in 1..n /\ i + 1 \in 2..n /\ (i + 1) - 1 = i /\ i + 1 \in Int
    BY <1>3, <1>4, <1>8
  <2>2. x.seen => x.from = s[Len(s)].at
    BY <1>2, <1>4, <1>5, <1>8, <2>1 DEF Honest
  <2>3. Honest(pulled')
    BY <1>3, <1>4, <1>5, <1>8, <2>2, HonestLonger
  <2>4. sj' \in Int /\ sj' <= Len(tight)
    BY <1>2, <1>3, <1>4, <2>1, FurthestIsWithin
  <2> QED  BY <1>2, <1>3, <1>5, <1>7, <2>1, <2>3, <2>4
<1> QED  BY <1>7, <1>8, SmoothingGoesOn

LEMMA CutHonest ==
  ASSUME RouteInv, stage = "smooth", smoothing' = TRUE, Planning!Shortcut,
         UNCHANGED <<stage, prefix, resumed, tight, legs>>
  PROVE  RouteInv'
<1>1. Standing
  BY SmoothingStands
<1>2. PICK s, i, j, n : s = Planning!Pulled /\ i = Planning!I /\ j = Planning!J /\ n = Len(tight)
  OBVIOUS
<1>3. PICK near, mark : near = tight[i].at /\ mark = tight[j]
  OBVIOUS
<1>4. /\ IsSeq(s) /\ Len(s) > 0 /\ n \in Nat /\ Len(s) \in Nat
      /\ resumed = FALSE => /\ Honest(s) /\ i \in 1..n /\ s[Len(s)].at = near
                           /\ j \in Int /\ (j <= n \/ j <= i + 1)
  BY <1>1, <1>2, <1>3, Counted DEF Standing
<1>5. /\ i < n /\ j > i + 1
      /\ \/ /\ si' = j /\ sj' = Planning!Furthest(j)
            /\ \/ pulled' = Append(s, Planning!Take(mark, near))
               \/ pulled' = s \o <<Planning!Walked(Planning!Aside(near, mark.at), near),
                                   Planning!Take(mark, Planning!Aside(near, mark.at))>>
         \/ sj' = j - 1 /\ si' = i /\ pulled' = s
  BY <1>2, <1>3 DEF Planning!Shortcut
<1>6. CASE sj' = j - 1 /\ si' = i /\ pulled' = s
  <2>1. resumed = FALSE => sj' \in Int /\ (sj' <= Len(tight) \/ sj' <= si' + 1)
    BY <1>2, <1>4, <1>5, <1>6
  <2>2. resumed = FALSE => pulled'[Len(pulled')].at = tight[si'].at
    BY <1>3, <1>4, <1>6
  <2> QED  BY <1>2, <1>4, <1>6, <2>1, <2>2, SmoothingGoesOn
<1>7. ASSUME si' = j, sj' = Planning!Furthest(j), IsSeq(pulled'), Len(pulled') > 0,
             pulled'[Len(pulled')].at = mark.at, resumed = FALSE => Honest(pulled')
      PROVE  RouteInv'
  <2>1. resumed = FALSE => /\ si' \in 1..Len(tight) /\ sj' \in Int /\ sj' <= Len(tight)
                           /\ pulled'[Len(pulled')].at = tight[si'].at
    <3> SUFFICES ASSUME resumed = FALSE
                 PROVE  /\ si' \in 1..Len(tight) /\ sj' \in Int /\ sj' <= Len(tight)
                        /\ pulled'[Len(pulled')].at = tight[si'].at
      OBVIOUS
    <3>1. j \in Int /\ j \in 1..n
      BY <1>4, <1>5
    <3> QED  BY <1>2, <1>3, <1>4, <1>7, <3>1, FurthestIsWithin
  <2> QED  BY <1>7, <2>1, SmoothingGoesOn
<1>8. CASE /\ si' = j /\ sj' = Planning!Furthest(j)
           /\ pulled' = Append(s, Planning!Take(mark, near))
  <2>1. PICK x : x = Planning!Take(mark, near)
    OBVIOUS
  <2>2. x.at = mark.at /\ x.from = near
    BY <2>1 DEF Planning!Take, Planning!Walked
  <2>3. /\ IsSeq(Append(s, x)) /\ Len(Append(s, x)) = Len(s) + 1
        /\ Append(s, x)[Len(s) + 1] = x
    BY <1>4, Longer
  <2>4. resumed = FALSE => Honest(Append(s, x))
    BY <1>4, <2>2, HonestLonger
  <2>5. pulled' = Append(s, x) /\ si' = j /\ sj' = Planning!Furthest(j)
    BY <1>8, <2>1
  <2>6. IsSeq(pulled') /\ (resumed = FALSE => Honest(pulled'))
    BY <2>3, <2>4, <2>5, Zenon
  <2>7. Len(pulled') = Len(s) + 1 /\ pulled'[Len(s) + 1] = x
    BY <2>3, <2>5, Zenon
  <2>8. Len(pulled') > 0 /\ pulled'[Len(pulled')].at = mark.at
    BY <1>4, <2>2, <2>7
  <2> QED  BY <1>7, <2>5, <2>6, <2>8, Zenon
<1>9. CASE /\ si' = j /\ sj' = Planning!Furthest(j)
           /\ pulled' = s \o <<Planning!Walked(Planning!Aside(near, mark.at), near),
                               Planning!Take(mark, Planning!Aside(near, mark.at))>>
  <2>1. PICK x, y, z : /\ z = Planning!Aside(near, mark.at)
                       /\ x = Planning!Walked(z, near) /\ y = Planning!Take(mark, z)
    OBVIOUS
  <2>2. x.at = z /\ x.from = near /\ y.at = mark.at /\ y.from = z
    BY <2>1 DEF Planning!Take, Planning!Walked
  <2>3. PICK t : t = <<x, y>>
    OBVIOUS
  <2>4. t \in Seq({x, y}) /\ Len(t) = 2 /\ t[1] = x /\ t[2] = y
    BY <2>3
  <2>6. IsSeq(t) /\ Len(t) = 2 /\ t[1] = x /\ t[2] = y
    BY <2>4 DEF IsSeq
  <2>7. Honest(t)
    BY <2>2, <2>6 DEF Honest
  <2>8. PICK u : u = s \o t
    OBVIOUS
  <2>9. IsSeq(u) /\ Len(u) = Len(s) + 2 /\ u[Len(u)] = y
    <3>1. /\ IsSeq(u) /\ Len(u) = Len(s) + Len(t)
          /\ \A m \in Len(s) + 1..Len(s) + Len(t) : u[m] = t[m - Len(s)]
      BY <1>4, <2>6, <2>8, Joined
    <3>2. Len(s) + 2 \in Len(s) + 1..Len(s) + Len(t) /\ (Len(s) + 2) - Len(s) = 2
      BY <1>4, <2>6
    <3> QED  BY <2>6, <3>1, <3>2
  <2>10. resumed = FALSE => Honest(u)
    BY <1>4, <2>2, <2>6, <2>7, <2>8, HonestJoined
  <2>11. pulled' = u
    BY <1>9, <2>1, <2>3, <2>8
  <2>12. Len(u) > 0 /\ u[Len(u)].at = mark.at
    BY <1>4, <2>2, <2>9
  <2>13. IsSeq(pulled') /\ Len(pulled') > 0 /\ (resumed = FALSE => Honest(pulled'))
    BY <2>9, <2>10, <2>11, <2>12
  <2>14. pulled'[Len(pulled')].at = mark.at /\ si' = j /\ sj' = Planning!Furthest(j)
    BY <1>9, <2>11, <2>12
  <2> QED  BY <1>7, <2>13, <2>14, Zenon
<1> QED  BY <1>5, <1>6, <1>8, <1>9

\* All points passed: what was pulled is the route.
LEMMA PassedHonest ==
  ASSUME RouteInv, stage = "smooth", smoothing' = TRUE, Planning!PassEnds,
         UNCHANGED <<prefix, resumed, legs>>
  PROVE  RouteInv'
<1>1. Standing /\ legs = <<>>
  BY SmoothingStands DEF RouteInv
<1>2. PICK s : s = Planning!Pulled
  OBVIOUS
<1>3. IsSeq(s) /\ Len(s) > 0 /\ Len(s) \in Nat /\ (resumed = FALSE => Honest(s)) /\ tight' = s
  BY <1>1, <1>2, Counted DEF Standing, Planning!PassEnds
<1>4. prefix' \in Nat /\ resumed' \in BOOLEAN
  BY DEF RouteInv
<1>5. CASE stage' = "verify" /\ pulled' = s
  <2>1. IsSeq(legs') /\ Len(legs') = 0 /\ legs' = <<>>
    BY <1>1, EmptySeq DEF IsSeq
  <2>2. Told'
    BY <2>1 DEF Told
  <2> QED  BY <1>3, <1>4, <1>5, <2>1, <2>2 DEF RouteInv
<1>6. CASE /\ stage' = "smooth" /\ pulled' = <<Planning!Point(s[1].at)>> /\ si' = 1
           /\ sj' = LET n == 2 + kSmoothLookahead IN IF n < Len(s) THEN n ELSE Len(s)
  <2>1. PICK x : x = Planning!Point(s[1].at)
    OBVIOUS
  <2>2. x.at = s[1].at
    BY <2>1 DEF Planning!Point
  <2>3. IsSeq(<<x>>) /\ Len(<<x>>) = 1 /\ <<x>>[1] = x /\ Honest(<<x>>)
    BY HonestAlone
  <2>4. sj' \in Int /\ sj' <= Len(s)
    BY <1>3, <1>6, GroundAssumption DEF GroundAssumption
  <2>5. IsSeq(pulled') /\ Len(pulled') = 1 /\ pulled'[1].at = tight'[1].at /\ Honest(pulled')
    BY <1>3, <1>6, <2>1, <2>2, <2>3
  <2>6. 1 \in 1..Len(tight')
    BY <1>3
  <2> QED  BY <1>1, <1>3, <1>4, <1>6, <2>4, <2>5, <2>6 DEF RouteInv
<1> QED  BY <1>2, <1>5, <1>6 DEF Planning!PassEnds

\* A step of pulling tight.
LEMMA SmoothedHonest ==
  ASSUME RouteInv, Planning!Smooth
  PROVE  RouteInv'
<1>1. /\ stage = "smooth" /\ smoothing' = TRUE /\ UNCHANGED <<prefix, resumed, legs>>
      /\ \/ Planning!PassEnds
         \/ (Planning!KeepNext \/ Planning!Shortcut) /\ UNCHANGED <<tight, stage>>
  BY DEF Planning!Smooth, Planning!ground, Planning!plan
<1>2. CASE Planning!PassEnds
  BY <1>1, <1>2, PassedHonest
<1>3. CASE Planning!KeepNext /\ UNCHANGED <<tight, stage>>
  BY <1>1, <1>3, KeptHonest
<1>4. CASE Planning!Shortcut /\ UNCHANGED <<tight, stage>>
  BY <1>1, <1>4, CutHonest
<1> QED  BY <1>1, <1>2, <1>3, <1>4

-----------------------------------------------------------------------------
(* Checking what was not walked yet.                                       *)

\* One more leg is told, of the points it lies between.
LEMMA ToldFurther ==
  ASSUME Told, IsSeq(legs), NEW leg, legs' = Append(legs, leg), UNCHANGED <<tight, resumed>>,
         leg.from = tight[Len(legs) + 1].at, leg.to = tight[Len(legs) + 2].at,
         leg.verified => leg.walked \/ resumed
  PROVE  Told' /\ IsSeq(legs') /\ Len(legs') = Len(legs) + 1
<1>1. PICK n \in Nat : n = Len(legs)
  BY Counted
<1>2. PICK u : u = Append(legs, leg)
  OBVIOUS
<1>3. IsSeq(u) /\ Len(u) = n + 1 /\ (\A k \in 1..n : u[k] = legs[k]) /\ u[n + 1] = leg
  BY <1>1, <1>2, Longer
<1>4. ASSUME NEW k \in 1..n + 1
      PROVE  /\ u[k].from = tight[k].at /\ u[k].to = tight[k + 1].at
             /\ u[k].verified => u[k].walked \/ resumed
  <2>1. CASE k = n + 1
    <3>1. u[k] = leg /\ k = Len(legs) + 1 /\ k + 1 = Len(legs) + 2
      BY <1>1, <1>3, <2>1
    <3> QED  BY <3>1
  <2>2. CASE k # n + 1
    <3>1. k \in 1..n
      BY <2>2
    <3> QED  BY <1>1, <1>3, <3>1 DEF Told
  <2> QED  BY <2>1, <2>2
<1>5. legs' = u
  BY <1>2
<1>6. \A k \in 1..Len(legs') : /\ legs'[k].from = tight[k].at /\ legs'[k].to = tight[k + 1].at
                               /\ legs'[k].verified => legs'[k].walked \/ resumed
  BY <1>3, <1>4, <1>5
<1>7. Told'
  BY <1>6 DEF Told
<1> QED  BY <1>1, <1>3, <1>5, <1>7

\* A leg is of the next two points, and was walked where it is said to be.
LEMMA CheckedIsWalked ==
  ASSUME IsSeq(tight), IsSeq(legs), Planning!K <= Len(tight),
         resumed \in BOOLEAN, resumed = FALSE => Honest(tight), NEW leg \in Planning!Checked
  PROVE  /\ leg.from = tight[Len(legs) + 1].at /\ leg.to = tight[Len(legs) + 2].at
         /\ leg.verified => leg.walked \/ resumed
<1>1. PICK n \in Nat, m \in Nat : n = Len(legs) /\ m = Len(tight)
  BY Counted
<1>2. Planning!K = n + 2 /\ Planning!K - 1 = n + 1 /\ n + 2 \in 2..m /\ n + 2 - 1 = n + 1
  BY <1>1 DEF Planning!K
<1>3. PICK mark, near : mark = tight[n + 2] /\ near = tight[n + 1].at
  OBVIOUS
<1>4. \/ /\ mark.seen
         /\ leg = Planning!Leg(near, mark.at, TRUE, TRUE, mark.from = near)
      \/ leg = Planning!Leg(near, mark.at, TRUE, FALSE, FALSE)
      \/ \E fine \in BOOLEAN : leg = Planning!Leg(near, mark.at, fine, TRUE, TRUE)
  BY <1>2, <1>3 DEF Planning!Checked
<1>5. leg.from = near /\ leg.to = mark.at
  BY <1>4 DEF Planning!Leg
<1>6. leg.verified => leg.walked \/ resumed
  <2>1. CASE mark.seen /\ leg = Planning!Leg(near, mark.at, TRUE, TRUE, mark.from = near)
    <3>1. resumed = FALSE => mark.from = near
      BY <1>1, <1>2, <1>3, <2>1 DEF Honest
    <3>2. leg.walked = (mark.from = near)
      BY <2>1 DEF Planning!Leg
    <3> QED  BY <3>1, <3>2
  <2>2. CASE leg = Planning!Leg(near, mark.at, TRUE, FALSE, FALSE)
    BY <2>2 DEF Planning!Leg
  <2>3. CASE \E fine \in BOOLEAN : leg = Planning!Leg(near, mark.at, fine, TRUE, TRUE)
    BY <2>3 DEF Planning!Leg
  <2> QED  BY <1>4, <2>1, <2>2, <2>3
<1> QED  BY <1>1, <1>3, <1>5, <1>6

LEMMA VerifiedHonest ==
  ASSUME RouteInv, Planning!Verify
  PROVE  RouteInv'
<1>1. /\ stage = "verify" /\ UNCHANGED <<prefix, tight, pulled, smoothing, si, sj, resumed>>
  BY DEF Planning!Verify, Planning!ground, Planning!route
<1>2. /\ IsSeq(tight) /\ Len(tight) > 0 /\ (resumed = FALSE => Honest(tight))
      /\ IsSeq(legs) /\ Len(legs) < Len(tight) /\ Told /\ resumed \in BOOLEAN
      /\ Len(tight) \in Nat /\ Len(legs) \in Nat
  BY <1>1, Counted DEF RouteInv
<1>3. CASE Planning!K > Len(tight)
  <2>1. stage' = "done" /\ UNCHANGED legs
    BY <1>3 DEF Planning!Verify, Planning!Done
  <2>2. Len(legs) = Len(tight) - 1
    BY <1>2, <1>3 DEF Planning!K
  <2>3. Told'
    BY <1>1, <1>2, <2>1 DEF Told
  <2> QED  BY <1>1, <1>2, <2>1, <2>2, <2>3 DEF RouteInv
<1>4. ASSUME ~(Planning!K > Len(tight)), NEW leg \in Planning!Checked,
             Planning!Ban(leg), Planning!ReplanWithout
      PROVE  RouteInv'
  <2>1. stage' = "astar" /\ legs' = <<>>
    BY <1>4 DEF Planning!ReplanWithout
  <2>2. prefix' \in Nat
    BY <1>1 DEF RouteInv
  <2> QED  BY <1>1, <2>1, <2>2, RouteSought
<1>5. ASSUME ~(Planning!K > Len(tight)), NEW leg \in Planning!Checked,
             legs' = Append(legs, leg), UNCHANGED stage
      PROVE  RouteInv'
  <2>1. Planning!K <= Len(tight) /\ Len(legs) + 1 < Len(tight)
    BY <1>2, <1>5 DEF Planning!K
  <2>2. /\ leg.from = tight[Len(legs) + 1].at /\ leg.to = tight[Len(legs) + 2].at
        /\ leg.verified => leg.walked \/ resumed
    BY <1>2, <1>5, <2>1, CheckedIsWalked
  <2>3. Told' /\ IsSeq(legs') /\ Len(legs') = Len(legs) + 1
    BY <1>1, <1>2, <1>5, <2>2, ToldFurther
  <2>4. stage' = "verify" /\ Len(legs') < Len(tight')
    BY <1>1, <1>5, <2>1, <2>3
  <2> QED  BY <1>1, <1>2, <2>3, <2>4 DEF RouteInv
<1>6. \/ Planning!K > Len(tight)
      \/ /\ ~(Planning!K > Len(tight))
         /\ \E leg \in Planning!Checked :
              \/ Planning!Ban(leg) /\ Planning!ReplanWithout
              \/ legs' = Append(legs, leg) /\ UNCHANGED stage
  BY DEF Planning!Verify
<1> QED  BY <1>3, <1>4, <1>5, <1>6

-----------------------------------------------------------------------------
(* Every step.                                                             *)

LEMMA EndsRoute ==
  ASSUME RouteInv, Planning!Ends \/ Planning!Direct \/ Planning!FieldStage
  PROVE  RouteInv'
<1>1. UNCHANGED <<prefix, smoothing, resumed, tight, pulled>>
  BY DEF Planning!Ends, Planning!Direct, Planning!FieldStage, Planning!ground, Planning!route
<1>2. CASE Planning!Ends
  <2>1. CASE stage' = "done" /\ ok' = FALSE
    BY <1>1, <2>1, RouteInVain
  <2>2. CASE stage' = "direct" /\ UNCHANGED legs
    BY <1>1, <1>2, <2>2, RouteNotYet DEF Planning!Ends
  <2> QED  BY <1>2, <2>1, <2>2 DEF Planning!Ends, Planning!Done
<1>3. CASE Planning!Direct
  <2>1. CASE stage' = "done"
    BY <1>1, <1>3, <2>1, RouteOutright DEF Planning!Direct
  <2>2. CASE stage' = "field" /\ UNCHANGED legs
    BY <1>1, <1>3, <2>2, RouteNotYet DEF Planning!Direct
  <2> QED  BY <1>3, <2>1, <2>2 DEF Planning!Direct, Planning!Done
<1>4. CASE Planning!FieldStage
  <2>1. stage = "field" /\ legs = <<>>
    BY <1>4 DEF Planning!FieldStage, RouteInv
  <2>2. CASE stage' = "field" /\ UNCHANGED legs
    BY <1>1, <2>1, <2>2, RouteNotYet
  <2>3. CASE stage' = "done"
    BY <1>1, <2>1, <2>3, RouteOutright
  <2>4. CASE stage' \in {"joinStart", "lattice"} /\ UNCHANGED legs
    <3>1. prefix' \in Nat /\ legs' = <<>>
      BY <1>1, <2>1, <2>4 DEF RouteInv
    <3> QED  BY <1>1, <2>4, <3>1, RouteSought
  <2>5. \/ UNCHANGED <<stage, Planning!plan>>
        \/ Planning!FieldAnswers
    BY <1>4 DEF Planning!FieldStage
  <2> QED  BY <2>1, <2>2, <2>3, <2>4, <2>5 DEF Planning!FieldAnswers, Planning!Done, Planning!plan
<1> QED  BY <1>2, <1>3, <1>4

LEMMA JoiningRoute ==
  ASSUME RouteInv, Planning!Joining
  PROVE  RouteInv'
<1>1. UNCHANGED <<prefix, smoothing, resumed, tight, pulled, legs, ok, si, sj>>
  BY DEF Planning!Joining, Planning!route, Planning!plan
<1>2. /\ stage \in {"joinStart", "joinGoal"}
      /\ stage' \in {"joinStart", "joinGoal", "astar", "lattice"}
  BY DEF Planning!Joining, Planning!Load, Planning!NoGraph, Planning!JoinStart, Planning!JoinGoal
<1>3. prefix' \in Nat /\ legs' = <<>>
  BY <1>1, <1>2 DEF RouteInv
<1> QED  BY <1>1, <1>2, <1>3, RouteSought

LEMMA AStarRoute ==
  ASSUME RouteInv, Planning!AStar
  PROVE  RouteInv'
<1>1. stage = "astar" /\ UNCHANGED <<prefix, legs>>
  BY DEF Planning!AStar, Planning!ground, Planning!plan
<1>2. prefix \in Nat /\ legs' = <<>> /\ smoothing \in BOOLEAN /\ resumed \in BOOLEAN
  BY <1>1 DEF RouteInv
<1>3. ASSUME NEW path \in Planning!Paths, Planning!RouteFromAStar(path)
      PROVE  RouteInv'
  <2>1. IsSeq(tight') /\ Len(tight') > 0 /\ Honest(tight') /\ smoothing' = FALSE
        /\ UNCHANGED <<pulled, resumed>> /\ stage' = "smooth"
    BY <1>2, <1>3, PavementsHonest
  <2> QED  BY <1>1, <1>2, <2>1, RouteFound
<1>4. CASE stage' = "lattice" /\ UNCHANGED <<tight, pulled, smoothing, resumed>>
  BY <1>1, <1>2, <1>4, RouteSought
<1> QED  BY <1>3, <1>4 DEF Planning!AStar, Planning!route

LEMMA LatticeRoute ==
  ASSUME RouteInv, Planning!Lattice
  PROVE  RouteInv'
<1>1. stage = "lattice" /\ UNCHANGED legs
  BY DEF Planning!Lattice, Planning!LatticeStarts, Planning!LatticeStops, Planning!LatticeLooks
<1>2. prefix \in Nat /\ legs' = <<>> /\ smoothing \in BOOLEAN /\ resumed \in BOOLEAN
  BY <1>1 DEF RouteInv
<1>3. CASE Planning!LatticeStarts
  BY <1>1, <1>2, <1>3, RouteSought DEF Planning!LatticeStarts, Planning!route
<1>4. CASE Planning!LatticeStops
  <2>1. UNCHANGED <<prefix, smoothing, resumed, tight, pulled>>
    BY <1>4 DEF Planning!LatticeStops, Planning!route
  <2>2. stage' = stage \/ (stage' = "done" /\ ok' = FALSE)
    BY <1>4 DEF Planning!LatticeStops, Planning!LatticeEnds, Planning!Done
  <2>3. CASE stage' = stage
    BY <1>1, <1>2, <2>1, <2>3, RouteSought
  <2>4. CASE stage' = "done" /\ ok' = FALSE
    BY <2>1, <2>4, RouteInVain
  <2> QED  BY <2>2, <2>3, <2>4
<1>5. CASE Planning!LatticeLooks
  <2>1. \/ UNCHANGED <<stage, prefix, Planning!route>>
        \/ /\ prefix' \in 1..MaxRoute /\ stage' = "joinGoal"
           /\ UNCHANGED Planning!route
        \/ /\ \E n \in 0..MaxRoute : Planning!RouteFromLattice(n)
           /\ UNCHANGED prefix
    BY <1>5 DEF Planning!LatticeLooks
  <2>2. CASE UNCHANGED <<stage, prefix, Planning!route>>
    BY <1>1, <1>2, <2>2, RouteSought DEF Planning!route
  <2>3. CASE prefix' \in 1..MaxRoute /\ stage' = "joinGoal" /\ UNCHANGED Planning!route
    BY <1>1, <1>2, <2>3, RouteSought, GroundAssumption DEF GroundAssumption, Planning!route
  <2>4. ASSUME NEW n \in 0..MaxRoute, Planning!RouteFromLattice(n), UNCHANGED prefix
        PROVE  RouteInv'
    <3>1. n \in Nat
      BY GroundAssumption DEF GroundAssumption
    <3>2. /\ IsSeq(tight') /\ Len(tight') > 0 /\ Honest(tight')
          /\ resumed' = (resumed \/ smoothing)
          /\ UNCHANGED <<pulled, smoothing>> /\ stage' = "smooth"
      BY <2>4, <3>1, LatticeHonest
    <3>3. /\ smoothing' \in BOOLEAN /\ resumed' \in BOOLEAN
          /\ smoothing' = TRUE => smoothing = TRUE /\ resumed' = TRUE
      BY <1>2, <3>2
    <3> QED  BY <1>1, <1>2, <2>4, <3>2, <3>3, RouteFound
  <2> QED  BY <2>1, <2>2, <2>3, <2>4
<1> QED  BY <1>3, <1>4, <1>5 DEF Planning!Lattice

LEMMA RouteStep ==
  ASSUME RouteInv, Planning!Next
  PROVE  RouteInv'
<1>1. CASE Planning!Start
  BY <1>1, RouteAfresh DEF Planning!Start
<1>2. CASE Planning!Cancel
  <2>1. CASE stage' = "none" /\ Planning!Afresh
    BY <2>1, RouteAfresh
  <2>2. CASE UNCHANGED <<stage, Planning!ground, Planning!route, Planning!plan>>
    BY <2>2, RouteStays DEF Planning!ground, Planning!route, Planning!plan
  <2> QED  BY <1>2, <2>1, <2>2 DEF Planning!Cancel
<1>3. CASE Planning!StepOnce
  BY <1>3, EndsRoute, JoiningRoute, AStarRoute, LatticeRoute, SmoothedHonest, VerifiedHonest
     DEF Planning!StepOnce
<1>4. CASE Planning!Search
  BY <1>4, RouteStays DEF Planning!Search, Planning!ground, Planning!route, Planning!plan
<1>5. CASE Planning!Distrust
  BY <1>5, RouteInVain DEF Planning!Distrust, Planning!Done, Planning!ground, Planning!route
<1>6. CASE Planning!BudgetRuns
  BY <1>6, RouteStays DEF Planning!BudgetRuns, Planning!ground, Planning!route, Planning!plan
<1>7. CASE Planning!PlanPath
  BY <1>7, RouteStays DEF Planning!PlanPath, Planning!ground, Planning!route, Planning!plan
<1> QED  BY <1>1, <1>2, <1>3, <1>4, <1>5, <1>6, <1>7 DEF Planning!Next

LEMMA ToldIsWalked ==
  ASSUME RouteInv
  PROVE  VerifiedWasWalked
<1> SUFFICES ASSUME stage = "done", ok, tight # <<>>
             PROVE  /\ Len(legs) = Len(tight) - 1
                    /\ \A k \in DOMAIN legs :
                         /\ legs[k].from = tight[k].at /\ legs[k].to = tight[k + 1].at
                         /\ legs[k].verified => legs[k].walked \/ resumed
  BY DEF VerifiedWasWalked, Planning!VerifiedWasWalked
<1>1. IsSeq(legs) /\ Len(legs) = Len(tight) - 1 /\ Told
  BY DEF RouteInv
<1>2. DOMAIN legs = 1..Len(legs)
  BY <1>1, Counted
<1> QED  BY <1>1, <1>2 DEF Told

-----------------------------------------------------------------------------
\* What a plan says was walked was walked, from the point the leg begins at, and
\* its legs are its way points in order, whatever was searched, banned, found
\* over and pulled tight before (planner.cpp:549-550).
THEOREM WalkedIsVerified == GroundSpec => []VerifiedWasWalked
<1>1. GroundInit => RouteInv
  BY RouteInvInit DEF GroundInit
<1>2. RouteInv /\ [GroundNext]_everything => RouteInv'
  <2> SUFFICES ASSUME RouteInv, [GroundNext]_everything
               PROVE  RouteInv'
    OBVIOUS
  <2>1. Planning!Next \/ UNCHANGED planvars
    BY DEF GroundNext, everything
  <2>2. CASE Planning!Next
    BY <2>2, RouteStep
  <2>3. CASE UNCHANGED planvars
    BY <2>3, RouteStays DEF planvars
  <2> QED  BY <2>1, <2>2, <2>3
<1> QED  BY <1>1, <1>2, ToldIsWalked, PTL DEF GroundSpec, everything

\* The grid is there as long as somebody searches it: a job is not got rid of
\* before its field's thread is done (field.cpp:245-249).
THEOREM GridIsOutlived == GroundSpec => []GridOutlivesItsSearch
<1>1. GroundInit => GridOutlivesItsSearch
  BY DEF GroundInit, Planning!Init, GridOutlivesItsSearch, Planning!GridOutlivesItsSearch
<1>2. GridOutlivesItsSearch /\ [GroundNext]_everything => GridOutlivesItsSearch'
  <2> SUFFICES ASSUME GridOutlivesItsSearch, [GroundNext]_everything
               PROVE  GridOutlivesItsSearch'
    OBVIOUS
  <2> USE DEF GridOutlivesItsSearch, Planning!GridOutlivesItsSearch
  <2>1. CASE Planning!Start
    BY <2>1 DEF Planning!Start, Planning!Afresh, Planning!Alone
  <2>2. CASE Planning!Cancel
    BY <2>2 DEF Planning!Cancel, Planning!Afresh, Planning!Alone
  <2>3. CASE Planning!StepOnce
    <3>1. CASE Planning!Ends
      BY <3>1 DEF Planning!Ends, Planning!Done, Planning!fields
    <3>2. CASE Planning!Direct
      BY <3>2 DEF Planning!Direct, Planning!Done, Planning!fields
    <3>3. CASE Planning!FieldStage
      BY <3>3 DEF Planning!FieldStage, Planning!FieldAnswers, Planning!Done
    <3>4. CASE Planning!Joining
      BY <3>4 DEF Planning!Joining, Planning!Load, Planning!NoGraph, Planning!JoinStart,
                  Planning!JoinGoal, Planning!fields
    <3>5. CASE Planning!AStar
      BY <3>5 DEF Planning!AStar, Planning!RouteFromAStar, Planning!fields
    <3>6. CASE Planning!Lattice
      BY <3>6 DEF Planning!Lattice, Planning!LatticeStarts, Planning!LatticeStops,
                  Planning!LatticeEnds, Planning!LatticeLooks, Planning!RouteFromLattice,
                  Planning!Done, Planning!fields
    <3>7. CASE Planning!Smooth
      BY <3>7 DEF Planning!Smooth, Planning!PassEnds, Planning!fields
    <3>8. CASE Planning!Verify
      BY <3>8 DEF Planning!Verify, Planning!ReplanWithout, Planning!Done, Planning!fields
    <3> QED  BY <2>3, <3>1, <3>2, <3>3, <3>4, <3>5, <3>6, <3>7, <3>8 DEF Planning!StepOnce
  <2>4. CASE Planning!Search
    BY <2>4 DEF Planning!Search
  <2>5. CASE Planning!Distrust
    BY <2>5 DEF Planning!Distrust, Planning!Done, Planning!fields
  <2>6. CASE Planning!BudgetRuns
    BY <2>6 DEF Planning!BudgetRuns, Planning!fields
  <2>7. CASE Planning!PlanPath
    BY <2>7 DEF Planning!PlanPath, Planning!fields
  <2>8. CASE UNCHANGED planvars
    BY <2>8 DEF planvars
  <2> QED  BY <2>1, <2>2, <2>3, <2>4, <2>5, <2>6, <2>7, <2>8
           DEF GroundNext, everything, Planning!Next
<1> QED  BY <1>1, <1>2, PTL DEF GroundSpec, everything

-----------------------------------------------------------------------------
(* Numbers, folds and sequences.                                           *)

\* Induction over numbers, of a set.
LEMMA AllNumbers ==
  ASSUME NEW T, T \subseteq Nat, 0 \in T, \A n \in T : n + 1 \in T
  PROVE  T = Nat
<1> SUFFICES ASSUME NEW k \in Nat, k \notin T PROVE FALSE
  OBVIOUS
<1> DEFINE U == Nat \ T
<1>1. PICK R : R = OpToRel(<, Nat)
  OBVIOUS
<1>2. IsWellFoundedOn(R, Nat)
  BY <1>1, NatLessThanWellFounded
<1>3. U \subseteq Nat /\ U # {}
  OBVIOUS
<1>4. PICK n \in U : \A m \in U : ~(<<m, n>> \in R)
  <2> HIDE DEF U
  <2> QED  BY <1>2, <1>3, WFMin
<1>5. n \in Nat /\ n \notin T /\ n # 0
  BY <1>4
<1>6. n - 1 \in Nat /\ n - 1 < n /\ (n - 1) + 1 = n
  BY <1>5
<1>7. n - 1 \in T
  BY <1>1, <1>4, <1>5, <1>6 DEF OpToRel
<1> QED  BY <1>5, <1>6, <1>7

\* A step for every set of numbers up to n, the greatest taken last.
FoldsUp(h, n, V, base, F) ==
  /\ h \in [SUBSET (1..n) -> V]
  /\ \A S \in SUBSET (1..n) : h[S] = IF S = {} THEN base ELSE F[<<h[S \ {Max(S)}], Max(S)>>]

LEMMA FoldExists ==
  ASSUME NEW V, NEW base \in V, NEW F, \A v \in V : \A i \in Nat : F[<<v, i>>] \in V, NEW n \in Nat
  PROVE  \E h : FoldsUp(h, n, V, base, F)
<1> DEFINE Folds(h, m) ==
      /\ h \in [SUBSET (1..m) -> V]
      /\ \A S \in SUBSET (1..m) : h[S] = IF S = {} THEN base ELSE F[<<h[S \ {Max(S)}], Max(S)>>]
           T == {m \in Nat : \E h : Folds(h, m)}
<1>1. 0 \in T
  <2>1. PICK h : h = [S \in SUBSET (1..0) |-> base]
    OBVIOUS
  <2>2. SUBSET (1..0) = {{}}
    <3>1. 1..0 = {}
      OBVIOUS
    <3> QED  BY <3>1
  <2>3. Folds(h, 0)
    BY <2>1, <2>2
  <2> QED  BY <2>3
<1>2. ASSUME NEW m \in T
      PROVE  m + 1 \in T
  <2>1. PICK h : Folds(h, m)
    BY <1>2
  <2>2. PICK g : g = [S \in SUBSET (1..(m + 1)) |->
                        IF m + 1 \in S THEN F[<<h[S \ {m + 1}], m + 1>>] ELSE h[S]]
    OBVIOUS
  <2>3. \A S \in SUBSET (1..(m + 1)) : S \ {m + 1} \in SUBSET (1..m) /\ (m + 1 \notin S => S \in SUBSET (1..m))
    <3>1. \A x \in 1..(m + 1) : x # m + 1 => x \in 1..m
      OBVIOUS
    <3> QED  BY <3>1
  <2>4. m \in Nat /\ m + 1 \in Nat
    OBVIOUS
  <2>5. g \in [SUBSET (1..(m + 1)) -> V]
    BY <2>1, <2>2, <2>3, <2>4
  <2>6. ASSUME NEW S \in SUBSET (1..(m + 1))
        PROVE  g[S] = IF S = {} THEN base ELSE F[<<g[S \ {Max(S)}], Max(S)>>]
    <3>1. CASE m + 1 \in S
      <4>1. Max(S) = m + 1
        <5>1. \A y \in S : m + 1 >= y
          BY <2>4
        <5>2. \A x \in S : (\A y \in S : x >= y) => x = m + 1
          BY <2>4, <3>1
        <5> QED  BY <3>1, <5>1, <5>2 DEF Max
      <4>2. S \ {m + 1} \in SUBSET (1..(m + 1)) /\ m + 1 \notin S \ {m + 1}
        OBVIOUS
      <4>3. g[S \ {m + 1}] = h[S \ {m + 1}]
        BY <2>2, <4>2
      <4>4. g[S] = F[<<h[S \ {m + 1}], m + 1>>]
        BY <2>2, <3>1
      <4> QED  BY <3>1, <4>1, <4>3, <4>4
    <3>2. CASE m + 1 \notin S
      <4>1. S \in SUBSET (1..m) /\ g[S] = h[S]
        BY <2>2, <2>3, <3>2
      <4>2. S \ {Max(S)} \in SUBSET (1..(m + 1)) /\ m + 1 \notin S \ {Max(S)}
        BY <3>2
      <4>3. g[S \ {Max(S)}] = h[S \ {Max(S)}]
        BY <2>2, <4>2
      <4> QED  BY <2>1, <4>1, <4>3
    <3> QED  BY <3>1, <3>2
  <2>7. Folds(g, m + 1)
    BY <2>5, <2>6
  <2> QED  BY <2>4, <2>7
<1>3. T = Nat
  <2>1. T \subseteq Nat
    OBVIOUS
  <2> HIDE DEF T
  <2> QED  BY <1>1, <1>2, <2>1, AllNumbers
<1>4. \E h : Folds(h, n)
  BY <1>3
<1> QED  BY <1>4 DEF FoldsUp

\* The greatest of the first so many numbers is the last.
LEMMA LastTaken ==
  ASSUME NEW k \in Nat
  PROVE  Max(1..(k + 1)) = k + 1 /\ (1..(k + 1)) \ {k + 1} = 1..k
<1>1. k + 1 \in 1..(k + 1) /\ \A y \in 1..(k + 1) : k + 1 >= y
  OBVIOUS
<1>2. \A x \in 1..(k + 1) : (\A y \in 1..(k + 1) : x >= y) => x = k + 1
  BY <1>1
<1>3. Max(1..(k + 1)) = k + 1
  BY <1>1, <1>2 DEF Max
<1>4. \A x : x \in (1..(k + 1)) \ {k + 1} <=> x \in 1..k
  OBVIOUS
<1> QED  BY <1>3, <1>4

\* What Max chooses is one of them.
LEMMA GreatestIsOne ==
  ASSUME NEW n \in Nat, NEW S \in SUBSET (1..n), S # {}
  PROVE  Max(S) \in S
<1> DEFINE Has(m) == \A X \in SUBSET (1..m) : X # {} => \E x \in X : \A y \in X : x >= y
           T == {m \in Nat : Has(m)}
<1>1. 0 \in T
  <2>1. 1..0 = {}
    OBVIOUS
  <2> QED  BY <2>1
<1>2. ASSUME NEW m \in T
      PROVE  m + 1 \in T
  <2> SUFFICES ASSUME NEW X \in SUBSET (1..(m + 1)), X # {}
               PROVE  \E x \in X : \A y \in X : x >= y
    OBVIOUS
  <2>1. CASE m + 1 \in X
    BY <2>1
  <2>2. CASE m + 1 \notin X
    <3>1. \A x \in 1..(m + 1) : x # m + 1 => x \in 1..m
      OBVIOUS
    <3>2. X \in SUBSET (1..m)
      BY <2>2, <3>1
    <3> QED  BY <1>2, <3>2
  <2> QED  BY <2>1, <2>2
<1>3. T = Nat
  <2>1. T \subseteq Nat
    OBVIOUS
  <2> HIDE DEF T
  <2> QED  BY <1>1, <1>2, <2>1, AllNumbers
<1> QED  BY <1>3 DEF Max

\* What a look round a square appends, one after another.
Fresh == Indoors!Tiles \ (reached \cup blocked)
Round(c) == {Indoors!Beyond(c, Indoors!Ways[i]) : i \in {j \in 1..8 : Indoors!Free(c, Indoors!Ways[j])}}

LEMMA AppendedRange ==
  ASSUME NEW N, NEW s \in Seq(N), NEW x \in N
  PROVE  Append(s, x) \in Seq(N) /\ Range(Append(s, x)) = Range(s) \cup {x}
<1>1. /\ Append(s, x) \in Seq(N) /\ Len(Append(s, x)) = Len(s) + 1
      /\ \A i \in 1..Len(s) : Append(s, x)[i] = s[i]
      /\ Append(s, x)[Len(s) + 1] = x
  BY AppendProperties
<1>2. Len(s) \in Nat /\ DOMAIN s = 1..Len(s) /\ DOMAIN Append(s, x) = 1..(Len(s) + 1)
  BY <1>1, LenProperties
<1>3. PICK n \in Nat, t \in {Append(s, x)} : n = Len(s) /\ t = Append(s, x)
  BY <1>2
<1>4. /\ \A i \in 1..n : t[i] = s[i]
      /\ t[n + 1] = x /\ DOMAIN t = 1..(n + 1) /\ DOMAIN s = 1..n
  BY <1>1, <1>2, <1>3
<1>5. Range(t) = Range(s) \cup {x}
  <2>1. \A i \in 1..(n + 1) : i \in 1..n \/ i = n + 1
    OBVIOUS
  <2>2. \A i \in 1..n : i \in 1..(n + 1)
    OBVIOUS
  <2>3. n + 1 \in 1..(n + 1)
    OBVIOUS
  <2> QED  BY ONLY <1>4, <2>1, <2>2, <2>3, Zenon DEF Range
<1> QED  BY <1>1, <1>3, <1>5

\* The fold of a look, square by square: what may be stepped to, in order.
LEMMA FoundRound ==
  ASSUME NEW c
  PROVE  Indoors!Found(c) \in Seq(Fresh) /\ Range(Indoors!Found(c)) = Round(c)
<1> DEFINE May(k) == Indoors!Free(c, Indoors!Ways[k])
           Nearby(k) == Indoors!Beyond(c, Indoors!Ways[k])
           F == [p \in Seq(Fresh) \X Nat |-> IF May(p[2]) THEN Append(p[1], Nearby(p[2])) ELSE p[1]]
           Solves(g) == g = [S \in SUBSET DOMAIN Indoors!Ways |->
                               IF S = {} THEN <<>>
                               ELSE IF May(Indoors!Max(S))
                                    THEN Append(g[S \ {Indoors!Max(S)}], Nearby(Indoors!Max(S)))
                                    ELSE g[S \ {Indoors!Max(S)}]]
<1>0. PICK n \in Nat : n = 8
  OBVIOUS
<1>1. DOMAIN Indoors!Ways = 1..n
  BY <1>0 DEF Indoors!Ways
<1>2. \A k : May(k) => Nearby(k) \in Fresh
  BY DEF Indoors!Free, Fresh
<1>i. \A S : Indoors!Max(S) = Max(S)
  BY DEF Indoors!Max, Max
<1>3. \E g : Solves(g)
  <2>1. <<>> \in Seq(Fresh)
    OBVIOUS
  <2>2. ASSUME NEW v \in Seq(Fresh), NEW i \in Nat
        PROVE  /\ F[<<v, i>>] = IF May(i) THEN Append(v, Nearby(i)) ELSE v
               /\ F[<<v, i>>] \in Seq(Fresh)
    <3> HIDE DEF May, Nearby
    <3> QED  BY <1>2
  <2>3. PICK h \in [SUBSET (1..n) -> Seq(Fresh)] : \A S \in SUBSET (1..n) :
           h[S] = IF S = {} THEN <<>> ELSE F[<<h[S \ {Max(S)}], Max(S)>>]
    <3>1. \A v \in Seq(Fresh) : \A i \in Nat : F[<<v, i>>] \in Seq(Fresh)
      BY <2>2
    <3> HIDE DEF F
    <3>2. PICK V, e, G : V = Seq(Fresh) /\ e = <<>> /\ G = F
      OBVIOUS
    <3>3. e \in V /\ \A v \in V : \A i \in Nat : G[<<v, i>>] \in V
      BY <2>1, <3>1, <3>2
    <3>4. \E h : FoldsUp(h, n, V, e, G)
      BY <3>3, FoldExists, Zenon
    <3> QED  BY <3>2, <3>4 DEF FoldsUp
  <2>4. ASSUME NEW S \in SUBSET (1..n), S # {}
        PROVE  h[S] = IF May(Max(S)) THEN Append(h[S \ {Max(S)}], Nearby(Max(S))) ELSE h[S \ {Max(S)}]
    <3>1. PICK x : x = Max(S)
      OBVIOUS
    <3>2. x \in S
      BY <2>4, <3>1, GreatestIsOne, Zenon
    <3>3. S \ {x} \in SUBSET (1..n) /\ x \in Nat
      BY <3>2
    <3>4. h[S \ {x}] \in Seq(Fresh)
      BY <2>3, <3>3
    <3>5. h[S] = F[<<h[S \ {x}], x>>]
      BY <2>3, <2>4, <3>1
    <3> HIDE DEF May, Nearby, F
    <3>6. h[S] = IF May(x) THEN Append(h[S \ {x}], Nearby(x)) ELSE h[S \ {x}]
      BY <2>2, <3>3, <3>4, <3>5
    <3> QED  BY <3>1, <3>6
  <2>5. Solves(h)
    <3> HIDE DEF May, Nearby
    <3> QED  BY <1>1, <1>i, <2>3, <2>4
  <2> QED  BY <2>5
<1>4. Indoors!Found(c) = (CHOOSE g : Solves(g))[DOMAIN Indoors!Ways]
  BY DEF Indoors!Found, Indoors!FoldLeft, Indoors!MapThenFoldSet
<1>5. PICK g : Solves(g) /\ Indoors!Found(c) = g[1..n]
  <2> HIDE DEF Solves
  <2> QED  BY <1>1, <1>3, <1>4
<1>6. /\ g[{}] = <<>>
      /\ \A S \in SUBSET (1..n) : S # {} =>
           g[S] = IF May(Max(S)) THEN Append(g[S \ {Max(S)}], Nearby(Max(S))) ELSE g[S \ {Max(S)}]
  <2> HIDE DEF May, Nearby
  <2> QED  BY <1>1, <1>5, <1>i
<1> HIDE DEF May, Nearby, Solves, F
<1>7. ASSUME NEW k \in Nat, k + 1 <= n
      PROVE  g[1..(k + 1)] = IF May(k + 1) THEN Append(g[1..k], Nearby(k + 1)) ELSE g[1..k]
  <2>1. PICK S, m : S = 1..(k + 1) /\ m = k + 1
    OBVIOUS
  <2>2. Max(S) = m /\ S \ {m} = 1..k
    BY <2>1, LastTaken
  <2>3. S \in SUBSET (1..n) /\ S # {}
    BY <1>7, <2>1
  <2>4. g[S] = IF May(m) THEN Append(g[1..k], Nearby(m)) ELSE g[1..k]
    BY <1>6, <2>2, <2>3
  <2> QED  BY <2>1, <2>4
<1> DEFINE Upto(k) == {Nearby(i) : i \in {j \in 1..k : May(j)}}
           Right(k) == g[1..k] \in Seq(Fresh) /\ Range(g[1..k]) = Upto(k)
           T == {k \in Nat : k <= n => Right(k)}
<1>8. 0 \in T
  <2>1. 1..0 = {}
    OBVIOUS
  <2>2. <<>> \in Seq(Fresh) /\ Range(<<>>) = {}
    BY DEF Range
  <2>3. Upto(0) = {}
    BY <2>1
  <2> QED  BY <1>6, <2>1, <2>2, <2>3
<1>9. ASSUME NEW k \in T
      PROVE  k + 1 \in T
  <2> SUFFICES ASSUME k + 1 <= n
               PROVE  Right(k + 1)
    OBVIOUS
  <2>0. k \in Nat /\ k <= n
    OBVIOUS
  <2>1. Right(k)
    BY <1>9, <2>0
  <2>2. \A j : j \in 1..(k + 1) <=> j \in 1..k \/ j = k + 1
    BY <2>0
  <2>3. CASE May(k + 1)
    <3>1. Upto(k + 1) = Upto(k) \cup {Nearby(k + 1)}
      <4> HIDE DEF T
      <4> QED  BY <2>2, <2>3
    <3>2. PICK s \in Seq(Fresh), x \in Fresh : s = g[1..k] /\ x = Nearby(k + 1)
      BY <1>2, <2>1, <2>3 DEF May, Nearby
    <3>3. g[1..(k + 1)] = Append(s, x)
      BY <1>7, <2>0, <2>3, <3>2
    <3>4. Append(s, x) \in Seq(Fresh) /\ Range(Append(s, x)) = Range(s) \cup {x}
      BY ONLY s \in Seq(Fresh), x \in Fresh, AppendedRange
    <3> QED  BY <2>1, <3>1, <3>2, <3>3, <3>4, Zenon
  <2>4. CASE ~May(k + 1)
    <3>1. Upto(k + 1) = Upto(k)
      <4> HIDE DEF T
      <4> QED  BY <2>2, <2>4
    <3>2. g[1..(k + 1)] = g[1..k]
      BY <1>7, <2>0, <2>4
    <3> QED  BY <2>1, <3>1, <3>2, Zenon
  <2> QED  BY <2>3, <2>4
<1>10. Right(n)
  <2>1. T \subseteq Nat
    OBVIOUS
  <2>2. T = Nat
    <3> HIDE DEF T
    <3> QED  BY <1>8, <1>9, <2>1, AllNumbers
  <2>3. n \in T /\ n <= n
    <3> HIDE DEF T
    <3> QED  BY <2>2
  <2> HIDE DEF Right
  <2> QED  BY <2>3
<1>11. Upto(n) = Round(c)
  BY <1>0, Zenon DEF Round, May, Nearby
<1> QED  BY <1>5, <1>10, <1>11

-----------------------------------------------------------------------------
(* Squares: what may be stepped to is what lies beside.                    *)

LEMMA SmallSquare ==
  ASSUME NEW a \in Int, NEW b \in Int, a * a + b * b <= 2
  PROVE  a \in {-1, 0, 1}
<1>1. b * b >= 0 /\ a * a <= 2
  <2>1. b >= 0 => b * b >= 0
    OBVIOUS
  <2>2. b <= 0 => b * b >= 0
    OBVIOUS
  <2> QED  BY <2>1, <2>2
<1>2. a >= 2 => a * a >= 4
  OBVIOUS
<1>3. a <= -2 => a * a >= 4
  OBVIOUS
<1> QED  BY <1>1, <1>2, <1>3

Plane == Int \X Int

\* A square is one away in exactly eight ways.
LEMMA EightRound ==
  ASSUME NEW c \in Plane, NEW d \in Plane, Indoors!Away(c, d) \in {1, 2}
  PROVE  \E i \in 1..8 : d = Indoors!Beyond(c, Indoors!Ways[i])
<1>1. PICK u \in Int, v \in Int, x \in Int, y \in Int : c = <<u, v>> /\ d = <<x, y>>
  BY DEF Plane
<1>2. (u - x) * (u - x) + (v - y) * (v - y) \in {1, 2}
  BY <1>1 DEF Indoors!Away
<1>3. PICK a \in Int, b \in Int : a = x - u /\ b = y - v
  OBVIOUS
<1>4. a * a + b * b \in {1, 2} /\ b * b + a * a \in {1, 2}
  <2>1. a * a = (u - x) * (u - x) /\ b * b = (v - y) * (v - y)
    BY <1>3
  <2> QED  BY <1>2, <2>1
<1>5. a \in {-1, 0, 1} /\ b \in {-1, 0, 1}
  <2>1. a * a + b * b <= 2 /\ b * b + a * a <= 2
    BY <1>4
  <2> QED  BY <2>1, SmallSquare
<1>6. ~(a = 0 /\ b = 0)
  BY <1>4
<1>7. d = <<u + a, v + b>> /\ c[1] = u /\ c[2] = v
  BY <1>1, <1>3
<1>8. \E i \in 1..8 : Indoors!Ways[i] = <<a, b>>
  BY <1>5, <1>6 DEF Indoors!Ways
<1> QED  BY <1>7, <1>8 DEF Indoors!Beyond

LEMMA EachRound ==
  ASSUME NEW c \in Plane, NEW i \in 1..8
  PROVE  LET d == Indoors!Beyond(c, Indoors!Ways[i])
         IN  /\ d \in Plane /\ Indoors!Away(c, d) \in {1, 2}
             /\ d[1] = c[1] + Indoors!Ways[i][1] /\ d[2] = c[2] + Indoors!Ways[i][2]
<1>1. PICK u \in Int, v \in Int : c = <<u, v>>
  BY DEF Plane
<1>2. PICK a \in {-1, 0, 1}, b \in {-1, 0, 1} : Indoors!Ways[i] = <<a, b>> /\ ~(a = 0 /\ b = 0)
  BY DEF Indoors!Ways
<1>3. Indoors!Beyond(c, Indoors!Ways[i]) = <<u + a, v + b>>
  BY <1>1, <1>2 DEF Indoors!Beyond
<1>4. Indoors!Away(<<u, v>>, <<u + a, v + b>>) = a * a + b * b
  <2>1. Indoors!Away(<<u, v>>, <<u + a, v + b>>) = (u - (u + a)) * (u - (u + a)) + (v - (v + b)) * (v - (v + b))
    BY DEF Indoors!Away
  <2>2. u - (u + a) = -a /\ v - (v + b) = -b
    OBVIOUS
  <2>3. (-a) * (-a) = a * a /\ (-b) * (-b) = b * b
    OBVIOUS
  <2> QED  BY <2>1, <2>2, <2>3
<1>5. a * a + b * b \in {1, 2}
  BY <1>2
<1> QED  BY <1>1, <1>2, <1>3, <1>4, <1>5 DEF Plane

\* What is found round a square is what lies beside it and may be stepped to.
LEMMA RoundIsBeside ==
  ASSUME NEW c \in Indoors!Tiles \ blocked, Indoors!Tiles \subseteq Plane
  PROVE  Round(c) = {d \in Indoors!Beside(c) \ reached : Indoors!Clear(c, d) /\ Indoors!HasFloor(d)}
<1>1. ASSUME NEW i \in 1..8, Indoors!Free(c, Indoors!Ways[i]), NEW d, d = Indoors!Beyond(c, Indoors!Ways[i])
      PROVE  d \in Indoors!Beside(c) \ reached /\ Indoors!Clear(c, d) /\ Indoors!HasFloor(d)
  <2>1. /\ d \in Plane /\ Indoors!Away(c, d) \in {1, 2}
        /\ d[1] = c[1] + Indoors!Ways[i][1] /\ d[2] = c[2] + Indoors!Ways[i][2]
    BY <1>1, EachRound
  <2>2. /\ d \in Indoors!Tiles \ (reached \cup blocked)
        /\ <<d[1], c[2]>> \notin blocked /\ <<c[1], d[2]>> \notin blocked
        /\ Indoors!HasFloor(d)
    BY <1>1, <2>1 DEF Indoors!Free
  <2> QED  BY <2>1, <2>2 DEF Indoors!Beside, Indoors!Clear
<1>2. ASSUME NEW d \in Indoors!Beside(c) \ reached, Indoors!Clear(c, d), Indoors!HasFloor(d)
      PROVE  d \in Round(c)
  <2>1. d \in Indoors!Tiles /\ Indoors!Away(c, d) \in {1, 2}
    BY DEF Indoors!Beside
  <2>2. PICK i \in 1..8 : d = Indoors!Beyond(c, Indoors!Ways[i])
    BY <2>1, EightRound
  <2>3. d[1] = c[1] + Indoors!Ways[i][1] /\ d[2] = c[2] + Indoors!Ways[i][2]
    BY <2>2, EachRound
  <2>4. d \notin blocked /\ <<d[1], c[2]>> \notin blocked /\ <<c[1], d[2]>> \notin blocked
    BY <1>2 DEF Indoors!Clear
  <2>5. Indoors!Free(c, Indoors!Ways[i])
    BY <1>2, <2>1, <2>2, <2>3, <2>4 DEF Indoors!Free
  <2> QED  BY <2>2, <2>5 DEF Round
<1> HIDE DEF Round
<1>3. ASSUME NEW d \in Round(c)
      PROVE  d \in {e \in Indoors!Beside(c) \ reached : Indoors!Clear(c, e) /\ Indoors!HasFloor(e)}
  <2>1. PICK i \in 1..8 : Indoors!Free(c, Indoors!Ways[i]) /\ d = Indoors!Beyond(c, Indoors!Ways[i])
    BY DEF Round
  <2> QED  BY <1>1, <2>1
<1> QED  BY <1>2, <1>3

-----------------------------------------------------------------------------
(* What is flooded, and the way back.                                      *)

Apart(Barred, c, d) == {c, d, <<c[1], d[2]>>, <<d[1], c[2]>>} \cap Barred = {}
Follows(Barred, c, d) == d \in Indoors!Beside(c) /\ Apart(Barred, c, d)
LeadsTo(Barred, R, w, d) ==
  /\ w \in Seq(R) /\ Len(w) > 0 /\ w[Len(w)] = d
  /\ \A n \in 2..Len(w) : Follows(Barred, w[n - 1], w[n])
Looked(c) == \A d \in Indoors!Beside(c) : Indoors!Clear(c, d) /\ Indoors!HasFloor(d) => d \in reached
IsBack(back, r, R, cf) ==
  back = [d \in R |-> IF d = r.from THEN <<d>> ELSE Append(back[cf[d]], d)]

\* Whatever is reached and not waiting has been looked round; each square was
\* come to from one reached before it, so that the way back to his feet exists
\* (its recursion has a solution) and every solution of it is a way.
RoomInv ==
  /\ room \in Rooms /\ blocked = Indoors!Painted
  /\ room.from \in reached /\ reached \subseteq Indoors!Tiles \ blocked
  /\ flood \in Seq(reached)
  /\ \A c \in reached \ Range(flood) : Looked(c)
  /\ cameFrom \in [reached \ {room.from} -> reached]
  /\ \E back : IsBack(back, room, reached, cameFrom)
  /\ \A back : IsBack(back, room, reached, cameFrom) =>
       \A d \in reached : LeadsTo(blocked, reached, back[d], d)
  /\ points # <<>> =>
       /\ flood = <<>> /\ best \in reached
       /\ \A d \in reached : Indoors!Away(best, room.towards) <= Indoors!Away(d, room.towards)

\* A way goes on to the next square.
LEMMA LeadsOn ==
  ASSUME NEW Barred, NEW R, NEW w, NEW c, LeadsTo(Barred, R, w, c), NEW d \in R, Follows(Barred, c, d)
  PROVE  LeadsTo(Barred, R, Append(w, d), d)
<1>1. w \in Seq(R) /\ Len(w) \in Nat /\ Len(w) > 0
  BY LenProperties DEF LeadsTo
<1>2. PICK n \in Nat : n = Len(w) /\ n > 0
  BY <1>1
<1>3. PICK t : t = Append(w, d)
  OBVIOUS
<1>4. /\ t \in Seq(R) /\ Len(t) = n + 1 /\ t[n + 1] = d
      /\ \A i \in 1..n : t[i] = w[i]
  BY <1>1, <1>2, <1>3, AppendProperties
<1>5. w[n] = c /\ \A i \in 2..n : Follows(Barred, w[i - 1], w[i])
  BY <1>2 DEF LeadsTo
<1>6. ASSUME NEW i \in 2..(n + 1)
      PROVE  Follows(Barred, t[i - 1], t[i])
  <2>1. CASE i = n + 1
    <3>1. i - 1 = n /\ n \in 1..n
      BY <1>2, <2>1
    <3> QED  BY <1>4, <1>5, <2>1, <3>1
  <2>2. CASE i # n + 1
    <3>1. i \in 2..n /\ i - 1 \in 1..n /\ i \in 1..n
      BY <1>2, <2>2
    <3> QED  BY <1>4, <1>5, <3>1
  <2> QED  BY <2>1, <2>2
<1>7. n + 1 > 0
  OBVIOUS
<1> QED  BY <1>3, <1>4, <1>6, <1>7 DEF LeadsTo

LEMMA LeadsWithin ==
  ASSUME NEW Barred, NEW R, NEW Q, R \subseteq Q, NEW w, NEW d, LeadsTo(Barred, R, w, d)
  PROVE  LeadsTo(Barred, Q, w, d)
<1>1. w \in Seq(R)
  BY DEF LeadsTo
<1>2. w \in Seq(Q)
  BY <1>1, SeqMonotonic
<1> QED  BY <1>2 DEF LeadsTo

LEMMA LeadsHere ==
  ASSUME NEW Barred, NEW R, NEW d \in R
  PROVE  LeadsTo(Barred, R, <<d>>, d)
<1>1. <<d>> \in Seq(R) /\ Len(<<d>>) = 1 /\ <<d>>[1] = d
  OBVIOUS
<1> QED  BY <1>1 DEF LeadsTo

LEMMA TilesArePairs == Indoors!Tiles \subseteq Plane
BY RoomAssumption DEF RoomAssumption, Indoors!Tiles, Plane

LEMMA StartIsFree ==
  ASSUME room \in Rooms
  PROVE  room.from \in Indoors!Tiles \ Indoors!Painted
<1>1. room.from \in Indoors!Tiles /\ kSqueezeOut \in Nat
  BY RoomAssumption DEF RoomAssumption, Indoors!Tiles
<1>2. Indoors!Away(room.from, room.from) = 0
  <2>1. room.from[1] \in Int /\ room.from[2] \in Int
    BY <1>1, TilesArePairs DEF Plane
  <2>2. room.from[1] - room.from[1] = 0 /\ room.from[2] - room.from[2] = 0
    BY <2>1
  <2> QED  BY <2>2 DEF Indoors!Away
<1>3. room.from \in Indoors!Within(room.from, kSqueezeOut)
  BY <1>1, <1>2 DEF Indoors!Within
<1> QED  BY <1>1, <1>3 DEF Indoors!Painted

LEMMA RoomInvInit == ASSUME Indoors!Init PROVE RoomInv
<1>1. /\ room \in Rooms /\ blocked = Indoors!Painted /\ reached = {room.from}
      /\ flood = <<room.from>> /\ cameFrom = <<>> /\ points = <<>>
  BY DEF Indoors!Init
<1>2. room.from \in reached /\ reached \subseteq Indoors!Tiles \ blocked
  BY <1>1, StartIsFree
<1>3. flood \in Seq(reached) /\ reached \ Range(flood) = {}
  <2>1. flood[1] = room.from /\ 1 \in DOMAIN flood
    BY <1>1
  <2>2. room.from \in Range(flood)
    BY <2>1 DEF Range
  <2> QED  BY <1>1, <2>2
<1>4. cameFrom \in [reached \ {room.from} -> reached]
  <2>1. reached \ {room.from} = {}
    BY <1>1
  <2> QED  BY <1>1, <2>1
<1>5. \E back : IsBack(back, room, reached, cameFrom)
  <2>1. PICK back : back = [d \in reached |-> <<d>>]
    OBVIOUS
  <2> QED  BY <1>1, <2>1 DEF IsBack
<1>6. ASSUME NEW back, IsBack(back, room, reached, cameFrom), NEW d \in reached
      PROVE  LeadsTo(blocked, reached, back[d], d)
  <2>1. back[d] = <<d>>
    BY <1>1, <1>6 DEF IsBack
  <2> QED  BY <2>1, LeadsHere
<1> QED  BY <1>1, <1>2, <1>3, <1>4, <1>5, <1>6 DEF RoomInv

LEMMA TailRange ==
  ASSUME NEW N, NEW s \in Seq(N), s # <<>>
  PROVE  Tail(s) \in Seq(N) /\ Head(s) \in N /\ Range(s) = {Head(s)} \cup Range(Tail(s))
<1>1. PICK n \in Nat : n = Len(s) /\ n > 0
  BY LenProperties, EmptySeq
<1>2. PICK t : t = Tail(s)
  OBVIOUS
<1>3. PICK h : h = Head(s)
  OBVIOUS
<1>4. /\ t \in Seq(N) /\ h \in N /\ h = s[1] /\ Len(t) = n - 1
      /\ \A i \in 1..(n - 1) : t[i] = s[i + 1]
  BY <1>1, <1>2, <1>3, HeadTailProperties
<1>5. DOMAIN s = 1..n /\ DOMAIN t = 1..(n - 1)
  BY <1>1, <1>4, LenProperties
<1>6. ASSUME NEW i \in 1..n
      PROVE  i = 1 \/ (i - 1 \in 1..(n - 1) /\ t[i - 1] = s[i])
  <2>1. i # 1 => i - 1 \in 1..(n - 1) /\ (i - 1) + 1 = i
    BY <1>1
  <2> QED  BY <1>4, <2>1
<1>7. ASSUME NEW i \in 1..(n - 1)
      PROVE  i + 1 \in 1..n /\ t[i] = s[i + 1]
  BY <1>1, <1>4
<1>8. 1 \in 1..n
  BY <1>1
<1>9. Range(s) = {h} \cup Range(t)
  <2>1. ASSUME NEW x \in Range(s) PROVE x \in {h} \cup Range(t)
    <3>1. PICK i \in 1..n : x = s[i]
      BY <1>5 DEF Range
    <3> QED  BY ONLY <1>4, <1>5, <1>6, <3>1 DEF Range
  <2>2. ASSUME NEW x \in Range(t) PROVE x \in Range(s)
    <3>1. PICK i \in 1..(n - 1) : x = t[i]
      BY <1>5 DEF Range
    <3> QED  BY ONLY <1>5, <1>7, <3>1 DEF Range
  <2>3. h \in Range(s)
    BY <1>4, <1>5, <1>8 DEF Range
  <2> QED  BY <2>1, <2>2, <2>3
<1> QED  BY <1>2, <1>3, <1>4, <1>9

LEMMA JoinedRange ==
  ASSUME NEW N, NEW s \in Seq(N), NEW t \in Seq(N)
  PROVE  s \o t \in Seq(N) /\ Range(s \o t) = Range(s) \cup Range(t)
<1>1. PICK m \in Nat, n \in Nat : m = Len(s) /\ n = Len(t)
  BY LenProperties
<1>2. PICK u : u = s \o t
  OBVIOUS
<1>3. /\ u \in Seq(N) /\ Len(u) = m + n
      /\ \A i \in 1..(m + n) : u[i] = IF i <= m THEN s[i] ELSE t[i - m]
  BY <1>1, <1>2, ConcatProperties
<1>4. DOMAIN s = 1..m /\ DOMAIN t = 1..n /\ DOMAIN u = 1..(m + n)
  BY <1>1, <1>3, LenProperties
<1>5. ASSUME NEW i \in 1..(m + n)
      PROVE  (i \in 1..m /\ u[i] = s[i]) \/ (i - m \in 1..n /\ u[i] = t[i - m])
  BY <1>3
<1>6. ASSUME NEW i \in 1..m
      PROVE  i \in 1..(m + n) /\ u[i] = s[i]
  BY <1>3
<1>7. ASSUME NEW i \in 1..n
      PROVE  i + m \in 1..(m + n) /\ u[i + m] = t[i]
  <2>1. i + m \in 1..(m + n) /\ ~(i + m <= m) /\ (i + m) - m = i
    OBVIOUS
  <2> QED  BY <1>3, <2>1
<1>8. Range(u) = Range(s) \cup Range(t)
  <2>1. ASSUME NEW x \in Range(u) PROVE x \in Range(s) \cup Range(t)
    <3>1. PICK i \in 1..(m + n) : x = u[i]
      BY <1>4 DEF Range
    <3> QED  BY ONLY <1>4, <1>5, <3>1 DEF Range
  <2>2. ASSUME NEW x \in Range(s) PROVE x \in Range(u)
    <3>1. PICK i \in 1..m : x = s[i]
      BY <1>4 DEF Range
    <3> QED  BY ONLY <1>4, <1>6, <3>1 DEF Range
  <2>3. ASSUME NEW x \in Range(t) PROVE x \in Range(u)
    <3>1. PICK i \in 1..n : x = t[i]
      BY <1>4 DEF Range
    <3> QED  BY ONLY <1>4, <1>7, <3>1 DEF Range
  <2> QED  BY <2>1, <2>2, <2>3
<1> QED  BY <1>2, <1>3, <1>8

\* One square of the flood.
LEMMA RoomInvFlood ==
  ASSUME RoomInv, Indoors!Flood
  PROVE  RoomInv'
<1>1. /\ room \in Rooms /\ blocked = Indoors!Painted
      /\ room.from \in reached /\ reached \subseteq Indoors!Tiles \ blocked
      /\ flood \in Seq(reached) /\ flood # <<>>
      /\ UNCHANGED <<room, blocked, best, points>>
  BY DEF RoomInv, Indoors!Flood
<1>2. PICK c, rest : c = Head(flood) /\ rest = Tail(flood)
  OBVIOUS
<1>3. c \in reached /\ rest \in Seq(reached) /\ Range(flood) = {c} \cup Range(rest)
  BY <1>1, <1>2, TailRange
<1>4. PICK shown : shown = Indoors!Found(c)
  OBVIOUS
<1>5. PICK news : news = Round(c)
  OBVIOUS
<1>6. shown \in Seq(Fresh) /\ Range(shown) = news
  BY <1>4, <1>5, FoundRound
<1>7. news = {d \in Indoors!Beside(c) \ reached : Indoors!Clear(c, d) /\ Indoors!HasFloor(d)}
  BY <1>1, <1>3, <1>5, RoundIsBeside, TilesArePairs
<1>8. /\ flood' = rest \o shown /\ reached' = reached \cup news
      /\ cameFrom' = [d \in DOMAIN cameFrom \cup news |-> IF d \in DOMAIN cameFrom THEN cameFrom[d] ELSE c]
  <2>1. Indoors!Range(shown) = Range(shown)
    BY DEF Indoors!Range, Range
  <2>2. /\ flood' = Tail(flood) \o Indoors!Found(Head(flood))
        /\ reached' = reached \cup Indoors!Range(Indoors!Found(Head(flood)))
        /\ cameFrom' = [d \in DOMAIN cameFrom \cup Indoors!Range(Indoors!Found(Head(flood))) |->
                           IF d \in DOMAIN cameFrom THEN cameFrom[d] ELSE Head(flood)]
    BY DEF Indoors!Flood
  <2> QED  BY <1>2, <1>4, <1>6, <2>1, <2>2, Zenon
<1>9. news \subseteq Indoors!Tiles \ blocked
  BY <1>7 DEF Indoors!Beside, Indoors!Clear
<1>10. flood' \in Seq(reached') /\ Range(flood') = Range(rest) \cup news
  <2>1. shown \in Seq(news)
    <3>1. PICK n \in Nat : n = Len(shown) /\ DOMAIN shown = 1..n /\ shown \in [1..n -> Fresh]
      BY <1>6, LenProperties
    <3>2. \A i \in 1..n : shown[i] \in news
      BY <1>6, <3>1 DEF Range
    <3>3. shown \in [1..n -> news]
      BY <3>1, <3>2
    <3> QED  BY <3>3, SeqDef
  <2>2. shown \in Seq(reached') /\ rest \in Seq(reached')
    <3>1. news \subseteq reached' /\ reached \subseteq reached'
      BY <1>8
    <3> QED  BY <1>3, <2>1, <3>1, SeqMonotonic
  <2>3. rest \o shown \in Seq(reached') /\ Range(rest \o shown) = Range(rest) \cup Range(shown)
    BY <2>2, JoinedRange, Zenon
  <2> QED  BY <1>6, <1>8, <2>3
<1>11. ASSUME NEW d \in (reached \ Range(flood))'
       PROVE  Looked(d)'
  <2>1. Looked(d)' <=> \A e \in Indoors!Beside(d) : Indoors!Clear(d, e) /\ Indoors!HasFloor(e) => e \in reached'
    BY <1>1 DEF Looked, Indoors!Beside, Indoors!Clear, Indoors!HasFloor, Indoors!Tiles, Indoors!Away
  <2>2. CASE d = c
    BY <1>7, <1>8, <2>1, <2>2
  <2>3. CASE d # c
    <3>1. d \in reached \ Range(flood)
      BY <1>3, <1>8, <1>10, <2>3
    <3>2. Looked(d)
      BY <3>1 DEF RoomInv
    <3> QED  BY <1>8, <2>1, <3>2 DEF Looked
  <2> QED  BY <2>2, <2>3
<1>12. cameFrom' \in [reached' \ {room.from} -> reached']
       /\ (\A d \in reached \ {room.from} : cameFrom'[d] = cameFrom[d] /\ cameFrom[d] \in reached)
       /\ (\A d \in news : cameFrom'[d] = c /\ d # room.from /\ d \notin reached)
  <2>1. cameFrom \in [reached \ {room.from} -> reached]
    BY DEF RoomInv
  <2>2. news \cap reached = {} /\ room.from \notin news
    BY <1>1, <1>7
  <2>3. DOMAIN cameFrom = reached \ {room.from}
    BY <2>1
  <2>4. DOMAIN cameFrom \cup news = reached' \ {room.from}
    BY <1>1, <1>8, <2>2, <2>3
  <2> QED  BY <1>3, <1>8, <2>1, <2>2, <2>3, <2>4
<1>13. \E back : IsBack(back, room, reached', cameFrom')
  <2>1. PICK b : IsBack(b, room, reached, cameFrom)
    BY DEF RoomInv
  <2>2. PICK g : g = [d \in reached' |-> IF d \in reached THEN b[d] ELSE Append(b[c], d)]
    OBVIOUS
  <2>3. \A d \in reached : g[d] = b[d]
    BY <1>8, <2>2
  <2>4. ASSUME NEW d \in reached'
        PROVE  g[d] = IF d = room.from THEN <<d>> ELSE Append(g[cameFrom'[d]], d)
    <3>1. CASE d = room.from
      <4>1. g[d] = b[d] /\ b[d] = <<d>>
        BY <1>1, <2>1, <2>3, <3>1 DEF IsBack
      <4> QED  BY <3>1, <4>1
    <3>2. CASE d \in reached /\ d # room.from
      <4>1. g[d] = b[d] /\ b[d] = Append(b[cameFrom[d]], d)
        BY <2>1, <2>3, <3>2 DEF IsBack
      <4>2. g[cameFrom'[d]] = b[cameFrom[d]]
        BY <1>12, <2>3, <3>2
      <4> QED  BY <3>2, <4>1, <4>2
    <3>3. CASE d \notin reached
      <4>1. d \in news /\ g[d] = Append(b[c], d)
        BY <1>8, <2>2, <3>3
      <4>2. g[cameFrom'[d]] = b[c] /\ d # room.from
        BY <1>3, <1>12, <2>3, <4>1
      <4> QED  BY <4>1, <4>2
    <3> QED  BY <3>1, <3>2, <3>3
  <2>5. IsBack(g, room, reached', cameFrom')
    BY <2>2, <2>4, Zenon DEF IsBack
  <2> QED  BY <2>5
<1>14. ASSUME NEW back, IsBack(back, room, reached', cameFrom'), NEW d \in reached'
       PROVE  LeadsTo(blocked, reached', back[d], d)
  <2>1. PICK b : b = [e \in reached |-> back[e]]
    OBVIOUS
  <2>2. \A e \in reached' : back[e] = IF e = room.from THEN <<e>> ELSE Append(back[cameFrom'[e]], e)
    BY <1>14, Zenon DEF IsBack
  <2>3. IsBack(b, room, reached, cameFrom)
    <3>1. ASSUME NEW e \in reached
          PROVE  b[e] = IF e = room.from THEN <<e>> ELSE Append(b[cameFrom[e]], e)
      <4>1. e \in reached' /\ b[e] = back[e]
        BY <1>8, <2>1
      <4>2. CASE e = room.from
        BY <2>2, <4>1, <4>2
      <4>3. CASE e # room.from
        <5>1. cameFrom'[e] = cameFrom[e] /\ b[cameFrom[e]] = back[cameFrom[e]]
          BY <1>12, <2>1, <4>3
        <5>2. back[e] = Append(back[cameFrom'[e]], e)
          BY <2>2, <4>1, <4>3
        <5> QED  BY <4>1, <4>3, <5>1, <5>2
      <4> QED  BY <4>2, <4>3
    <3> QED  BY <2>1, <3>1, Zenon DEF IsBack
  <2>4. ASSUME NEW e \in reached
        PROVE  LeadsTo(blocked, reached', back[e], e)
    <3>1. LeadsTo(blocked, reached, b[e], e)
      BY <2>3 DEF RoomInv
    <3>2. b[e] = back[e] /\ reached \subseteq reached'
      BY <1>8, <2>1
    <3>3. LeadsTo(blocked, reached', b[e], e)
      BY <3>1, <3>2, LeadsWithin
    <3> QED  BY <3>2, <3>3
  <2>5. CASE d \notin reached
    <3>1. d \in news /\ d # room.from /\ cameFrom'[d] = c
      BY <1>8, <1>12, <2>5
    <3>2. PICK w : w = back[c]
      OBVIOUS
    <3>3. back[d] = Append(w, d) /\ LeadsTo(blocked, reached', w, c)
      BY <1>3, <2>2, <2>4, <3>1, <3>2
    <3>4. Follows(blocked, c, d)
      BY <1>7, <3>1 DEF Follows, Apart, Indoors!Clear
    <3>5. LeadsTo(blocked, reached', Append(w, d), d)
      BY <3>3, <3>4, LeadsOn
    <3> QED  BY <3>3, <3>5
  <2> QED  BY <2>4, <2>5
<1>15. points = <<>>
  BY <1>1 DEF RoomInv
<1>16. blocked' = Indoors!Painted' /\ room' = room /\ blocked' = blocked /\ points' = points
  <2>1. Indoors!Painted' = Indoors!Painted
    BY <1>1 DEF Indoors!Painted, Indoors!Opened, Indoors!InTheWay, Indoors!Within, Indoors!Away, Indoors!Tiles
  <2> QED  BY <1>1, <2>1
<1>17. room.from \in reached' /\ reached' \subseteq Indoors!Tiles \ blocked
  BY <1>1, <1>8, <1>9
<1> QED
  BY <1>1, <1>10, <1>11, <1>12, <1>13, <1>14, <1>15, <1>16, <1>17 DEF RoomInv

LEMMA RoomInvFinish ==
  ASSUME RoomInv, Indoors!Finish
  PROVE  RoomInv'
<1>1. /\ flood = <<>> /\ UNCHANGED <<room, blocked, reached, cameFrom, flood>>
      /\ best' \in reached
      /\ \A d \in reached : Indoors!Away(best', room.towards) <= Indoors!Away(d, room.towards)
  BY DEF Indoors!Finish
<1>2. Indoors!Painted' = Indoors!Painted
  BY <1>1 DEF Indoors!Painted, Indoors!Opened, Indoors!InTheWay, Indoors!Within, Indoors!Away, Indoors!Tiles
<1>3. \A c : Looked(c)' <=> Looked(c)
  BY <1>1 DEF Looked, Indoors!Beside, Indoors!Clear, Indoors!HasFloor, Indoors!Tiles, Indoors!Away
<1>4. \A c, d : Indoors!Away(c, d)' = Indoors!Away(c, d)
  BY DEF Indoors!Away
<1> QED  BY <1>1, <1>2, <1>3, <1>4 DEF RoomInv

LEMMA RoomInvStays ==
  ASSUME RoomInv, UNCHANGED roomvars
  PROVE  RoomInv'
<1>1. UNCHANGED <<room, blocked, reached, cameFrom, flood, best, points>>
  BY DEF roomvars
<1>2. Indoors!Painted' = Indoors!Painted
  BY <1>1 DEF Indoors!Painted, Indoors!Opened, Indoors!InTheWay, Indoors!Within, Indoors!Away, Indoors!Tiles
<1>3. \A c : Looked(c)' <=> Looked(c)
  BY <1>1 DEF Looked, Indoors!Beside, Indoors!Clear, Indoors!HasFloor, Indoors!Tiles, Indoors!Away
<1>4. \A c, d : Indoors!Away(c, d)' = Indoors!Away(c, d)
  BY DEF Indoors!Away
<1> QED  BY <1>1, <1>2, <1>3, <1>4 DEF RoomInv

\* A square that is not shut keeps off the pickups he was not sent to.
LEMMA PickupsKept ==
  ASSUME room \in Rooms, NEW c \in Indoors!Tiles \ Indoors!Painted, NEW p \in room.pickups,
         Indoors!Away(c, p) <= kPickupDisc
  PROVE  \/ Indoors!Away(p, room.towards) <= kBeside
         \/ Indoors!Away(c, room.from) <= kSqueezeOut \/ Indoors!Away(p, room.from) <= kSqueezeOut
<1>1. p \in Plane /\ room.towards \in Plane /\ room.from \in Plane
  <2>1. room.from \in Indoors!Tiles
    BY StartIsFree
  <2> QED  BY <2>1, RoomAssumption, TilesArePairs DEF RoomAssumption, Plane
<1>2. \A a \in Plane, b \in Plane : Indoors!Away(a, b) \in Int
  BY DEF Indoors!Away, Plane
<1>3. kBeside \in Nat /\ kSqueezeOut \in Nat
  BY RoomAssumption DEF RoomAssumption
<1>4. CASE p \in Indoors!InTheWay
  <2>1. c \in Indoors!Within(p, kPickupDisc)
    BY DEF Indoors!Within
  <2>2. c \in Indoors!Within(room.from, kSqueezeOut)
    BY <1>4, <2>1 DEF Indoors!Painted
  <2> QED  BY <2>2 DEF Indoors!Within
<1>5. CASE p \notin Indoors!InTheWay
  <2>1. ~(Indoors!Away(p, room.towards) > kBeside /\ Indoors!Away(p, room.from) > kSqueezeOut)
    BY <1>5 DEF Indoors!InTheWay
  <2> QED  BY <1>1, <1>2, <1>3, <2>1
<1> QED  BY <1>4, <1>5

LEMMA RoomInvIsEnough == ASSUME RoomInv PROVE RoomIsUsed
<1> SUFFICES ASSUME points # <<>> PROVE RoomIsUsed
  BY DEF RoomIsUsed, Indoors!RoomIsUsed
<1>1. /\ flood = <<>> /\ best \in reached
      /\ \A d \in reached : Indoors!Away(best, room.towards) <= Indoors!Away(d, room.towards)
      /\ room \in Rooms /\ blocked = Indoors!Painted /\ reached \subseteq Indoors!Tiles \ blocked
  BY DEF RoomInv
<1>2. \A c \in reached : Looked(c)
  <2>1. Range(flood) = {}
    BY <1>1 DEF Range
  <2> QED  BY <2>1 DEF RoomInv
<1>3. PICK back : /\ IsBack(back, room, reached, cameFrom)
                  /\ Indoors!WayTo(best) = back[best]
  <2>1. Indoors!WayTo(best) = (CHOOSE back : IsBack(back, room, reached, cameFrom))[best]
    BY DEF Indoors!WayTo, IsBack
  <2>2. \E back : IsBack(back, room, reached, cameFrom)
    BY DEF RoomInv
  <2> QED  BY <2>1, <2>2
<1>4. PICK walked : walked = Indoors!WayTo(best) /\ LeadsTo(blocked, reached, walked, best)
  BY <1>1, <1>3 DEF RoomInv
<1>5. \A n \in 2..Len(walked) : walked[n] \in Indoors!Beside(walked[n - 1]) /\ Indoors!Clear(walked[n - 1], walked[n])
  BY <1>4 DEF LeadsTo, Follows, Apart, Indoors!Clear
<1>6. \A n \in DOMAIN walked : walked[n] \in reached
  BY <1>4, LenProperties, ElementOfSeq DEF LeadsTo
<1>7. \A n \in DOMAIN walked : \A p \in room.pickups :
        Indoors!Away(walked[n], p) <= kPickupDisc =>
          \/ Indoors!Away(p, room.towards) <= kBeside
          \/ Indoors!Away(walked[n], room.from) <= kSqueezeOut
          \/ Indoors!Away(p, room.from) <= kSqueezeOut
  <2> SUFFICES ASSUME NEW n \in DOMAIN walked, NEW p \in room.pickups,
                      Indoors!Away(walked[n], p) <= kPickupDisc
               PROVE  \/ Indoors!Away(p, room.towards) <= kBeside
                      \/ Indoors!Away(walked[n], room.from) <= kSqueezeOut
                      \/ Indoors!Away(p, room.from) <= kSqueezeOut
    OBVIOUS
  <2>1. PICK c : c = walked[n]
    OBVIOUS
  <2>2. c \in Indoors!Tiles \ Indoors!Painted
    BY <1>1, <1>6, <2>1
  <2> QED  BY <1>1, <2>1, <2>2, PickupsKept
<1> QED  BY <1>1, <1>2, <1>4, <1>5, <1>7, Zenon DEF RoomIsUsed, Indoors!RoomIsUsed, Looked

-----------------------------------------------------------------------------
\* He is taken as near to where he was going as the room allows, by squares that
\* lie beside each other with nothing solid at a corner between them, and off the
\* pickups he was not sent to (indoors.cpp:211-247, 253-262).
THEOREM RoomIsFlooded == GroundSpec => []RoomIsUsed
<1>1. GroundInit => RoomInv
  BY RoomInvInit DEF GroundInit
<1>2. RoomInv /\ [GroundNext]_everything => RoomInv'
  <2> SUFFICES ASSUME RoomInv, [GroundNext]_everything
               PROVE  RoomInv'
    OBVIOUS
  <2>1. Indoors!Flood \/ Indoors!Finish \/ UNCHANGED roomvars
    BY DEF GroundNext, everything, Indoors!Next
  <2>2. CASE Indoors!Flood
    BY <2>2, RoomInvFlood
  <2>3. CASE Indoors!Finish
    BY <2>3, RoomInvFinish
  <2>4. CASE UNCHANGED roomvars
    BY <2>4, RoomInvStays
  <2> QED  BY <2>1, <2>2, <2>3, <2>4
<1> QED  BY <1>1, <1>2, RoomInvIsEnough, PTL DEF GroundSpec, everything

-----------------------------------------------------------------------------
(* What he has walked.                                                     *)

\* Every recursion of a fold stays where its steps stay.
LEMMA FoldStays ==
  ASSUME NEW V, NEW base \in V, NEW F, \A v \in V : \A i \in Nat : F[<<v, i>>] \in V, NEW n \in Nat,
         NEW g, g[{}] = base,
         \A S \in SUBSET (1..n) : S # {} /\ g[S \ {Max(S)}] \in V =>
           g[S] = F[<<g[S \ {Max(S)}], Max(S)>>]
  PROVE  g[1..n] \in V
<1> DEFINE T == {k \in Nat : k <= n => g[1..k] \in V}
<1>1. 0 \in T
  <2>1. 1..0 = {}
    OBVIOUS
  <2> QED  BY <2>1
<1>2. ASSUME NEW k \in T
      PROVE  k + 1 \in T
  <2> SUFFICES ASSUME k + 1 <= n PROVE g[1..(k + 1)] \in V
    OBVIOUS
  <2>1. k \in Nat /\ g[1..k] \in V
    OBVIOUS
  <2>2. PICK S, m : S = 1..(k + 1) /\ m = k + 1
    OBVIOUS
  <2>3. Max(S) = m /\ S \ {m} = 1..k
    BY <2>1, <2>2, LastTaken
  <2>4. S \in SUBSET (1..n) /\ S # {} /\ m \in Nat
    BY <2>1, <2>2
  <2>5. g[S] = F[<<g[1..k], m>>]
    BY <2>1, <2>3, <2>4
  <2> QED  BY <2>1, <2>2, <2>4, <2>5
<1>3. T = Nat
  <2>1. T \subseteq Nat
    OBVIOUS
  <2> HIDE DEF T
  <2> QED  BY <1>1, <1>2, <2>1, AllNumbers
<1> QED  BY <1>3

\* A fold goes through one value after another, each made of the one before it.
Runs(q, n, V, base, F) ==
  q \in [0..n -> V] /\ q[0] = base /\ \A i \in 0..(n - 1) : q[i + 1] = F[<<q[i], i + 1>>]
RunsTo(n, V, base, F, value) == \E q : Runs(q, n, V, base, F) /\ q[n] = value

LEMMA FoldRuns ==
  ASSUME NEW V, NEW base \in V, NEW F, \A v \in V : \A i \in Nat : F[<<v, i>>] \in V, NEW n \in Nat,
         NEW g, g[{}] = base,
         \A S \in SUBSET (1..n) : S # {} /\ g[S \ {Max(S)}] \in V =>
           g[S] = F[<<g[S \ {Max(S)}], Max(S)>>]
  PROVE  RunsTo(n, V, base, F, g[1..n])
<1>1. PICK q : q = [i \in 0..n |-> g[1..i]]
  OBVIOUS
<1>2. ASSUME NEW i \in 0..n
      PROVE  g[1..i] \in V
  <2>1. SUBSET (1..i) \subseteq SUBSET (1..n) /\ i \in Nat
    OBVIOUS
  <2> QED  BY <2>1, FoldStays
<1>3. q[0] = base /\ q[n] = g[1..n]
  <2>1. 1..0 = {} /\ 0 \in 0..n /\ n \in 0..n
    OBVIOUS
  <2> QED  BY <1>1, <2>1
<1>4. ASSUME NEW i \in 0..(n - 1)
      PROVE  q[i + 1] = F[<<q[i], i + 1>>]
  <2>1. PICK S, m : S = 1..(i + 1) /\ m = i + 1
    OBVIOUS
  <2>2. i \in Nat /\ i \in 0..n /\ m \in 0..n /\ m \in S
    BY <2>1
  <2>3. Max(S) = m /\ S \ {m} = 1..i
    BY <2>1, <2>2, LastTaken
  <2>4. S \in SUBSET (1..n)
    BY <2>1
  <2>5. g[S] = F[<<g[1..i], m>>]
    BY <1>2, <2>2, <2>3, <2>4
  <2> QED  BY <1>1, <2>1, <2>2, <2>5
<1> QED  BY <1>1, <1>2, <1>3, <1>4 DEF Runs, RunsTo

\* What holds at the start of a run and from one value to the next holds of all.
LEMMA RunsThrough ==
  ASSUME NEW n \in Nat, NEW T \in SUBSET (0..n), 0 \in T, \A k \in T : k < n => k + 1 \in T
  PROVE  n \in T
<1> DEFINE U == {k \in Nat : k <= n => k \in T}
<1>1. 0 \in U
  OBVIOUS
<1>2. \A k \in U : k + 1 \in U
  OBVIOUS
<1>3. U = Nat
  <2>1. U \subseteq Nat
    OBVIOUS
  <2> HIDE DEF U
  <2> QED  BY <1>1, <1>2, <2>1, AllNumbers
<1> QED  BY <1>3

LEMMA LeastNumbered ==
  ASSUME NEW X, NEW D \in SUBSET (Nat \X X), D # {}
  PROVE  \E o \in D : \A p \in D : o[1] <= p[1]
<1>1. PICK R : R = OpToRel(<, Nat)
  OBVIOUS
<1>2. IsWellFoundedOn(R, Nat)
  BY <1>1, NatLessThanWellFounded
<1>3. PICK U : U = {o[1] : o \in D}
  OBVIOUS
<1>4. U \subseteq Nat /\ U # {}
  BY <1>3
<1>5. PICK n \in U : \A m \in U : ~(<<m, n>> \in R)
  BY <1>2, <1>4, WFMin
<1>6. ASSUME NEW m \in U
      PROVE  n <= m
  <2>1. m \in Nat /\ n \in Nat /\ ~(<<m, n>> \in R)
    BY <1>4, <1>5
  <2>2. ~(m < n)
    BY <1>1, <2>1 DEF OpToRel
  <2> QED  BY <2>1, <2>2
<1>7. PICK o \in D : n = o[1]
  BY <1>3
<1>8. \A p \in D : p[1] \in U
  BY <1>3
<1> QED  BY <1>6, <1>7, <1>8

LEMMA SameCount == \A S : Trodden!Cardinality(S) = Cardinality(S)
BY Zenon DEF Trodden!Cardinality, Cardinality

\* What is on record, and the steps on it.
OnRecord(m) == DOMAIN m \subseteq Legible /\ \A s \in DOMAIN m : m[s] \subseteq Legible
StepsOn(m) == UNION {{s} \X m[s] : s \in DOMAIN m}

\* All steps on record were taken.
Recorded(m) == OnRecord(m) /\ \A s \in DOMAIN m : \A t \in m[s] : <<s, t>> \in stepped

LEMMA StepsCounted ==
  ASSUME NEW m, OnRecord(m)
  PROVE  IsFiniteSet(StepsOn(m)) /\ Cardinality(StepsOn(m)) \in Nat
<1>1. IsFiniteSet(Legible \X Legible)
  BY TrailAssumption, FS_Product DEF TrailAssumption
<1>2. StepsOn(m) \subseteq Legible \X Legible
  BY DEF StepsOn, OnRecord
<1>3. IsFiniteSet(StepsOn(m))
  BY <1>1, <1>2, FS_Subset
<1> QED  BY <1>3, FS_CardinalityType

\* A search has come to each square, but for the one it began at, by a step on
\* record from another it has come to.
Partial(T) == UNION {[D -> T] : D \in SUBSET Legible}
Searches(m, begun, target) ==
  {s \in [open : SUBSET (Nat \X Legible), cost : Partial(Nat), came : Partial(Legible), arrived : BOOLEAN] :
     /\ \A o \in s.open : o[2] \in DOMAIN s.cost
     /\ DOMAIN s.cost = DOMAIN s.came \cup {begun}
     /\ \A t \in DOMAIN s.came : /\ s.came[t] \in DOMAIN s.cost /\ s.came[t] \in DOMAIN m
                                 /\ t \in m[s.came[t]]
     /\ s.arrived => target \in DOMAIN s.cost}

\* What one look makes of a search: of the cheapest entry it takes the square,
\* and of the squares a step from there those it has a cheaper way to.
Cheaper(m, s, x) ==
  {t \in (IF x \in DOMAIN m THEN m[x] ELSE {}) :
     t \in DOMAIN s.cost => s.cost[x] + Far(x, t) < s.cost[t]}
Further(s, target, r, h, x, new) ==
  /\ r \in [open : SUBSET (Nat \X Legible), cost : Partial(Nat), came : Partial(Legible), arrived : BOOLEAN]
  /\ r.arrived = s.arrived
  /\ r.open = (s.open \ {h}) \cup {<<s.cost[x] + Far(x, t) + Far(t, target), t>> : t \in new}
  /\ r.cost = [t \in DOMAIN s.cost \cup new |-> IF t \in new THEN s.cost[x] + Far(x, t) ELSE s.cost[t]]
  /\ r.came = [t \in DOMAIN s.came \cup new |-> IF t \in new THEN x ELSE s.came[t]]

LEMMA LookIs ==
  ASSUME NEW m, OnRecord(m), NEW begun \in Legible, NEW target \in Legible,
         NEW s \in Searches(m, begun, target), ~(s.open = {} \/ s.arrived)
  PROVE  \E h \in s.open, x \in DOMAIN s.cost :
           /\ h[2] = x /\ \A p \in s.open : h[1] <= p[1]
           /\ IF x = target THEN Trodden!Look(m, target, s) = [s EXCEPT !.arrived = TRUE]
              ELSE Further(s, target, Trodden!Look(m, target, s), h, x, Cheaper(m, s, x))
<1>1. PICK h : h = CHOOSE o \in s.open : \A p \in s.open : o[1] <= p[1]
  OBVIOUS
<1>2. s.open \in SUBSET (Nat \X Legible)
  BY DEF Searches
<1>3. h \in s.open /\ \A p \in s.open : h[1] <= p[1]
  BY <1>1, <1>2, LeastNumbered
<1>4. PICK sq : sq = h[2] /\ sq \in Legible /\ sq \in DOMAIN s.cost
  BY <1>2, <1>3 DEF Searches
<1>5. CASE sq = target
  <2>1. Trodden!Look(m, target, s) = [s EXCEPT !.arrived = TRUE]
    BY <1>1, <1>4, <1>5 DEF Trodden!Look
  <2> QED  BY <1>3, <1>4, <1>5, <2>1
<1>6. CASE sq # target
  <2>1. PICK new : new = Cheaper(m, s, sq)
    OBVIOUS
  <2>2. PICK o, c, f :
          /\ o = (s.open \ {h}) \cup {<<s.cost[sq] + Far(sq, t) + Far(t, target), t>> : t \in new}
          /\ c = [t \in DOMAIN s.cost \cup new |-> IF t \in new THEN s.cost[sq] + Far(sq, t) ELSE s.cost[t]]
          /\ f = [t \in DOMAIN s.came \cup new |-> IF t \in new THEN sq ELSE s.came[t]]
    OBVIOUS
  <2>3. Trodden!Look(m, target, s) = [s EXCEPT !.open = o, !.cost = c, !.came = f]
    <3> DEFINE e == CHOOSE z \in s.open : \A p \in s.open : z[1] <= p[1]
               dear(t) == s.cost[e[2]] + Far(e[2], t)
               better == {t \in (IF e[2] \in DOMAIN m THEN m[e[2]] ELSE {}) :
                            t \in DOMAIN s.cost => dear(t) < s.cost[t]}
               on == [s EXCEPT
                        !.open = (@ \ {e}) \cup {<<dear(t) + Far(t, target), t>> : t \in better},
                        !.cost = [t \in DOMAIN @ \cup better |-> IF t \in better THEN dear(t) ELSE @[t]],
                        !.came = [t \in DOMAIN @ \cup better |-> IF t \in better THEN e[2] ELSE @[t]]]
    <3>1. Trodden!Look(m, target, s) = IF s.open = {} \/ s.arrived THEN s
                                       ELSE IF e[2] = target THEN [s EXCEPT !.arrived = TRUE] ELSE on
      BY Zenon DEF Trodden!Look
    <3>2. e = h /\ e[2] = sq /\ better = new
      <4>1. e = h /\ e[2] = sq
        BY <1>1, <1>4
      <4> HIDE DEF e
      <4> QED  BY <2>1, <4>1 DEF Cheaper
    <3>3. on = [s EXCEPT !.open = o, !.cost = c, !.came = f]
      <4> HIDE DEF e, better
      <4>1. /\ (s.open \ {e}) \cup {<<dear(t) + Far(t, target), t>> : t \in better} = o
            /\ [t \in DOMAIN s.cost \cup better |-> IF t \in better THEN dear(t) ELSE s.cost[t]] = c
            /\ [t \in DOMAIN s.came \cup better |-> IF t \in better THEN e[2] ELSE s.came[t]] = f
        BY <2>2, <3>2
      <4> QED  BY <4>1
    <3> HIDE DEF e, on
    <3> QED  BY <1>4, <1>6, <3>1, <3>2, <3>3
  <2>4. new \subseteq Legible /\ \A t \in new : sq \in DOMAIN m /\ t \in m[sq]
    BY <2>1 DEF OnRecord, Cheaper
  <2>5. /\ s.cost \in [DOMAIN s.cost -> Nat] /\ DOMAIN s.cost \subseteq Legible
        /\ s.came \in [DOMAIN s.came -> Legible] /\ DOMAIN s.came \subseteq Legible
    BY DEF Searches, Partial
  <2>6. \A t \in new : s.cost[sq] + Far(sq, t) \in Nat /\ s.cost[sq] + Far(sq, t) + Far(t, target) \in Nat
    BY <1>4, <2>4, <2>5, TrailAssumption DEF TrailAssumption
  <2>7. o \in SUBSET (Nat \X Legible)
    BY <1>2, <2>2, <2>4, <2>6
  <2>8. c \in [DOMAIN s.cost \cup new -> Nat] /\ f \in [DOMAIN s.came \cup new -> Legible]
    BY <1>4, <2>2, <2>5, <2>6
  <2>9. c \in Partial(Nat) /\ f \in Partial(Legible)
    BY <2>4, <2>5, <2>8 DEF Partial
  <2>10. PICK r : r = Trodden!Look(m, target, s)
    OBVIOUS
  <2>11. /\ r \in [open : SUBSET (Nat \X Legible), cost : Partial(Nat), came : Partial(Legible),
                   arrived : BOOLEAN]
         /\ r.open = o /\ r.cost = c /\ r.came = f /\ r.arrived = s.arrived
    BY <2>3, <2>7, <2>9, <2>10 DEF Searches
  <2>12. Further(s, target, r, h, sq, new)
    BY <2>2, <2>11 DEF Further
  <2> QED  BY <1>3, <1>4, <1>6, <2>1, <2>10, <2>12
<1> QED  BY <1>5, <1>6

LEMMA LookGoesOn ==
  ASSUME NEW m, OnRecord(m), NEW begun \in Legible, NEW target \in Legible,
         NEW s \in Searches(m, begun, target)
  PROVE  Trodden!Look(m, target, s) \in Searches(m, begun, target)
<1>1. CASE s.open = {} \/ s.arrived
  BY <1>1 DEF Trodden!Look
<1>2. CASE ~(s.open = {} \/ s.arrived)
  <2>1. PICK r : r = Trodden!Look(m, target, s)
    OBVIOUS
  <2>2. PICK h \in s.open, x \in DOMAIN s.cost :
          IF x = target THEN r = [s EXCEPT !.arrived = TRUE]
          ELSE Further(s, target, r, h, x, Cheaper(m, s, x))
    BY <1>2, <2>1, LookIs
  <2>3. CASE x = target
    BY <2>1, <2>2, <2>3 DEF Searches
  <2>4. CASE x # target
    <3>1. PICK new : new = Cheaper(m, s, x) /\ Further(s, target, r, h, x, new)
      BY <2>2, <2>4
    <3>2. \A t \in new : x \in DOMAIN m /\ t \in m[x]
      BY <3>1 DEF Cheaper
    <3>3. \A p \in r.open : p[2] \in DOMAIN r.cost
      BY <3>1 DEF Searches, Further
    <3>4. DOMAIN r.cost = DOMAIN r.came \cup {begun}
      BY <3>1 DEF Searches, Further
    <3>5. \A t \in DOMAIN r.came : r.came[t] \in DOMAIN r.cost /\ r.came[t] \in DOMAIN m /\ t \in m[r.came[t]]
      <4> SUFFICES ASSUME NEW t \in DOMAIN r.came
                   PROVE  r.came[t] \in DOMAIN r.cost /\ r.came[t] \in DOMAIN m /\ t \in m[r.came[t]]
        OBVIOUS
      <4>1. CASE t \in new
        BY <3>1, <3>2, <4>1 DEF Further
      <4>2. CASE t \notin new
        BY <3>1, <4>2 DEF Searches, Further
      <4> QED  BY <4>1, <4>2
    <3>6. ~r.arrived
      BY <1>2, <3>1 DEF Further
    <3> QED  BY <2>1, <3>1, <3>3, <3>4, <3>5, <3>6 DEF Searches, Further
  <2> QED  BY <2>3, <2>4
<1> QED  BY <1>1, <1>2

-----------------------------------------------------------------------------
(* Squares done with are never come back to: what is estimated from one is  *)
(* never less by way of another, so entries are taken in order and a square *)
(* that was taken is as cheap as it gets.                                   *)

Settled(m, begun, target, s, done, level) ==
  /\ level \in Nat /\ done \subseteq DOMAIN s.cost /\ target \notin done
  /\ begun \notin DOMAIN s.came /\ s.cost[begun] = 0
  /\ \A t \in DOMAIN s.came : s.came[t] \in done /\ s.cost[s.came[t]] < s.cost[t]
  /\ \A o \in s.open : level <= o[1] /\ s.cost[o[2]] + Far(o[2], target) <= o[1]
  /\ \A x \in done : /\ s.cost[x] + Far(x, target) <= level
                     /\ x \in DOMAIN m =>
                          \A t \in m[x] : t \in DOMAIN s.cost /\ s.cost[t] <= s.cost[x] + Far(x, t)
  /\ \A x \in DOMAIN s.cost \ done : <<s.cost[x] + Far(x, target), x>> \in s.open

\* As many looks and entries as steps from squares that are done with, and one.
Tried(m, done) == {p \in StepsOn(m) : p[1] \in done}
Within(m, s, done, looks) ==
  IsFiniteSet(s.open) /\ looks + Cardinality(s.open) <= 1 + Cardinality(Tried(m, done))

LEMMA FarIsMetric ==
  ASSUME NEW a \in Legible, NEW b \in Legible, NEW c \in Legible
  PROVE  /\ Far(a, b) \in Nat /\ (Far(a, b) = 0 <=> a = b) /\ Far(a, a) = 0
         /\ Far(a, c) <= Far(a, b) + Far(b, c)
BY TrailAssumption DEF TrailAssumption

LEMMA SearchIsTyped ==
  ASSUME NEW m, NEW begun \in Legible, NEW target \in Legible, NEW s \in Searches(m, begun, target)
  PROVE  /\ DOMAIN s.cost \subseteq Legible /\ \A x \in DOMAIN s.cost : s.cost[x] \in Nat
         /\ DOMAIN s.came \subseteq DOMAIN s.cost /\ begun \in DOMAIN s.cost
         /\ s.open \subseteq Nat \X DOMAIN s.cost
BY DEF Searches, Partial

\* No square done with is come to any cheaper.
LEMMA DoneIsDone ==
  ASSUME NEW m, OnRecord(m), NEW begun \in Legible, NEW target \in Legible,
         NEW s \in Searches(m, begun, target), NEW done, NEW level, Settled(m, begun, target, s, done, level),
         NEW h \in s.open, \A p \in s.open : h[1] <= p[1], NEW x \in DOMAIN s.cost, h[2] = x
  PROVE  /\ level <= h[1]
         /\ x \notin done => h[1] = s.cost[x] + Far(x, target)
         /\ x \in done => Cheaper(m, s, x) = {}
         /\ \A t \in Cheaper(m, s, x) : t \notin done /\ t # x /\ t # begun /\ t \in Legible
<1>1. /\ DOMAIN s.cost \subseteq Legible /\ \A y \in DOMAIN s.cost : s.cost[y] \in Nat
      /\ s.open \subseteq Nat \X DOMAIN s.cost
  BY SearchIsTyped
<1>2. h[1] \in Nat /\ level \in Nat /\ level <= h[1] /\ s.cost[x] + Far(x, target) <= h[1] /\ x \in Legible
      /\ s.cost[x] \in Nat /\ Far(x, target) \in Nat
  BY <1>1, FarIsMetric DEF Settled
<1>3. x \notin done => h[1] = s.cost[x] + Far(x, target)
  <2> SUFFICES ASSUME x \notin done PROVE h[1] = s.cost[x] + Far(x, target)
    OBVIOUS
  <2>1. PICK e : e = <<s.cost[x] + Far(x, target), x>> /\ e \in s.open
    BY DEF Settled
  <2>2. h[1] <= e[1] /\ e[1] = s.cost[x] + Far(x, target)
    BY <2>1
  <2> QED  BY <1>2, <2>2
<1>4. x \in done => Cheaper(m, s, x) = {}
  <2> SUFFICES ASSUME x \in done, NEW t \in Cheaper(m, s, x) PROVE FALSE
    OBVIOUS
  <2>1. x \in DOMAIN m /\ t \in m[x]
    BY DEF Cheaper
  <2>2. t \in DOMAIN s.cost /\ s.cost[t] <= s.cost[x] + Far(x, t)
    BY <2>1 DEF Settled
  <2>3. s.cost[x] + Far(x, t) < s.cost[t]
    BY <2>2 DEF Cheaper
  <2>4. s.cost[t] \in Nat /\ Far(x, t) \in Nat
    BY <1>1, <1>2, <2>2, FarIsMetric
  <2> QED  BY <1>2, <2>2, <2>3, <2>4
<1>5. ASSUME NEW t \in Cheaper(m, s, x)
      PROVE  t \notin done /\ t # x /\ t # begun /\ t \in Legible
  <2>1. x \notin done /\ t \in Legible
    BY <1>4, <1>5 DEF Cheaper, OnRecord
  <2>2. t \in DOMAIN s.cost => s.cost[x] + Far(x, t) < s.cost[t] /\ s.cost[t] \in Nat
    BY <1>1 DEF Cheaper
  <2>3. /\ Far(x, t) \in Nat /\ Far(t, target) \in Nat
        /\ Far(x, target) <= Far(x, t) + Far(t, target)
    BY <1>2, <2>1, FarIsMetric
  <2>4. t # x
    BY <1>2, <2>2, <2>3
  <2>5. t # begun
    <3>1. begun \in DOMAIN s.cost /\ s.cost[begun] = 0
      BY SearchIsTyped DEF Settled
    <3> QED  BY <1>2, <2>2, <2>3, <3>1
  <2>6. t \notin done
    <3> SUFFICES ASSUME t \in done PROVE FALSE
      OBVIOUS
    <3>1. t \in DOMAIN s.cost /\ s.cost[t] + Far(t, target) <= level
      BY DEF Settled
    <3>2. PICK a, b, c, d, e, f \in Nat : a = s.cost[x] /\ b = Far(x, t) /\ c = Far(t, target) /\ d = s.cost[t]
                                         /\ e = Far(x, target) /\ f = h[1]
      BY <1>2, <2>2, <2>3, <3>1
    <3>3. a + b < d /\ d + c <= f /\ e <= b + c /\ f = a + e
      BY <1>2, <1>3, <2>1, <2>2, <2>3, <3>1, <3>2
    <3> QED  BY <3>2, <3>3
  <2> QED  BY <2>1, <2>4, <2>5, <2>6
<1> QED  BY <1>2, <1>3, <1>4, <1>5

\* A look round a square that is done with takes an entry away.
LEMMA LookAgainSettles ==
  ASSUME NEW m, OnRecord(m), NEW begun \in Legible, NEW target \in Legible,
         NEW s \in Searches(m, begun, target), NEW done, NEW level, Settled(m, begun, target, s, done, level),
         NEW h \in s.open, \A p \in s.open : h[1] <= p[1], NEW x \in done, h[2] = x,
         NEW looks \in Nat, Within(m, s, done, looks),
         NEW r, Further(s, target, r, h, x, Cheaper(m, s, x))
  PROVE  Settled(m, begun, target, r, done, level) /\ Within(m, r, done, looks + 1)
<1>0. x \in DOMAIN s.cost
  BY DEF Settled
<1>1. Cheaper(m, s, x) = {}
  BY <1>0, DoneIsDone
<1>2. r.open = s.open \ {h} /\ r.cost = [t \in DOMAIN s.cost |-> s.cost[t]] /\ r.came = [t \in DOMAIN s.came |-> s.came[t]]
  BY <1>1 DEF Further
<1>3. r.cost = s.cost /\ r.came = s.came
  BY <1>2 DEF Searches, Partial
<1>4. \A y \in DOMAIN s.cost \ done : <<s.cost[y] + Far(y, target), y>> \in r.open
  <2> SUFFICES ASSUME NEW y \in DOMAIN s.cost \ done
               PROVE  <<s.cost[y] + Far(y, target), y>> \in r.open
    OBVIOUS
  <2>1. PICK e : e = <<s.cost[y] + Far(y, target), y>>
    OBVIOUS
  <2>2. e \in s.open /\ e[2] = y /\ h[2] # y
    BY <2>1 DEF Settled
  <2> QED  BY <1>2, <2>1, <2>2
<1>5. Settled(m, begun, target, r, done, level)
  BY <1>2, <1>3, <1>4 DEF Settled
<1>6. IsFiniteSet(r.open) /\ Cardinality(r.open) = Cardinality(s.open) - 1
  BY <1>2, FS_RemoveElement DEF Within
<1>7. Cardinality(s.open) \in Nat /\ Cardinality(r.open) \in Nat
  BY <1>6, FS_CardinalityType DEF Within
<1>8. Cardinality(Tried(m, done)) \in Nat
  BY StepsCounted, FS_Subset, FS_CardinalityType DEF Tried
<1>9. Within(m, r, done, looks + 1)
  BY <1>6, <1>7, <1>8 DEF Within
<1> QED  BY <1>5, <1>9

\* tried look round a square that was not done with is done with it.
LEMMA LookAheadSettles ==
  ASSUME NEW m, OnRecord(m), NEW begun \in Legible, NEW target \in Legible,
         NEW s \in Searches(m, begun, target), NEW done, NEW level, Settled(m, begun, target, s, done, level),
         NEW h \in s.open, \A p \in s.open : h[1] <= p[1], NEW x \in DOMAIN s.cost, h[2] = x,
         x \notin done, x # target, NEW r, Further(s, target, r, h, x, Cheaper(m, s, x))
  PROVE  Settled(m, begun, target, r, done \cup {x}, h[1])
<1>1. PICK new : new = Cheaper(m, s, x)
  OBVIOUS
<1>2. /\ level <= h[1] /\ h[1] = s.cost[x] + Far(x, target)
      /\ \A t \in new : t \notin done /\ t # x /\ t # begun /\ t \in Legible
  BY <1>1, DoneIsDone
<1>3. /\ DOMAIN s.cost \subseteq Legible /\ \A y \in DOMAIN s.cost : s.cost[y] \in Nat
      /\ begun \in DOMAIN s.cost /\ s.open \subseteq Nat \X DOMAIN s.cost
  BY SearchIsTyped
<1>4. h[1] \in Nat /\ x \in Legible /\ s.cost[x] \in Nat /\ level \in Nat
  BY <1>3 DEF Settled
<1>5. /\ r.open = (s.open \ {h}) \cup {<<s.cost[x] + Far(x, t) + Far(t, target), t>> : t \in new}
      /\ DOMAIN r.cost = DOMAIN s.cost \cup new /\ DOMAIN r.came = DOMAIN s.came \cup new
      /\ \A t \in new : r.cost[t] = s.cost[x] + Far(x, t) /\ r.came[t] = x
      /\ \A t \in DOMAIN s.cost \ new : r.cost[t] = s.cost[t]
      /\ \A t \in DOMAIN s.came \ new : r.came[t] = s.came[t]
  BY <1>1 DEF Further
<1>6. \A t \in new : /\ Far(x, t) \in Nat /\ Far(x, t) > 0 /\ Far(t, target) \in Nat
                     /\ Far(x, target) <= Far(x, t) + Far(t, target)
  <2> SUFFICES ASSUME NEW t \in new
               PROVE  /\ Far(x, t) \in Nat /\ Far(x, t) > 0 /\ Far(t, target) \in Nat
                      /\ Far(x, target) <= Far(x, t) + Far(t, target)
    OBVIOUS
  <2>1. t \in Legible /\ t # x
    BY <1>2
  <2>2. Far(x, t) \in Nat /\ Far(x, t) # 0 /\ Far(t, target) \in Nat /\ Far(x, target) <= Far(x, t) + Far(t, target)
    BY <1>4, <2>1, FarIsMetric
  <2> QED  BY <2>2
<1>7. \A t \in DOMAIN s.cost : r.cost[t] \in Nat /\ r.cost[t] <= s.cost[t]
  <2> SUFFICES ASSUME NEW t \in DOMAIN s.cost PROVE r.cost[t] \in Nat /\ r.cost[t] <= s.cost[t]
    OBVIOUS
  <2>1. CASE t \in new
    <3>1. s.cost[x] + Far(x, t) < s.cost[t]
      BY <1>1, <2>1 DEF Cheaper
    <3> QED  BY <1>3, <1>4, <1>5, <1>6, <2>1, <3>1
  <2>2. CASE t \notin new
    BY <1>3, <1>5, <2>2
  <2> QED  BY <2>1, <2>2
<1>8. /\ \A t \in done : r.cost[t] = s.cost[t] /\ t \in DOMAIN s.cost
      /\ r.cost[x] = s.cost[x] /\ r.cost[begun] = 0
  BY <1>2, <1>3, <1>5 DEF Settled
<1>9. done \cup {x} \subseteq DOMAIN r.cost /\ target \notin done \cup {x} /\ begun \notin DOMAIN r.came
  BY <1>2, <1>5 DEF Settled
<1>10. \A t \in DOMAIN r.came : r.came[t] \in done \cup {x} /\ r.cost[r.came[t]] < r.cost[t]
  <2> SUFFICES ASSUME NEW t \in DOMAIN r.came
               PROVE  r.came[t] \in done \cup {x} /\ r.cost[r.came[t]] < r.cost[t]
    OBVIOUS
  <2>1. CASE t \in new
    BY <1>4, <1>5, <1>6, <1>8, <2>1
  <2>2. CASE t \notin new
    <3>1. t \in DOMAIN s.came /\ t \in DOMAIN s.cost
      BY <1>5, <2>2, SearchIsTyped
    <3>2. s.came[t] \in done /\ s.cost[s.came[t]] < s.cost[t]
      BY <3>1 DEF Settled
    <3>3. r.came[t] = s.came[t] /\ r.cost[t] = s.cost[t]
      BY <1>5, <2>2, <3>1
    <3> QED  BY <1>8, <3>2, <3>3
  <2> QED  BY <2>1, <2>2
<1>11. \A o \in r.open : h[1] <= o[1] /\ r.cost[o[2]] + Far(o[2], target) <= o[1]
  <2> SUFFICES ASSUME NEW o \in r.open
               PROVE  h[1] <= o[1] /\ r.cost[o[2]] + Far(o[2], target) <= o[1]
    OBVIOUS
  <2>1. CASE o \in s.open
    <3>1. PICK y : y = o[2] /\ y \in DOMAIN s.cost /\ o[1] \in Nat
      BY <1>3, <2>1
    <3>2. s.cost[y] + Far(y, target) <= o[1] /\ h[1] <= o[1]
      BY <2>1, <3>1 DEF Settled
    <3>3. r.cost[y] \in Nat /\ s.cost[y] \in Nat /\ Far(y, target) \in Nat /\ r.cost[y] <= s.cost[y]
      BY <1>3, <1>7, <3>1, FarIsMetric
    <3>4. r.cost[y] + Far(y, target) <= o[1]
      BY <3>1, <3>2, <3>3
    <3> QED  BY <3>1, <3>2, <3>4
  <2>2. CASE o \notin s.open
    <3>1. PICK t \in new : o = <<s.cost[x] + Far(x, t) + Far(t, target), t>>
      BY <1>5, <2>2
    <3>2. o[2] = t /\ o[1] = s.cost[x] + Far(x, t) + Far(t, target) /\ r.cost[t] = s.cost[x] + Far(x, t)
      BY <1>5, <3>1
    <3>3. Far(x, target) \in Nat
      BY <1>4, FarIsMetric
    <3>4. h[1] <= s.cost[x] + Far(x, t) + Far(t, target)
      BY <1>2, <1>4, <1>6, <3>3
    <3>5. r.cost[t] + Far(t, target) = s.cost[x] + Far(x, t) + Far(t, target)
      BY <3>2
    <3>6. s.cost[x] + Far(x, t) + Far(t, target) \in Nat
      BY <1>4, <1>6
    <3> QED  BY <3>2, <3>4, <3>5, <3>6
  <2> QED  BY <2>1, <2>2
<1>12. \A y \in done \cup {x} :
         /\ r.cost[y] + Far(y, target) <= h[1]
         /\ y \in DOMAIN m => \A t \in m[y] : t \in DOMAIN r.cost /\ r.cost[t] <= r.cost[y] + Far(y, t)
  <2>1. ASSUME NEW y \in done
        PROVE  /\ r.cost[y] + Far(y, target) <= h[1]
               /\ y \in DOMAIN m => \A t \in m[y] : t \in DOMAIN r.cost /\ r.cost[t] <= r.cost[y] + Far(y, t)
    <3>1. r.cost[y] = s.cost[y] /\ y \in DOMAIN s.cost /\ y \in Legible /\ s.cost[y] \in Nat
      BY <1>3, <1>8
    <3>2. s.cost[y] + Far(y, target) <= level /\ Far(y, target) \in Nat
      BY <3>1, FarIsMetric DEF Settled
    <3>3. ASSUME y \in DOMAIN m, NEW t \in m[y]
          PROVE  t \in DOMAIN r.cost /\ r.cost[t] <= r.cost[y] + Far(y, t)
      <4>1. t \in DOMAIN s.cost /\ s.cost[t] <= s.cost[y] + Far(y, t)
        BY <3>3 DEF Settled
      <4>2. r.cost[t] \in Nat /\ s.cost[t] \in Nat /\ Far(y, t) \in Nat /\ r.cost[t] <= s.cost[t]
        BY <1>3, <1>7, <3>1, <4>1, FarIsMetric
      <4> QED  BY <1>5, <3>1, <4>1, <4>2
    <3>4. r.cost[y] + Far(y, target) <= h[1]
      BY <1>2, <1>4, <3>1, <3>2
    <3> QED  BY <3>3, <3>4
  <2>2. r.cost[x] + Far(x, target) <= h[1]
    BY <1>2, <1>4, <1>8
  <2>3. ASSUME x \in DOMAIN m, NEW t \in m[x]
        PROVE  t \in DOMAIN r.cost /\ r.cost[t] <= r.cost[x] + Far(x, t)
    <3>1. Far(x, t) \in Nat
      <4>1. t \in Legible
        BY <2>3 DEF OnRecord
      <4> QED  BY <1>4, <4>1, FarIsMetric
    <3>2. CASE t \in new
      BY <1>4, <1>5, <1>8, <3>1, <3>2
    <3>3. CASE t \notin new
      <4>1. t \in DOMAIN s.cost /\ ~(s.cost[x] + Far(x, t) < s.cost[t])
        BY <1>1, <2>3, <3>3 DEF Cheaper
      <4>2. r.cost[t] = s.cost[t] /\ s.cost[t] \in Nat
        BY <1>3, <1>5, <3>3, <4>1
      <4> QED  BY <1>4, <1>5, <1>8, <3>1, <4>1, <4>2
    <3> QED  BY <3>2, <3>3
  <2> QED  BY <2>1, <2>2, <2>3
<1>13. \A y \in DOMAIN r.cost \ (done \cup {x}) : <<r.cost[y] + Far(y, target), y>> \in r.open
  <2> SUFFICES ASSUME NEW y \in DOMAIN r.cost, y \notin done, y # x
               PROVE  <<r.cost[y] + Far(y, target), y>> \in r.open
    OBVIOUS
  <2>1. CASE y \in new
    <3>1. r.cost[y] = s.cost[x] + Far(x, y)
      BY <1>5, <2>1
    <3>2. <<s.cost[x] + Far(x, y) + Far(y, target), y>> \in r.open
      BY <1>5, <2>1
    <3> QED  BY <3>1, <3>2
  <2>2. CASE y \notin new
    <3>1. y \in DOMAIN s.cost /\ r.cost[y] = s.cost[y]
      BY <1>5, <2>2
    <3>2. PICK e : e = <<s.cost[y] + Far(y, target), y>>
      OBVIOUS
    <3>3. e \in s.open /\ e[2] = y /\ h[2] # y
      BY <3>1, <3>2 DEF Settled
    <3>4. e \in r.open
      BY <1>5, <3>3
    <3> QED  BY <3>1, <3>2, <3>4
  <2> QED  BY <2>1, <2>2
<1> HIDE DEF Settled
<1>14. r.cost[begun] = 0
  BY <1>8
<1> QED  BY <1>4, <1>9, <1>10, <1>11, <1>12, <1>13, <1>14 DEF Settled

LEMMA LookAheadWithin ==
  ASSUME NEW m, OnRecord(m), NEW begun \in Legible, NEW target \in Legible,
         NEW s \in Searches(m, begun, target), NEW done,
         NEW h \in s.open, NEW x, x \notin done,
         NEW looks \in Nat, Within(m, s, done, looks),
         NEW r, Further(s, target, r, h, x, Cheaper(m, s, x))
  PROVE  Within(m, r, done \cup {x}, looks + 1)
<1>1. PICK new : new = Cheaper(m, s, x)
  OBVIOUS
<1>2. PICK P, tried, then : P = {<<x, t>> : t \in new} /\ tried = Tried(m, done) /\ then = Tried(m, done \cup {x})
  OBVIOUS
<1>3. tried \subseteq StepsOn(m) /\ then \subseteq StepsOn(m) /\ tried \cup P \subseteq then /\ tried \cap P = {}
  <2>1. P \subseteq StepsOn(m)
    BY <1>1, <1>2 DEF Cheaper, StepsOn
  <2> QED  BY <1>2, <2>1 DEF Tried
<1>4. IsFiniteSet(tried) /\ IsFiniteSet(then) /\ IsFiniteSet(P) /\ IsFiniteSet(tried \cup P)
  BY <1>3, StepsCounted, FS_Subset
<1>5. Cardinality(tried \cup P) <= Cardinality(then) /\ Cardinality(tried \cup P) = Cardinality(tried) + Cardinality(P)
  <2>1. Cardinality(tried \cup P) <= Cardinality(then)
    BY <1>3, <1>4, FS_Subset
  <2>2. Cardinality(tried \cup P) = Cardinality(tried) + Cardinality(P) - Cardinality(tried \cap P)
    BY <1>4, FS_Union
  <2>3. Cardinality(tried \cap P) = 0
    BY <1>3, FS_EmptySet
  <2>4. Cardinality(tried) \in Nat /\ Cardinality(P) \in Nat
    BY <1>4, FS_CardinalityType
  <2> QED  BY <2>1, <2>2, <2>3, <2>4
<1>6. PICK old, fresh : /\ old = s.open \ {h}
                        /\ fresh = {<<s.cost[x] + Far(x, t) + Far(t, target), t>> : t \in new}
  OBVIOUS
<1>7. IsFiniteSet(old) /\ Cardinality(old) = Cardinality(s.open) - 1
  BY <1>6, FS_RemoveElement DEF Within
<1>8. IsFiniteSet(fresh) /\ Cardinality(fresh) <= Cardinality(P)
  <2>1. PICK f : f = [p \in P |-> <<s.cost[x] + Far(x, p[2]) + Far(p[2], target), p[2]>>]
    OBVIOUS
  <2>2. fresh \subseteq {f[p] : p \in P}
    <3> SUFFICES ASSUME NEW t \in new
                 PROVE  <<s.cost[x] + Far(x, t) + Far(t, target), t>> \in {f[p] : p \in P}
      BY <1>6
    <3>1. PICK p : p = <<x, t>>
      OBVIOUS
    <3>2. p \in P /\ p[2] = t
      BY <1>2, <3>1
    <3> QED  BY <2>1, <3>2
  <2>3. f \in [P -> {f[p] : p \in P}] /\ \A e \in {f[p] : p \in P} : \E p \in P : f[p] = e
    BY <2>1
  <2>4. f \in Surjection(P, {f[p] : p \in P})
    BY <2>3 DEF Surjection, Range
  <2>5. IsFiniteSet({f[p] : p \in P}) /\ Cardinality({f[p] : p \in P}) <= Cardinality(P)
    BY <1>4, <2>4, FS_Surjection
  <2>6. IsFiniteSet(fresh) /\ Cardinality(fresh) <= Cardinality({f[p] : p \in P})
    BY <2>2, <2>5, FS_Subset
  <2>7. Cardinality(fresh) \in Nat /\ Cardinality({f[p] : p \in P}) \in Nat /\ Cardinality(P) \in Nat
    BY <1>4, <2>5, <2>6, FS_CardinalityType
  <2> QED  BY <2>5, <2>6, <2>7
<1>9. r.open = old \cup fresh
  BY <1>1, <1>6 DEF Further
<1>10. IsFiniteSet(r.open) /\ Cardinality(r.open) <= Cardinality(old) + Cardinality(fresh)
  <2>1. /\ IsFiniteSet(old \cup fresh)
        /\ Cardinality(old \cup fresh) = Cardinality(old) + Cardinality(fresh) - Cardinality(old \cap fresh)
    BY <1>7, <1>8, FS_Union
  <2>2. Cardinality(old \cap fresh) \in Nat
    BY <1>7, FS_Intersection, FS_CardinalityType
  <2>3. Cardinality(old) \in Nat /\ Cardinality(fresh) \in Nat
    BY <1>7, <1>8, FS_CardinalityType
  <2> QED  BY <1>9, <2>1, <2>2, <2>3
<1>11. /\ Cardinality(tried) \in Nat /\ Cardinality(then) \in Nat /\ Cardinality(P) \in Nat /\ Cardinality(old) \in Nat
       /\ Cardinality(fresh) \in Nat /\ Cardinality(r.open) \in Nat /\ Cardinality(s.open) \in Nat
  BY <1>4, <1>7, <1>8, <1>10, FS_CardinalityType DEF Within
<1>12. looks + Cardinality(s.open) <= 1 + Cardinality(tried)
  BY <1>2 DEF Within
<1>13. looks + 1 + Cardinality(r.open) <= 1 + Cardinality(then)
  BY <1>5, <1>7, <1>8, <1>10, <1>11, <1>12
<1> QED  BY <1>2, <1>10, <1>13 DEF Within

-----------------------------------------------------------------------------
(* A search goes on a look at a time, and ends there or out of entries.     *)

SearchRun(q, m, begun, target, n, base, got) ==
  /\ q \in [0..n -> Searches(m, begun, target)] /\ q[0] = base /\ q[n] = got
  /\ \A k \in Nat : k < n => q[k + 1] = Trodden!Look(m, target, q[k])

LEMMA SearchRuns ==
  ASSUME NEW m, OnRecord(m), NEW begun \in Legible, NEW target \in Legible, NEW n \in Nat,
         NEW base \in Searches(m, begun, target), NEW got
  PROVE  LET One(s) == CHOOSE r \in {Trodden!Look(m, target, v) : v \in {s}} : TRUE
         IN  got = Trodden!FoldLeft(LAMBDA v, i : One(v), base, [i \in 1..n |-> i])
               => \E q : SearchRun(q, m, begun, target, n, base, got)
<1> DEFINE V == Searches(m, begun, target)
           One(s) == CHOOSE r \in {Trodden!Look(m, target, v) : v \in {s}} : TRUE
           F == [p \in V \X Nat |-> Trodden!Look(m, target, p[1])]
           Solves(g) == g = [S \in SUBSET DOMAIN [i \in 1..n |-> i] |->
                               IF S = {} THEN base ELSE One(g[S \ {Trodden!Max(S)}])]
<1>1. \A s : One(s) = Trodden!Look(m, target, s)
  OBVIOUS
<1>2. DOMAIN [i \in 1..n |-> i] = 1..n
  OBVIOUS
<1>3. \A S : Trodden!Max(S) = Max(S)
  BY DEF Trodden!Max, Max
<1>4. ASSUME NEW v \in V, NEW i \in Nat
      PROVE  F[<<v, i>>] = One(v) /\ F[<<v, i>>] = Trodden!Look(m, target, v) /\ F[<<v, i>>] \in V
  <2>1. F[<<v, i>>] = Trodden!Look(m, target, v)
    OBVIOUS
  <2> HIDE DEF F, One
  <2> QED  BY <1>1, <2>1, LookGoesOn
<1>5. PICK h \in [SUBSET (1..n) -> V] :
        \A S \in SUBSET (1..n) : h[S] = IF S = {} THEN base ELSE F[<<h[S \ {Max(S)}], Max(S)>>]
  <2> HIDE DEF F
  <2>1. PICK N, e, G : N = V /\ e = base /\ G = F
    OBVIOUS
  <2>2. e \in N /\ \A v \in N : \A i \in Nat : G[<<v, i>>] \in N
    BY <1>4, <2>1
  <2>3. \E h : FoldsUp(h, n, N, e, G)
    BY <2>2, FoldExists, Zenon
  <2> QED  BY <2>1, <2>3 DEF FoldsUp
<1>6. ASSUME NEW S \in SUBSET (1..n), S # {}
      PROVE  h[S] = One(h[S \ {Max(S)}])
  <2>1. PICK x : x = Max(S) /\ x \in S
    BY <1>6, GreatestIsOne, Zenon
  <2> HIDE DEF V, F, One
  <2>2. x \in Nat /\ S \ {x} \in SUBSET (1..n)
    <3>1. x \in Nat
      BY <2>1
    <3>2. S \ {x} \in SUBSET (1..n)
      OBVIOUS
    <3> QED  BY <3>1, <3>2
  <2>3. h[S \ {x}] \in V /\ h[S] = F[<<h[S \ {x}], x>>]
    BY <1>5, <1>6, <2>1, <2>2
  <2> QED  BY <1>4, <2>1, <2>2, <2>3
<1>7. Solves(h)
  <2> HIDE DEF V, F, One
  <2> QED  BY <1>2, <1>3, <1>5, <1>6
<1>8. PICK g : Solves(g) /\ g[1..n] = (CHOOSE f : Solves(f))[DOMAIN [i \in 1..n |-> i]]
  <2> HIDE DEF Solves
  <2> QED  BY <1>2, <1>7
<1>9. g[{}] = base /\ \A S \in SUBSET (1..n) : S # {} => g[S] = One(g[S \ {Max(S)}])
  <2> HIDE DEF One
  <2> QED  BY <1>2, <1>3, <1>8
<1>10. PICK q \in [0..n -> V] :
         /\ q[0] = base /\ q[n] = g[1..n]
         /\ \A k \in Nat : k < n => q[k + 1] = F[<<q[k], k + 1>>]
  <2> HIDE DEF Solves, One, F
  <2>1. PICK N, e, G : N = V /\ e = base /\ G = F
    OBVIOUS
  <2>2. e \in N /\ \A v \in N : \A i \in Nat : G[<<v, i>>] \in N
    BY <1>4, <2>1
  <2>3. ASSUME NEW S \in SUBSET (1..n), S # {}, g[S \ {Max(S)}] \in N
        PROVE  g[S] = G[<<g[S \ {Max(S)}], Max(S)>>]
    <3>1. PICK x : x = Max(S) /\ x \in S
      BY <2>3, GreatestIsOne, Zenon
    <3>2. x \in Nat
      BY <3>1
    <3>3. g[S] = One(g[S \ {x}]) /\ g[S \ {x}] \in V
      BY <1>9, <2>1, <2>3, <3>1
    <3> QED  BY <1>4, <2>1, <3>1, <3>2, <3>3
  <2>4. g[{}] = e
    BY <1>9, <2>1
  <2>5. RunsTo(n, N, e, G, g[1..n])
    BY ONLY n \in Nat, <2>2, <2>3, <2>4, FoldRuns, Zenon
  <2> QED  BY <2>1, <2>5 DEF Runs, RunsTo
<1>11. \A k \in Nat : k < n => q[k + 1] = Trodden!Look(m, target, q[k])
  <2> SUFFICES ASSUME NEW k \in Nat, k < n
               PROVE  q[k + 1] = Trodden!Look(m, target, q[k])
    OBVIOUS
  <2>1. PICK v \in V : v = q[k]
    OBVIOUS
  <2>2. k + 1 \in Nat
    OBVIOUS
  <2> HIDE DEF V, F, One
  <2>3. q[k + 1] = F[<<v, k + 1>>]
    BY <1>10, <2>1
  <2> QED  BY <1>4, <2>1, <2>2, <2>3
<1>12. \E all : SearchRun(all, m, begun, target, n, base, g[1..n])
  BY <1>10, <1>11 DEF SearchRun
<1> HIDE DEF V, F
<1> QED  BY <1>8, <1>12 DEF Trodden!FoldLeft, Trodden!MapThenFoldSet

Begins(s, begun, target) ==
  /\ s.open = {<<Far(begun, target), begun>>} /\ DOMAIN s.cost = {begun} /\ s.cost[begun] = 0
  /\ DOMAIN s.came = {} /\ s.arrived = FALSE

\* A search is settled, and is there or out of entries or within its looks.
OnItsWay(m, begun, target, s, looks) ==
  \E done, level : /\ Settled(m, begun, target, s, done, level)
                   /\ s.arrived \/ s.open = {} \/ Within(m, s, done, looks)

LEMMA LookOnItsWay ==
  ASSUME NEW m, OnRecord(m), NEW begun \in Legible, NEW target \in Legible,
         NEW s \in Searches(m, begun, target), NEW looks \in Nat, OnItsWay(m, begun, target, s, looks)
  PROVE  OnItsWay(m, begun, target, Trodden!Look(m, target, s), looks + 1)
<1>1. PICK done, level : /\ Settled(m, begun, target, s, done, level)
                         /\ s.arrived \/ s.open = {} \/ Within(m, s, done, looks)
  BY DEF OnItsWay
<1>2. PICK r : r = Trodden!Look(m, target, s)
  OBVIOUS
<1>3. CASE s.open = {} \/ s.arrived
  <2>1. r = s
    BY <1>2, <1>3 DEF Trodden!Look
  <2> QED  BY <1>1, <1>2, <1>3, <2>1 DEF OnItsWay
<1>4. CASE ~(s.open = {} \/ s.arrived)
  <2>1. PICK h \in s.open, x \in DOMAIN s.cost :
          /\ h[2] = x /\ \A p \in s.open : h[1] <= p[1]
          /\ IF x = target THEN r = [s EXCEPT !.arrived = TRUE]
             ELSE Further(s, target, r, h, x, Cheaper(m, s, x))
    BY <1>2, <1>4, LookIs
  <2>2. Within(m, s, done, looks)
    BY <1>1, <1>4
  <2>3. CASE x = target
    <3>1. r.arrived /\ r.open = s.open /\ r.cost = s.cost /\ r.came = s.came
      BY <2>1, <2>3 DEF Searches
    <3>2. Settled(m, begun, target, r, done, level)
      BY <1>1, <3>1 DEF Settled
    <3> QED  BY <1>2, <3>1, <3>2 DEF OnItsWay
  <2>4. CASE x # target /\ x \in done
    <3>1. Settled(m, begun, target, r, done, level) /\ Within(m, r, done, looks + 1)
      BY <1>1, <2>1, <2>2, <2>4, LookAgainSettles
    <3> QED  BY <1>2, <3>1 DEF OnItsWay
  <2>5. CASE x # target /\ x \notin done
    <3>1. Settled(m, begun, target, r, done \cup {x}, h[1])
      BY <1>1, <2>1, <2>5, LookAheadSettles
    <3>2. Within(m, r, done \cup {x}, looks + 1)
      BY <2>1, <2>2, <2>5, LookAheadWithin
    <3> QED  BY <1>2, <3>1, <3>2 DEF OnItsWay
  <2> QED  BY <2>3, <2>4, <2>5
<1> QED  BY <1>3, <1>4

\* As many looks as steps on record, and one, are enough.
Ends(m, begun, target, s) ==
  \E done, level : /\ Settled(m, begun, target, s, done, level)
                   /\ s.arrived \/ s.open = {}

LEMMA LooksAreEnough ==
  ASSUME NEW m, OnRecord(m), NEW begun \in Legible, NEW target \in Legible, NEW n \in Nat,
         n = 1 + Cardinality(StepsOn(m)), NEW base \in Searches(m, begun, target),
         Begins(base, begun, target), NEW got, NEW q, SearchRun(q, m, begun, target, n, base, got)
  PROVE  /\ got \in Searches(m, begun, target)
         /\ Ends(m, begun, target, got)
<1>0. /\ q \in [0..n -> Searches(m, begun, target)] /\ q[0] = base /\ q[n] = got
      /\ \A k \in Nat : k < n => q[k + 1] = Trodden!Look(m, target, q[k])
  BY DEF SearchRun
<1> DEFINE T == {k \in 0..n : OnItsWay(m, begun, target, q[k], k)}
<1>1. 0 \in T
  <2>1. PICK s \in Searches(m, begun, target) : s = q[0] /\ Begins(s, begun, target)
    BY <1>0
  <2>2. Far(begun, target) \in Nat
    BY FarIsMetric
  <2>3. PICK o : o = <<Far(begun, target), begun>>
    OBVIOUS
  <2>4. o[1] = Far(begun, target) /\ o[2] = begun /\ s.open = {o}
    BY <2>1, <2>3 DEF Begins
  <2>5. Settled(m, begun, target, s, {}, 0)
    BY <2>1, <2>2, <2>3, <2>4 DEF Settled, Begins
  <2>6. Within(m, s, {}, 0)
    <3>1. IsFiniteSet(s.open) /\ Cardinality(s.open) = 1
      BY <2>4, FS_Singleton
    <3>2. Tried(m, {}) = {} /\ Cardinality(Tried(m, {})) = 0
      BY FS_EmptySet DEF Tried
    <3> QED  BY <3>1, <3>2 DEF Within
  <2> QED  BY <2>1, <2>5, <2>6 DEF OnItsWay
<1>2. ASSUME NEW k \in T, k < n
      PROVE  k + 1 \in T
  <2>1. PICK s \in Searches(m, begun, target) : s = q[k] /\ OnItsWay(m, begun, target, s, k) /\ k \in Nat
    BY <1>0, <1>2
  <2>2. OnItsWay(m, begun, target, Trodden!Look(m, target, s), k + 1)
    BY <2>1, LookOnItsWay
  <2>3. q[k + 1] = Trodden!Look(m, target, s)
    BY <1>0, <1>2, <2>1
  <2> QED  BY <1>2, <2>1, <2>2, <2>3
<1>3. n \in T
  <2>1. T \in SUBSET (0..n)
    OBVIOUS
  <2> HIDE DEF T
  <2> QED  BY <1>1, <1>2, <2>1, RunsThrough
<1>4. PICK s \in Searches(m, begun, target) : s = got /\ OnItsWay(m, begun, target, s, n)
  BY <1>0, <1>3
<1>5. PICK done, level : /\ Settled(m, begun, target, s, done, level)
                         /\ s.arrived \/ s.open = {} \/ Within(m, s, done, n)
  BY <1>4 DEF OnItsWay
<1>6. ASSUME Within(m, s, done, n) PROVE s.open = {}
  <2>1. /\ Cardinality(Tried(m, done)) <= Cardinality(StepsOn(m)) /\ Cardinality(StepsOn(m)) \in Nat
        /\ Cardinality(Tried(m, done)) \in Nat
    BY StepsCounted, FS_Subset, FS_CardinalityType DEF Tried
  <2>2. Cardinality(s.open) \in Nat /\ n + Cardinality(s.open) <= 1 + Cardinality(Tried(m, done))
    BY <1>6, FS_CardinalityType DEF Within
  <2>3. Cardinality(s.open) = 0
    BY <2>1, <2>2
  <2> QED  BY <1>6, <2>3, FS_EmptySet DEF Within
<1> QED  BY <1>4, <1>5, <1>6 DEF Ends

-----------------------------------------------------------------------------
(* The way back, and how far steps on record lead at all.                   *)

\* Squares each a step on record from the one before it, from one that was come
\* to on to the target.
Walking(m, begun, target, trace) ==
  {w \in Seq(Legible) :
     /\ Len(w) >= 1 /\ w[1] \in DOMAIN trace \cup {begun} /\ w[Len(w)] = target
     /\ \A i \in 2..Len(w) : w[i - 1] \in DOMAIN m /\ w[i] \in m[w[i - 1]]}

\* On a way back that has not come to where it began no square is twice: each is
\* cheaper than the one after it.
Descends(s, begun, w, k) ==
  w[1] # begun => /\ Len(w) = k + 1 /\ \A i \in 1..Len(w) : w[i] \in DOMAIN s.came
                  /\ \A i, j \in 1..Len(w) : i < j => s.cost[w[i]] < s.cost[w[j]]

LEMMA WalkingBack ==
  ASSUME NEW m, OnRecord(m), NEW begun \in Legible, NEW target \in Legible,
         NEW s \in Searches(m, begun, target), NEW w \in Walking(m, begun, target, s.came), w[1] # begun
  PROVE  /\ <<s.came[w[1]]>> \o w \in Walking(m, begun, target, s.came)
         /\ \A done, level, k : Settled(m, begun, target, s, done, level) /\ k \in Nat /\ Descends(s, begun, w, k)
              => Descends(s, begun, <<s.came[w[1]]>> \o w, k + 1)
<1>1. /\ w \in Seq(Legible) /\ Len(w) \in Nat /\ Len(w) >= 1 /\ w[1] \in DOMAIN s.came /\ w[Len(w)] = target
      /\ \A i \in 2..Len(w) : w[i - 1] \in DOMAIN m /\ w[i] \in m[w[i - 1]]
  BY LenProperties DEF Walking
<1>2. PICK a, b : a = s.came[w[1]] /\ b = w[1]
  OBVIOUS
<1>3. a \in Legible /\ a \in DOMAIN s.came \cup {begun} /\ a \in DOMAIN m /\ b \in m[a]
  BY <1>1, <1>2 DEF Searches, Partial, OnRecord
<1>4. PICK u : u = <<a>> \o w
  OBVIOUS
<1>5. <<a>> \in Seq(Legible) /\ Len(<<a>>) = 1 /\ <<a>>[1] = a
  BY <1>3
<1>6. /\ u \in Seq(Legible) /\ Len(u) = 1 + Len(w)
      /\ \A i \in 1..(1 + Len(w)) : u[i] = IF i <= 1 THEN <<a>>[i] ELSE w[i - 1]
  BY <1>1, <1>4, <1>5, ConcatProperties
<1>7. u[1] = a /\ \A i \in 2..(1 + Len(w)) : u[i] = w[i - 1]
  BY <1>1, <1>5, <1>6
<1>8. ASSUME NEW i \in 2..Len(u)
      PROVE  u[i - 1] \in DOMAIN m /\ u[i] \in m[u[i - 1]]
  <2>1. u[i] = w[i - 1]
    BY <1>6, <1>7
  <2>2. CASE i = 2
    BY <1>2, <1>3, <1>7, <2>1, <2>2
  <2>3. CASE i # 2
    <3>1. i - 1 \in 2..Len(w) /\ i - 1 \in 2..(1 + Len(w))
      BY <1>1, <1>6, <2>3
    <3>2. u[i - 1] = w[(i - 1) - 1]
      BY <1>7, <3>1
    <3> QED  BY <1>1, <2>1, <3>1, <3>2
  <2> QED  BY <2>2, <2>3
<1>9. u[Len(u)] = target
  <2>1. 1 + Len(w) \in 2..(1 + Len(w)) /\ (1 + Len(w)) - 1 = Len(w)
    BY <1>1
  <2>2. u[1 + Len(w)] = w[Len(w)]
    BY <1>7, <2>1
  <2> QED  BY <1>1, <1>6, <2>2
<1>10. u \in Walking(m, begun, target, s.came)
  BY <1>1, <1>3, <1>6, <1>7, <1>8, <1>9 DEF Walking
<1>11. ASSUME NEW done, NEW level, NEW k \in Nat, Settled(m, begun, target, s, done, level),
              Descends(s, begun, w, k)
       PROVE  Descends(s, begun, u, k + 1)
  <2> SUFFICES ASSUME a # begun
               PROVE  /\ Len(u) = (k + 1) + 1 /\ \A i \in 1..Len(u) : u[i] \in DOMAIN s.came
                      /\ \A i, j \in 1..Len(u) : i < j => s.cost[u[i]] < s.cost[u[j]]
    BY <1>7 DEF Descends
  <2>1. /\ Len(w) = k + 1 /\ \A i \in 1..Len(w) : w[i] \in DOMAIN s.came
        /\ \A i, j \in 1..Len(w) : i < j => s.cost[w[i]] < s.cost[w[j]]
    BY <1>11 DEF Descends
  <2>2. a \in DOMAIN s.came /\ s.cost[a] < s.cost[b]
    BY <1>1, <1>2, <1>3, <1>11 DEF Settled
  <2>3. \A x \in DOMAIN s.came : s.cost[x] \in Nat
    BY SearchIsTyped
  <2>4. Len(u) = (k + 1) + 1
    BY <1>6, <2>1
  <2>5. ASSUME NEW i \in 1..Len(u)
        PROVE  u[i] \in DOMAIN s.came
    <3>1. CASE i = 1
      BY <1>7, <2>2, <3>1
    <3>2. CASE i # 1
      <4>1. i \in 2..(1 + Len(w)) /\ i - 1 \in 1..Len(w)
        BY <1>1, <1>6, <3>2
      <4> QED  BY <1>7, <2>1, <4>1
    <3> QED  BY <3>1, <3>2
  <2>6. ASSUME NEW i \in 1..Len(u), NEW j \in 1..Len(u), i < j
        PROVE  s.cost[u[i]] < s.cost[u[j]]
    <3>1. j \in 2..(1 + Len(w)) /\ j - 1 \in 1..Len(w) /\ u[j] = w[j - 1]
      BY <1>1, <1>6, <1>7, <2>6
    <3>2. CASE i # 1
      <4>1. i \in 2..(1 + Len(w)) /\ i - 1 \in 1..Len(w) /\ u[i] = w[i - 1] /\ i - 1 < j - 1
        BY <1>1, <1>6, <1>7, <2>6, <3>2
      <4> QED  BY <2>1, <3>1, <4>1
    <3>3. CASE i = 1
      <4>1. u[i] = a
        BY <1>7, <3>3
      <4>2. CASE j = 2
        BY <1>2, <2>2, <3>1, <4>1, <4>2
      <4>3. CASE j # 2
        <5>1. 1 \in 1..Len(w) /\ 1 < j - 1
          BY <1>1, <3>1, <4>3
        <5>2. s.cost[b] < s.cost[w[j - 1]]
          BY <1>2, <2>1, <3>1, <5>1
        <5>3. s.cost[a] \in Nat /\ s.cost[b] \in Nat /\ s.cost[w[j - 1]] \in Nat
          BY <1>1, <1>2, <2>1, <2>2, <2>3, <3>1
        <5> QED  BY <2>2, <3>1, <4>1, <5>2, <5>3
      <4> QED  BY <4>2, <4>3
    <3> QED  BY <3>2, <3>3
  <2> QED  BY <2>4, <2>5, <2>6
<1> QED  BY <1>2, <1>4, <1>10, <1>11

BackRun(q, m, begun, target, s, n, got) ==
  /\ q \in [0..n -> Walking(m, begun, target, s.came)] /\ q[0] = <<target>> /\ q[n] = got
  /\ \A k \in Nat : k < n =>
       q[k + 1] = IF q[k][1] = begun THEN q[k] ELSE <<s.came[q[k][1]]>> \o q[k]

LEMMA WayBackRuns ==
  ASSUME NEW m, OnRecord(m), NEW begun \in Legible, NEW target \in Legible, NEW n \in Nat,
         NEW s \in Searches(m, begun, target), s.arrived, NEW got
  PROVE  got = Trodden!FoldLeft(LAMBDA w, i : IF w[1] = begun THEN w ELSE <<s.came[w[1]]>> \o w,
                                <<target>>, [i \in 1..n |-> i])
           => \E q : BackRun(q, m, begun, target, s, n, got)
<1> DEFINE V == Walking(m, begun, target, s.came)
           Back(w) == IF w[1] = begun THEN w ELSE <<s.came[w[1]]>> \o w
           F == [p \in V \X Nat |-> Back(p[1])]
           Solves(g) == g = [S \in SUBSET DOMAIN [i \in 1..n |-> i] |->
                               IF S = {} THEN <<target>> ELSE Back(g[S \ {Trodden!Max(S)}])]
<1>1. <<target>> \in V
  <2>1. <<target>> \in Seq(Legible) /\ Len(<<target>>) = 1 /\ <<target>>[1] = target
    OBVIOUS
  <2>2. target \in DOMAIN s.came \cup {begun}
    BY DEF Searches
  <2>3. PICK w : w = <<target>>
    OBVIOUS
  <2>4. w \in Seq(Legible) /\ Len(w) = 1 /\ w[1] = target /\ w[Len(w)] = target /\ 2..Len(w) = {}
    <3>1. w \in Seq(Legible) /\ Len(w) = 1 /\ w[1] = target
      BY <2>1, <2>3
    <3> QED  BY <3>1
  <2>5. w \in V
    <3>1. Len(w) >= 1 /\ w[1] \in DOMAIN s.came \cup {begun}
      BY <2>2, <2>4
    <3> QED  BY <2>4, <3>1 DEF Walking
  <2> QED  BY <2>3, <2>5
<1>2. DOMAIN [i \in 1..n |-> i] = 1..n
  OBVIOUS
<1>3. \A S : Trodden!Max(S) = Max(S)
  BY DEF Trodden!Max, Max
<1>4. ASSUME NEW v \in V, NEW i \in Nat
      PROVE  F[<<v, i>>] = Back(v) /\ F[<<v, i>>] \in V
  <2>1. F[<<v, i>>] = Back(v)
    OBVIOUS
  <2>2. Back(v) \in V
    <3>1. CASE v[1] = begun
      BY <3>1
    <3>2. CASE v[1] # begun
      BY <3>2, WalkingBack
    <3> QED  BY <3>1, <3>2
  <2> HIDE DEF F, Back
  <2> QED  BY <2>1, <2>2
<1>5. PICK h \in [SUBSET (1..n) -> V] :
        \A S \in SUBSET (1..n) : h[S] = IF S = {} THEN <<target>> ELSE F[<<h[S \ {Max(S)}], Max(S)>>]
  <2> HIDE DEF F
  <2>1. PICK N, e, G : N = V /\ e = <<target>> /\ G = F
    OBVIOUS
  <2>2. e \in N /\ \A v \in N : \A i \in Nat : G[<<v, i>>] \in N
    BY <1>1, <1>4, <2>1
  <2>3. \E h : FoldsUp(h, n, N, e, G)
    BY <2>2, FoldExists, Zenon
  <2> QED  BY <2>1, <2>3 DEF FoldsUp
<1>6. ASSUME NEW S \in SUBSET (1..n), S # {}
      PROVE  h[S] = Back(h[S \ {Max(S)}])
  <2>1. PICK x : x = Max(S) /\ x \in S
    BY <1>6, GreatestIsOne, Zenon
  <2> HIDE DEF V, F, Back
  <2>2. x \in Nat /\ S \ {x} \in SUBSET (1..n)
    <3>1. x \in Nat
      BY <2>1
    <3>2. S \ {x} \in SUBSET (1..n)
      OBVIOUS
    <3> QED  BY <3>1, <3>2
  <2>3. h[S \ {x}] \in V /\ h[S] = F[<<h[S \ {x}], x>>]
    BY <1>5, <1>6, <2>1, <2>2
  <2> QED  BY <1>4, <2>1, <2>2, <2>3
<1>7. Solves(h)
  <2> HIDE DEF V, F, Back
  <2> QED  BY <1>2, <1>3, <1>5, <1>6
<1>8. PICK g : Solves(g) /\ g[1..n] = (CHOOSE f : Solves(f))[DOMAIN [i \in 1..n |-> i]]
  <2> HIDE DEF Solves
  <2> QED  BY <1>2, <1>7
<1>9. g[{}] = <<target>> /\ \A S \in SUBSET (1..n) : S # {} => g[S] = Back(g[S \ {Max(S)}])
  <2> HIDE DEF Back
  <2> QED  BY <1>2, <1>3, <1>8
<1>10. PICK q \in [0..n -> V] :
         /\ q[0] = <<target>> /\ q[n] = g[1..n]
         /\ \A k \in Nat : k < n => q[k + 1] = F[<<q[k], k + 1>>]
  <2> HIDE DEF Solves, Back, F
  <2>1. PICK N, e, G : N = V /\ e = <<target>> /\ G = F
    OBVIOUS
  <2>2. e \in N /\ \A v \in N : \A i \in Nat : G[<<v, i>>] \in N
    BY <1>1, <1>4, <2>1
  <2>3. ASSUME NEW S \in SUBSET (1..n), S # {}, g[S \ {Max(S)}] \in N
        PROVE  g[S] = G[<<g[S \ {Max(S)}], Max(S)>>]
    <3>1. PICK x : x = Max(S) /\ x \in S
      BY <2>3, GreatestIsOne, Zenon
    <3>2. x \in Nat
      BY <3>1
    <3>3. g[S] = Back(g[S \ {x}]) /\ g[S \ {x}] \in V
      BY <1>9, <2>1, <2>3, <3>1
    <3> QED  BY <1>4, <2>1, <3>1, <3>2, <3>3
  <2>4. g[{}] = e
    BY <1>9, <2>1
  <2>5. RunsTo(n, N, e, G, g[1..n])
    BY ONLY n \in Nat, <2>2, <2>3, <2>4, FoldRuns, Zenon
  <2> QED  BY <2>1, <2>5 DEF Runs, RunsTo
<1>11. \A k \in Nat : k < n => q[k + 1] = Back(q[k])
  <2> SUFFICES ASSUME NEW k \in Nat, k < n
               PROVE  q[k + 1] = Back(q[k])
    OBVIOUS
  <2>1. PICK v \in V : v = q[k]
    OBVIOUS
  <2>2. k + 1 \in Nat
    OBVIOUS
  <2> HIDE DEF V, F, Back
  <2>3. q[k + 1] = F[<<v, k + 1>>]
    BY <1>10, <2>1
  <2> QED  BY <1>4, <2>1, <2>2, <2>3
<1>12. \E all : BackRun(all, m, begun, target, s, n, g[1..n])
  BY <1>10, <1>11 DEF BackRun
<1> HIDE DEF V, F
<1> QED  BY <1>8, <1>12 DEF Trodden!FoldLeft, Trodden!MapThenFoldSet

\* As many steps back as squares were come to lead to where it began.
LEMMA BackIsEnough ==
  ASSUME NEW m, OnRecord(m), NEW begun \in Legible, NEW target \in Legible,
         NEW s \in Searches(m, begun, target), s.arrived,
         NEW done, NEW level, Settled(m, begun, target, s, done, level), NEW n \in Nat,
         n = Cardinality(DOMAIN s.came), NEW got, NEW q, BackRun(q, m, begun, target, s, n, got)
  PROVE  got \in Walking(m, begun, target, s.came) /\ got[1] = begun
<1>0. /\ q \in [0..n -> Walking(m, begun, target, s.came)] /\ q[0] = <<target>> /\ q[n] = got
      /\ \A k \in Nat : k < n =>
           q[k + 1] = IF q[k][1] = begun THEN q[k] ELSE <<s.came[q[k][1]]>> \o q[k]
  BY DEF BackRun
<1> DEFINE T == {k \in 0..n : Descends(s, begun, q[k], k)}
<1>1. 0 \in T
  <2>1. PICK w : w = q[0]
    OBVIOUS
  <2>2. Len(w) = 1 /\ w[1] = target
    BY <1>0, <2>1
  <2>3. target \in DOMAIN s.came \cup {begun}
    BY DEF Searches
  <2>4. Descends(s, begun, w, 0)
    BY <2>2, <2>3 DEF Descends
  <2> QED  BY <2>1, <2>4
<1>2. ASSUME NEW k \in T, k < n
      PROVE  k + 1 \in T
  <2>1. PICK w \in Walking(m, begun, target, s.came) : w = q[k] /\ Descends(s, begun, w, k) /\ k \in Nat
    BY <1>0
  <2>2. CASE w[1] = begun
    <3>1. q[k + 1] = w
      BY <1>0, <1>2, <2>1, <2>2
    <3>2. Descends(s, begun, w, k + 1)
      BY <2>2 DEF Descends
    <3> QED  BY <1>2, <2>1, <3>1, <3>2
  <2>3. CASE w[1] # begun
    <3>1. PICK u : u = <<s.came[w[1]]>> \o w /\ q[k + 1] = u
      BY <1>0, <1>2, <2>1, <2>3
    <3>2. \A d, l, i : Settled(m, begun, target, s, d, l) /\ i \in Nat /\ Descends(s, begun, w, i)
            => Descends(s, begun, <<s.came[w[1]]>> \o w, i + 1)
      BY ONLY OnRecord(m), begun \in Legible, target \in Legible, s \in Searches(m, begun, target),
              w \in Walking(m, begun, target, s.came), <2>3, WalkingBack
    <3> HIDE DEF T
    <3>3. Descends(s, begun, u, k + 1)
      BY <2>1, <3>1, <3>2, Zenon
    <3>4. k + 1 \in 0..n
      BY <1>2, <2>1
    <3> QED  BY <3>1, <3>3, <3>4 DEF T
  <2> QED  BY <2>2, <2>3
<1>3. n \in T
  <2>1. T \in SUBSET (0..n)
    OBVIOUS
  <2> HIDE DEF T
  <2> QED  BY <1>1, <1>2, <2>1, RunsThrough
<1>4. PICK w \in Walking(m, begun, target, s.came) : w = got /\ Descends(s, begun, w, n)
  BY <1>0, <1>3
<1>5. ASSUME w[1] # begun PROVE FALSE
  <2>1. /\ Len(w) = n + 1 /\ \A i \in 1..Len(w) : w[i] \in DOMAIN s.came
        /\ \A i, j \in 1..Len(w) : i < j => s.cost[w[i]] < s.cost[w[j]]
    BY <1>4, <1>5 DEF Descends
  <2>2. PICK D, N : D = DOMAIN s.came /\ N = 1..(n + 1)
    OBVIOUS
  <2>3. IsFiniteSet(D)
    <3>1. D \subseteq Legible
      BY <2>2 DEF Searches, Partial
    <3> QED  BY <3>1, TrailAssumption, FS_Subset DEF TrailAssumption
  <2>4. IsFiniteSet(N) /\ Cardinality(N) = n + 1
    BY <2>2, FS_Interval
  <2>5. PICK f : f = [i \in N |-> w[i]]
    OBVIOUS
  <2>6. f \in [N -> D]
    BY <2>1, <2>2, <2>5
  <2>7. \A i, j \in N : f[i] = f[j] => i = j
    <3> SUFFICES ASSUME NEW i \in N, NEW j \in N, w[i] = w[j], i # j PROVE FALSE
      BY <2>5
    <3>1. s.cost[w[i]] \in Nat
      BY <2>1, <2>2, SearchIsTyped
    <3>2. i < j \/ j < i
      BY <2>2
    <3> QED  BY <2>1, <2>2, <3>1, <3>2
  <2>8. f \in Injection(N, D)
    BY <2>6, <2>7 DEF Injection, IsInjective
  <2>9. Cardinality(N) <= Cardinality(D)
    BY <2>3, <2>8, FS_Injection
  <2> QED  BY <2>2, <2>4, <2>9
<1> QED  BY <1>4, <1>5

\* Steps on record do not lead out of squares they do not lead out of.
LEMMA StepsStayWithin ==
  ASSUME NEW m, NEW D, NEW begun \in D, \A x \in D : x \in DOMAIN m => m[x] \subseteq D
  PROVE  Trodden!Reached(m, begun) \subseteq D
<1> DEFINE V == SUBSET D
           On(r) == r \cup UNION {m[x] : x \in r \cap DOMAIN m}
           F == [p \in V \X Nat |-> On(p[1])]
<1>0. PICK n \in Nat : n = Trodden!Cardinality(Squares)
  <2>1. IsFiniteSet(Squares)
    BY TrailAssumption, FS_Subset DEF TrailAssumption, Legible
  <2> QED  BY <2>1, SameCount, FS_CardinalityType
<1> DEFINE Solves(g) == g = [S \in SUBSET DOMAIN [i \in 1..n |-> i] |->
                               IF S = {} THEN {begun} ELSE On(g[S \ {Trodden!Max(S)}])]
<1>1. {begun} \in V
  OBVIOUS
<1>2. DOMAIN [i \in 1..n |-> i] = 1..n
  OBVIOUS
<1>3. \A S : Trodden!Max(S) = Max(S)
  BY DEF Trodden!Max, Max
<1>4. ASSUME NEW v \in V, NEW i \in Nat
      PROVE  F[<<v, i>>] = On(v) /\ F[<<v, i>>] \in V
  <2>1. F[<<v, i>>] = On(v)
    OBVIOUS
  <2>2. On(v) \in V
    OBVIOUS
  <2> HIDE DEF F, On, V
  <2> QED  BY <2>1, <2>2
<1>5. PICK h \in [SUBSET (1..n) -> V] :
        \A S \in SUBSET (1..n) : h[S] = IF S = {} THEN {begun} ELSE F[<<h[S \ {Max(S)}], Max(S)>>]
  <2> HIDE DEF F, V
  <2>1. PICK N, e, G : N = V /\ e = {begun} /\ G = F
    OBVIOUS
  <2>2. e \in N /\ \A v \in N : \A i \in Nat : G[<<v, i>>] \in N
    BY <1>1, <1>4, <2>1
  <2>3. \E h : FoldsUp(h, n, N, e, G)
    BY <2>2, FoldExists, Zenon
  <2> QED  BY <2>1, <2>3 DEF FoldsUp
<1>6. ASSUME NEW S \in SUBSET (1..n), S # {}
      PROVE  h[S] = On(h[S \ {Max(S)}])
  <2>1. PICK x : x = Max(S) /\ x \in S
    BY <1>6, GreatestIsOne, Zenon
  <2> HIDE DEF V, F, On
  <2>2. x \in Nat /\ S \ {x} \in SUBSET (1..n)
    <3>1. x \in Nat
      BY <2>1
    <3>2. S \ {x} \in SUBSET (1..n)
      OBVIOUS
    <3> QED  BY <3>1, <3>2
  <2>3. h[S \ {x}] \in V /\ h[S] = F[<<h[S \ {x}], x>>]
    BY <1>5, <1>6, <2>1, <2>2
  <2> QED  BY <1>4, <2>1, <2>2, <2>3
<1>7. Solves(h)
  <2> HIDE DEF V, F, On
  <2> QED  BY <1>2, <1>3, <1>5, <1>6
<1>8. PICK g : Solves(g) /\ g[1..n] = (CHOOSE f : Solves(f))[DOMAIN [i \in 1..n |-> i]]
  <2> HIDE DEF Solves
  <2> QED  BY <1>2, <1>7
<1>9. g[{}] = {begun} /\ \A S \in SUBSET (1..n) : S # {} => g[S] = On(g[S \ {Max(S)}])
  <2> HIDE DEF On
  <2> QED  BY <1>2, <1>3, <1>8
<1>10. g[1..n] \in V
  <2> HIDE DEF Solves, On, F, V
  <2>1. PICK N, e, G : N = V /\ e = {begun} /\ G = F
    OBVIOUS
  <2>2. e \in N /\ \A v \in N : \A i \in Nat : G[<<v, i>>] \in N
    BY <1>1, <1>4, <2>1
  <2>3. ASSUME NEW S \in SUBSET (1..n), S # {}, g[S \ {Max(S)}] \in N
        PROVE  g[S] = G[<<g[S \ {Max(S)}], Max(S)>>]
    <3>1. PICK x : x = Max(S) /\ x \in S
      BY <2>3, GreatestIsOne, Zenon
    <3>2. x \in Nat
      BY <3>1
    <3>3. g[S] = On(g[S \ {x}]) /\ g[S \ {x}] \in V
      BY <1>9, <2>1, <2>3, <3>1
    <3> QED  BY <1>4, <2>1, <3>1, <3>2, <3>3
  <2>4. g[{}] = e
    BY <1>9, <2>1
  <2>5. RunsTo(n, N, e, G, g[1..n])
    BY ONLY n \in Nat, <2>2, <2>3, <2>4, FoldRuns, Zenon
  <2> QED  BY <2>1, <2>5 DEF Runs, RunsTo
<1>11. Trodden!FoldLeft(LAMBDA r, i : On(r), {begun}, [i \in 1..n |-> i]) \in V
  <2> HIDE DEF V
  <2> QED  BY <1>8, <1>10 DEF Trodden!FoldLeft, Trodden!MapThenFoldSet
<1> QED  BY <1>0, <1>11 DEF Trodden!Reached

\* A way is one of steps on record from the one square to the other, and there is
\* none when steps on record do not lead there.
Leads(m, begun, target, w) ==
  IF w = <<>> THEN target \notin Trodden!Reached(m, begun)
  ELSE /\ w \in Seq(Legible) /\ w[1] = begun /\ w[Len(w)] = target
       /\ \A i \in 2..Len(w) : w[i - 1] \in DOMAIN m /\ w[i] \in m[w[i - 1]]

LEMMA WayLeads ==
  ASSUME NEW m, OnRecord(m), NEW begun \in Legible, NEW target \in Legible
  PROVE  Leads(m, begun, target, Trodden!Way(m, begun, target))
<1> DEFINE One(s) == CHOOSE r \in {Trodden!Look(m, target, v) : v \in {s}} : TRUE
           k == 1 + Trodden!Cardinality(UNION {{s} \X m[s] : s \in DOMAIN m})
           base == [open |-> {<<Far(begun, target), begun>>}, cost |-> [s \in {begun} |-> 0],
                    came |-> Trodden!Empty, arrived |-> FALSE]
           ended == Trodden!FoldLeft(LAMBDA v, i : One(v), base, [i \in 1..k |-> i])
           Goes(s) == Trodden!FoldLeft(LAMBDA w, i : IF w[1] = begun THEN w ELSE <<s.came[w[1]]>> \o w,
                                       <<target>>, [i \in 1..Trodden!Cardinality(DOMAIN s.came) |-> i])
<1>1. Trodden!Way(m, begun, target) = IF ~ended.arrived THEN <<>> ELSE Goes(ended)
  BY DEF Trodden!Way
<1>2. k = 1 + Cardinality(StepsOn(m)) /\ k \in Nat
  BY SameCount, StepsCounted DEF StepsOn
<1>3. base \in Searches(m, begun, target) /\ Begins(base, begun, target)
  <2>1. Far(begun, target) \in Nat
    BY FarIsMetric
  <2>2. [s \in {begun} |-> 0] \in Partial(Nat)
    <3>1. [s \in {begun} |-> 0] \in [{begun} -> Nat] /\ {begun} \in SUBSET Legible
      OBVIOUS
    <3> QED  BY <3>1 DEF Partial
  <2>3. Trodden!Empty \in Partial(Legible) /\ DOMAIN Trodden!Empty = {}
    <3>1. PICK nothing \in Seq(Legible) : nothing = <<>> /\ Len(nothing) = 0
      <4>1. <<>> \in Seq(Legible) /\ Len(<<>>) = 0
        OBVIOUS
      <4> QED  BY <4>1
    <3>2. nothing \in [1..0 -> Legible] /\ DOMAIN nothing = 1..0
      BY <3>1, LenProperties
    <3>3. 1..0 = {}
      OBVIOUS
    <3> QED  BY <3>1, <3>2, <3>3 DEF Partial, Trodden!Empty
  <2>4. PICK c, f : c = [s \in {begun} |-> 0] /\ f = Trodden!Empty
    OBVIOUS
  <2>5. /\ c \in Partial(Nat) /\ f \in Partial(Legible) /\ DOMAIN c = {begun} /\ DOMAIN f = {}
        /\ c[begun] = 0
    BY <2>2, <2>3, <2>4
  <2>6. base = [open |-> {<<Far(begun, target), begun>>}, cost |-> c, came |-> f, arrived |-> FALSE]
    BY <2>4
  <2> QED  BY <2>1, <2>5, <2>6 DEF Searches, Begins
<1>4. PICK n \in Nat : n = k
  BY <1>2
<1>5. PICK s, done, level :
        /\ s = ended /\ s \in Searches(m, begun, target)
        /\ Settled(m, begun, target, s, done, level)
        /\ s.arrived \/ s.open = {}
  <2>1. PICK b \in Searches(m, begun, target) : b = base /\ Begins(b, begun, target)
    BY <1>3
  <2>2. ended = Trodden!FoldLeft(LAMBDA v, i : One(v), b, [i \in 1..n |-> i])
    <3> HIDE DEF base, k, One
    <3> QED  BY <1>4, <2>1
  <2>3. PICK e : e = ended
    OBVIOUS
  <2>4. e = Trodden!FoldLeft(LAMBDA v, i : One(v), b, [i \in 1..n |-> i])
    <3> HIDE DEF ended, One
    <3> QED  BY <2>2, <2>3
  <2> HIDE DEF base, k, ended
  <2>5. PICK q : SearchRun(q, m, begun, target, n, b, e)
    BY <2>4, SearchRuns
  <2>6. n = 1 + Cardinality(StepsOn(m))
    BY <1>2, <1>4
  <2>7. e \in Searches(m, begun, target) /\ Ends(m, begun, target, e)
    BY <2>1, <2>5, <2>6, LooksAreEnough
  <2> QED  BY <2>3, <2>7 DEF Ends
<1>6. CASE ~s.arrived
  <2>1. Trodden!Way(m, begun, target) = <<>>
    BY <1>1, <1>5, <1>6
  <2>2. s.open = {} /\ DOMAIN s.cost = done
    BY <1>5, <1>6 DEF Settled
  <2>3. begun \in done /\ \A x \in done : x \in DOMAIN m => m[x] \subseteq done
    <3> HIDE DEF base, k, ended
    <3>1. begun \in DOMAIN s.cost
      BY <1>5, SearchIsTyped
    <3> QED  BY <1>5, <2>2, <3>1 DEF Settled
  <2>4. Trodden!Reached(m, begun) \subseteq done
    BY <2>3, StepsStayWithin
  <2>5. target \notin done
    BY <1>5 DEF Settled
  <2> QED  BY <2>1, <2>4, <2>5 DEF Leads
<1>7. CASE s.arrived
  <2> HIDE DEF base, k, ended
  <2>1. PICK w : w = Goes(s) /\ w \in Walking(m, begun, target, s.came) /\ w[1] = begun
    <3>1. PICK c \in Nat : c = Trodden!Cardinality(DOMAIN s.came) /\ c = Cardinality(DOMAIN s.came)
      <4>1. DOMAIN s.came \subseteq Legible
        BY <1>5 DEF Searches, Partial
      <4>2. IsFiniteSet(DOMAIN s.came)
        BY <4>1, TrailAssumption, FS_Subset DEF TrailAssumption
      <4> QED  BY <4>2, SameCount, FS_CardinalityType
    <3>2. PICK e : e = Goes(s)
      OBVIOUS
    <3>3. e = Trodden!FoldLeft(LAMBDA w, i : IF w[1] = begun THEN w ELSE <<s.came[w[1]]>> \o w,
                               <<target>>, [i \in 1..c |-> i])
      BY <3>1, <3>2
    <3> HIDE DEF Goes
    <3>4. PICK q : BackRun(q, m, begun, target, s, c, e)
      BY <1>5, <1>7, <3>3, WayBackRuns
    <3>5. e \in Walking(m, begun, target, s.came) /\ e[1] = begun
      BY <1>5, <1>7, <3>1, <3>4, BackIsEnough
    <3> QED  BY <3>2, <3>5
  <2>2. Trodden!Way(m, begun, target) = w
    <3> HIDE DEF Goes
    <3> QED  BY <1>1, <1>5, <1>7, <2>1
  <2>3. w # <<>>
    <3>1. w \in Seq(Legible) /\ Len(w) >= 1
      BY <2>1 DEF Walking
    <3> QED  BY <3>1
  <2> QED  BY <2>1, <2>2, <2>3 DEF Leads, Walking
<1> QED  BY <1>6, <1>7

-----------------------------------------------------------------------------
(* What is on record, from one sitting to the next.                         *)

\* A way is made of steps that were taken.
WasWalked(w) == w = <<>> \/ /\ w \in Seq(Legible)
                            /\ \A i \in 2..Len(w) : <<w[i - 1], w[i]>> \in stepped

LEMMA WayIsWalked ==
  ASSUME NEW m, Recorded(m), NEW begun \in Legible, NEW target \in Legible
  PROVE  WasWalked(Trodden!Way(m, begun, target))
<1>1. PICK w : w = Trodden!Way(m, begun, target) /\ Leads(m, begun, target, w)
  BY WayLeads DEF Recorded
<1> QED  BY <1>1 DEF Leads, WasWalked, Recorded

\* What was asked between two squares on record was answered.
Answered ==
  asked # <<>> /\ Trodden!Range(asked) \subseteq DOMAIN map =>
    /\ asked = <<asked[1], asked[2]>>
    /\ Leads(map, asked[1], asked[2], route)

\* On record are squares he stood in, and what is left of them; until a file is cut
\* off, what is on record was stepped and what is given was.
TrailInv ==
  /\ last = Trodden!NoSquare \/ last \in Squares
  /\ OnRecord(map) /\ OnRecord(file) /\ Answered
  /\ ~torn => Recorded(map) /\ Recorded(file) /\ WasWalked(route)

LEMMA NothingWalked == WasWalked(<<>>)
BY DEF WasWalked

LEMMA NothingIsOnRecord == DOMAIN Trodden!Empty = {}
<1>1. PICK nothing \in Seq(Squares) : nothing = <<>> /\ Len(nothing) = 0
  <2>1. <<>> \in Seq(Squares) /\ Len(<<>>) = 0
    OBVIOUS
  <2> QED  BY <2>1
<1>2. DOMAIN nothing = 1..0 /\ 1..0 = {}
  BY <1>1, LenProperties
<1> QED  BY <1>1, <1>2 DEF Trodden!Empty

LEMMA NothingOnRecord == Recorded(Trodden!Empty)
BY NothingIsOnRecord DEF OnRecord, Recorded

LEMMA TrailInvInit == ASSUME Trodden!Init PROVE TrailInv
BY NothingOnRecord, NothingWalked DEF TrailInv, Recorded, Answered, Trodden!Init

LEMMA TrailStays ==
  ASSUME TrailInv, UNCHANGED trailvars
  PROVE  TrailInv'
BY DEF TrailInv, trailvars, OnRecord, Recorded, WasWalked, Answered, Leads

\* What a visit makes of what was on record.
With(m, key) == [s \in DOMAIN m \cup {key} |-> IF s \in DOMAIN m THEN m[s] ELSE {}]
Learned(m, key) ==
  IF Trodden!IsAStep(key) THEN Trodden!Join(Trodden!Join(With(m, key), last, key), key, last)
  ELSE With(m, key)

\* A visit puts the step it is on record with what was there, and no other.
LEMMA VisitJoins ==
  ASSUME NEW m, OnRecord(m), NEW key \in Squares, last = Trodden!NoSquare \/ last \in Squares,
         stepped \subseteq stepped',
         Trodden!IsAStep(key) => <<last, key>> \in stepped' /\ <<key, last>> \in stepped'
  PROVE  LET r == Learned(m, key)
         IN  /\ OnRecord(r)
             /\ Recorded(m) => \A s \in DOMAIN r : \A t \in r[s] : <<s, t>> \in stepped'
<1>0. PICK with, r : with = With(m, key) /\ r = Learned(m, key)
  OBVIOUS
<1>1. /\ OnRecord(with) /\ Squares \subseteq Legible
      /\ Recorded(m) => \A s \in DOMAIN with : \A t \in with[s] : <<s, t>> \in stepped'
  BY <1>0 DEF OnRecord, Recorded, With, Legible
<1>2. CASE ~Trodden!IsAStep(key)
  <2>1. r = with
    BY <1>0, <1>2 DEF Learned
  <2> QED  BY <1>0, <1>1, <2>1
<1>3. CASE Trodden!IsAStep(key)
  <2>1. PICK u : u = [with EXCEPT ![last] = @ \cup {key}]
    OBVIOUS
  <2>2. r = [u EXCEPT ![key] = @ \cup {last}]
    BY <1>0, <1>3, <2>1 DEF Learned, Trodden!Join
  <2>3. last \in Legible /\ key \in Legible
    BY <1>1, <1>3 DEF Trodden!IsAStep
  <2>4. /\ OnRecord(u)
        /\ Recorded(m) => \A s \in DOMAIN u : \A t \in u[s] : <<s, t>> \in stepped'
    BY <1>1, <1>3, <2>1, <2>3 DEF OnRecord
  <2>5. OnRecord(r)
    BY <2>2, <2>3, <2>4 DEF OnRecord
  <2>6. Recorded(m) => \A s \in DOMAIN r : \A t \in r[s] : <<s, t>> \in stepped'
    BY <1>3, <2>2, <2>4
  <2> QED  BY <1>0, <2>5, <2>6
<1> QED  BY <1>2, <1>3

LEMMA TrailStep ==
  ASSUME TrailInv, Trodden!Step
  PROVE  TrailInv'
<1>1. PICK m : m = Trodden!Known /\ torn' = torn /\ route' = <<>> /\ asked' = <<>>
  BY DEF Trodden!Step
<1>2. PICK key \in Squares :
        /\ Trodden!Visited(m, key)
        /\ stepped' = stepped \cup
             {pair \in {<<last, key>>, <<key, last>>} :
                last # Trodden!NoSquare /\ last # key /\ Far(last, key) <= kStepAtMost}
  BY <1>1 DEF Trodden!Step
<1>3. PICK joined : joined = Learned(m, key)
  OBVIOUS
<1>4. \/ map' = m /\ UNCHANGED <<last, file>>
      \/ map' = joined /\ last' = key /\ (file' = joined \/ file' = file)
  BY <1>2, <1>3 DEF Trodden!Visited, Trodden!Save, Learned, With
<1>5. last' = Trodden!NoSquare \/ last' \in Squares
  BY <1>4 DEF TrailInv
<1>6. stepped \subseteq stepped'
  BY <1>2
<1>7. /\ OnRecord(m) /\ OnRecord(file) /\ OnRecord(joined)
      /\ Recorded(m) => \A s \in DOMAIN joined : \A t \in joined[s] : <<s, t>> \in stepped'
  <2>1. OnRecord(m) /\ OnRecord(file)
    BY <1>1 DEF TrailInv, Trodden!Known
  <2>2. Trodden!IsAStep(key) => <<last, key>> \in stepped' /\ <<key, last>> \in stepped'
    BY <1>2 DEF Trodden!IsAStep
  <2>3. last = Trodden!NoSquare \/ last \in Squares
    BY DEF TrailInv
  <2> QED  BY <1>3, <1>6, <2>1, <2>2, <2>3, VisitJoins
<1>8. OnRecord(map)' /\ OnRecord(file)'
  BY <1>4, <1>7 DEF OnRecord
<1>9. ASSUME ~torn'
      PROVE  Recorded(map)' /\ Recorded(file)' /\ WasWalked(route)'
  <2>1. Recorded(m) /\ Recorded(file)
    BY <1>1, <1>9 DEF TrailInv, Trodden!Known
  <2>2. \A s \in DOMAIN joined : \A t \in joined[s] : <<s, t>> \in stepped'
    BY <1>7, <2>1
  <2>3. \A s \in DOMAIN m : \A t \in m[s] : <<s, t>> \in stepped'
    BY <1>6, <2>1 DEF Recorded
  <2>4. \A s \in DOMAIN file : \A t \in file[s] : <<s, t>> \in stepped'
    BY <1>6, <2>1 DEF Recorded
  <2>5. Recorded(map)'
    BY <1>4, <1>8, <2>2, <2>3 DEF Recorded
  <2>6. Recorded(file)'
    BY <1>4, <1>8, <2>2, <2>4 DEF Recorded
  <2> QED  BY <1>1, <2>5, <2>6 DEF WasWalked
<1>10. Answered'
  BY <1>1 DEF Answered
<1> QED  BY <1>5, <1>8, <1>9, <1>10 DEF TrailInv

\* A question between squares on record begins and ends where it was asked.
LEMMA ClosestIsItself ==
  ASSUME NEW m, OnRecord(m), NEW at \in DOMAIN m
  PROVE  Trodden!Closest(m, at) = {at}
<1>1. at \in Legible /\ Far(at, at) = 0 /\ kNearEnough \in Nat
  BY TrailAssumption DEF OnRecord, TrailAssumption
<1>2. \A s \in DOMAIN m : Far(s, at) \in Nat /\ (Far(s, at) = 0 <=> s = at)
  BY <1>1, FarIsMetric DEF OnRecord
<1>3. at \in Trodden!Closest(m, at)
  BY <1>1, <1>2 DEF Trodden!Closest
<1>4. ASSUME NEW s \in Trodden!Closest(m, at)
      PROVE  s = at
  <2>1. s \in DOMAIN m /\ Far(s, at) <= Far(at, at)
    BY <1>4 DEF Trodden!Closest
  <2> QED  BY <1>1, <1>2, <2>1
<1> QED  BY <1>3, <1>4

LEMMA TrailRoute ==
  ASSUME TrailInv, Trodden!Route
  PROVE  TrailInv'
<1>1. PICK m : m = Trodden!Known /\ map' = m /\ UNCHANGED <<last, file, stepped, torn>>
  BY DEF Trodden!Route, Trodden!history
<1>2. PICK q \in Questions :
        /\ asked' = q
        /\ IF Trodden!Closest(m, q[1]) = {} \/ Trodden!Closest(m, q[2]) = {} THEN route' = <<>>
           ELSE \E begun \in Trodden!Closest(m, q[1]), target \in Trodden!Closest(m, q[2]) :
                  route' = Trodden!Way(m, begun, target)
  BY <1>1 DEF Trodden!Route
<1>3. OnRecord(m) /\ OnRecord(file)
  BY <1>1 DEF TrailInv, Trodden!Known
<1>4. OnRecord(map)' /\ OnRecord(file)'
  BY <1>1, <1>3 DEF OnRecord
<1>5. ASSUME ~torn'
      PROVE  Recorded(map)' /\ Recorded(file)' /\ WasWalked(route)'
  <2>1. Recorded(m) /\ Recorded(file)
    BY <1>1, <1>5 DEF TrailInv, Trodden!Known
  <2>2. Recorded(map)' /\ Recorded(file)'
    BY <1>1, <1>4, <2>1 DEF Recorded
  <2>3. \A p : Trodden!Closest(m, p) \subseteq Legible
    BY <1>3 DEF Trodden!Closest, OnRecord
  <2>4. route' = <<>> \/ \E begun \in Legible, target \in Legible : route' = Trodden!Way(m, begun, target)
    BY <1>2, <2>3
  <2>5. PICK r : r = route' /\ WasWalked(r)
    BY <2>1, <2>4, WayIsWalked, NothingWalked
  <2> QED  BY <1>1, <2>2, <2>5 DEF WasWalked
<1>6. Answered'
  <2> SUFFICES ASSUME Trodden!Range(q) \subseteq DOMAIN m
               PROVE  q = <<q[1], q[2]>> /\ Leads(m, q[1], q[2], route')
    BY <1>1, <1>2 DEF Answered, Leads
  <2>1. PICK a, b : a = q[1] /\ b = q[2] /\ q = <<a, b>>
    BY TrailAssumption DEF TrailAssumption
  <2>2. a \in DOMAIN m /\ b \in DOMAIN m
    BY <2>1 DEF Trodden!Range
  <2>3. Trodden!Closest(m, a) = {a} /\ Trodden!Closest(m, b) = {b}
    BY <1>3, <2>2, ClosestIsItself
  <2>4. route' = Trodden!Way(m, a, b)
    BY <1>2, <2>1, <2>3
  <2>5. a \in Legible /\ b \in Legible
    BY <1>3, <2>2 DEF OnRecord
  <2>6. Leads(m, a, b, Trodden!Way(m, a, b))
    BY <1>3, <2>5, WayLeads
  <2> QED  BY <2>1, <2>4, <2>6
<1>7. last' = Trodden!NoSquare \/ last' \in Squares
  BY <1>1 DEF TrailInv
<1> QED  BY <1>4, <1>5, <1>6, <1>7 DEF TrailInv

LEMMA TrailRestart ==
  ASSUME TrailInv, Trodden!Restart
  PROVE  TrailInv'
<1>1. /\ map' = Trodden!Empty /\ last' = Trodden!NoSquare /\ route' = <<>> /\ asked' = <<>>
      /\ UNCHANGED <<file, torn>>
      /\ stepped' = {s \in stepped : s[1] \in DOMAIN file /\ s[2] \in file[s[1]]}
  BY DEF Trodden!Restart
<1>2. Recorded(map)' /\ OnRecord(map)'
  <2>1. DOMAIN Trodden!Empty = {}
    BY NothingIsOnRecord
  <2> QED  BY <1>1, <2>1 DEF OnRecord, Recorded
<1>3. OnRecord(file)'
  BY <1>1 DEF TrailInv, OnRecord
<1>4. ASSUME ~torn'
      PROVE  Recorded(file)'
  <2>1. Recorded(file)
    BY <1>1, <1>4 DEF TrailInv
  <2> QED  BY <1>1, <1>3, <2>1 DEF Recorded
<1> QED  BY <1>1, <1>2, <1>3, <1>4 DEF TrailInv, WasWalked, Answered

\* Whatever is left of a file that was cut off is on record.
LEMMA CutFileReads ==
  ASSUME OnRecord(map), Trodden!TornSave
  PROVE  OnRecord(file)'
<1>1. PICK lines \in SUBSET DOMAIN map :
        \/ file' = [l \in lines |-> map[l]]
        \/ \E s, on : /\ file' = [l \in lines \cup {s} |-> IF l \in lines THEN map[l] ELSE on]
                      /\ s \in Legible /\ on \subseteq Legible
  <2>1. /\ \A s \in Legible : CutStep(s) \subseteq Legible /\ CutSquare(s) \subseteq Legible
        /\ DOMAIN map \subseteq Legible /\ \A s \in DOMAIN map : map[s] \subseteq Legible
    BY TrailAssumption DEF OnRecord, TrailAssumption
  <2>2. PICK lines \in SUBSET DOMAIN map :
          \/ file' = [l \in lines |-> map[l]]
          \/ \E s \in DOMAIN map \ lines :
               \/ \E some \in SUBSET map[s] :
                    file' = [l \in lines \cup {s} |-> IF l \in lines THEN map[l] ELSE some]
               \/ \E some \in SUBSET map[s], t \in map[s] : \E cut \in CutStep(t) :
                    file' = [l \in lines \cup {s} |-> IF l \in lines THEN map[l] ELSE some \cup {cut}]
               \/ \E cut \in CutSquare(s) :
                    file' = [l \in lines \cup {cut} |-> IF l \in lines THEN map[l] ELSE {}]
    BY DEF Trodden!TornSave
  <2>3. CASE file' = [l \in lines |-> map[l]]
    BY <2>3
  <2>4. ASSUME NEW s \in DOMAIN map \ lines, NEW some \in SUBSET map[s],
               file' = [l \in lines \cup {s} |-> IF l \in lines THEN map[l] ELSE some]
        PROVE  \E e, on : /\ file' = [l \in lines \cup {e} |-> IF l \in lines THEN map[l] ELSE on]
                          /\ e \in Legible /\ on \subseteq Legible
    BY <2>1, <2>4
  <2>5. ASSUME NEW s \in DOMAIN map \ lines, NEW some \in SUBSET map[s], NEW t \in map[s], NEW cut \in CutStep(t),
               file' = [l \in lines \cup {s} |-> IF l \in lines THEN map[l] ELSE some \cup {cut}]
        PROVE  \E e, on : /\ file' = [l \in lines \cup {e} |-> IF l \in lines THEN map[l] ELSE on]
                          /\ e \in Legible /\ on \subseteq Legible
    <3>1. PICK on : on = some \cup {cut} /\ on \subseteq Legible
      BY <2>1
    <3> QED  BY <2>1, <2>5, <3>1
  <2>6. ASSUME NEW s \in DOMAIN map \ lines, NEW cut \in CutSquare(s),
               file' = [l \in lines \cup {cut} |-> IF l \in lines THEN map[l] ELSE {}]
        PROVE  \E e, on : /\ file' = [l \in lines \cup {e} |-> IF l \in lines THEN map[l] ELSE on]
                          /\ e \in Legible /\ on \subseteq Legible
    BY <2>1, <2>6
  <2> QED  BY <2>2, <2>3, <2>4, <2>5, <2>6
<1>2. PICK f : f = file'
  OBVIOUS
<1>3. OnRecord(f)
  BY <1>1, <1>2 DEF OnRecord
<1> QED  BY <1>2, <1>3 DEF OnRecord

LEMMA TrailLeaves ==
  ASSUME TrailInv, Trodden!Leave \/ Trodden!Down \/ Trodden!TornSave
  PROVE  TrailInv'
<1>1. CASE Trodden!Leave \/ Trodden!Down
  <2>1. /\ UNCHANGED <<map, last, stepped, torn>> /\ route' = <<>> /\ asked' = <<>>
        /\ file' = map \/ file' = file
    BY <1>1 DEF Trodden!Leave, Trodden!Down, Trodden!memory, Trodden!history
  <2> QED  BY <2>1 DEF TrailInv, OnRecord, Recorded, WasWalked, Answered
<1>2. CASE Trodden!TornSave
  <2>1. UNCHANGED <<map, last>> /\ torn' /\ asked' = <<>>
    BY <1>2 DEF Trodden!TornSave, Trodden!memory
  <2>2. OnRecord(map)'
    BY <2>1 DEF TrailInv, OnRecord
  <2>3. OnRecord(file)'
    BY <1>2, CutFileReads DEF TrailInv
  <2> QED  BY <2>1, <2>2, <2>3 DEF TrailInv, Answered
<1> QED  BY <1>1, <1>2

LEMMA TrailInvariant == GroundSpec => []TrailInv
<1>1. GroundInit => TrailInv
  BY TrailInvInit DEF GroundInit
<1>2. TrailInv /\ [GroundNext]_everything => TrailInv'
  <2> SUFFICES ASSUME TrailInv, [GroundNext]_everything
               PROVE  TrailInv'
    OBVIOUS
  <2>1. \/ Trodden!Step \/ Trodden!Route \/ Trodden!Leave \/ Trodden!Down \/ Trodden!TornSave
        \/ Trodden!Restart \/ UNCHANGED trailvars
    BY DEF GroundNext, everything, Trodden!Next
  <2> QED  BY <2>1, TrailStep, TrailRoute, TrailLeaves, TrailRestart, TrailStays
<1> QED  BY <1>1, <1>2, PTL DEF GroundSpec, everything

\* Every step of a way that is given over what he has walked was taken once, in
\* this sitting or one before it, unless a file was cut off; and between two
\* squares on record a way is given whenever steps on record lead there, from the
\* one to the other (trail.hpp "A way from here to there over squares he has
\* walked").
THEOREM StepsWereWalked == GroundSpec => []WaysWereWalked
<1>1. TrailInv => Trodden!StepsWereTaken
  <2>1. ~torn /\ route = <<>> => \A i \in 2..Len(route) : <<route[i - 1], route[i]>> \in stepped
    OBVIOUS
  <2> QED  BY <2>1 DEF TrailInv, WasWalked, Trodden!StepsWereTaken
<1>2. TrailInv => Trodden!WayIsGiven
  BY DEF TrailInv, Answered, Leads, Trodden!WayIsGiven
<1> QED  BY <1>1, <1>2, TrailInvariant, PTL DEF WaysWereWalked, Trodden!WaysWereWalked

\* Nothing is on record, in his head or in the file, that he did not walk, for as
\* long as no write of the file was cut off (trail.cpp:37-66, 191-231).
THEOREM RecordIsOfSteps == GroundSpec => [](~torn => NothingInvented /\ Recorded(file))
<1>1. TrailInv => (~torn => NothingInvented /\ Recorded(file))
  BY DEF TrailInv, Recorded, NothingInvented, Trodden!NothingInvented
<1> QED  BY <1>1, TrailInvariant, PTL

-----------------------------------------------------------------------------
(* Ways over the map's nodes.                                              *)

LEMMA CityIsTyped ==
  ASSUME city \in Cities
  PROVE  /\ IsFiniteSet(city.nodes) /\ city.at \in [city.nodes -> Int \X Int]
         /\ city.links \subseteq city.nodes \X city.nodes
         /\ \A a \in city.areas : a \subseteq city.nodes
BY CityAssumption DEF CityAssumption

LEMMA AwayIsMetric ==
  ASSUME NEW a \in Int \X Int, NEW b \in Int \X Int, NEW c \in Int \X Int
  PROVE  /\ OnTheMap!Away(a, b) \in Nat /\ OnTheMap!Away(a, a) = 0
         /\ OnTheMap!Away(a, c) <= OnTheMap!Away(a, b) + OnTheMap!Away(b, c)
<1> DEFINE G(m, n) == IF m < n THEN n - m ELSE m - n
<1>1. \A m, n, k \in Int : G(m, n) \in Nat /\ G(m, m) = 0 /\ G(m, k) <= G(m, n) + G(n, k)
  OBVIOUS
<1>2. PICK a1, a2, b1, b2, c1, c2 \in Int : a = <<a1, a2>> /\ b = <<b1, b2>> /\ c = <<c1, c2>>
  OBVIOUS
<1>3. /\ OnTheMap!Away(a, b) = G(a1, b1) + G(a2, b2) /\ OnTheMap!Away(a, a) = G(a1, a1) + G(a2, a2)
      /\ OnTheMap!Away(a, c) = G(a1, c1) + G(a2, c2) /\ OnTheMap!Away(b, c) = G(b1, c1) + G(b2, c2)
  BY <1>2 DEF OnTheMap!Away, OnTheMap!Gap
<1>4. /\ G(a1, b1) \in Nat /\ G(a2, b2) \in Nat /\ G(b1, c1) \in Nat /\ G(b2, c2) \in Nat
      /\ G(a1, c1) \in Nat /\ G(a2, c2) \in Nat
      /\ G(a1, a1) = 0 /\ G(a2, a2) = 0
      /\ G(a1, c1) <= G(a1, b1) + G(b1, c1) /\ G(a2, c2) <= G(a2, b2) + G(b2, c2)
  <2> HIDE DEF G
  <2> QED  BY <1>1
<1> HIDE DEF G
<1> QED  BY <1>3, <1>4

LEMMA BetweenIsMetric ==
  ASSUME city \in Cities, NEW m \in city.nodes, NEW n \in city.nodes, NEW k \in city.nodes
  PROVE  /\ OnTheMap!Between(m, n) \in Nat /\ OnTheMap!Between(m, m) = 0
         /\ OnTheMap!Between(m, k) <= OnTheMap!Between(m, n) + OnTheMap!Between(n, k)
<1>1. city.at[m] \in Int \X Int /\ city.at[n] \in Int \X Int /\ city.at[k] \in Int \X Int
  BY CityIsTyped
<1> QED  BY <1>1, AwayIsMetric DEF OnTheMap!Between

-----------------------------------------------------------------------------
(* The search.                                                             *)

Entry(n) == [f |-> cost[n] + OnTheMap!Between(n, goal), at |-> n]

\* The links searched are between the nodes searched, and the ends are of them.
GraphIsGiven ==
  /\ over.nodes \subseteq city.nodes /\ over.links \subseteq over.nodes \X over.nodes
  /\ start \in over.nodes /\ goal \in over.nodes

\* What was come to was come to over links, and for no less than they cost.
CameOverLinks ==
  /\ DOMAIN cost \subseteq over.nodes /\ cost \in [DOMAIN cost -> Nat]
  /\ DOMAIN cost = DOMAIN came \cup {start} /\ start \notin DOMAIN came /\ cost[start] = 0
  /\ \A n \in DOMAIN came : /\ came[n] \in DOMAIN cost /\ <<came[n], n>> \in over.links
                            /\ cost[came[n]] + OnTheMap!Between(came[n], n) <= cost[n]

\* A node waits as dear as it is and no cheaper, or its links have been tried;
\* the goal waits.
WaitsOrWasTried ==
  /\ \A e \in open : /\ e.at \in DOMAIN cost /\ e.f \in Nat
                     /\ cost[e.at] + OnTheMap!Between(e.at, goal) <= e.f
  /\ \A n \in DOMAIN cost : n = goal => Entry(n) \in open
  /\ \A n \in DOMAIN cost :
       \/ Entry(n) \in open
       \/ \A m : <<n, m>> \in over.links => m \in DOMAIN cost /\ cost[m] <= cost[n] + OnTheMap!Between(n, m)

\* Who a node was come to from is cheaper, or was there before it.
IsStamp(stamp, most) ==
  /\ most \in Nat /\ stamp \in [DOMAIN cost -> 0..most]
  /\ \A n \in DOMAIN came : \/ cost[came[n]] < cost[n]
                            \/ cost[came[n]] = cost[n] /\ stamp[came[n]] < stamp[n]

Unanswered == outcome = ""

Searching ==
  /\ Unanswered /\ GraphIsGiven /\ CameOverLinks /\ WaitsOrWasTried
  /\ \E stamp, k : IsStamp(stamp, k)

LEMMA BetweenNodes ==
  ASSUME city \in Cities, GraphIsGiven, NEW m \in over.nodes, NEW n \in over.nodes, NEW k \in over.nodes
  PROVE  /\ OnTheMap!Between(m, n) \in Nat /\ OnTheMap!Between(m, m) = 0
         /\ OnTheMap!Between(m, k) <= OnTheMap!Between(m, n) + OnTheMap!Between(n, k)
BY BetweenIsMetric DEF GraphIsGiven

LEMMA NothingIsNowhere == DOMAIN <<>> = {}
<1>1. PICK nothing \in Seq(Squares) : nothing = <<>> /\ Len(nothing) = 0
  <2>1. <<>> \in Seq(Squares) /\ Len(<<>>) = 0
    OBVIOUS
  <2> QED  BY <2>1
<1>2. DOMAIN nothing = 1..0 /\ 1..0 = {}
  BY <1>1, LenProperties
<1> QED  BY <1>1, <1>2

Begun ==
  /\ cost = [n \in {start} |-> 0] /\ came = <<>>
  /\ open = {[f |-> OnTheMap!Between(start, goal), at |-> start]}

LEMMA SearchBegins ==
  ASSUME city \in Cities, GraphIsGiven, Unanswered, Begun
  PROVE  Searching
<1>0. PICK s \in over.nodes : s = start
  BY DEF GraphIsGiven
<1>1. DOMAIN came = {}
  BY NothingIsNowhere DEF Begun
<1>2. PICK b \in Nat : b = OnTheMap!Between(s, goal)
  BY BetweenNodes DEF GraphIsGiven
<1>3. DOMAIN cost = {s} /\ cost[s] = 0 /\ cost \in [{s} -> Nat]
  BY <1>0 DEF Begun
<1>4. Entry(s) = [f |-> b, at |-> s]
  <2>1. PICK c : c = cost[s] /\ c = 0
    BY <1>3
  <2>2. c + b = b
    BY <1>2, <2>1
  <2> QED  BY <1>2, <2>1, <2>2, Zenon DEF Entry
<1>5. open = {Entry(s)} /\ Entry(s).f = b /\ Entry(s).at = s
  BY <1>0, <1>2, <1>4 DEF Begun
<1>6. CameOverLinks
  BY <1>0, <1>1, <1>3 DEF CameOverLinks
<1>7. WaitsOrWasTried
  <2>1. \A e \in open : e.at = s /\ e.f = b
    BY <1>5
  <2>2. \A n \in DOMAIN cost : n = s
    BY <1>3
  <2>3. cost[s] + OnTheMap!Between(s, goal) <= b
    BY <1>2, <1>3
  <2> QED  BY <1>3, <1>5, <2>1, <2>2, <2>3 DEF WaitsOrWasTried
<1>8. \E stamp, k : IsStamp(stamp, k)
  <2>1. PICK stamp : stamp = [n \in {s} |-> 0]
    OBVIOUS
  <2>2. stamp \in [DOMAIN cost -> 0..0]
    BY <1>3, <2>1
  <2>3. IsStamp(stamp, 0)
    BY <1>1, <2>2 DEF IsStamp
  <2> QED  BY <2>3
<1> QED  BY <1>6, <1>7, <1>8 DEF Searching

\* A look round a node that is not the goal.
LookedRound(top, p, better) ==
  /\ UNCHANGED <<city, over, start, goal, outcome>>
  /\ top.at # goal /\ p = top.at /\ better = OnTheMap!Relaxed(p) \ {p}
  /\ cost' = [n \in DOMAIN cost \cup better |->
                IF n \in better THEN cost[p] + OnTheMap!Between(p, n) ELSE cost[n]]
  /\ came' = [n \in DOMAIN came \cup better |-> IF n \in better THEN p ELSE came[n]]
  /\ open' = (open \ {top}) \cup
               {[f |-> cost[p] + OnTheMap!Between(p, n) + OnTheMap!Between(n, goal), at |-> n] : n \in better}

LEMMA SearchGoesOn ==
  ASSUME city \in Cities, Searching, NEW top \in open, NEW p, NEW better, LookedRound(top, p, better)
  PROVE  Searching'
<1> DEFINE Leg(m, n) == OnTheMap!Between(m, n)
           dear(n) == cost[p] + Leg(p, n)
<1>1. GraphIsGiven /\ CameOverLinks /\ WaitsOrWasTried
  BY DEF Searching
<1>2. p \in DOMAIN cost /\ p \in over.nodes /\ goal \in over.nodes /\ cost[p] \in Nat
  BY <1>1 DEF GraphIsGiven, CameOverLinks, WaitsOrWasTried, LookedRound
<1>3. /\ \A m, n : Leg(m, n)' = Leg(m, n)
      /\ UNCHANGED <<city, over, start, goal, outcome>> /\ top.at # goal /\ p = top.at
  BY DEF OnTheMap!Between, LookedRound
<1>4. /\ \A m, n \in over.nodes : Leg(m, n) \in Nat
      /\ \A m \in over.nodes : Leg(m, m) = 0
  BY <1>1, BetweenNodes
<1>5. better = {n \in {l[2] : l \in {k \in over.links : k[1] = p /\ (k[2] \in DOMAIN cost => cost[p] + Leg(p, k[2]) < cost[k[2]])}} : n # p}
  BY DEF OnTheMap!Relaxed, LookedRound
<1>6. \A n \in better : /\ n \in over.nodes /\ <<p, n>> \in over.links /\ n # p
                        /\ n \in DOMAIN cost => dear(n) < cost[n]
  BY <1>1, <1>5 DEF GraphIsGiven
<1>7. \A n : <<p, n>> \in over.links /\ n \notin better /\ n # p => n \in DOMAIN cost /\ cost[n] <= dear(n)
  BY <1>1, <1>2, <1>4, <1>5 DEF CameOverLinks, GraphIsGiven
<1> HIDE DEF Leg
<1>8. ASSUME NEW n \in better
      PROVE  dear(n) \in Nat /\ cost[p] <= dear(n)
  <2>1. PICK d \in Nat : d = Leg(p, n)
    BY <1>2, <1>4, <1>6
  <2>2. PICK c \in Nat : c = cost[p]
    BY <1>2
  <2>3. c + d \in Nat /\ c <= c + d
    OBVIOUS
  <2> QED  BY <2>1, <2>2, <2>3
<1>d. \A n \in better : dear(n) \in Nat /\ cost[p] <= dear(n)
  BY <1>8
<1>9. start \in DOMAIN cost /\ start \notin better
  <2>1. start \in DOMAIN cost /\ cost[start] = 0
    BY <1>1 DEF CameOverLinks
  <2>2. ASSUME start \in better PROVE FALSE
    <3>1. dear(start) \in Nat /\ dear(start) < 0
      BY <1>6, <1>8, <2>1, <2>2
    <3> HIDE DEF dear
    <3> QED  BY <3>1
  <2> QED  BY <2>1, <2>2
<1>10. DOMAIN cost' = DOMAIN cost \cup better /\ DOMAIN came' = DOMAIN came \cup better
  BY DEF LookedRound
<1>11. /\ \A n \in DOMAIN cost' : cost'[n] = IF n \in better THEN dear(n) ELSE cost[n]
       /\ \A n \in DOMAIN came' : came'[n] = IF n \in better THEN p ELSE came[n]
  BY DEF Leg, LookedRound
<1>o. open' = (open \ {top}) \cup {[f |-> dear(n) + Leg(n, goal), at |-> n] : n \in better}
  BY DEF Leg, LookedRound
<1>12. /\ p \notin better /\ cost'[p] = cost[p]
       /\ \A n \in DOMAIN cost : cost'[n] \in Nat /\ cost'[n] <= cost[n] /\ (n \in better => cost'[n] < cost[n])
  <2>1. p \notin better /\ cost'[p] = cost[p]
    BY <1>2, <1>6, <1>10, <1>11
  <2>2. ASSUME NEW n \in DOMAIN cost
        PROVE  cost'[n] \in Nat /\ cost'[n] <= cost[n] /\ (n \in better => cost'[n] < cost[n])
    <3>1. cost[n] \in Nat
      BY <1>1 DEF CameOverLinks
    <3>2. CASE n \in better
      <4>1. cost'[n] = dear(n) /\ dear(n) \in Nat /\ dear(n) < cost[n]
        BY <1>6, <1>8, <1>10, <1>11, <3>2
      <4> HIDE DEF dear
      <4> QED  BY <3>1, <4>1
    <3>3. CASE n \notin better
      BY <1>10, <1>11, <3>1, <3>3
    <3> QED  BY <3>2, <3>3
  <2> QED  BY <2>1, <2>2
<1>13. GraphIsGiven'
  BY <1>1, <1>3 DEF GraphIsGiven
<1>14. CameOverLinks'
  <2>1. DOMAIN cost' \subseteq over.nodes /\ cost' \in [DOMAIN cost' -> Nat]
    <3>1. DOMAIN cost' \subseteq over.nodes
      BY <1>1, <1>6, <1>10 DEF CameOverLinks
    <3>2. ASSUME NEW n \in DOMAIN cost' PROVE cost'[n] \in Nat
      <4>1. CASE n \in better
        BY <1>d, <1>11, <4>1
      <4>2. CASE n \notin better
        BY <1>10, <1>12, <4>2
      <4> QED  BY <4>1, <4>2
    <3>3. cost' = [n \in DOMAIN cost' |-> cost'[n]]
      BY DEF LookedRound
    <3> QED  BY <3>1, <3>2, <3>3
  <2>2. DOMAIN cost' = DOMAIN came' \cup {start} /\ start \notin DOMAIN came' /\ cost'[start] = 0
    BY <1>1, <1>9, <1>10, <1>11 DEF CameOverLinks
  <2>3. ASSUME NEW n \in DOMAIN came'
        PROVE  /\ came'[n] \in DOMAIN cost' /\ <<came'[n], n>> \in over.links
               /\ cost'[came'[n]] + Leg(came'[n], n) <= cost'[n]
    <3>1. CASE n \in better
      <4>1. came'[n] = p /\ cost'[n] = dear(n)
        BY <1>10, <1>11, <3>1
      <4>2. cost'[p] + Leg(p, n) <= dear(n)
        BY <1>8, <1>12, <3>1
      <4> QED  BY <1>2, <1>6, <1>10, <3>1, <4>1, <4>2
    <3>2. CASE n \notin better
      <4>1. n \in DOMAIN came /\ came'[n] = came[n] /\ cost'[n] = cost[n]
        BY <1>1, <1>10, <1>11, <3>2 DEF CameOverLinks
      <4>2. PICK q : q = came[n]
        OBVIOUS
      <4>3. /\ q \in DOMAIN cost /\ <<q, n>> \in over.links /\ cost[q] + Leg(q, n) <= cost[n]
        BY <1>1, <4>1, <4>2 DEF CameOverLinks, Leg
      <4>4. Leg(q, n) \in Nat /\ cost'[q] \in Nat /\ cost[q] \in Nat /\ cost[n] \in Nat /\ cost'[q] <= cost[q]
        BY <1>1, <1>4, <1>12, <4>1, <4>3 DEF CameOverLinks
      <4>5. cost'[q] + Leg(q, n) <= cost'[n]
        BY <4>1, <4>3, <4>4
      <4> QED  BY <1>10, <4>1, <4>2, <4>3, <4>5
    <3> QED  BY <3>1, <3>2
  <2> QED  BY <1>3, <2>1, <2>2, <2>3 DEF CameOverLinks, Leg
<1>15. \E stamp, k : IsStamp(stamp, k)'
  <2>1. PICK stamp, k : IsStamp(stamp, k)
    BY DEF Searching
  <2>2. PICK z : z = [n \in DOMAIN cost' |-> IF n \in better THEN k + 1 ELSE stamp[n]]
    OBVIOUS
  <2>3. k \in Nat /\ stamp \in [DOMAIN cost -> 0..k]
    BY <2>1 DEF IsStamp
  <2>4. z \in [DOMAIN cost' -> 0..(k + 1)] /\ k + 1 \in Nat
    BY <1>10, <2>2, <2>3
  <2>5. ASSUME NEW n \in DOMAIN came'
        PROVE  \/ cost'[came'[n]] < cost'[n]
               \/ cost'[came'[n]] = cost'[n] /\ z[came'[n]] < z[n]
    <3>1. CASE n \in better
      <4>1. came'[n] = p /\ cost'[n] = dear(n) /\ z[n] = k + 1 /\ z[p] = stamp[p]
        BY <1>2, <1>10, <1>11, <1>12, <2>2, <3>1
      <4>2. stamp[p] \in 0..k
        BY <1>2, <2>3
      <4>3. cost'[p] <= dear(n) /\ cost'[p] \in Nat /\ dear(n) \in Nat
        BY <1>2, <1>8, <1>12, <3>1
      <4> HIDE DEF dear
      <4> QED  BY <2>3, <4>1, <4>2, <4>3
    <3>2. CASE n \notin better
      <4>1. n \in DOMAIN came /\ n \in DOMAIN cost /\ came'[n] = came[n] /\ cost'[n] = cost[n]
        BY <1>1, <1>10, <1>11, <3>2 DEF CameOverLinks
      <4>2. PICK q : q = came[n] /\ q \in DOMAIN cost
        BY <1>1, <4>1 DEF CameOverLinks
      <4>3. /\ \/ cost[q] < cost[n]
               \/ cost[q] = cost[n] /\ stamp[q] < stamp[n]
            /\ cost[q] \in Nat /\ cost[n] \in Nat
        BY <1>1, <2>1, <4>1, <4>2 DEF IsStamp, CameOverLinks
      <4>4. z[n] = stamp[n]
        BY <1>10, <2>2, <3>2, <4>1
      <4>5. CASE q \in better
        BY <1>12, <4>1, <4>2, <4>3, <4>5
      <4>6. CASE q \notin better
        BY <1>10, <1>11, <2>2, <4>1, <4>2, <4>3, <4>4, <4>6
      <4> QED  BY <4>5, <4>6
    <3> QED  BY <3>1, <3>2
  <2> QED  BY <2>4, <2>5 DEF IsStamp
<1>16. WaitsOrWasTried'
  <2>1. ASSUME NEW e \in open'
        PROVE  e.at \in DOMAIN cost' /\ e.f \in Nat /\ cost'[e.at] + Leg(e.at, goal) <= e.f
    <3>1. CASE e \in open
      <4>1. e.at \in DOMAIN cost /\ e.f \in Nat /\ cost[e.at] + Leg(e.at, goal) <= e.f
        BY <1>1, <3>1 DEF WaitsOrWasTried, Leg
      <4>2. e.at \in over.nodes /\ cost[e.at] \in Nat
        BY <1>1, <4>1 DEF CameOverLinks
      <4> QED  BY <1>2, <1>4, <1>10, <1>12, <4>1, <4>2
    <3>2. CASE e \notin open
      <4>1. PICK n \in better : e = [f |-> dear(n) + Leg(n, goal), at |-> n]
        BY <1>o, <3>2
      <4>2. dear(n) \in Nat /\ Leg(n, goal) \in Nat /\ cost'[n] = dear(n) /\ n \in DOMAIN cost'
        BY <1>2, <1>4, <1>6, <1>8, <1>10, <1>11
      <4> HIDE DEF dear
      <4> QED  BY <4>1, <4>2
    <3> QED  BY <3>1, <3>2
  <2>2. ASSUME NEW n \in better
        PROVE  Entry(n)' \in open'
    <3>1. cost'[n] = dear(n)
      BY <1>10, <1>11
    <3>2. Entry(n)' = [f |-> dear(n) + Leg(n, goal), at |-> n]
      BY <1>3, <3>1 DEF Entry, Leg
    <3> QED  BY <1>o, <3>2
  <2>3. ASSUME NEW n \in DOMAIN cost, n \notin better, Entry(n) \in open, n # p
        PROVE  Entry(n)' \in open'
    <3>1. cost'[n] = cost[n]
      BY <1>10, <1>11, <2>3
    <3>2. Entry(n)' = Entry(n)
      BY <1>3, <3>1 DEF Entry, Leg
    <3>3. Entry(n) # top
      BY <1>3, <2>3 DEF Entry
    <3> QED  BY <1>o, <2>3, <3>2, <3>3
  <2>4. ASSUME NEW n \in DOMAIN cost', n = goal
        PROVE  Entry(n)' \in open'
    <3>1. n # p
      BY <1>3, <2>4
    <3>2. n \notin better => n \in DOMAIN cost /\ Entry(n) \in open
      BY <1>1, <1>10, <2>4 DEF WaitsOrWasTried
    <3> QED  BY <2>2, <2>3, <3>1, <3>2
  <2>5. ASSUME NEW n \in DOMAIN cost'
        PROVE  \/ Entry(n)' \in open'
               \/ \A m : <<n, m>> \in over.links => m \in DOMAIN cost' /\ cost'[m] <= cost'[n] + Leg(n, m)
    <3>1. CASE n \in better
      BY <2>2, <3>1
    <3>2. CASE n = p
      <4> SUFFICES ASSUME NEW m, <<p, m>> \in over.links
                   PROVE  m \in DOMAIN cost' /\ cost'[m] <= cost'[p] + Leg(p, m)
        BY <3>2
      <4>1. CASE m \in better
        BY <1>8, <1>10, <1>11, <1>12, <4>1
      <4>2. CASE m = p
        BY <1>2, <1>4, <1>10, <1>12, <4>2
      <4>3. CASE m \notin better /\ m # p
        BY <1>7, <1>10, <1>11, <1>12, <4>3
      <4> QED  BY <4>1, <4>2, <4>3
    <3>3. CASE n \notin better /\ n # p
      <4>1. n \in DOMAIN cost /\ cost'[n] = cost[n] /\ n \in over.nodes /\ cost[n] \in Nat
        BY <1>1, <1>10, <1>11, <3>3 DEF CameOverLinks
      <4>2. CASE Entry(n) \in open
        BY <2>3, <3>3, <4>1, <4>2
      <4>3. CASE Entry(n) \notin open
        <5> SUFFICES ASSUME NEW m, <<n, m>> \in over.links
                     PROVE  m \in DOMAIN cost' /\ cost'[m] <= cost'[n] + Leg(n, m)
          OBVIOUS
        <5>1. m \in DOMAIN cost /\ cost[m] <= cost[n] + Leg(n, m) /\ m \in over.nodes /\ cost[m] \in Nat
          BY <1>1, <4>1, <4>3 DEF WaitsOrWasTried, CameOverLinks, Leg
        <5>2. cost'[m] \in Nat /\ cost'[m] <= cost[m] /\ Leg(n, m) \in Nat
          BY <1>4, <1>12, <4>1, <5>1
        <5> QED  BY <1>10, <4>1, <5>1, <5>2
      <4> QED  BY <4>2, <4>3
    <3> QED  BY <3>1, <3>2, <3>3
  <2> QED  BY <1>3, <2>1, <2>4, <2>5 DEF WaitsOrWasTried, Leg
<1> QED  BY <1>3, <1>13, <1>14, <1>15, <1>16 DEF Searching, Unanswered

-----------------------------------------------------------------------------
(* Nodes, counted; and a search that is folded.                            *)

LEMMA NodesCounted ==
  ASSUME city \in Cities, GraphIsGiven
  PROVE  /\ IsFiniteSet(over.nodes) /\ Cardinality(over.nodes) \in Nat
         /\ OnTheMap!Cardinality(over.nodes) = Cardinality(over.nodes)
<1>1. IsFiniteSet(over.nodes)
  BY CityIsTyped, FS_Subset DEF GraphIsGiven
<1>2. OnTheMap!Cardinality(over.nodes) = Cardinality(over.nodes)
  BY Zenon DEF OnTheMap!Cardinality, Cardinality
<1> QED  BY <1>1, <1>2, FS_CardinalityType

-----------------------------------------------------------------------------
(* The way back.                                                           *)

\* Each node of it was come to from the one before it, and it ends at the goal.
Tracks ==
  {w \in Seq(DOMAIN cost) : /\ Len(w) >= 1 /\ w[Len(w)] = goal
                            /\ \A i \in 2..Len(w) : w[i] \in DOMAIN came /\ w[i - 1] = came[w[i]]}

Traced(w) == IF w[1] \in DOMAIN came THEN <<came[w[1]]>> \o w ELSE w

LEMMA TrackGoesOn ==
  ASSUME CameOverLinks, NEW w \in Tracks
  PROVE  /\ Traced(w) \in Tracks
         /\ Len(Traced(w)) = IF w[1] \in DOMAIN came THEN Len(w) + 1 ELSE Len(w)
<1>1. /\ w \in Seq(DOMAIN cost) /\ Len(w) \in Nat /\ Len(w) >= 1 /\ w[Len(w)] = goal
      /\ \A i \in 2..Len(w) : w[i] \in DOMAIN came /\ w[i - 1] = came[w[i]]
  BY LenProperties DEF Tracks
<1>2. CASE w[1] \notin DOMAIN came
  BY <1>2 DEF Traced
<1>3. CASE w[1] \in DOMAIN came
  <2>1. PICK a : a = came[w[1]] /\ a \in DOMAIN cost
    BY <1>3 DEF CameOverLinks
  <2>2. PICK u : u = <<a>> \o w
    OBVIOUS
  <2>3. <<a>> \in Seq(DOMAIN cost) /\ Len(<<a>>) = 1 /\ <<a>>[1] = a
    BY <2>1
  <2>4. /\ u \in Seq(DOMAIN cost) /\ Len(u) = 1 + Len(w)
        /\ \A i \in 1..(1 + Len(w)) : u[i] = IF i <= 1 THEN <<a>>[i] ELSE w[i - 1]
    BY <1>1, <2>2, <2>3, ConcatProperties
  <2>5. u[1] = a /\ u[2] = w[1]
    BY <1>1, <2>3, <2>4
  <2>6. u[Len(u)] = goal
    <3>1. Len(u) \in 1..(1 + Len(w)) /\ ~(Len(u) <= 1) /\ Len(u) - 1 = Len(w)
      BY <1>1, <2>4
    <3> QED  BY <1>1, <2>4, <3>1
  <2>7. ASSUME NEW i \in 2..Len(u)
        PROVE  u[i] \in DOMAIN came /\ u[i - 1] = came[u[i]]
    <3>1. CASE i = 2
      BY <1>3, <2>1, <2>5, <3>1
    <3>2. CASE i # 2
      <4>1. /\ i - 1 \in 2..Len(w) /\ i - 1 \in 1..(1 + Len(w)) /\ ~(i - 1 <= 1)
            /\ i \in 1..(1 + Len(w)) /\ ~(i <= 1)
        BY <1>1, <2>4, <3>2
      <4>2. u[i] = w[i - 1] /\ u[i - 1] = w[(i - 1) - 1]
        BY <2>4, <4>1
      <4> QED  BY <1>1, <4>1, <4>2
    <3> QED  BY <3>1, <3>2
  <2>8. u \in Tracks
    BY <1>1, <2>4, <2>6, <2>7 DEF Tracks
  <2>9. Traced(w) = u
    BY <1>3, <2>1, <2>2 DEF Traced
  <2> QED  BY <1>1, <1>3, <2>4, <2>8, <2>9
<1> QED  BY <1>2, <1>3

LEMMA BackRuns ==
  ASSUME CameOverLinks, goal \in DOMAIN cost, NEW n \in Nat, n = OnTheMap!Cardinality(over.nodes)
  PROVE  \E q : /\ q \in [0..n -> Tracks] /\ q[0] = <<goal>> /\ q[n] = OnTheMap!Back
                /\ \A i \in 0..(n - 1) : q[i + 1] = Traced(q[i])
<1> DEFINE V == Tracks
           One(w, i) == IF w[1] \in DOMAIN came THEN <<came[w[1]]>> \o w ELSE w
           F == [p \in V \X Nat |-> One(p[1], p[2])]
           Solves(g) == g = [S \in SUBSET DOMAIN [i \in 1..OnTheMap!Cardinality(over.nodes) |-> i] |->
                               IF S = {} THEN <<goal>>
                               ELSE One(g[S \ {OnTheMap!Max(S)}], OnTheMap!Max(S))]
<1>1. OnTheMap!Back = (CHOOSE g : Solves(g))[DOMAIN [i \in 1..OnTheMap!Cardinality(over.nodes) |-> i]]
  BY DEF OnTheMap!Back, OnTheMap!FoldLeft, OnTheMap!MapThenFoldSet
<1>2. DOMAIN [i \in 1..OnTheMap!Cardinality(over.nodes) |-> i] = 1..n
  OBVIOUS
<1>3. \A S : OnTheMap!Max(S) = Max(S)
  BY DEF OnTheMap!Max, Max
<1>4. ASSUME NEW v \in V, NEW i \in 1..n
      PROVE  F[<<v, i>>] = One(v, i)
  OBVIOUS
<1>5. ASSUME NEW v \in V, NEW i \in Nat
      PROVE  F[<<v, i>>] \in V
  <2>1. One(v, i) = Traced(v)
    BY DEF Traced
  <2>2. F[<<v, i>>] = One(v, i)
    OBVIOUS
  <2> HIDE DEF F, One
  <2> QED  BY <2>1, <2>2, TrackGoesOn
<1>6. <<goal>> \in V
  <2> <<goal>> \in Seq(DOMAIN cost) /\ Len(<<goal>>) = 1 /\ <<goal>>[1] = goal
    OBVIOUS
  <2> QED  BY DEF Tracks
<1>7. PICK h \in [SUBSET (1..n) -> V] :
        \A S \in SUBSET (1..n) : h[S] = IF S = {} THEN <<goal>> ELSE F[<<h[S \ {Max(S)}], Max(S)>>]
  <2> HIDE DEF F, V
  <2>1. PICK U, e, G : U = V /\ e = <<goal>> /\ G = F
    OBVIOUS
  <2>2. e \in U /\ \A v \in U : \A i \in Nat : G[<<v, i>>] \in U
    BY <1>5, <1>6, <2>1
  <2>3. \E h : FoldsUp(h, n, U, e, G)
    BY <2>2, FoldExists, Zenon
  <2> QED  BY <2>1, <2>3 DEF FoldsUp
<1>8. ASSUME NEW S \in SUBSET (1..n), S # {}
      PROVE  h[S] = One(h[S \ {Max(S)}], Max(S))
  <2>1. PICK x : x = Max(S) /\ x \in S
    BY <1>8, GreatestIsOne, Zenon
  <2> HIDE DEF V, F, One
  <2>2. x \in 1..n /\ S \ {x} \in SUBSET (1..n)
    <3>1. x \in 1..n
      BY <2>1
    <3>2. S \ {x} \in SUBSET (1..n)
      OBVIOUS
    <3> QED  BY <3>1, <3>2
  <2>3. h[S \ {x}] \in V /\ h[S] = F[<<h[S \ {x}], x>>]
    BY <1>7, <1>8, <2>1, <2>2
  <2> QED  BY <1>4, <2>1, <2>2, <2>3
<1>9. Solves(h)
  <2> HIDE DEF V, F, One
  <2> QED  BY <1>2, <1>3, <1>7, <1>8
<1>10. PICK g : Solves(g) /\ g[1..n] = (CHOOSE u : Solves(u))[DOMAIN [i \in 1..OnTheMap!Cardinality(over.nodes) |-> i]]
  <2> HIDE DEF Solves
  <2> QED  BY <1>2, <1>9
<1>11. g[{}] = <<goal>> /\ \A S \in SUBSET (1..n) : S # {} => g[S] = One(g[S \ {Max(S)}], Max(S))
  <2> HIDE DEF One
  <2> QED  BY <1>2, <1>3, <1>10
<1>12. RunsTo(n, V, <<goal>>, F, g[1..n])
  <2> HIDE DEF Solves, One, F, V
  <2>1. PICK U, e, G : U = V /\ e = <<goal>> /\ G = F
    OBVIOUS
  <2>2. e \in U /\ \A v \in U : \A i \in Nat : G[<<v, i>>] \in U
    BY <1>5, <1>6, <2>1
  <2>3. ASSUME NEW S \in SUBSET (1..n), S # {}, g[S \ {Max(S)}] \in U
        PROVE  g[S] = G[<<g[S \ {Max(S)}], Max(S)>>]
    <3>1. PICK x : x = Max(S) /\ x \in S
      BY <2>3, GreatestIsOne, Zenon
    <3>2. x \in 1..n
      BY <3>1
    <3>3. g[S] = One(g[S \ {x}], x) /\ g[S \ {x}] \in V
      BY <1>11, <2>1, <2>3, <3>1
    <3> QED  BY <1>4, <2>1, <3>1, <3>2, <3>3
  <2>4. g[{}] = e
    BY <1>11, <2>1
  <2>5. \A S \in SUBSET (1..n) : S # {} /\ g[S \ {Max(S)}] \in U =>
          g[S] = G[<<g[S \ {Max(S)}], Max(S)>>]
    BY <2>3
  <2>6. e \in U /\ n \in Nat
    BY <2>2
  <2>7. \A v \in U : \A i \in Nat : G[<<v, i>>] \in U
    BY <2>2
  <2>8. RunsTo(n, U, e, G, g[1..n])
    BY ONLY <2>4, <2>5, <2>6, <2>7, FoldRuns, Zenon
  <2> QED  BY <2>1, <2>8
<1>13. PICK q : Runs(q, n, V, <<goal>>, F) /\ q[n] = OnTheMap!Back
  <2> HIDE DEF Solves, F, V
  <2> QED  BY <1>1, <1>10, <1>12 DEF RunsTo
<1>14. \A i \in 0..(n - 1) : q[i + 1] = Traced(q[i])
  <2> SUFFICES ASSUME NEW i \in 0..(n - 1) PROVE q[i + 1] = Traced(q[i])
    OBVIOUS
  <2>1. i \in 0..n /\ i + 1 \in 1..n
    OBVIOUS
  <2>2. q[i] \in V /\ q[i + 1] = F[<<q[i], i + 1>>]
    <3> HIDE DEF F, V
    <3> QED  BY <1>13, <2>1 DEF Runs
  <2>3. One(q[i], i + 1) = Traced(q[i])
    BY DEF Traced
  <2> HIDE DEF F, V, One
  <2> QED  BY <1>4, <2>1, <2>2, <2>3
<1> HIDE DEF F
<1> QED  BY <1>13, <1>14 DEF Runs

LEMMA UpTo ==
  ASSUME NEW n \in Nat, NEW T, 0 \in T, \A k \in 0..(n - 1) : k \in T => k + 1 \in T
  PROVE  \A k \in 0..n : k \in T
<1> DEFINE U == {k \in Nat : k <= n => k \in T}
<1>1. 0 \in U
  OBVIOUS
<1>2. ASSUME NEW k \in U
      PROVE  k + 1 \in U
  <2>1. k \in Nat
    OBVIOUS
  <2>2. CASE k + 1 <= n
    <3>1. k \in 0..(n - 1) /\ k \in T
      BY <2>1, <2>2
    <3> QED  BY <2>1, <3>1
  <2>3. CASE ~(k + 1 <= n)
    BY <2>1, <2>3
  <2> QED  BY <2>2, <2>3
<1>3. U = Nat
  <2>1. U \subseteq Nat
    OBVIOUS
  <2> HIDE DEF U
  <2> QED  BY <1>1, <1>2, <2>1, AllNumbers
<1> QED  BY <1>3

\* No node is on a way back twice, so it is no longer than there are nodes.
LEMMA TrackIsShort ==
  ASSUME city \in Cities, Searching, NEW w \in Tracks
  PROVE  Len(w) <= OnTheMap!Cardinality(over.nodes)
<1>1. /\ GraphIsGiven /\ CameOverLinks
      /\ DOMAIN cost \subseteq over.nodes /\ cost \in [DOMAIN cost -> Nat]
  BY DEF Searching, CameOverLinks
<1>2. PICK stamp, most : IsStamp(stamp, most)
  BY DEF Searching
<1>3. most \in Nat /\ stamp \in [DOMAIN cost -> 0..most]
  BY <1>2 DEF IsStamp
<1>4. PICK N \in Nat : N = Len(w)
  BY LenProperties DEF Tracks
<1>5. /\ w \in [1..N -> DOMAIN cost]
      /\ \A i \in 2..N : w[i] \in DOMAIN came /\ w[i - 1] = came[w[i]]
  BY <1>4, LenProperties DEF Tracks
<1> DEFINE Below(a, b) == cost[a] < cost[b] \/ (cost[a] = cost[b] /\ stamp[a] < stamp[b])
           T == {k \in Nat : \A i \in 1..N : k >= 1 /\ i + k <= N => Below(w[i], w[i + k])}
<1>6. ASSUME NEW i \in 1..N, i + 1 <= N
      PROVE  Below(w[i], w[i + 1])
  <2>1. PICK j \in 2..N : j = i + 1 /\ j - 1 = i
    BY <1>6
  <2>2. w[j] \in DOMAIN came /\ w[i] = came[w[j]]
    BY <1>5, <2>1
  <2> QED  BY <1>2, <2>1, <2>2 DEF IsStamp
<1>7. ASSUME NEW a \in DOMAIN cost, NEW b \in DOMAIN cost, NEW c \in DOMAIN cost, Below(a, b), Below(b, c)
      PROVE  Below(a, c)
  <2>1. /\ cost[a] \in Nat /\ cost[b] \in Nat /\ cost[c] \in Nat
        /\ stamp[a] \in Nat /\ stamp[b] \in Nat /\ stamp[c] \in Nat
    BY <1>1, <1>3
  <2> QED  BY <1>7, <2>1
<1>8. ASSUME NEW k \in T
      PROVE  k + 1 \in T
  <2>1. k \in Nat
    OBVIOUS
  <2>2. ASSUME NEW i \in 1..N, i + (k + 1) <= N
        PROVE  Below(w[i], w[i + (k + 1)])
    <3>1. CASE k = 0
      <4>1. i + (k + 1) = i + 1
        BY <3>1
      <4> QED  BY <1>6, <2>2, <4>1
    <3>2. CASE k # 0
      <4>1. k >= 1 /\ i + k <= N /\ i + k \in 1..N /\ (i + k) + 1 = i + (k + 1) /\ i + (k + 1) \in 1..N
        BY <2>1, <2>2, <3>2
      <4>2. Below(w[i], w[i + k])
        BY <4>1
      <4>3. Below(w[i + k], w[(i + k) + 1])
        BY <1>6, <2>2, <4>1
      <4>4. w[i] \in DOMAIN cost /\ w[i + k] \in DOMAIN cost /\ w[i + (k + 1)] \in DOMAIN cost
        BY <1>5, <4>1
      <4> HIDE DEF Below
      <4> QED  BY <1>7, <4>1, <4>2, <4>3, <4>4
    <3> QED  BY <3>1, <3>2
  <2> HIDE DEF Below
  <2> QED  BY <2>1, <2>2
<1>9. T = Nat
  <2>1. T \subseteq Nat /\ 0 \in T
    OBVIOUS
  <2> HIDE DEF T
  <2> QED  BY <1>8, <2>1, AllNumbers
<1>10. ASSUME NEW i \in 1..N, NEW j \in 1..N, i < j
       PROVE  w[i] # w[j]
  <2>1. PICK k \in Nat : k >= 1 /\ i + k = j
    <3>1. j - i \in Nat /\ j - i >= 1 /\ i + (j - i) = j
      BY <1>10
    <3> QED  BY <3>1
  <2>2. Below(w[i], w[j])
    <3> HIDE DEF Below
    <3>1. k \in T
      BY <1>9
    <3> QED  BY <2>1, <3>1
  <2>3. ~Below(w[i], w[i])
    <3>1. w[i] \in DOMAIN cost
      BY <1>5
    <3>2. cost[w[i]] \in Nat /\ stamp[w[i]] \in Nat
      BY <1>1, <1>3, <3>1
    <3> QED  BY <3>2
  <2> HIDE DEF Below
  <2> QED  BY <2>2, <2>3
<1>11. ~(\E i, j \in 1..N : i # j /\ w[i] = w[j])
  BY <1>4, <1>10
<1>12. w \in [1..N -> over.nodes]
  BY <1>1, <1>5
<1>13. IsFiniteSet(1..N) /\ Cardinality(1..N) = N
  BY FS_Interval
<1>14. /\ IsFiniteSet(over.nodes) /\ Cardinality(over.nodes) \in Nat
       /\ OnTheMap!Cardinality(over.nodes) = Cardinality(over.nodes)
  BY <1>1, NodesCounted
<1>15. ~(Cardinality(over.nodes) < Cardinality(1..N))
  BY <1>11, <1>12, <1>13, <1>14, FS_PigeonHole
<1> QED  BY <1>4, <1>13, <1>14, <1>15

LEMMA BackIsAWay ==
  ASSUME city \in Cities, Searching, goal \in DOMAIN cost
  PROVE  OnTheMap!Back \in Tracks /\ OnTheMap!Back[1] = start
<1>1. CameOverLinks /\ GraphIsGiven
  BY DEF Searching
<1>2. PICK n \in Nat : n = OnTheMap!Cardinality(over.nodes)
  BY <1>1, NodesCounted
<1>3. PICK q : /\ q \in [0..n -> Tracks] /\ q[0] = <<goal>> /\ q[n] = OnTheMap!Back
               /\ \A i \in 0..(n - 1) : q[i + 1] = Traced(q[i])
  BY <1>1, <1>2, BackRuns
<1> DEFINE T == {k \in 0..n : Len(q[k]) = k + 1 \/ q[k][1] \notin DOMAIN came}
<1>4. 0 \in T
  <2>1. PICK u : u = <<goal>> /\ Len(u) = 1
    <3>1. Len(<<goal>>) = 1
      BY ONLY TRUE
    <3> QED  BY <3>1
  <2>2. 0 \in 0..n /\ 0 + 1 = 1
    BY ONLY n \in Nat
  <2>3. Len(q[0]) = 0 + 1
    BY ONLY <1>3, <2>1, <2>2
  <2> QED  BY <2>2, <2>3
<1>5. ASSUME NEW k \in 0..(n - 1), k \in T
      PROVE  k + 1 \in T
  <2>1. k \in 0..n /\ k + 1 \in 0..n /\ q[k + 1] = Traced(q[k]) /\ q[k] \in Tracks
    BY <1>3
  <2>2. CASE q[k][1] \notin DOMAIN came
    <3>1. q[k + 1] = q[k]
      BY <2>1, <2>2 DEF Traced
    <3> QED  BY <2>1, <2>2, <3>1
  <2>3. CASE q[k][1] \in DOMAIN came
    <3>1. Len(q[k + 1]) = Len(q[k]) + 1 /\ Len(q[k]) = k + 1
      BY <1>1, <1>5, <2>1, <2>3, TrackGoesOn
    <3> QED  BY <2>1, <3>1
  <2> QED  BY <2>2, <2>3
<1>6. n \in T
  <2> HIDE DEF T
  <2>1. \A k \in 0..n : k \in T
    BY <1>4, <1>5, UpTo
  <2> QED  BY <2>1
<1>7. PICK w : w = OnTheMap!Back
  OBVIOUS
<1>8. w \in Tracks /\ (Len(w) = n + 1 \/ w[1] \notin DOMAIN came)
  BY <1>3, <1>6, <1>7
<1>9. Len(w) <= n /\ Len(w) \in Nat /\ 1 \in 1..Len(w)
  BY <1>2, <1>8, TrackIsShort, LenProperties DEF Tracks
<1>10. w[1] \notin DOMAIN came
  BY <1>8, <1>9
<1>11. w[1] \in DOMAIN cost
  BY <1>8, <1>9, LenProperties DEF Tracks
<1>12. w[1] = start
  BY <1>1, <1>10, <1>11 DEF CameOverLinks
<1> QED  BY <1>7, <1>8, <1>12

\* How far it is along a way, node by node.
LEMMA DistanceRuns ==
  ASSUME city \in Cities, GraphIsGiven, NEW w \in Seq(over.nodes), NEW n \in Nat, n = Len(w) - 1
  PROVE  \E q : /\ q \in [0..n -> Nat] /\ q[0] = 0 /\ q[n] = OnTheMap!Distance(w)
                /\ \A i \in 0..(n - 1) : q[i + 1] = q[i] + OnTheMap!Between(w[i + 1], w[i + 2])
<1> DEFINE V == Nat
           onward == [i \in 1..Len(w) - 1 |-> i + 1]
           One(sum, i) == sum + OnTheMap!Between(w[onward[i] - 1], w[onward[i]])
           F == [p \in V \X Nat |-> IF p[2] \in 1..n THEN One(p[1], p[2]) ELSE p[1]]
           Solves(g) == g = [S \in SUBSET DOMAIN onward |->
                               IF S = {} THEN 0
                               ELSE One(g[S \ {OnTheMap!Max(S)}], OnTheMap!Max(S))]
<1>1. OnTheMap!Distance(w) = (CHOOSE g : Solves(g))[DOMAIN onward]
  BY DEF OnTheMap!Distance, OnTheMap!FoldLeft, OnTheMap!MapThenFoldSet
<1>s. \A i \in 1..n : onward[i] = i + 1 /\ onward[i] - 1 = i
  OBVIOUS
<1>o. ASSUME NEW v \in V, NEW i \in 1..n
      PROVE  One(v, i) = v + OnTheMap!Between(w[i], w[i + 1]) /\ One(v, i) \in Nat
  <2>1. w[i] \in over.nodes /\ w[i + 1] \in over.nodes
    BY LenProperties
  <2>2. OnTheMap!Between(w[i], w[i + 1]) \in Nat
    BY <2>1, BetweenNodes
  <2>3. One(v, i) = v + OnTheMap!Between(w[i], w[i + 1])
    <3> HIDE DEF onward
    <3> QED  BY <1>s
  <2> QED  BY <2>2, <2>3
<1>2. DOMAIN onward = 1..n
  OBVIOUS
<1>3. \A S : OnTheMap!Max(S) = Max(S)
  BY DEF OnTheMap!Max, Max
<1>4. ASSUME NEW v \in V, NEW i \in 1..n
      PROVE  F[<<v, i>>] = One(v, i)
  OBVIOUS
<1>5. ASSUME NEW v \in V, NEW i \in Nat
      PROVE  F[<<v, i>>] \in V
  <2>1. CASE i \in 1..n
    <3> HIDE DEF One
    <3> QED  BY <1>o, <2>1
  <2>2. CASE i \notin 1..n
    BY <2>2
  <2> QED  BY <2>1, <2>2
<1>6. 0 \in V
  OBVIOUS
<1>7. PICK h \in [SUBSET (1..n) -> V] :
        \A S \in SUBSET (1..n) : h[S] = IF S = {} THEN 0 ELSE F[<<h[S \ {Max(S)}], Max(S)>>]
  <2> HIDE DEF F, V
  <2>1. PICK U, e, G : U = V /\ e = 0 /\ G = F
    OBVIOUS
  <2>2. e \in U /\ \A v \in U : \A i \in Nat : G[<<v, i>>] \in U
    BY <1>5, <1>6, <2>1
  <2>3. \E h : FoldsUp(h, n, U, e, G)
    BY <2>2, FoldExists, Zenon
  <2> QED  BY <2>1, <2>3 DEF FoldsUp
<1>8. ASSUME NEW S \in SUBSET (1..n), S # {}
      PROVE  h[S] = One(h[S \ {Max(S)}], Max(S))
  <2>1. PICK x : x = Max(S) /\ x \in S
    BY <1>8, GreatestIsOne, Zenon
  <2> HIDE DEF V, F, One
  <2>2. x \in 1..n /\ S \ {x} \in SUBSET (1..n)
    <3>1. x \in 1..n
      BY <2>1
    <3>2. S \ {x} \in SUBSET (1..n)
      OBVIOUS
    <3> QED  BY <3>1, <3>2
  <2>3. h[S \ {x}] \in V /\ h[S] = F[<<h[S \ {x}], x>>]
    BY <1>7, <1>8, <2>1, <2>2
  <2> QED  BY <1>4, <2>1, <2>2, <2>3
<1>9. Solves(h)
  <2> HIDE DEF V, F, One
  <2> QED  BY <1>2, <1>3, <1>7, <1>8
<1>10. PICK g : Solves(g) /\ g[1..n] = (CHOOSE u : Solves(u))[DOMAIN onward]
  <2> HIDE DEF Solves
  <2> QED  BY <1>2, <1>9
<1>11. g[{}] = 0 /\ \A S \in SUBSET (1..n) : S # {} => g[S] = One(g[S \ {Max(S)}], Max(S))
  <2> HIDE DEF One
  <2> QED  BY <1>2, <1>3, <1>10
<1>12. RunsTo(n, V, 0, F, g[1..n])
  <2> HIDE DEF Solves, One, F, V
  <2>1. PICK U, e, G : U = V /\ e = 0 /\ G = F
    OBVIOUS
  <2>2. e \in U /\ \A v \in U : \A i \in Nat : G[<<v, i>>] \in U
    BY <1>5, <1>6, <2>1
  <2>3. ASSUME NEW S \in SUBSET (1..n), S # {}, g[S \ {Max(S)}] \in U
        PROVE  g[S] = G[<<g[S \ {Max(S)}], Max(S)>>]
    <3>1. PICK x : x = Max(S) /\ x \in S
      BY <2>3, GreatestIsOne, Zenon
    <3>2. x \in 1..n
      BY <3>1
    <3>3. g[S] = One(g[S \ {x}], x) /\ g[S \ {x}] \in V
      BY <1>11, <2>1, <2>3, <3>1
    <3> QED  BY <1>4, <2>1, <3>1, <3>2, <3>3
  <2>4. g[{}] = e
    BY <1>11, <2>1
  <2>5. \A S \in SUBSET (1..n) : S # {} /\ g[S \ {Max(S)}] \in U =>
          g[S] = G[<<g[S \ {Max(S)}], Max(S)>>]
    BY <2>3
  <2>6. e \in U /\ n \in Nat
    BY <2>2
  <2>7. \A v \in U : \A i \in Nat : G[<<v, i>>] \in U
    BY <2>2
  <2>8. RunsTo(n, U, e, G, g[1..n])
    BY ONLY <2>4, <2>5, <2>6, <2>7, FoldRuns, Zenon
  <2> QED  BY <2>1, <2>8
<1>13. PICK q : Runs(q, n, V, 0, F) /\ q[n] = OnTheMap!Distance(w)
  <2> HIDE DEF Solves, F, V
  <2> QED  BY <1>1, <1>2, <1>10, <1>12 DEF RunsTo
<1>14. \A i \in 0..(n - 1) : q[i + 1] = q[i] + OnTheMap!Between(w[i + 1], w[i + 2])
  <2> SUFFICES ASSUME NEW i \in 0..(n - 1) PROVE q[i + 1] = q[i] + OnTheMap!Between(w[i + 1], w[i + 2])
    OBVIOUS
  <2>1. i \in 0..n /\ i + 1 \in 1..n /\ (i + 1) + 1 = i + 2
    OBVIOUS
  <2>2. q[i] \in V /\ q[i + 1] = F[<<q[i], i + 1>>]
    <3> HIDE DEF F, V
    <3> QED  BY <1>13, <2>1 DEF Runs
  <2> HIDE DEF F, V, One
  <2> QED  BY <1>4, <1>o, <2>1, <2>2
<1> HIDE DEF F
<1> QED  BY <1>13, <1>14 DEF Runs

Distances == SUBSET (over.nodes \X Nat)

\* What a link further adds.
LinkOn(far) ==
  UNION {{<<l[2], p[2] + OnTheMap!Between(l[1], l[2])>> : l \in {k \in over.links : k[1] = p[1]}} : p \in far}

LEMMA FurtherOn ==
  ASSUME city \in Cities, GraphIsGiven, NEW far \in Distances
  PROVE  /\ OnTheMap!Further(far) \in Distances
         /\ OnTheMap!Further(far) = {p \in far \cup LinkOn(far) : \A o \in far \cup LinkOn(far) : o[1] = p[1] => p[2] <= o[2]}
         /\ \A o : o \in LinkOn(far) <=> \E p \in far, m \in over.nodes :
              <<p[1], m>> \in over.links /\ o = <<m, p[2] + OnTheMap!Between(p[1], m)>>
<1>1. OnTheMap!Further(far) = {p \in far \cup LinkOn(far) : \A o \in far \cup LinkOn(far) : o[1] = p[1] => p[2] <= o[2]}
  BY DEF OnTheMap!Further, LinkOn
<1>2. over.links \subseteq over.nodes \X over.nodes /\ far \subseteq over.nodes \X Nat
  BY DEF GraphIsGiven, Distances
<1>3. ASSUME NEW o
      PROVE  o \in LinkOn(far) <=> \E p \in far, m \in over.nodes :
               <<p[1], m>> \in over.links /\ o = <<m, p[2] + OnTheMap!Between(p[1], m)>>
  <2>1. ASSUME o \in LinkOn(far)
        PROVE  \E p \in far, m \in over.nodes :
                 <<p[1], m>> \in over.links /\ o = <<m, p[2] + OnTheMap!Between(p[1], m)>>
    <3>1. PICK p \in far, l \in over.links : l[1] = p[1] /\ o = <<l[2], p[2] + OnTheMap!Between(l[1], l[2])>>
      BY <2>1 DEF LinkOn
    <3>2. l = <<l[1], l[2]>> /\ l[2] \in over.nodes
      BY <1>2
    <3>3. <<p[1], l[2]>> \in over.links /\ o = <<l[2], p[2] + OnTheMap!Between(p[1], l[2])>>
      BY <3>1, <3>2
    <3> QED  BY <3>2, <3>3
  <2>2. ASSUME NEW p \in far, NEW m \in over.nodes, <<p[1], m>> \in over.links,
               o = <<m, p[2] + OnTheMap!Between(p[1], m)>>
        PROVE  o \in LinkOn(far)
    <3>1. PICK l \in over.links : l = <<p[1], m>> /\ l[1] = p[1] /\ l[2] = m
      BY <2>2
    <3>2. o = <<l[2], p[2] + OnTheMap!Between(l[1], l[2])>> /\ l \in {k \in over.links : k[1] = p[1]}
      BY <2>2, <3>1
    <3> QED  BY <3>2 DEF LinkOn
  <2> QED  BY <2>1, <2>2
<1>4. OnTheMap!Further(far) \in Distances
  <2>1. ASSUME NEW o \in LinkOn(far)
        PROVE  o \in over.nodes \X Nat
    <3>1. PICK p \in far, m \in over.nodes : o = <<m, p[2] + OnTheMap!Between(p[1], m)>>
      BY <1>3
    <3>2. p[1] \in over.nodes /\ p[2] \in Nat
      BY <1>2
    <3>3. OnTheMap!Between(p[1], m) \in Nat
      BY <3>2, BetweenNodes
    <3> QED  BY <3>1, <3>2, <3>3
  <2> QED  BY <1>1, <1>2, <2>1 DEF Distances
<1> QED  BY <1>1, <1>3, <1>4

LEMMA ShortestRuns ==
  ASSUME city \in Cities, GraphIsGiven, NEW n \in Nat, n = OnTheMap!Cardinality(over.nodes)
  PROVE  \E q : /\ q \in [0..n -> Distances] /\ q[0] = {<<start, 0>>} /\ q[n] = OnTheMap!Shortest
                /\ \A i \in 0..(n - 1) : q[i + 1] = OnTheMap!Further(q[i])
<1> DEFINE V == Distances
           One(far, i) == CHOOSE r \in {OnTheMap!Further(f) : f \in {far}} : TRUE
           F == [p \in V \X Nat |-> One(p[1], p[2])]
           Solves(g) == g = [S \in SUBSET DOMAIN [i \in 1..OnTheMap!Cardinality(over.nodes) |-> i] |->
                               IF S = {} THEN {<<start, 0>>}
                               ELSE One(g[S \ {OnTheMap!Max(S)}], OnTheMap!Max(S))]
<1>1. OnTheMap!Shortest = (CHOOSE g : Solves(g))[DOMAIN [i \in 1..OnTheMap!Cardinality(over.nodes) |-> i]]
  BY DEF OnTheMap!Shortest, OnTheMap!FoldLeft, OnTheMap!MapThenFoldSet
<1>o. ASSUME NEW far, NEW i PROVE One(far, i) = OnTheMap!Further(far)
  <2>1. {OnTheMap!Further(f) : f \in {far}} = {OnTheMap!Further(far)}
    OBVIOUS
  <2> QED  BY <2>1
<1>2. DOMAIN [i \in 1..OnTheMap!Cardinality(over.nodes) |-> i] = 1..n
  OBVIOUS
<1>3. \A S : OnTheMap!Max(S) = Max(S)
  BY DEF OnTheMap!Max, Max
<1>4. ASSUME NEW v \in V, NEW i \in 1..n
      PROVE  F[<<v, i>>] = One(v, i)
  OBVIOUS
<1>5. ASSUME NEW v \in V, NEW i \in Nat
      PROVE  F[<<v, i>>] \in V
  <2>1. F[<<v, i>>] = One(v, i)
    OBVIOUS
  <2> HIDE DEF F, One
  <2> QED  BY <1>o, <2>1, FurtherOn
<1>6. {<<start, 0>>} \in V
  BY DEF GraphIsGiven, Distances
<1>7. PICK h \in [SUBSET (1..n) -> V] :
        \A S \in SUBSET (1..n) : h[S] = IF S = {} THEN {<<start, 0>>} ELSE F[<<h[S \ {Max(S)}], Max(S)>>]
  <2> HIDE DEF F, V
  <2>1. PICK U, e, G : U = V /\ e = {<<start, 0>>} /\ G = F
    OBVIOUS
  <2>2. e \in U /\ \A v \in U : \A i \in Nat : G[<<v, i>>] \in U
    BY <1>5, <1>6, <2>1
  <2>3. \E h : FoldsUp(h, n, U, e, G)
    BY <2>2, FoldExists, Zenon
  <2> QED  BY <2>1, <2>3 DEF FoldsUp
<1>8. ASSUME NEW S \in SUBSET (1..n), S # {}
      PROVE  h[S] = One(h[S \ {Max(S)}], Max(S))
  <2>1. PICK x : x = Max(S) /\ x \in S
    BY <1>8, GreatestIsOne, Zenon
  <2> HIDE DEF V, F, One
  <2>2. x \in 1..n /\ S \ {x} \in SUBSET (1..n)
    <3>1. x \in 1..n
      BY <2>1
    <3>2. S \ {x} \in SUBSET (1..n)
      OBVIOUS
    <3> QED  BY <3>1, <3>2
  <2>3. h[S \ {x}] \in V /\ h[S] = F[<<h[S \ {x}], x>>]
    BY <1>7, <1>8, <2>1, <2>2
  <2> QED  BY <1>4, <2>1, <2>2, <2>3
<1>9. Solves(h)
  <2> HIDE DEF V, F, One
  <2> QED  BY <1>2, <1>3, <1>7, <1>8
<1>10. PICK g : Solves(g) /\ g[1..n] = (CHOOSE u : Solves(u))[DOMAIN [i \in 1..OnTheMap!Cardinality(over.nodes) |-> i]]
  <2> HIDE DEF Solves
  <2> QED  BY <1>2, <1>9
<1>11. g[{}] = {<<start, 0>>} /\ \A S \in SUBSET (1..n) : S # {} => g[S] = One(g[S \ {Max(S)}], Max(S))
  <2> HIDE DEF One
  <2> QED  BY <1>2, <1>3, <1>10
<1>12. RunsTo(n, V, {<<start, 0>>}, F, g[1..n])
  <2> HIDE DEF Solves, One, F, V
  <2>1. PICK U, e, G : U = V /\ e = {<<start, 0>>} /\ G = F
    OBVIOUS
  <2>2. e \in U /\ \A v \in U : \A i \in Nat : G[<<v, i>>] \in U
    BY <1>5, <1>6, <2>1
  <2>3. ASSUME NEW S \in SUBSET (1..n), S # {}, g[S \ {Max(S)}] \in U
        PROVE  g[S] = G[<<g[S \ {Max(S)}], Max(S)>>]
    <3>1. PICK x : x = Max(S) /\ x \in S
      BY <2>3, GreatestIsOne, Zenon
    <3>2. x \in 1..n
      BY <3>1
    <3>3. g[S] = One(g[S \ {x}], x) /\ g[S \ {x}] \in V
      BY <1>11, <2>1, <2>3, <3>1
    <3> QED  BY <1>4, <2>1, <3>1, <3>2, <3>3
  <2>4. g[{}] = e
    BY <1>11, <2>1
  <2>5. \A S \in SUBSET (1..n) : S # {} /\ g[S \ {Max(S)}] \in U =>
          g[S] = G[<<g[S \ {Max(S)}], Max(S)>>]
    BY <2>3
  <2>6. e \in U /\ n \in Nat
    BY <2>2
  <2>7. \A v \in U : \A i \in Nat : G[<<v, i>>] \in U
    BY <2>2
  <2>8. RunsTo(n, U, e, G, g[1..n])
    BY ONLY <2>4, <2>5, <2>6, <2>7, FoldRuns, Zenon
  <2> QED  BY <2>1, <2>8
<1>13. PICK q : Runs(q, n, V, {<<start, 0>>}, F) /\ q[n] = OnTheMap!Shortest
  <2> HIDE DEF Solves, F, V
  <2> QED  BY <1>1, <1>10, <1>12 DEF RunsTo
<1>14. \A i \in 0..(n - 1) : q[i + 1] = OnTheMap!Further(q[i])
  <2> SUFFICES ASSUME NEW i \in 0..(n - 1) PROVE q[i + 1] = OnTheMap!Further(q[i])
    OBVIOUS
  <2>1. i \in 0..n /\ i + 1 \in 1..n
    OBVIOUS
  <2>2. q[i] \in V /\ q[i + 1] = F[<<q[i], i + 1>>]
    <3> HIDE DEF F, V
    <3> QED  BY <1>13, <2>1 DEF Runs
  <2> HIDE DEF F, V, One
  <2> QED  BY <1>4, <1>o, <2>1, <2>2
<1> HIDE DEF F
<1> QED  BY <1>13, <1>14 DEF Runs

LEMMA ALinkFurther ==
  ASSUME city \in Cities, GraphIsGiven, NEW far \in Distances, NEW o \in LinkOn(far)
  PROVE  \E p \in far, m \in over.nodes :
           <<p[1], m>> \in over.links /\ o = <<m, p[2] + OnTheMap!Between(p[1], m)>>
<1>1. \A x : x \in LinkOn(far) <=> \E p \in far, m \in over.nodes :
        <<p[1], m>> \in over.links /\ x = <<m, p[2] + OnTheMap!Between(p[1], m)>>
  BY FurtherOn
<1> QED  BY <1>1

\* What is known of a node is kept, unless less is.
LEMMA LeastStays ==
  ASSUME city \in Cities, GraphIsGiven, NEW far \in Distances, NEW o \in far \cup LinkOn(far)
  PROVE  \E d \in Nat : <<o[1], d>> \in OnTheMap!Further(far) /\ d <= o[2]
<1>1. PICK U : U = far \cup LinkOn(far)
  OBVIOUS
<1>2. U \subseteq over.nodes \X Nat
  <2>1. ASSUME NEW p \in LinkOn(far)
        PROVE  p \in over.nodes \X Nat
    <3>1. PICK e \in far, m \in over.nodes : p = <<m, e[2] + OnTheMap!Between(e[1], m)>>
      BY ALinkFurther
    <3>2. e[1] \in over.nodes /\ e[2] \in Nat
      BY DEF Distances
    <3>3. OnTheMap!Between(e[1], m) \in Nat
      BY <3>2, BetweenNodes
    <3> QED  BY <3>1, <3>2, <3>3
  <2> QED  BY <1>1, <2>1 DEF Distances
<1>3. PICK m \in over.nodes, c \in Nat : o = <<m, c>> /\ <<m, c>> \in U
  BY <1>1, <1>2
<1>4. PICK D : D = {x \in Nat \X {m} : <<m, x[1]>> \in U}
  OBVIOUS
<1>5. D \in SUBSET (Nat \X {m}) /\ <<c, m>> \in D
  BY <1>3, <1>4
<1>6. PICK z \in D : \A x \in D : z[1] <= x[1]
  BY <1>5, LeastNumbered
<1>7. PICK d \in Nat : d = z[1] /\ <<m, d>> \in U
  BY <1>4
<1>8. d <= c
  BY <1>5, <1>6, <1>7
<1>9. ASSUME NEW p \in U, p[1] = m
      PROVE  d <= p[2]
  <2>1. PICK x \in Nat : p = <<m, x>>
    BY <1>2, <1>9
  <2>2. <<x, m>> \in D /\ <<x, m>>[1] = x
    BY <1>4, <2>1
  <2> QED  BY <1>6, <1>7, <2>1, <2>2
<1>10. <<m, d>> \in OnTheMap!Further(far)
  BY <1>1, <1>7, <1>9, FurtherOn
<1> QED  BY <1>3, <1>8, <1>10

\* No node is nearer than the cheapest that waits would have it.
Least(top, m, d) == (m \in DOMAIN cost /\ cost[m] <= d) \/ top.f <= d + OnTheMap!Between(m, goal)

LEMMA LeastOverLinks ==
  ASSUME city \in Cities, Searching, NEW top \in OnTheMap!Tops,
         NEW n \in over.nodes, NEW m \in over.nodes, <<n, m>> \in over.links, NEW d \in Nat, Least(top, n, d)
  PROVE  Least(top, m, d + OnTheMap!Between(n, m))
<1>1. GraphIsGiven /\ CameOverLinks /\ WaitsOrWasTried
  BY DEF Searching
<1>2. goal \in over.nodes
  BY <1>1 DEF GraphIsGiven
<1>3. PICK h, k, b \in Nat : /\ h = OnTheMap!Between(n, goal) /\ k = OnTheMap!Between(m, goal)
                             /\ b = OnTheMap!Between(n, m) /\ h <= b + k
  BY <1>1, <1>2, BetweenNodes
<1>4. top \in open /\ top.f \in Nat /\ \A e \in open : top.f <= e.f
  BY <1>1 DEF OnTheMap!Tops, WaitsOrWasTried
<1>5. CASE top.f <= d + h
  <2>1. top.f <= (d + b) + k
    BY <1>3, <1>4, <1>5
  <2> QED  BY <1>3, <2>1 DEF Least
<1>6. CASE ~(top.f <= d + h)
  <2>1. n \in DOMAIN cost /\ cost[n] <= d /\ cost[n] \in Nat
    BY <1>1, <1>3, <1>6 DEF Least, CameOverLinks
  <2>2. PICK c \in Nat : c = cost[n]
    BY <2>1
  <2>3. Entry(n).f = c + h
    BY <1>3, <2>2 DEF Entry
  <2>4. Entry(n) \notin open
    BY <1>3, <1>4, <1>6, <2>1, <2>2, <2>3
  <2>5. m \in DOMAIN cost /\ cost[m] <= c + b
    BY <1>1, <1>3, <2>1, <2>2, <2>4 DEF WaitsOrWasTried
  <2>6. cost[m] \in Nat
    BY <1>1, <2>5 DEF CameOverLinks
  <2>7. cost[m] <= d + b
    BY <2>1, <2>2, <2>5, <2>6
  <2> QED  BY <1>3, <2>5, <2>7 DEF Least
<1> QED  BY <1>5, <1>6

LEMMA NothingIsShorter ==
  ASSUME city \in Cities, Searching, NEW top \in OnTheMap!Tops, NEW o \in OnTheMap!Shortest
  PROVE  o[1] \in over.nodes /\ o[2] \in Nat /\ Least(top, o[1], o[2])
<1>1. GraphIsGiven /\ CameOverLinks
  BY DEF Searching
<1>2. PICK n \in Nat : n = OnTheMap!Cardinality(over.nodes)
  BY <1>1, NodesCounted
<1>3. PICK q : /\ q \in [0..n -> Distances] /\ q[0] = {<<start, 0>>} /\ q[n] = OnTheMap!Shortest
               /\ \A i \in 0..(n - 1) : q[i + 1] = OnTheMap!Further(q[i])
  BY <1>1, <1>2, ShortestRuns
<1> DEFINE T == {k \in 0..n : \A p \in q[k] : Least(top, p[1], p[2])}
<1>4. 0 \in T
  <2>1. start \in DOMAIN cost /\ cost[start] <= 0
    BY <1>1 DEF CameOverLinks
  <2>2. <<start, 0>>[1] = start /\ <<start, 0>>[2] = 0
    OBVIOUS
  <2>3. Least(top, start, 0)
    BY <2>1 DEF Least
  <2>4. ASSUME NEW p \in q[0]
        PROVE  Least(top, p[1], p[2])
    <3>1. p = <<start, 0>>
      BY <1>3
    <3> QED  BY <2>2, <2>3, <3>1
  <2>5. 0 \in 0..n
    OBVIOUS
  <2> QED  BY <2>4, <2>5
<1>5. ASSUME NEW k \in 0..(n - 1), k \in T
      PROVE  k + 1 \in T
  <2>1. k \in 0..n /\ k + 1 \in 0..n
    OBVIOUS
  <2>2. PICK far \in Distances : far = q[k] /\ q[k + 1] = OnTheMap!Further(far)
    BY <1>3, <2>1
  <2>3. ASSUME NEW p \in q[k + 1]
        PROVE  Least(top, p[1], p[2])
    <3>1. p \in far \/ p \in LinkOn(far)
      BY <1>1, <2>2, <2>3, FurtherOn
    <3>2. CASE p \in far
      BY <1>5, <2>2, <3>2
    <3>3. CASE p \in LinkOn(far)
      <4>1. PICK e \in far, m \in over.nodes :
              <<e[1], m>> \in over.links /\ p = <<m, e[2] + OnTheMap!Between(e[1], m)>>
        BY <1>1, <3>3, ALinkFurther
      <4>2. e[1] \in over.nodes /\ e[2] \in Nat /\ Least(top, e[1], e[2])
        BY <1>5, <2>2 DEF Distances
      <4>3. Least(top, m, e[2] + OnTheMap!Between(e[1], m))
        BY <4>1, <4>2, LeastOverLinks
      <4>4. p[1] = m /\ p[2] = e[2] + OnTheMap!Between(e[1], m)
        BY <4>1
      <4> QED  BY <4>3, <4>4
    <3> QED  BY <3>1, <3>2, <3>3
  <2> QED  BY <2>1, <2>3
<1>6. n \in T
  <2> HIDE DEF T
  <2>1. \A k \in 0..n : k \in T
    BY <1>4, <1>5, UpTo
  <2> QED  BY <2>1
<1>7. o \in q[n] /\ q[n] \in Distances
  BY <1>3
<1> QED  BY <1>6, <1>7 DEF Distances

LEMMA WayIsMeasured ==
  ASSUME city \in Cities, Searching, NEW w \in Tracks, w[1] = start
  PROVE  /\ OnTheMap!Distance(w) \in Nat /\ OnTheMap!Distance(w) <= cost[goal]
         /\ \E d \in Nat : <<goal, d>> \in OnTheMap!Shortest /\ d <= OnTheMap!Distance(w)
<1>1. GraphIsGiven /\ CameOverLinks
  BY DEF Searching
<1>2. PICK n \in Nat : n = OnTheMap!Cardinality(over.nodes)
  BY <1>1, NodesCounted
<1>3. PICK q : /\ q \in [0..n -> Distances] /\ q[0] = {<<start, 0>>} /\ q[n] = OnTheMap!Shortest
               /\ \A i \in 0..(n - 1) : q[i + 1] = OnTheMap!Further(q[i])
  BY <1>1, <1>2, ShortestRuns
<1>4. /\ w \in Seq(DOMAIN cost) /\ Len(w) \in Nat /\ Len(w) >= 1 /\ w[Len(w)] = goal
      /\ \A i \in 2..Len(w) : w[i] \in DOMAIN came /\ w[i - 1] = came[w[i]]
      /\ \A i \in 1..Len(w) : w[i] \in DOMAIN cost
  BY LenProperties DEF Tracks
<1>5. w \in Seq(over.nodes)
  <2>1. DOMAIN cost \subseteq over.nodes
    BY <1>1 DEF CameOverLinks
  <2> QED  BY <1>4, <2>1, SeqMonotonic
<1>6. PICK N \in Nat : N = Len(w) - 1 /\ N <= n
  <2>1. Len(w) <= n
    BY <1>2, TrackIsShort
  <2>2. Len(w) - 1 \in Nat /\ Len(w) - 1 <= n
    BY <1>4, <2>1
  <2> QED  BY <2>2
<1>7. PICK r : /\ r \in [0..N -> Nat] /\ r[0] = 0 /\ r[N] = OnTheMap!Distance(w)
               /\ \A i \in 0..(N - 1) : r[i + 1] = r[i] + OnTheMap!Between(w[i + 1], w[i + 2])
  BY <1>1, <1>5, <1>6, DistanceRuns
<1>8. ASSUME NEW i \in 0..(N - 1)
      PROVE  \E u, v \in DOMAIN cost, b \in Nat :
               /\ u = w[i + 1] /\ v = w[i + 2] /\ b = OnTheMap!Between(u, v)
               /\ <<u, v>> \in over.links /\ cost[u] + b <= cost[v] /\ r[i + 1] = r[i] + b
               /\ u \in over.nodes /\ v \in over.nodes
  <2>1. i + 1 \in 1..Len(w) /\ i + 2 \in 2..Len(w) /\ i + 2 \in 1..Len(w) /\ (i + 2) - 1 = i + 1
    BY <1>4, <1>6
  <2>2. PICK u, v : u = w[i + 1] /\ v = w[i + 2]
    OBVIOUS
  <2>3. u \in DOMAIN cost /\ v \in DOMAIN cost /\ v \in DOMAIN came /\ u = came[v]
    BY <1>4, <2>1, <2>2
  <2>4. <<u, v>> \in over.links /\ cost[u] + OnTheMap!Between(u, v) <= cost[v] /\ u \in over.nodes /\ v \in over.nodes
    BY <1>1, <2>3 DEF CameOverLinks
  <2>5. OnTheMap!Between(u, v) \in Nat
    BY <1>1, <2>4, BetweenNodes
  <2>6. r[i + 1] = r[i] + OnTheMap!Between(u, v)
    BY <1>7, <2>2
  <2> QED  BY <2>2, <2>3, <2>4, <2>5, <2>6
<1> DEFINE T == {k \in 0..N : r[k] <= cost[w[k + 1]] /\ \E d \in Nat : <<w[k + 1], d>> \in q[k] /\ d <= r[k]}
<1>9. 0 \in T
  <2>1. cost[start] = 0
    BY <1>1 DEF CameOverLinks
  <2>2. <<start, 0>> \in q[0] /\ r[0] = 0 /\ w[0 + 1] = start /\ 0 \in 0..N /\ 0 \in Nat /\ 0 <= 0
    BY <1>3, <1>7
  <2> QED  BY <2>1, <2>2
<1>10. ASSUME NEW k \in 0..(N - 1), k \in T
       PROVE  k + 1 \in T
  <2>1. k \in 0..N /\ k + 1 \in 0..N /\ k \in 0..n /\ k \in 0..(n - 1) /\ (k + 1) + 1 = k + 2
    BY <1>6
  <2>2. PICK u, v \in DOMAIN cost, b \in Nat :
               /\ u = w[k + 1] /\ v = w[k + 2] /\ b = OnTheMap!Between(u, v)
               /\ <<u, v>> \in over.links /\ cost[u] + b <= cost[v] /\ r[k + 1] = r[k] + b
               /\ u \in over.nodes /\ v \in over.nodes
    BY <1>8
  <2>3. PICK d \in Nat : <<u, d>> \in q[k] /\ d <= r[k]
    BY <1>10, <2>2
  <2>4. r[k] \in Nat /\ r[k] <= cost[u] /\ cost[u] \in Nat /\ cost[v] \in Nat
    BY <1>1, <1>7, <1>10, <2>1, <2>2 DEF CameOverLinks
  <2>5. r[k + 1] <= cost[v]
    BY <2>2, <2>4
  <2>6. PICK far \in Distances : far = q[k] /\ q[k + 1] = OnTheMap!Further(far)
    BY <1>3, <2>1
  <2>7. <<v, d + b>> \in LinkOn(far)
    <3>1. PICK e : e = <<u, d>> /\ e \in far /\ e[1] = u /\ e[2] = d
      BY <2>3, <2>6
    <3>2. <<e[1], v>> \in over.links /\ <<v, d + b>> = <<v, e[2] + OnTheMap!Between(e[1], v)>>
      BY <2>2, <3>1
    <3> QED  BY <1>1, <2>2, <3>1, <3>2, FurtherOn
  <2>8. PICK x \in Nat : <<v, x>> \in q[k + 1] /\ x <= d + b
    <3>1. PICK o : o = <<v, d + b>> /\ o[1] = v /\ o[2] = d + b /\ o \in far \cup LinkOn(far)
      BY <2>7
    <3> QED  BY <1>1, <2>6, <3>1, LeastStays
  <2>9. x <= r[k + 1]
    BY <2>2, <2>3, <2>4, <2>8
  <2> QED  BY <2>1, <2>2, <2>5, <2>8, <2>9
<1>11. N \in T
  <2> HIDE DEF T
  <2>1. \A k \in 0..N : k \in T
    BY <1>9, <1>10, UpTo
  <2> QED  BY <2>1
<1>12. w[N + 1] = goal /\ r[N] \in Nat
  BY <1>4, <1>6, <1>7
<1>13. OnTheMap!Distance(w) \in Nat /\ OnTheMap!Distance(w) <= cost[goal]
  BY <1>7, <1>11, <1>12
<1> DEFINE K == {k \in 0..n : N <= k => \E d \in Nat : <<goal, d>> \in q[k] /\ d <= r[N]}
<1>14. 0 \in K
  <2>1. CASE N = 0
    BY <1>11, <1>12, <2>1
  <2>2. CASE N # 0
    BY <2>2
  <2> QED  BY <2>1, <2>2
<1>15. ASSUME NEW k \in 0..(n - 1), k \in K
       PROVE  k + 1 \in K
  <2>1. k \in 0..n /\ k + 1 \in 0..n
    OBVIOUS
  <2>2. CASE ~(N <= k + 1)
    BY <2>1, <2>2
  <2>3. CASE N = k + 1
    BY <1>11, <1>12, <2>1, <2>3
  <2>4. CASE N <= k
    <3>1. PICK d \in Nat : <<goal, d>> \in q[k] /\ d <= r[N]
      BY <1>15, <2>4
    <3>2. PICK far \in Distances : far = q[k] /\ q[k + 1] = OnTheMap!Further(far)
      BY <1>3, <2>1
    <3>3. PICK x \in Nat : <<goal, x>> \in q[k + 1] /\ x <= d
      <4>1. PICK o : o = <<goal, d>> /\ o[1] = goal /\ o[2] = d /\ o \in far \cup LinkOn(far)
        BY <3>1, <3>2
      <4> QED  BY <1>1, <3>2, <4>1, LeastStays
    <3>4. x <= r[N]
      BY <1>12, <3>1, <3>3
    <3> QED  BY <2>1, <3>3, <3>4
  <2> QED  BY <2>2, <2>3, <2>4
<1>16. n \in K
  <2> HIDE DEF K
  <2>1. \A k \in 0..n : k \in K
    BY <1>14, <1>15, UpTo
  <2> QED  BY <2>1
<1>17. \E d \in Nat : <<goal, d>> \in OnTheMap!Shortest /\ d <= OnTheMap!Distance(w)
  BY <1>3, <1>6, <1>7, <1>16
<1> QED  BY <1>13, <1>17

LEMMA FoundIsShortest ==
  ASSUME city \in Cities, Searching, NEW top \in OnTheMap!Tops, top.at = goal, NEW w, w = OnTheMap!Back
  PROVE  /\ w[1] = start /\ w \in Tracks /\ w[Len(w)] = goal
         /\ \A i \in 2..Len(w) : <<w[i - 1], w[i]>> \in over.links
         /\ <<goal, OnTheMap!Distance(w)>> \in OnTheMap!Shortest
<1>1. GraphIsGiven /\ CameOverLinks /\ WaitsOrWasTried
  BY DEF Searching
<1>2. goal \in DOMAIN cost /\ goal \in over.nodes /\ top \in open /\ cost[goal] \in Nat
      /\ top.f \in Nat /\ \A e \in open : top.f <= e.f
  BY <1>1 DEF OnTheMap!Tops, WaitsOrWasTried, CameOverLinks, GraphIsGiven
<1>3. OnTheMap!Between(goal, goal) = 0
  BY <1>1, <1>2, BetweenNodes
<1>4. top.f = cost[goal]
  <2>1. PICK c \in Nat : c = cost[goal]
    BY <1>2
  <2>2. Entry(goal).f = c + 0 /\ Entry(goal) \in open
    BY <1>1, <1>2, <1>3, <2>1 DEF Entry, WaitsOrWasTried
  <2>3. c + 0 <= top.f
    BY <1>1, <1>2, <1>3, <2>1 DEF WaitsOrWasTried
  <2> QED  BY <1>2, <2>1, <2>2, <2>3
<1>5. w \in Tracks /\ w[1] = start
  BY <1>2, BackIsAWay
<1>6. /\ OnTheMap!Distance(w) \in Nat /\ OnTheMap!Distance(w) <= cost[goal]
      /\ \E d \in Nat : <<goal, d>> \in OnTheMap!Shortest /\ d <= OnTheMap!Distance(w)
  BY <1>5, WayIsMeasured
<1>7. PICK d \in Nat : <<goal, d>> \in OnTheMap!Shortest /\ d <= OnTheMap!Distance(w)
  BY <1>6
<1>8. Least(top, goal, d)
  <2>1. PICK o \in OnTheMap!Shortest : o = <<goal, d>> /\ o[1] = goal /\ o[2] = d
    BY <1>7
  <2> QED  BY <2>1, NothingIsShorter
<1>9. cost[goal] <= d
  <2>1. d + OnTheMap!Between(goal, goal) = d
    BY <1>3
  <2> QED  BY <1>2, <1>4, <1>8, <2>1 DEF Least
<1>10. d = OnTheMap!Distance(w)
  BY <1>2, <1>6, <1>7, <1>9
<1>11. \A i \in 2..Len(w) : <<w[i - 1], w[i]>> \in over.links
  BY <1>1, <1>5 DEF Tracks, CameOverLinks
<1> QED  BY <1>5, <1>7, <1>10, <1>11 DEF Tracks

LEMMA CityCounted ==
  ASSUME city \in Cities
  PROVE  OnTheMap!Cardinality(city.nodes) \in Nat
<1>1. OnTheMap!Cardinality(city.nodes) = Cardinality(city.nodes)
  BY Zenon DEF OnTheMap!Cardinality, Cardinality
<1> QED  BY <1>1, CityIsTyped, FS_CardinalityType

\* Links lead nowhere from where none leads out.
LEMMA ReachedStays ==
  ASSUME city \in Cities, NEW links, NEW s, NEW X, s \in X, \A l \in links : l[1] \in X => l[2] \in X
  PROVE  OnTheMap!Reached(links, s) \subseteq X
<1> DEFINE V == SUBSET X
           One(r, i) == r \cup {l[2] : l \in {k \in links : k[1] \in r}}
           F == [p \in V \X Nat |-> One(p[1], p[2])]
           Solves(g) == g = [S \in SUBSET DOMAIN [i \in 1..OnTheMap!Cardinality(city.nodes) |-> i] |->
                               IF S = {} THEN {s}
                               ELSE One(g[S \ {OnTheMap!Max(S)}], OnTheMap!Max(S))]
<1>n. PICK n \in Nat : n = OnTheMap!Cardinality(city.nodes)
  BY CityCounted
<1>1. OnTheMap!Reached(links, s) = (CHOOSE g : Solves(g))[DOMAIN [i \in 1..OnTheMap!Cardinality(city.nodes) |-> i]]
  BY DEF OnTheMap!Reached, OnTheMap!FoldLeft, OnTheMap!MapThenFoldSet
<1>2. DOMAIN [i \in 1..OnTheMap!Cardinality(city.nodes) |-> i] = 1..n
  BY <1>n
<1>3. \A S : OnTheMap!Max(S) = Max(S)
  BY DEF OnTheMap!Max, Max
<1>4. ASSUME NEW v \in V, NEW i \in 1..n
      PROVE  F[<<v, i>>] = One(v, i)
  OBVIOUS
<1>5. ASSUME NEW v \in V, NEW i \in Nat
      PROVE  F[<<v, i>>] \in V
  OBVIOUS
<1>6. {s} \in V
  OBVIOUS
<1>7. PICK h \in [SUBSET (1..n) -> V] :
        \A S \in SUBSET (1..n) : h[S] = IF S = {} THEN {s} ELSE F[<<h[S \ {Max(S)}], Max(S)>>]
  <2> HIDE DEF F, V
  <2>1. PICK U, e, G : U = V /\ e = {s} /\ G = F
    OBVIOUS
  <2>2. e \in U /\ \A v \in U : \A i \in Nat : G[<<v, i>>] \in U
    BY <1>5, <1>6, <2>1
  <2>3. \E h : FoldsUp(h, n, U, e, G)
    BY <2>2, FoldExists, Zenon
  <2> QED  BY <2>1, <2>3 DEF FoldsUp
<1>8. ASSUME NEW S \in SUBSET (1..n), S # {}
      PROVE  h[S] = One(h[S \ {Max(S)}], Max(S))
  <2>1. PICK x : x = Max(S) /\ x \in S
    BY <1>8, GreatestIsOne, Zenon
  <2> HIDE DEF V, F, One
  <2>2. x \in 1..n /\ S \ {x} \in SUBSET (1..n)
    <3>1. x \in 1..n
      BY <2>1
    <3>2. S \ {x} \in SUBSET (1..n)
      OBVIOUS
    <3> QED  BY <3>1, <3>2
  <2>3. h[S \ {x}] \in V /\ h[S] = F[<<h[S \ {x}], x>>]
    BY <1>7, <1>8, <2>1, <2>2
  <2> QED  BY <1>4, <2>1, <2>2, <2>3
<1>9. Solves(h)
  <2> HIDE DEF V, F, One
  <2> QED  BY <1>2, <1>3, <1>7, <1>8
<1>10. PICK g : Solves(g) /\ g[1..n] = (CHOOSE u : Solves(u))[DOMAIN [i \in 1..OnTheMap!Cardinality(city.nodes) |-> i]]
  <2> HIDE DEF Solves
  <2> QED  BY <1>2, <1>9
<1>11. g[{}] = {s} /\ \A S \in SUBSET (1..n) : S # {} => g[S] = One(g[S \ {Max(S)}], Max(S))
  <2> HIDE DEF One
  <2> QED  BY <1>2, <1>3, <1>10
<1>12. RunsTo(n, V, {s}, F, g[1..n])
  <2> HIDE DEF Solves, One, F, V
  <2>1. PICK U, e, G : U = V /\ e = {s} /\ G = F
    OBVIOUS
  <2>2. e \in U /\ \A v \in U : \A i \in Nat : G[<<v, i>>] \in U
    BY <1>5, <1>6, <2>1
  <2>3. ASSUME NEW S \in SUBSET (1..n), S # {}, g[S \ {Max(S)}] \in U
        PROVE  g[S] = G[<<g[S \ {Max(S)}], Max(S)>>]
    <3>1. PICK x : x = Max(S) /\ x \in S
      BY <2>3, GreatestIsOne, Zenon
    <3>2. x \in 1..n
      BY <3>1
    <3>3. g[S] = One(g[S \ {x}], x) /\ g[S \ {x}] \in V
      BY <1>11, <2>1, <2>3, <3>1
    <3> QED  BY <1>4, <2>1, <3>1, <3>2, <3>3
  <2>4. g[{}] = e
    BY <1>11, <2>1
  <2>5. \A S \in SUBSET (1..n) : S # {} /\ g[S \ {Max(S)}] \in U =>
          g[S] = G[<<g[S \ {Max(S)}], Max(S)>>]
    BY <2>3
  <2>6. e \in U /\ n \in Nat
    BY <2>2
  <2>7. \A v \in U : \A i \in Nat : G[<<v, i>>] \in U
    BY <2>2
  <2>8. RunsTo(n, U, e, G, g[1..n])
    BY ONLY <2>4, <2>5, <2>6, <2>7, FoldRuns, Zenon
  <2> QED  BY <2>1, <2>8
<1>13. PICK q : Runs(q, n, V, {s}, F) /\ q[n] = OnTheMap!Reached(links, s)
  <2> HIDE DEF Solves, F, V
  <2> QED  BY <1>1, <1>2, <1>10, <1>12 DEF RunsTo
<1>14. OnTheMap!Reached(links, s) \in V
  <2> HIDE DEF F, V
  <2> QED  BY <1>13 DEF Runs
<1> QED  BY <1>14

\* A piece of the map is of the nodes its links are between.
LEMMA IslandStays ==
  ASSUME city \in Cities, NEW X, NEW links \in SUBSET (X \X X), NEW a \in X
  PROVE  OnTheMap!IslandOf(a, links) \subseteq X
<1> DEFINE V == SUBSET X
           One(r, i) == r \cup OnTheMap!Joined(links, r)
           F == [p \in V \X Nat |-> One(p[1], p[2])]
           Solves(g) == g = [S \in SUBSET DOMAIN [i \in 1..OnTheMap!Cardinality(city.nodes) |-> i] |->
                               IF S = {} THEN {a}
                               ELSE One(g[S \ {OnTheMap!Max(S)}], OnTheMap!Max(S))]
<1>n. PICK n \in Nat : n = OnTheMap!Cardinality(city.nodes)
  BY CityCounted
<1>1. OnTheMap!IslandOf(a, links) = (CHOOSE g : Solves(g))[DOMAIN [i \in 1..OnTheMap!Cardinality(city.nodes) |-> i]]
  BY DEF OnTheMap!IslandOf, OnTheMap!FoldLeft, OnTheMap!MapThenFoldSet
<1>j. ASSUME NEW r PROVE OnTheMap!Joined(links, r) \subseteq X
  BY DEF OnTheMap!Joined
<1>2. DOMAIN [i \in 1..OnTheMap!Cardinality(city.nodes) |-> i] = 1..n
  BY <1>n
<1>3. \A S : OnTheMap!Max(S) = Max(S)
  BY DEF OnTheMap!Max, Max
<1>4. ASSUME NEW v \in V, NEW i \in 1..n
      PROVE  F[<<v, i>>] = One(v, i)
  OBVIOUS
<1>5. ASSUME NEW v \in V, NEW i \in Nat
      PROVE  F[<<v, i>>] \in V
  <2>1. F[<<v, i>>] = v \cup OnTheMap!Joined(links, v)
    OBVIOUS
  <2> HIDE DEF F
  <2> QED  BY <1>j, <2>1
<1>6. {a} \in V
  OBVIOUS
<1>7. PICK h \in [SUBSET (1..n) -> V] :
        \A S \in SUBSET (1..n) : h[S] = IF S = {} THEN {a} ELSE F[<<h[S \ {Max(S)}], Max(S)>>]
  <2> HIDE DEF F, V
  <2>1. PICK U, e, G : U = V /\ e = {a} /\ G = F
    OBVIOUS
  <2>2. e \in U /\ \A v \in U : \A i \in Nat : G[<<v, i>>] \in U
    BY <1>5, <1>6, <2>1
  <2>3. \E h : FoldsUp(h, n, U, e, G)
    BY <2>2, FoldExists, Zenon
  <2> QED  BY <2>1, <2>3 DEF FoldsUp
<1>8. ASSUME NEW S \in SUBSET (1..n), S # {}
      PROVE  h[S] = One(h[S \ {Max(S)}], Max(S))
  <2>1. PICK x : x = Max(S) /\ x \in S
    BY <1>8, GreatestIsOne, Zenon
  <2> HIDE DEF V, F, One
  <2>2. x \in 1..n /\ S \ {x} \in SUBSET (1..n)
    <3>1. x \in 1..n
      BY <2>1
    <3>2. S \ {x} \in SUBSET (1..n)
      OBVIOUS
    <3> QED  BY <3>1, <3>2
  <2>3. h[S \ {x}] \in V /\ h[S] = F[<<h[S \ {x}], x>>]
    BY <1>7, <1>8, <2>1, <2>2
  <2> QED  BY <1>4, <2>1, <2>2, <2>3
<1>9. Solves(h)
  <2> HIDE DEF V, F, One
  <2> QED  BY <1>2, <1>3, <1>7, <1>8
<1>10. PICK g : Solves(g) /\ g[1..n] = (CHOOSE u : Solves(u))[DOMAIN [i \in 1..OnTheMap!Cardinality(city.nodes) |-> i]]
  <2> HIDE DEF Solves
  <2> QED  BY <1>2, <1>9
<1>11. g[{}] = {a} /\ \A S \in SUBSET (1..n) : S # {} => g[S] = One(g[S \ {Max(S)}], Max(S))
  <2> HIDE DEF One
  <2> QED  BY <1>2, <1>3, <1>10
<1>12. RunsTo(n, V, {a}, F, g[1..n])
  <2> HIDE DEF Solves, One, F, V
  <2>1. PICK U, e, G : U = V /\ e = {a} /\ G = F
    OBVIOUS
  <2>2. e \in U /\ \A v \in U : \A i \in Nat : G[<<v, i>>] \in U
    BY <1>5, <1>6, <2>1
  <2>3. ASSUME NEW S \in SUBSET (1..n), S # {}, g[S \ {Max(S)}] \in U
        PROVE  g[S] = G[<<g[S \ {Max(S)}], Max(S)>>]
    <3>1. PICK x : x = Max(S) /\ x \in S
      BY <2>3, GreatestIsOne, Zenon
    <3>2. x \in 1..n
      BY <3>1
    <3>3. g[S] = One(g[S \ {x}], x) /\ g[S \ {x}] \in V
      BY <1>11, <2>1, <2>3, <3>1
    <3> QED  BY <1>4, <2>1, <3>1, <3>2, <3>3
  <2>4. g[{}] = e
    BY <1>11, <2>1
  <2>5. \A S \in SUBSET (1..n) : S # {} /\ g[S \ {Max(S)}] \in U =>
          g[S] = G[<<g[S \ {Max(S)}], Max(S)>>]
    BY <2>3
  <2>6. e \in U /\ n \in Nat
    BY <2>2
  <2>7. \A v \in U : \A i \in Nat : G[<<v, i>>] \in U
    BY <2>2
  <2>8. RunsTo(n, U, e, G, g[1..n])
    BY ONLY <2>4, <2>5, <2>6, <2>7, FoldRuns, Zenon
  <2> QED  BY <2>1, <2>8
<1>13. PICK q : Runs(q, n, V, {a}, F) /\ q[n] = OnTheMap!IslandOf(a, links)
  <2> HIDE DEF Solves, F, V
  <2> QED  BY <1>1, <1>2, <1>10, <1>12 DEF RunsTo
<1>14. OnTheMap!IslandOf(a, links) \in V
  <2> HIDE DEF F, V
  <2> QED  BY <1>13 DEF Runs
<1> QED  BY <1>14

\* Of the copy: what is taken in, what is still to be, and what was sewn.
SewingIsOfTheCopy ==
  /\ areas \subseteq city.areas
  /\ mainland \subseteq OnTheMap!copy /\ \A i \in islands : i \subseteq OnTheMap!copy
  /\ sewn \subseteq OnTheMap!copy \X OnTheMap!copy

Sought == doing \in {"corridor", "road"}

WaysInv ==
  /\ city \in Cities /\ SewingIsOfTheCopy
  /\ Sought => Searching
  /\ WayIsTheShortest

LEMMA CopyIsOnTheMap ==
  ASSUME city \in Cities, SewingIsOfTheCopy
  PROVE  OnTheMap!copy \subseteq city.nodes
BY CityIsTyped DEF SewingIsOfTheCopy, OnTheMap!copy

LEMMA CityIsWhatItWas ==
  ASSUME UNCHANGED <<city, over, start>>
  PROVE  /\ \A m, n : OnTheMap!Between(m, n)' = OnTheMap!Between(m, n)
         /\ OnTheMap!Reached(over.links, start)' = OnTheMap!Reached(over.links, start)
         /\ OnTheMap!Shortest' = OnTheMap!Shortest
<1>1. \A m, n : OnTheMap!Between(m, n)' = OnTheMap!Between(m, n)
  BY DEF OnTheMap!Between
<1>2. OnTheMap!Reached(over.links, start)' = OnTheMap!Reached(over.links, start)
  BY DEF OnTheMap!Reached, OnTheMap!FoldLeft, OnTheMap!MapThenFoldSet, OnTheMap!Cardinality
<1>3. OnTheMap!Shortest' = OnTheMap!Shortest
  BY DEF OnTheMap!Shortest, OnTheMap!FoldLeft, OnTheMap!MapThenFoldSet, OnTheMap!Cardinality,
         OnTheMap!Further, OnTheMap!Between
<1> QED  BY <1>1, <1>2, <1>3

LEMMA AnswerStands ==
  ASSUME WayIsTheShortest, UNCHANGED <<city, over, start, goal, outcome, found>>
  PROVE  WayIsTheShortest'
BY CityIsWhatItWas DEF WayIsTheShortest, OnTheMap!WayIsTheShortest, OnTheMap!Distance, OnTheMap!FoldLeft,
   OnTheMap!MapThenFoldSet, OnTheMap!Last, OnTheMap!Between

LEMMA NoAnswerYet ==
  ASSUME outcome' \notin {"none", "found"}
  PROVE  WayIsTheShortest'
BY DEF WayIsTheShortest, OnTheMap!WayIsTheShortest

LEMMA SearchStands ==
  ASSUME Searching, UNCHANGED <<city, over, start, goal, cost, came, open, outcome>>
  PROVE  Searching'
BY DEF Searching, Unanswered, GraphIsGiven, CameOverLinks, WaitsOrWasTried, IsStamp, Entry, OnTheMap!Between

LEMMA WaysInvInit == ASSUME OnTheMap!Init PROVE WaysInv
BY DEF OnTheMap!Init, WaysInv, SewingIsOfTheCopy, Sought, WayIsTheShortest, OnTheMap!WayIsTheShortest

LEMMA WaysStay == ASSUME WaysInv, UNCHANGED waysvars PROVE WaysInv'
<1>1. UNCHANGED <<city, areas, sewn, mainland, islands, doing, over, start, goal, cost, came, open, outcome, found>>
  BY DEF waysvars
<1>2. SewingIsOfTheCopy'
  BY <1>1 DEF WaysInv, SewingIsOfTheCopy, OnTheMap!copy
<1>3. (Sought => Searching)'
  BY <1>1, SearchStands DEF WaysInv, Sought
<1>4. WayIsTheShortest'
  BY <1>1, AnswerStands DEF WaysInv
<1> QED  BY <1>1, <1>2, <1>3, <1>4 DEF WaysInv

LEMMA CopyWays == ASSUME WaysInv, OnTheMap!Copy PROVE WaysInv'
<1>1. city \in Cities /\ WayIsTheShortest
  BY DEF WaysInv
<1>2. /\ areas' \subseteq city.areas /\ sewn' = {} /\ doing' = "sewing"
      /\ UNCHANGED <<city, over, start, goal, cost, came, open, outcome, found>>
  BY DEF OnTheMap!Copy, OnTheMap!search, OnTheMap!answer
<1>3. PICK X : X = UNION areas'
  OBVIOUS
<1>4. PICK main \in OnTheMap!Pieces(X) : mainland' = main /\ islands' = OnTheMap!Pieces(X) \ {main}
  BY <1>3 DEF OnTheMap!Copy
<1>5. ASSUME NEW p \in OnTheMap!Pieces(X)
      PROVE  p \subseteq X
  <2>1. PICK n \in X : p = OnTheMap!IslandOf(n, OnTheMap!LinksIn(X))
    BY DEF OnTheMap!Pieces
  <2>2. OnTheMap!LinksIn(X) \in SUBSET (X \X X)
    BY DEF OnTheMap!LinksIn
  <2> QED  BY <1>1, <2>1, <2>2, IslandStays
<1>6. SewingIsOfTheCopy'
  BY <1>2, <1>3, <1>4, <1>5 DEF SewingIsOfTheCopy, OnTheMap!copy
<1> QED  BY <1>1, <1>2, <1>6, AnswerStands DEF WaysInv, Sought

LEMMA SewWays == ASSUME WaysInv, OnTheMap!Sew PROVE WaysInv'
<1>1. city \in Cities /\ WayIsTheShortest /\ SewingIsOfTheCopy
  BY DEF WaysInv
<1>2. /\ doing = "sewing" /\ UNCHANGED <<city, areas, doing, over, start, goal, cost, came, open, outcome, found>>
  BY DEF OnTheMap!Sew, OnTheMap!search, OnTheMap!answer
<1>3. PICK island \in islands :
        /\ sewn' = sewn \/ \E s \in OnTheMap!Stitches(island) : sewn' = sewn \cup {s, <<s[2], s[1]>>}
        /\ mainland' = mainland \cup island /\ islands' = islands \ {island}
  BY DEF OnTheMap!Sew
<1>4. \A s \in OnTheMap!Stitches(island) : s \in island \X mainland
  BY DEF OnTheMap!Stitches
<1>5. sewn' \subseteq OnTheMap!copy \X OnTheMap!copy
  <2>1. \A s \in OnTheMap!Stitches(island) : s \in OnTheMap!copy \X OnTheMap!copy /\ <<s[2], s[1]>> \in OnTheMap!copy \X OnTheMap!copy
    BY <1>1, <1>4 DEF SewingIsOfTheCopy
  <2> QED  BY <1>1, <1>3, <2>1 DEF SewingIsOfTheCopy
<1>6. SewingIsOfTheCopy'
  <2>1. OnTheMap!copy' = OnTheMap!copy
    BY <1>2 DEF OnTheMap!copy
  <2>2. mainland' \subseteq OnTheMap!copy /\ \A i \in islands' : i \subseteq OnTheMap!copy
    BY <1>1, <1>3 DEF SewingIsOfTheCopy
  <2> QED  BY <1>1, <1>2, <1>5, <2>1, <2>2 DEF SewingIsOfTheCopy
<1> QED  BY <1>1, <1>2, <1>6, AnswerStands DEF WaysInv, Sought

LEMMA SewnWays == ASSUME WaysInv, OnTheMap!Sewn PROVE WaysInv'
<1>1. /\ UNCHANGED <<city, areas, sewn, mainland, islands, over, start, goal, outcome, found>>
      /\ doing' = "nothing"
  BY DEF OnTheMap!Sewn, OnTheMap!sewing, OnTheMap!search, OnTheMap!answer
<1>2. SewingIsOfTheCopy'
  BY <1>1 DEF WaysInv, SewingIsOfTheCopy, OnTheMap!copy
<1> QED  BY <1>1, <1>2, AnswerStands DEF WaysInv, Sought

LEMMA SearchIsBegun ==
  (city \in Cities /\ GraphIsGiven /\ Unanswered /\ Begun) => Searching
BY SearchBegins

LEMMA SearchIsBegunThen ==
  (city \in Cities /\ GraphIsGiven /\ Unanswered /\ Begun)' => Searching'
BY SearchIsBegun, PTL

\* Between errands one is refused or a search begins.
LEMMA ErrandWays ==
  ASSUME WaysInv, UNCHANGED <<city, areas, sewn, mainland, islands>>, doing = "nothing",
         \/ OnTheMap!Refuse
         \/ \E task, nodes, links : \E s \in nodes, g \in nodes :
              /\ OnTheMap!Begin(task, nodes, links, s, g)
              /\ nodes \subseteq city.nodes /\ links \subseteq nodes \X nodes
  PROVE  WaysInv'
<1>1. SewingIsOfTheCopy' /\ city' \in Cities
  BY DEF WaysInv, SewingIsOfTheCopy, OnTheMap!copy
<1>2. CASE OnTheMap!Refuse
  <2>1. WayIsTheShortest' /\ doing' = "nothing"
    BY <1>2, NoAnswerYet DEF OnTheMap!Refuse
  <2> QED  BY <1>1, <2>1 DEF WaysInv, Sought
<1>3. ASSUME NEW task, NEW nodes, NEW links, NEW s \in nodes, NEW g \in nodes,
             OnTheMap!Begin(task, nodes, links, s, g),
             nodes \subseteq city.nodes, links \subseteq nodes \X nodes
      PROVE  WaysInv'
  <2>1. Unanswered' /\ WayIsTheShortest'
    BY <1>3, NoAnswerYet DEF OnTheMap!Begin, Unanswered
  <2>2. GraphIsGiven'
    BY <1>3 DEF OnTheMap!Begin, GraphIsGiven
  <2>3. Begun'
    <3>1. \A m, n : OnTheMap!Between(m, n)' = OnTheMap!Between(m, n)
      BY DEF OnTheMap!Between
    <3> QED  BY <1>3, <3>1 DEF OnTheMap!Begin, Begun
  <2>4. Searching'
    BY <1>1, <2>1, <2>2, <2>3, SearchIsBegunThen
  <2> QED  BY <1>1, <2>1, <2>4 DEF WaysInv
<1> QED  BY <1>2, <1>3

LEMMA CorridorWays == ASSUME WaysInv, OnTheMap!Corridor PROVE WaysInv'
<1>1. UNCHANGED <<city, areas, sewn, mainland, islands>> /\ doing = "nothing"
  BY DEF OnTheMap!Corridor, OnTheMap!sewing
<1>2. /\ OnTheMap!copy \subseteq city.nodes
      /\ OnTheMap!LinksIn(OnTheMap!copy) \cup sewn \subseteq OnTheMap!copy \X OnTheMap!copy
  BY CopyIsOnTheMap DEF WaysInv, SewingIsOfTheCopy, OnTheMap!LinksIn
<1>3. ASSUME NEW nodes, NEW place
      PROVE  OnTheMap!Ends(nodes, place) \subseteq nodes
  BY DEF OnTheMap!Ends, OnTheMap!Nearest, OnTheMap!Near
<1>4. \/ OnTheMap!Refuse
      \/ \E s \in OnTheMap!Ends(OnTheMap!copy, here'), g \in OnTheMap!Ends(OnTheMap!copy, there') :
           OnTheMap!Begin("corridor", OnTheMap!copy, OnTheMap!LinksIn(OnTheMap!copy) \cup sewn, s, g)
  BY DEF OnTheMap!Corridor
<1>5. CASE OnTheMap!Refuse
  BY <1>1, <1>5, ErrandWays
<1>6. ASSUME NEW s \in OnTheMap!Ends(OnTheMap!copy, here'), NEW g \in OnTheMap!Ends(OnTheMap!copy, there'),
             OnTheMap!Begin("corridor", OnTheMap!copy, OnTheMap!LinksIn(OnTheMap!copy) \cup sewn, s, g)
      PROVE  WaysInv'
  <2>1. s \in OnTheMap!copy /\ g \in OnTheMap!copy
    BY <1>3
  <2> QED  BY <1>1, <1>2, <1>6, <2>1, ErrandWays
<1> QED  BY <1>4, <1>5, <1>6

LEMMA RoadWays == ASSUME WaysInv, OnTheMap!Road PROVE WaysInv'
<1>1. UNCHANGED <<city, areas, sewn, mainland, islands>> /\ doing = "nothing"
  BY DEF OnTheMap!Road, OnTheMap!sewing
<1>2. PICK roads : roads = city.nodes \ city.ped
  OBVIOUS
<1>3. roads \subseteq city.nodes /\ OnTheMap!LinksIn(roads) \subseteq roads \X roads
  BY <1>2 DEF OnTheMap!LinksIn
<1>4. ASSUME NEW place
      PROVE  OnTheMap!Nearest(OnTheMap!Near(roads, place, kJoinRadius), place) \subseteq roads
  BY DEF OnTheMap!Nearest, OnTheMap!Near
<1>5. \/ OnTheMap!Refuse
      \/ \E s \in OnTheMap!Nearest(OnTheMap!Near(roads, here', kJoinRadius), here'),
            g \in OnTheMap!Nearest(OnTheMap!Near(roads, there', kJoinRadius), there') :
           OnTheMap!Begin("road", roads, OnTheMap!LinksIn(roads), s, g)
  BY <1>2 DEF OnTheMap!Road
<1>6. CASE OnTheMap!Refuse
  BY <1>1, <1>6, ErrandWays
<1>7. ASSUME NEW s \in OnTheMap!Nearest(OnTheMap!Near(roads, here', kJoinRadius), here'),
             NEW g \in OnTheMap!Nearest(OnTheMap!Near(roads, there', kJoinRadius), there'),
             OnTheMap!Begin("road", roads, OnTheMap!LinksIn(roads), s, g)
      PROVE  WaysInv'
  <2>1. s \in roads /\ g \in roads
    BY <1>4
  <2> QED  BY <1>1, <1>3, <1>7, <2>1, ErrandWays
<1> QED  BY <1>5, <1>6, <1>7

LEMMA LookWays == ASSUME WaysInv, OnTheMap!Look PROVE WaysInv'
<1>1. /\ city \in Cities /\ Searching
      /\ UNCHANGED <<city, areas, sewn, mainland, islands, over, start, goal>>
  BY DEF OnTheMap!Look, OnTheMap!sewing, WaysInv, Sought
<1>2. SewingIsOfTheCopy' /\ city' \in Cities
  BY <1>1 DEF WaysInv, SewingIsOfTheCopy, OnTheMap!copy
<1>3. PICK top \in OnTheMap!Tops :
        IF top.at = goal
        THEN found' = OnTheMap!Back /\ outcome' = "found" /\ doing' = "nothing"
        ELSE LET better == OnTheMap!Relaxed(top.at) \ {top.at}
                 dear(n) == cost[top.at] + OnTheMap!Between(top.at, n)
             IN  /\ cost' = [n \in DOMAIN cost \cup better |->
                               IF n \in better THEN dear(n) ELSE cost[n]]
                 /\ came' = [n \in DOMAIN came \cup better |->
                               IF n \in better THEN top.at ELSE came[n]]
                 /\ open' = (open \ {top}) \cup
                              {[f |-> dear(n) + OnTheMap!Between(n, goal), at |-> n] : n \in better}
                 /\ outcome' = outcome
  BY Zenon DEF OnTheMap!Look, OnTheMap!answer
<1>4. CASE top.at = goal
  <2>1. PICK w : w = OnTheMap!Back
    OBVIOUS
  <2>2. found' = w /\ outcome' = "found" /\ doing' = "nothing"
    BY <1>3, <1>4, <2>1
  <2>3. /\ w[1] = start /\ w[Len(w)] = goal
        /\ \A i \in 2..Len(w) : <<w[i - 1], w[i]>> \in over.links
        /\ <<goal, OnTheMap!Distance(w)>> \in OnTheMap!Shortest
    BY <1>1, <1>4, <2>1, FoundIsShortest
  <2>4. OnTheMap!Distance(found)' = OnTheMap!Distance(w)
    BY <1>1, <2>2 DEF OnTheMap!Distance, OnTheMap!FoldLeft, OnTheMap!MapThenFoldSet, OnTheMap!Between
  <2>5. OnTheMap!Shortest' = OnTheMap!Shortest
    BY <1>1, CityIsWhatItWas
  <2>6. WayIsTheShortest'
    BY <1>1, <2>2, <2>3, <2>4, <2>5 DEF WayIsTheShortest, OnTheMap!WayIsTheShortest, OnTheMap!Last
  <2> QED  BY <1>2, <2>2, <2>6 DEF WaysInv, Sought
<1>5. CASE top.at # goal
  <2>1. PICK p, better : p = top.at /\ better = OnTheMap!Relaxed(p) \ {p}
    OBVIOUS
  <2>2. LookedRound(top, p, better)
    <3>1. cost' = [n \in DOMAIN cost \cup better |->
                     IF n \in better THEN cost[p] + OnTheMap!Between(p, n) ELSE cost[n]]
      BY <1>3, <1>5, <2>1
    <3>2. came' = [n \in DOMAIN came \cup better |-> IF n \in better THEN p ELSE came[n]]
      BY <1>3, <1>5, <2>1
    <3>3. open' = (open \ {top}) \cup
            {[f |-> cost[p] + OnTheMap!Between(p, n) + OnTheMap!Between(n, goal), at |-> n] : n \in better}
      BY <1>3, <1>5, <2>1
    <3>4. outcome' = outcome
      BY <1>3, <1>5
    <3> QED  BY <1>1, <1>5, <2>1, <3>1, <3>2, <3>3, <3>4, Zenon DEF LookedRound
  <2>3. top \in open
    BY DEF OnTheMap!Tops
  <2>4. Searching'
    BY <1>1, <2>2, <2>3, SearchGoesOn
  <2>5. WayIsTheShortest'
    <3>1. Unanswered'
      BY <2>4 DEF Searching
    <3> QED  BY <3>1, NoAnswerYet DEF Unanswered
  <2> QED  BY <1>2, <2>4, <2>5 DEF WaysInv
<1> QED  BY <1>4, <1>5

LEMMA NoWayWays == ASSUME WaysInv, OnTheMap!NoWay PROVE WaysInv'
<1>1. /\ city \in Cities /\ Searching /\ open = {} /\ outcome' = "none" /\ doing' = "nothing"
      /\ UNCHANGED <<city, areas, sewn, mainland, islands, over, start, goal>>
  BY DEF OnTheMap!NoWay, OnTheMap!sewing, OnTheMap!search, WaysInv, Sought
<1>2. SewingIsOfTheCopy' /\ city' \in Cities
  BY <1>1 DEF WaysInv, SewingIsOfTheCopy, OnTheMap!copy
<1>3. GraphIsGiven /\ CameOverLinks /\ WaitsOrWasTried
  BY <1>1 DEF Searching
<1>4. start \in DOMAIN cost /\ goal \notin DOMAIN cost
  BY <1>1, <1>3 DEF CameOverLinks, WaitsOrWasTried
<1>5. ASSUME NEW l \in over.links, l[1] \in DOMAIN cost
      PROVE  l[2] \in DOMAIN cost
  <2>1. PICK n, m : l = <<n, m>> /\ l[1] = n /\ l[2] = m
    BY <1>3 DEF GraphIsGiven
  <2> QED  BY <1>1, <1>3, <1>5, <2>1 DEF WaitsOrWasTried
<1>6. OnTheMap!Reached(over.links, start) \subseteq DOMAIN cost
  BY <1>1, <1>4, <1>5, ReachedStays
<1>7. OnTheMap!Reached(over.links, start)' = OnTheMap!Reached(over.links, start)
  BY <1>1, CityIsWhatItWas
<1>8. WayIsTheShortest'
  BY <1>1, <1>4, <1>6, <1>7 DEF WayIsTheShortest, OnTheMap!WayIsTheShortest
<1> QED  BY <1>1, <1>2, <1>8 DEF WaysInv, Sought

\* A way over the map's nodes that is found is made of links from end to end and no
\* longer than any, and none is found only where none leads there (planner.cpp
\* CorridorPoint, roads.cpp RoadRoute).
THEOREM ShortestIsFound == GroundSpec => []WayIsTheShortest
<1>1. GroundInit => WaysInv
  BY WaysInvInit DEF GroundInit
<1>2. WaysInv /\ [GroundNext]_everything => WaysInv'
  <2> SUFFICES ASSUME WaysInv, [GroundNext]_everything PROVE WaysInv'
    OBVIOUS
  <2>1. CASE OnTheMap!Next
    BY <2>1, CopyWays, SewWays, SewnWays, CorridorWays, RoadWays, LookWays, NoWayWays DEF OnTheMap!Next
  <2>2. CASE UNCHANGED waysvars
    BY <2>2, WaysStay
  <2> QED  BY <2>1, <2>2 DEF GroundNext, everything
<1>3. WaysInv => WayIsTheShortest
  BY DEF WaysInv
<1> QED  BY <1>1, <1>2, <1>3, PTL DEF GroundSpec, everything

===============================================================================
