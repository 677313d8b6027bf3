-------------------------------- MODULE ChatLog --------------------------------
(***************************************************************************)
(* The client's chat, found by its shape and read where it stands          *)
(* (samp/chat.cpp).  A ring of records somewhere in a block of memory: what *)
(* its columns are, where it begins and ends and which way round it runs is *)
(* worked out once, from what stands in it at that moment, and kept; lines  *)
(* go on arriving.                                                         *)
(*                                                                         *)
(* A block is a sequence of cells, one to a field of a record; a cell says  *)
(* nothing, a name, a word, a line (a sentence), the connect line, or is    *)
(* bytes that are no text, and has a value of four bytes.  The two clocks a *)
(* line can be stamped by are one; columns are fewer than kMaxColumns and   *)
(* kMaxSignature.                                                          *)
(***************************************************************************)
EXTENDS Integers, FiniteSetsExt, SequencesExt

CONSTANTS
  Ring,                 \* entries of the client's ring
  Arrangements,         \* how a ring is filled, what its unused entries hold,
                        \* what stands behind it, where the known pointer leads
  kMinStrings, kMinSentences, kMinRun, kMaxEntries,  \* of a shape
  kMinTimeSamples, kMinTimeDistinct, kMaxAge,        \* of a clock
  kMinSignatureVoters, kMaxVoters, kMaxProposers,    \* of a signature
  kMaxAnchoredAttempts, kRetryAfter,
  Utterances,           \* lines to be said: [says, kind, who]
  Pauses,               \* time between two lines
  MaxLines              \* bound of the model: lines said

VARIABLES
  memory,     \* the arrangement of this client
  said,       \* what the client showed, in order, and when
  now,        \* GetTickCount
  joined,     \* ResolveLayout is valid
  resolved,   \* g_resolved
  layout,     \* g_layout
  lastAttempt, attempts  \* g_last_attempt_ms, g_anchored_attempts

vars == <<memory, said, now, joined, resolved, layout, lastAttempt, attempts>>

-----------------------------------------------------------------------------
(* What stands in memory.                                                  *)

Zero == [says |-> "none", word |-> 0]
Bytes(n) == [says |-> "bytes", word |-> n]
Text(says, n) == [says |-> says, word |-> n]

\* A record: when, who, what, of which kind, and what it is drawn with.
Width == 5
Record(line, n) ==
  <<Bytes(line.at), IF line.who > 0 THEN Text("name", 300 + line.who) ELSE Zero, Text(line.says, 100 + n),
    Bytes(400 + line.kind), Bytes(500)>>
Unused == [k \in 1..Width |-> Zero]
Scrap == <<Bytes(900), Zero, Text("word", 901), Zero, Zero>>
Command == <<Zero, Text("word", 902), Text("word", 903), Zero, Zero>>
Entry(what) ==
  CASE what = "scrap" -> Scrap [] what = "command" -> Command [] OTHER -> Unused
Tip(n) == <<Zero, Zero, Text("line", 910 + n), Bytes(950), Zero>>

\* What the ring holds, by number, in the order of its entries.
Showing ==
  LET first == IF Len(said) > Ring THEN Len(said) - Ring + 1 ELSE 1
      oldest == [k \in 1..(Len(said) - first + 1) |-> first + k - 1]
  IN  IF memory.fill = "push" THEN Reverse(oldest) ELSE oldest

ChatBlock ==
  LET entry == [k \in 1..Ring |-> IF k <= Len(Showing) THEN Record(said[Showing[k]], Showing[k])
                                  ELSE Entry(memory.unused)]
      behind == [k \in DOMAIN memory.behind |-> Entry(memory.behind[k])]
  IN  <<Bytes(999)>> \o FlattenSeq(entry \o behind) \o <<Bytes(999)>>
TipBlock == <<Bytes(999)>> \o FlattenSeq([k \in 1..Ring |-> Tip(k)]) \o <<Bytes(999)>>
Block(name) == IF name = "chat" THEN ChatBlock ELSE TipBlock

FieldStart(b, at) == at \in DOMAIN b /\ b[at].says \notin {"none", "bytes"}
FieldOrEmpty(b, at) == at \in DOMAIN b /\ b[at].says # "bytes"
Sentence(cell) == cell.says \in {"line", "host"}
SentenceInWindow(b, begin, stride) ==
  \E at \in begin..(begin + stride - 1) : at \in DOMAIN b /\ Sentence(b[at])

-----------------------------------------------------------------------------
(* The search for a ring.                                                  *)

Strides == Width..(2 * Width)

CountOf(b, at, stride) ==
  Cardinality({n \in 0..(kMaxEntries - 1) : \A k \in 0..n : FieldOrEmpty(b, at + k * stride)})
CountStrings(b, at, stride, count) ==
  Cardinality({k \in 0..(count - 1) : b[at + k * stride].says # "none"})
CountSentences(b, at, stride, count) ==
  Cardinality({k \in 0..(count - 1) : SentenceInWindow(b, at + k * stride, stride)})

Shape(b, at, stride, count) ==
  [reference |-> at, stride |-> stride, count |-> count,
   strings |-> CountStrings(b, at, stride, count),
   sentences |-> CountSentences(b, at, stride, count)]
ChatLike(s) == s.count >= kMinRun /\ s.strings >= kMinStrings /\ s.sentences >= kMinSentences

\* Lines of chat win; a tie goes to the tighter stride, then to more text, then
\* to the one found first.
Rank(s) == <<s.sentences, -s.stride, s.strings, -s.reference>>
Before(a, b) == \E n \in DOMAIN a : a[n] < b[n] /\ \A m \in 1..(n - 1) : a[m] = b[m]
Best(shapes) == CHOOSE s \in shapes : \A t \in shapes : s = t \/ Before(Rank(t), Rank(s))

\* The shapes from the field starts up to where the search was cut short.
SearchRing(b, upTo) ==
  {s \in {Shape(b, at, stride, CountOf(b, at, stride)) :
             at \in {a \in 1..upTo : FieldStart(b, a)}, stride \in Strides} : ChatLike(s)}

-----------------------------------------------------------------------------
(* What a shape's columns are.                                             *)

Length(cell) == CASE cell.says = "name" -> 5 [] cell.says = "word" -> 6 [] OTHER -> 20
Namelike(cell) == cell.says \in {"name", "word"}

Column(b, s, delta) ==
  LET cells == {k \in 0..(s.count - 1) : FieldStart(b, s.reference + k * s.stride + delta)}
      Cell(k) == b[s.reference + k * s.stride + delta]
  IN  [delta |-> delta, hits |-> Cardinality(cells),
       sentences |-> Cardinality({k \in cells : Sentence(Cell(k))}),
       total |-> MapThenSumSet(LAMBDA k : Length(Cell(k)), cells),
       namelike |-> Cardinality({k \in cells : Namelike(Cell(k))})]
ScanColumns(b, s) ==
  {c \in {Column(b, s, d) : d \in (1 - s.stride)..(s.stride - 1)} :
     c.hits > 0 /\ c.hits * 4 >= s.strings}

\* The message is the column of sentences, and of those the nearest.
Message(columns) ==
  LET Order(c) == <<c.sentences, c.total, -(IF c.delta < 0 THEN -c.delta ELSE c.delta), -c.delta>>
  IN  CHOOSE c \in columns : \A d \in columns : c = d \/ Before(Order(d), Order(c))

\* The speaker holds names, shorter than what is said.
Speakers(columns, message, stride) ==
  {c \in columns :
     /\ c.delta # message.delta
     /\ c.delta - message.delta \in (1 - stride)..(stride - 1)
     /\ c.total \div c.hits < message.total \div message.hits
     /\ 2 * c.namelike >= c.hits}
Speaker(speakers) ==
  LET Order(c) == <<c.hits, c.total, -c.delta>>
  IN  CHOOSE c \in speakers : \A d \in speakers : c = d \/ Before(Order(d), Order(c))

OnClock(value) == value # 0 /\ value <= now + kMaxAge /\ now <= value + kMaxAge

\* The readings of a column, of the entries that hold text, that are on the
\* clock.
Readings(b, s, delta) ==
  LET live == SelectSeq([k \in 1..s.count |-> s.reference + (k - 1) * s.stride],
                        LAMBDA at : b[at].says # "none")
      voters == SubSeq(live, 1, Min({Len(live), kMaxVoters}))
  IN  [live |-> Len(voters),
       readable |-> \A n \in DOMAIN voters : voters[n] + delta \in DOMAIN b,
       values |-> SelectSeq([n \in DOMAIN voters |-> IF voters[n] + delta \in DOMAIN b
                                                     THEN b[voters[n] + delta].word ELSE 0], OnClock)]
Rising(v) == \A n \in 2..Len(v) : v[n - 1] <= v[n]
Falling(v) == \A n \in 2..Len(v) : v[n - 1] >= v[n]
IsClock(r) ==
  /\ r.readable /\ Len(r.values) >= kMinTimeSamples /\ 2 * Len(r.values) >= r.live
  /\ Cardinality({n \in 2..Len(r.values) : r.values[n - 1] # r.values[n]}) >= kMinTimeDistinct
  /\ Rising(r.values) # Falling(r.values)

\* The first column that is one.
ScanClock(b, s) == {d \in (1 - s.stride)..(s.stride - 1) : IsClock(Readings(b, s, d))}

\* What every entry has in common: values the first few propose and half of
\* those with text hold.
FindSignature(b, s, text) ==
  LET all == SelectSeq([k \in 1..s.count |-> s.reference + (k - 1) * s.stride + text],
                       LAMBDA at : FieldStart(b, at))
      live == SubSeq(all, 1, Min({Len(all), kMaxVoters}))
      asked == 1..Min({Len(live), kMaxProposers})
      Holds(n, d, value) == live[n] + d \in DOMAIN b /\ b[live[n] + d].word = value
      Matches(d, value) == Cardinality({n \in DOMAIN live : Holds(n, d, value)})
      Proposed(d) == {b[live[n] + d].word : n \in asked} \ {0}
      Top(d) == CHOOSE v \in Proposed(d) : \A u \in Proposed(d) : Matches(d, u) <= Matches(d, v)
  IN  IF Len(live) < kMinSignatureVoters THEN {}
      ELSE {[delta |-> d, value |-> Top(d)] :
              d \in {e \in (-s.stride)..(s.stride - 1) :
                       /\ \A n \in asked : live[n] + e \in DOMAIN b
                       /\ \E v \in Proposed(e) :
                            /\ 2 * Matches(e, v) >= Len(live)
                            /\ Matches(e, v) >= kMinSignatureVoters}}

NoLayout == [valid |-> FALSE]
Describe(name, b, s) ==
  LET columns == ScanColumns(b, s)
      text == Message(columns).delta
      speakers == Speakers(columns, Message(columns), s.stride)
      clock == ScanClock(b, s)
  IN  [valid |-> TRUE, anchored |-> FALSE, block |-> name,
       first |-> s.reference + text, stride |-> s.stride, entries |-> s.count,
       sentences |-> s.sentences,
       signature |-> FindSignature(b, s, text),
       prefix |-> IF speakers = {} THEN {} ELSE {Speaker(speakers).delta - text},
       clock |-> IF clock = {} THEN {} ELSE {Min(clock) - text},
       newestFirst |-> clock # {} /\ Falling(Readings(b, s, Min(clock)).values)]

ContainsHost(l, b) ==
  \E i \in 0..(l.entries - 1) :
    LET at == l.first + i * l.stride IN at \in DOMAIN b /\ b[at].says = "host"

TryCandidate(name, b, upTo) ==
  LET shapes == SearchRing(b, upTo)
  IN  IF shapes = {} THEN NoLayout ELSE Describe(name, b, Best(shapes))

\* The ring round a line known to be one: back over text, on over text and
\* entries not used yet.
ExpandRun(b, at, stride) ==
  LET back == Cardinality({n \in 1..kMaxEntries : \A k \in 1..n : FieldStart(b, at - k * stride)})
      on == Cardinality({n \in 0..kMaxEntries : \A k \in 0..n : FieldOrEmpty(b, at + k * stride)})
  IN  Shape(b, at - back * stride, stride, Min({back + on, kMaxEntries}))

\* The rings round the copies of the connect line, that hold it as described.
SearchByConnectLine ==
  LET b == ChatBlock
      shapes == {ExpandRun(b, at, stride) : at \in {a \in DOMAIN b : b[a].says = "host"},
                                            stride \in Strides}
      layouts == {l \in {Describe("chat", b, s) : s \in {t \in shapes : ChatLike(t)}} :
                    ContainsHost(l, b)}
  IN  {[l EXCEPT !.anchored = TRUE] :
         l \in {m \in layouts : \A k \in layouts : m.stride <= k.stride}}

-----------------------------------------------------------------------------
(* Resolution, and what is read.                                           *)

\* The known pointer, or the best of what the sweep comes by in its time.
Documented(upTo) ==
  IF memory.known = "nowhere" THEN NoLayout
  ELSE TryCandidate(memory.known, Block(memory.known), upTo)
Swept(blocks, upTo) ==
  LET tried == {l \in {TryCandidate(name, Block(name), upTo) : name \in blocks} : l.valid}
  IN  IF tried = {} THEN NoLayout
      ELSE CHOOSE l \in tried : \A m \in tried : m.sentences <= l.sentences
Shaped(blocks, upTo) ==
  LET known == Documented(upTo) IN IF known.valid THEN known ELSE Swept(blocks, upTo)
Settled(l) ==
  IF l.valid THEN [l EXCEPT !.anchored = ContainsHost(l, Block(l.block))] ELSE l

ResolveChat ==
  /\ ~resolved
  /\ lastAttempt = 0 \/ now - lastAttempt >= kRetryAfter
  /\ lastAttempt' = now
  /\ IF ~joined THEN layout' = NoLayout /\ UNCHANGED <<resolved, attempts>>
     ELSE \E shaped \in {Settled(Shaped(blocks, upTo)) :
                            blocks \in SUBSET {"chat", "tips"}, upTo \in {Width, Len(ChatBlock)}} :
            /\ IF (shaped.valid /\ shaped.anchored) \/ attempts = kMaxAnchoredAttempts
               THEN layout' = shaped /\ UNCHANGED attempts
               ELSE /\ attempts' = attempts + 1
                    /\ \/ layout' = shaped
                       \/ layout' \in SearchByConnectLine
            /\ resolved' = layout'.valid
  /\ UNCHANGED <<memory, said, now, joined>>

\* An entry is one of the ring when it has half of what its entries share.
Belongs(l, b, at) ==
  \/ l.signature = {}
  \/ 2 * Cardinality({c \in l.signature : at + c.delta \in DOMAIN b /\ b[at + c.delta].word = c.value})
       >= Cardinality(l.signature)
\* Mutated form: whatever reads as text and belongs is a line.
TextIsALine(l, b, at) == TRUE
\* Where there is a clock, an entry off it was never written.
Live(l, b, at) == \A d \in l.clock : at + d \in DOMAIN b /\ OnClock(b[at + d].word)

ReadChat ==
  LET b == Block(layout.block)
      entries == [i \in 1..layout.entries |-> layout.first + (i - 1) * layout.stride]
      lines == SelectSeq(entries, LAMBDA at : FieldStart(b, at) /\ Belongs(layout, b, at)
                                              /\ Live(layout, b, at))
      read == [n \in DOMAIN lines |->
                 [line |-> b[lines[n]].word - 100,
                  from |-> {b[lines[n] + d].word - 300 :
                              d \in {e \in layout.prefix : FieldStart(b, lines[n] + e)}}]]
  IN  IF layout.newestFirst THEN Reverse(read) ELSE read

-----------------------------------------------------------------------------
(* The client.                                                             *)

Init ==
  /\ memory \in Arrangements /\ now = 20
  /\ said = <<[says |-> "host", kind |-> 1, who |-> 0, at |-> 20]>>
  /\ joined = FALSE /\ resolved = FALSE /\ layout = NoLayout
  /\ lastAttempt = 0 /\ attempts = 0

Join == ~joined /\ joined' = TRUE /\ UNCHANGED <<memory, said, now, resolved, layout, lastAttempt, attempts>>

Say ==
  /\ Len(said) < MaxLines
  /\ \E u \in Utterances, pause \in Pauses :
       /\ now' = now + pause
       /\ said' = Append(said, [says |-> u.says, kind |-> u.kind, who |-> u.who, at |-> now'])
  /\ UNCHANGED <<memory, joined, resolved, layout, lastAttempt, attempts>>

Next == Join \/ Say \/ ResolveChat

Spec == Init /\ [][Next]_vars

-----------------------------------------------------------------------------
(* Properties.                                                             *)

\* Once the ring with the connect line was found, and a clock in it, what is
\* read is what the server or somebody said, each line once and oldest first,
\* by whom it was said or by nobody - however much of the ring was in use when
\* it was found, whichever way round it runs, whatever its unused entries hold
\* and whatever stands behind it (chat.cpp:1109-1179).  Without a clock it need
\* not hold, and a line of another kind than most may be left out: it may share
\* less than half of what those share (README).
ReadsWhatWasSaid ==
  resolved /\ layout.anchored /\ layout.clock # {} =>
    \E read \in {ReadChat} :
      /\ \A n \in DOMAIN read : /\ read[n].line \in DOMAIN said
                                /\ read[n].from \subseteq {said[read[n].line].who}
      /\ \A n \in 2..Len(read) : read[n - 1].line < read[n].line
===============================================================================
