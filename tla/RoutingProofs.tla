--------------------------- MODULE RoutingProofs ----------------------------
(***************************************************************************)
(* For every configuration with at most PlaybackMax playbacks: the         *)
(* invariants of Routing, and that Routing implements RouteTable.          *)
(***************************************************************************)
EXTENDS Routing, FiniteSetTheorems, TLAPS

-----------------------------------------------------------------------------
(* Lists without duplicates. *)

\* Taking out an element shortens the list by that element alone.
LEMMA ShiftedList ==
    ASSUME NEW S, NEW seq \in Seq(S), Distinct(seq), NEW e \in Elements(seq)
    PROVE  LET t == Shifted(seq, FirstIndex(seq, e))
           IN  /\ t \in Seq(S)
               /\ Len(t) = Len(seq) - 1
               /\ Elements(t) = Elements(seq) \ {e}
               /\ Distinct(t)
<1> DEFINE k == FirstIndex(seq, e)
           n == Len(seq)
           t == Shifted(seq, k)
<1>1. k \in 1..n /\ seq[k] = e
  <2>1. PICK i \in 1..n : seq[i] = e
    BY DEF Elements
  <2>2. \A j \in 1..(i - 1) : seq[j] # e
    BY <2>1 DEF Distinct
  <2>. QED
    BY <2>1, <2>2 DEF FirstIndex
<1>2. n \in Nat /\ \A i \in 1..n : seq[i] \in S
  OBVIOUS
<1>3. t = [j \in 1..(n - 1) |-> IF j < k THEN seq[j] ELSE seq[j + 1]]
  BY DEF Shifted
<1> HIDE DEF k, t
<1>4. t \in Seq(S) /\ Len(t) = n - 1
  BY <1>1, <1>2, <1>3
<1>5. \A j \in 1..(n - 1) : t[j] = IF j < k THEN seq[j] ELSE seq[j + 1]
  BY <1>3
<1>6. Distinct(t)
  BY <1>1, <1>2, <1>4, <1>5 DEF Distinct
<1>7. Elements(t) \subseteq Elements(seq) \ {e}
  BY <1>1, <1>2, <1>4, <1>5 DEF Distinct, Elements
<1>8. ASSUME NEW x \in Elements(seq) \ {e}
      PROVE  x \in Elements(t)
  <2>1. PICK i \in 1..n : seq[i] = x
    BY DEF Elements
  <2>2. i # k
    BY <1>1, <2>1
  <2>3. CASE i < k
    <3>1. i \in 1..(n - 1) /\ t[i] = x
      BY <1>1, <1>2, <1>5, <2>1, <2>3
    <3>. QED
      BY <3>1, <1>4 DEF Elements
  <2>4. CASE i > k
    <3>1. i - 1 \in 1..(n - 1) /\ t[i - 1] = x
      BY <1>1, <1>2, <1>5, <2>1, <2>4
    <3>. QED
      BY <3>1, <1>4 DEF Elements
  <2>. QED
    BY <1>1, <2>2, <2>3, <2>4
<1>. QED
  BY <1>4, <1>6, <1>7, <1>8 DEF k, t

\* Appending a new element lengthens the list by that element alone.
LEMMA AppendedList ==
    ASSUME NEW S, NEW seq \in Seq(S), Distinct(seq), NEW e \in S, e \notin Elements(seq)
    PROVE  /\ Append(seq, e) \in Seq(S)
           /\ Len(Append(seq, e)) = Len(seq) + 1
           /\ Elements(Append(seq, e)) = Elements(seq) \cup {e}
           /\ Distinct(Append(seq, e))
<1> DEFINE n == Len(seq)
           t == Append(seq, e)
<1>1. /\ n \in Nat
      /\ t \in Seq(S) /\ Len(t) = n + 1
      /\ t[n + 1] = e
      /\ \A i \in 1..n : t[i] = seq[i]
  OBVIOUS
<1> HIDE DEF t
<1>2. \A i \in 1..n : seq[i] # e
  BY DEF Elements
<1>3. Distinct(t)
  BY <1>1, <1>2 DEF Distinct
<1>4. Elements(t) = Elements(seq) \cup {e}
  <2>1. \A x \in Elements(t) : x \in Elements(seq) \cup {e}
    BY <1>1 DEF Elements
  <2>2. \A x \in Elements(seq) : x \in Elements(t)
    BY <1>1 DEF Elements
  <2>3. e \in Elements(t)
    BY <1>1 DEF Elements
  <2>. QED
    BY <2>1, <2>2, <2>3
<1>. QED
  BY <1>1, <1>3, <1>4 DEF t

\* A list without duplicates is no longer than the set it draws from.
LEMMA DistinctIsShort ==
    ASSUME NEW S, IsFiniteSet(S), NEW seq \in Seq(S), Distinct(seq)
    PROVE  Len(seq) <= Cardinality(S)
<1> DEFINE n == Len(seq)
<1>1. n \in Nat /\ seq \in Injection(1..n, S)
  BY DEF Injection, IsInjective, Distinct
<1> HIDE DEF n
<1>2. Cardinality(1..n) <= Cardinality(S)
  BY <1>1, FS_Injection
<1>3. Cardinality(1..n) = n
  <2>1. Cardinality(1..n) = IF 1 > n THEN 0 ELSE n - 1 + 1
    BY <1>1, FS_Interval
  <2>. QED
    BY <1>1, <2>1
<1>. QED
  BY <1>2, <1>3 DEF n

-----------------------------------------------------------------------------
(* The inductive invariant, as a predicate on a state of the lists, so that it can be said
   of the state between the clear and the append of one request. *)

Good(s) ==
    /\ s \in State
    /\ Agree(s)
    /\ \A c \in Card : Distinct(s.panel[c]) /\ Len(s.panel[c]) <= PlaybackMax
    /\ \A p \in Playback : Distinct(s.cards[p]) /\ Len(s.cards[p]) <= CardMax
    /\ \A p \in Probed : ~s.muted[p] => Audible(s, p)

\* No entry hides behind the slots the searches look at.
LEMMA ListedIsElement ==
    ASSUME NEW s, Good(s), NEW c \in Card, NEW p \in Playback
    PROVE  Listed(s, c, p) <=> p \in Elements(s.panel[c])
<1>1. s.panel[c] \in Seq(Playback) /\ Len(s.panel[c]) <= PlaybackMax
  BY DEF Good, State
<1>. QED
  BY <1>1, RoutingAssumption DEF Listed, Elements

\* What the undoing of the routes of gone to panel c leaves on the playback side.
LEMMA UndoneFacts ==
    ASSUME NEW s, Good(s), NEW c \in Card, NEW deaf,
           NEW gone \in SUBSET Elements(s.panel[c])
    PROVE  LET u == Undone(s, c, gone, deaf)
           IN  /\ u \in State
               /\ u.panel = s.panel
               /\ \A p \in Playback :
                     /\ Distinct(u.cards[p]) /\ Len(u.cards[p]) <= CardMax
                     /\ \A k \in Card :
                          k \in Elements(u.cards[p]) <=>
                              k \in Elements(s.cards[p]) /\ ~(k = c /\ p \in gone)
                     /\ ~u.muted[p] => /\ ~s.muted[p]
                                       /\ ~(Master[p] = c /\ p \in gone)
                                       /\ u.mixer[p] = s.mixer[p]
<1> DEFINE u == Undone(s, c, gone, deaf)
           onMaster == gone \cap MasteredBy(c)
           cards == [p \in Playback |->
                       IF p \in gone \ onMaster THEN Closed(s.cards[p], c) ELSE s.cards[p]]
           muted == [p \in Playback |-> p \in onMaster \/ s.muted[p]]
           mixer == [p \in Playback |-> IF p \in onMaster \ deaf THEN "0%" ELSE s.mixer[p]]
           recording == s.recording \ UNION {Feeds(p) : p \in onMaster}
<1>1. s \in State
  BY DEF Good
<1>2. u = [panel |-> s.panel, cards |-> cards, muted |-> muted, mixer |-> mixer,
           recording |-> recording]
  <2>1. u = [s EXCEPT !.cards = cards, !.muted = muted, !.mixer = mixer,
                      !.recording = recording]
    BY DEF Undone
  <2> HIDE DEF u, cards, muted, mixer, recording
  <2>. QED
    BY <1>1, <2>1 DEF State
<1> HIDE DEF u
<1>3. ASSUME NEW p \in Playback
      PROVE  /\ cards[p] \in Seq(Card)
             /\ Distinct(cards[p]) /\ Len(cards[p]) <= CardMax
             /\ \A k \in Card :
                   k \in Elements(cards[p]) <=>
                       k \in Elements(s.cards[p]) /\ ~(k = c /\ p \in gone)
  <2>1. /\ s.cards[p] \in Seq(Card) /\ Distinct(s.cards[p]) /\ Len(s.cards[p]) <= CardMax
        /\ p \in MasteredBy(c) => c \notin Elements(s.cards[p])
    BY <1>1 DEF Good, State, Agree, MasteredBy
  <2>2. CASE p \in gone \ onMaster /\ c \in Elements(s.cards[p])
    <3>1. cards[p] = Shifted(s.cards[p], FirstIndex(s.cards[p], c))
      BY <2>2 DEF Closed
    <3>2. /\ cards[p] \in Seq(Card) /\ Len(cards[p]) = Len(s.cards[p]) - 1
          /\ Elements(cards[p]) = Elements(s.cards[p]) \ {c} /\ Distinct(cards[p])
      BY <2>1, <2>2, <3>1, ShiftedList
    <3> HIDE DEF cards
    <3>3. Len(s.cards[p]) \in Nat
      BY <2>1
    <3>4. Len(cards[p]) <= CardMax
      BY <2>1, <3>2, <3>3, RoutingAssumption
    <3>. QED
      BY <2>2, <3>2, <3>4
  <2>3. CASE ~(p \in gone \ onMaster /\ c \in Elements(s.cards[p]))
    <3>1. cards[p] = s.cards[p]
      BY <2>3 DEF Closed
    <3>. QED
      BY <2>1, <2>3, <3>1
  <2>. QED
    BY <2>2, <2>3
<1>4. cards \in [Playback -> Seq(Card)]
  BY <1>3
<1>5. /\ muted \in [Playback -> BOOLEAN] /\ mixer \in [Playback -> Volume]
      /\ recording \in SUBSET Capture
  BY <1>1, Zenon DEF State, Volume
<1>6. u \in State
  BY <1>1, <1>2, <1>4, <1>5 DEF State
<1>7. \A p \in Playback : ~muted[p] => /\ ~s.muted[p]
                                      /\ ~(Master[p] = c /\ p \in gone)
                                      /\ mixer[p] = s.mixer[p]
  BY DEF MasteredBy
<1>. QED
  BY <1>2, <1>3, <1>6, <1>7 DEF u

Dropped(s, c, gone, deaf, list) == [Undone(s, c, gone, deaf) EXCEPT !.panel[c] = list]

\* t keeps the invariant, and plays what s plays but the routes of gone to panel c.
PlaysLess(s, t, c, gone) ==
    /\ Good(t)
    /\ \A k \in Card, p \in Playback :
          Played(t, k, p) <=> Played(s, k, p) /\ ~(k = c /\ p \in gone)

\* A request that takes the routes of gone out of panel c keeps the invariant and takes
\* exactly these routes out of what is played.
LEMMA DroppedGood ==
    ASSUME NEW s, Good(s), NEW c \in Card, NEW deaf,
           NEW gone \in SUBSET Elements(s.panel[c]),
           NEW list \in Seq(Playback), Distinct(list), Len(list) <= PlaybackMax,
           Elements(list) = Elements(s.panel[c]) \ gone
    PROVE  PlaysLess(s, Dropped(s, c, gone, deaf, list), c, gone)
<1> DEFINE u == Undone(s, c, gone, deaf)
           t == Dropped(s, c, gone, deaf, list)
<1>1. /\ u \in State
      /\ u.panel = s.panel
      /\ \A p \in Playback :
            /\ Distinct(u.cards[p]) /\ Len(u.cards[p]) <= CardMax
            /\ \A k \in Card :
                 k \in Elements(u.cards[p]) <=>
                     k \in Elements(s.cards[p]) /\ ~(k = c /\ p \in gone)
            /\ ~u.muted[p] => /\ ~s.muted[p]
                              /\ ~(Master[p] = c /\ p \in gone)
                              /\ u.mixer[p] = s.mixer[p]
  BY UndoneFacts
<1>a. t = [u EXCEPT !.panel[c] = list]
  BY DEF Dropped
<1> HIDE DEF u, t
<1>2. /\ t \in State
      /\ t.panel = [s.panel EXCEPT ![c] = list]
      /\ t.cards = u.cards /\ t.muted = u.muted /\ t.mixer = u.mixer
  BY <1>1, <1>a DEF State
<1>3. s \in State /\ Agree(s)
  BY DEF Good
<1>4. \A k \in Card, p \in Playback :
        p \in Elements(t.panel[k]) <=> p \in Elements(s.panel[k]) /\ ~(k = c /\ p \in gone)
  BY <1>2, <1>3 DEF State
<1>5. Agree(t)
  BY <1>1, <1>2, <1>3, <1>4, Zenon DEF Agree
<1>6. \A k \in Card : Distinct(t.panel[k]) /\ Len(t.panel[k]) <= PlaybackMax
  BY <1>2, <1>3 DEF Good, State
<1>7. \A p \in Probed : ~t.muted[p] => Audible(t, p)
  BY <1>1, <1>2, <1>4, RoutingAssumption DEF Good, Audible
<1>8. Good(t)
  BY <1>1, <1>2, <1>5, <1>6, <1>7 DEF Good
<1>9. \A k \in Card, p \in Playback :
        Played(t, k, p) <=> Played(s, k, p) /\ ~(k = c /\ p \in gone)
  BY <1>1, <1>2, <1>4 DEF Played
<1>. QED
  BY <1>8, <1>9 DEF t, u, PlaysLess

\* The clear takes all routes of the panel.
LEMMA ClearedGood ==
    ASSUME NEW s, Good(s), NEW c \in Card, NEW deaf
    PROVE  /\ Good(Cleared(s, c, deaf))
           /\ \A k \in Card, p \in Playback :
                 Played(Cleared(s, c, deaf), k, p) <=> Played(s, k, p) /\ k # c
<1> DEFINE gone == {p \in Playback : Listed(s, c, p)}
<1>1. s \in State /\ Agree(s)
  BY DEF Good
<1>2. s.panel[c] \in Seq(Playback) /\ Elements(s.panel[c]) \subseteq Playback
  BY <1>1 DEF State, Elements
<1>3. gone = Elements(s.panel[c])
  BY <1>2, ListedIsElement
<1>4. /\ <<>> \in Seq(Playback) /\ Distinct(<<>>) /\ Len(<<>>) <= PlaybackMax
      /\ Elements(<<>>) = Elements(s.panel[c]) \ gone
  BY <1>3, RoutingAssumption DEF Distinct, Elements
<1>5. Cleared(s, c, deaf) = Dropped(s, c, gone, deaf, <<>>)
  BY DEF Cleared, Dropped
<1> HIDE DEF gone
<1>6. gone \in SUBSET Elements(s.panel[c])
  BY <1>3
<1>7. PlaysLess(s, Cleared(s, c, deaf), c, gone)
  BY <1>4, <1>5, <1>6, DroppedGood
<1>8. \A p \in Playback : Played(s, c, p) => p \in gone
  BY <1>1, <1>3 DEF Played, Agree
<1>. QED
  BY <1>7, <1>8 DEF PlaysLess

\* The removal takes the one route it names.
LEMMA RemovedGood ==
    ASSUME NEW s, Good(s), NEW c \in Card, NEW p \in Playback, NEW deaf, Listed(s, c, p)
    PROVE  /\ Good(Removed(s, c, p, deaf))
           /\ \A k \in Card, q \in Playback :
                 Played(Removed(s, c, p, deaf), k, q)
                     <=> Played(s, k, q) /\ ~(k = c /\ q = p)
<1> DEFINE list == Shifted(s.panel[c], FirstIndex(s.panel[c], p))
<1>1. /\ s \in State /\ s.panel \in [Card -> Seq(Playback)] /\ s.panel[c] \in Seq(Playback)
      /\ Distinct(s.panel[c]) /\ Len(s.panel[c]) <= PlaybackMax
  BY DEF Good, State
<1>2. p \in Elements(s.panel[c])
  BY ListedIsElement
<1>3. /\ list \in Seq(Playback) /\ Len(list) = Len(s.panel[c]) - 1
      /\ Elements(list) = Elements(s.panel[c]) \ {p} /\ Distinct(list)
  BY <1>1, <1>2, ShiftedList
<1>4. (Undone(s, c, {p}, deaf)).panel = s.panel
  BY <1>2, UndoneFacts
<1>5. Removed(s, c, p, deaf) = Dropped(s, c, {p}, deaf, list)
  BY <1>4 DEF Removed, Dropped
<1> HIDE DEF list
<1>6. Len(list) <= PlaybackMax
  BY <1>1, <1>3, RoutingAssumption
<1>7. {p} \in SUBSET Elements(s.panel[c])
  BY <1>2
<1>8. PlaysLess(s, Removed(s, c, p, deaf), c, {p})
  BY <1>3, <1>5, <1>6, <1>7, DroppedGood
<1>. QED
  BY <1>8 DEF PlaysLess

\* There is a slot for a playback that is not listed yet: the unguarded write is in bounds.
LEMMA AppendFits ==
    ASSUME NEW s, Good(s), NEW c \in Card, NEW p \in Playback, ~Listed(s, c, p)
    PROVE  LET list == Append(s.panel[c], p)
           IN  /\ list \in Seq(Playback) /\ Distinct(list) /\ Len(list) <= PlaybackMax
               /\ Elements(list) = Elements(s.panel[c]) \cup {p}
<1> DEFINE list == Append(s.panel[c], p)
<1>1. s.panel[c] \in Seq(Playback) /\ Distinct(s.panel[c]) /\ p \notin Elements(s.panel[c])
  BY ListedIsElement DEF Good, State
<1>2. /\ list \in Seq(Playback) /\ Len(list) = Len(s.panel[c]) + 1
      /\ Elements(list) = Elements(s.panel[c]) \cup {p} /\ Distinct(list)
  BY <1>1, AppendedList
<1> HIDE DEF list
<1>3. Len(list) <= Cardinality(Playback)
  BY <1>2, DistinctIsShort, RoutingAssumption
<1>4. Len(list) \in Nat /\ Cardinality(Playback) \in Nat
  BY <1>2, FS_CardinalityType, RoutingAssumption
<1>5. Len(list) <= PlaybackMax
  BY <1>3, <1>4, RoutingAssumption
<1>. QED
  BY <1>2, <1>5 DEF list

\* An append is refused or adds the one route it names.
LEMMA AppendedGood ==
    ASSUME NEW s, Good(s), NEW c \in Card, NEW p \in Playback, NEW t \in Appended(s, c, p)
    PROVE  \/ t = s
           \/ /\ Good(t)
              /\ \A k \in Card, q \in Playback :
                    Played(t, k, q) <=> Played(s, k, q) \/ (k = c /\ q = p)
<1> DEFINE list == Append(s.panel[c], p)
           panel == [s.panel EXCEPT ![c] = list]
           listed == [s EXCEPT !.panel[c] = Append(@, p)]
<1> SUFFICES ASSUME t # s
             PROVE  /\ Good(t)
                    /\ \A k \in Card, q \in Playback :
                          Played(t, k, q) <=> Played(s, k, q) \/ (k = c /\ q = p)
  OBVIOUS
<1>1. ~Listed(s, c, p)
  BY DEF Appended
<1>2. /\ list \in Seq(Playback) /\ Distinct(list) /\ Len(list) <= PlaybackMax
      /\ Elements(list) = Elements(s.panel[c]) \cup {p}
  BY <1>1, AppendFits
<1>3. s \in State /\ Agree(s)
  BY DEF Good
<1>4. /\ listed \in State /\ listed.panel = panel
      /\ listed.cards = s.cards /\ listed.muted = s.muted /\ listed.mixer = s.mixer
      /\ listed.recording = s.recording
  BY <1>2, <1>3 DEF State
<1>5. /\ \A k \in Card : Distinct(panel[k]) /\ Len(panel[k]) <= PlaybackMax
      /\ \A k \in Card, q \in Playback :
            q \in Elements(panel[k]) <=> q \in Elements(s.panel[k]) \/ (k = c /\ q = p)
  BY <1>2, <1>3 DEF Good, State
<1>6. /\ Master[p] = c => t \in AppendedOnMaster(s, listed, p)
      /\ Master[p] # c => t \in AppendedByPcm(s, listed, c, p)
  BY <1>1 DEF Appended
<1> HIDE DEF list, panel, listed
<1>7. CASE Master[p] = c
  <2> DEFINE fed == [listed EXCEPT !.recording = @ \cup Feeds(p)]
  <2>1. t \in {fed, Raised(fed, p)}
    BY <1>6, <1>7 DEF AppendedOnMaster
  <2>2. Feeds(p) \subseteq Capture
    BY DEF Feeds
  <2>3. /\ fed \in State /\ fed.panel = panel /\ fed.cards = s.cards
        /\ fed.muted = s.muted /\ fed.mixer = s.mixer
    BY <1>4, <2>2 DEF State
  <2> HIDE DEF fed
  <2>4. /\ t \in State /\ t.panel = panel /\ t.cards = s.cards
        /\ \A q \in Playback : \/ t.muted[q] = s.muted[q] /\ t.mixer[q] = s.mixer[q]
                               \/ q = p /\ t.mixer[q] = "100%"
    <3>1. CASE t = fed
      BY <2>3, <3>1
    <3>2. CASE t = Raised(fed, p)
      <4>1. /\ t \in State /\ t.panel = fed.panel /\ t.cards = fed.cards
            /\ t.muted = [fed.muted EXCEPT ![p] = FALSE]
            /\ t.mixer = [fed.mixer EXCEPT ![p] = "100%"]
        BY <2>3, <3>2 DEF Raised, State, Volume
      <4>2. fed.mixer \in [Playback -> Volume] /\ fed.muted \in [Playback -> BOOLEAN]
        BY <2>3 DEF State
      <4>. QED
        BY <2>3, <4>1, <4>2
    <3>. QED
      BY <2>1, <3>1, <3>2
  <2>5. Agree(t)
    BY <1>3, <1>5, <1>7, <2>4 DEF Agree
  <2>6. \A q \in Probed : ~t.muted[q] => Audible(t, q)
    BY <1>5, <1>7, <2>4, RoutingAssumption DEF Good, Audible
  <2>7. Good(t)
    BY <1>5, <2>4, <2>5, <2>6 DEF Good
  <2>8. \A k \in Card, q \in Playback :
          Played(t, k, q) <=> Played(s, k, q) \/ (k = c /\ q = p)
    BY <1>5, <1>7, <2>4 DEF Played
  <2>. QED
    BY <2>7, <2>8
<1>8. CASE Master[p] # c
  <2> DEFINE row == Append(s.cards[p], c)
             cards == [s.cards EXCEPT ![p] = row]
  <2>1. t = [listed EXCEPT !.cards[p] = row] /\ CanOpen(s, c, p)
    BY <1>4, <1>6, <1>8 DEF AppendedByPcm
  <2>2. /\ s.cards[p] \in Seq(Card) /\ Distinct(s.cards[p])
        /\ Len(s.cards[p]) < CardMax /\ c \notin Elements(s.cards[p])
    BY <1>3, <2>1 DEF Good, State, CanOpen
  <2>3. /\ row \in Seq(Card) /\ Distinct(row) /\ Len(row) = Len(s.cards[p]) + 1
        /\ Elements(row) = Elements(s.cards[p]) \cup {c}
    BY <2>2, AppendedList
  <2> HIDE DEF row
  <2>4. Len(row) <= CardMax
    BY <2>2, <2>3, RoutingAssumption
  <2>5. /\ t \in State /\ t.panel = panel /\ t.cards = cards
        /\ t.muted = s.muted /\ t.mixer = s.mixer
    BY <1>4, <2>1, <2>3 DEF State
  <2>6. /\ \A q \in Playback : Distinct(cards[q]) /\ Len(cards[q]) <= CardMax
        /\ \A k \in Card, q \in Playback :
              k \in Elements(cards[q]) <=> k \in Elements(s.cards[q]) \/ (k = c /\ q = p)
    BY <1>3, <2>3, <2>4 DEF Good, State
  <2> HIDE DEF cards
  <2>7. Agree(t)
    BY <1>3, <1>5, <1>8, <2>5, <2>6 DEF Agree
  <2>8. \A q \in Probed : ~t.muted[q] => Audible(t, q)
    BY <1>5, <2>5, RoutingAssumption DEF Good, Audible
  <2>9. Good(t)
    BY <1>5, <2>5, <2>6, <2>7, <2>8 DEF Good
  <2>10. \A k \in Card, q \in Playback :
          Played(t, k, q) <=> Played(s, k, q) \/ (k = c /\ q = p)
    BY <1>5, <1>8, <2>5, <2>6 DEF Played
  <2>. QED
    BY <2>9, <2>10
<1>. QED
  BY <1>7, <1>8

-----------------------------------------------------------------------------
(* The invariants. *)

Invariant == Good(la)

\* The routes agree at first, when nothing is listed.
LEMMA InitGood == Init => Invariant
<1> SUFFICES ASSUME Init PROVE Good(la)
  BY DEF Invariant
<1>1. /\ la.panel = [c \in Card |-> <<>>] /\ la.cards = [p \in Playback |-> <<>>]
      /\ la.muted = [p \in Playback |-> p \in Probed]
      /\ la.mixer \in [Playback -> Volume] /\ la.recording = {}
      /\ la = [panel |-> la.panel, cards |-> la.cards, muted |-> la.muted,
               mixer |-> la.mixer, recording |-> la.recording]
  BY DEF Init
<1>2. la.muted \in [Playback -> BOOLEAN]
  <2>1. [p \in Playback |-> p \in Probed] \in [Playback -> BOOLEAN]
    <3>1. ASSUME NEW p \in Playback PROVE (p \in Probed) \in BOOLEAN
      BY SMT
    <3>. QED
      BY <3>1, Zenon
  <2>. QED
    BY <1>1, <2>1
<1>3. la \in State
  <2>1. /\ la.panel \in [Card -> Seq(Playback)] /\ la.cards \in [Playback -> Seq(Card)]
        /\ la.recording \subseteq Capture
    BY <1>1
  <2>. QED
    BY <1>1, <1>2, <2>1 DEF State
<1>4. Elements(<<>>) = {} /\ Distinct(<<>>) /\ Len(<<>>) = 0
  BY DEF Elements, Distinct
<1>5. Agree(la)
  BY <1>1, <1>4 DEF Agree
<1>6. \A p \in Probed : la.muted[p]
  BY <1>1, RoutingAssumption
<1>. QED
  <2>1. \A c \in Card : Distinct(la.panel[c]) /\ Len(la.panel[c]) <= PlaybackMax
    BY <1>1, <1>4, RoutingAssumption
  <2>2. \A p \in Playback : Distinct(la.cards[p]) /\ Len(la.cards[p]) <= CardMax
    BY <1>1, <1>4, RoutingAssumption
  <2>. QED
    BY <1>3, <1>5, <1>6, <2>1, <2>2 DEF Good

\* Every request keeps the invariant, and changes what is played on one panel only: it takes
\* out nothing, the route it names or all of them, and puts in nothing or the one it names.
Changes(s, t, c, gone, new) ==
    \A k \in Card, q \in Playback :
        Played(t, k, q) <=>
            (Played(s, k, q) /\ ~(k = c /\ q \in gone)) \/ (k = c /\ q \in new)

\* An append puts a playback on a card, or changes nothing.
LEMMA AppendStep ==
    ASSUME NEW s, Good(s), NEW c \in Card, NEW p \in Playback, NEW t \in Appended(s, c, p)
    PROVE  Good(t) /\ (t = s \/ Changes(s, t, c, {}, {p}))
<1>1. \/ t = s
      \/ /\ Good(t)
         /\ \A k \in Card, q \in Playback :
               Played(t, k, q) <=> Played(s, k, q) \/ (k = c /\ q = p)
  BY AppendedGood
<1>. QED
  BY <1>1 DEF Changes

\* A clear takes all playbacks off a card.
LEMMA ClearStep ==
    ASSUME NEW s, Good(s), NEW c \in Card, NEW deaf
    PROVE  Good(Cleared(s, c, deaf)) /\ Changes(s, Cleared(s, c, deaf), c, Playback, {})
BY ClearedGood DEF Changes

\* A removal takes one playback off a card.
LEMMA RemoveStep ==
    ASSUME NEW s, Good(s), NEW c \in Card, NEW p \in Playback, NEW deaf, Listed(s, c, p)
    PROVE  Good(Removed(s, c, p, deaf)) /\ Changes(s, Removed(s, c, p, deaf), c, {p}, {})
BY RemovedGood DEF Changes

\* A recording changes no route.
LEMMA RecordStep ==
    ASSUME NEW s, Good(s), NEW rec \in SUBSET Capture
    PROVE  LET t == [s EXCEPT !.recording = rec]
           IN  Good(t) /\ \A k \in Card, q \in Playback : Played(t, k, q) <=> Played(s, k, q)
<1> DEFINE t == [s EXCEPT !.recording = rec]
<1>1. /\ t \in State /\ t.panel = s.panel /\ t.cards = s.cards
      /\ t.muted = s.muted /\ t.mixer = s.mixer
  BY DEF Good, State
<1> HIDE DEF t
<1>2. Agree(t)
  BY <1>1 DEF Good, Agree
<1>3. \A p \in Probed : ~t.muted[p] => Audible(t, p)
  BY <1>1 DEF Good, Audible
<1>4. Good(t)
  BY <1>1, <1>2, <1>3 DEF Good
<1>. QED
  BY <1>1, <1>4 DEF Played, t

\* What a step does: the one lemma the theorems below rest on.
LEMMA StepGood ==
    ASSUME Invariant, [Next]_la
    PROVE  /\ Invariant'
           /\ \/ \A k \in Card, q \in Playback : Played(la', k, q) <=> Played(la, k, q)
              \/ \E c \in Card, p \in Playback :
                    \/ Changes(la, la', c, {}, {p})
                    \/ Changes(la, la', c, {p}, {})
                    \/ Changes(la, la', c, Playback, {p})
              \/ \E c \in Card : Changes(la, la', c, Playback, {})
<1>1. Good(la)
  BY DEF Invariant
<1>2. ASSUME NEW c \in Card, NEW p \in Playback, AppendPcm(c, p)
      PROVE  Good(la') /\ (la' = la \/ Changes(la, la', c, {}, {p}))
  BY <1>1, <1>2, AppendStep DEF AppendPcm
<1>3. ASSUME NEW c \in Card, ClearPcm(c)
      PROVE  Good(la') /\ Changes(la, la', c, Playback, {})
  BY <1>1, <1>3, ClearStep DEF ClearPcm
<1>4. ASSUME NEW c \in Card, NEW p \in Playback, SetPcm(c, p)
      PROVE  /\ Good(la')
             /\ Changes(la, la', c, Playback, {}) \/ Changes(la, la', c, Playback, {p})
  <2>1. PICK deaf : la' \in Appended(Cleared(la, c, deaf), c, p)
    BY <1>4 DEF SetPcm
  <2> DEFINE mid == Cleared(la, c, deaf)
  <2>2. Good(mid) /\ Changes(la, mid, c, Playback, {})
    BY <1>1, ClearStep
  <2> HIDE DEF mid
  <2>3. Good(la') /\ (la' = mid \/ Changes(mid, la', c, {}, {p}))
    BY <2>1, <2>2, AppendStep DEF mid
  <2>4. CASE la' = mid
    BY <2>2, <2>4
  <2>5. CASE Changes(mid, la', c, {}, {p})
    BY <2>2, <2>3, <2>5 DEF Changes
  <2>. QED
    BY <2>3, <2>4, <2>5
<1>5. ASSUME NEW c \in Card, NEW p \in Playback, RemovePcm(c, p)
      PROVE  Good(la') /\ Changes(la, la', c, {p}, {})
  BY <1>1, <1>5, RemoveStep DEF RemovePcm
<1>6. ASSUME NEW r \in Capture, StartRecord(r) \/ StopRecord(r)
      PROVE  Good(la') /\ \A k \in Card, q \in Playback : Played(la', k, q) <=> Played(la, k, q)
  <2>1. PICK rec \in SUBSET Capture : la' = [la EXCEPT !.recording = rec]
    <3>1. la.recording \subseteq Capture
      BY <1>1 DEF Good, State
    <3>. QED
      BY <1>6, <3>1 DEF StartRecord, StopRecord
  <2>. QED
    BY <1>1, <2>1, RecordStep
<1>7. CASE UNCHANGED la
  BY <1>1, <1>7 DEF Invariant
<1>. QED
  BY <1>2, <1>3, <1>4, <1>5, <1>6, <1>7 DEF Next, Invariant

\* Every reachable state satisfies the invariant.
THEOREM Inductive == Spec => []Invariant
BY InitGood, StepGood, PTL DEF Spec

\* The lists hold configured panels and playbacks only.
THEOREM TypeCorrect == Spec => []TypeOK
<1>1. Invariant => TypeOK
  BY DEF Invariant, Good, TypeOK
<1>. QED
  BY <1>1, Inductive, PTL

\* Off the master panel a card lists a playback exactly when the playback holds its PCM.
THEOREM ListsAlwaysAgree == Spec => []ListsAgree
<1>1. Invariant => ListsAgree
  BY DEF Invariant, Good, ListsAgree
<1>. QED
  BY <1>1, Inductive, PTL

\* No list ever holds an entry twice.
THEOREM NeverDuplicates == Spec => []NoDuplicates
<1>1. Invariant => NoDuplicates
  BY DEF Invariant, Good, NoDuplicates
<1>. QED
  BY <1>1, Inductive, PTL

\* With at most LA_CARD_PLAYBACK_MAX playbacks configured, the unguarded append to
\* card->playback_list never writes behind it.
THEOREM NeverOverflows == Spec => []NoOverflow
<1>1. Invariant => NoOverflow
  BY DEF Invariant, Good, NoOverflow
<1>. QED
  BY <1>1, Inductive, PTL

\* The mute flag of a playback the probe silenced is down only while it is routed and up.
THEOREM UnmutedAlwaysRouted == Spec => []UnmutedIsRouted
<1>1. Invariant => UnmutedIsRouted
  BY DEF Invariant, Good, UnmutedIsRouted
<1>. QED
  BY <1>1, Inductive, PTL

-----------------------------------------------------------------------------
(* Refinement. *)

\* A change of one panel is a step of the route table.
LEMMA ChangeOfRoutes ==
    ASSUME NEW c \in Card, NEW gone \in SUBSET Playback, NEW new \in SUBSET Playback,
           Changes(la, la', c, gone, new)
    PROVE  PlayedRoutes' = (PlayedRoutes \ ({c} \X gone)) \cup ({c} \X new)
<1>1. \A r \in Card \X Playback :
        /\ r = <<r[1], r[2]>> /\ r[1] \in Card /\ r[2] \in Playback
        /\ r \in PlayedRoutes <=> Played(la, r[1], r[2])
        /\ r \in PlayedRoutes' <=> Played(la', r[1], r[2])
        /\ r \in {c} \X gone <=> r[1] = c /\ r[2] \in gone
        /\ r \in {c} \X new <=> r[1] = c /\ r[2] \in new
  BY DEF PlayedRoutes
<1>2. /\ PlayedRoutes \subseteq Card \X Playback
      /\ PlayedRoutes' \subseteq Card \X Playback
      /\ {c} \X new \subseteq Card \X Playback
  BY DEF PlayedRoutes
<1>3. \A r \in Card \X Playback :
        r \in PlayedRoutes'
            <=> (r \in PlayedRoutes /\ r \notin {c} \X gone) \/ r \in {c} \X new
  BY <1>1 DEF Changes
<1>. QED
  BY <1>2, <1>3

\* Whatever clients request, what is played changes as the route table says.
THEOREM Refinement == Spec => RouteSpec
<1>1. Init => Table!RouteInit
  <2> SUFFICES ASSUME Init PROVE PlayedRoutes = {}
    BY DEF Table!RouteInit
  <2>1. /\ \A c \in Card : la.panel[c] = <<>>
        /\ \A p \in Playback : la.cards[p] = <<>>
    BY DEF Init
  <2>2. Elements(<<>>) = {}
    BY DEF Elements
  <2>. QED
    BY <2>1, <2>2 DEF PlayedRoutes, Played
<1>2. ASSUME Invariant, [Next]_la
      PROVE  [Table!RouteNext]_PlayedRoutes
  <2>1. CASE \A k \in Card, q \in Playback : Played(la', k, q) <=> Played(la, k, q)
    BY <2>1 DEF PlayedRoutes
  <2>2. ASSUME NEW c \in Card PROVE {c} \X {} = {}
    OBVIOUS
  <2>3. ASSUME NEW c \in Card, NEW p \in Playback PROVE {c} \X {p} = {<<c, p>>}
    OBVIOUS
  <2>4. ASSUME NEW c \in Card PROVE PlayedRoutes \ ({c} \X Playback) = PlayedRoutes \ Table!Of(c)
    <3>1. \A r \in PlayedRoutes : r \in {c} \X Playback <=> r[1] = c
      BY DEF PlayedRoutes
    <3>. QED
      BY <3>1 DEF Table!Of
  <2>5. ASSUME NEW c \in Card, NEW p \in Playback, Changes(la, la', c, {}, {p})
        PROVE  Table!Add(c, p)
    BY <2>2, <2>3, <2>5, ChangeOfRoutes DEF Table!Add
  <2>6. ASSUME NEW c \in Card, NEW p \in Playback, Changes(la, la', c, {p}, {})
        PROVE  Table!Drop(c, p)
    BY <2>2, <2>3, <2>6, ChangeOfRoutes DEF Table!Drop
  <2>7. ASSUME NEW c \in Card, NEW p \in Playback, Changes(la, la', c, Playback, {p})
        PROVE  Table!Replace(c, p)
    BY <2>3, <2>4, <2>7, ChangeOfRoutes DEF Table!Replace
  <2>8. ASSUME NEW c \in Card, Changes(la, la', c, Playback, {})
        PROVE  Table!Clear(c)
    BY <2>2, <2>4, <2>8, ChangeOfRoutes DEF Table!Clear
  <2>. QED
    BY <1>2, <2>1, <2>5, <2>6, <2>7, <2>8, StepGood DEF Table!RouteNext
<1>. QED
  BY <1>1, <1>2, Inductive, PTL DEF Spec, RouteSpec, Table!RouteSpec

-----------------------------------------------------------------------------
(* Captures follow the master routes. *)

\* Two playbacks are never fed by the same capture.
LEMMA FeedsDisjoint ==
    ASSUME NEW p \in Playback, NEW q \in Playback, p # q
    PROVE  Feeds(p) \cap Feeds(q) = {}
<1>1. ASSUME NEW x \in Playback PROVE \A r \in Feeds(x) : Pipe[r] = x
  BY DEF Feeds
<1>. QED
  BY <1>1

\* What the undoing of gone leaves recording.
LEMMA UndoneStops ==
    ASSUME NEW s, Good(s), NEW c \in Card, NEW deaf, NEW gone, NEW list
    PROVE  LET t == Dropped(s, c, gone, deaf, list)
           IN  /\ t.panel = [s.panel EXCEPT ![c] = list]
               /\ \A p \in gone : Master[p] = c /\ p \in Playback => Feeds(p) \cap t.recording = {}
<1> DEFINE onMaster == gone \cap MasteredBy(c)
           cards == [p \in Playback |->
                       IF p \in gone \ onMaster THEN Closed(s.cards[p], c) ELSE s.cards[p]]
           muted == [p \in Playback |-> p \in onMaster \/ s.muted[p]]
           mixer == [p \in Playback |-> IF p \in onMaster \ deaf THEN "0%" ELSE s.mixer[p]]
           recording == s.recording \ UNION {Feeds(p) : p \in onMaster}
           u == Undone(s, c, gone, deaf)
           t == Dropped(s, c, gone, deaf, list)
<1>1. s \in State
  BY DEF Good
<1>2. u = [s EXCEPT !.cards = cards, !.muted = muted, !.mixer = mixer,
                    !.recording = recording]
  BY DEF Undone
<1>3. t = [u EXCEPT !.panel[c] = list]
  BY DEF Dropped
<1>4. \A p \in onMaster : Feeds(p) \cap recording = {}
  OBVIOUS
<1>5. \A p \in gone : Master[p] = c /\ p \in Playback => p \in onMaster
  BY DEF MasteredBy
<1> HIDE DEF u, t, cards, muted, mixer, recording, onMaster
<1>6. t.panel = [s.panel EXCEPT ![c] = list] /\ t.recording = recording
  BY <1>1, <1>2, <1>3 DEF State
<1>. QED
  BY <1>4, <1>5, <1>6 DEF t

\* A clear takes every playback off its master panel c, and stops what fed it.
LEMMA ClearedFeeds ==
    ASSUME NEW s, Good(s), NEW c \in Card, NEW deaf
    PROVE  LET t == Cleared(s, c, deaf)
           IN  \A p \in Playback :
                 /\ OnMaster(t, p) <=> OnMaster(s, p) /\ Master[p] # c
                 /\ OnMaster(s, p) /\ ~OnMaster(t, p) => Feeds(p) \cap t.recording = {}
<1> DEFINE gone == {p \in Playback : Listed(s, c, p)}
           t == Cleared(s, c, deaf)
<1>1. t = Dropped(s, c, gone, deaf, <<>>)
  BY DEF Cleared, Dropped
<1>2. \A p \in Playback : p \in gone <=> p \in Elements(s.panel[c])
  BY ListedIsElement
<1> HIDE DEF gone, t
<1>3. /\ t.panel = [s.panel EXCEPT ![c] = <<>>]
      /\ \A p \in gone : Master[p] = c /\ p \in Playback => Feeds(p) \cap t.recording = {}
  BY <1>1, UndoneStops
<1>4. s.panel \in [Card -> Seq(Playback)] /\ Elements(<<>>) = {}
  BY DEF Good, State, Elements
<1>5. \A p \in Playback : OnMaster(t, p) <=> OnMaster(s, p) /\ Master[p] # c
  BY <1>3, <1>4 DEF OnMaster
<1>. QED
  BY <1>2, <1>3, <1>5 DEF OnMaster, t

\* The same for the removal of one playback.
LEMMA RemovedFeeds ==
    ASSUME NEW s, Good(s), NEW c \in Card, NEW p \in Playback, NEW deaf, Listed(s, c, p)
    PROVE  FedAsRouted(s, Removed(s, c, p, deaf))
<1> DEFINE list == Shifted(s.panel[c], FirstIndex(s.panel[c], p))
           t == Removed(s, c, p, deaf)
<1>1. /\ s.panel \in [Card -> Seq(Playback)] /\ Distinct(s.panel[c])
      /\ p \in Elements(s.panel[c])
  BY ListedIsElement DEF Good, State
<1>2. Elements(list) = Elements(s.panel[c]) \ {p}
  BY <1>1, ShiftedList
<1>3. (Undone(s, c, {p}, deaf)).panel = s.panel
  BY <1>1, UndoneFacts
<1>4. t = Dropped(s, c, {p}, deaf, list)
  BY <1>3 DEF Removed, Dropped
<1> HIDE DEF list, t
<1>5. /\ t.panel = [s.panel EXCEPT ![c] = list]
      /\ \A q \in {p} : Master[q] = c /\ q \in Playback => Feeds(q) \cap t.recording = {}
  BY <1>4, UndoneStops
<1>6. \A q \in Playback :
        OnMaster(t, q) <=> OnMaster(s, q) /\ ~(Master[q] = c /\ q = p)
  BY <1>1, <1>2, <1>5 DEF OnMaster
<1>. QED
  BY <1>5, <1>6 DEF FedAsRouted, t

\* An append puts at most the playback it names on its master panel, and starts what feeds it.
LEMMA AppendedFeeds ==
    ASSUME NEW s, Good(s), NEW c \in Card, NEW p \in Playback, NEW t \in Appended(s, c, p)
    PROVE  \/ t = s
           \/ /\ \A q \in Playback :
                    OnMaster(t, q) <=> OnMaster(s, q) \/ (Master[q] = c /\ q = p)
              /\ t.recording = s.recording \cup (IF Master[p] = c THEN Feeds(p) ELSE {})
<1> DEFINE list == Append(s.panel[c], p)
           panel == [s.panel EXCEPT ![c] = list]
           listed == [s EXCEPT !.panel[c] = Append(@, p)]
<1> SUFFICES ASSUME t # s
             PROVE  /\ \A q \in Playback :
                          OnMaster(t, q) <=> OnMaster(s, q) \/ (Master[q] = c /\ q = p)
                    /\ t.recording = s.recording \cup (IF Master[p] = c THEN Feeds(p) ELSE {})
  OBVIOUS
<1>1. ~Listed(s, c, p)
  BY DEF Appended
<1>2. /\ list \in Seq(Playback) /\ Elements(list) = Elements(s.panel[c]) \cup {p}
  BY <1>1, AppendFits
<1>3. s \in State
  BY DEF Good
<1>4. /\ listed \in State /\ listed.panel = panel /\ listed.recording = s.recording
  BY <1>2, <1>3 DEF State
<1>5. /\ Master[p] = c => t \in AppendedOnMaster(s, listed, p)
      /\ Master[p] # c => t \in AppendedByPcm(s, listed, c, p)
  BY <1>1 DEF Appended
<1>6. \A k \in Card, q \in Playback :
        q \in Elements(panel[k]) <=> q \in Elements(s.panel[k]) \/ (k = c /\ q = p)
  BY <1>2, <1>3 DEF State
<1> HIDE DEF list, panel, listed
<1>7. t.panel = panel
      /\ t.recording = s.recording \cup (IF Master[p] = c THEN Feeds(p) ELSE {})
  <2>1. CASE Master[p] = c
    <3> DEFINE fed == [listed EXCEPT !.recording = @ \cup Feeds(p)]
    <3>1. t \in {fed, Raised(fed, p)}
      BY <1>5, <2>1 DEF AppendedOnMaster
    <3>2. Feeds(p) \subseteq Capture
      BY DEF Feeds
    <3>3. fed \in State /\ fed.panel = panel /\ fed.recording = s.recording \cup Feeds(p)
      BY <1>4, <3>2 DEF State
    <3> HIDE DEF fed
    <3>4. t.panel = fed.panel /\ t.recording = fed.recording
      BY <3>1, <3>3 DEF Raised, State
    <3>. QED
      BY <2>1, <3>3, <3>4
  <2>2. CASE Master[p] # c
    <3>1. t = [listed EXCEPT !.cards[p] = Append(@, c)]
      BY <1>5, <2>2 DEF AppendedByPcm
    <3>2. t.panel = listed.panel /\ t.recording = listed.recording
      BY <1>4, <3>1 DEF State
    <3>. QED
      BY <1>4, <2>2, <3>2
  <2>. QED
    BY <2>1, <2>2
<1>8. \A q \in Playback :
        OnMaster(t, q) <=> OnMaster(s, q) \/ (Master[q] = c /\ q = p)
  BY <1>6, <1>7 DEF OnMaster
<1>. QED
  BY <1>7, <1>8

\* The capture that feeds a playback starts with its master route and stops with it.
THEOREM FeedsFollowRoutes == Spec => FeedFollowsRoute
<1>1. ASSUME Invariant, [Next]_la
      PROVE  FedAsRouted(la, la')
  <2>0. Good(la)
    BY <1>1 DEF Invariant
  <2>1. ASSUME NEW c \in Card, NEW p \in Playback, AppendPcm(c, p)
        PROVE  FedAsRouted(la, la')
    BY <2>0, <2>1, AppendedFeeds DEF AppendPcm, FedAsRouted
  <2>2. ASSUME NEW c \in Card, ClearPcm(c)
        PROVE  FedAsRouted(la, la')
    BY <2>0, <2>2, ClearedFeeds DEF ClearPcm, FedAsRouted
  <2>3. ASSUME NEW c \in Card, NEW p \in Playback, SetPcm(c, p)
        PROVE  FedAsRouted(la, la')
    <3>1. PICK deaf : la' \in Appended(Cleared(la, c, deaf), c, p)
      BY <2>3 DEF SetPcm
    <3> DEFINE mid == Cleared(la, c, deaf)
    <3>2. /\ Good(mid)
          /\ \A q \in Playback :
               /\ OnMaster(mid, q) <=> OnMaster(la, q) /\ Master[q] # c
               /\ OnMaster(la, q) /\ ~OnMaster(mid, q) => Feeds(q) \cap mid.recording = {}
      BY <2>0, ClearedFeeds, ClearedGood
    <3> HIDE DEF mid
    <3>3. CASE la' = mid
      BY <3>2, <3>3 DEF FedAsRouted
    <3>4. CASE /\ \A q \in Playback :
                    OnMaster(la', q) <=> OnMaster(mid, q) \/ (Master[q] = c /\ q = p)
               /\ la'.recording = mid.recording \cup (IF Master[p] = c THEN Feeds(p) ELSE {})
      BY <3>2, <3>4, FeedsDisjoint DEF FedAsRouted
    <3>. QED
      BY <3>1, <3>2, <3>3, <3>4, AppendedFeeds DEF mid
  <2>4. ASSUME NEW c \in Card, NEW p \in Playback, RemovePcm(c, p)
        PROVE  FedAsRouted(la, la')
    BY <2>0, <2>4, RemovedFeeds DEF RemovePcm
  <2>5. ASSUME NEW r \in Capture, StartRecord(r) \/ StopRecord(r)
        PROVE  FedAsRouted(la, la')
    <3>1. la'.panel = la.panel
      BY <2>0, <2>5 DEF StartRecord, StopRecord, Good, State
    <3>. QED
      BY <3>1 DEF FedAsRouted, OnMaster
  <2>6. CASE UNCHANGED la
    BY <2>6 DEF FedAsRouted
  <2>. QED
    BY <1>1, <2>1, <2>2, <2>3, <2>4, <2>5, <2>6 DEF Next
<1>. QED
  BY <1>1, Inductive, PTL DEF Spec, FeedFollowsRoute

=============================================================================
