--------------------------- MODULE Mirror_proofs ---------------------------
(***************************************************************************)
(* What a client is shown is what the server has, for every board, timing, *)
(* moment of joining and interleaving of announcements, updates and the    *)
(* Welcome.                                                                *)
(***************************************************************************)
EXTENDS Mirror, RealTimeGame_proofs, FiniteSetTheorems

-----------------------------------------------------------------------------
\* The sum of a function over a set is a fold with +, and any element may be
\* picked.
Addition(x, y) == x + y
Some(s) == CHOOSE x \in s : TRUE
Total == INSTANCE FoldTheorems WITH Op <- Addition, Pick <- Some

\* What holds of sums there holds of the sums here.
LEMMA SumsAreFolds ==
  /\ Total!Sums
  /\ \A f, S : SumFunctionOnSet(f, S) = Total!Sum(f, S)
  /\ \A S : IsFiniteSet(S) => Total!IsFiniteSet(S)
<1>1. Total!Sums
  <2>1. \A S : Total!Picks(S)
    BY DEF Total!Picks, Some
  <2>2. QED BY <2>1 DEF Total!Sums, Addition
<1>2. ASSUME NEW f, NEW S PROVE SumFunctionOnSet(f, S) = Total!Sum(f, S)
  BY DEF SumFunctionOnSet, FoldFunctionOnSet, Total!Sum, Total!Fold, Total!MapThenFoldSet,
         Addition, Some, MapThenFoldSet
<1>3. ASSUME NEW S, IsFiniteSet(S) PROVE Total!IsFiniteSet(S)
  BY <1>3 DEF Total!IsFiniteSet, IsFiniteSet
<1>4. QED BY <1>1, <1>2, <1>3

-----------------------------------------------------------------------------
\* The three folds of the client: over texts, over the events of an update and,
\* for the observers, over a history.

Largest(s) == CHOOSE x \in s : \A y \in s : x >= y
Hearing(text, k) == Heard(k, text)
Replaying(e, k) == AfterEvent(k, e)
Observing(e, o) == Observed(o, e)

Hear == INSTANCE FoldTheorems WITH Op <- Hearing, Pick <- Largest
Replay == INSTANCE FoldTheorems WITH Op <- Replaying, Pick <- Largest
Observe == INSTANCE FoldTheorems WITH Op <- Observing, Pick <- Largest

\* They are folds that go by the index.
LEMMA FoldsByIndex ==
    /\ Hear!PicksMax /\ Replay!PicksMax /\ Observe!PicksMax
    /\ \A k, s : FoldLeft(Heard, k, s) = Hear!FoldSequence(k, s)
    /\ \A k, s : FoldLeft(AfterEvent, k, s) = Replay!FoldSequence(k, s)
    /\ \A o, s : FoldLeft(Observed, o, s) = Observe!FoldSequence(o, s)
<1>1. Hear!PicksMax /\ Replay!PicksMax /\ Observe!PicksMax
  BY DEF Hear!PicksMax, Replay!PicksMax, Observe!PicksMax, Largest
<1>2. ASSUME NEW k, NEW s PROVE FoldLeft(Heard, k, s) = Hear!FoldSequence(k, s)
  BY DEF FoldLeft, MapThenFoldSet, Max, Hear!FoldSequence, Hear!Fold, Hear!MapThenFoldSet,
         Hearing, Largest
<1>3. ASSUME NEW k, NEW s PROVE FoldLeft(AfterEvent, k, s) = Replay!FoldSequence(k, s)
  BY DEF FoldLeft, MapThenFoldSet, Max, Replay!FoldSequence, Replay!Fold,
         Replay!MapThenFoldSet, Replaying, Largest
<1>4. ASSUME NEW o, NEW s PROVE FoldLeft(Observed, o, s) = Observe!FoldSequence(o, s)
  BY DEF FoldLeft, MapThenFoldSet, Max, Observe!FoldSequence, Observe!Fold,
         Observe!MapThenFoldSet, Observing, Largest
<1>5. QED BY <1>1, <1>2, <1>3, <1>4

-----------------------------------------------------------------------------
\* What the state and the texts are made of.

Event == [piece : Piece, source : Cells, destination : Cells, jump : BOOLEAN,
          promoted : BOOLEAN, captured : Piece \cup {None}]

Note == [kind : Kinds, at : Cells, jump : BOOLEAN, promoted : BOOLEAN, takes : BOOLEAN]
Observers == [score : [Colors -> Nat], moves : [Colors -> Seq(Note)]]

\* A client that has taken its Welcome.
Link == [board : Boards, revision : Nat, spectator : BOOLEAN,
         predicted : [Ids -> Motion \cup {None}], observers : Observers]

\* The updates up to revision n, announcements, and Welcomes.
Told(n) == {UpdateText(es, r) : es \in Seq(Event), r \in 1 .. n} \cup {MotionText(m) : m \in Motion}

Greeting(color, b, spectator, h, r) ==
    [type |-> "Welcome",
     payload |-> [assigned_color |-> color, board |-> SnapshotOf(b), spectator |-> spectator,
                  history |-> EventsOnWire(h), revision |-> r]]
Greetings == {Greeting(color, b, s, h, r) :
                  color \in Colors, b \in Boards, s \in BOOLEAN, h \in Seq(Event), r \in Nat}

-----------------------------------------------------------------------------
\* Reading undoes writing.

LEMMA PieceReadBack ==
    ASSUME NEW x \in Piece, NEW c PROVE PieceFrom(PieceOnWire(x, c)) = x
BY DEF Piece, PieceFrom, PieceOnWire

LEMMA BoardReadBack == ASSUME NEW b \in Boards PROVE BoardFrom(SnapshotOf(b)) = b
<1> DEFINE s == SnapshotOf(b)
<1>1. ASSUME NEW c \in Cells PROVE BoardFrom(s)[c] = b[c]
  <2>1. BoardFrom(s)[c] = IF \E w \in s : w.cell = c
                          THEN PieceFrom(CHOOSE w \in s : w.cell = c) ELSE None
    BY DEF BoardFrom
  <2>2. \A w \in s : w.cell = c => b[c] # None /\ w = PieceOnWire(b[c], c)
    BY DEF SnapshotOf, PieceOnWire
  <2>3. b[c] # None => PieceOnWire(b[c], c) \in s /\ PieceOnWire(b[c], c).cell = c
    BY DEF SnapshotOf, PieceOnWire
  <2> HIDE DEF s
  <2>4. CASE b[c] = None
    BY <2>1, <2>2, <2>4
  <2>5. CASE b[c] # None
    <3>1. (CHOOSE w \in s : w.cell = c) = PieceOnWire(b[c], c)
      BY <2>2, <2>3, <2>5
    <3>2. b[c] \in Piece
      BY <2>5 DEF Boards
    <3>3. QED BY <2>1, <2>3, <2>5, <3>1, <3>2, PieceReadBack
  <2>6. QED BY <2>4, <2>5
<1>2. BoardFrom(s) = [c \in Cells |-> BoardFrom(s)[c]]
  BY DEF BoardFrom
<1>3. b = [c \in Cells |-> b[c]]
  BY DEF Boards
<1> HIDE DEF s
<1>4. QED BY <1>1, <1>2, <1>3 DEF s

LEMMA EventReadBack == ASSUME NEW e \in Event PROVE EventFrom(EventOnWire(e)) = e
<1> DEFINE full == [moved_piece |-> PieceOnWire(e.piece, e.destination), source |-> e.source,
                    destination |-> e.destination, jump |-> e.jump,
                    was_promotion |-> e.promoted,
                    captured_piece |-> IF e.captured = None THEN None
                                       ELSE PieceOnWire(e.captured, e.destination)]
           w == EventOnWire(e)
<1>1. PieceFrom(PieceOnWire(e.piece, e.destination)) = e.piece
  BY PieceReadBack DEF Event
<1>2. e.captured # None => PieceFrom(PieceOnWire(e.captured, e.destination)) = e.captured
  <2> SUFFICES ASSUME e.captured # None
               PROVE PieceFrom(PieceOnWire(e.captured, e.destination)) = e.captured
    OBVIOUS
  <2>1. e.captured \in Piece
    BY DEF Event
  <2>2. QED BY <2>1, PieceReadBack
<1>3. CASE e.captured = None
  <2>1. w = Without(full, "captured_piece")
    BY <1>3 DEF EventOnWire
  <2>2. DOMAIN full = {"moved_piece", "source", "destination", "jump", "was_promotion",
                       "captured_piece"}
    OBVIOUS
  <2>3. /\ DOMAIN w = {"moved_piece", "source", "destination", "jump", "was_promotion"}
        /\ w.moved_piece = full.moved_piece /\ w.source = e.source
        /\ w.destination = e.destination /\ w.jump = e.jump /\ w.was_promotion = e.promoted
    <3>1. DOMAIN w = {"moved_piece", "source", "destination", "jump", "was_promotion"}
      <4> HIDE DEF full, w
      <4>1. QED BY <2>1, <2>2 DEF Without
    <3>2. w = [f \in {"moved_piece", "source", "destination", "jump", "was_promotion"} |-> full[f]]
      <4> HIDE DEF full, w
      <4>1. QED BY <2>1, <3>1 DEF Without
    <3>3. QED BY <3>1, <3>2
  <2>4. EventFrom(w) = [piece |-> e.piece, source |-> e.source, destination |-> e.destination,
                        jump |-> e.jump, promoted |-> e.promoted, captured |-> None]
    <3> HIDE DEF w
    <3>1. QED BY <2>3, <1>1 DEF EventFrom
  <2>5. QED BY <2>4, <1>3 DEF Event
<1>4. CASE e.captured # None
  <2>1. w = full
    BY <1>4 DEF EventOnWire
  <2>2. EventFrom(w) = [piece |-> e.piece, source |-> e.source, destination |-> e.destination,
                        jump |-> e.jump, promoted |-> e.promoted, captured |-> e.captured]
    BY <2>1, <1>1, <1>2, <1>4 DEF EventFrom
  <2>3. QED BY <2>2 DEF Event
<1>5. QED BY <1>3, <1>4

LEMMA EventsReadBack ==
    ASSUME NEW es \in Seq(Event) PROVE EventsFrom(EventsOnWire(es)) = es
<1>1. \A i \in DOMAIN es : es[i] \in Event
  OBVIOUS
<1>2. \A i \in DOMAIN es : EventFrom(EventOnWire(es[i])) = es[i]
  BY <1>1, EventReadBack
<1>3. EventsFrom(EventsOnWire(es)) = [i \in DOMAIN es |-> EventFrom(EventOnWire(es[i]))]
  BY DEF EventsFrom, EventsOnWire
<1>4. es = [i \in DOMAIN es |-> es[i]]
  OBVIOUS
<1>5. QED BY <1>2, <1>3, <1>4

LEMMA MotionReadBack == ASSUME NEW m \in Motion PROVE MotionFrom(MotionOnWire(m)) = m
<1>1. m.piece \in Piece
  BY DEF Motion
<1>2. PieceFrom(PieceOnWire(m.piece, m.source)) = m.piece
  BY <1>1, PieceReadBack
<1>3. MotionFrom(MotionOnWire(m))
        = [piece |-> m.piece, source |-> m.source, destination |-> m.destination,
           jump |-> m.jump, duration |-> m.duration, elapsed |-> m.elapsed,
           cooldown |-> m.cooldown]
  BY <1>2 DEF MotionFrom, MotionOnWire
<1>4. QED BY <1>3 DEF Motion

\* What the client makes of each text.
LEMMA TextsReadBack ==
    /\ \A r : \A es \in Seq(Event) : DecodedServer(UpdateText(es, r))
          = [kind |-> "BoardUpdate", events |-> es, revision |-> r]
    /\ \A m \in Motion : DecodedServer(MotionText(m)) = [kind |-> "MotionStarted", motion |-> m]
    /\ \A color \in Colors, b \in Boards, s \in BOOLEAN, h \in Seq(Event), r \in Nat :
          DecodedServer(Greeting(color, b, s, h, r))
             = [kind |-> "Welcome", color |-> color, board |-> b, spectator |-> s,
                history |-> h, revision |-> r]
<1>1. ASSUME NEW es \in Seq(Event), NEW r
      PROVE  DecodedServer(UpdateText(es, r))
                = [kind |-> "BoardUpdate", events |-> es, revision |-> r]
  <2> DEFINE t == UpdateText(es, r)
  <2>1. /\ t.type = "BoardUpdate" /\ t.payload.arrival_events = EventsOnWire(es)
        /\ t.payload.revision = r /\ "revision" \in DOMAIN t.payload
    BY DEF UpdateText
  <2> HIDE DEF t
  <2>2. EventsFrom(t.payload.arrival_events) = es
    BY <2>1, EventsReadBack
  <2>3. DecodedServer(t) = [kind |-> "BoardUpdate", events |-> es, revision |-> r]
    BY <2>1, <2>2 DEF DecodedServer, Given
  <2>4. QED BY <2>3 DEF t
<1>2. ASSUME NEW m \in Motion
      PROVE  DecodedServer(MotionText(m)) = [kind |-> "MotionStarted", motion |-> m]
  <2>1. MotionFrom(MotionOnWire(m)) = m
    BY MotionReadBack
  <2>2. QED BY <2>1 DEF DecodedServer, MotionText
<1>3. ASSUME NEW color \in Colors, NEW b \in Boards, NEW s \in BOOLEAN, NEW h \in Seq(Event),
             NEW r \in Nat
      PROVE  DecodedServer(Greeting(color, b, s, h, r))
                = [kind |-> "Welcome", color |-> color, board |-> b, spectator |-> s,
                   history |-> h, revision |-> r]
  <2> DEFINE t == Greeting(color, b, s, h, r)
  <2>1. /\ t.type = "Welcome" /\ t.payload.assigned_color = color
        /\ t.payload.board = SnapshotOf(b) /\ t.payload.spectator = s
        /\ t.payload.history = EventsOnWire(h) /\ t.payload.revision = r
        /\ {"spectator", "history", "revision"} \subseteq DOMAIN t.payload
    BY DEF Greeting
  <2>2. BoardFrom(SnapshotOf(b)) = b /\ EventsFrom(EventsOnWire(h)) = h
    BY BoardReadBack, EventsReadBack
  <2> HIDE DEF t
  <2>3. DecodedServer(t)
           = [kind |-> "Welcome", color |-> color, board |-> b, spectator |-> s,
              history |-> h, revision |-> r]
    BY <2>1, <2>2 DEF DecodedServer, Given
  <2>4. QED BY <2>3 DEF t
<1>4. QED BY <1>1, <1>2, <1>3

-----------------------------------------------------------------------------
\* What an event, an update and an announcement do to a client.

LEMMA ObservedType ==
    ASSUME NEW o \in Observers, NEW e \in Event PROVE Observed(o, e) \in Observers
<1>1. e.piece \in Piece /\ e.piece.kind \in Kinds /\ ColorOf[e.piece.id] \in Colors
  BY ColorAssumption DEF Event, Piece
<1>2. Notation(e) \in Note
  BY <1>1 DEF Notation, Note, Event
<1>3. Logged(o.moves, e) \in [Colors -> Seq(Note)]
  <2>1. o.moves \in [Colors -> Seq(Note)]
    BY DEF Observers
  <2>2. Append(o.moves[ColorOf[e.piece.id]], Notation(e)) \in Seq(Note)
    BY <1>1, <1>2, <2>1
  <2>3. QED BY <2>1, <2>2 DEF Logged
<1>4. Scored(o.score, e) \in [Colors -> Nat]
  <2>1. o.score \in [Colors -> Nat]
    BY DEF Observers
  <2>2. CASE e.captured = None
    BY <2>1, <2>2 DEF Scored
  <2>3. CASE e.captured # None
    <3>1. e.captured.kind \in Kinds
      BY <2>3 DEF Event, Piece
    <3>2. PieceValue[e.captured.kind] \in Nat
      BY <3>1, ClientAssumption
    <3>3. o.score[ColorOf[e.piece.id]] + PieceValue[e.captured.kind] \in Nat
      BY <1>1, <2>1, <3>2
    <3>4. QED BY <2>1, <2>3, <3>3 DEF Scored
  <2>4. QED BY <2>2, <2>3
<1>5. QED BY <1>3, <1>4 DEF Observed, Observers

\* An event replayed.
LEMMA AfterEventFacts ==
    ASSUME NEW k \in Link, NEW e \in Event
    PROVE  LET n == AfterEvent(k, e)
           IN  /\ n \in Link /\ n.revision = k.revision
               /\ n.board = Replayed(k.board, e)
               /\ n.predicted = [p \in Ids |-> IF p \in Closed(e) THEN None ELSE k.predicted[p]]
               /\ n.observers = Observed(k.observers, e)
<1> DEFINE n == AfterEvent(k, e)
<1>1. /\ k.board \in Boards /\ k.revision \in Nat /\ k.spectator \in BOOLEAN
      /\ k.predicted \in [Ids -> Motion \cup {None}]
      /\ k.observers \in Observers
  BY DEF Link
<1>2. n = [board |-> Replayed(k.board, e), revision |-> k.revision, spectator |-> k.spectator,
           predicted |-> [p \in Ids |-> IF p \in Closed(e) THEN None ELSE k.predicted[p]],
           observers |-> Observed(k.observers, e)]
  <2> DEFINE f == [p \in Ids |-> IF p \in Closed(e) THEN None ELSE k.predicted[p]]
             b == Replayed(k.board, e)
             o == Observed(k.observers, e)
  <2>1. n = [k EXCEPT !.board = b, !.predicted = f, !.observers = o]
    BY DEF AfterEvent
  <2> HIDE DEF f, b, o, n
  <2>2. n = [board |-> b, revision |-> k.revision, spectator |-> k.spectator,
             predicted |-> f, observers |-> o]
    BY <2>1 DEF Link
  <2>3. QED BY <2>2 DEF f, b, o
<1>3. Replayed(k.board, e) \in Boards
  BY <1>1 DEF Replayed, Boards, Event
<1>4. [p \in Ids |-> IF p \in Closed(e) THEN None ELSE k.predicted[p]]
          \in [Ids -> Motion \cup {None}]
  BY <1>1
<1>5. Observed(k.observers, e) \in Observers
  BY <1>1, ObservedType
<1>6. n \in Link
  <2> HIDE DEF n
  <2>1. QED BY <1>1, <1>2, <1>3, <1>4, <1>5 DEF Link
<1> HIDE DEF n
<1>7. QED BY <1>2, <1>6 DEF n

\* Events replayed one after the other.
LEMMA ReplayFacts ==
    ASSUME NEW k \in Link, NEW es \in Seq(Event)
    PROVE  /\ FoldLeft(AfterEvent, k, es) \in Link
           /\ FoldLeft(AfterEvent, k, es).revision = k.revision
           /\ FoldLeft(AfterEvent, k, <<>>) = k
           /\ \A e \in Event : FoldLeft(AfterEvent, k, Append(es, e))
                                 = AfterEvent(FoldLeft(AfterEvent, k, es), e)
<1> DEFINE B == {x \in Link : x.revision = k.revision}
<1>1. \A b \in B, i \in DOMAIN es : Replaying(es[i], b) \in B
  <2> SUFFICES ASSUME NEW b \in B, NEW i \in DOMAIN es PROVE Replaying(es[i], b) \in B
    OBVIOUS
  <2>1. es[i] \in Event /\ b \in Link /\ b.revision = k.revision
    OBVIOUS
  <2>2. QED BY <2>1, AfterEventFacts DEF Replaying
<1>2. k \in B
  OBVIOUS
<1> HIDE DEF B
<1>3. Replay!FoldSequence(k, es) \in B
  BY <1>1, <1>2, FoldsByIndex, Replay!FoldStays
<1>4. Replay!FoldSequence(k, <<>>) = k
  BY Replay!FoldNothing
<1>5. ASSUME NEW e \in Event
      PROVE  Replay!FoldSequence(k, Append(es, e)) = AfterEvent(Replay!FoldSequence(k, es), e)
  BY FoldsByIndex, Replay!FoldAppend DEF Replaying
<1>6. QED BY <1>3, <1>4, <1>5, FoldsByIndex DEF B

\* An announcement heard.
LEMMA HeardMotion ==
    ASSUME NEW k \in Link, NEW m \in Motion
    PROVE  LET n == Heard(k, MotionText(m))
           IN  /\ n = [k EXCEPT !.predicted[m.piece.id] = m]
               /\ n \in Link
<1>1. m.piece.id \in Ids
  BY DEF Motion, Piece
<1>2. Heard(k, MotionText(m)) = [k EXCEPT !.predicted[m.piece.id] = m]
  <2> DEFINE d == DecodedServer(MotionText(m))
  <2>1. d.kind = "MotionStarted" /\ d.motion = m
    BY TextsReadBack
  <2> HIDE DEF d
  <2>2. QED BY <2>1 DEF Heard, d
<1>3. k.predicted \in [Ids -> Motion \cup {None}]
  BY DEF Link
<1>4. [k.predicted EXCEPT ![m.piece.id] = m] \in [Ids -> Motion \cup {None}]
  BY <1>1, <1>3
<1>5. [k EXCEPT !.predicted = [k.predicted EXCEPT ![m.piece.id] = m]] \in Link
  <2> DEFINE f == [k.predicted EXCEPT ![m.piece.id] = m]
  <2>1. f \in [Ids -> Motion \cup {None}]
    BY <1>4
  <2> HIDE DEF f
  <2>2. [k EXCEPT !.predicted = f] \in Link
    BY <2>1 DEF Link
  <2>3. QED BY <2>2 DEF f
<1>6. QED BY <1>2, <1>5

\* An update heard: skipped if covered, else replayed.
LEMMA HeardUpdate ==
    ASSUME NEW k \in Link, NEW es \in Seq(Event), NEW r \in Nat \ {0}
    PROVE  LET n == Heard(k, UpdateText(es, r))
           IN  /\ n = IF r <= k.revision THEN k
                      ELSE FoldLeft(AfterEvent, [k EXCEPT !.revision = r], es)
               /\ n \in Link
<1>1. [k EXCEPT !.revision = r] \in Link
  BY DEF Link
<1>2. FoldLeft(AfterEvent, [k EXCEPT !.revision = r], es) \in Link
  BY <1>1, ReplayFacts
<1> DEFINE d == DecodedServer(UpdateText(es, r))
<1>3. d.kind = "BoardUpdate" /\ d.events = es /\ d.revision = r
  BY TextsReadBack
<1> HIDE DEF d
<1>4. Heard(k, UpdateText(es, r)) = IF r <= k.revision THEN k
          ELSE FoldLeft(AfterEvent, [k EXCEPT !.revision = r], es)
  BY <1>3 DEF Heard, Covered, d
<1>5. QED BY <1>1, <1>2, <1>4

\* Texts heard one after the other.
LEMMA HearFacts ==
    ASSUME NEW k \in Link, NEW n \in Nat, NEW s \in Seq(Told(n))
    PROVE  /\ FoldLeft(Heard, k, s) \in Link
           /\ FoldLeft(Heard, k, <<>>) = k
           /\ \A t \in Told(n) : FoldLeft(Heard, k, Append(s, t)) = Heard(FoldLeft(Heard, k, s), t)
           /\ s # <<>> => FoldLeft(Heard, k, s) = FoldLeft(Heard, Heard(k, Head(s)), Tail(s))
<1>1. ASSUME NEW b \in Link, NEW i \in DOMAIN s PROVE Hearing(s[i], b) \in Link
  <2>1. s[i] \in Told(n)
    OBVIOUS
  <2>2. CASE \E es \in Seq(Event), r \in 1 .. n : s[i] = UpdateText(es, r)
    <3>1. PICK es \in Seq(Event), r \in 1 .. n : s[i] = UpdateText(es, r)
      BY <2>2
    <3>2. r \in Nat \ {0}
      OBVIOUS
    <3>3. QED BY <3>1, <3>2, HeardUpdate DEF Hearing
  <2>3. CASE \E m \in Motion : s[i] = MotionText(m)
    BY <2>3, HeardMotion DEF Hearing
  <2>4. QED BY <2>1, <2>2, <2>3 DEF Told
<1>2. Hear!FoldSequence(k, s) \in Link
  BY <1>1, FoldsByIndex, Hear!FoldStays
<1>3. Hear!FoldSequence(k, <<>>) = k
  BY Hear!FoldNothing
<1>4. ASSUME NEW t \in Told(n)
      PROVE  Hear!FoldSequence(k, Append(s, t)) = Heard(Hear!FoldSequence(k, s), t)
  BY FoldsByIndex, Hear!FoldAppend DEF Hearing
<1>5. s # <<>> => Hear!FoldSequence(k, s) = Hear!FoldSequence(Heard(k, Head(s)), Tail(s))
  BY FoldsByIndex, Hear!FoldHead DEF Hearing
<1>6. QED BY <1>2, <1>3, <1>4, <1>5, FoldsByIndex

-----------------------------------------------------------------------------
\* The Welcome among the texts.

Texts(n) == Told(n) \cup Greetings

\* The i-th of the texts w is the Welcome, and no other is one.
GreetedAt(w, i, n) ==
    /\ w \in Seq(Texts(n)) /\ i \in DOMAIN w /\ w[i] \in Greetings
    /\ \A j \in DOMAIN w \ {i} : w[j] \in Told(n)

LEMMA TextKinds ==
    ASSUME NEW n \in Nat
    PROVE  /\ \A t \in Told(n) : ~IsWelcome(t)
           /\ \A t \in Greetings : IsWelcome(t) /\ t.type # "MotionStarted"
           /\ \A t \in Told(n) : t.type = "MotionStarted" => \E m \in Motion : t = MotionText(m)
BY DEF Told, Greetings, Greeting, IsWelcome, UpdateText, MotionText

LEMMA ToldGrows ==
    ASSUME NEW n \in Nat, NEW m \in Nat, n <= m
    PROVE  Told(n) \subseteq Told(m) /\ Texts(n) \subseteq Texts(m)
<1>1. 1 .. n \subseteq 1 .. m
  OBVIOUS
<1>2. QED BY <1>1 DEF Told, Texts

\* A function over 1 .. n with values in S is a sequence over S.
LEMMA Tabulated ==
    ASSUME NEW S, NEW n \in Nat, NEW f, f = [j \in 1 .. n |-> f[j]],
           \A j \in 1 .. n : f[j] \in S
    PROVE  f \in Seq(S)
BY SMT

\* What follows an index of a sequence.
LEMMA Rest ==
    ASSUME NEW S, NEW w \in Seq(S), NEW i \in 1 .. Len(w)
    PROVE  LET b == SubSeq(w, i + 1, Len(w))
           IN  /\ b \in Seq(S) /\ Len(b) = Len(w) - i
               /\ \A j \in 1 .. Len(w) - i : b[j] = w[j + i]
<1> DEFINE b == SubSeq(w, i + 1, Len(w))
           n == Len(w) - i
<1>1. n \in Nat /\ Len(w) \in Nat
  OBVIOUS
<1>2. b = [j \in 1 .. n |-> w[j + i]]
  OBVIOUS
<1>3. \A j \in 1 .. n : j + i \in 1 .. Len(w)
  BY <1>1
<1>4. \A j \in 1 .. n : w[j + i] \in S
  BY <1>3
<1> HIDE DEF b, n
<1>5. \A j \in 1 .. n : b[j] = w[j + i]
  BY <1>2
<1>6. b = [j \in 1 .. n |-> b[j]] /\ \A j \in 1 .. n : b[j] \in S
  BY <1>2, <1>4, <1>5
<1>7. b \in Seq(S)
  BY <1>1, <1>6, Tabulated
<1>8. Len(b) = n
  BY <1>1, <1>2, <1>7
<1>9. QED BY <1>5, <1>7, <1>8 DEF b, n

LEMMA RestOfConcat ==
    ASSUME NEW S, NEW w \in Seq(S), NEW u \in Seq(S), NEW i \in 1 .. Len(w)
    PROVE  SubSeq(w \o u, i + 1, Len(w \o u)) = SubSeq(w, i + 1, Len(w)) \o u
<1> DEFINE v == w \o u
           b == SubSeq(w, i + 1, Len(w))
           c == SubSeq(v, i + 1, Len(v))
<1>1. /\ Len(w) \in Nat /\ Len(u) \in Nat /\ i \in Nat \ {0} /\ i <= Len(w)
      /\ v \in Seq(S) /\ Len(v) = Len(w) + Len(u)
      /\ \A j \in 1 .. Len(w) : v[j] = w[j]
      /\ \A j \in 1 .. Len(u) : v[Len(w) + j] = u[j]
  OBVIOUS
<1>2. /\ b \in Seq(S) /\ Len(b) = Len(w) - i
      /\ \A j \in 1 .. Len(w) - i : b[j] = w[j + i]
  BY Rest
<1>3. /\ c \in Seq(S) /\ Len(c) = Len(v) - i
      /\ \A j \in 1 .. Len(v) - i : c[j] = v[j + i]
  <2>1. i \in 1 .. Len(v)
    BY <1>1
  <2> HIDE DEF v
  <2>2. QED BY <1>1, <2>1, Rest
<1> HIDE DEF b, c, v
<1> DEFINE d == b \o u
<1>4. /\ d \in Seq(S) /\ Len(d) = Len(b) + Len(u)
      /\ \A j \in 1 .. Len(b) : d[j] = b[j]
      /\ \A j \in 1 .. Len(u) : d[Len(b) + j] = u[j]
  <2>1. b \in Seq(S)
    BY <1>2
  <2>2. QED BY <2>1
<1> HIDE DEF d
<1>5. Len(c) = Len(d) /\ Len(c) \in Nat
  BY <1>1, <1>2, <1>3, <1>4
<1>6. ASSUME NEW j \in 1 .. Len(c) PROVE c[j] = d[j]
  <2>1. c[j] = v[j + i]
    BY <1>1, <1>3
  <2>2. CASE j <= Len(w) - i
    <3>1. j \in 1 .. Len(b) /\ j + i \in 1 .. Len(w) /\ j \in 1 .. Len(w) - i
      BY <1>1, <1>2, <2>2
    <3>2. QED BY <1>1, <1>2, <1>4, <2>1, <3>1
  <2>3. CASE j > Len(w) - i
    <3> DEFINE e == j - Len(b)
    <3>1. e \in 1 .. Len(u) /\ j + i = Len(w) + e /\ j = Len(b) + e
      BY <1>1, <1>2, <1>3, <2>3
    <3> HIDE DEF e
    <3>2. d[Len(b) + e] = u[e] /\ v[Len(w) + e] = u[e]
      BY <1>1, <1>4, <3>1
    <3>3. QED BY <2>1, <3>1, <3>2
  <2>4. QED BY <1>1, <2>2, <2>3
<1>7. c = d
  BY <1>3, <1>4, <1>5, <1>6
<1>8. QED BY <1>7 DEF b, c, d, v

\* It is the one that is found and taken out.
LEMMA WelcomeFound ==
    ASSUME NEW n \in Nat, NEW w, NEW i, GreetedAt(w, i, n)
    PROVE  WelcomeIn(w) = i /\ RemoveAt(w, i) \in Seq(Told(n))
<1>1. w \in Seq(Texts(n)) /\ i \in DOMAIN w
  BY DEF GreetedAt
<1>2. \A j \in DOMAIN w : IsWelcome(w[j]) <=> j = i
  BY <1>1, TextKinds DEF GreetedAt
<1>3. WelcomeIn(w) = i
  BY <1>1, <1>2 DEF WelcomeIn
<1>4. RemoveAt(w, i) \in Seq(Told(n))
  <2> DEFINE a == SubSeq(w, 1, i - 1)
             b == SubSeq(w, i + 1, Len(w))
  <2>1. Len(w) \in Nat /\ i \in 1 .. Len(w)
    BY <1>1
  <2>2. a \in Seq(Told(n))
    <3>1. \A j \in 1 .. i - 1 : w[j] \in Told(n)
      BY <1>1, <2>1 DEF GreetedAt
    <3>2. a = [j \in 1 .. i - 1 |-> w[j]]
      BY <1>1, <2>1
    <3>3. i - 1 \in Nat
      BY <2>1
    <3>4. QED BY <3>1, <3>2, <3>3
  <2>3. b \in Seq(Told(n))
    <3>1. \A j \in 1 .. Len(w) - i : w[j + i] \in Told(n)
      BY <1>1, <2>1 DEF GreetedAt
    <3>2. b \in Seq(Texts(n)) /\ Len(b) = Len(w) - i /\ \A j \in 1 .. Len(w) - i : b[j] = w[j + i]
      BY <1>1, <2>1, Rest
    <3> HIDE DEF b
    <3>3. QED BY <3>1, <3>2
  <2> HIDE DEF a, b
  <2>4. a \o b \in Seq(Told(n))
    BY <2>2, <2>3
  <2>5. QED BY <2>4 DEF RemoveAt, a, b
<1>5. QED BY <1>3, <1>4

\* What comes after it does not matter to it.
LEMMA LaterTexts ==
    ASSUME NEW n \in Nat, NEW w, NEW i, GreetedAt(w, i, n), NEW u \in Seq(Told(n))
    PROVE  /\ GreetedAt(w \o u, i, n)
           /\ RemoveAt(w \o u, i) = RemoveAt(w, i) \o u
<1> DEFINE v == w \o u
<1>1. /\ w \in Seq(Texts(n)) /\ i \in DOMAIN w /\ u \in Seq(Texts(n))
      /\ Len(w) \in Nat /\ Len(u) \in Nat /\ i \in 1 .. Len(w) /\ i \in Nat \ {0}
  BY DEF GreetedAt, Texts
<1>2. /\ v \in Seq(Texts(n)) /\ Len(v) = Len(w) + Len(u) /\ i \in DOMAIN v
      /\ \A j \in 1 .. Len(w) : v[j] = w[j]
      /\ \A j \in 1 .. Len(u) : v[Len(w) + j] = u[j]
  BY <1>1
<1>3. GreetedAt(v, i, n)
  <2>1. \A j \in DOMAIN v \ {i} : v[j] \in Told(n)
    <3> SUFFICES ASSUME NEW j \in DOMAIN v \ {i} PROVE v[j] \in Told(n)
      OBVIOUS
    <3>1. CASE j <= Len(w)
      BY <1>1, <1>2, <3>1 DEF GreetedAt
    <3>2. CASE j > Len(w)
      <4>1. j - Len(w) \in 1 .. Len(u) /\ j = Len(w) + (j - Len(w))
        BY <1>1, <1>2, <3>2
      <4>2. v[j] = u[j - Len(w)] /\ u[j - Len(w)] \in Told(n)
        BY <1>2, <4>1
      <4>3. QED BY <4>2
    <3> HIDE DEF v
    <3>3. j \in Nat
      BY <1>1, <1>2
    <3>4. QED BY <1>1, <3>1, <3>2, <3>3
  <2>2. v[i] = w[i]
    BY <1>1, <1>2
  <2> HIDE DEF v
  <2>3. QED BY <1>1, <1>2, <2>1, <2>2 DEF GreetedAt
<1>4. WelcomeIn(w) = i /\ WelcomeIn(v) = i
  <2> HIDE DEF v
  <2>1. QED BY <1>3, WelcomeFound
<1>5. RemoveAt(v, i) = RemoveAt(w, i) \o u
  <2> DEFINE a == SubSeq(w, 1, i - 1)
             b == SubSeq(w, i + 1, Len(w))
             c == SubSeq(v, i + 1, Len(v))
  <2> HIDE DEF v
  <2>1. SubSeq(v, 1, i - 1) = a
    BY <1>1, <1>2
  <2>2. c = b \o u
    BY <1>1, RestOfConcat DEF v
  <2>3. a \in Seq(Texts(n)) /\ b \in Seq(Texts(n))
    BY <1>1
  <2> HIDE DEF a, b, c
  <2>4. a \o (b \o u) = (a \o b) \o u
    BY <1>1, <2>3
  <2>5. QED BY <2>1, <2>2, <2>4 DEF RemoveAt, a, b, c
<1>6. QED BY <1>3, <1>5

\* A client that takes it starts from its board, revision and history.
LEMMA WelcomedFacts ==
    ASSUME NEW color \in Colors, NEW b \in Boards, NEW s \in BOOLEAN, NEW h \in Seq(Event),
           NEW r \in Nat
    PROVE  LET k == Welcomed(NoClient, Greeting(color, b, s, h, r))
           IN  /\ k \in Link /\ k.board = b /\ k.revision = r
               /\ k.predicted = [p \in Ids |-> None]
               /\ k.observers = FoldLeft(Observed, NewObservers, h)
<1> DEFINE o == FoldLeft(Observed, NewObservers, h)
           t == Greeting(color, b, s, h, r)
           k == Welcomed(NoClient, t)
<1>1. o \in Observers
  <2>1. NewObservers \in Observers
    BY DEF NewObservers, Observers
  <2>2. \A x \in Observers, j \in DOMAIN h : Observing(h[j], x) \in Observers
    BY ObservedType DEF Observing
  <2>3. Observe!FoldSequence(NewObservers, h) \in Observers
    BY <2>1, <2>2, FoldsByIndex, Observe!FoldStays
  <2>4. QED BY <2>3, FoldsByIndex
<1>2. DecodedServer(t)
        = [kind |-> "Welcome", color |-> color, board |-> b, spectator |-> s,
           history |-> h, revision |-> r]
  BY TextsReadBack
<1>3. k = [board |-> b, revision |-> r, spectator |-> s, predicted |-> [p \in Ids |-> None],
           observers |-> o]
  <2> DEFINE d == DecodedServer(t)
             g == [p \in Ids |-> None]
  <2>1. NoClient = [board |-> None, revision |-> 0, spectator |-> FALSE, predicted |-> g,
                    observers |-> NewObservers]
    BY DEF NoClient
  <2>2. d.board = b /\ d.revision = r /\ d.spectator = s /\ d.history = h
    BY <1>2
  <2>3. k = [NoClient EXCEPT !.board = b, !.revision = r, !.spectator = s,
                             !.observers = FoldLeft(Observed, NoClient.observers, h)]
    <3> HIDE DEF t, g
    <3>1. QED BY <2>2 DEF Welcomed
  <2> HIDE DEF d, g, k
  <2>4. NoClient.observers = NewObservers
    BY <2>1
  <2>5. k = [NoClient EXCEPT !.board = b, !.revision = r, !.spectator = s, !.observers = o]
    BY <2>3, <2>4
  <2> HIDE DEF o
  <2>6. k = [board |-> b, revision |-> r, spectator |-> s, predicted |-> g, observers |-> o]
    BY <2>1, <2>5
  <2>7. QED BY <2>6 DEF g
<1> HIDE DEF o, k, t
<1>4. k \in Link
  BY <1>1, <1>3 DEF Link
<1>5. QED BY <1>3, <1>4 DEF k, o, t

\* The pieces announced among the texts s.
Named(s) == {p \in Ids : \E j \in DOMAIN s, m \in Motion : s[j] = MotionText(m) /\ m.piece.id = p}

\* Texts that the Welcome covers only leave predictions behind.
LEMMA CoveredTexts ==
    ASSUME NEW k \in Link, NEW s \in Seq(Told(k.revision)), k.predicted = [p \in Ids |-> None]
    PROVE  LET f == FoldLeft(Heard, k, s)
           IN  /\ f \in Link /\ f.board = k.board /\ f.revision = k.revision
               /\ f.observers = k.observers
               /\ \A p \in Ids : f.predicted[p] # None => p \in Named(s)
<1> DEFINE B == {f \in Link : /\ f.board = k.board /\ f.revision = k.revision
                              /\ f.observers = k.observers
                              /\ \A p \in Ids : f.predicted[p] # None => p \in Named(s)}
<1>1. k \in B
  OBVIOUS
<1>2. ASSUME NEW f \in B, NEW j \in DOMAIN s PROVE Hearing(s[j], f) \in B
  <2>1. f \in Link /\ f.revision = k.revision /\ s[j] \in Told(k.revision)
    OBVIOUS
  <2>2. CASE \E es \in Seq(Event), r \in 1 .. k.revision : s[j] = UpdateText(es, r)
    <3>1. PICK es \in Seq(Event), r \in 1 .. k.revision : s[j] = UpdateText(es, r)
      BY <2>2
    <3>2. r \in Nat \ {0} /\ r <= f.revision
      BY <2>1
    <3>3. Heard(f, s[j]) = f
      BY <2>1, <3>1, <3>2, HeardUpdate
    <3>4. QED BY <3>3 DEF Hearing
  <2>3. CASE \E m \in Motion : s[j] = MotionText(m)
    <3>1. PICK m \in Motion : s[j] = MotionText(m)
      BY <2>3
    <3>2. m.piece.id \in Named(s)
      BY <3>1 DEF Named, Motion, Piece
    <3>3. Heard(f, s[j]) = [f EXCEPT !.predicted[m.piece.id] = m] /\ Heard(f, s[j]) \in Link
      BY <2>1, <3>1, HeardMotion
    <3>4. f.predicted \in [Ids -> Motion \cup {None}]
      BY <2>1 DEF Link
    <3> DEFINE g == [f EXCEPT !.predicted[m.piece.id] = m]
    <3>5. /\ g.board = f.board /\ g.revision = f.revision
          /\ g.observers = f.observers
          /\ g.predicted = [f.predicted EXCEPT ![m.piece.id] = m]
      BY <2>1 DEF Link
    <3> HIDE DEF g
    <3>6. \A p \in Ids : g.predicted[p] # None => p \in Named(s)
      BY <3>2, <3>4, <3>5
    <3>7. g \in B
      BY <3>3, <3>5, <3>6 DEF g
    <3>8. QED BY <3>3, <3>7 DEF Hearing, g
  <2>4. QED BY <2>1, <2>2, <2>3 DEF Told
<1> HIDE DEF B
<1>3. Hear!FoldSequence(k, s) \in B
  BY <1>1, <1>2, FoldsByIndex, Hear!FoldStays
<1>4. QED BY <1>3, FoldsByIndex DEF B

-----------------------------------------------------------------------------
\* What the engine does to pieces, as far as a client can see.

OnStart(p) == \E c \in Cells : Holds(StartBoard, c, p)
Taken(p) == \E x \in captured : x.id = p

\* A mover's snapshot is the piece it left standing on its source.
MoverAsSnapshot ==
    \A p \in InFlight :
        Active(p) /\ ~motion[p].jump /\ p \notin fallen
            => Seen(board[motion[p].source]) = Seen(motion[p].piece)

\* No piece comes from nowhere.
Native == /\ \A c \in Cells : board[c] # None => OnStart(board[c].id)
          /\ \A p \in InFlight : OnStart(p)

Provenance == MoverAsSnapshot /\ Native /\ IsFiniteSet(captured)

LEMMA ProvenanceInit == Init => Provenance
<1> SUFFICES ASSUME Init PROVE Provenance
  OBVIOUS
<1>1. InFlight = {}
  BY DEF Init, InFlight
<1>2. \A c \in Cells : board[c] # None => OnStart(board[c].id)
  BY DEF Init, OnStart, Holds
<1>3. IsFiniteSet(captured)
  BY FS_EmptySet DEF Init
<1>4. QED BY <1>1, <1>2, <1>3 DEF Provenance, MoverAsSnapshot, Native

\* A request accepted: one motion begins and no piece looks different.
LEMMA StartFacts ==
    ASSUME Captures, NEW c \in Cells, NEW d \in Cells, RequestMove(c, d) \/ RequestJump(c),
           NEW p, p = board[c].id
    PROVE  /\ tick = 0 /\ p \in Ids /\ Holds(board, c, p) /\ motion[p] = None
           /\ motion' \in [Ids -> Motion \cup {None}]
           /\ motion'[p] \in Motion /\ motion'[p].piece.id = p /\ motion'[p].source = c
           /\ Seen(motion'[p].piece) = Seen(board[c]) /\ ~Due(motion'[p])
           /\ \A q \in Ids \ {p} : motion'[q] = motion[q]
           /\ \A x \in Cells : /\ Seen(board'[x]) = Seen(board[x])
                               /\ \A q : Holds(board', x, q) <=> Holds(board, x, q)
           /\ UNCHANGED <<captured, tick, pending, fallen>>
<1>1. tick = 0 /\ board[c] # None /\ ~Busy(p)
  BY DEF RequestMove, RequestJump, ValidMove, Occupied
<1>2. /\ board \in Boards /\ board[c] \in Piece /\ motion[p] = None
      /\ motion \in [Ids -> Motion \cup {None}] /\ p \in Ids
  BY <1>1 DEF Captures, Placement, TypeOK, Boards, Busy, Piece
<1>3. PICK m \in Motion : /\ m.piece = board[c] /\ m.source = c /\ StartMotion(m)
                          /\ m.elapsed = 0 /\ m.duration \in Nat \ {0}
  <2>1. CASE RequestMove(c, d)
    <3>1. c # d
      BY <2>1, <1>1, <1>2 DEF RequestMove, ValidMove, FriendAt, Occupied
    <3>2. MoveMotion(board[c], c, d) \in Motion /\ MoveMotion(board[c], c, d).duration \in Nat \ {0}
      BY <1>2, <3>1, MoveMotionType
    <3>3. StartMotion(MoveMotion(board[c], c, d))
      BY <2>1 DEF RequestMove
    <3>4. QED BY <3>2, <3>3 DEF MoveMotion
  <2>2. CASE RequestJump(c)
    <3>1. JumpMotion(board[c], c) \in Motion
      BY <1>2, JumpMotionType
    <3>2. StartMotion(JumpMotion(board[c], c))
      BY <2>2 DEF RequestJump
    <3>3. QED BY <3>1, <3>2, TimeAssumption DEF JumpMotion
  <2>3. QED BY <2>1, <2>2
<1>4. /\ motion' = [motion EXCEPT ![p] = m]
      /\ UNCHANGED <<captured, tick, pending, fallen>>
  BY <1>3 DEF StartMotion
<1>5. PICK s : board' = [board EXCEPT ![c].state = s]
  BY <1>3 DEF StartMotion
<1>6. ASSUME NEW x \in Cells
      PROVE  Seen(board'[x]) = Seen(board[x]) /\ \A q : Holds(board', x, q) <=> Holds(board, x, q)
  <2>1. CASE x # c
    <3>1. board'[x] = board[x]
      BY <1>2, <1>5, <2>1 DEF Boards
    <3>2. QED BY <3>1 DEF Holds
  <2>2. CASE x = c
    <3>1. board'[c] = [board[c] EXCEPT !.state = s]
      BY <1>2, <1>5 DEF Boards
    <3>2. PICK y : y = board'[c]
      OBVIOUS
    <3>3. y.id = board[c].id /\ y.kind = board[c].kind /\ y.moved = board[c].moved
      BY <1>2, <3>1, <3>2 DEF Piece
    <3>4. y # None
      <4>1. y \in Piece
        <5>1. s \in States
          <6>1. PICK z \in {"Airborne", "Moving"} : board' = [board EXCEPT ![c].state = z]
            BY <1>3 DEF StartMotion
          <6>2. [board[c] EXCEPT !.state = z] = y
            BY <1>2, <3>2, <6>1 DEF Boards
          <6>3. y.state = z /\ y.state = s
            BY <1>2, <3>1, <3>2, <6>2 DEF Piece
          <6>4. QED BY <6>3 DEF States
        <5>2. QED BY <1>2, <3>1, <3>2, <5>1 DEF Piece
      <4>2. QED BY <4>1, NoneAssumption
    <3>5. QED BY <1>1, <2>2, <3>2, <3>3, <3>4 DEF Seen, Holds
  <2>3. QED BY <2>1, <2>2
<1>7. /\ motion' \in [Ids -> Motion \cup {None}] /\ motion'[p] = m
      /\ \A q \in Ids \ {p} : motion'[q] = motion[q]
  BY <1>2, <1>4
<1>8. ~Due(m)
  BY <1>3 DEF Due
<1>9. Holds(board, c, p)
  BY <1>1 DEF Holds
<1>10. QED BY <1>1, <1>2, <1>3, <1>4, <1>6, <1>7, <1>8, <1>9

\* A wait begun: clocks move on.
LEMMA BeginFacts ==
    ASSUME Captures, NEW ms \in TickSizes, BeginTick(ms)
    PROVE  /\ tick = 0 /\ tick' > 0 /\ fallen = {} /\ fallen' = {}
           /\ \A p \in Ids :
                 /\ motion'[p] = None <=> motion[p] = None
                 /\ Active(p) <=> motion[p] # None
                 /\ Active(p)' <=> motion[p] # None
                 /\ motion[p] # None =>
                       /\ motion'[p] \in Motion
                       /\ motion'[p].piece = motion[p].piece
                       /\ motion'[p].source = motion[p].source
                       /\ motion'[p].destination = motion[p].destination
                       /\ motion'[p].jump = motion[p].jump
                       /\ Due(motion'[p]) => p \in pending'
           /\ InFlight' = InFlight
           /\ UNCHANGED <<board, captured>>
<1>1. ms \in Nat \ {0} /\ tick = 0 /\ tick' = ms /\ pending = {} /\ fallen = {} /\ fallen' = {}
      /\ UNCHANGED <<board, captured>> /\ pending' = {p \in InFlight : Due(motion'[p])}
  BY TimeAssumption DEF BeginTick, Captures, Placement, BatchPhase
<1>2. ASSUME NEW p \in Ids
      PROVE  /\ motion'[p] = None <=> motion[p] = None
             /\ motion[p] # None =>
                       /\ motion'[p] \in Motion
                       /\ motion'[p].piece = motion[p].piece
                       /\ motion'[p].source = motion[p].source
                       /\ motion'[p].destination = motion[p].destination
                       /\ motion'[p].jump = motion[p].jump
  <2>1. motion[p] \in Motion \cup {None}
    BY DEF Captures, Placement, TypeOK
  <2>2. motion'[p] = IF motion[p] = None THEN None ELSE [motion[p] EXCEPT !.elapsed = @ + ms]
    BY DEF BeginTick
  <2>3. CASE motion[p] = None
    BY <2>2, <2>3
  <2>4. CASE motion[p] # None
    <3>1. PICK m \in Motion : m = motion[p]
      BY <2>1, <2>4
    <3>2. PICK n : n = [m EXCEPT !.elapsed = @ + ms]
      OBVIOUS
    <3>3. /\ n \in Motion /\ n.piece = m.piece /\ n.source = m.source
          /\ n.destination = m.destination /\ n.jump = m.jump
      BY <1>1, <3>2 DEF Motion
    <3>4. motion'[p] = n
      BY <2>2, <2>4, <3>1, <3>2
    <3>5. QED BY <2>4, <3>1, <3>3, <3>4, NoMotionAssumption
  <2>5. QED BY <2>3, <2>4
<1>3. InFlight' = InFlight
  BY <1>2 DEF InFlight
<1>4. \A p \in Ids : Active(p) <=> motion[p] # None
  BY <1>1 DEF Active, InFlight, Captures, Placement, BatchPhase
<1>5. \A p \in Ids : motion[p] # None /\ Due(motion'[p]) => p \in pending'
  BY <1>1 DEF InFlight
<1>6. \A p \in Ids : Active(p)' <=> motion[p] # None
  BY <1>2, <1>5 DEF Active
<1>7. QED BY <1>1, <1>2, <1>3, <1>4, <1>5, <1>6

\* The arrival resolved is no longer active; the others are as before.
LEMMA ArrivalFacts ==
    ASSUME Captures, NEW p \in Ids, ResolveArrival(p)
    PROVE  /\ p \in pending /\ p \notin fallen /\ pending' = pending \ {p}
           /\ UNCHANGED motion /\ InFlight' = InFlight /\ p \in InFlight
           /\ motion[p] \in Motion /\ motion[p].piece.id = p
           /\ motion[p].source \in Cells /\ motion[p].destination \in Cells
           /\ Active(p) /\ ~Active(p)'
           /\ \A q \in Ids : q # p => (Active(q)' <=> Active(q)) /\ (Jumping(q)' <=> Jumping(q))
<1>1. /\ p \in pending /\ p \notin fallen /\ pending' = pending \ {p} /\ UNCHANGED motion
  BY DEF ResolveArrival, NextArrival
<1>2. /\ InFlight' = InFlight /\ p \in InFlight /\ Active(p) /\ ~Active(p)'
      /\ \A q \in Ids : q # p => (Active(q)' <=> Active(q))
  BY <1>1, PendingShrinks DEF Captures, Placement
<1>3. \A q \in Ids : q # p => (Jumping(q)' <=> Jumping(q))
  BY <1>1, <1>2 DEF Jumping
<1>4. motion[p] \in Motion /\ motion[p].piece.id = p
  BY <1>2, NoMotionAssumption DEF Captures, Placement, TypeOK, InFlight, MotionsFiled
<1>5. QED BY <1>1, <1>2, <1>3, <1>4 DEF Motion

\* Pieces after an arrival.
LEMMA ArrivalBoard ==
    ASSUME Captures, NEW p \in Ids, ResolveArrival(p)
    PROVE  LET m == motion[p]
               kind == CollisionKind(m.piece, board[m.destination])
           IN  /\ kind = "FriendlyBlocked" =>
                     /\ board[m.source] # None
                     /\ board' = [board EXCEPT ![m.source].state = "Idle"]
                     /\ \A c \in Cells : /\ Seen(board'[c]) = Seen(board[c])
                                         /\ \A q : Holds(board', c, q) <=> Holds(board, c, q)
                     /\ UNCHANGED <<captured, fallen>>
               /\ kind # "FriendlyBlocked" =>
                     /\ board' = [[board EXCEPT ![m.source] = None] EXCEPT ![m.destination] = Landed(m)]
                     /\ Holds(board', m.destination, p)
                     /\ \A c \in Cells, q \in Ids : q # p /\ Holds(board', c, q) =>
                           c # m.destination /\ Holds(board, c, q) /\ board'[c] = board[c]
<1> DEFINE m == motion[p]
           kind == CollisionKind(m.piece, board[m.destination])
<1>1. /\ p \in pending /\ p \notin fallen /\ m \in Motion /\ m.piece.id = p
      /\ m.source \in Cells /\ m.destination \in Cells
  BY ArrivalFacts
<1>2. board' = BoardAfter(board, m) /\ board \in Boards
  BY <1>1, CaptureFacts DEF Captures, Placement, TypeOK
<1>3. CASE kind = "FriendlyBlocked"
  <2>1. board[m.source] # None
    BY <1>1, <1>3, BlockedBoard DEF Captures
  <2>2. board' = [board EXCEPT ![m.source].state = "Idle"]
    BY <1>2, <1>3 DEF BoardAfter
  <2>3. UNCHANGED <<captured, fallen>>
    BY <1>1, <1>3, CaptureFacts DEF Captures
  <2>4. ASSUME NEW c \in Cells
        PROVE  Seen(board'[c]) = Seen(board[c]) /\ \A q : Holds(board', c, q) <=> Holds(board, c, q)
    <3>1. CASE c # m.source
      <4>1. board'[c] = board[c]
        BY <1>2, <2>2, <3>1 DEF Boards
      <4>2. QED BY <4>1 DEF Holds
    <3>2. CASE c = m.source
      <4>1. board[c] \in Piece
        BY <1>2, <2>1, <3>2 DEF Boards
      <4>2. PICK y : y = [board[c] EXCEPT !.state = "Idle"]
        OBVIOUS
      <4>3. y \in Piece /\ y.id = board[c].id /\ y.kind = board[c].kind /\ y.moved = board[c].moved
        BY <4>1, <4>2 DEF Piece, States
      <4>4. board'[c] = y
        BY <1>2, <2>2, <3>2, <4>2 DEF Boards
      <4>5. y # None /\ board[c] # None
        BY <4>1, <4>3, NoneAssumption
      <4>6. QED BY <4>3, <4>4, <4>5 DEF Seen, Holds
    <3>3. QED BY <3>1, <3>2
  <2>5. QED BY <1>3, <2>1, <2>2, <2>3, <2>4
<1>4. CASE kind # "FriendlyBlocked"
  <2>1. board' = [[board EXCEPT ![m.source] = None] EXCEPT ![m.destination] = Landed(m)]
    BY <1>2, <1>4 DEF BoardAfter
  <2>2. /\ Holds(board', m.destination, p)
        /\ \A c \in Cells : c # m.destination =>
              board'[c] = IF c = m.source THEN None ELSE board[c]
    BY <1>1, <1>2, <1>4, LandedBoard DEF Captures
  <2>3. \A c \in Cells, q \in Ids : q # p /\ Holds(board', c, q) =>
            c # m.destination /\ Holds(board, c, q) /\ board'[c] = board[c]
    BY <2>2 DEF Holds
  <2>4. QED BY <1>4, <2>1, <2>2, <2>3
<1>5. QED BY <1>3, <1>4

\* A piece that is nowhere stays nowhere: what is on the board, jumping or taken
\* after a step was so before it.
Present(p) == OnBoard(p) \/ Jumping(p) \/ Taken(p)

LEMMA NothingAppears ==
    ASSUME Captures, [Next]_vars, NEW p \in Ids, Present(p)' PROVE Present(p)
<1>1. CASE \E c, d \in Cells : RequestMove(c, d) \/ RequestJump(c)
  <2>1. PICK c \in Cells, d \in Cells : RequestMove(c, d) \/ RequestJump(c)
    BY <1>1
  <2>2. PICK q : q = board[c].id
    OBVIOUS
  <2>3. /\ Holds(board, c, q) /\ UNCHANGED <<captured, tick, pending, fallen>>
        /\ \A r \in Ids \ {q} : motion'[r] = motion[r]
        /\ \A x \in Cells, r \in Ids : Holds(board', x, r) <=> Holds(board, x, r)
    BY <2>1, <2>2, StartFacts
  <2>4. p # q => (Jumping(p)' <=> Jumping(p))
    BY <2>3 DEF Jumping, Active
  <2>5. QED BY <2>3, <2>4 DEF Present, OnBoard, Taken
<1>2. CASE \E ms \in TickSizes : BeginTick(ms)
  <2>1. PICK ms \in TickSizes : BeginTick(ms)
    BY <1>2
  <2>2. UNCHANGED <<board, captured>>
    BY <2>1, BeginFacts
  <2>3. Jumping(p)' => Jumping(p)
    BY <2>1, BeginFacts DEF Jumping
  <2>4. QED BY <2>2, <2>3 DEF Present, OnBoard, Taken, Holds
<1>3. CASE \E q \in Ids : SkipArrival(q)
  <2>1. PICK q \in Ids : SkipArrival(q)
    BY <1>3
  <2>2. UNCHANGED <<board, captured, motion>> /\ pending' \subseteq pending
    BY <2>1 DEF SkipArrival, NextArrival
  <2>3. Jumping(p)' => Jumping(p)
    BY <2>2 DEF Jumping, Active, Due
  <2>4. QED BY <2>2, <2>3 DEF Present, OnBoard, Taken, Holds
<1>4. CASE \E q \in Ids : ResolveArrival(q)
  <2>1. PICK q \in Ids : ResolveArrival(q)
    BY <1>4
  <2> DEFINE m == motion[q]
             kind == CollisionKind(m.piece, board[m.destination])
  <2>3. /\ q \in pending /\ q \notin fallen /\ q \in InFlight /\ Active(q)
        /\ UNCHANGED motion /\ pending' \subseteq pending
        /\ m.destination \in Cells
    BY <2>1, ArrivalFacts
  <2>4. Jumping(p)' => Jumping(p)
    BY <2>3 DEF Jumping, Active, Due
  <2>5. Taken(p)' => Taken(p) \/ OnBoard(p)
    <3>1. CASE kind = "EnemyCaptured"
      <4>1. captured' = captured \cup {board[m.destination]} /\ board[m.destination] \in Piece
        BY <2>1, <2>3, <3>1, CaptureFacts DEF Captures
      <4>2. board[m.destination] # None
        BY <4>1, NoneAssumption
      <4>3. QED BY <2>3, <4>1, <4>2 DEF Taken, OnBoard, Holds
    <3>2. CASE kind # "EnemyCaptured"
      BY <2>1, <2>3, <3>2, CaptureFacts DEF Captures, Taken
    <3>3. QED BY <3>1, <3>2
  <2>6. OnBoard(p)' => Present(p)
    <3>1. CASE kind = "FriendlyBlocked"
      <4>1. \A c \in Cells : Holds(board', c, p) <=> Holds(board, c, p)
        BY <2>1, <3>1, ArrivalBoard
      <4>2. QED BY <4>1 DEF Present, OnBoard
    <3>2. CASE kind # "FriendlyBlocked" /\ p # q
      <4>1. \A c \in Cells : Holds(board', c, p) => Holds(board, c, p)
        BY <2>1, <3>2, ArrivalBoard
      <4>2. QED BY <4>1 DEF Present, OnBoard
    <3>3. CASE p = q
      <4>1. CASE motion[q].jump
        BY <2>3, <3>3, <4>1 DEF Present, Jumping
      <4>2. CASE ~motion[q].jump
        <5>1. Holds(board, motion[q].source, q) /\ motion[q].source \in Cells
          BY <2>1, <2>3, <4>2, ArrivalFacts DEF Captures, Placement, MoverGrounded
        <5>2. QED BY <3>3, <5>1 DEF Present, OnBoard
      <4>3. QED BY <4>1, <4>2
    <3>4. QED BY <3>1, <3>2, <3>3
  <2>7. QED BY <2>4, <2>5, <2>6 DEF Present
<1>5. CASE EndTick
  <2>1. UNCHANGED <<board, captured>>
    BY <1>5 DEF EndTick
  <2>2. Jumping(p)' => Jumping(p)
    BY <1>5, MotionsAtEnd DEF Captures, Placement, Jumping, Active, InFlight
  <2>3. QED BY <2>1, <2>2 DEF Present, OnBoard, Taken, Holds
<1>6. CASE UNCHANGED vars
  BY <1>6 DEF vars, Present, OnBoard, Taken, Holds, Jumping, Active, Due
<1>7. QED
  BY <1>1, <1>2, <1>3, <1>4, <1>5, <1>6 DEF Next, WaitAfterGameOver

LEMMA VanishedStays ==
    ASSUME Captures, [Next]_vars, NoPieceVanishes' PROVE NoPieceVanishes
<1> SUFFICES ASSUME NEW p \in Ids, OnStart(p) PROVE Present(p)
  BY DEF NoPieceVanishes, Present, OnStart, Taken
<1>1. Present(p)'
  BY DEF NoPieceVanishes, Present, OnStart, Taken
<1>2. QED BY <1>1, NothingAppears

LEMMA ProvenanceStep ==
    ASSUME Captures, Captures', Provenance, [Next]_vars PROVE Provenance'
<1> USE NoneAssumption DEF Provenance
<1>1. CASE \E c, d \in Cells : RequestMove(c, d) \/ RequestJump(c)
  <2>1. PICK c \in Cells, d \in Cells : RequestMove(c, d) \/ RequestJump(c)
    BY <1>1
  <2>2. PICK q : q = board[c].id
    OBVIOUS
  <2>3. /\ Holds(board, c, q) /\ UNCHANGED <<captured, tick, pending, fallen>> /\ q \in Ids
        /\ motion'[q].source = c /\ Seen(motion'[q].piece) = Seen(board[c])
        /\ \A r \in Ids \ {q} : motion'[r] = motion[r]
        /\ \A x \in Cells : /\ Seen(board'[x]) = Seen(board[x])
                            /\ \A r : Holds(board', x, r) <=> Holds(board, x, r)
    BY <2>1, <2>2, StartFacts
  <2>4. \A r \in InFlight' : r = q \/ r \in InFlight
    BY <2>3 DEF InFlight
  <2>5. \A r \in Ids : r # q => (Active(r)' <=> Active(r))
    BY <2>3 DEF Active
  <2>6. \A r \in InFlight : motion[r].source \in Cells
    BY NoMotionAssumption DEF InFlight, Captures, Placement, TypeOK, Motion
  <2>7. MoverAsSnapshot'
    <3> SUFFICES ASSUME NEW r \in InFlight', Active(r)', ~motion'[r].jump, r \notin fallen'
                 PROVE  Seen(board'[motion'[r].source]) = Seen(motion'[r].piece)
      BY DEF MoverAsSnapshot
    <3>1. CASE r = q
      BY <2>3, <3>1
    <3>2. CASE r # q
      <4>1. r \in Ids /\ r \in InFlight /\ motion'[r] = motion[r] /\ Active(r)
        BY <2>3, <2>4, <2>5, <3>2 DEF InFlight
      <4>2. Seen(board[motion[r].source]) = Seen(motion[r].piece)
        BY <2>3, <4>1 DEF MoverAsSnapshot
      <4>3. QED BY <2>3, <2>6, <4>1, <4>2
    <3>3. QED BY <3>1, <3>2
  <2>8. OnStart(q)
    BY <2>3 DEF Native, Holds
  <2>9. Native'
    <3>1. \A x \in Cells : board'[x] # None => OnStart(board'[x].id)
      <4> SUFFICES ASSUME NEW x \in Cells, board'[x] # None PROVE OnStart(board'[x].id)
        OBVIOUS
      <4>1. Holds(board, x, board'[x].id)
        BY <2>3 DEF Holds
      <4>2. QED BY <4>1 DEF Native, Holds
    <3>2. \A r \in InFlight' : OnStart(r)
      BY <2>4, <2>8 DEF Native
    <3>3. QED BY <3>1, <3>2 DEF Native, OnStart
  <2>10. QED BY <2>3, <2>7, <2>9
<1>2. CASE \E ms \in TickSizes : BeginTick(ms)
  <2>1. PICK ms \in TickSizes : BeginTick(ms)
    BY <1>2
  <2>2. /\ UNCHANGED <<board, captured>> /\ InFlight' = InFlight /\ fallen = {}
        /\ \A r \in InFlight : /\ Active(r) /\ motion'[r].source = motion[r].source
                               /\ motion'[r].piece = motion[r].piece
                               /\ motion'[r].jump = motion[r].jump
    <3>1. \A r \in InFlight : r \in Ids /\ motion[r] # None
      BY DEF InFlight
    <3>2. QED BY <2>1, <3>1, BeginFacts
  <2>3. MoverAsSnapshot'
    BY <2>2 DEF MoverAsSnapshot
  <2>4. Native'
    BY <2>2 DEF Native, OnStart
  <2>5. QED BY <2>2, <2>3, <2>4
<1>3. CASE \E q \in Ids : SkipArrival(q)
  <2>1. PICK q \in Ids : SkipArrival(q)
    BY <1>3
  <2>2. UNCHANGED <<board, captured, motion, fallen>> /\ pending' \subseteq pending
    BY <2>1 DEF SkipArrival, NextArrival
  <2>3. InFlight' = InFlight /\ \A r \in Ids : Active(r)' => Active(r)
    BY <2>2 DEF InFlight, Active, Due
  <2>4. MoverAsSnapshot'
    BY <2>2, <2>3 DEF MoverAsSnapshot, InFlight
  <2>5. Native'
    BY <2>2, <2>3 DEF Native, OnStart
  <2>6. QED BY <2>2, <2>4, <2>5
<1>4. CASE \E q \in Ids : ResolveArrival(q)
  <2>1. PICK q \in Ids : ResolveArrival(q)
    BY <1>4
  <2> DEFINE m == motion[q]
             kind == CollisionKind(m.piece, board[m.destination])
  <2>3. /\ q \in pending /\ q \notin fallen /\ q \in InFlight /\ q \in Ids
        /\ UNCHANGED motion /\ InFlight' = InFlight /\ ~Active(q)' /\ m.destination \in Cells
        /\ m.piece.id = q
        /\ \A r \in Ids : r # q => (Active(r)' <=> Active(r))
    BY <2>1, ArrivalFacts
  <2>4. fallen \subseteq fallen' /\ IsFiniteSet(captured')
    <3>1. CASE kind = "EnemyCaptured"
      <4>1. /\ captured' = captured \cup {board[m.destination]}
            /\ fallen' = fallen \cup {board[m.destination].id}
        BY <2>1, <2>3, <3>1, CaptureFacts DEF Captures
      <4>2. QED BY <4>1, FS_AddElement
    <3>2. CASE kind # "EnemyCaptured"
      BY <2>1, <2>3, <3>2, CaptureFacts DEF Captures
    <3>3. QED BY <3>1, <3>2
  <2>5. \A c \in Cells, r \in Ids : r # q /\ Holds(board', c, r) =>
            Holds(board, c, r) /\ Seen(board'[c]) = Seen(board[c])
    <3>1. CASE kind = "FriendlyBlocked"
      BY <2>1, <3>1, ArrivalBoard
    <3>2. CASE kind # "FriendlyBlocked"
      <4>1. \A c \in Cells, r \in Ids : r # q /\ Holds(board', c, r) =>
                c # m.destination /\ Holds(board, c, r) /\ board'[c] = board[c]
        BY <2>1, <3>2, ArrivalBoard
      <4>2. QED BY <4>1
    <3>3. QED BY <3>1, <3>2
  <2>6. MoverAsSnapshot'
    <3> SUFFICES ASSUME NEW r \in InFlight', Active(r)', ~motion'[r].jump, r \notin fallen'
                 PROVE  Seen(board'[motion'[r].source]) = Seen(motion'[r].piece)
      BY DEF MoverAsSnapshot
    <3>1. r \in InFlight /\ r \in Ids /\ r # q /\ Active(r) /\ r \notin fallen
      BY <2>3, <2>4 DEF InFlight
    <3>2. Seen(board[motion[r].source]) = Seen(motion[r].piece)
      BY <2>3, <3>1 DEF MoverAsSnapshot
    <3>3. motion[r].source \in Cells
      BY <3>1, NoMotionAssumption DEF InFlight, Captures, Placement, TypeOK, Motion
    <3>4. Holds(board', motion[r].source, r)
      BY <2>3 DEF Captures, Placement, MoverGrounded
    <3>5. QED BY <2>3, <2>5, <3>1, <3>2, <3>3, <3>4
  <2>7. Native'
    <3>1. \A c \in Cells : board'[c] # None => OnStart(board'[c].id)
      <4> SUFFICES ASSUME NEW c \in Cells, board'[c] # None PROVE OnStart(board'[c].id)
        OBVIOUS
      <4>1. board'[c].id \in Ids /\ Holds(board', c, board'[c].id)
        BY DEF Captures, Placement, TypeOK, Boards, Piece, Holds
      <4>2. CASE board'[c].id = q
        BY <2>3, <4>2 DEF Native
      <4>3. CASE board'[c].id # q
        <5>1. Holds(board, c, board'[c].id)
          BY <2>5, <4>1, <4>3
        <5>2. QED BY <5>1 DEF Native, Holds
      <4>4. QED BY <4>2, <4>3
    <3>2. QED BY <2>3, <3>1 DEF Native, OnStart
  <2>8. QED BY <2>4, <2>6, <2>7
<1>5. CASE EndTick
  <2>1. UNCHANGED <<board, captured>>
    BY <1>5 DEF EndTick
  <2>2. \A r \in InFlight' : /\ r \in InFlight /\ motion'[r] = motion[r] /\ Active(r)
                             /\ motion[r].jump \/ r \notin fallen
    BY <1>5, MotionsAtEnd DEF Captures
  <2>3. MoverAsSnapshot'
    BY <2>1, <2>2 DEF MoverAsSnapshot
  <2>4. Native'
    BY <2>1, <2>2 DEF Native, OnStart
  <2>5. QED BY <2>1, <2>3, <2>4
<1>6. CASE UNCHANGED vars
  BY <1>6 DEF vars, MoverAsSnapshot, Native, OnStart, InFlight, Active, Due
<1>7. QED
  BY <1>1, <1>2, <1>3, <1>4, <1>5, <1>6 DEF Next, WaitAfterGameOver
-----------------------------------------------------------------------------
\* The client c once it has heard the texts u; CaughtUp is this of the client and
\* all that is under way.

Reached(c, u) ==
    IF c.board # None THEN FoldLeft(Heard, c, u)
    ELSE FoldLeft(Heard, Welcomed(c, u[WelcomeIn(u)]), Queued(u))

\* It has its board, or the Welcome is among the texts.
Linked(c, u, n) ==
    \/ c \in Link /\ u \in Seq(Told(n))
    \/ c = NoClient /\ \E i : GreetedAt(u, i, n)

LEMMA Boarded ==
    /\ \A k \in Link : k.board # None
    /\ NoClient.board = None
BY ClientAssumption DEF Link, NoClient

\* Where a client without a board starts.
LEMMA FirstBoard ==
    ASSUME NEW n \in Nat, NEW u, NEW i, GreetedAt(u, i, n)
    PROVE  /\ Welcomed(NoClient, u[i]) \in Link
           /\ RemoveAt(u, i) \in Seq(Told(n))
           /\ Reached(NoClient, u) = FoldLeft(Heard, Welcomed(NoClient, u[i]), RemoveAt(u, i))
<1>1. WelcomeIn(u) = i /\ RemoveAt(u, i) \in Seq(Told(n))
  BY WelcomeFound
<1>2. u[i] \in Greetings
  BY DEF GreetedAt
<1>3. PICK color \in Colors, b \in Boards, s \in BOOLEAN, h \in Seq(Event), r \in Nat :
          u[i] = Greeting(color, b, s, h, r)
  BY <1>2 DEF Greetings
<1>4. Welcomed(NoClient, u[i]) \in Link
  BY <1>3, WelcomedFacts
<1>5. QED BY <1>1, <1>4, Boarded DEF Reached, Queued

\* More texts follow the Welcome.
LEMMA MoreTexts ==
    ASSUME NEW n \in Nat, NEW u, NEW i, GreetedAt(u, i, n), NEW s \in Seq(Told(n))
    PROVE  /\ GreetedAt(u \o s, i, n)
           /\ Reached(NoClient, u \o s)
                = FoldLeft(Heard, Welcomed(NoClient, u[i]), RemoveAt(u, i) \o s)
<1> DEFINE v == u \o s
<1>1. GreetedAt(v, i, n) /\ RemoveAt(v, i) = RemoveAt(u, i) \o s
  BY LaterTexts
<1>2. v[i] = u[i]
  <2>1. u \in Seq(Texts(n)) /\ s \in Seq(Texts(n)) /\ i \in 1 .. Len(u)
    BY DEF GreetedAt, Texts
  <2>2. QED BY <2>1
<1> HIDE DEF v
<1>3. Reached(NoClient, v) = FoldLeft(Heard, Welcomed(NoClient, v[i]), RemoveAt(v, i))
  BY <1>1, FirstBoard
<1>4. QED BY <1>1, <1>2, <1>3 DEF v

\* One text more.
LEMMA ReachedMore ==
    ASSUME NEW n \in Nat, NEW c, NEW u, Linked(c, u, n), NEW t \in Told(n)
    PROVE  /\ Linked(c, Append(u, t), n)
           /\ Reached(c, u) \in Link
           /\ Reached(c, Append(u, t)) = Heard(Reached(c, u), t)
<1>1. CASE c \in Link /\ u \in Seq(Told(n))
  <2>1. Append(u, t) \in Seq(Told(n))
    BY <1>1
  <2>2. QED BY <1>1, <2>1, Boarded, HearFacts DEF Linked, Reached
<1>2. CASE c = NoClient /\ \E i : GreetedAt(u, i, n)
  <2>1. PICK i : GreetedAt(u, i, n)
    BY <1>2
  <2>3. PICK s \in Seq(Told(n)) : s = <<t>>
    <3>1. <<t>> \in Seq(Told(n))
      OBVIOUS
    <3>2. QED BY <3>1
  <2> DEFINE v == u \o s
             w == RemoveAt(u, i)
             k == Welcomed(NoClient, u[i])
  <2>2. /\ k \in Link /\ w \in Seq(Told(n))
        /\ Reached(NoClient, u) = FoldLeft(Heard, k, w)
    BY <2>1, FirstBoard
  <2>4. GreetedAt(v, i, n) /\ Reached(NoClient, v) = FoldLeft(Heard, k, w \o s)
    BY <2>1, MoreTexts
  <2>5. Append(u, t) = v
    BY <2>1, <2>3 DEF GreetedAt
  <2>6. w \o s = Append(w, t)
    BY <2>2, <2>3
  <2> HIDE DEF v, w, k
  <2>7. FoldLeft(Heard, k, w) \in Link
        /\ FoldLeft(Heard, k, Append(w, t)) = Heard(FoldLeft(Heard, k, w), t)
    BY <2>2, HearFacts
  <2>8. QED BY <1>2, <2>2, <2>4, <2>5, <2>6, <2>7 DEF Linked
<1>3. QED BY <1>1, <1>2 DEF Linked

\* Later revisions allow more texts.
LEMMA LinkedGrows ==
    ASSUME NEW n \in Nat, NEW m \in Nat, n <= m, NEW c, NEW u, Linked(c, u, n)
    PROVE  Linked(c, u, m)
<1>1. Told(n) \subseteq Told(m) /\ Texts(n) \subseteq Texts(m)
  BY ToldGrows
<1>2. ASSUME NEW S, NEW T, S \subseteq T, u \in Seq(S) PROVE u \in Seq(T)
  BY <1>2
<1>3. CASE c \in Link /\ u \in Seq(Told(n))
  BY <1>1, <1>2, <1>3 DEF Linked
<1>4. CASE c = NoClient /\ \E i : GreetedAt(u, i, n)
  <2>1. PICK i : GreetedAt(u, i, n)
    BY <1>4
  <2>2. u \in Seq(Texts(m))
    BY <1>1, <1>2, <2>1 DEF GreetedAt
  <2>3. GreetedAt(u, i, m)
    BY <1>1, <2>1, <2>2 DEF GreetedAt
  <2>4. QED BY <1>4, <2>3 DEF Linked
<1>5. QED BY <1>3, <1>4 DEF Linked

\* Taking the Welcome past what queued before it changes nothing of where the
\* client ends.
LEMMA ReachedByWelcome ==
    ASSUME NEW n \in Nat, NEW w, NEW i, GreetedAt(w, i, n), NEW s \in Seq(Told(n))
    PROVE  LET k == Welcomed(NoClient, w[WelcomeIn(w)])
               v == Queued(w)
           IN  /\ Linked(k, v, n)
               /\ Reached(k, v \o s) = Reached(NoClient, w \o s)
<1> DEFINE k == Welcomed(NoClient, w[i])
           v == RemoveAt(w, i)
<1>1. WelcomeIn(w) = i /\ k \in Link /\ v \in Seq(Told(n))
  BY WelcomeFound, FirstBoard
<1>2. Reached(NoClient, w \o s) = FoldLeft(Heard, k, v \o s)
  BY MoreTexts
<1> HIDE DEF k, v
<1>4. Reached(k, v \o s) = FoldLeft(Heard, k, v \o s)
  BY <1>1, Boarded DEF Reached
<1>5. Linked(k, v, n)
  BY <1>1 DEF Linked
<1>6. QED BY <1>1, <1>2, <1>4, <1>5 DEF k, v, Queued

\* Nor does applying the first text.
LEMMA ReachedByApply ==
    ASSUME NEW n \in Nat, NEW c \in Link, NEW w \in Seq(Told(n)), w # <<>>,
           NEW s \in Seq(Told(n))
    PROVE  LET k == Heard(c, Head(w))
           IN  /\ Linked(k, Tail(w), n)
               /\ Reached(k, Tail(w) \o s) = Reached(c, w \o s)
<1> DEFINE k == Heard(c, Head(w))
           u == w \o s
<1>1. Head(w) \in Told(n) /\ Tail(w) \in Seq(Told(n)) /\ <<>> \in Seq(Told(n))
  OBVIOUS
<1>2. k \in Link
  <2>1. Append(<<>>, Head(w)) \in Seq(Told(n))
    BY <1>1
  <2>2. FoldLeft(Heard, c, Append(<<>>, Head(w))) = Heard(FoldLeft(Heard, c, <<>>), Head(w))
    BY <1>1, HearFacts
  <2>3. FoldLeft(Heard, c, <<>>) = c
    BY <1>1, HearFacts
  <2>4. FoldLeft(Heard, c, Append(<<>>, Head(w))) \in Link
    BY <2>1, HearFacts
  <2>5. QED BY <2>2, <2>3, <2>4
<1>3. u \in Seq(Told(n)) /\ u # <<>> /\ Head(u) = Head(w) /\ Tail(u) = Tail(w) \o s
  <2>1. u \in Seq(Told(n)) /\ Len(u) = Len(w) + Len(s) /\ Len(w) \in Nat \ {0} /\ Len(s) \in Nat
    OBVIOUS
  <2>2. u # <<>> /\ Head(u) = Head(w)
    BY <2>1
  <2>3. Tail(u) = Tail(w) \o s
    OBVIOUS
  <2>4. QED BY <2>1, <2>2, <2>3
<1> HIDE DEF k, u
<1>4. FoldLeft(Heard, c, u) = FoldLeft(Heard, k, Tail(w) \o s)
  <2>1. FoldLeft(Heard, c, u) = FoldLeft(Heard, Heard(c, Head(u)), Tail(u))
    BY <1>3, HearFacts
  <2>2. QED BY <1>3, <2>1 DEF k
<1>5. QED BY <1>1, <1>2, <1>4, Boarded DEF Reached, Linked, k, u

\* A Welcome put last.
LEMMA GreetedLast ==
    ASSUME NEW n \in Nat, NEW w \in Seq(Told(n)), NEW g \in Greetings
    PROVE  LET v == Append(w, g)
               i == Len(w) + 1
           IN  GreetedAt(v, i, n) /\ v[i] = g /\ RemoveAt(v, i) = w
<1> DEFINE v == Append(w, g)
           i == Len(w) + 1
<1>1. Len(w) \in Nat
  OBVIOUS
<1>2. w \in Seq(Texts(n)) /\ g \in Texts(n)
  BY DEF Texts
<1>3. /\ v \in Seq(Texts(n)) /\ Len(v) = Len(w) + 1 /\ v[i] = g
      /\ \A j \in 1 .. Len(w) : v[j] = w[j]
  BY <1>2
<1>4. GreetedAt(v, i, n)
  <2>1. \A j \in 1 .. Len(w) : w[j] \in Told(n)
    OBVIOUS
  <2> HIDE DEF v
  <2>2. DOMAIN v = 1 .. Len(w) + 1
    BY <1>3
  <2>3. \A j \in DOMAIN v \ {i} : j \in 1 .. Len(w)
    BY <1>1, <2>2
  <2>4. i \in DOMAIN v
    BY <1>1, <2>2
  <2>5. \A j \in DOMAIN v \ {i} : v[j] \in Told(n)
    BY <1>3, <2>1, <2>3
  <2> HIDE DEF i
  <2>6. QED BY <1>3, <2>4, <2>5 DEF GreetedAt
<1>5. RemoveAt(v, i) = w
  <2>1. SubSeq(v, 1, i - 1) = w /\ SubSeq(v, i + 1, Len(v)) = <<>>
    BY <1>1, <1>2
  <2>2. w \o <<>> = w
    OBVIOUS
  <2>3. QED BY <2>1, <2>2 DEF RemoveAt
<1>6. QED BY <1>3, <1>4, <1>5

\* The client starts from it, whatever is ahead of it.
LEMMA ReachedByGreeting ==
    ASSUME NEW n \in Nat, NEW w \in Seq(Told(n)), NEW g \in Greetings, NEW s \in Seq(Told(n))
    PROVE  LET k == Welcomed(NoClient, g)
           IN  /\ k \in Link /\ Linked(NoClient, Append(w, g), n)
               /\ Reached(NoClient, Append(w, g) \o s) = FoldLeft(Heard, k, w \o s)
<1> DEFINE v == Append(w, g)
           i == Len(w) + 1
<1>1. GreetedAt(v, i, n) /\ v[i] = g /\ RemoveAt(v, i) = w
  BY GreetedLast
<1> HIDE DEF v, i
<1>2. Welcomed(NoClient, g) \in Link
  BY <1>1, FirstBoard
<1>3. Reached(NoClient, v \o s) = FoldLeft(Heard, Welcomed(NoClient, g), w \o s)
  BY <1>1, MoreTexts
<1>4. Linked(NoClient, v, n)
  BY <1>1 DEF Linked
<1>5. QED BY <1>2, <1>3, <1>4 DEF v

\* So it does not matter whether a text is put ahead of it or behind.
LEMMA ReachedPastGreeting ==
    ASSUME NEW n \in Nat, NEW w \in Seq(Told(n)), NEW g \in Greetings, NEW t \in Told(n)
    PROVE  Reached(NoClient, Append(Append(w, t), g)) = Heard(Reached(NoClient, Append(w, g)), t)
<1>1. PICK k, u, a, b : /\ k = Welcomed(NoClient, g) /\ u = Append(w, t)
                        /\ a = Append(w, g) /\ b = Append(u, g)
  OBVIOUS
<1>2. <<>> \in Seq(Told(n)) /\ u \in Seq(Told(n)) /\ w \o <<>> = w /\ u \o <<>> = u
  BY <1>1
<1>3. a \o <<>> = a /\ b \o <<>> = b
  <2>1. a \in Seq(Texts(n)) /\ b \in Seq(Texts(n))
    BY <1>1, <1>2, GreetedLast DEF GreetedAt
  <2>2. QED BY <2>1
<1>4. k \in Link /\ Reached(NoClient, a) = FoldLeft(Heard, k, w)
  BY <1>1, <1>2, <1>3, ReachedByGreeting
<1>5. Reached(NoClient, b) = FoldLeft(Heard, k, u)
  BY <1>1, <1>2, <1>3, ReachedByGreeting
<1>6. FoldLeft(Heard, k, u) = Heard(FoldLeft(Heard, k, w), t)
  BY <1>1, <1>4, HearFacts
<1>7. QED BY <1>1, <1>4, <1>5, <1>6
-----------------------------------------------------------------------------
\* The inductive invariant.  Ahead is the client once it has been told the
\* arrivals of the wait under way, too: it agrees with the engine in the middle
\* of a wait, where CaughtUp lags behind.

Turned(k, n) == [k EXCEPT !.revision = n]
Ahead == FoldLeft(AfterEvent, Turned(CaughtUp, revision + 1), events)

BoardShown(k) == NoPieceVanishes => \A c \in Cells : Seen(k.board[c]) = Seen(board[c])
HistoryShown(k) == k.observers = FoldLeft(Observed, NewObservers, history \o events)
MotionsShown(k) ==
    \A p \in Ids \ untold : k.predicted[p] # None =>
        /\ motion[p] # None /\ Active(p) /\ p \notin fallen
        /\ k.predicted[p].destination = motion[p].destination
Shows(k) == BoardShown(k) /\ HistoryShown(k) /\ MotionsShown(k)

Texted ==
    /\ events \in Seq(Event) /\ history \in Seq(Event) /\ revision \in Nat
    /\ \/ outbox = <<>>
       \/ \E es \in Seq(Event), r \in 1 .. revision : outbox = <<UpdateText(es, r)>>
    /\ tick = 0 => events = <<>>
    /\ tick > 0 => outbox = <<>>

\* It is to get a Welcome: what is sent to it, with the Welcome being last.
Expecting == joined \in {"Snapshotted", "Welcomed"}
Sent == wire \o greeting

LinkPhase ==
    /\ joined \in {"No", "Registered", "Snapshotted", "Welcomed"}
    /\ joined = "No" => wire = <<>>
    /\ joined # "Welcomed" => client = NoClient /\ wire \in Seq(Told(revision))
    /\ joined = "Snapshotted" => \E g \in Greetings : greeting = <<g>>
    /\ joined # "Snapshotted" => greeting = <<>>
    /\ joined = "Welcomed" => Linked(client, wire, revision)

\* What a client that has just got its Welcome makes of the announcements ahead
\* of it: a piece that is in motion then goes where it was announced to go last.
Foretold ==
    \A k \in Link : revision <= k.revision /\ k.predicted = [p \in Ids |-> None] =>
        LET f == FoldLeft(Heard, k, wire)
        IN  \A p \in Ids : f.predicted[p] # None /\ motion[p] # None =>
                f.predicted[p].destination = motion[p].destination
Foretelling == joined \in {"No", "Registered"} => Foretold

Agreement ==
    Expecting => CaughtUp \in Link /\ CaughtUp.revision = revision /\ Shows(Ahead)

Mirrored == Captures /\ Provenance /\ Texted /\ LinkPhase /\ Foretelling /\ Agreement

LEMMA MirroredInit == MirrorInit => Mirrored
<1> SUFFICES ASSUME MirrorInit PROVE Mirrored
  OBVIOUS
<1>1. Captures /\ Provenance
  BY CapturesInit, ProvenanceInit DEF MirrorInit
<1>2. Texted
  BY DEF MirrorInit, Init, Texted
<1>3. LinkPhase /\ Agreement
  BY DEF MirrorInit, LinkPhase, Agreement, Expecting
<1>4. Foretelling
  BY DEF MirrorInit, Init, Foretelling, Foretold
<1>5. QED BY <1>1, <1>2, <1>3, <1>4 DEF Mirrored

\* The revision alone turned.
LEMMA TurnedFacts ==
    ASSUME NEW k \in Link, NEW n \in Nat
    PROVE  LET a == Turned(k, n)
           IN  /\ a \in Link /\ a.revision = n /\ a.board = k.board
               /\ a.predicted = k.predicted /\ a.observers = k.observers
               /\ FoldLeft(AfterEvent, a, <<>>) = a
<1> DEFINE a == Turned(k, n)
<1>1. a = [board |-> k.board, revision |-> n, spectator |-> k.spectator,
           predicted |-> k.predicted, observers |-> k.observers]
  BY DEF Link, Turned
<1>2. a \in Link
  <2> HIDE DEF a
  <2>1. QED BY <1>1 DEF Link
<1> HIDE DEF a
<1>3. <<>> \in Seq(Event)
  OBVIOUS
<1>4. FoldLeft(AfterEvent, a, <<>>) = a
  BY <1>2, <1>3, ReplayFacts
<1>5. QED BY <1>1, <1>2, <1>4 DEF a

\* Between two waits being ahead is having caught up.
LEMMA AheadAtRest ==
    ASSUME Texted, CaughtUp \in Link, tick = 0
    PROVE  /\ Ahead = Turned(CaughtUp, revision + 1)
           /\ Ahead \in Link /\ Ahead.board = CaughtUp.board
           /\ Ahead.predicted = CaughtUp.predicted /\ Ahead.observers = CaughtUp.observers
<1>1. events = <<>> /\ revision + 1 \in Nat
  BY DEF Texted
<1> DEFINE k == CaughtUp
<1>2. k \in Link
  OBVIOUS
<1>3. Ahead = FoldLeft(AfterEvent, Turned(k, revision + 1), <<>>)
  BY <1>1 DEF Ahead
<1> HIDE DEF k
<1>4. QED BY <1>1, <1>2, <1>3, TurnedFacts DEF k

LEMMA CaughtUpIs == CaughtUp = Reached(client, Sent \o outbox)
BY DEF CaughtUp, Reached, Sent

\* While a Welcome is to come or has been sent, the texts are led by it or the
\* client has it.
LEMMA SentLinked ==
    ASSUME LinkPhase, Expecting, revision \in Nat
    PROVE  /\ Linked(client, Sent, revision) /\ Sent \in Seq(Texts(revision))
           /\ Sent \o <<>> = Sent
<1>1. CASE joined = "Snapshotted"
  <2>1. PICK g \in Greetings : greeting = <<g>>
    BY <1>1 DEF LinkPhase
  <2>2. client = NoClient /\ wire \in Seq(Told(revision))
    BY <1>1 DEF LinkPhase
  <2>3. GreetedAt(Append(wire, g), Len(wire) + 1, revision)
    BY <2>2, GreetedLast
  <2>4. Sent = Append(wire, g)
    <3>1. wire \in Seq(Texts(revision)) /\ g \in Texts(revision)
      BY <2>2 DEF Texts
    <3>2. QED BY <2>1, <3>1 DEF Sent
  <2>5. Linked(client, Sent, revision) /\ Sent \in Seq(Texts(revision))
    BY <2>2, <2>3, <2>4 DEF Linked, GreetedAt
  <2>6. QED BY <2>5
<1>2. CASE joined = "Welcomed"
  <2>1. Linked(client, wire, revision) /\ greeting = <<>>
    BY <1>2 DEF LinkPhase
  <2>2. wire \in Seq(Texts(revision))
    BY <2>1 DEF Linked, GreetedAt, Texts
  <2>3. Sent = wire /\ wire \o <<>> = wire
    BY <2>1, <2>2 DEF Sent
  <2>4. QED BY <2>1, <2>2, <2>3
<1>3. QED BY <1>1, <1>2 DEF Expecting

\* What Match sends in the meantime counts as if it were sent behind it.
LEMMA SentMore ==
    ASSUME LinkPhase, Expecting, revision \in Nat, NEW t \in Told(revision)
    PROVE  /\ Reached(client, Sent) \in Link
           /\ Reached(client, Append(wire, t) \o greeting) = Heard(Reached(client, Sent), t)
           /\ Reached(client, Sent \o <<t>>) = Heard(Reached(client, Sent), t)
           /\ (Append(wire, t) \o greeting) \o <<>> = Append(wire, t) \o greeting
<1>1. Linked(client, Sent, revision) /\ Sent \in Seq(Texts(revision))
  BY SentLinked
<1>2. t \in Texts(revision)
  BY DEF Texts
<1>3. Sent \o <<t>> = Append(Sent, t)
  BY <1>1, <1>2
<1>4. /\ Reached(client, Sent) \in Link
      /\ Reached(client, Append(Sent, t)) = Heard(Reached(client, Sent), t)
  BY <1>1, ReachedMore
<1>5. Reached(client, Append(wire, t) \o greeting) = Heard(Reached(client, Sent), t)
  <2>1. CASE joined = "Snapshotted"
    <3>1. PICK g \in Greetings : greeting = <<g>>
      BY <2>1 DEF LinkPhase
    <3>2. client = NoClient /\ wire \in Seq(Told(revision))
      BY <2>1 DEF LinkPhase
    <3>3. wire \in Seq(Texts(revision)) /\ g \in Texts(revision)
      BY <3>2 DEF Texts
    <3>4. Sent = Append(wire, g) /\ Append(wire, t) \o greeting = Append(Append(wire, t), g)
      BY <1>2, <3>1, <3>3 DEF Sent
    <3>5. QED BY <3>2, <3>4, ReachedPastGreeting
  <2>2. CASE joined = "Welcomed"
    <3>1. greeting = <<>> /\ wire \in Seq(Texts(revision))
      BY <2>2 DEF LinkPhase, Linked, GreetedAt, Texts
    <3>2. Sent = wire /\ Append(wire, t) \o greeting = Append(wire, t)
      BY <1>2, <3>1 DEF Sent
    <3>3. QED BY <1>4, <3>2
  <2>3. QED BY <2>1, <2>2 DEF Expecting
<1>6. (Append(wire, t) \o greeting) \o <<>> = Append(wire, t) \o greeting
  <2>1. wire \in Seq(Texts(revision))
    BY DEF LinkPhase, Expecting, Linked, GreetedAt, Texts
  <2>2. greeting \in Seq(Texts(revision))
    <3>1. CASE joined = "Snapshotted"
      <4>1. PICK g \in Texts(revision) : greeting = <<g>>
        BY <3>1 DEF LinkPhase, Texts
      <4>2. QED BY <4>1
    <3>2. CASE joined = "Welcomed"
      BY <3>2 DEF LinkPhase
    <3>3. QED BY <3>1, <3>2 DEF Expecting
  <2>3. QED BY <1>2, <2>1, <2>2
<1>7. QED BY <1>3, <1>4, <1>5, <1>6

\* It leaves the texts as they should be, too.
LEMMA LinkPhaseMore ==
    ASSUME LinkPhase, revision \in Nat, NEW t \in Told(revision),
           wire' = IF joined = "No" THEN wire ELSE Append(wire, t),
           UNCHANGED <<revision, joined, client, greeting>>
    PROVE  LinkPhase'
<1>1. CASE joined # "Welcomed"
  BY <1>1 DEF LinkPhase
<1>2. CASE joined = "Welcomed"
  <2>1. Linked(client, wire, revision) /\ wire' = Append(wire, t)
    BY <1>2 DEF LinkPhase
  <2>2. Linked(client, Append(wire, t), revision)
    BY <2>1, ReachedMore
  <2>3. QED BY <1>2, <2>1, <2>2 DEF LinkPhase
<1>3. QED BY <1>1, <1>2

\* Heard by a client that starts without predictions, the texts sent since it
\* was put on the roster leave its revision; one more is heard after them.
LEMMA ForetoldFacts ==
    ASSUME LinkPhase, joined \in {"No", "Registered"}, revision \in Nat,
           NEW k \in Link, revision <= k.revision, k.predicted = [p \in Ids |-> None]
    PROVE  LET f == FoldLeft(Heard, k, wire)
           IN  /\ f \in Link /\ f.revision = k.revision
               /\ \A t \in Told(revision) : FoldLeft(Heard, k, Append(wire, t)) = Heard(f, t)
<1>1. wire \in Seq(Told(revision))
  BY DEF LinkPhase
<1>2. k.revision \in Nat
  BY DEF Link
<1>3. Told(revision) \subseteq Told(k.revision)
  BY <1>2, ToldGrows
<1>4. wire \in Seq(Told(k.revision))
  BY <1>1, <1>3
<1>5. FoldLeft(Heard, k, wire) \in Link /\ FoldLeft(Heard, k, wire).revision = k.revision
  BY <1>4, CoveredTexts
<1>6. \A t \in Told(revision) :
          FoldLeft(Heard, k, Append(wire, t)) = Heard(FoldLeft(Heard, k, wire), t)
  BY <1>1, HearFacts
<1>7. QED BY <1>5, <1>6

\* Nothing is sent, and motions go on or end.
LEMMA ForetoldSame ==
    ASSUME Foretelling, UNCHANGED <<wire, joined>>, revision \in Nat, revision' \in Nat,
           revision <= revision',
           \A p \in Ids : motion'[p] # None =>
               motion[p] # None /\ motion'[p].destination = motion[p].destination
    PROVE  Foretelling'
<1> SUFFICES ASSUME joined \in {"No", "Registered"}, NEW k \in Link, revision' <= k.revision,
                    k.predicted = [p \in Ids |-> None],
                    NEW f, f = FoldLeft(Heard, k, wire), NEW p \in Ids,
                    f.predicted[p] # None, motion'[p] # None
             PROVE  f.predicted[p].destination = motion'[p].destination
  BY DEF Foretelling, Foretold
<1>1. k.revision \in Nat
  BY DEF Link
<1>2. revision <= k.revision
  BY <1>1
<1>3. f.predicted[p].destination = motion[p].destination
  BY <1>2 DEF Foretelling, Foretold
<1>4. QED BY <1>3

\* The outbox holds at most an update.
LEMMA OutboxTold ==
    ASSUME NEW n \in Nat, NEW o, NEW es \in Seq(Event), NEW r \in 1 .. n,
           o = <<>> \/ o = <<UpdateText(es, r)>>
    PROVE  /\ o \in Seq(Told(n))
           /\ \A j \in DOMAIN o, m \in Motion : o[j] # MotionText(m)
<1>1. UpdateText(es, r) \in Told(n)
  BY DEF Told
<1>2. \A m \in Motion : UpdateText(es, r) # MotionText(m)
  BY DEF UpdateText, MotionText
<1> DEFINE t == UpdateText(es, r)
<1> HIDE DEF t
<1>3. t \in Told(n) /\ (\A m \in Motion : t # MotionText(m)) /\ (o = <<>> \/ o = <<t>>)
  BY <1>1, <1>2 DEF t
<1>4. CASE o = <<>>
  BY <1>4
<1>5. CASE o = <<t>>
  <2>1. DOMAIN o = {1} /\ o[1] = t /\ o \in Seq(Told(n))
    BY <1>3, <1>5
  <2>2. QED BY <1>3, <2>1
<1>6. QED BY <1>3, <1>4, <1>5

LEMMA OutboxIsTold ==
    ASSUME Texted
    PROVE  /\ outbox \in Seq(Told(revision))
           /\ \A j \in DOMAIN outbox, m \in Motion : outbox[j] # MotionText(m)
<1>1. CASE outbox = <<>>
  BY <1>1
<1>2. CASE outbox # <<>>
  BY <1>2, OutboxTold DEF Texted
<1>3. QED BY <1>1, <1>2

\* The engine's and the server's part at rest: what is sent, taken and applied
\* only moves texts along.
LEMMA StillShown ==
    ASSUME Agreement, UNCHANGED <<vars, events, history, revision, untold>>,
           Expecting' => Expecting /\ CaughtUp' = CaughtUp
    PROVE  Agreement'
<1>1. Expecting' => Expecting /\ Ahead' = Ahead
  BY DEF Ahead
<1>2. NoPieceVanishes' <=> NoPieceVanishes
  BY DEF NoPieceVanishes, vars, OnBoard, Holds, Jumping, Active, Due
<1>3. \A p : Active(p)' <=> Active(p)
  BY DEF vars, Active, Due
<1>4. ASSUME NEW k, Shows(k) PROVE Shows(k)'
  BY <1>2, <1>3, <1>4 DEF Shows, BoardShown, HistoryShown, MotionsShown, vars
<1>5. QED BY <1>1, <1>4 DEF Agreement
-----------------------------------------------------------------------------
\* Every step is one of the engine's, or leaves it alone.

LEMMA LegalOnBoard ==
    ASSUME NEW b, NEW c, b[c] \in Piece PROVE LegalDestinations(b, c) \subseteq Cells
<1>1. b[c].kind \in Kinds
  BY DEF Piece
<1>2. \A color, dirs : /\ SlidingDestinations(b, c, color, dirs) \subseteq Cells
                       /\ SteppingDestinations(b, c, color, dirs) \subseteq Cells
  BY DEF SlidingDestinations, SteppingDestinations
<1>3. PawnDestinations(b, c, b[c]) \subseteq Cells
  BY DEF PawnDestinations
<1> DEFINE k == b[c].kind
           color == ColorOf[b[c].id]
<1>4. LegalDestinations(b, c) \in
         {SlidingDestinations(b, c, color, Straight), SlidingDestinations(b, c, color, Diagonal),
          SlidingDestinations(b, c, color, Straight \cup Diagonal),
          SteppingDestinations(b, c, color, Straight \cup Diagonal),
          SteppingDestinations(b, c, color, KnightOffsets),
          SteppingDestinations(b, c, color, DroneOffsets), PawnDestinations(b, c, b[c])}
  BY <1>1 DEF LegalDestinations, Kinds
<1>5. QED BY <1>2, <1>3, <1>4

\* What an applied request asks of the engine.
LEMMA RequestApplied ==
    ASSUME Captures, ApplyRequest
    PROVE  \/ UNCHANGED <<vars, wire, untold>>
           \/ \E c, d \in Cells : /\ RequestMove(c, d) \/ RequestJump(c)
                                  /\ Announce(board[c].id)
<1> DEFINE r == DecodedClient(Head(requests))
           q == board[r.source].id
<1> SUFFICES ASSUME ~UNCHANGED <<vars, wire, untold>>
             PROVE  \E c, d \in Cells : /\ RequestMove(c, d) \/ RequestJump(c)
                                        /\ Announce(board[c].id)
  OBVIOUS
<1>1. /\ Owns(r.source)
      /\ r.kind = "Move" => ValidMove(board, r.source, r.destination)
      /\ IF r.kind = "Move" THEN RequestMove(r.source, r.destination) ELSE RequestJump(r.source)
      /\ Announce(q)
  BY DEF ApplyRequest
<1> HIDE DEF r
<1>2. r.source \in Cells /\ board[r.source] \in Piece
  <2>1. r.source \in Cells /\ board[r.source] # None
    BY <1>1 DEF Owns, Occupied
  <2>2. board \in [Cells -> Piece \cup {None}]
    BY DEF Captures, Placement, TypeOK, Boards
  <2>3. QED BY <2>1, <2>2
<1>3. CASE r.kind = "Move"
  <2>1. r.destination \in Cells
    <3>1. r.destination \in LegalDestinations(board, r.source)
      BY <1>1, <1>3 DEF ValidMove
    <3>2. LegalDestinations(board, r.source) \subseteq Cells
      BY <1>2, LegalOnBoard
    <3>3. QED BY <3>1, <3>2
  <2>2. QED BY <1>1, <1>2, <1>3, <2>1
<1>4. CASE r.kind # "Move"
  BY <1>1, <1>2, <1>4
<1>5. QED BY <1>3, <1>4

LEMMA EngineStep == ASSUME Captures, MirrorNext PROVE [Next]_vars
<1>1. ASSUME NEW p \in Ids, OtherRequest(p) PROVE Next
  BY <1>1 DEF OtherRequest, Next
<1>2. ASSUME NEW p \in Ids, Arrive(p) PROVE Next
  BY <1>2 DEF Arrive, Next
<1>3. ASSUME ApplyRequest PROVE [Next]_vars
  BY <1>3, RequestApplied DEF Next
<1>4. ASSUME NEW ms \in TickSizes, StartWait(ms) PROVE Next
  BY <1>4 DEF StartWait, Next
<1>5. ASSUME FinishWait PROVE Next
  BY <1>5 DEF FinishWait, Next
<1>6. ASSUME \/ Publish \/ Register \/ Snapshot \/ SendWelcome \/ TakeWelcome \/ Apply
             \/ (\E x, y \in Pixels : Click(x, y) \/ DoubleClick(x, y)) \/ AtBound
      PROVE  UNCHANGED vars
  BY <1>6 DEF Publish, Register, Snapshot, SendWelcome, TakeWelcome, Apply, Click, DoubleClick,
              AtBound, mirrorVars
<1>7. QED BY <1>1, <1>2, <1>3, <1>4, <1>5, <1>6 DEF MirrorNext

-----------------------------------------------------------------------------
\* The steps, one by one.

\* A motion begun and announced.
LEMMA MirroredRequest ==
    ASSUME Mirrored, Captures', NEW c \in Cells, NEW d \in Cells,
           RequestMove(c, d) \/ RequestJump(c), outbox = <<>>, Announce(board[c].id),
           UNCHANGED <<serverVars, joined, greeting, client>>
    PROVE  Texted' /\ LinkPhase' /\ Foretelling' /\ Agreement'
<1>0. PICK p, m, t : p = board[c].id /\ m = motion'[p] /\ t = MotionText(m)
  OBVIOUS
<1>1. /\ tick = 0 /\ p \in Ids /\ motion[p] = None /\ motion'[p] = m
      /\ m \in Motion /\ m.piece.id = p /\ ~Due(m)
      /\ \A q \in Ids \ {p} : motion'[q] = motion[q]
      /\ \A x \in Cells : Seen(board'[x]) = Seen(board[x])
      /\ UNCHANGED <<captured, tick, pending, fallen>>
  BY <1>0, StartFacts DEF Mirrored
<1>2. Texted'
  BY <1>1 DEF Mirrored, Texted, serverVars
<1>3. t \in Told(revision) /\ revision \in Nat
  BY <1>0, <1>1 DEF Told, Mirrored, Texted
<1>4. /\ wire' = IF joined = "No" THEN wire ELSE Append(wire, t)
      /\ untold' = untold \ {p}
      /\ UNCHANGED <<events, history, revision, outbox, joined, greeting, client>>
  BY <1>0 DEF Announce, ToRoster, serverVars
<1>5. [Next]_vars
  BY DEF Next
<1>6. LinkPhase'
  BY <1>3, <1>4, LinkPhaseMore DEF Mirrored
<1>7. Foretelling'
  <2> SUFFICES ASSUME joined \in {"No", "Registered"}, NEW k \in Link, revision <= k.revision,
                      k.predicted = [q \in Ids |-> None],
                      NEW n, n = FoldLeft(Heard, k, wire'), NEW q \in Ids,
                      n.predicted[q] # None, motion'[q] # None
               PROVE  n.predicted[q].destination = motion'[q].destination
    BY <1>4 DEF Foretelling, Foretold
  <2>1. PICK f : f = FoldLeft(Heard, k, wire)
    OBVIOUS
  <2>2. f \in Link /\ FoldLeft(Heard, k, Append(wire, t)) = Heard(f, t)
    BY <1>3, <2>1, ForetoldFacts DEF Mirrored
  <2>3. \A r \in Ids : f.predicted[r] # None /\ motion[r] # None =>
            f.predicted[r].destination = motion[r].destination
    BY <2>1 DEF Mirrored, Foretelling, Foretold
  <2>4. CASE joined = "No"
    <3>1. n = f /\ wire = <<>> /\ <<>> \in Seq(Told(revision))
      BY <1>4, <2>1, <2>4 DEF Mirrored, LinkPhase
    <3>2. f = k
      BY <1>3, <2>1, <3>1, HearFacts
    <3>3. QED BY <3>1, <3>2
  <2>5. CASE joined = "Registered"
    <3>1. n = Heard(f, t)
      BY <1>4, <2>2, <2>5
    <3>2. n = [f EXCEPT !.predicted[m.piece.id] = m]
      BY <1>0, <1>1, <2>2, <3>1, HeardMotion
    <3>3. n.predicted[p] = m /\ \A r \in Ids \ {p} : n.predicted[r] = f.predicted[r]
      <4>1. f.predicted \in [Ids -> Motion \cup {None}]
        BY <2>2 DEF Link
      <4>2. QED BY <1>1, <2>2, <3>2, <4>1 DEF Link
    <3>4. CASE q = p
      BY <1>1, <3>3, <3>4
    <3>5. CASE q # p
      <4>1. n.predicted[q] = f.predicted[q] /\ motion'[q] = motion[q]
        BY <1>1, <3>3, <3>5
      <4>2. QED BY <2>3, <4>1
    <3>6. QED BY <3>4, <3>5
  <2>6. QED BY <2>4, <2>5
<1>8. CASE ~Expecting
  BY <1>2, <1>4, <1>6, <1>7, <1>8 DEF Agreement, Expecting
<1>9. CASE Expecting
  <2>5. PICK k, n : k = CaughtUp /\ n = Heard(k, t)
    OBVIOUS
  <2>6. n = CaughtUp'
    <3>1. wire' = Append(wire, t) /\ LinkPhase
      BY <1>4, <1>9 DEF Expecting, Mirrored
    <3>2. Sent \o <<>> = Sent /\ Sent' \o <<>> = Sent'
      <4>1. Sent \o <<>> = Sent
        BY <1>3, <1>9, <3>1, SentLinked
      <4>2. (Append(wire, t) \o greeting) \o <<>> = Append(wire, t) \o greeting
        BY <1>3, <1>9, <3>1, SentMore
      <4>3. QED BY <1>4, <3>1, <4>1, <4>2 DEF Sent
    <3>3. k = Reached(client, Sent) /\ CaughtUp' = Reached(client, Append(wire, t) \o greeting)
      BY <1>4, <2>5, <3>1, <3>2 DEF CaughtUp, Reached, Sent
    <3>4. QED BY <1>3, <1>9, <2>5, <3>1, <3>3, SentMore
  <2>7. k \in Link /\ k.revision = revision /\ Shows(Ahead)
    BY <1>9, <2>5 DEF Mirrored, Agreement
  <2>8. n = [k EXCEPT !.predicted[m.piece.id] = m] /\ n \in Link
    BY <1>0, <1>1, <2>5, <2>7, HeardMotion
  <2>9. /\ n.revision = k.revision /\ n.board = k.board
        /\ n.observers = k.observers
        /\ n.predicted[p] = m /\ \A q \in Ids \ {p} : n.predicted[q] = k.predicted[q]
    <3>1. k.predicted \in [Ids -> Motion \cup {None}]
      BY <2>7 DEF Link
    <3>2. QED BY <1>1, <2>7, <2>8, <3>1 DEF Link
  <2>10. events = <<>> /\ revision + 1 \in Nat
    BY <1>1, <1>3 DEF Mirrored, Texted
  <2>11. PICK a, o : a = Turned(n, revision + 1) /\ o = Ahead
    OBVIOUS
  <2>12. o.board = k.board /\ o.predicted = k.predicted
         /\ o.observers = k.observers
    BY <1>1, <2>5, <2>7, <2>11, AheadAtRest DEF Mirrored
  <2>13. /\ Ahead' = a /\ a.board = n.board
         /\ a.predicted = n.predicted /\ a.observers = n.observers
    <3>1. Ahead' = FoldLeft(AfterEvent, a, <<>>)
      BY <1>4, <2>6, <2>10, <2>11 DEF Ahead
    <3>2. QED BY <2>8, <2>10, <2>11, <3>1, TurnedFacts
  <2>14. BoardShown(a)'
    <3>1. NoPieceVanishes' => NoPieceVanishes
      BY <1>5, VanishedStays DEF Mirrored
    <3>2. BoardShown(o)
      BY <2>7, <2>11 DEF Shows
    <3>3. a.board = o.board
      BY <2>9, <2>12, <2>13
    <3>4. QED BY <1>1, <3>1, <3>2, <3>3 DEF BoardShown
  <2>15. HistoryShown(a)'
    BY <1>4, <2>7, <2>9, <2>11, <2>12, <2>13 DEF Shows, HistoryShown
  <2>16. MotionsShown(a)'
    <3> SUFFICES ASSUME NEW q \in Ids \ untold', a.predicted[q] # None
                 PROVE  /\ motion'[q] # None /\ Active(q)' /\ q \notin fallen'
                        /\ a.predicted[q].destination = motion'[q].destination
      BY DEF MotionsShown
    <3>1. fallen = {}
      BY <1>1 DEF Mirrored, Captures, Placement, BatchPhase
    <3>2. CASE q = p
      <4>1. a.predicted[q] = m /\ motion'[q] = m /\ m # None
        BY <1>1, <2>9, <2>13, <3>2, NoMotionAssumption
      <4>2. Active(q)'
        BY <1>1, <4>1 DEF Active, Due
      <4>3. QED BY <1>1, <3>1, <4>1, <4>2
    <3>3. CASE q # p
      <4>1. a.predicted[q] = o.predicted[q] /\ q \notin untold /\ motion'[q] = motion[q]
        BY <1>1, <1>4, <2>9, <2>12, <2>13, <3>3
      <4>2. /\ motion[q] # None /\ Active(q) /\ q \notin fallen
            /\ o.predicted[q].destination = motion[q].destination
        BY <2>7, <2>11, <4>1 DEF Shows, MotionsShown
      <4>3. Active(q)'
        BY <1>1, <4>1, <4>2 DEF Active, Due
      <4>4. QED BY <1>1, <4>1, <4>2, <4>3
    <3>4. QED BY <3>2, <3>3
  <2>17. Agreement'
    <3>1. Shows(a)'
      BY <2>14, <2>15, <2>16 DEF Shows
    <3>2. Shows(Ahead)'
      BY <2>13, <3>1 DEF Shows, BoardShown, HistoryShown, MotionsShown
    <3>3. CaughtUp' \in Link /\ CaughtUp'.revision = revision'
      BY <1>4, <2>6, <2>7, <2>8, <2>9
    <3>4. QED BY <3>2, <3>3 DEF Agreement
  <2>18. QED BY <1>2, <1>6, <1>7, <2>17
<1>10. QED BY <1>8, <1>9

\* A wait begun.
LEMMA MirroredBegin ==
    ASSUME Mirrored, Captures', NEW ms \in TickSizes, StartWait(ms)
    PROVE  Texted' /\ LinkPhase' /\ Foretelling' /\ Agreement'
<1>1. /\ tick = 0 /\ tick' > 0 /\ events' = <<>> /\ outbox = <<>>
      /\ UNCHANGED <<board, history, revision, outbox, wire, joined, greeting, client, untold>>
      /\ BeginTick(ms)
  BY BeginFacts DEF StartWait, Mirrored, Free, ClientStays
<1>2. events = <<>> /\ events' = events /\ fallen' = {}
  BY <1>1, BeginFacts DEF Mirrored, Texted
<1>3. Texted'
  BY <1>1, <1>2 DEF Mirrored, Texted
<1>4. LinkPhase' /\ Foretelling'
  <2>1. LinkPhase'
    BY <1>1 DEF Mirrored, LinkPhase
  <2>2. \A p \in Ids : motion'[p] # None =>
            motion[p] # None /\ motion'[p].destination = motion[p].destination
    BY <1>1, BeginFacts DEF Mirrored
  <2>3. revision \in Nat /\ revision' \in Nat /\ revision <= revision'
    BY <1>1 DEF Mirrored, Texted
  <2>4. QED BY <1>1, <2>1, <2>2, <2>3, ForetoldSame DEF Mirrored
<1>5. CaughtUp' = CaughtUp
  BY <1>1 DEF CaughtUp
<1>6. PICK o : o = Ahead
  OBVIOUS
<1>7. o = Ahead'
  BY <1>1, <1>2, <1>5, <1>6 DEF Ahead
<1>8. ASSUME Shows(o) PROVE Shows(o)'
  <2>1. [Next]_vars
    BY <1>1 DEF Next
  <2>2. BoardShown(o)'
    <3>1. NoPieceVanishes' => NoPieceVanishes
      BY <2>1, VanishedStays DEF Mirrored
    <3>2. QED BY <1>1, <1>8, <3>1 DEF Shows, BoardShown
  <2>3. HistoryShown(o)'
    BY <1>1, <1>2, <1>8 DEF Shows, HistoryShown
  <2>4. MotionsShown(o)'
    <3> SUFFICES ASSUME NEW q \in Ids \ untold', o.predicted[q] # None
                 PROVE  /\ motion'[q] # None /\ Active(q)' /\ q \notin fallen'
                        /\ o.predicted[q].destination = motion'[q].destination
      BY DEF MotionsShown
    <3>1. motion[q] # None /\ o.predicted[q].destination = motion[q].destination
      BY <1>1, <1>8 DEF Shows, MotionsShown
    <3>2. /\ motion'[q] # None /\ Active(q)'
          /\ motion'[q].destination = motion[q].destination
      BY <1>1, <3>1, BeginFacts DEF Mirrored
    <3>3. QED BY <1>2, <3>1, <3>2
  <2>5. QED BY <2>2, <2>3, <2>4 DEF Shows
<1>9. Agreement'
  <2> SUFFICES ASSUME Expecting
               PROVE  CaughtUp' \in Link /\ CaughtUp'.revision = revision' /\ Shows(Ahead)'
    BY <1>1 DEF Agreement, Expecting
  <2>1. CaughtUp \in Link /\ CaughtUp.revision = revision /\ Shows(o)
    BY <1>6 DEF Mirrored, Agreement
  <2>2. Shows(o)'
    BY <1>8, <2>1
  <2>3. Shows(Ahead)'
    BY <1>7, <2>2 DEF Shows, BoardShown, HistoryShown, MotionsShown
  <2>4. QED BY <1>1, <1>5, <2>1, <2>3
<1>10. QED BY <1>3, <1>4, <1>9

\* An arrival skipped.
LEMMA MirroredSkip ==
    ASSUME Mirrored, NEW p \in Ids, SkipArrival(p), UNCHANGED events,
           UNCHANGED <<history, revision, outbox, wire, joined, greeting, client, untold>>
    PROVE  Texted' /\ LinkPhase' /\ Foretelling' /\ Agreement'
<1>1. /\ UNCHANGED <<board, motion, captured, tick, fallen>> /\ pending' = pending \ {p}
      /\ p \in fallen
  BY DEF SkipArrival, NextArrival
<1>2. Texted' /\ LinkPhase' /\ Foretelling'
  BY <1>1 DEF Mirrored, Texted, LinkPhase, Foretelling, Foretold
<1>3. PICK o : o = Ahead
  OBVIOUS
<1>4. CaughtUp' = CaughtUp /\ o = Ahead'
  BY <1>3 DEF CaughtUp, Ahead
<1>5. ASSUME Shows(o) PROVE Shows(o)'
  <2>1. [Next]_vars
    BY DEF Next
  <2>2. BoardShown(o)'
    <3>1. NoPieceVanishes' => NoPieceVanishes
      BY <2>1, VanishedStays DEF Mirrored
    <3>2. QED BY <1>1, <1>5, <3>1 DEF Shows, BoardShown
  <2>3. HistoryShown(o)'
    BY <1>1, <1>5 DEF Shows, HistoryShown
  <2>4. MotionsShown(o)'
    BY <1>1, <1>5 DEF Shows, MotionsShown, Active, Due
  <2>5. QED BY <2>2, <2>3, <2>4 DEF Shows
<1>6. Agreement'
  <2> SUFFICES ASSUME Expecting
               PROVE  CaughtUp' \in Link /\ CaughtUp'.revision = revision' /\ Shows(Ahead)'
    BY DEF Agreement, Expecting
  <2>1. CaughtUp \in Link /\ CaughtUp.revision = revision /\ Shows(o)
    BY <1>3 DEF Mirrored, Agreement
  <2>2. Shows(o)'
    BY <1>5, <2>1
  <2>3. Shows(Ahead)'
    BY <1>4, <2>2 DEF Shows, BoardShown, HistoryShown, MotionsShown
  <2>4. QED BY <1>4, <2>1, <2>3
<1>7. QED BY <1>2, <1>6

\* The event of an arrival.
LEMMA ArrivalEvent ==
    ASSUME Captures, NEW p \in Ids, ResolveArrival(p)
    PROVE  LET m == motion[p]
               e == ArrivalOf(board, m)
               kind == CollisionKind(m.piece, board[m.destination])
           IN  /\ e \in Event /\ e.piece.id = p /\ e.source = m.source
               /\ kind = "FriendlyBlocked" =>
                     /\ e.destination = m.source /\ e.captured = None
                     /\ Seen(e.piece) = Seen(m.piece)
               /\ kind # "FriendlyBlocked" =>
                     e.destination = m.destination /\ e.piece = Landed(m)
               /\ kind = "EnemyCaptured" =>
                     /\ e.captured = board[m.destination] /\ e.captured \in Piece
                     /\ captured' = captured \cup {e.captured}
                     /\ fallen' = fallen \cup {e.captured.id}
               /\ kind # "EnemyCaptured" =>
                     e.captured = None /\ UNCHANGED <<captured, fallen>>
<1> DEFINE m == motion[p]
           e == ArrivalOf(board, m)
           kind == CollisionKind(m.piece, board[m.destination])
<1>1. /\ p \in pending /\ p \notin fallen /\ m \in Motion /\ m.piece.id = p
      /\ m.source \in Cells /\ m.destination \in Cells
  BY ArrivalFacts
<1>2. m.piece \in Piece /\ m.jump \in BOOLEAN
  BY <1>1 DEF Motion
<1>3. /\ kind = "EnemyCaptured" =>
            /\ board[m.destination] \in Piece
            /\ fallen' = fallen \cup {board[m.destination].id}
            /\ captured' = captured \cup {board[m.destination]}
      /\ kind # "EnemyCaptured" => UNCHANGED <<fallen, captured>>
  BY <1>1, CaptureFacts DEF Captures
<1>4. PICK i : i = [m.piece EXCEPT !.state = "Idle"]
  OBVIOUS
<1>5. i \in Piece /\ i.id = p /\ Seen(i) = Seen(m.piece)
  <2>1. /\ i \in Piece /\ i.id = m.piece.id /\ i.kind = m.piece.kind /\ i.moved = m.piece.moved
    BY <1>2, <1>4 DEF Piece, States
  <2>2. i # None /\ m.piece # None
    BY <1>2, <2>1, NoneAssumption
  <2>3. QED BY <1>1, <2>1, <2>2 DEF Seen
<1>6. PICK x : x = Landed(m)
  OBVIOUS
<1>7. x \in Piece /\ x.id = p
  BY <1>1, <1>6, LandedType
<1> HIDE DEF kind, m
<1>8. CASE kind = "FriendlyBlocked"
  <2>1. e = [piece |-> i, source |-> m.source, destination |-> m.source, jump |-> m.jump,
             promoted |-> FALSE, captured |-> None]
    BY <1>4, <1>8 DEF ArrivalOf, kind
  <2> HIDE DEF e
  <2>2. /\ e \in Event /\ e.piece = i /\ e.source = m.source /\ e.destination = m.source
        /\ e.captured = None
    BY <1>1, <1>2, <1>5, <2>1 DEF Event
  <2>3. QED BY <1>3, <1>5, <1>8, <2>2 DEF e, m, kind
<1>9. CASE kind # "FriendlyBlocked"
  <2>1. PICK y : y = IF kind = "EnemyCaptured" THEN board[m.destination] ELSE None
    OBVIOUS
  <2>2. PICK z : z = (x.kind # m.piece.kind)
    OBVIOUS
  <2>3. e = [piece |-> x, source |-> m.source, destination |-> m.destination, jump |-> m.jump,
             promoted |-> z, captured |-> y]
    BY <1>6, <1>9, <2>1, <2>2 DEF ArrivalOf, kind
  <2>4. z \in BOOLEAN /\ y \in Piece \cup {None}
    BY <1>3, <2>1, <2>2
  <2> HIDE DEF e
  <2>5. /\ e \in Event /\ e.piece = x /\ e.source = m.source /\ e.destination = m.destination
        /\ e.captured = y
    BY <1>1, <1>2, <1>7, <2>3, <2>4 DEF Event
  <2>6. QED BY <1>3, <1>6, <1>7, <1>9, <2>1, <2>5 DEF e, m, kind
<1>10. QED BY <1>8, <1>9

\* Replayed on what the client shows, it gives what the engine gets, unless a
\* blocked jumper vanishes.
LEMMA ReplayedArrival ==
    ASSUME Captures, Captures', Provenance, NEW p \in Ids, ResolveArrival(p), NoPieceVanishes',
           NEW b \in Boards, \A c \in Cells : Seen(b[c]) = Seen(board[c]),
           NEW c \in Cells
    PROVE  Seen(Replayed(b, ArrivalOf(board, motion[p]))[c]) = Seen(board'[c])
<1>1. PICK m, e, kind : /\ m = motion[p] /\ e = ArrivalOf(board, m)
                        /\ kind = CollisionKind(m.piece, board[m.destination])
  OBVIOUS
<1>2. /\ m \in Motion /\ m.piece.id = p /\ p \in InFlight /\ Active(p) /\ ~Active(p)'
      /\ p \in pending /\ p \notin fallen
      /\ m.source \in Cells /\ m.destination \in Cells
      /\ e \in Event /\ e.source = m.source /\ e.destination \in Cells
  BY <1>1, ArrivalFacts, ArrivalEvent DEF Event
<1>3. Replayed(b, e) = [x \in Cells |-> IF x = e.destination THEN e.piece
                                        ELSE IF x = e.source THEN None ELSE b[x]]
  BY <1>2 DEF Replayed, Boards
<1>4. CASE kind = "FriendlyBlocked"
  <2>1. e.destination = m.source /\ Seen(e.piece) = Seen(m.piece)
    BY <1>1, <1>4, ArrivalEvent
  <2>2. /\ \A x \in Cells : Seen(board'[x]) = Seen(board[x])
        /\ \A q : \A x \in Cells : Holds(board', x, q) <=> Holds(board, x, q)
        /\ UNCHANGED captured
    BY <1>1, <1>4, ArrivalBoard
  <2>3. CASE c # m.source
    BY <1>1, <1>2, <1>3, <2>1, <2>2, <2>3
  <2>4. CASE c = m.source
    <3>1. ~m.jump
      <4> SUFFICES ASSUME m.jump PROVE FALSE
        OBVIOUS
      <4>1. m.destination = m.source /\ Jumping(p)
        BY <1>1, <1>2 DEF Jumping, Captures, Placement, MotionsFiled
      <4>2. board[m.source] # None /\ board[m.source].id # p
        BY <1>1, <1>2, <1>4, <4>1 DEF CollisionKind
      <4>3. ~OnBoard(p)
        <5>1. \A x \in Cells : Holds(board, x, p) => x = m.source
          BY <1>1, <1>2, <4>1 DEF Captures, Placement, JumperHome
        <5>2. QED BY <4>2, <5>1 DEF OnBoard, Holds
      <4>4. ~OnBoard(p)'
        BY <2>2, <4>3 DEF OnBoard
      <4>5. ~Jumping(p)'
        BY <1>2 DEF Jumping
      <4>6. ~Taken(p)'
        BY <2>2, <4>1 DEF Taken, Captures, CapturedGrounded
      <4>7. OnStart(p)
        BY <1>2 DEF Provenance, Native
      <4>8. QED BY <4>4, <4>5, <4>6, <4>7 DEF NoPieceVanishes, OnStart, Taken
    <3>2. Seen(board[m.source]) = Seen(m.piece)
      BY <1>1, <1>2, <3>1 DEF Provenance, MoverAsSnapshot
    <3>3. QED BY <1>1, <1>2, <1>3, <2>1, <2>2, <2>4, <3>2
  <2>5. QED BY <2>3, <2>4
<1>5. CASE kind # "FriendlyBlocked"
  <2>1. e.destination = m.destination /\ e.piece = Landed(m)
    BY <1>1, <1>5, ArrivalEvent
  <2>2. board' = [[board EXCEPT ![m.source] = None] EXCEPT ![m.destination] = Landed(m)]
    BY <1>1, <1>5, ArrivalBoard
  <2>3. board \in [Cells -> Piece \cup {None}]
    BY DEF Captures, Placement, TypeOK, Boards
  <2>4. board'[c] = IF c = m.destination THEN Landed(m)
                    ELSE IF c = m.source THEN None ELSE board[c]
    BY <1>2, <2>2, <2>3
  <2>5. Replayed(b, e)[c] = IF c = m.destination THEN Landed(m)
                            ELSE IF c = m.source THEN None ELSE b[c]
    BY <1>2, <1>3, <2>1
  <2>6. QED BY <1>1, <2>4, <2>5
<1>6. QED BY <1>4, <1>5

\* An arrival resolved.
LEMMA MirroredResolve ==
    ASSUME Mirrored, Captures', NEW p \in Ids, ResolveArrival(p),
           events' = Append(events, ArrivalOf(board, motion[p])),
           UNCHANGED <<history, revision, outbox, wire, joined, greeting, client, untold>>
    PROVE  Texted' /\ LinkPhase' /\ Foretelling' /\ Agreement'
<1>1. PICK m, e : m = motion[p] /\ e = ArrivalOf(board, m)
  OBVIOUS
<1>2. e \in Event /\ e.piece.id = p
  BY <1>1, ArrivalEvent DEF Mirrored
<1>3. tick > 0 /\ tick' = tick /\ tick \in Nat
  BY DEF ResolveArrival, NextArrival, Mirrored, Captures, Placement, TypeOK
<1>4. events \in Seq(Event) /\ history \in Seq(Event) /\ events' = Append(events, e)
      /\ events' \in Seq(Event)
  BY <1>1, <1>2 DEF Mirrored, Texted
<1>5. Texted' /\ LinkPhase' /\ Foretelling'
  <2>1. UNCHANGED motion
    BY ArrivalFacts DEF Mirrored
  <2>2. QED BY <1>3, <1>4, <2>1 DEF Mirrored, Texted, LinkPhase, Foretelling, Foretold
<1>6. CASE ~Expecting
  BY <1>5, <1>6 DEF Agreement, Expecting
<1>7. CASE Expecting
  <2>1. PICK k, o : k = Turned(CaughtUp, revision + 1) /\ o = Ahead
    OBVIOUS
  <2>2. CaughtUp' = CaughtUp /\ CaughtUp \in Link /\ CaughtUp.revision = revision /\ Shows(o)
    BY <1>7, <2>1 DEF CaughtUp, Mirrored, Agreement
  <2>3. k \in Link
    BY <2>1, <2>2, TurnedFacts DEF Mirrored, Texted
  <2>4. o = FoldLeft(AfterEvent, k, events) /\ Ahead' = FoldLeft(AfterEvent, k, Append(events, e))
    BY <1>4, <2>1, <2>2 DEF Ahead
  <2>5. PICK a : a = AfterEvent(o, e)
    OBVIOUS
  <2>6. a = Ahead' /\ o \in Link
    BY <1>2, <1>4, <2>3, <2>4, <2>5, ReplayFacts
  <2>7. /\ a.board = Replayed(o.board, e)
        /\ a.predicted = [q \in Ids |-> IF q \in Closed(e) THEN None ELSE o.predicted[q]]
        /\ a.observers = Observed(o.observers, e)
    BY <1>2, <2>5, <2>6, AfterEventFacts
  <2>8. [Next]_vars
    BY DEF Next
  <2>9. BoardShown(a)'
    <3> SUFFICES ASSUME NoPieceVanishes', NEW c \in Cells
                 PROVE  Seen(a.board[c]) = Seen(board'[c])
      BY DEF BoardShown
    <3>1. NoPieceVanishes
      BY <2>8, VanishedStays DEF Mirrored
    <3>2. \A x \in Cells : Seen(o.board[x]) = Seen(board[x])
      BY <2>2, <3>1 DEF Shows, BoardShown
    <3>3. o.board \in Boards
      BY <2>6 DEF Link
    <3>4. Seen(Replayed(o.board, e)[c]) = Seen(board'[c])
      BY <1>1, <3>2, <3>3, ReplayedArrival DEF Mirrored
    <3>5. QED BY <2>7, <3>4
  <2>10. HistoryShown(a)'
    <3>1. o.observers = FoldLeft(Observed, NewObservers, history \o events)
      BY <2>2 DEF Shows, HistoryShown
    <3>2. PICK h : h = history \o events
      OBVIOUS
    <3>3. h \in Seq(Event) /\ history \o Append(events, e) = Append(h, e)
      BY <1>2, <1>4, <3>2
    <3>4. Observe!FoldSequence(NewObservers, Append(h, e))
             = Observing(e, Observe!FoldSequence(NewObservers, h))
      BY <1>2, <3>3, FoldsByIndex, Observe!FoldAppend
    <3>5. FoldLeft(Observed, NewObservers, Append(h, e))
             = Observed(FoldLeft(Observed, NewObservers, h), e)
      BY <3>4, FoldsByIndex DEF Observing
    <3>6. a.observers = FoldLeft(Observed, NewObservers, Append(h, e))
      BY <2>7, <3>1, <3>2, <3>5
    <3>7. QED BY <1>4, <3>3, <3>6 DEF HistoryShown
  <2>11. MotionsShown(a)'
    <3> SUFFICES ASSUME NEW q \in Ids \ untold', a.predicted[q] # None
                 PROVE  /\ motion'[q] # None /\ Active(q)' /\ q \notin fallen'
                        /\ a.predicted[q].destination = motion'[q].destination
      BY DEF MotionsShown
    <3>1. q \notin Closed(e) /\ a.predicted[q] = o.predicted[q] /\ q \notin untold
      BY <2>7
    <3>2. /\ motion[q] # None /\ Active(q) /\ q \notin fallen
          /\ o.predicted[q].destination = motion[q].destination
      BY <2>2, <3>1 DEF Shows, MotionsShown
    <3>3. q # p
      BY <1>2, <3>1 DEF Closed
    <3>4. UNCHANGED motion /\ (Active(q)' <=> Active(q))
      BY <3>3, ArrivalFacts DEF Mirrored
    <3>5. q \notin fallen'
      <4>1. CASE e.captured = None
        <5>1. UNCHANGED fallen
          <6>1. CollisionKind(m.piece, board[m.destination]) # "EnemyCaptured"
            BY <1>1, <4>1, NoneAssumption, ArrivalEvent DEF Mirrored
          <6>2. QED BY <1>1, <6>1, ArrivalEvent DEF Mirrored
        <5>2. QED BY <3>2, <5>1
      <4>2. CASE e.captured # None
        <5>1. fallen' = fallen \cup {e.captured.id}
          <6>1. CollisionKind(m.piece, board[m.destination]) = "EnemyCaptured"
            BY <1>1, <4>2, ArrivalEvent DEF Mirrored
          <6>2. QED BY <1>1, <6>1, ArrivalEvent DEF Mirrored
        <5>2. QED BY <3>1, <3>2, <4>2, <5>1 DEF Closed
      <4>3. QED BY <4>1, <4>2
    <3>6. QED BY <3>1, <3>2, <3>4, <3>5
  <2>12. Shows(a)'
    BY <2>9, <2>10, <2>11 DEF Shows
  <2>13. Shows(Ahead)'
    BY <2>6, <2>12 DEF Shows, BoardShown, HistoryShown, MotionsShown
  <2>14. Agreement'
    BY <2>2, <2>13 DEF Agreement
  <2>15. QED BY <1>5, <2>14
<1>8. QED BY <1>6, <1>7

\* The wait over: what was ahead is caught up with once it is broadcast.
LEMMA MirroredFinish ==
    ASSUME Mirrored, Captures', FinishWait
    PROVE  Texted' /\ LinkPhase' /\ Foretelling' /\ Agreement'
<1>1. /\ tick > 0 /\ tick' = 0 /\ fallen' = {} /\ pending = {} /\ EndTick
      /\ history' = history \o events /\ events' = <<>>
      /\ UNCHANGED <<board, captured, wire, joined, greeting, client, untold>>
      /\ events = <<>> => UNCHANGED <<revision, outbox>>
      /\ events # <<>> => /\ revision' = revision + 1
                          /\ outbox' = <<UpdateText(events, revision + 1)>>
  BY DEF FinishWait, ClientStays, EndTick
<1>2. /\ events \in Seq(Event) /\ history \in Seq(Event) /\ revision \in Nat /\ outbox = <<>>
      /\ history' \in Seq(Event) /\ history' \o events' = history \o events
  BY <1>1 DEF Mirrored, Texted
<1>3. revision' \in Nat /\ revision <= revision'
  BY <1>1, <1>2
<1>4. Texted'
  <2>1. CASE events = <<>>
    BY <1>1, <1>2, <2>1 DEF Texted
  <2>2. CASE events # <<>>
    <3>1. revision + 1 \in 1 .. revision'
      BY <1>1, <1>2, <2>2
    <3>2. QED BY <1>1, <1>2, <1>3, <2>2, <3>1 DEF Texted
  <2>3. QED BY <2>1, <2>2
<1>5. LinkPhase'
  <2>1. CASE joined # "Welcomed"
    <3>1. Seq(Told(revision)) \subseteq Seq(Told(revision'))
      <4>1. Told(revision) \subseteq Told(revision')
        BY <1>2, <1>3, ToldGrows
      <4>2. \A S, T : S \subseteq T => Seq(S) \subseteq Seq(T)
        OBVIOUS
      <4>3. QED BY <4>1, <4>2
    <3>2. QED BY <1>1, <2>1, <3>1 DEF Mirrored, LinkPhase
  <2>2. CASE joined = "Welcomed"
    BY <1>1, <1>2, <1>3, <2>2, LinkedGrows DEF Mirrored, LinkPhase
  <2>3. QED BY <2>1, <2>2
<1>6. Foretelling'
  <2>1. \A p \in Ids : motion'[p] # None =>
            motion[p] # None /\ motion'[p].destination = motion[p].destination
    <3>1. \A p \in Ids : motion'[p] = IF motion[p] = None \/ Ends(p) THEN None ELSE motion[p]
      BY <1>1 DEF EndTick
    <3>2. QED BY <3>1
  <2>2. QED BY <1>1, <1>2, <1>3, <2>1, ForetoldSame DEF Mirrored
<1>7. CASE ~Expecting
  BY <1>1, <1>4, <1>5, <1>6, <1>7 DEF Agreement, Expecting
<1>8. CASE Expecting
  <2>1. PICK k, o, n : k = CaughtUp /\ o = Ahead /\ n = CaughtUp'
    OBVIOUS
  <2>2. k \in Link /\ k.revision = revision /\ Shows(o)
    BY <1>8, <2>1 DEF Mirrored, Agreement
  <2>3. /\ Linked(client, Sent, revision) /\ Sent \in Seq(Texts(revision))
        /\ Sent \o <<>> = Sent /\ Sent' = Sent
    BY <1>1, <1>2, <1>8, SentLinked DEF Mirrored, Sent
  <2>5. k = Reached(client, Sent)
    BY <1>2, <2>1, <2>3, CaughtUpIs
  <2>6. /\ n \in Link /\ n.revision = revision'
        /\ n.board = o.board /\ n.predicted = o.predicted
        /\ n.observers = o.observers
    <3>1. CASE events = <<>>
      <4>1. n = k
        BY <1>1, <2>1, <3>1 DEF CaughtUp
      <4>2. o = FoldLeft(AfterEvent, Turned(k, revision + 1), <<>>)
        BY <2>1, <3>1 DEF Ahead
      <4>3. revision + 1 \in Nat
        BY <1>2
      <4>4. /\ o.board = k.board /\ o.predicted = k.predicted
            /\ o.observers = k.observers
        BY <2>2, <4>2, <4>3, TurnedFacts
      <4>5. QED BY <1>1, <2>2, <3>1, <4>1, <4>4
    <3>2. CASE events # <<>>
      <4>1. PICK t, r : t = UpdateText(events, revision + 1) /\ r = revision + 1
        OBVIOUS
      <4>2. /\ r \in Nat \ {0} /\ revision' = r /\ outbox' = <<t>>
            /\ t = UpdateText(events, r) /\ ~(r <= k.revision)
        BY <1>1, <1>2, <2>2, <3>2, <4>1
      <4>3. t \in Told(r)
        <5>1. r \in 1 .. r
          BY <4>2
        <5>2. QED BY <1>2, <4>2, <5>1 DEF Told
      <4>4. Linked(client, Sent, r)
        BY <1>2, <2>3, <4>1, <4>2, LinkedGrows
      <4>5. Sent \o <<t>> = Append(Sent, t)
        <5>1. Sent \in Seq(Texts(r)) /\ t \in Texts(r)
          BY <4>3, <4>4 DEF Linked, GreetedAt, Texts
        <5>2. QED BY <5>1
      <4>6. n = Reached(client, Append(Sent, t))
        BY <1>1, <2>1, <4>2, <4>5 DEF CaughtUp, Reached, Sent
      <4>7. n = Heard(k, t)
        BY <2>5, <4>2, <4>3, <4>4, <4>6, ReachedMore
      <4>8. n = FoldLeft(AfterEvent, [k EXCEPT !.revision = r], events) /\ n \in Link
        BY <1>2, <2>2, <4>2, <4>7, HeardUpdate
      <4>9. n = o
        BY <2>1, <4>1, <4>8 DEF Ahead, Turned
      <4>10. n.revision = r
        <5>1. Turned(k, r) \in Link /\ Turned(k, r).revision = r
          BY <2>2, <4>2, TurnedFacts
        <5>2. n = FoldLeft(AfterEvent, Turned(k, r), events)
          BY <4>8 DEF Turned
        <5>3. QED BY <1>2, <5>1, <5>2, ReplayFacts
      <4>11. QED BY <4>2, <4>8, <4>9, <4>10
    <3>3. QED BY <3>1, <3>2
  <2>7. PICK a : a = Turned(n, revision' + 1)
    OBVIOUS
  <2>8. /\ a = Ahead' /\ a.board = o.board
        /\ a.predicted = o.predicted /\ a.observers = o.observers
    <3>1. revision' + 1 \in Nat
      <4>1. \A x \in Nat : x + 1 \in Nat
        OBVIOUS
      <4>2. QED BY <1>3, <4>1
    <3>2. Ahead' = FoldLeft(AfterEvent, a, <<>>)
      BY <1>1, <2>1, <2>7 DEF Ahead
    <3>3. QED BY <2>6, <2>7, <3>1, <3>2, TurnedFacts
  <2>9. BoardShown(a)'
    <3>1. NoPieceVanishes' => NoPieceVanishes
      BY <1>1, VanishedStays DEF Mirrored, Next
    <3>2. QED BY <1>1, <2>2, <2>8, <3>1 DEF Shows, BoardShown
  <2>10. HistoryShown(a)'
    BY <1>2, <2>2, <2>8 DEF Shows, HistoryShown
  <2>11. MotionsShown(a)'
    <3> SUFFICES ASSUME NEW q \in Ids \ untold', a.predicted[q] # None
                 PROVE  /\ motion'[q] # None /\ Active(q)' /\ q \notin fallen'
                        /\ a.predicted[q].destination = motion'[q].destination
      BY DEF MotionsShown
    <3>1. /\ motion[q] # None /\ Active(q) /\ q \notin fallen
          /\ o.predicted[q].destination = motion[q].destination
      BY <1>1, <2>2, <2>8 DEF Shows, MotionsShown
    <3>2. ~Due(motion[q])
      BY <1>1, <3>1 DEF Active
    <3>3. motion'[q] = motion[q]
      BY <1>1, <3>1, <3>2 DEF EndTick, Ends
    <3>4. Active(q)'
      BY <3>1, <3>2, <3>3 DEF Active, Due
    <3>5. QED BY <1>1, <2>8, <3>1, <3>3, <3>4
  <2>12. Shows(a)'
    BY <2>9, <2>10, <2>11 DEF Shows
  <2>13. Shows(Ahead)'
    BY <2>8, <2>12 DEF Shows, BoardShown, HistoryShown, MotionsShown
  <2>14. Agreement'
    BY <2>1, <2>6, <2>13 DEF Agreement
  <2>15. QED BY <1>4, <1>5, <1>6, <2>14
<1>9. QED BY <1>7, <1>8

\* The update broadcast, to this client if it is on the roster by now.
LEMMA MirroredPublish ==
    ASSUME Mirrored, Publish PROVE Texted' /\ LinkPhase' /\ Foretelling' /\ Agreement'
<1>1. /\ outbox # <<>> /\ outbox' = <<>>
      /\ UNCHANGED <<vars, events, history, revision, joined, greeting, client, untold>>
      /\ tick' = tick /\ motion' = motion
  BY DEF Publish, ClientStays, vars
<1>2. PICK es \in Seq(Event), r \in 1 .. revision : outbox = <<UpdateText(es, r)>>
  BY <1>1 DEF Mirrored, Texted
<1>3. PICK t : t = UpdateText(es, r)
  OBVIOUS
<1>4. outbox = <<t>> /\ Head(outbox) = t /\ t \in Told(revision) /\ revision \in Nat
  BY <1>2, <1>3 DEF Told, Mirrored, Texted
<1>5. wire' = IF joined = "No" THEN wire ELSE Append(wire, t)
  BY <1>4 DEF Publish, ToRoster
<1>6. Texted'
  BY <1>1 DEF Mirrored, Texted
<1>7. LinkPhase'
  BY <1>1, <1>4, <1>5, LinkPhaseMore DEF Mirrored
<1>8. Foretelling'
  <2> SUFFICES ASSUME joined \in {"No", "Registered"}, NEW k \in Link, revision <= k.revision,
                      k.predicted = [q \in Ids |-> None]
               PROVE  FoldLeft(Heard, k, wire') = FoldLeft(Heard, k, wire)
    BY <1>1 DEF Mirrored, Foretelling, Foretold
  <2>1. PICK f : f = FoldLeft(Heard, k, wire)
    OBVIOUS
  <2>2. /\ f \in Link /\ f.revision = k.revision
        /\ FoldLeft(Heard, k, Append(wire, t)) = Heard(f, t)
    BY <1>4, <2>1, ForetoldFacts DEF Mirrored
  <2>3. r \in Nat \ {0} /\ r <= f.revision
    BY <1>4, <2>2 DEF Link
  <2>4. Heard(f, t) = f
    BY <1>3, <2>2, <2>3, HeardUpdate
  <2>5. QED BY <1>5, <2>1, <2>2, <2>4
<1>9. Expecting => CaughtUp' = CaughtUp
  <2> SUFFICES ASSUME Expecting PROVE CaughtUp' = CaughtUp
    OBVIOUS
  <2>1. wire' = Append(wire, t) /\ LinkPhase
    BY <1>5 DEF Expecting, Mirrored
  <2>2. (Append(wire, t) \o greeting) \o <<>> = Append(wire, t) \o greeting
    BY <1>4, <2>1, SentMore
  <2>3. CaughtUp' = Reached(client, Append(wire, t) \o greeting)
    BY <1>1, <2>1, <2>2 DEF CaughtUp, Reached
  <2>4. CaughtUp = Reached(client, Sent \o <<t>>)
    BY <1>4, CaughtUpIs
  <2>5. QED BY <1>4, <2>1, <2>3, <2>4, SentMore
<1>10. Agreement'
  BY <1>1, <1>9, StillShown DEF Mirrored, Expecting
<1>11. QED BY <1>6, <1>7, <1>8, <1>10

\* The client on the roster: from now on it is sent what is broadcast.
LEMMA MirroredRegister ==
    ASSUME Mirrored, Register PROVE Texted' /\ LinkPhase' /\ Foretelling' /\ Agreement'
<1>1. /\ joined = "No" /\ joined' = "Registered" /\ tick' = tick /\ motion' = motion
      /\ UNCHANGED <<vars, events, history, revision, outbox, greeting, wire, client>>
  BY DEF Register, serverVars, vars
<1>2. Texted'
  BY <1>1 DEF Mirrored, Texted
<1>3. LinkPhase'
  BY <1>1 DEF Mirrored, LinkPhase
<1>4. Foretelling'
  BY <1>1 DEF Mirrored, Foretelling, Foretold
<1>5. QED BY <1>1, <1>2, <1>3, <1>4 DEF Agreement, Expecting

\* The Welcome made, with the board as it is: it covers the updates sent so far
\* and the one about to be sent.
LEMMA MirroredSnapshot ==
    ASSUME Mirrored, Snapshot PROVE Texted' /\ LinkPhase' /\ Foretelling' /\ Agreement'
<1>1. /\ tick = 0 /\ joined = "Registered" /\ joined' = "Snapshotted"
      /\ greeting' = <<WelcomeText>>
      /\ untold' = {p \in Ids : motion[p] = None /\ Announced(p)}
      /\ UNCHANGED <<vars, events, history, revision, outbox, wire, client>> /\ tick' = tick
  BY DEF Snapshot, serverVars, vars
<1>2. Texted' /\ Foretelling'
  BY <1>1 DEF Mirrored, Texted, Foretelling
<1>3. /\ events = <<>> /\ history \in Seq(Event) /\ revision \in Nat /\ board \in Boards
      /\ client = NoClient /\ wire \in Seq(Told(revision)) /\ fallen = {} /\ pending = {}
  BY <1>1 DEF Mirrored, Texted, LinkPhase, Captures, Placement, TypeOK, BatchPhase
<1>4. PICK color, sp, g : /\ color = IF role = "Player" THEN OwnColor ELSE "White"
                          /\ sp = (role = "Spectator") /\ g = WelcomeText
  OBVIOUS
<1>5. color \in Colors /\ sp \in BOOLEAN /\ g = Greeting(color, board, sp, history, revision)
  BY <1>4, ClientAssumption DEF Colors, WelcomeText, Greeting
<1>6. g \in Greetings
  BY <1>3, <1>5 DEF Greetings
<1>7. LinkPhase'
  BY <1>1, <1>3, <1>4, <1>6 DEF LinkPhase
<1>8. PICK k, f : k = Welcomed(NoClient, g) /\ f = FoldLeft(Heard, k, wire)
  OBVIOUS
<1>9. /\ k \in Link /\ k.board = board /\ k.revision = revision
      /\ k.predicted = [p \in Ids |-> None]
      /\ k.observers = FoldLeft(Observed, NewObservers, history)
  BY <1>3, <1>5, <1>8, WelcomedFacts
<1>10. /\ f \in Link /\ f.board = k.board /\ f.revision = k.revision
       /\ f.observers = k.observers
       /\ \A p \in Ids : f.predicted[p] # None => p \in Named(wire)
  BY <1>3, <1>8, <1>9, CoveredTexts
<1>11. CaughtUp' = f
  <2>1. Append(wire, g) = wire \o <<g>>
    <3>1. wire \in Seq(Texts(revision)) /\ g \in Texts(revision)
      BY <1>3, <1>6 DEF Texts
    <3>2. QED BY <3>1
  <2>2. CaughtUp' = Reached(NoClient, Append(wire, g) \o outbox)
    BY <1>1, <1>3, <1>4, <2>1 DEF CaughtUp, Reached
  <2>3. outbox \in Seq(Told(revision))
    BY OutboxIsTold DEF Mirrored
  <2>4. CaughtUp' = FoldLeft(Heard, k, wire \o outbox)
    BY <1>3, <1>6, <1>8, <2>2, <2>3, ReachedByGreeting
  <2>5. CASE outbox = <<>>
    <3>1. wire \o <<>> = wire
      BY <1>3
    <3>2. QED BY <1>8, <2>4, <2>5, <3>1
  <2>6. CASE outbox # <<>>
    <3>1. PICK es \in Seq(Event), r \in 1 .. revision : outbox = <<UpdateText(es, r)>>
      BY <2>6 DEF Mirrored, Texted
    <3>2. PICK t : t = UpdateText(es, r)
      OBVIOUS
    <3>3. t \in Told(revision) /\ r \in Nat \ {0} /\ r <= f.revision
      BY <1>3, <1>9, <1>10, <3>2 DEF Told
    <3>4. wire \o <<t>> = Append(wire, t)
      BY <1>3, <3>3
    <3>5. FoldLeft(Heard, k, Append(wire, t)) = Heard(f, t)
      <4>1. LinkPhase /\ revision <= k.revision
        BY <1>3, <1>9 DEF Mirrored
      <4>2. QED BY <1>1, <1>3, <1>8, <1>9, <3>3, <4>1, ForetoldFacts
    <3>6. Heard(f, t) = f
      BY <1>10, <3>2, <3>3, HeardUpdate
    <3>7. QED BY <2>4, <3>1, <3>2, <3>4, <3>5, <3>6
  <2>7. QED BY <2>5, <2>6
<1>12. PICK a : a = Turned(f, revision + 1)
  OBVIOUS
<1>13. /\ a = Ahead' /\ a.board = f.board
       /\ a.predicted = f.predicted /\ a.observers = f.observers
  <2>1. revision + 1 \in Nat
    BY <1>3
  <2>2. Ahead' = FoldLeft(AfterEvent, a, <<>>)
    BY <1>1, <1>3, <1>11, <1>12 DEF Ahead
  <2>3. QED BY <1>10, <1>12, <2>1, <2>2, TurnedFacts
<1>14. MotionsShown(a)'
  <2> SUFFICES ASSUME NEW p \in Ids \ untold', f.predicted[p] # None
               PROVE  /\ motion[p] # None /\ Active(p) /\ p \notin fallen
                      /\ f.predicted[p].destination = motion[p].destination
    BY <1>1, <1>13 DEF MotionsShown, Active, Due, vars
  <2>1. PICK j \in DOMAIN wire, m \in Motion : wire[j] = MotionText(m) /\ m.piece.id = p
    BY <1>10 DEF Named
  <2>2. Announced(p)
    <3>1. /\ MotionText(m).type = "MotionStarted"
          /\ MotionText(m).payload.motion.moving_piece.id = p
      BY <2>1 DEF MotionText, MotionOnWire, PieceOnWire
    <3>2. QED BY <2>1, <3>1 DEF Announced
  <2>3. motion[p] # None
    BY <1>1, <2>2
  <2>4. f.predicted[p].destination = motion[p].destination
    <3>1. revision <= k.revision
      BY <1>3, <1>9
    <3>2. Foretold
      BY <1>1 DEF Mirrored, Foretelling
    <3>3. QED BY <1>8, <1>9, <2>3, <3>1, <3>2 DEF Foretold
  <2>5. Active(p)
    BY <1>1, <2>3 DEF Active, InFlight, Mirrored, Captures, Placement, BatchPhase
  <2>6. QED BY <1>3, <2>3, <2>4, <2>5
<1>15. Shows(a)'
  <2>1. board' = board /\ history' \o events' = history
    BY <1>1, <1>3 DEF vars
  <2>2. BoardShown(a)'
    BY <1>9, <1>10, <1>13, <2>1 DEF BoardShown
  <2>3. HistoryShown(a)'
    BY <1>9, <1>10, <1>13, <2>1 DEF HistoryShown
  <2>4. QED BY <1>14, <2>2, <2>3 DEF Shows
<1>16. Shows(Ahead)'
  BY <1>13, <1>15 DEF Shows, BoardShown, HistoryShown, MotionsShown
<1>17. Agreement'
  BY <1>1, <1>9, <1>10, <1>11, <1>16 DEF Agreement
<1>18. QED BY <1>2, <1>7, <1>17

\* The Welcome sent, behind whatever was sent since it was made.
LEMMA MirroredWelcome ==
    ASSUME Mirrored, SendWelcome PROVE Texted' /\ LinkPhase' /\ Foretelling' /\ Agreement'
<1>1. /\ joined = "Snapshotted" /\ joined' = "Welcomed"
      /\ wire' = Sent /\ greeting' = <<>>
      /\ UNCHANGED <<vars, events, history, revision, outbox, client, untold>> /\ tick' = tick
  BY DEF SendWelcome, serverVars, vars, Sent
<1>2. Texted' /\ Foretelling'
  BY <1>1 DEF Mirrored, Texted, Foretelling
<1>3. Linked(client, Sent, revision) /\ Sent \o <<>> = Sent
  BY <1>1, SentLinked DEF Mirrored, Texted, Expecting
<1>4. LinkPhase'
  BY <1>1, <1>3 DEF LinkPhase
<1>5. Sent' = Sent
  BY <1>1, <1>3 DEF Sent
<1>6. CaughtUp' = CaughtUp
  BY <1>1, <1>5 DEF CaughtUp, Sent
<1>7. Agreement'
  BY <1>1, <1>6, StillShown DEF Mirrored, Expecting
<1>8. QED BY <1>2, <1>4, <1>7

\* The client takes its Welcome, or the next text.
LEMMA MirroredHear ==
    ASSUME Mirrored, TakeWelcome \/ Apply
    PROVE  Texted' /\ LinkPhase' /\ Foretelling' /\ Agreement'
<1>1. /\ UNCHANGED <<vars, events, history, revision, outbox, joined, greeting, untold>>
      /\ tick' = tick
  BY DEF TakeWelcome, Apply, serverVars, vars
<1>2. Texted'
  BY <1>1 DEF Mirrored, Texted
<1>3. joined = "Welcomed"
  BY Boarded DEF TakeWelcome, Apply, Mirrored, LinkPhase
<1>4. Foretelling'
  BY <1>1, <1>3 DEF Foretelling
<1>5. /\ Linked(client, wire, revision) /\ revision \in Nat /\ outbox \in Seq(Told(revision))
      /\ greeting = <<>>
  BY <1>3, OutboxIsTold DEF Mirrored, LinkPhase, Texted
<1>6. /\ Linked(client', wire', revision)
      /\ Reached(client', wire' \o outbox) = Reached(client, wire \o outbox)
  <2>1. CASE TakeWelcome
    <3>1. client = NoClient
      BY <1>5, <2>1, Boarded DEF TakeWelcome, Linked
    <3>2. PICK i : GreetedAt(wire, i, revision)
      BY <1>5, <3>1, Boarded DEF Linked
    <3>3. client' = Welcomed(NoClient, wire[WelcomeIn(wire)]) /\ wire' = Queued(wire)
      BY <2>1, <3>1 DEF TakeWelcome
    <3>4. QED BY <1>5, <3>1, <3>2, <3>3, ReachedByWelcome
  <2>2. CASE Apply
    <3>1. client \in Link /\ wire \in Seq(Told(revision)) /\ wire # <<>>
      BY <1>5, <2>2, Boarded DEF Apply, Linked
    <3>2. client' = Heard(client, Head(wire)) /\ wire' = Tail(wire)
      BY <2>2 DEF Apply
    <3>3. QED BY <1>5, <3>1, <3>2, ReachedByApply
  <2>3. QED BY <2>1, <2>2
<1>7. LinkPhase'
  BY <1>1, <1>3, <1>5, <1>6 DEF LinkPhase
<1>8. Sent = wire /\ Sent' = wire'
  <2>1. wire \in Seq(Texts(revision)) /\ wire' \in Seq(Texts(revision))
    BY <1>5, <1>6 DEF Linked, GreetedAt, Texts
  <2>2. QED BY <1>1, <1>5, <2>1 DEF Sent
<1>9. CaughtUp' = CaughtUp
  <2>1. CaughtUp = Reached(client, wire \o outbox)
    BY <1>8, CaughtUpIs
  <2>2. CaughtUp' = Reached(client', wire' \o outbox)
    BY <1>1, <1>8 DEF CaughtUp, Reached, Sent
  <2>3. QED BY <1>6, <2>1, <2>2
<1>10. QED BY <1>1, <1>2, <1>4, <1>7, <1>9, StillShown DEF Mirrored, Expecting

\* What the client asks for is no concern of the mirror.
LEMMA MirroredAside ==
    ASSUME Mirrored,
           UNCHANGED <<vars, events, history, revision, outbox, joined, greeting, wire, client, untold>>
    PROVE  Texted' /\ LinkPhase' /\ Foretelling' /\ Agreement'
<1>1. tick' = tick /\ motion' = motion
  BY DEF vars
<1>2. Texted' /\ LinkPhase' /\ Foretelling'
  BY <1>1 DEF Mirrored, Texted, LinkPhase, Foretelling, Foretold
<1>3. CaughtUp' = CaughtUp
  BY DEF CaughtUp
<1>4. QED BY <1>2, <1>3, StillShown DEF Mirrored, Expecting

LEMMA MirroredStep == Mirrored /\ [MirrorNext]_mirrorVars => Mirrored'
<1> SUFFICES ASSUME Mirrored, [MirrorNext]_mirrorVars PROVE Mirrored'
  OBVIOUS
<1>1. [Next]_vars
  BY EngineStep DEF Mirrored, mirrorVars
<1>2. Captures' /\ Provenance'
  BY <1>1, CapturesStep, ProvenanceStep DEF Mirrored
<1> SUFFICES Texted' /\ LinkPhase' /\ Foretelling' /\ Agreement'
  BY <1>2 DEF Mirrored
<1>3. CASE \E p \in Ids : OtherRequest(p)
  <2>1. PICK p \in Ids, c \in Cells :
            /\ Free /\ Holds(board, c, p) /\ Announce(p)
            /\ RequestJump(c) \/ \E d \in Cells : RequestMove(c, d)
            /\ UNCHANGED <<serverVars, joined, greeting, client>>
    BY <1>3 DEF OtherRequest, ClientStays
  <2>2. p = board[c].id /\ outbox = <<>>
    BY <2>1 DEF Holds, Free
  <2>3. PICK d \in Cells : RequestMove(c, d) \/ RequestJump(c)
    BY <2>1
  <2>4. QED BY <1>2, <2>1, <2>2, <2>3, MirroredRequest
<1>4. CASE ApplyRequest
  <2>1. outbox = <<>> /\ UNCHANGED <<serverVars, joined, greeting, client>>
    BY <1>4 DEF ApplyRequest, Free, ClientStays
  <2>2. CASE UNCHANGED <<vars, wire, untold>>
    BY <2>1, <2>2, MirroredAside DEF serverVars
  <2>3. CASE \E c, d \in Cells : (RequestMove(c, d) \/ RequestJump(c)) /\ Announce(board[c].id)
    BY <1>2, <2>1, <2>3, MirroredRequest
  <2>4. QED BY <1>4, <2>2, <2>3, RequestApplied DEF Mirrored
<1>5. CASE \E ms \in TickSizes : StartWait(ms)
  BY <1>2, <1>5, MirroredBegin
<1>6. CASE \E p \in Ids : Arrive(p)
  BY <1>2, <1>6, MirroredSkip, MirroredResolve DEF Arrive, ClientStays
<1>7. CASE FinishWait
  BY <1>2, <1>7, MirroredFinish
<1>8. CASE Publish
  BY <1>8, MirroredPublish
<1>9. CASE Register
  BY <1>9, MirroredRegister
<1>10. CASE Snapshot \/ SendWelcome
  BY <1>10, MirroredSnapshot, MirroredWelcome
<1>11. CASE TakeWelcome \/ Apply
  BY <1>11, MirroredHear
<1>12. CASE (\E x, y \in Pixels : Click(x, y) \/ DoubleClick(x, y)) \/ AtBound
  <2>1. UNCHANGED <<vars, serverVars, joined, greeting, wire, client, untold>>
    BY <1>12 DEF Click, DoubleClick, AtBound, mirrorVars
  <2>2. QED BY <2>1, MirroredAside DEF serverVars
<1>13. CASE UNCHANGED mirrorVars
  BY <1>13, MirroredAside DEF mirrorVars, serverVars
<1>14. QED
  BY <1>3, <1>4, <1>5, <1>6, <1>7, <1>8, <1>9, <1>10, <1>11, <1>12, <1>13 DEF MirrorNext

LEMMA MirroredInvariant == MirrorSpec => []Mirrored
BY MirroredInit, MirroredStep, PTL DEF MirrorSpec

\* Whoever joined whenever, the mirrored board is the server's once all that was
\* sent has been applied, unless a blocked jumper has vanished (messages.hpp:33).
THEOREM MirrorsAgree == MirrorSpec => []MirrorAgrees
<1>1. Mirrored => MirrorAgrees
  <2> SUFFICES ASSUME Mirrored, Settled, NoPieceVanishes, NEW c \in Cells
               PROVE  Seen(CaughtUp.board[c]) = Seen(board[c])
    BY DEF MirrorAgrees
  <2>1. tick = 0 /\ CaughtUp \in Link /\ Shows(Ahead)
    BY DEF Settled, Mirrored, Agreement, Expecting
  <2>2. Ahead.board = CaughtUp.board
    BY <2>1, AheadAtRest DEF Mirrored
  <2>3. QED BY <2>1, <2>2 DEF Shows, BoardShown
<1>2. QED BY <1>1, MirroredInvariant, PTL

\* A piece is drawn in motion only while the server moves it so.
THEOREM PredictionsHold == MirrorSpec => []PredictionsAreTrue
<1>1. Mirrored => PredictionsAreTrue
  <2> SUFFICES ASSUME Mirrored, Settled, NEW p \in Ids \ untold,
                      CaughtUp.predicted[p] # None
               PROVE  /\ motion[p] # None
                      /\ CaughtUp.predicted[p].destination = motion[p].destination
    BY DEF PredictionsAreTrue
  <2>1. tick = 0 /\ CaughtUp \in Link /\ Shows(Ahead)
    BY DEF Settled, Mirrored, Agreement, Expecting
  <2>2. Ahead.predicted = CaughtUp.predicted
    BY <2>1, AheadAtRest DEF Mirrored
  <2>3. QED BY <2>1, <2>2 DEF Shows, MotionsShown
<1>2. QED BY <1>1, MirroredInvariant, PTL
-----------------------------------------------------------------------------
\* What the observers count.

Own(h, c) == {i \in DOMAIN h : ColorOf[h[i].piece.id] = c}

\* The move list of each side has its events of h, in order.
Listed(moves, h) ==
    \A c \in Colors :
        /\ Len(moves[c]) = Cardinality(Own(h, c))
        /\ \A i \in Own(h, c) :
              moves[c][Cardinality({j \in Own(h, c) : j <= i})] = Notation(h[i])

\* The score of each side is what it has taken of the other.
Worth(S) == [x \in S |-> PieceValue[x.kind]]
Loot(S, c) == {x \in S : ColorOf[x.id] = Opposite(c)}
Valued(score, S) == \A c \in Colors : score[c] = SumFunctionOnSet(Worth(S), Loot(S, c))

Counted ==
    LET h == history \o events
        o == FoldLeft(Observed, NewObservers, h)
    IN  o \in Observers /\ Listed(o.moves, h) /\ Valued(o.score, captured)

\* The indices of a sequence up to one of them.
LEMMA CountOfIndices ==
    ASSUME NEW n \in Nat, NEW A \in SUBSET (1 .. n)
    PROVE  /\ IsFiniteSet(A) /\ Cardinality(A) \in Nat
           /\ \A i \in A : Cardinality({j \in A : j <= i}) \in 1 .. Cardinality(A)
           /\ Cardinality(A \cup {n + 1}) = Cardinality(A) + 1
<1>1. IsFiniteSet(A) /\ Cardinality(A) \in Nat
  <2>1. IsFiniteSet(1 .. n)
    <3>1. 0 \in Int /\ 1 \in Int /\ n \in Int
      OBVIOUS
    <3>2. QED BY <3>1, FS_Interval
  <2>2. A \subseteq 1 .. n
    OBVIOUS
  <2>3. IsFiniteSet(A)
    BY <2>1, <2>2, FS_Subset
  <2>4. QED BY <2>3, FS_CardinalityType
<1>2. ASSUME NEW i \in A PROVE Cardinality({j \in A : j <= i}) \in 1 .. Cardinality(A)
  <2>1. PICK B : B = {j \in A : j <= i}
    OBVIOUS
  <2>2. B \subseteq A /\ i \in B
    BY <2>1
  <2>3. IsFiniteSet(B) /\ Cardinality(B) <= Cardinality(A) /\ Cardinality(B) \in Nat
    BY <1>1, <2>2, FS_Subset, FS_CardinalityType
  <2>4. Cardinality(B) # 0
    BY <2>2, <2>3, FS_EmptySet
  <2>5. QED BY <1>1, <2>1, <2>3, <2>4
<1>3. Cardinality(A \cup {n + 1}) = Cardinality(A) + 1
  <2>1. n + 1 \notin A
    OBVIOUS
  <2>2. QED BY <1>1, <2>1, FS_AddElement
<1>4. QED BY <1>1, <1>2, <1>3

\* One more event is one more line of its side's list.
LEMMA ListedMore ==
    ASSUME NEW moves \in [Colors -> Seq(Note)], NEW h \in Seq(Event), NEW e \in Event,
           Listed(moves, h)
    PROVE  Listed(Logged(moves, e), Append(h, e))
<1>1. PICK n, g, c0, t : /\ n = Len(h) + 1 /\ g = Append(h, e)
                         /\ c0 = ColorOf[e.piece.id] /\ t = Notation(e)
  OBVIOUS
<1>2. /\ Len(h) \in Nat /\ DOMAIN h = 1 .. Len(h) /\ DOMAIN g = 1 .. n /\ n \in Nat
      /\ g[n] = e /\ \A i \in 1 .. Len(h) : g[i] = h[i]
  BY <1>1
<1>3. c0 \in Colors /\ t \in Note
  <2>1. e.piece \in Piece
    BY DEF Event
  <2>2. e.piece.id \in Ids /\ e.piece.kind \in Kinds
    BY <2>1 DEF Piece
  <2>3. QED BY <1>1, <2>2, ColorAssumption DEF Notation, Note, Event
<1>4. Logged(moves, e) = [moves EXCEPT ![c0] = Append(moves[c0], t)]
  BY <1>1, <1>3 DEF Logged
<1>5. ASSUME NEW c \in Colors
      PROVE  /\ Len(Logged(moves, e)[c]) = Cardinality(Own(g, c))
             /\ \A i \in Own(g, c) :
                   Logged(moves, e)[c][Cardinality({j \in Own(g, c) : j <= i})] = Notation(g[i])
  <2>1. PICK A, B, l : A = Own(h, c) /\ B = Own(g, c) /\ l = moves[c]
    OBVIOUS
  <2>2. A \in SUBSET (1 .. Len(h)) /\ B \in SUBSET (1 .. n)
    BY <1>2, <2>1 DEF Own
  <2>3. /\ l \in Seq(Note) /\ Len(l) = Cardinality(A)
        /\ \A i \in A : l[Cardinality({j \in A : j <= i})] = Notation(h[i])
    BY <2>1 DEF Listed
  <2>4. \A i \in 1 .. Len(h) : i \in B <=> i \in A
    <3> SUFFICES ASSUME NEW i \in 1 .. Len(h) PROVE i \in B <=> i \in A
      OBVIOUS
    <3>1. i \in DOMAIN h /\ i \in DOMAIN g /\ g[i] = h[i]
      BY <1>1, <1>2
    <3>2. QED BY <2>1, <3>1 DEF Own
  <2>5. n \in B <=> c = c0
    BY <1>1, <1>2, <2>1 DEF Own
  <2>6. ASSUME NEW i \in A PROVE {j \in B : j <= i} = {j \in A : j <= i}
    <3>1. i \in 1 .. Len(h) /\ i < n
      BY <1>1, <1>2, <2>2
    <3>2. \A j \in B : j <= i => j \in 1 .. Len(h)
      BY <1>1, <1>2, <2>2, <3>1
    <3>3. \A j \in A : j \in B
      BY <2>2, <2>4
    <3>4. \A j \in B : j <= i => j \in A
      BY <2>4, <3>2
    <3>5. QED BY <3>3, <3>4
  <2>7. CASE c # c0
    <3>1. A = B
      <4>1. \A j \in B : j \in 1 .. Len(h)
        BY <1>1, <1>2, <2>2, <2>5, <2>7
      <4>2. QED BY <2>2, <2>4, <4>1
    <3>2. Logged(moves, e)[c] = l
      BY <1>3, <1>4, <2>1, <2>7
    <3>3. \A i \in B : Notation(g[i]) = Notation(h[i])
      BY <1>2, <2>2, <3>1
    <3>4. QED BY <2>1, <2>3, <3>1, <3>2, <3>3
  <2>8. CASE c = c0
    <3>1. B = A \cup {n}
      <4>1. \A j \in B : j \in 1 .. Len(h) \/ j = n
        BY <1>1, <1>2, <2>2
      <4>2. QED BY <2>2, <2>4, <2>5, <2>8, <4>1
    <3>2. Logged(moves, e)[c] = Append(l, t)
      BY <1>3, <1>4, <2>1, <2>8
    <3>3. /\ Cardinality(B) = Cardinality(A) + 1 /\ Cardinality(A) \in Nat
          /\ \A i \in A : Cardinality({j \in A : j <= i}) \in 1 .. Cardinality(A)
      BY <1>1, <1>2, <2>2, <3>1, CountOfIndices
    <3>4. /\ Len(Append(l, t)) = Len(l) + 1 /\ Append(l, t)[Len(l) + 1] = t
          /\ \A k \in 1 .. Len(l) : Append(l, t)[k] = l[k]
      BY <1>3, <2>3
    <3>5. ASSUME NEW i \in A
          PROVE  Append(l, t)[Cardinality({j \in B : j <= i})] = Notation(g[i])
      <4>1. PICK k : k = Cardinality({j \in A : j <= i})
        OBVIOUS
      <4>2. k \in 1 .. Len(l) /\ l[k] = Notation(h[i]) /\ g[i] = h[i]
        BY <1>2, <2>2, <2>3, <3>3, <4>1
      <4>3. Append(l, t)[k] = l[k]
        BY <3>4, <4>2
      <4>4. QED BY <2>6, <4>1, <4>2, <4>3
    <3>6. Append(l, t)[Cardinality({j \in B : j <= n})] = Notation(g[n])
      <4>1. \A j \in B : j <= n
        BY <1>2, <2>2
      <4>2. {j \in B : j <= n} = B
        BY <4>1
      <4>3. Cardinality({j \in B : j <= n}) = Len(l) + 1
        BY <2>3, <3>3, <4>2
      <4>4. QED BY <1>1, <1>2, <3>4, <4>3
    <3>7. Len(Append(l, t)) = Cardinality(B)
      BY <2>3, <3>3, <3>4
    <3>8. QED BY <2>1, <3>1, <3>2, <3>5, <3>6, <3>7
  <2>9. QED BY <2>7, <2>8
<1>6. QED BY <1>1, <1>5 DEF Listed

\* One more piece taken is worth its value to the other side.
LEMMA ValuedMore ==
    ASSUME NEW score \in [Colors -> Nat], NEW S \in SUBSET Piece, IsFiniteSet(S),
           Valued(score, S), NEW e \in Event, e.captured # None, e.captured \notin S,
           ColorOf[e.captured.id] # ColorOf[e.piece.id]
    PROVE  Valued(Scored(score, e), S \cup {e.captured})
<1>1. PICK v, c0, T : v = e.captured /\ c0 = ColorOf[e.piece.id] /\ T = S \cup {v}
  OBVIOUS
<1>2. /\ v \in Piece /\ v \notin S /\ c0 \in Colors /\ ColorOf[v.id] \in Colors
      /\ PieceValue[v.kind] \in Nat /\ ColorOf[v.id] # c0
  <2>1. e.piece \in Piece /\ v \in Piece
    BY <1>1 DEF Event
  <2>2. e.piece.id \in Ids /\ v.id \in Ids /\ v.kind \in Kinds
    BY <2>1 DEF Piece
  <2>3. QED BY <1>1, <2>1, <2>2, ColorAssumption, ClientAssumption
<1>3. Opposite(c0) = ColorOf[v.id] /\ \A c \in Colors : c # c0 => Opposite(c) # ColorOf[v.id]
  BY <1>2 DEF Opposite, Colors
<1>4. Scored(score, e) = [score EXCEPT ![c0] = score[c0] + PieceValue[v.kind]]
  BY <1>1, <1>2 DEF Scored
<1>5. PICK f, g : f = Worth(S) /\ g = Worth(T)
  OBVIOUS
<1>6. /\ \A x \in T : g[x] = PieceValue[x.kind] /\ g[x] \in Int
      /\ \A x \in S : f[x] = g[x]
  <2>1. \A x \in T : x.kind \in Kinds
    BY <1>1, <1>2 DEF Piece
  <2>2. \A x \in T : PieceValue[x.kind] \in Nat
    BY <2>1, ClientAssumption
  <2>3. QED BY <1>1, <1>5, <2>2 DEF Worth
<1>7. ASSUME NEW c \in Colors
      PROVE  Scored(score, e)[c] = SumFunctionOnSet(g, Loot(T, c))
  <2>1. PICK A : A = Loot(S, c)
    OBVIOUS
  <2>2. A \subseteq S /\ IsFiniteSet(A)
    BY <2>1, FS_Subset DEF Loot
  <2>3. SumFunctionOnSet(f, A) = SumFunctionOnSet(g, A)
    BY <1>6, <2>2, SumsAreFolds, Total!SumAgrees
  <2>4. score[c] = SumFunctionOnSet(g, A) /\ score[c] \in Nat
    BY <1>5, <2>1, <2>3 DEF Valued
  <2>5. CASE c # c0
    <3>1. Loot(T, c) = A
      BY <1>1, <1>3, <2>1, <2>5 DEF Loot
    <3>2. QED BY <1>2, <1>4, <2>4, <2>5, <3>1
  <2>6. CASE c = c0
    <3>1. Loot(T, c) = A \cup {v}
      BY <1>1, <1>3, <2>1, <2>6 DEF Loot
    <3>2. v \notin A /\ \A y \in A \cup {v} : g[y] \in Int
      BY <1>1, <1>2, <1>6, <2>2
    <3>3. SumFunctionOnSet(g, A \cup {v}) = g[v] + SumFunctionOnSet(g, A)
      BY <2>2, <3>2, SumsAreFolds, Total!SumAdd
    <3>4. g[v] = PieceValue[v.kind]
      BY <1>1, <1>6
    <3>5. Scored(score, e)[c] = score[c] + PieceValue[v.kind]
      BY <1>2, <1>4, <2>6
    <3>6. QED BY <1>2, <2>4, <3>1, <3>3, <3>4, <3>5
  <2>7. QED BY <2>5, <2>6
<1>8. QED BY <1>1, <1>5, <1>7 DEF Valued

LEMMA CountedInit == MirrorInit => Counted
<1> SUFFICES ASSUME MirrorInit PROVE Counted
  OBVIOUS
<1>1. history = <<>> /\ events = <<>> /\ captured = {} /\ <<>> \o <<>> = <<>>
  BY DEF MirrorInit, Init
<1>2. PICK o : o = NewObservers
  OBVIOUS
<1>3. FoldLeft(Observed, NewObservers, <<>>) = o
  BY <1>2, FoldsByIndex, Observe!FoldNothing
<1>4. /\ o.score = [c \in Colors |-> 0] /\ o.moves = [c \in Colors |-> <<>>]
      /\ o \in Observers
  BY <1>2 DEF NewObservers, Observers
<1>5. Listed(o.moves, <<>>)
  <2>1. \A c : Own(<<>>, c) = {}
    BY DEF Own
  <2>2. QED BY <1>4, <2>1, FS_EmptySet DEF Listed
<1>6. Valued(o.score, {})
  <2>1. \A c : Loot({}, c) = {}
    BY DEF Loot
  <2>2. QED BY <1>4, <2>1, SumsAreFolds, Total!SumEmpty DEF Valued
<1>7. QED BY <1>1, <1>3, <1>4, <1>5, <1>6 DEF Counted

\* A step that resolves no arrival adds nothing.
LEMMA CountedSame ==
    ASSUME Counted, history' \o events' = history \o events, captured' = captured
    PROVE  Counted'
BY DEF Counted

LEMMA CountedArrival ==
    ASSUME Mirrored, Counted, NEW p \in Ids, ResolveArrival(p), UNCHANGED history,
           events' = Append(events, ArrivalOf(board, motion[p]))
    PROVE  Counted'
<1>1. PICK m, e, kind, h, o : /\ m = motion[p] /\ e = ArrivalOf(board, m)
                              /\ kind = CollisionKind(m.piece, board[m.destination])
                              /\ h = history \o events
                              /\ o = FoldLeft(Observed, NewObservers, h)
  OBVIOUS
<1>2. /\ e \in Event /\ e.piece.id = p /\ m \in Motion /\ m.piece.id = p
      /\ m.destination \in Cells /\ events' = Append(events, e)
  BY <1>1, ArrivalEvent, ArrivalFacts DEF Mirrored
<1>3. history \in Seq(Event) /\ events \in Seq(Event)
  BY DEF Mirrored, Texted
<1>4. h \in Seq(Event) /\ history' \o events' = Append(h, e)
  BY <1>1, <1>2, <1>3
<1>5. o \in Observers /\ Listed(o.moves, h) /\ Valued(o.score, captured)
  BY <1>1 DEF Counted
<1>6. PICK n : n = Observed(o, e)
  OBVIOUS
<1>7. FoldLeft(Observed, NewObservers, Append(h, e)) = n
  <2>1. Observe!FoldSequence(NewObservers, Append(h, e))
           = Observing(e, Observe!FoldSequence(NewObservers, h))
    BY <1>2, <1>4, FoldsByIndex, Observe!FoldAppend
  <2>2. QED BY <1>1, <1>6, <2>1, FoldsByIndex DEF Observing
<1>8. n \in Observers
  BY <1>2, <1>5, <1>6, ObservedType
<1>9. /\ o.moves \in [Colors -> Seq(Note)] /\ o.score \in [Colors -> Nat]
      /\ n.moves = Logged(o.moves, e) /\ n.score = Scored(o.score, e)
  BY <1>5, <1>6 DEF Observers, Observed
<1>10. Listed(n.moves, Append(h, e))
  BY <1>2, <1>4, <1>5, <1>9, ListedMore
<1>11. Valued(n.score, captured')
  <2>1. CASE kind # "EnemyCaptured"
    <3>1. e.captured = None /\ captured' = captured
      BY <1>1, <2>1, ArrivalEvent DEF Mirrored
    <3>2. QED BY <1>5, <1>9, <3>1 DEF Scored
  <2>2. CASE kind = "EnemyCaptured"
    <3>1. /\ e.captured = board[m.destination] /\ e.captured \in Piece
          /\ captured' = captured \cup {e.captured}
      BY <1>1, <2>2, ArrivalEvent DEF Mirrored
    <3>2. e.captured # None
      BY <3>1, NoneAssumption
    <3>3. e.captured \notin captured
      BY <1>2, <3>1, <3>2 DEF Mirrored, Captures, CapturedStaysOff, OnBoard, Holds
    <3>4. ColorOf[e.captured.id] # ColorOf[e.piece.id]
      BY <1>1, <1>2, <2>2, <3>1 DEF CollisionKind
    <3>5. captured \in SUBSET Piece /\ IsFiniteSet(captured)
      BY DEF Mirrored, Captures, Placement, TypeOK, Provenance
    <3>6. QED BY <1>2, <1>5, <1>9, <3>1, <3>2, <3>3, <3>4, <3>5, ValuedMore
  <2>3. QED BY <2>1, <2>2
<1>12. QED BY <1>4, <1>7, <1>8, <1>10, <1>11 DEF Counted

LEMMA CountedStep == Mirrored /\ Counted /\ [MirrorNext]_mirrorVars => Counted'
<1> SUFFICES ASSUME Mirrored, Counted, [MirrorNext]_mirrorVars PROVE Counted'
  OBVIOUS
<1>1. history \in Seq(Event) /\ events \in Seq(Event)
  BY DEF Mirrored, Texted
<1>2. CASE \E p \in Ids : OtherRequest(p)
  BY <1>2, CountedSame DEF OtherRequest, RequestJump, RequestMove, StartMotion, serverVars
<1>3. CASE ApplyRequest
  <2>1. UNCHANGED <<history, events>>
    BY <1>3 DEF ApplyRequest, serverVars
  <2>2. UNCHANGED captured
    BY <1>3, RequestApplied DEF Mirrored, vars, RequestMove, RequestJump, StartMotion
  <2>3. QED BY <2>1, <2>2, CountedSame
<1>4. CASE \E ms \in TickSizes : StartWait(ms)
  <2>1. events = <<>> /\ UNCHANGED <<history, captured>> /\ events' = <<>>
    BY <1>4 DEF StartWait, BeginTick, Free, Mirrored, Texted
  <2>2. QED BY <2>1, CountedSame
<1>5. CASE \E p \in Ids : Arrive(p)
  <2>1. PICK p \in Ids : Arrive(p)
    BY <1>5
  <2>2. CASE SkipArrival(p) /\ UNCHANGED events
    BY <2>1, <2>2, CountedSame DEF Arrive, SkipArrival
  <2>3. CASE ResolveArrival(p) /\ events' = Append(events, ArrivalOf(board, motion[p]))
    BY <2>1, <2>3, CountedArrival DEF Arrive
  <2>4. QED BY <2>1, <2>2, <2>3 DEF Arrive
<1>6. CASE FinishWait
  <2>1. history' = history \o events /\ events' = <<>> /\ UNCHANGED captured
    BY <1>6 DEF FinishWait, EndTick
  <2>2. history' \o events' = history \o events
    BY <1>1, <2>1
  <2>3. QED BY <2>1, <2>2, CountedSame
<1>7. CASE \/ Publish \/ Register \/ Snapshot \/ SendWelcome \/ TakeWelcome \/ Apply
           \/ (\E x, y \in Pixels : Click(x, y) \/ DoubleClick(x, y)) \/ AtBound
           \/ UNCHANGED mirrorVars
  <2>1. UNCHANGED <<history, events, captured>>
    BY <1>7 DEF Publish, Register, Snapshot, SendWelcome, TakeWelcome, Apply, Click, DoubleClick,
                AtBound, mirrorVars, serverVars, vars
  <2>2. QED BY <2>1, CountedSame
<1>8. QED BY <1>2, <1>3, <1>4, <1>5, <1>6, <1>7 DEF MirrorNext

LEMMA CountedInvariant == MirrorSpec => [](Mirrored /\ Counted)
BY MirroredInit, MirroredStep, CountedInit, CountedStep, PTL DEF MirrorSpec

\* Score and move list count each arrival of the game once, whether it reaches
\* the client in the history of its Welcome or in an update.
THEOREM ArrivalsCountOnce == MirrorSpec => []EachArrivalCountsOnce
<1>1. Mirrored /\ Counted => EachArrivalCountsOnce
  <2> SUFFICES ASSUME Mirrored, Counted, Settled PROVE EachArrivalCountsOnce
    BY DEF EachArrivalCountsOnce
  <2>1. tick = 0 /\ CaughtUp \in Link /\ Shows(Ahead)
    BY DEF Settled, Mirrored, Agreement, Expecting
  <2>2. history \o events = history
    BY <2>1 DEF Mirrored, Texted
  <2>3. PICK o : o = CaughtUp.observers
    OBVIOUS
  <2>4. o = FoldLeft(Observed, NewObservers, history)
    BY <2>1, <2>2, <2>3, AheadAtRest DEF Shows, HistoryShown, Mirrored
  <2>5. Listed(o.moves, history) /\ Valued(o.score, captured)
    BY <2>2, <2>4 DEF Counted
  <2>6. QED BY <2>3, <2>5 DEF EachArrivalCountsOnce, Listed, Own, Valued, Worth, Loot
<1>2. QED BY <1>1, CountedInvariant, PTL
=============================================================================
