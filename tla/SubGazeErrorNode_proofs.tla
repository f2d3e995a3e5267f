---------------------- MODULE SubGazeErrorNode_proofs ----------------------
(***************************************************************************)
(* Proofs about the gaze error filter, for all its coefficients, depths    *)
(* and messages.  The argument rests on one invariant, Remembers: the four *)
(* numbers a filter keeps are the inputs and outputs of the last two       *)
(* messages, where the signal before the first message counts as constant. *)
(* The second half bounds the outputs: how far the filter overshoots, and  *)
(* how soon it forgets.                                                    *)
(***************************************************************************)
EXTENDS SubGazeErrorNode, WellFoundedInduction, TLAPS

(* What can be said of one application of the filter. *)
LEMMA FloatClosed ==
    ASSUME NEW v \in Float, NEW w \in Float, NEW c \in Int
    PROVE  /\ Term(c, v) \in Float
           /\ Plus(v, w) \in Float
           /\ Over(v, Denominator) \in Float
<1>1. Term(c, v) \in Float
  BY FloatAssumption DEF Term, Times, Float
<1>2. Plus(v, w) \in Float
  BY FloatAssumption DEF Plus, Float
<1>3. Over(v, Denominator) \in Float
  <2>1. v \in Int => v \div Denominator \in Int
    BY FilterAssumption
  <2>. QED  BY <2>1 DEF Over, Float
<1>. QED  BY <1>1, <1>2, <1>3

LEMMA NotFinite ==
    ASSUME NEW v \in Float, NEW w \in Float, NEW c \in Int
    PROVE  /\ v \notin Int => Term(c, v) \notin Int
           /\ v \notin Int \/ w \notin Int => Plus(v, w) \notin Int
           /\ v \notin Int => Over(v, Denominator) \notin Int
<1>1. v \notin Int => Term(c, v) \notin Int
  BY FloatAssumption DEF Term, Times, Float
<1>2. v \notin Int \/ w \notin Int => Plus(v, w) \notin Int
  BY FloatAssumption DEF Plus, Float
<1>3. v \notin Int => Over(v, Denominator) \notin Int
  BY DEF Over
<1>. QED  BY <1>1, <1>2, <1>3

LEMMA Rounded ==
    ASSUME NEW num \in Int, NEW d \in Nat \ {0}
    PROVE  num \div d \in Int /\ num - d * (num \div d) \in 0..(d - 1)
  OBVIOUS

LEMMA ExactQuotient ==
    ASSUME NEW q \in Int, NEW d \in Nat \ {0}
    PROVE  (d * q) \div d = q
<1>1. d * q \in Int
  OBVIOUS
<1>2. (d * q) \div d \in Int /\ d * q - d * ((d * q) \div d) \in 0..(d - 1)
  BY <1>1, Rounded
<1>. DEFINE e == q - (d * q) \div d
<1>3. e \in Int /\ d * e = d * q - d * ((d * q) \div d)
  BY <1>1, <1>2
<1>4. e = 0
  BY <1>2, <1>3
<1>. QED  BY <1>2, <1>4

(* The filter's weighted sum, for numbers. *)
Sum(f, v) == B0 * v + 2 * B0 * f.x1 + B0 * f.x2 - A1 * f.y1 - A2 * f.y2

LEMMA FilteredIsFloat ==
    ASSUME NEW f \in Filters, NEW v \in Float
    PROVE  Filtered(f, v) \in Float
<1>1. f.x1 \in Float /\ f.x2 \in Float /\ f.y1 \in Float /\ f.y2 \in Float
  BY DEF Filters
<1>2. B0 \in Int /\ 2 * B0 \in Int /\ -A1 \in Int /\ -A2 \in Int
  BY FilterAssumption
<1>3. /\ Term(B0, v) \in Float /\ Term(2 * B0, f.x1) \in Float /\ Term(B0, f.x2) \in Float
      /\ Term(-A1, f.y1) \in Float /\ Term(-A2, f.y2) \in Float
  BY <1>1, <1>2, FloatClosed
<1>4. Plus(Term(B0, v), Term(2 * B0, f.x1)) \in Float
  BY <1>2, <1>3, FloatClosed
<1>5. Plus(Plus(Term(B0, v), Term(2 * B0, f.x1)), Term(B0, f.x2)) \in Float
  BY <1>2, <1>3, <1>4, FloatClosed
<1>6. Plus(Plus(Plus(Term(B0, v), Term(2 * B0, f.x1)), Term(B0, f.x2)), Term(-A1, f.y1)) \in Float
  BY <1>2, <1>3, <1>5, FloatClosed
<1>7. Plus(Plus(Plus(Plus(Term(B0, v), Term(2 * B0, f.x1)), Term(B0, f.x2)), Term(-A1, f.y1)),
           Term(-A2, f.y2)) \in Float
  BY <1>2, <1>3, <1>6, FloatClosed
<1>. QED  BY <1>2, <1>7, FloatClosed DEF Filtered

LEMMA FilteredNotFinite ==
    ASSUME NEW f \in Filters, NEW v \in Float,
           cutoff = NaN \/ v \notin Int \/ f.y1 \notin Int
    PROVE  Filtered(f, v) \notin Int
<1>1. f.x1 \in Float /\ f.x2 \in Float /\ f.y1 \in Float /\ f.y2 \in Float
  BY DEF Filters
<1>2. B0 \in Int /\ 2 * B0 \in Int /\ -A1 \in Int /\ -A2 \in Int
  BY FilterAssumption
<1>3. /\ Term(B0, v) \in Float /\ Term(2 * B0, f.x1) \in Float /\ Term(B0, f.x2) \in Float
      /\ Term(-A1, f.y1) \in Float /\ Term(-A2, f.y2) \in Float
  BY <1>1, <1>2, FloatClosed
<1>. DEFINE s1 == Plus(Term(B0, v), Term(2 * B0, f.x1))
            s2 == Plus(s1, Term(B0, f.x2))
            s3 == Plus(s2, Term(-A1, f.y1))
            s4 == Plus(s3, Term(-A2, f.y2))
<1>4. s1 \in Float /\ (cutoff = NaN \/ v \notin Int => s1 \notin Int)
  <2>1. cutoff = NaN => Term(B0, v) \notin Int
    BY FloatAssumption DEF Term
  <2>. QED  BY <1>1, <1>2, <1>3, <2>1, FloatClosed, NotFinite
<1>5. s2 \in Float /\ (cutoff = NaN \/ v \notin Int => s2 \notin Int)
  <2>. HIDE DEF s1
  <2>. QED  BY <1>2, <1>3, <1>4, FloatClosed, NotFinite
<1>6. s3 \in Float /\ s3 \notin Int
  <2>. HIDE DEF s2
  <2>1. Term(-A1, f.y1) \notin Int \/ s2 \notin Int
    BY <1>1, <1>2, <1>5, NotFinite
  <2>. QED  BY <1>2, <1>3, <1>5, <2>1, FloatClosed, NotFinite
<1>7. s4 \in Float /\ s4 \notin Int
  <2>. HIDE DEF s3
  <2>. QED  BY <1>2, <1>3, <1>6, FloatClosed, NotFinite
<1>8. Filtered(f, v) = Over(s4, Denominator)
  BY DEF Filtered
<1>. HIDE DEF s4
<1>. QED  BY <1>2, <1>7, <1>8, NotFinite

LEMMA TermFinite ==
    ASSUME NEW v \in Int, NEW c \in Int, cutoff # NaN
    PROVE  Term(c, v) = v * c
<1>1. Times(v, c) = v * c
  BY FloatAssumption DEF Times
<1>. QED  BY <1>1 DEF Term

LEMMA FilteredFinite ==
    ASSUME NEW f \in Filters, NEW v \in Int, cutoff # NaN,
           f.x1 \in Int, f.x2 \in Int, f.y1 \in Int, f.y2 \in Int
    PROVE  Sum(f, v) \in Int /\ Filtered(f, v) = Sum(f, v) \div Denominator
<1>1. B0 \in Int /\ A1 \in Int /\ A2 \in Int
  BY FilterAssumption
<1>. DEFINE t0 == v * B0
            t1 == f.x1 * (2 * B0)
            t2 == f.x2 * B0
            t3 == f.y1 * (-A1)
            t4 == f.y2 * (-A2)
<1>2. /\ Term(B0, v) = t0 /\ Term(2 * B0, f.x1) = t1 /\ Term(B0, f.x2) = t2
      /\ Term(-A1, f.y1) = t3 /\ Term(-A2, f.y2) = t4
  <2>1. 2 * B0 \in Int /\ -A1 \in Int /\ -A2 \in Int
    BY <1>1
  <2>. QED  BY <1>1, <2>1, TermFinite
<1>3. t0 \in Int /\ t1 \in Int /\ t2 \in Int /\ t3 \in Int /\ t4 \in Int
  BY <1>1
<1>4. Sum(f, v) = t0 + t1 + t2 + t3 + t4
  BY <1>1 DEF Sum
<1>. HIDE DEF t0, t1, t2, t3, t4
<1>5. Plus(t0, t1) = t0 + t1
  BY <1>3 DEF Plus
<1>6. Plus(t0 + t1, t2) = t0 + t1 + t2
  BY <1>3 DEF Plus
<1>7. Plus(t0 + t1 + t2, t3) = t0 + t1 + t2 + t3
  BY <1>3 DEF Plus
<1>8. Plus(t0 + t1 + t2 + t3, t4) = t0 + t1 + t2 + t3 + t4
  BY <1>3 DEF Plus
<1>9. Filtered(f, v) = Over(t0 + t1 + t2 + t3 + t4, Denominator)
  BY <1>2, <1>5, <1>6, <1>7, <1>8 DEF Filtered
<1>10. t0 + t1 + t2 + t3 + t4 \in Int
  BY <1>3
<1>. QED  BY <1>4, <1>9, <1>10 DEF Over

(* The gain for a constant signal is one. *)
LEMMA ConstantFiltered ==
    ASSUME NEW f \in Filters, NEW c \in Int, cutoff # NaN,
           f.x1 = c, f.x2 = c, f.y1 = c, f.y2 = c
    PROVE  Filtered(f, c) = c
<1>1. Filtered(f, c) = Sum(f, c) \div Denominator
  BY FilteredFinite
<1>2. B0 \in Int /\ A1 \in Int /\ A2 \in Int /\ Denominator \in Nat \ {0}
      /\ 4 * B0 - A1 - A2 = Denominator
  BY FilterAssumption
<1>3. Sum(f, c) = (4 * B0 - A1 - A2) * c
  BY <1>2 DEF Sum
<1>. QED  BY <1>1, <1>2, <1>3, ExactQuotient

-----------------------------------------------------------------------------
(* The state of a filter is the last two messages. *)
Remembers ==
    \A a \in Axes :
        IF Len(heard) = 0 THEN ~filter[a].initialized
        ELSE /\ filter[a].initialized
             /\ filter[a].x1 = In(a, Len(heard))
             /\ filter[a].x2 = In(a, Len(heard) - 1)
             /\ filter[a].y1 = Out(a, Len(heard))
             /\ filter[a].y2 = Out(a, Len(heard) - 1)

(* A filter does not poison itself: from numbers it makes numbers. *)
FiniteStays ==
    \A a \in Axes : \A i \in 1..Len(sent) :
        cutoff # NaN /\ (\A j \in 1..i : heard[j][a] \in Int) => sent[i][a] \in Int

FilterInv == /\ TypeOK /\ Remembers /\ FiniteStays
             /\ SolvesEquation /\ ConstantPasses /\ PoisonedForEver

LEMMA MessageFields ==
    ASSUME NEW m \in Messages, NEW f \in Fields
    PROVE  m[f] \in Float
  BY FilterAssumption DEF Messages

LEMMA StartedFilter ==
    ASSUME NEW f \in Filters, NEW v \in Float
    PROVE  Started(f, v) \in Filters
  BY DEF Started, Filters

LEMMA UpdatedFilter ==
    ASSUME NEW f \in Filters, NEW v \in Float
    PROVE  /\ Update(f, v) \in Filters
           /\ Update(f, v).initialized
           /\ Update(f, v).x1 = v
           /\ Update(f, v).x2 = Started(f, v).x1
           /\ Update(f, v).y1 = Filtered(Started(f, v), v)
           /\ Update(f, v).y2 = Started(f, v).y1
<1>1. Started(f, v) \in Filters /\ Filtered(Started(f, v), v) \in Float
  BY StartedFilter, FilteredIsFloat
<1>2. Update(f, v) = [initialized |-> TRUE, x1 |-> v, x2 |-> Started(f, v).x1,
                      y1 |-> Filtered(Started(f, v), v), y2 |-> Started(f, v).y1]
  BY DEF Update
<1>3. Started(f, v).x1 \in Float /\ Started(f, v).y1 \in Float
  BY <1>1 DEF Filters
<1>. QED  BY <1>1, <1>2, <1>3 DEF Filters

LEMMA FilterInit == Init => FilterInv
<1>. SUFFICES ASSUME Init  PROVE FilterInv
  OBVIOUS
<1>1. NewFilter \in Filters
  BY DEF NewFilter, Filters, Float
<1>2. TypeOK
  BY <1>1, FilterAssumption DEF Init, TypeOK
<1>3. Remembers /\ FiniteStays /\ SolvesEquation /\ ConstantPasses /\ PoisonedForEver
  BY DEF Init, Remembers, NewFilter, FiniteStays, SolvesEquation, ConstantPasses, PoisonedForEver
<1>. QED  BY <1>2, <1>3 DEF FilterInv

(* What the callback does to the two histories. *)
LEMMA CallbackHistory ==
    ASSUME TypeOK, GazeErrorCallback, NEW n \in Nat, n = Len(heard),
           NEW m, m = Head(inbox)
    PROVE  /\ m \in Messages
           /\ Len(heard') = n + 1 /\ Len(sent') = n + 1
           /\ heard' \in Seq(Messages) /\ sent' \in Seq([Fields -> Float])
           /\ \A i \in 1..n : heard'[i] = heard[i] /\ sent'[i] = sent[i]
           /\ heard'[n + 1] = m
           /\ \A a \in Axes : /\ filter'[a] = Update(filter[a], m[a])
                              /\ sent'[n + 1][a] = Filtered(Started(filter[a], m[a]), m[a])
           /\ filter' \in [Axes -> Filters]
<1>1. inbox \in Seq(Messages) /\ inbox # <<>> /\ heard \in Seq(Messages)
      /\ sent \in Seq([Fields -> Float]) /\ Len(sent) = n /\ filter \in [Axes -> Filters]
  BY DEF TypeOK, GazeErrorCallback
<1>2. m \in Messages
  BY <1>1
<1>. DEFINE p == [f \in Fields |-> IF f \in Axes THEN filter'[f].y1 ELSE m[f]]
<1>3. heard' = Append(heard, m) /\ sent' = Append(sent, p)
      /\ filter' = [a \in Axes |-> Update(filter[a], m[a])]
  BY DEF GazeErrorCallback
<1>4. \A a \in Axes : /\ filter'[a] = Update(filter[a], m[a])
                     /\ filter'[a] \in Filters /\ filter'[a].y1 \in Float
                     /\ filter'[a].y1 = Filtered(Started(filter[a], m[a]), m[a])
  <2>. TAKE a \in Axes
  <2>1. m[a] \in Float /\ filter[a] \in Filters
    BY <1>1, <1>2, MessageFields DEF Fields
  <2>2. filter'[a] = Update(filter[a], m[a])
    BY <1>3
  <2>3. filter'[a] \in Filters
    BY <2>1, <2>2, UpdatedFilter
  <2>. QED  BY <2>1, <2>2, <2>3, UpdatedFilter DEF Filters
<1>5. p \in [Fields -> Float]
  BY <1>2, <1>4, MessageFields
<1>6. \A a \in Axes : p[a] = filter'[a].y1
  BY DEF Fields
<1>7. filter' \in [Axes -> Filters]
  BY <1>3, <1>4
<1>. HIDE DEF p
<1>8. /\ Len(heard') = n + 1 /\ heard' \in Seq(Messages) /\ heard'[n + 1] = m
      /\ \A i \in 1..n : heard'[i] = heard[i]
  BY <1>1, <1>2, <1>3
<1>9. /\ Len(sent') = n + 1 /\ sent' \in Seq([Fields -> Float]) /\ sent'[n + 1] = p
      /\ \A i \in 1..n : sent'[i] = sent[i]
  BY <1>1, <1>3, <1>5
<1>. QED  BY <1>2, <1>4, <1>6, <1>7, <1>8, <1>9

(* The callback preserves the invariant: the filter it starts from holds the *)
(* last two messages of the history it extends.                              *)
LEMMA CallbackStep ==
    ASSUME FilterInv, GazeErrorCallback
    PROVE  FilterInv'
<1>1. PICK n \in Nat : n = Len(heard) /\ n = Len(sent)
  BY DEF FilterInv, TypeOK
<1>2. PICK m : m = Head(inbox)
  OBVIOUS
<1>3. /\ m \in Messages
      /\ Len(heard') = n + 1 /\ Len(sent') = n + 1
      /\ heard' \in Seq(Messages) /\ sent' \in Seq([Fields -> Float])
      /\ \A i \in 1..n : heard'[i] = heard[i] /\ sent'[i] = sent[i]
      /\ heard'[n + 1] = m
      /\ \A a \in Axes : /\ filter'[a] = Update(filter[a], m[a])
                         /\ sent'[n + 1][a] = Filtered(Started(filter[a], m[a]), m[a])
      /\ filter' \in [Axes -> Filters]
  BY <1>1, <1>2, CallbackHistory DEF FilterInv
<1>4. TypeOK'
  <2>1. inbox' \in Seq(Messages) /\ Len(inbox') <= Depth
    <3>1. inbox \in Seq(Messages) /\ inbox # <<>> /\ Len(inbox) <= Depth /\ inbox' = Tail(inbox)
      BY DEF GazeErrorCallback, FilterInv, TypeOK
    <3>2. Len(Tail(inbox)) = Len(inbox) - 1 /\ Len(inbox) \in Nat
      BY <3>1
    <3>. QED  BY <3>1, <3>2, FilterAssumption
  <2>2. n < MaxMessages /\ cutoff' = cutoff /\ phase' = phase
    BY <1>1 DEF GazeErrorCallback
  <2>. QED  BY <1>3, <2>1, <2>2, FilterAssumption DEF FilterInv, TypeOK
<1>5. \A a \in Axes, i \in Int : i <= n /\ n # 0 =>
         (In(a, i))' = In(a, i) /\ (Out(a, i))' = Out(a, i)
  <2>. TAKE a \in Axes, i \in Int
  <2>. SUFFICES ASSUME i <= n, n # 0  PROVE (In(a, i))' = In(a, i) /\ (Out(a, i))' = Out(a, i)
    OBVIOUS
  <2>1. heard'[1] = heard[1] /\ 1 \in 1..n
    BY <1>3
  <2>2. i \in 1..n \/ i < 1
    OBVIOUS
  <2>. QED  BY <1>3, <2>1, <2>2 DEF In, Out
<1>6. \A a \in Axes : (In(a, n + 1))' = m[a]
                    /\ (Out(a, n + 1))' = Filtered(Started(filter[a], m[a]), m[a])
  BY <1>3 DEF In, Out
<1>7. \A a \in Axes : LET g == Started(filter[a], m[a])
                    IN  /\ g \in Filters /\ m[a] \in Float
                        /\ g.x1 = (In(a, n))' /\ g.x2 = (In(a, n - 1))'
                        /\ g.y1 = (Out(a, n))' /\ g.y2 = (Out(a, n - 1))'
  <2>. TAKE a \in Axes
  <2>1. m[a] \in Float /\ filter[a] \in Filters
    BY <1>3, MessageFields DEF FilterInv, TypeOK, Fields
  <2>2. CASE n = 0
    <3>1. ~filter[a].initialized
      BY <1>1, <2>2 DEF FilterInv, Remembers
    <3>2. heard'[1] = m
      BY <1>3, <2>2
    <3>3. Started(filter[a], m[a])
            = [initialized |-> TRUE, x1 |-> m[a], x2 |-> m[a], y1 |-> m[a], y2 |-> m[a]]
      BY <3>1 DEF Started
    <3>. QED  BY <2>1, <2>2, <3>2, <3>3, StartedFilter DEF In, Out
  <2>3. CASE n # 0
    <3>1. /\ filter[a].initialized
          /\ filter[a].x1 = In(a, n) /\ filter[a].x2 = In(a, n - 1)
          /\ filter[a].y1 = Out(a, n) /\ filter[a].y2 = Out(a, n - 1)
      BY <1>1, <2>3 DEF FilterInv, TypeOK, Remembers
    <3>2. Started(filter[a], m[a]) = filter[a]
      BY <3>1 DEF Started
    <3>3. /\ (In(a, n))' = In(a, n) /\ (Out(a, n))' = Out(a, n)
          /\ (In(a, n - 1))' = In(a, n - 1) /\ (Out(a, n - 1))' = Out(a, n - 1)
      BY <1>5, <2>3
    <3>. QED  BY <2>1, <3>1, <3>2, <3>3
  <2>. QED  BY <2>2, <2>3
<1>8. Remembers'
  <2>1. Len(heard') # 0 /\ Len(heard') = n + 1 /\ n + 1 - 1 = n
    BY <1>3
  <2>2. ASSUME NEW a \in Axes
        PROVE  /\ filter'[a].initialized
               /\ filter'[a].x1 = (In(a, n + 1))' /\ filter'[a].x2 = (In(a, n))'
               /\ filter'[a].y1 = (Out(a, n + 1))' /\ filter'[a].y2 = (Out(a, n))'
    <3>. DEFINE f == filter[a]
                g == Started(f, m[a])
    <3>1. f \in Filters /\ m[a] \in Float /\ filter'[a] = Update(f, m[a])
      BY <1>3, <1>7 DEF FilterInv, TypeOK
    <3>2. /\ (In(a, n + 1))' = m[a] /\ (Out(a, n + 1))' = Filtered(g, m[a])
          /\ (In(a, n))' = g.x1 /\ (Out(a, n))' = g.y1
      BY <1>6, <1>7
    <3>3. /\ Update(f, m[a]).initialized /\ Update(f, m[a]).x1 = m[a]
          /\ Update(f, m[a]).x2 = g.x1 /\ Update(f, m[a]).y1 = Filtered(g, m[a])
          /\ Update(f, m[a]).y2 = g.y1
      BY <3>1, UpdatedFilter
    <3>. HIDE DEF f, g
    <3>. QED  BY <3>1, <3>2, <3>3
  <2>. QED  BY <2>1, <2>2 DEF Remembers
<1>9. \A a \in Axes : LET g == Started(filter[a], m[a])
                    IN  (Out(a, n + 1))' = Filtered(g, m[a]) /\ cutoff' = cutoff
  BY <1>6 DEF GazeErrorCallback
<1>10. SolvesEquation'
  <2>. DEFINE Eq(a, i) ==
        {In(a, i), In(a, i-1), In(a, i-2), Out(a, i-1), Out(a, i-2)} \subseteq Int
        /\ cutoff # NaN
        => B0 * (In(a, i) + 2 * In(a, i-1) + In(a, i-2)) - A1 * Out(a, i-1)
               - A2 * Out(a, i-2) - Denominator * Out(a, i) \in 0..(Denominator - 1)
  <2>1. ASSUME NEW a \in Axes, NEW i \in 1..n  PROVE Eq(a, i)'
    <3>1. Eq(a, i)
      BY <1>1, <2>1 DEF FilterInv, SolvesEquation
    <3>2. /\ (In(a, i))' = In(a, i) /\ (In(a, i-1))' = In(a, i-1) /\ (In(a, i-2))' = In(a, i-2)
          /\ (Out(a, i))' = Out(a, i) /\ (Out(a, i-1))' = Out(a, i-1)
          /\ (Out(a, i-2))' = Out(a, i-2)
      BY <1>5, <2>1
    <3>. QED  BY <1>9, <3>1, <3>2
  <2>2. ASSUME NEW a \in Axes  PROVE Eq(a, n + 1)'
    <3>. DEFINE g == Started(filter[a], m[a])
    <3>1. /\ (In(a, n + 1 - 1))' = g.x1 /\ (In(a, n + 1 - 2))' = g.x2
          /\ (Out(a, n + 1 - 1))' = g.y1 /\ (Out(a, n + 1 - 2))' = g.y2
          /\ (In(a, n + 1))' = m[a] /\ g \in Filters /\ m[a] \in Float
          /\ (Out(a, n + 1))' = Filtered(g, m[a]) /\ cutoff' = cutoff
      BY <1>6, <1>7, <1>9
    <3>. HIDE DEF g
    <3>2. ASSUME {m[a], g.x1, g.x2, g.y1, g.y2} \subseteq Int, cutoff # NaN
          PROVE  B0 * (m[a] + 2 * g.x1 + g.x2) - A1 * g.y1 - A2 * g.y2
                    - Denominator * Filtered(g, m[a]) \in 0..(Denominator - 1)
      <4>1. Sum(g, m[a]) \in Int /\ Filtered(g, m[a]) = Sum(g, m[a]) \div Denominator
        BY <3>1, <3>2, FilteredFinite
      <4>2. Sum(g, m[a]) - Denominator * Filtered(g, m[a]) \in 0..(Denominator - 1)
        BY <4>1, Rounded, FilterAssumption
      <4>3. Sum(g, m[a]) = B0 * (m[a] + 2 * g.x1 + g.x2) - A1 * g.y1 - A2 * g.y2
        BY <3>2, FilterAssumption DEF Sum
      <4>. QED  BY <4>2, <4>3
    <3>. QED  BY <3>1, <3>2
  <2>3. ASSUME NEW a \in Axes, NEW i \in 1..(n + 1)  PROVE Eq(a, i)'
    <3>1. i \in 1..n \/ i = n + 1
      OBVIOUS
    <3>. HIDE DEF Eq
    <3>. QED  BY <2>1, <2>2, <3>1
  <2>. QED  BY <1>3, <2>3 DEF SolvesEquation
<1>11. ConstantPasses'
  <2>. SUFFICES ASSUME NEW a \in Axes, NEW i \in 1..(n + 1), NEW c \in Int, c = heard'[1][a],
                       cutoff # NaN, \A j \in 1..i : heard'[j][a] = c
                PROVE  sent'[i][a] = c
    <3>1. cutoff' = cutoff
      BY DEF GazeErrorCallback
    <3>. QED  BY <1>3, <3>1 DEF ConstantPasses
  <2>1. CASE i \in 1..n
    <3>1. heard[1][a] = c /\ \A j \in 1..i : heard[j][a] = c
      BY <1>3, <2>1
    <3>2. sent[i][a] = c
      BY <1>1, <2>1, <3>1 DEF FilterInv, ConstantPasses
    <3>. QED  BY <1>3, <2>1, <3>2
  <2>2. CASE i = n + 1
    <3>. DEFINE g == Started(filter[a], m[a])
    <3>1. m[a] = c
      BY <1>3, <2>2
    <3>2. (In(a, n))' = c /\ (In(a, n - 1))' = c
      BY <2>2 DEF In
    <3>3. \A k \in Int : k <= n => (Out(a, k))' = c
      <4>. TAKE k \in Int
      <4>. HAVE k <= n
      <4>1. CASE k < 1
        BY <4>1 DEF Out
      <4>2. CASE k \in 1..n
        <5>1. heard[1][a] = c /\ \A j \in 1..k : heard[j][a] = c
          <6>1. \A j \in 1..k : j \in 1..n /\ j \in 1..i
            BY <2>2, <4>2
          <6>2. \A j \in 1..k : heard[j][a] = c
            BY <1>3, <6>1
          <6>. QED  BY <4>2, <6>2
        <5>2. sent[k][a] = c
          BY <1>1, <4>2, <5>1 DEF FilterInv, ConstantPasses
        <5>. QED  BY <1>3, <4>2, <5>2 DEF Out
      <4>. QED  BY <4>1, <4>2
    <3>4. g \in Filters /\ g.x1 = c /\ g.x2 = c /\ g.y1 = c /\ g.y2 = c
      BY <1>7, <3>2, <3>3
    <3>. HIDE DEF g
    <3>5. Filtered(g, c) = c
      BY <3>4, ConstantFiltered
    <3>. QED  BY <1>3, <2>2, <3>1, <3>5 DEF g
  <2>. QED  BY <2>1, <2>2
<1>12. PoisonedForEver'
  <2>. SUFFICES ASSUME NEW a \in Axes, NEW i \in 1..(n + 1),
                       cutoff' = NaN \/ \E j \in 1..i : heard'[j][a] \notin Int
                PROVE  sent'[i][a] \notin Int
    <3>1. 1..Len(sent') = 1..(n + 1)
      BY <1>3
    <3>. QED  BY <3>1, Zenon DEF PoisonedForEver
  <2>0. cutoff' = cutoff
    BY DEF GazeErrorCallback
  <2>1. CASE i \in 1..n
    <3>1. i \in 1..Len(sent) /\ \A j \in 1..i : j \in 1..n
      BY <1>1, <2>1
    <3>2. cutoff = NaN \/ \E j \in 1..i : heard[j][a] \notin Int
      BY <1>3, <2>0, <3>1
    <3>3. sent[i][a] \notin Int
      BY <3>1, <3>2 DEF FilterInv, PoisonedForEver
    <3>. QED  BY <1>3, <2>1, <3>3
  <2>2. CASE i = n + 1
    <3>. DEFINE g == Started(filter[a], m[a])
    <3>1. g \in Filters /\ m[a] \in Float /\ g.y1 = (Out(a, n))'
      BY <1>7
    <3>2. cutoff = NaN \/ m[a] \notin Int \/ g.y1 \notin Int
      <4>. SUFFICES ASSUME cutoff # NaN  PROVE m[a] \notin Int \/ g.y1 \notin Int
        OBVIOUS
      <4>. PICK j \in 1..i : heard'[j][a] \notin Int
        BY <2>0
      <4>1. CASE j = n + 1
        BY <1>3, <4>1
      <4>2. CASE j \in 1..n
        <5>1. heard[j][a] \notin Int /\ n \in 1..n
          BY <1>3, <4>2
        <5>2. sent[n][a] \notin Int
          BY <1>1, <4>2, <5>1 DEF FilterInv, PoisonedForEver
        <5>3. (Out(a, n))' = sent[n][a]
          BY <1>3, <5>1 DEF Out
        <5>. QED  BY <3>1, <5>2, <5>3
      <4>. QED  BY <2>2, <4>1, <4>2
    <3>. HIDE DEF g
    <3>3. Filtered(g, m[a]) \notin Int
      BY <3>1, <3>2, FilteredNotFinite
    <3>. QED  BY <1>3, <2>2, <3>3 DEF g
  <2>. QED  BY <2>1, <2>2
<1>13. FiniteStays'
  <2>. SUFFICES ASSUME NEW a \in Axes, NEW i \in 1..(n + 1), cutoff' # NaN,
                       \A j \in 1..i : heard'[j][a] \in Int
                PROVE  sent'[i][a] \in Int
    <3>1. 1..Len(sent') = 1..(n + 1)
      BY <1>3
    <3>. QED  BY <3>1, Zenon DEF FiniteStays
  <2>0. cutoff # NaN
    BY DEF GazeErrorCallback
  <2>1. \A k \in 1..n : k <= i => sent[k][a] \in Int /\ sent'[k][a] = sent[k][a]
    <3>. TAKE k \in 1..n
    <3>. SUFFICES ASSUME k <= i  PROVE sent[k][a] \in Int /\ sent'[k][a] = sent[k][a]
      OBVIOUS
    <3>1. k \in 1..Len(sent) /\ \A j \in 1..k : j \in 1..n /\ j \in 1..i
      BY <1>1
    <3>2. \A j \in 1..k : heard[j][a] \in Int
      BY <1>3, <3>1
    <3>3. sent[k][a] \in Int
      BY <2>0, <3>1, <3>2 DEF FilterInv, FiniteStays
    <3>. QED  BY <1>3, <3>3
  <2>2. CASE i \in 1..n
    BY <2>1, <2>2
  <2>3. CASE i = n + 1
    <3>. DEFINE g == Started(filter[a], m[a])
    <3>1. heard'[1][a] \in Int /\ m[a] \in Int
      BY <1>3, <2>3
    <3>2. \A k \in {n, n - 1} : (In(a, k))' \in Int /\ (Out(a, k))' \in Int
      <4>. TAKE k \in {n, n - 1}
      <4>1. CASE k < 1
        BY <3>1, <4>1 DEF In, Out
      <4>2. CASE ~(k < 1)
        <5>1. k \in 1..n /\ k <= i /\ k \in 1..i
          BY <2>3, <4>2
        <5>2. heard'[k][a] \in Int /\ sent'[k][a] \in Int
          BY <2>1, <5>1
        <5>. QED  BY <4>2, <5>2 DEF In, Out
      <4>. QED  BY <4>1, <4>2
    <3>3. g \in Filters /\ g.x1 \in Int /\ g.x2 \in Int /\ g.y1 \in Int /\ g.y2 \in Int
      BY <1>7, <3>2
    <3>. HIDE DEF g
    <3>4. Sum(g, m[a]) \in Int /\ Filtered(g, m[a]) = Sum(g, m[a]) \div Denominator
      BY <2>0, <3>1, <3>3, FilteredFinite
    <3>5. Filtered(g, m[a]) \in Int
      BY <3>4, Rounded, FilterAssumption
    <3>. QED  BY <1>3, <2>3, <3>5 DEF g
  <2>. QED  BY <2>2, <2>3
<1>. QED  BY <1>4, <1>8, <1>10, <1>11, <1>12, <1>13 DEF FilterInv

LEMMA FilterStep == FilterInv /\ [Next]_vars => FilterInv'
<1>. SUFFICES ASSUME FilterInv, [Next]_vars  PROVE FilterInv'
  OBVIOUS
<1>1. CASE GazeErrorCallback
  BY <1>1, CallbackStep
<1>2. CASE UNCHANGED <<cutoff, filter, heard, sent>> /\ TypeOK'
  <2>1. /\ \A a, i : (In(a, i))' = In(a, i) /\ (Out(a, i))' = Out(a, i)
    BY <1>2 DEF In, Out
  <2>2. Remembers'
    BY <1>2 DEF FilterInv, Remembers, In, Out
  <2>3. SolvesEquation'
    BY <1>2, <2>1 DEF FilterInv, SolvesEquation
  <2>4. ConstantPasses' /\ PoisonedForEver' /\ FiniteStays'
    BY <1>2 DEF FilterInv, ConstantPasses, PoisonedForEver, FiniteStays
  <2>. QED  BY <1>2, <2>2, <2>3, <2>4 DEF FilterInv
<1>3. CASE Construct \/ KeyboardInterrupt \/ UNCHANGED vars
  <2>1. TypeOK'
    BY <1>3 DEF Construct, KeyboardInterrupt, vars, FilterInv, TypeOK
  <2>2. UNCHANGED <<cutoff, filter, heard, sent>>
    BY <1>3 DEF Construct, KeyboardInterrupt, vars
  <2>. QED  BY <1>2, <2>1, <2>2
<1>4. ASSUME NEW m \in Messages, Arrive(m)  PROVE FilterInv'
  <2>1. inbox \in Seq(Messages) /\ Len(inbox) <= Depth /\ Depth \in Nat \ {0}
    BY FilterAssumption DEF FilterInv, TypeOK
  <2>2. CASE Len(inbox) < Depth
    <3>1. inbox' = Append(inbox, m) /\ Len(Append(inbox, m)) = Len(inbox) + 1 /\ Len(inbox) \in Nat
      BY <1>4, <2>1, <2>2 DEF Arrive
    <3>2. inbox' \in Seq(Messages) /\ Len(inbox') <= Depth
      BY <2>1, <2>2, <3>1
    <3>3. TypeOK' /\ UNCHANGED <<cutoff, filter, heard, sent>>
      BY <1>4, <3>2 DEF Arrive, FilterInv, TypeOK
    <3>. QED  BY <1>2, <3>3
  <2>3. CASE ~(Len(inbox) < Depth)
    <3>1. inbox # <<>> /\ Len(inbox) \in Nat
      BY <2>1, <2>3
    <3>2. Tail(inbox) \in Seq(Messages) /\ Len(Tail(inbox)) = Len(inbox) - 1
      BY <2>1, <3>1
    <3>3. inbox' = Append(Tail(inbox), m) /\ Len(Append(Tail(inbox), m)) = Len(Tail(inbox)) + 1
      BY <1>4, <2>3, <3>2 DEF Arrive
    <3>4. inbox' \in Seq(Messages) /\ Len(inbox') <= Depth
      BY <2>1, <3>1, <3>2, <3>3
    <3>5. TypeOK' /\ UNCHANGED <<cutoff, filter, heard, sent>>
      BY <1>4, <3>4 DEF Arrive, FilterInv, TypeOK
    <3>. QED  BY <1>2, <3>5
  <2>. QED  BY <2>2, <2>3
<1>. QED  BY <1>1, <1>3, <1>4 DEF Next

LEMMA FilterInvariant == Spec => []FilterInv
  BY FilterInit, FilterStep, PTL DEF Spec

-----------------------------------------------------------------------------
(* Every variable keeps to its values; in particular one message is          *)
(* published for every message handled.                                      *)
THEOREM FilterTypeCorrect == Spec => []TypeOK
<1>1. FilterInv => TypeOK
  BY DEF FilterInv
<1>. QED  BY <1>1, FilterInvariant, PTL

(* What is published solves the filter's difference equation over the whole  *)
(* history of messages, for all coefficients.                                *)
THEOREM OutputSolvesEquation == Spec => []SolvesEquation
<1>1. FilterInv => SolvesEquation
  BY DEF FilterInv
<1>. QED  BY <1>1, FilterInvariant, PTL

(* A constant signal passes unchanged from its first message on.             *)
THEOREM ConstantSignalPasses == Spec => []ConstantPasses
<1>1. FilterInv => ConstantPasses
  BY DEF FilterInv
<1>. QED  BY <1>1, FilterInvariant, PTL

(* The filter never forgets a value that is not finite.                      *)
THEOREM PoisonStays == Spec => []PoisonedForEver
<1>1. FilterInv => PoisonedForEver
  BY DEF FilterInv
<1>. QED  BY <1>1, FilterInvariant, PTL

-----------------------------------------------------------------------------
(* How far the outputs go.  That depends on the coefficients: the rest is    *)
(* proved for those near 1 Hz at 30 Hz, the default of the node, and near    *)
(* 3 Hz at 30 Hz, and for every history of messages.                         *)

Within(x, m) == -m <= x /\ x <= m
Strictly(x, m) == -m < x /\ x < m

(* c1 and c2 are A1 and A2 over Denominator, in units of 1/100000.           *)
Near(c1, c2) == /\ Within(100000 * A1 - c1 * Denominator, Denominator)
                /\ Within(100000 * A2 - c2 * Denominator, Denominator)

OneHertz   == Near(-170555, 74366)
ThreeHertz == Near(-114298, 41280)
KnownCutoff == OneHertz \/ ThreeHertz

(* The rounded coefficients, a0 and 4 b0, and the unit they come in, times   *)
(* four for 4 B0 = Denominator + A1 + A2.                                    *)
C1 == IF OneHertz THEN -170555 ELSE -114298
C2 == IF OneHertz THEN 74366 ELSE 41280
C0 == 100000 + C1 + C2
Scale == 400000

(* Messages that spread over fewer units than Coarsest are too coarse for    *)
(* the rounding to the unit; for the others it adds no more than Rounding    *)
(* times their spread to a step.                                             *)
Coarsest == IF OneHertz THEN 14000 ELSE 3000
Rounding == IF OneHertz THEN 76 ELSE 285

(* Twice the distance of a value from c / 2: with a c of any parity, an      *)
(* interval of any length W is Within(Dev(x, c), W).                         *)
Dev(x, c) == 2 * x - c

LEMMA DevIsInt == ASSUME NEW x \in Int, NEW c \in Int PROVE Dev(x, c) \in Int
  BY DEF Dev

LEMMA CIsInt == C0 \in Int /\ C1 \in Int /\ C2 \in Int /\ Scale \in Int /\ Rounding \in Int
  BY SMTT(30) DEF C0, C1, C2, Scale, Rounding

LEMMA ProductBound ==
    ASSUME NEW d \in Nat, NEW m \in Nat, NEW p \in Int, NEW q \in Int, Within(p, d), Within(q, m)
    PROVE  Within(p * q, d * m)
<1>1. ASSUME NEW x \in Nat, NEW y \in Nat, x <= d, y <= m  PROVE x * y <= d * m /\ x * y \in Nat
  <2>1. (d - x) * m >= 0 /\ x * (m - y) >= 0
    BY <1>1
  <2>2. (d - x) * m = d * m - x * m /\ x * (m - y) = x * m - x * y /\ x * y \in Nat /\ x * m \in Nat
    BY <1>1
  <2>. QED  BY <2>1, <2>2
<1>. DEFINE x == IF p < 0 THEN -p ELSE p
            y == IF q < 0 THEN -q ELSE q
<1>2. x \in Nat /\ y \in Nat /\ x <= d /\ y <= m
  BY DEF Within
<1>3. p * q = x * y \/ p * q = -(x * y)
  OBVIOUS
<1>4. x * y <= d * m /\ x * y \in Nat /\ d * m \in Nat
  BY <1>1, <1>2
<1>. HIDE DEF x, y
<1>. QED  BY <1>3, <1>4 DEF Within

LEMMA Cancel ==
    ASSUME NEW d \in Nat \ {0}, NEW m \in Int, NEW e \in Int, Within(d * e, d * m)
    PROVE  Within(e, m)
<1>1. ASSUME NEW x \in Int, x > 0  PROVE d * x > 0
  BY <1>1
<1>2. e > m => FALSE
  <2>1. d * (e - m) = d * e - d * m
    OBVIOUS
  <2>. QED  BY <1>1, <2>1 DEF Within
<1>3. e < -m => FALSE
  <2>1. d * (-m - e) = -(d * m) - d * e
    OBVIOUS
  <2>. QED  BY <1>1, <2>1 DEF Within
<1>. QED  BY <1>2, <1>3 DEF Within

(* The equation times a scale, with the rounded coefficients taken out of    *)
(* it.                                                                       *)
LEMMA Scaled ==
    ASSUME NEW h \in Int, NEW d \in Int, NEW b0 \in Int, NEW a1 \in Int, NEW a2 \in Int,
           NEW c1 \in Int, NEW c2 \in Int,
           NEW s \in Int, NEW w \in Int, NEW w1 \in Int, NEW w2 \in Int, NEW r \in Int,
           4 * b0 = d + a1 + a2,
           b0 * s - a1 * w1 - a2 * w2 - d * w = r
    PROVE  d * (4 * h * w - (h + c1 + c2) * s + 4 * c1 * w1 + 4 * c2 * w2)
             = (h * a1 - c1 * d) * (s - 4 * w1) + (h * a2 - c2 * d) * (s - 4 * w2) - 4 * h * r
<1>. DEFINE hs == h * s
<1>1. 4 * (b0 * s) = d * s + a1 * s + a2 * s
  <2>1. 4 * (b0 * s) = (4 * b0) * s
    OBVIOUS
  <2>. QED  BY <2>1
<1>2. d * w = b0 * s - a1 * w1 - a2 * w2 - r
  OBVIOUS
<1>3. 4 * (d * w) = d * s + a1 * s + a2 * s - 4 * (a1 * w1) - 4 * (a2 * w2) - 4 * r
  BY <1>1, <1>2
<1>4. h * (4 * (d * w)) = h * (d * s + a1 * s + a2 * s - 4 * (a1 * w1) - 4 * (a2 * w2) - 4 * r)
  BY <1>3
<1>. QED  BY <1>4

(* What rounding to the unit leaves over in one step, and, in the rounded    *)
(* coefficients, the two sums the filter's next output is made of: Carry1    *)
(* goes into that output, Carry2 into the next Carry1.                       *)
Remainder(x, x1, x2, y, y1, y2) ==
    B0 * (x + 2 * x1 + x2) - A1 * y1 - A2 * y2 - Denominator * y

Residue(v, s1, w) == Scale * w - C0 * v - s1
Carry1(v, v1, w, w1) == C0 * (2 * v + v1) - 4 * C1 * w - 4 * C2 * w1
Carry2(v, w) == C0 * v - 4 * C2 * w

(* The filter's step in the rounded coefficients: the error made is small    *)
(* against the spread of the messages.                                       *)
LEMMA Residual ==
    ASSUME OneHertz \/ ThreeHertz, NEW W \in Nat, W >= Coarsest,
           NEW c \in Int, NEW x \in Int, NEW x1 \in Int, NEW x2 \in Int,
           NEW y \in Int, NEW y1 \in Int, NEW y2 \in Int,
           Remainder(x, x1, x2, y, y1, y2) \in 0..(Denominator - 1),
           Within(Dev(x, c), W), Within(Dev(x1, c), W), Within(Dev(x2, c), W),
           Strictly(9 * Dev(y1, c), 10 * W), Strictly(9 * Dev(y2, c), 10 * W)
    PROVE  Within(Residue(Dev(x, c), Carry1(Dev(x1, c), Dev(x2, c), Dev(y1, c), Dev(y2, c)),
                          Dev(y, c)), Rounding * W)
<1>. DEFINE r == Remainder(x, x1, x2, y, y1, y2)
            v == Dev(x, c)   v1 == Dev(x1, c)   v2 == Dev(x2, c)
            w == Dev(y, c)   w1 == Dev(y1, c)   w2 == Dev(y2, c)
<1>1. v \in Int /\ v1 \in Int /\ v2 \in Int /\ w \in Int /\ w1 \in Int /\ w2 \in Int
  BY DEF Dev
<1>2. Remainder(v, v1, v2, w, w1, w2) = 2 * r
  <2>. DEFINE s == x + 2 * x1 + x2
  <2>1. B0 \in Int /\ A1 \in Int /\ A2 \in Int /\ Denominator \in Int
        /\ 4 * B0 = Denominator + A1 + A2
    BY FilterAssumption
  <2>2. (4 * B0) * c = Denominator * c + A1 * c + A2 * c
    BY <2>1
  <2>3. B0 * (Dev(x, c) + 2 * Dev(x1, c) + Dev(x2, c)) = 2 * (B0 * s) - (4 * B0) * c
    <3>1. Dev(x, c) + 2 * Dev(x1, c) + Dev(x2, c) = 2 * s - 4 * c /\ s \in Int
      BY DEF Dev
    <3>. HIDE DEF s
    <3>2. B0 * (2 * s - 4 * c) = 2 * (B0 * s) - (4 * B0) * c
      BY <2>1, <3>1
    <3>. QED  BY <3>1, <3>2
  <2>4. /\ A1 * Dev(y1, c) = 2 * (A1 * y1) - A1 * c
        /\ A2 * Dev(y2, c) = 2 * (A2 * y2) - A2 * c
        /\ Denominator * Dev(y, c) = 2 * (Denominator * y) - Denominator * c
    BY <2>1 DEF Dev
  <2>5. /\ B0 * s \in Int /\ A1 * y1 \in Int /\ A2 * y2 \in Int /\ Denominator * y \in Int
        /\ A1 * c \in Int /\ A2 * c \in Int /\ Denominator * c \in Int
    BY <2>1
  <2>6. Remainder(x, x1, x2, y, y1, y2) = B0 * s - A1 * y1 - A2 * y2 - Denominator * y
    BY DEF Remainder
  <2>7. Remainder(Dev(x, c), Dev(x1, c), Dev(x2, c), Dev(y, c), Dev(y1, c), Dev(y2, c))
          = (2 * (B0 * s) - (Denominator * c + A1 * c + A2 * c)) - (2 * (A1 * y1) - A1 * c)
               - (2 * (A2 * y2) - A2 * c) - (2 * (Denominator * y) - Denominator * c)
    BY <2>2, <2>3, <2>4 DEF Remainder
  <2>. HIDE DEF s
  <2>. QED  BY <2>5, <2>6, <2>7
<1>3. /\ r \in 0..(Denominator - 1) /\ Within(v, W) /\ Within(v1, W) /\ Within(v2, W)
      /\ Within(9 * w1, 10 * W) /\ Within(9 * w2, 10 * W)
  BY <1>1 DEF Strictly, Within
<1>. HIDE DEF r, v, v1, v2, w, w1, w2
<1>. DEFINE d == Denominator
            s == v + 2 * v1 + v2
            p1 == 100000 * A1 - C1 * d
            p2 == 100000 * A2 - C2 * d
            q1 == s - 4 * w1
            q2 == s - 4 * w2
            e == Scale * w - C0 * s + 4 * C1 * w1 + 4 * C2 * w2
            m == 18 * W + 800000
<1>4. d \in Nat \ {0} /\ B0 \in Int /\ A1 \in Int /\ A2 \in Int /\ 4 * B0 = d + A1 + A2
  BY FilterAssumption
<1>5. C1 \in Int /\ C2 \in Int /\ C0 = 100000 + C1 + C2
  BY SMTT(30) DEF C1, C2, C0
<1>6. Within(p1, d) /\ Within(p2, d) /\ p1 \in Int /\ p2 \in Int
  BY <1>4, SMTT(30) DEF C1, C2, OneHertz, ThreeHertz, Near
<1>7. Within(q1, 9 * W) /\ Within(q2, 9 * W) /\ q1 \in Int /\ q2 \in Int /\ s \in Int
  BY <1>1, <1>3, SMTT(30) DEF Within
<1>8. Within(p1 * q1, d * (9 * W)) /\ Within(p2 * q2, d * (9 * W))
  <2>. HIDE DEF p1, p2, q1, q2, d
  <2>. QED  BY <1>4, <1>6, <1>7, ProductBound, SMTT(30)
<1>9. d * e = p1 * q1 + p2 * q2 - Scale * (2 * r)
  <2>. DEFINE h == 100000
              r2 == 2 * r
  <2>1. h \in Int /\ r2 \in Int
    BY <1>3, SMTT(30)
  <2>2. B0 * s - A1 * w1 - A2 * w2 - d * w = r2
    BY <1>2, SMTT(30) DEF Remainder
  <2>. HIDE DEF h, s, r2, d
  <2>3. d * (4 * h * w - (h + C1 + C2) * s + 4 * C1 * w1 + 4 * C2 * w2)
             = (h * A1 - C1 * d) * (s - 4 * w1) + (h * A2 - C2 * d) * (s - 4 * w2) - 4 * h * r2
    BY <1>1, <1>4, <1>5, <1>7, <2>1, <2>2, Scaled, SMTT(30)
  <2>4. 4 * h = Scale
    BY SMTT(30) DEF h, Scale
  <2>. QED  BY <1>1, <1>3, <1>5, <2>3, <2>4, SMTT(30) DEF h, r2
<1>10. Within(d * e, d * m)
  <2>1. d * (9 * W) = 9 * (d * W) /\ d * m = 18 * (d * W) + 800000 * d
    BY <1>4, SMTT(30)
  <2>2. p1 * q1 \in Int /\ p2 * q2 \in Int /\ d * W \in Int
    <3>. HIDE DEF p1, p2, q1, q2
    <3>. QED  BY <1>4, <1>6, <1>7, SMTT(30)
  <2>3. r >= 0 /\ r <= d /\ r \in Int
    BY <1>3, <1>4, SMTT(30)
  <2>. HIDE DEF d, e, m, p1, p2, q1, q2
  <2>. QED  BY <1>4, <1>8, <1>9, <2>1, <2>2, <2>3, SMTT(30) DEF Within, Scale
<1>11. Within(e, m) /\ e \in Int
  <2>1. e \in Int
    BY <1>1, <1>5, <1>7, SMTT(30) DEF Scale
  <2>2. m \in Int
    BY SMTT(30)
  <2>. HIDE DEF d, e, m
  <2>. QED  BY <1>4, <1>10, <2>1, <2>2, Cancel, SMTT(30)
<1>12. Within(e, Rounding * W)
  <2>. HIDE DEF e
  <2>. QED  BY <1>11, SMTT(30) DEF Within, Rounding, Coarsest
<1>13. e = Residue(v, Carry1(v1, v2, w1, w2), w)
  <2>. USE DEF Residue, Carry1
  <2>1. Scale \in Int
    BY SMTT(30) DEF Scale
  <2>2. C0 * s = C0 * v + C0 * (2 * v1 + v2)
    BY <1>1, <1>5
  <2>. QED  BY <1>1, <1>5, <2>1, <2>2, SMTT(30)
<1>. HIDE DEF e
<1>. QED  BY <1>12, <1>13 DEF v, v1, v2, w, w1, w2

-----------------------------------------------------------------------------
(* The pairs of sums that can come about: strips that together are a         *)
(* polygon the step maps into itself, whatever the next message in the       *)
(* interval.  Their directions and widths were found numerically; that they  *)
(* are closed under the step is CalmStep.                                    *)
Calm1(W, s1, s2) ==
    /\ Within(s1, 440109 * W)
    /\ Within(20 * s1 + 13 * s2, 4580156 * W)
    /\ Within(13 * s1 + 11 * s2, 2161843 * W)
    /\ Within(17 * s1 + 16 * s2, 2325531 * W)
    /\ Within(s1 + s2, 119333 * W)
    /\ Within(15 * s1 + 16 * s2, 1511206 * W)
    /\ Within(11 * s1 + 12 * s2, 1043327 * W)
    /\ Within(8 * s1 + 9 * s2, 700381 * W)
    /\ Within(13 * s1 + 15 * s2, 1074442 * W)
    /\ Within(11 * s1 + 13 * s2, 871506 * W)
    /\ Within(9 * s1 + 11 * s2, 687654 * W)
    /\ Within(11 * s1 + 14 * s2, 843884 * W)
    /\ Within(3 * s1 + 4 * s2, 246560 * W)
    /\ Within(5 * s1 + 7 * s2, 466515 * W)
    /\ Within(9 * s1 + 14 * s2, 1156014 * W)
    /\ Within(8 * s1 + 15 * s2, 1765604 * W)
    /\ Within(s1 + 6 * s2, 1567999 * W)

Calm3(W, s1, s2) ==
    /\ Within(s1, 416577 * W)
    /\ Within(8 * s1 + 7 * s2, 2319767 * W)
    /\ Within(11 * s1 + 14 * s2, 2692396 * W)
    /\ Within(8 * s1 + 13 * s2, 1806020 * W)
    /\ Within(8 * s1 + 17 * s2, 1951644 * W)
    /\ Within(4 * s1 + 15 * s2, 1877170 * W)
    /\ Within(-2 * s1 + 5 * s2, 1614337 * W)

Calm(W, s1, s2) == IF OneHertz THEN Calm1(W, s1, s2) ELSE Calm3(W, s1, s2)

LEMMA CalmStart ==
    ASSUME NEW W \in Nat, NEW v \in Int, Within(v, W)
    PROVE  Calm(W, Carry1(v, v, v, v), Carry2(v, v))
<1>1. CASE OneHertz
  BY <1>1, SMTT(60) DEF Calm, Calm1, Carry1, Carry2, C0, C1, C2, Within
<1>2. CASE ~OneHertz
  BY <1>2, SMTT(60) DEF Calm, Calm3, Carry1, Carry2, C0, C1, C2, Within
<1>. QED  BY <1>1, <1>2

LEMMA CalmStep ==
    ASSUME NEW W \in Nat, W > 0, NEW s1 \in Int, NEW v1 \in Int, NEW w1 \in Int,
           Calm(W, s1, Carry2(v1, w1)),
           NEW v \in Int, NEW w \in Int, Within(v, W),
           Within(Residue(v, s1, w), Rounding * W)
    PROVE  /\ Calm(W, Carry1(v, v1, w, w1), Carry2(v, w))
           /\ Strictly(9 * w, 10 * W)
<1>. DEFINE s2 == Carry2(v1, w1)
            t1 == Carry1(v, v1, w, w1)
            t2 == Carry2(v, w)
<1>1. t1 = 2 * C0 * v + s2 - 4 * C1 * w /\ t2 = C0 * v - 4 * C2 * w /\ s2 \in Int
  <2>1. C0 \in Int /\ C1 \in Int /\ C2 \in Int
    BY SMTT(30) DEF C0, C1, C2
  <2>. QED  BY <2>1 DEF Carry1, Carry2
<1>2. Within(Scale * w - C0 * v - s1, Rounding * W)
  BY DEF Residue
<1>3. Calm(W, s1, s2)
  OBVIOUS
<1>. HIDE DEF s2, t1, t2
<1>4. ASSUME OneHertz  PROVE Calm(W, t1, t2) /\ Strictly(9 * w, 10 * W)
  BY <1>1, <1>2, <1>3, <1>4, SMTT(60) DEF Calm, Calm1, C0, C1, C2, Scale, Rounding, Within, Strictly
<1>5. ASSUME ~OneHertz  PROVE Calm(W, t1, t2) /\ Strictly(9 * w, 10 * W)
  BY <1>1, <1>2, <1>3, <1>5, SMTT(60) DEF Calm, Calm3, C0, C1, C2, Scale, Rounding, Within, Strictly
<1>. QED  BY <1>4, <1>5 DEF t1, t2

(* Steps after which a constant message has come through to 1/18.            *)
Fading == IF OneHertz THEN 17 ELSE 6

(* After so many steps with the same message v the output is near v,         *)
(* wherever in the polygon it started.                                       *)
LEMMA Fades ==
    ASSUME NEW W \in Nat, W > 0, NEW s1 \in Int, NEW v0 \in Int, NEW w0 \in Int,
           Calm(W, s1, Carry2(v0, w0)),
           NEW v \in Int, Within(v, W), NEW w \in [1..Fading -> Int],
           Within(Residue(v, s1, w[1]), Rounding * W),
           Within(Residue(v, Carry1(v, v0, w[1], w0), w[2]), Rounding * W),
           \A k \in 3..Fading : Within(Residue(v, Carry1(v, v, w[k-1], w[k-2]), w[k]), Rounding * W)
    PROVE  Strictly(9 * (w[Fading] - v), W)
<1>. DEFINE Row(k) == Within(Residue(v, Carry1(v, v, w[k-1], w[k-2]), w[k]), Rounding * W)
<1>1. ASSUME OneHertz  PROVE Strictly(9 * (w[Fading] - v), W)
  <2>1. /\ Row(3) /\ Row(4) /\ Row(5) /\ Row(6) /\ Row(7) /\ Row(8) /\ Row(9) /\ Row(10)
        /\ Row(11) /\ Row(12) /\ Row(13) /\ Row(14) /\ Row(15) /\ Row(16) /\ Row(17)
    BY <1>1, SMTT(60) DEF Fading
  <2>2. \A k \in 1..17 : w[k] \in Int
    BY <1>1, SMTT(60) DEF Fading
  <2>. QED  BY <1>1, <2>1, <2>2, SMTT(60)
            DEF Fading, Calm, Calm1, Residue, Carry1, Carry2, C0, C1, C2, Scale, Rounding, Within, Strictly
<1>2. ASSUME ~OneHertz  PROVE Strictly(9 * (w[Fading] - v), W)
  <2>1. /\ Row(3) /\ Row(4) /\ Row(5) /\ Row(6)
    BY <1>2, SMTT(60) DEF Fading
  <2>2. \A k \in 1..6 : w[k] \in Int
    BY <1>2, SMTT(60) DEF Fading
  <2>. QED  BY <1>2, <2>1, <2>2, SMTT(60)
            DEF Fading, Calm, Calm3, Residue, Carry1, Carry2, C0, C1, C2, Scale, Rounding, Within, Strictly
<1>. QED  BY <1>1, <1>2

-----------------------------------------------------------------------------
(* The same along the history of messages of one axis.                       *)
X(a, c, i) == Dev(In(a, i), c)
Y(a, c, i) == Dev(Out(a, i), c)

S1(a, c, i) == Carry1(X(a, c, i), X(a, c, i-1), Y(a, c, i), Y(a, c, i-1))
S2(a, c, i) == Carry2(X(a, c, i), Y(a, c, i))

Bounded(a, c, W, i) ==
    /\ {In(a, i), In(a, i-1), Out(a, i), Out(a, i-1)} \subseteq Int
    /\ Within(X(a, c, i), W) /\ Within(X(a, c, i-1), W)
    /\ Strictly(9 * Y(a, c, i), 10 * W) /\ Strictly(9 * Y(a, c, i-1), 10 * W)
    /\ Calm(W, S1(a, c, i), S2(a, c, i))

(* All messages up to the n-th are numbers in the interval of length W       *)
(* about c / 2.                                                              *)
Spread(a, c, W, n) ==
    \A j \in 1..n : heard[j][a] \in Int /\ Within(Dev(heard[j][a], c), W)

(* Induction over the steps, as a statement about sets.                      *)
LEMMA SetInduction ==
    ASSUME NEW S \in SUBSET Nat, 0 \in S, \A n \in S : n + 1 \in S
    PROVE  \A n \in Nat : n \in S
<1> SUFFICES ASSUME NEW m \in Nat, m \notin S PROVE FALSE
  OBVIOUS
<1> DEFINE T == Nat \ S
<1>1. PICK x \in T : \A y \in T : ~(<<y, x>> \in OpToRel(<,Nat))
  <2>1. T \subseteq Nat /\ T # {}
    OBVIOUS
  <2>2. IsWellFoundedOn(OpToRel(<,Nat), Nat)
    BY NatLessThanWellFounded
  <2> HIDE DEF T
  <2> QED
    BY <2>1, <2>2, WFMin
<1>2. x \in Nat /\ x # 0 /\ x - 1 \in Nat
  OBVIOUS
<1>3. x - 1 \in T
  <2>1. CASE x - 1 \in S
    BY <1>2, <2>1
  <2> QED BY <1>2, <2>1
<1>4. <<x - 1, x>> \in OpToRel(<,Nat)
  BY <1>2 DEF OpToRel
<1> QED
  BY <1>1, <1>3, <1>4

LEMMA BoundedStart ==
    ASSUME FilterInv, NEW a \in Axes, NEW c \in Int, NEW W \in Nat, W >= Coarsest,
           1 <= Len(sent), Spread(a, c, W, 1)
    PROVE  Bounded(a, c, W, 0)
<1>. DEFINE v == Dev(heard[1][a], c)
<1>1. 1 \in 1..1
  OBVIOUS
<1>2. heard[1][a] \in Int /\ v \in Int /\ Within(v, W)
  BY <1>1, DevIsInt, Zenon DEF Spread
<1>3. /\ In(a, 0) = heard[1][a] /\ In(a, -1) = heard[1][a]
      /\ Out(a, 0) = heard[1][a] /\ Out(a, -1) = heard[1][a] /\ 0 - 1 = -1
  BY DEF In, Out
<1>4. X(a, c, 0) = v /\ X(a, c, 0-1) = v /\ Y(a, c, 0) = v /\ Y(a, c, 0-1) = v
  BY <1>3 DEF X, Y
<1>. HIDE DEF v
<1>5. Calm(W, S1(a, c, 0), S2(a, c, 0))
  BY <1>2, <1>4, CalmStart DEF S1, S2
<1>6. W > 0
  BY SMTT(30) DEF Coarsest
<1>7. Strictly(9 * v, 10 * W)
  BY <1>2, <1>6 DEF Strictly, Within
<1>. QED  BY <1>2, <1>3, <1>4, <1>5, <1>7 DEF Bounded

LEMMA NextOutput ==
    ASSUME FilterInv, KnownCutoff, cutoff # NaN, NEW a \in Axes, NEW c \in Int,
           NEW W \in Nat, W >= Coarsest, NEW i \in 1..Len(sent), Spread(a, c, W, i),
           Bounded(a, c, W, i - 1)
    PROVE  /\ In(a, i) \in Int /\ Out(a, i) \in Int
           /\ Within(X(a, c, i), W)
           /\ Within(Residue(X(a, c, i), S1(a, c, i-1), Y(a, c, i)), Rounding * W)
<1>. DEFINE x == In(a, i)    x1 == In(a, i-1)    x2 == In(a, i-2)
            y == Out(a, i)   y1 == Out(a, i-1)   y2 == Out(a, i-2)
            r == Remainder(x, x1, x2, y, y1, y2)
<1>1. Len(sent) \in Nat /\ i \in Int /\ ~(i < 1) /\ i - 1 - 1 = i - 2
  BY DEF FilterInv, TypeOK
<1>2. x \in Int /\ Within(X(a, c, i), W)
  BY <1>1 DEF Spread, In, X
<1>3. y \in Int
  BY <1>1 DEF FilterInv, FiniteStays, Spread, Out
<1>4. x1 \in Int /\ x2 \in Int /\ y1 \in Int /\ y2 \in Int
  BY <1>1 DEF Bounded
<1>5. r \in 0..(Denominator - 1)
  BY <1>2, <1>4 DEF FilterInv, SolvesEquation, Remainder
<1>. DEFINE v == X(a, c, i)  v1 == X(a, c, i-1)  v2 == X(a, c, i-2)
            w == Y(a, c, i)  w1 == Y(a, c, i-1)  w2 == Y(a, c, i-2)
<1>6. /\ v = Dev(x, c) /\ v1 = Dev(x1, c) /\ v2 = Dev(x2, c)
      /\ w = Dev(y, c) /\ w1 = Dev(y1, c) /\ w2 = Dev(y2, c)
  BY DEF X, Y
<1>7. /\ Within(v, W) /\ Within(v1, W) /\ Within(v2, W)
      /\ Strictly(9 * w1, 10 * W) /\ Strictly(9 * w2, 10 * W)
  <2>1. v2 = X(a, c, i-1-1) /\ w2 = Y(a, c, i-1-1)
    BY <1>1
  <2>. QED  BY <1>2, <2>1 DEF Bounded
<1>8. S1(a, c, i-1) = Carry1(v1, v2, w1, w2)
  BY <1>1 DEF S1
<1>. HIDE DEF x, x1, x2, y, y1, y2, v, v1, v2, w, w1, w2
<1>9. Within(Residue(v, Carry1(v1, v2, w1, w2), w), Rounding * W)
  BY <1>2, <1>3, <1>4, <1>5, <1>6, <1>7, Residual DEF KnownCutoff
<1>. QED  BY <1>2, <1>3, <1>8, <1>9 DEF x, y, v, w

LEMMA BoundedStep ==
    ASSUME FilterInv, KnownCutoff, cutoff # NaN, NEW a \in Axes, NEW c \in Int,
           NEW W \in Nat, W >= Coarsest, NEW i \in 1..Len(sent), Spread(a, c, W, i),
           Bounded(a, c, W, i - 1)
    PROVE  Bounded(a, c, W, i)
<1>. DEFINE v == X(a, c, i)  v1 == X(a, c, i-1)  w == Y(a, c, i)  w1 == Y(a, c, i-1)
            s1 == S1(a, c, i-1)  s2 == S2(a, c, i-1)
<1>1. In(a, i) \in Int /\ Out(a, i) \in Int /\ Within(v, W)
      /\ Within(Residue(v, s1, w), Rounding * W)
  BY NextOutput
<1>2. /\ In(a, i-1) \in Int /\ Out(a, i-1) \in Int /\ Within(v1, W) /\ Strictly(9 * w1, 10 * W)
      /\ Calm(W, s1, s2)
      /\ In(a, i-1-1) \in Int /\ Out(a, i-1-1) \in Int
  BY DEF Bounded
<1>3. /\ v \in Int /\ w \in Int /\ v1 \in Int /\ w1 \in Int
      /\ X(a, c, i-1-1) \in Int /\ Y(a, c, i-1-1) \in Int
  BY <1>1, <1>2, DevIsInt DEF X, Y
<1>4. /\ s2 = Carry2(v1, w1) /\ s2 \in Int
      /\ s1 = Carry1(v1, X(a, c, i-1-1), w1, Y(a, c, i-1-1)) /\ s1 \in Int
  <2>1. \A p, q, p1, q1 \in Int : Carry1(p, p1, q, q1) \in Int /\ Carry2(p, q) \in Int
    BY CIsInt DEF Carry1, Carry2
  <2>. QED  BY <1>3, <2>1, Zenon DEF S1, S2
<1>5. W > 0
  BY SMTT(30) DEF Coarsest
<1>6. S1(a, c, i) = Carry1(v, v1, w, w1) /\ S2(a, c, i) = Carry2(v, w)
  BY DEF S1, S2
<1>. HIDE DEF v, v1, w, w1, s1, s2
<1>7. Calm(W, Carry1(v, v1, w, w1), Carry2(v, w)) /\ Strictly(9 * w, 10 * W)
  <2>1. Calm(W, s1, Carry2(v1, w1))
    BY <1>2, <1>4
  <2>. QED  BY <1>1, <1>3, <1>4, <1>5, <2>1, CalmStep
<1>. QED  BY <1>1, <1>2, <1>6, <1>7 DEF Bounded, v, v1, w, w1

LEMMA Envelope ==
    ASSUME FilterInv, KnownCutoff, cutoff # NaN, NEW a \in Axes, NEW c \in Int,
           NEW W \in Nat, W >= Coarsest, NEW n \in 1..Len(sent), Spread(a, c, W, n)
    PROVE  \A i \in 0..n : Bounded(a, c, W, i)
<1>. DEFINE S == {i \in Nat : i <= n => Bounded(a, c, W, i)}
<1>1. Len(sent) \in Nat
  BY DEF FilterInv, TypeOK
<1>2. 0 \in S
  <2>1. Spread(a, c, W, 1) /\ 1 <= Len(sent)
    BY <1>1 DEF Spread
  <2>. QED  BY <2>1, BoundedStart
<1>3. \A i \in S : i + 1 \in S
  <2>. SUFFICES ASSUME NEW i \in S, i + 1 <= n  PROVE Bounded(a, c, W, i + 1)
    OBVIOUS
  <2>1. i \in Nat /\ Bounded(a, c, W, i) /\ i + 1 - 1 = i /\ i + 1 \in 1..Len(sent)
    BY <1>1
  <2>2. Spread(a, c, W, i + 1)
    BY <2>1 DEF Spread
  <2>. QED  BY <2>1, <2>2, BoundedStep
<1>4. S \in SUBSET Nat
  OBVIOUS
<1>. HIDE DEF S
<1>5. \A i \in Nat : i \in S
  BY <1>2, <1>3, <1>4, SetInduction
<1>. QED  BY <1>5 DEF S

LEMMA Settles ==
    ASSUME FilterInv, KnownCutoff, cutoff # NaN, NEW a \in Axes, NEW c \in Int,
           NEW W \in Nat, W >= Coarsest, NEW n \in 1..Len(sent), Spread(a, c, W, n),
           n >= Fading, NEW z, \A j \in (n - Fading + 1)..n : heard[j][a] = z
    PROVE  Strictly(9 * (Dev(sent[n][a], c) - Dev(z, c)), W)
<1>. DEFINE m == n - Fading
            v == Dev(z, c)
            w == [k \in 1..Fading |-> Y(a, c, m + k)]
<1>1. Fading \in Nat /\ Fading >= 6
  BY SMTT(30) DEF Fading
<1>2. m \in Nat /\ m + Fading = n /\ Len(sent) \in Nat /\ n \in Nat
  BY <1>1 DEF FilterInv, TypeOK
<1>. HIDE DEF m
<1>3. \A i \in 0..n : Bounded(a, c, W, i)
  BY Envelope
<1>4. ASSUME NEW i \in (m + 1)..n
      PROVE  /\ X(a, c, i) = v /\ Y(a, c, i) \in Int /\ v \in Int /\ Within(v, W)
             /\ Within(Residue(v, S1(a, c, i - 1), Y(a, c, i)), Rounding * W)
  <2>1. /\ i \in 1..Len(sent) /\ i \in (n - Fading + 1)..n /\ i - 1 \in 0..n
        /\ i <= n /\ ~(i < 1)
    BY <1>1, <1>2
  <2>2. X(a, c, i) = v
    BY <2>1 DEF X, In
  <2>3. Spread(a, c, W, i) /\ Bounded(a, c, W, i - 1)
    BY <1>2, <1>3, <2>1 DEF Spread
  <2>4. /\ In(a, i) \in Int /\ Out(a, i) \in Int /\ Within(X(a, c, i), W)
        /\ Within(Residue(X(a, c, i), S1(a, c, i - 1), Y(a, c, i)), Rounding * W)
    BY <2>1, <2>3, NextOutput
  <2>5. X(a, c, i) \in Int /\ Y(a, c, i) \in Int
    BY <2>4, DevIsInt DEF X, Y
  <2>. HIDE DEF v
  <2>. QED  BY <2>2, <2>4, <2>5, Zenon
<1>5. ASSUME NEW i \in (m + 2)..n
       PROVE  Within(Residue(v, Carry1(v, X(a, c, i - 2), Y(a, c, i - 1), Y(a, c, i - 2)),
                             Y(a, c, i)), Rounding * W)
  <2>1. i \in (m + 1)..n /\ i - 1 \in (m + 1)..n /\ i - 1 - 1 = i - 2
    BY <1>1, <1>2
  <2>. HIDE DEF v
  <2>2. X(a, c, i - 1) = v
    BY <1>4, <2>1, Zenon
  <2>3. S1(a, c, i - 1) = Carry1(X(a, c, i - 1), X(a, c, i - 2), Y(a, c, i - 1), Y(a, c, i - 2))
    BY <2>1 DEF S1
  <2>4. Within(Residue(v, S1(a, c, i - 1), Y(a, c, i)), Rounding * W)
    BY <1>4, <2>1, Zenon
  <2>. QED  BY <2>2, <2>3, <2>4, Zenon
<1>. HIDE DEF v
<1>6. W \in Nat /\ W > 0
  BY SMTT(30) DEF Coarsest
<1>7. Bounded(a, c, W, m)
  BY <1>1, <1>2, <1>3
<1>. DEFINE s1 == S1(a, c, m)  v0 == X(a, c, m)  w0 == Y(a, c, m)
<1>8. Calm(W, s1, Carry2(v0, w0)) /\ v0 \in Int /\ w0 \in Int /\ s1 \in Int
  <2>1. X(a, c, m) \in Int /\ Y(a, c, m) \in Int /\ X(a, c, m-1) \in Int /\ Y(a, c, m-1) \in Int
    BY <1>7, DevIsInt DEF Bounded, X, Y
  <2>2. S1(a, c, m) \in Int
    BY <2>1, CIsInt DEF S1, Carry1
  <2>. QED  BY <1>7, <2>1, <2>2 DEF Bounded, S2
<1>9. w \in [1..Fading -> Int] /\ \A k \in 1..Fading : w[k] = Y(a, c, m + k)
  <2>1. \A k \in 1..Fading : m + k \in (m + 1)..n
    BY <1>1, <1>2
  <2>. QED  BY <1>4, <2>1
<1>. HIDE DEF w, s1, v0, w0
<1>10. v \in Int /\ Within(v, W)
  BY <1>1, <1>2, <1>4
<1>11. Within(Residue(v, s1, w[1]), Rounding * W)
  <2>1. 1 \in 1..Fading /\ m + 1 \in (m + 1)..n /\ m + 1 - 1 = m
    BY <1>1, <1>2
  <2>2. Within(Residue(v, S1(a, c, m + 1 - 1), Y(a, c, m + 1)), Rounding * W)
    BY <1>2, <1>4, <2>1
  <2>. QED  BY <1>9, <2>1, <2>2 DEF s1
<1>12. Within(Residue(v, Carry1(v, v0, w[1], w0), w[2]), Rounding * W)
  <2>1. /\ 1 \in 1..Fading /\ 2 \in 1..Fading /\ m + 2 \in (m + 2)..n
        /\ m + 2 - 1 = m + 1 /\ m + 2 - 2 = m
    BY <1>1, <1>2
  <2>2. Within(Residue(v, Carry1(v, X(a, c, m + 2 - 2), Y(a, c, m + 2 - 1), Y(a, c, m + 2 - 2)),
                       Y(a, c, m + 2)), Rounding * W)
    BY <1>2, <1>5, <2>1
  <2>3. w[1] = Y(a, c, m + 1) /\ w[2] = Y(a, c, m + 2)
    BY <1>9, <2>1
  <2>. QED  BY <2>1, <2>2, <2>3 DEF v0, w0
<1>13. ASSUME NEW k \in 3..Fading
       PROVE  Within(Residue(v, Carry1(v, v, w[k-1], w[k-2]), w[k]), Rounding * W)
  <2>1. /\ k \in 1..Fading /\ k-1 \in 1..Fading /\ k-2 \in 1..Fading
        /\ m + k \in (m + 2)..n /\ m + (k-2) \in (m + 1)..n
        /\ m + k - 1 = m + (k-1) /\ m + k - 2 = m + (k-2)
    BY <1>1, <1>2
  <2>2. Within(Residue(v, Carry1(v, X(a, c, m + k - 2), Y(a, c, m + k - 1), Y(a, c, m + k - 2)),
                       Y(a, c, m + k)), Rounding * W)
    BY <1>2, <1>5, <2>1
  <2>3. w[k] = Y(a, c, m + k) /\ w[k-1] = Y(a, c, m + (k-1)) /\ w[k-2] = Y(a, c, m + (k-2))
        /\ X(a, c, m + (k-2)) = v
    BY <1>4, <1>9, <2>1
  <2>. QED  BY <2>1, <2>2, <2>3
<1>14. Strictly(9 * (w[Fading] - v), W)
  BY <1>6, <1>8, <1>9, <1>10, <1>11, <1>12, <1>13, Fades
<1>15. w[Fading] = Dev(sent[n][a], c)
  <2>1. Fading \in 1..Fading /\ ~(n < 1)
    BY <1>1, <1>2
  <2>. QED  BY <1>2, <1>9, <2>1 DEF Y, Out
<1>. QED  BY <1>14, <1>15 DEF v

-----------------------------------------------------------------------------
(* Numbers in an interval of length W come out as numbers that leave it by   *)
(* no more than W/18 at either end.                                          *)
Enveloped ==
    \A a \in Axes : \A n \in 1..Len(sent) : \A c \in Int : \A W \in Nat :
        cutoff # NaN /\ W >= Coarsest /\ Spread(a, c, W, n)
        => sent[n][a] \in Int /\ Strictly(9 * Dev(sent[n][a], c), 10 * W)

(* After Fading messages with the same value the output differs from it by   *)
(* less than W/18.                                                           *)
Forgetful ==
    \A a \in Axes : \A n \in 1..Len(sent) : \A c \in Int : \A W \in Nat : \A z \in Int :
        /\ cutoff # NaN /\ W >= Coarsest /\ Spread(a, c, W, n)
        /\ n >= Fading /\ \A j \in (n - Fading + 1)..n : heard[j][a] = z
        => sent[n][a] \in Int /\ Strictly(18 * (sent[n][a] - z), W)

LEMMA StaysEnveloped == KnownCutoff /\ FilterInv => Enveloped
<1>. SUFFICES ASSUME KnownCutoff, FilterInv, NEW a \in Axes, NEW n \in 1..Len(sent),
                     NEW c \in Int, NEW W \in Nat, cutoff # NaN, W >= Coarsest,
                     Spread(a, c, W, n)
              PROVE  sent[n][a] \in Int /\ Strictly(9 * Dev(sent[n][a], c), 10 * W)
  BY DEF Enveloped
<1>1. n \in Nat /\ n \in 0..n /\ ~(n < 1) /\ Len(sent) \in Nat
  BY DEF FilterInv, TypeOK
<1>2. Bounded(a, c, W, n)
  BY <1>1, Envelope
<1>3. Out(a, n) = sent[n][a]
  BY <1>1 DEF Out
<1>4. Out(a, n) \in Int /\ Strictly(9 * Dev(Out(a, n), c), 10 * W)
  BY <1>2 DEF Bounded, Y
<1>. QED  BY <1>3, <1>4, Zenon

LEMMA StaysForgetful == KnownCutoff /\ FilterInv => Forgetful
<1>. SUFFICES ASSUME KnownCutoff, FilterInv, NEW a \in Axes, NEW n \in 1..Len(sent),
                     NEW c \in Int, NEW W \in Nat, NEW z \in Int, cutoff # NaN,
                     W >= Coarsest, Spread(a, c, W, n), n >= Fading,
                     \A j \in (n - Fading + 1)..n : heard[j][a] = z
              PROVE  sent[n][a] \in Int /\ Strictly(18 * (sent[n][a] - z), W)
  BY DEF Forgetful
<1>1. sent[n][a] \in Int
  BY StaysEnveloped DEF Enveloped
<1>2. Strictly(9 * (Dev(sent[n][a], c) - Dev(z, c)), W)
  BY Settles
<1>3. \A y \in Int : 9 * (Dev(y, c) - Dev(z, c)) = 18 * (y - z)
  BY DEF Dev
<1>4. 9 * (Dev(sent[n][a], c) - Dev(z, c)) = 18 * (sent[n][a] - z)
  BY <1>1, <1>3, Zenon
<1>. QED  BY <1>1, <1>2, <1>4, Zenon

(* The filter's overshoot is bounded for every history of numbers, however   *)
(* they alternate and from its first message on.                             *)
THEOREM OvershootBounded == ASSUME KnownCutoff PROVE Spec => []Enveloped
<1>1. FilterInv => Enveloped
  BY StaysEnveloped
<1>. QED  BY <1>1, FilterInvariant, PTL

(* The filter forgets every history of numbers in Fading messages.           *)
THEOREM HistoryForgotten == ASSUME KnownCutoff PROVE Spec => []Forgetful
<1>1. FilterInv => Forgetful
  BY StaysForgetful
<1>. QED  BY <1>1, FilterInvariant, PTL
=============================================================================
