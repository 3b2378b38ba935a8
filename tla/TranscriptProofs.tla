-------------------------- MODULE TranscriptProofs --------------------------
(***************************************************************************)
(* Lemmas about the operators of Transcript: what append, repair and       *)
(* compact do to the pending calls and to the shape a provider accepts.    *)
(***************************************************************************)
EXTENDS Transcript, FiniteSetTheorems, TLAPS

LEMMA RowTypes ==
  /\ \A body \in Bodies : UserRow(body) \in Row
  /\ \A calls \in Seq(Calls) : AssistantRow(calls) \in Row
  /\ \A call \in Calls, body \in Bodies : ToolRow(call, body) \in Row
<1>1. << >> \in Seq(Calls)
  OBVIOUS
<1>2. QED
  BY <1>1 DEF Row, Bodies, UserRow, AssistantRow, ToolRow

LEMMA PendingFinite ==
  ASSUME NEW m
  PROVE  Pending(m) \subseteq Calls /\ IsFiniteSet(Pending(m))
<1>1. Pending(m) \subseteq Calls
  BY DEF Pending
<1>2. QED
  BY <1>1, CallsAssumption, FS_Subset DEF CallsAssumption

(* A row that neither asks nor answers leaves the pending calls alone.     *)
LEMMA PendingAppendPlain ==
  ASSUME NEW m \in Seq(Row), NEW r \in Row, ~IsTool(r), ~Opens(r)
  PROVE  Pending(Append(m, r)) = Pending(m)
<1> DEFINE n == Append(m, r)
<1>1. /\ n \in Seq(Row) /\ Len(n) = Len(m) + 1 /\ n[Len(m) + 1] = r
      /\ \A i \in 1..Len(m) : n[i] = m[i]
      /\ DOMAIN n = 1..(Len(m) + 1) /\ DOMAIN m = 1..Len(m) /\ Len(m) \in Nat
  OBVIOUS
<1> HIDE DEF n
<1>2. \A i : LastOpening(n, i) <=> LastOpening(m, i)
  BY <1>1 DEF LastOpening
<1>3. ASSUME NEW i, LastOpening(m, i), NEW c
      PROVE  (\A j \in (i+1)..Len(n) : IsTool(n[j]) => n[j].answers # c)
             <=> (\A j \in (i+1)..Len(m) : IsTool(m[j]) => m[j].answers # c)
  BY <1>1, <1>3 DEF LastOpening
<1>4. \A i : LastOpening(m, i) => n[i] = m[i] /\ i \in DOMAIN m /\ i \in DOMAIN n
  BY <1>1 DEF LastOpening
<1>5. ASSUME NEW c \in Calls
      PROVE  c \in Pending(n) <=> c \in Pending(m)
  <2>1. ASSUME NEW i
        PROVE  (/\ i \in DOMAIN n /\ LastOpening(n, i) /\ c \in Ids(n[i])
                /\ \A j \in (i+1)..Len(n) : IsTool(n[j]) => n[j].answers # c)
               <=>
               (/\ i \in DOMAIN m /\ LastOpening(m, i) /\ c \in Ids(m[i])
                /\ \A j \in (i+1)..Len(m) : IsTool(m[j]) => m[j].answers # c)
    BY <1>2, <1>3, <1>4
  <2>2. QED
    BY <2>1 DEF Pending
<1>6. Pending(n) = Pending(m)
  BY <1>5 DEF Pending
<1>7. QED
  BY <1>6 DEF n

(* An assistant row with calls makes those the pending ones.               *)
LEMMA PendingAppendCalls ==
  ASSUME NEW m \in Seq(Row), NEW r \in Row, Opens(r)
  PROVE  Pending(Append(m, r)) = Ids(r)
<1> DEFINE n == Append(m, r)
<1>1. /\ Len(n) = Len(m) + 1 /\ n[Len(m) + 1] = r
      /\ DOMAIN n = 1..(Len(m) + 1) /\ Len(m) \in Nat
  OBVIOUS
<1> HIDE DEF n
<1>2. \A i : LastOpening(n, i) <=> i = Len(n)
  BY <1>1 DEF LastOpening
<1>3. Ids(r) \subseteq Calls
  BY DEF Ids, Row
<1>4. Pending(n) = Ids(r)
  BY <1>1, <1>2, <1>3 DEF Pending
<1>5. QED
  BY <1>4 DEF n

(* What the next lemmas say of a history followed by answers.              *)
Extends(n, m) ==
  /\ Len(n) >= Len(m)
  /\ \A i \in 1..Len(m) : n[i] = m[i]

AnswersAfter(n, m) == {n[j].answers : j \in (Len(m)+1)..Len(n)}

(* Answers take themselves out of the pending calls.                       *)
LEMMA PendingExtendTools ==
  ASSUME NEW m \in Seq(Row), NEW n \in Seq(Row), Extends(n, m),
         \A j \in (Len(m)+1)..Len(n) : IsTool(n[j])
  PROVE  Pending(n) = Pending(m) \ AnswersAfter(n, m)
<1>1. /\ DOMAIN n = 1..Len(n) /\ DOMAIN m = 1..Len(m)
      /\ Len(m) \in Nat /\ Len(n) \in Nat /\ Len(n) >= Len(m)
      /\ \A i \in 1..Len(m) : n[i] = m[i]
  BY DEF Extends
<1>2. \A j \in (Len(m)+1)..Len(n) : IsTool(n[j]) /\ ~Opens(n[j])
  BY DEF Opens, IsTool
<1>3. \A i : LastOpening(n, i) <=> LastOpening(m, i)
  BY <1>1, <1>2 DEF LastOpening
<1>4. ASSUME NEW i, LastOpening(m, i), NEW c
      PROVE  (\A j \in (i+1)..Len(n) : IsTool(n[j]) => n[j].answers # c)
             <=> /\ \A j \in (i+1)..Len(m) : IsTool(m[j]) => m[j].answers # c
                 /\ c \notin AnswersAfter(n, m)
  <2>1. i \in 1..Len(m)
    BY <1>1, <1>4 DEF LastOpening
  <2>2. \A j : j \in (i+1)..Len(n)
                 <=> j \in (i+1)..Len(m) \/ j \in (Len(m)+1)..Len(n)
    BY <1>1, <2>1
  <2>3. \A j \in (i+1)..Len(m) : n[j] = m[j]
    BY <1>1, <2>1
  <2>4. QED
    BY <1>2, <2>2, <2>3 DEF AnswersAfter
<1>5. \A i : LastOpening(m, i) => n[i] = m[i] /\ i \in DOMAIN m /\ i \in DOMAIN n
  BY <1>1 DEF LastOpening
<1>6. ASSUME NEW c PROVE c \in Pending(n) <=> c \in Pending(m) \ AnswersAfter(n, m)
  BY <1>3, <1>4, <1>5 DEF Pending
<1>7. QED
  BY <1>6

LEMMA PendingAppendTool ==
  ASSUME NEW m \in Seq(Row), NEW r \in Row, IsTool(r)
  PROVE  Pending(Append(m, r)) = Pending(m) \ {r.answers}
<1> DEFINE n == Append(m, r)
<1>1. /\ n \in Seq(Row) /\ Len(n) = Len(m) + 1 /\ n[Len(m) + 1] = r
      /\ \A i \in 1..Len(m) : n[i] = m[i]
      /\ Len(m) \in Nat
  OBVIOUS
<1> HIDE DEF n
<1>2. Extends(n, m) /\ AnswersAfter(n, m) = {r.answers}
  BY <1>1 DEF Extends, AnswersAfter
<1>3. \A j \in (Len(m)+1)..Len(n) : IsTool(n[j])
  BY <1>1
<1>4. Pending(n) = Pending(m) \ AnswersAfter(n, m)
  BY <1>1, <1>2, <1>3, PendingExtendTools
<1>5. QED
  BY <1>2, <1>4 DEF n
-----------------------------------------------------------------------------
(* Whether a row stands in place depends only on the rows up to it.        *)
LEMMA RowInPlaceAgrees ==
  ASSUME NEW m, NEW n, NEW j \in Nat \ {0}, \A i \in 1..j : n[i] = m[i],
         RowInPlace(m, j)
  PROVE  RowInPlace(n, j)
<1>1. \A i \in 1..j : n[i] = m[i]
  OBVIOUS
<1>2. \A i \in 1..j : \A k \in i..j : RunOfTools(n, i, k) <=> RunOfTools(m, i, k)
  <2>1. \A i \in 1..j : \A k \in i..j : \A x \in (i+1)..k : x \in 1..j
    OBVIOUS
  <2>2. QED
    BY <1>1, <2>1 DEF RunOfTools
<1>3. CASE IsTool(m[j])
  <2>1. Matched(m, j)
    BY <1>3 DEF RowInPlace
  <2>2. Matched(n, j)
    BY <1>1, <1>2, <2>1 DEF Matched
  <2>3. QED
    BY <1>1, <1>3, <2>2 DEF RowInPlace
<1>4. CASE ~IsTool(m[j])
  <2>1. Settled(m, j)
    BY <1>4 DEF RowInPlace
  <2>2. ASSUME NEW i \in 1..(j-1), Opens(n[i])
        PROVE  Answered(n, i, j - 1)
    <3>1. i \in 1..j /\ Opens(m[i]) /\ Ids(n[i]) = Ids(m[i])
      BY <1>1, <2>2
    <3>2. Answered(m, i, j - 1)
      BY <2>1, <2>2, <3>1 DEF Settled
    <3>3. \A k \in (i+1)..(j-1) : k \in i..j /\ k \in 1..j
      OBVIOUS
    <3>4. QED
      BY <1>1, <1>2, <3>1, <3>2, <3>3 DEF Answered
  <2>3. QED
    BY <1>1, <1>4, <2>2 DEF RowInPlace, Settled
<1>5. QED
  BY <1>3, <1>4

LEMMA RowInPlaceLocal ==
  ASSUME NEW m \in Seq(Row), NEW n \in Seq(Row), Extends(n, m),
         NEW j \in 1..Len(m), RowInPlace(m, j)
  PROVE  RowInPlace(n, j)
<1>1. j \in Nat \ {0} /\ \A i \in 1..j : n[i] = m[i]
  BY DEF Extends
<1>2. QED
  BY <1>1, RowInPlaceAgrees

(* The head of a history, and the shape it keeps.                          *)
Upto(m, k) == [i \in 1..k |-> m[i]]

LEMMA ShapeUpto ==
  ASSUME NEW m \in Seq(Row), Shape(m), NEW k \in 0..Len(m)
  PROVE  Upto(m, k) \in Seq(Row) /\ Len(Upto(m, k)) = k /\ Shape(Upto(m, k))
<1> DEFINE h == Upto(m, k)
<1>1. /\ h \in Seq(Row) /\ Len(h) = k /\ DOMAIN h = 1..k
      /\ \A i \in 1..k : h[i] = m[i] /\ i \in DOMAIN m
  BY DEF Upto
<1> HIDE DEF h
<1>2. ASSUME NEW j \in DOMAIN h PROVE RowInPlace(h, j)
  <2>1. j \in Nat \ {0} /\ j \in DOMAIN m /\ \A i \in 1..j : h[i] = m[i]
    BY <1>1
  <2>2. RowInPlace(m, j)
    BY <2>1 DEF Shape
  <2> QED BY <2>1, <2>2, RowInPlaceAgrees
<1> QED BY <1>1, <1>2 DEF Shape, h

(* In a well-shaped history the rows after the last opening are answers    *)
(* as long as one of its calls is pending.                                 *)
LEMMA PendingRun ==
  ASSUME NEW m \in Seq(Row), Shape(m), NEW i, LastOpening(m, i),
         NEW c \in Ids(m[i]),
         \A j \in (i+1)..Len(m) : IsTool(m[j]) => m[j].answers # c
  PROVE  RunOfTools(m, i, Len(m))
<1>1. i \in 1..Len(m) /\ Opens(m[i]) /\ Len(m) \in Nat
  BY DEF LastOpening
<1>2. SUFFICES ASSUME NEW k \in (i+1)..Len(m), ~IsTool(m[k])
               PROVE  FALSE
  BY DEF RunOfTools
<1>3. k \in DOMAIN m /\ i \in 1..(k-1)
  BY <1>1, <1>2
<1>4. Settled(m, k)
  BY <1>2, <1>3 DEF Shape, RowInPlace
<1>5. Answered(m, i, k - 1)
  BY <1>1, <1>3, <1>4 DEF Settled
<1>6. PICK l \in (i+1)..(k-1) : m[l].answers = c /\ RunOfTools(m, i, l)
  BY <1>5 DEF Answered
<1>7. IsTool(m[l]) /\ l \in (i+1)..Len(m)
  BY <1>1, <1>2, <1>6 DEF RunOfTools
<1>8. QED
  BY <1>6, <1>7

(* append keeps the shape: a row of another role once every call is        *)
(* answered.                                                               *)
LEMMA ShapeAppendPlain ==
  ASSUME NEW m \in Seq(Row), Shape(m), NEW r \in Row, ~IsTool(r),
         Pending(m) = {}
  PROVE  Shape(Append(m, r))
<1> DEFINE n == Append(m, r)
<1>1. /\ n \in Seq(Row) /\ Len(n) = Len(m) + 1 /\ n[Len(m) + 1] = r
      /\ \A i \in 1..Len(m) : n[i] = m[i]
      /\ Len(m) \in Nat /\ DOMAIN m = 1..Len(m) /\ DOMAIN n = 1..(Len(m) + 1)
  OBVIOUS
<1> HIDE DEF n
<1>2. Extends(n, m)
  BY <1>1 DEF Extends
<1>3. ASSUME NEW j \in 1..Len(m)
      PROVE  RowInPlace(n, j)
  BY <1>1, <1>2, RowInPlaceLocal DEF Shape
<1>4. ASSUME NEW i \in 1..Len(m), Opens(m[i]), NEW c \in Ids(m[i])
      PROVE  \E k \in (i+1)..Len(m) : m[k].answers = c /\ RunOfTools(m, i, k)
  <2>1. CASE \E k \in (i+1)..Len(m) : ~IsTool(m[k])
    <3>1. PICK k \in (i+1)..Len(m) : ~IsTool(m[k])
      BY <2>1
    <3>2. k \in DOMAIN m /\ i \in 1..(k-1)
      BY <1>1, <3>1
    <3>3. Answered(m, i, k - 1)
      BY <1>4, <3>1, <3>2 DEF Shape, RowInPlace, Settled
    <3>4. PICK l \in (i+1)..(k-1) : m[l].answers = c /\ RunOfTools(m, i, l)
      BY <1>4, <3>3 DEF Answered
    <3>5. l \in (i+1)..Len(m)
      BY <1>1, <3>1, <3>4
    <3>6. QED
      BY <3>4, <3>5
  <2>2. CASE \A k \in (i+1)..Len(m) : IsTool(m[k])
    <3>1. LastOpening(m, i)
      BY <1>1, <1>4, <2>2 DEF LastOpening, Opens, IsTool
    <3>2. c \in Calls
      <4>1. m[i] \in Row
        BY <1>1
      <4>2. QED
        BY <1>4, <4>1 DEF Ids, Row
    <3>3. PICK k \in (i+1)..Len(m) : IsTool(m[k]) /\ m[k].answers = c
      BY <1>1, <1>4, <3>1, <3>2 DEF Pending
    <3>4. RunOfTools(m, i, k)
      BY <1>1, <2>2, <3>3 DEF RunOfTools
    <3>5. QED
      BY <3>3, <3>4
  <2>3. QED
    BY <2>1, <2>2
<1>5. RowInPlace(n, Len(m) + 1)
  <2>1. ASSUME NEW i \in 1..Len(m), Opens(n[i]), NEW c \in Ids(n[i])
        PROVE  \E k \in (i+1)..Len(m) : n[k].answers = c /\ RunOfTools(n, i, k)
    <3>1. PICK k \in (i+1)..Len(m) : m[k].answers = c /\ RunOfTools(m, i, k)
      BY <1>1, <1>4, <2>1
    <3>2. n[k] = m[k] /\ RunOfTools(n, i, k)
      BY <1>1, <3>1 DEF RunOfTools
    <3>3. QED
      BY <3>1, <3>2
  <2>2. Len(m) + 1 - 1 = Len(m)
    BY <1>1
  <2>3. Settled(n, Len(m) + 1)
    BY <2>1, <2>2 DEF Settled, Answered
  <2>4. QED
    BY <1>1, <2>3 DEF RowInPlace
<1>6. \A j \in DOMAIN n : j \in 1..Len(m) \/ j = Len(m) + 1
  BY <1>1
<1>7. Shape(n)
  BY <1>3, <1>5, <1>6 DEF Shape
<1>8. QED
  BY <1>7 DEF n

(* append and repair keep the shape: answers to distinct pending calls.    *)
LEMMA ShapeExtendTools ==
  ASSUME NEW m \in Seq(Row), Shape(m), NEW n \in Seq(Row), Extends(n, m),
         \A j \in (Len(m)+1)..Len(n) : IsTool(n[j]) /\ n[j].answers \in Pending(m),
         \A j, k \in (Len(m)+1)..Len(n) : k < j => n[k].answers # n[j].answers
  PROVE  Shape(n)
<1>1. /\ DOMAIN n = 1..Len(n) /\ DOMAIN m = 1..Len(m)
      /\ Len(m) \in Nat /\ Len(n) \in Nat /\ Len(n) >= Len(m)
      /\ \A i \in 1..Len(m) : n[i] = m[i]
  BY DEF Extends
<1>2. ASSUME NEW j \in 1..Len(m)
      PROVE  RowInPlace(n, j)
  BY <1>1, <1>2, RowInPlaceLocal DEF Shape
<1>3. ASSUME NEW j \in (Len(m)+1)..Len(n)
      PROVE  RowInPlace(n, j)
  <2> DEFINE c == n[j].answers
  <2>1. c \in Pending(m)
    OBVIOUS
  <2> HIDE DEF c
  <2>2. PICK i \in DOMAIN m :
          /\ LastOpening(m, i)
          /\ c \in Ids(m[i])
          /\ \A k \in (i+1)..Len(m) : IsTool(m[k]) => m[k].answers # c
    BY <2>1 DEF Pending
  <2>3. RunOfTools(m, i, Len(m))
    BY <2>2, PendingRun
  <2>4. i \in 1..(j-1) /\ n[i] = m[i] /\ Opens(m[i])
    BY <1>1, <2>2 DEF LastOpening
  <2>5. \A k \in (i+1)..j : k \in (i+1)..Len(m) \/ k \in (Len(m)+1)..Len(n)
    BY <1>1, <2>4
  <2>6. \A k \in (i+1)..Len(m) : n[k] = m[k] /\ IsTool(m[k])
    BY <1>1, <2>2, <2>3 DEF RunOfTools
  <2>7. RunOfTools(n, i, j)
    BY <2>5, <2>6 DEF RunOfTools
  <2>8. ASSUME NEW k \in (i+1)..(j-1)
        PROVE  n[k].answers # c
    <3>1. CASE k \in (i+1)..Len(m)
      BY <2>2, <2>6, <3>1
    <3>2. CASE k \in (Len(m)+1)..Len(n)
      BY <1>1, <2>4, <3>2 DEF c
    <3>3. k \in (i+1)..j
      BY <1>1, <2>4
    <3>4. QED
      BY <2>5, <3>1, <3>2, <3>3
  <2>9. Matched(n, j)
    BY <2>2, <2>4, <2>7, <2>8 DEF Matched, c
  <2>10. QED
    BY <2>9 DEF RowInPlace
<1>4. \A j \in DOMAIN n : j \in 1..Len(m) \/ j \in (Len(m)+1)..Len(n)
  BY <1>1
<1>5. QED
  BY <1>2, <1>3, <1>4 DEF Shape

LEMMA ShapeAppendTool ==
  ASSUME NEW m \in Seq(Row), Shape(m), NEW r \in Row, IsTool(r),
         r.answers \in Pending(m)
  PROVE  Shape(Append(m, r))
<1> DEFINE n == Append(m, r)
<1>1. /\ n \in Seq(Row) /\ Len(n) = Len(m) + 1 /\ n[Len(m) + 1] = r
      /\ \A i \in 1..Len(m) : n[i] = m[i]
      /\ Len(m) \in Nat
  OBVIOUS
<1> HIDE DEF n
<1>2. Extends(n, m)
  BY <1>1 DEF Extends
<1>3. \A j \in (Len(m)+1)..Len(n) : j = Len(m) + 1
  BY <1>1
<1>4. Shape(n)
  BY <1>1, <1>2, <1>3, ShapeExtendTools
<1>5. QED
  BY <1>4 DEF n
-----------------------------------------------------------------------------
(* repair: the markers answer every pending call exactly once.             *)
LEMMA RepairedRows ==
  ASSUME NEW m \in Seq(Row), NEW n \in Repaired(m)
  PROVE  /\ n \in Seq(Row) /\ Extends(n, m)
         /\ \A j \in (Len(m)+1)..Len(n) :
              IsTool(n[j]) /\ n[j].answers \in Pending(m)
         /\ \A j, k \in (Len(m)+1)..Len(n) : k < j => n[k].answers # n[j].answers
         /\ AnswersAfter(n, m) = Pending(m)
<1> DEFINE P == Pending(m)
           z == Cardinality(P)
<1>1. P \subseteq Calls /\ IsFiniteSet(P)
  BY PendingFinite
<1>2. z \in Nat
  BY <1>1, FS_CardinalityType
<1>3. PICK s \in Closings(m) : n = m \o Markers(s)
  BY DEF Repaired
<1> DEFINE t == Markers(s)
<1> HIDE DEF P, z
<1>4. s \in [1..z -> P] /\ \A c \in P : \E k \in 1..z : s[k] = c
  BY <1>3 DEF Closings, P, z
<1>5. \A k, l \in 1..z : s[k] = s[l] => k = l
  <2>1. IsFiniteSet(1..z) /\ Cardinality(1..z) = z
    BY <1>2, FS_Interval
  <2>2. s \in Surjection(1..z, P)
    BY <1>4 DEF Surjection
  <2>3. Cardinality(1..z) = Cardinality(P)
    BY <2>1 DEF z
  <2>4. s \in Injection(1..z, P)
    BY <1>1, <2>1, <2>2, <2>3, FS_SurjSameCardinalityImpliesInj
  <2>5. QED
    BY <2>4 DEF Injection, IsInjective
<1>6. t \in [1..z -> Row] /\ \A k \in 1..z : t[k] = ToolRow(s[k], "repaired")
  <2>1. DOMAIN s = 1..z
    BY <1>4
  <2>2. \A k \in 1..z : s[k] \in Calls
    BY <1>1, <1>4
  <2>3. "repaired" \in Bodies
    BY DEF Bodies
  <2>4. \A k \in 1..z : ToolRow(s[k], "repaired") \in Row
    BY <2>2, <2>3, RowTypes
  <2>5. QED
    BY <2>1, <2>4 DEF Markers
<1>7. t \in Seq(Row) /\ Len(t) = z
  BY <1>2, <1>6
<1> HIDE DEF t
<1>8. /\ n \in Seq(Row) /\ Len(n) = Len(m) + z /\ Len(m) \in Nat
      /\ \A i \in 1..Len(m) : n[i] = m[i]
      /\ \A k \in 1..z : n[Len(m) + k] = t[k]
  <2>1. n = m \o t
    BY <1>3 DEF t
  <2>2. QED
    BY <1>2, <1>7, <2>1
<1>9. \A j \in (Len(m)+1)..Len(n) :
        j - Len(m) \in 1..z /\ n[j] = ToolRow(s[j - Len(m)], "repaired")
  BY <1>2, <1>6, <1>8
<1>10. \A j \in (Len(m)+1)..Len(n) : IsTool(n[j]) /\ n[j].answers = s[j - Len(m)]
  <2>1. \A call, body : /\ IsTool(ToolRow(call, body))
                         /\ ToolRow(call, body).answers = call
    BY DEF IsTool, ToolRow
  <2>2. QED
    BY <1>9, <2>1
<1>11. \A k \in 1..z : Len(m) + k \in (Len(m)+1)..Len(n) /\ Len(m) + k - Len(m) = k
  BY <1>2, <1>8
<1>12. AnswersAfter(n, m) = P
  <2>1. AnswersAfter(n, m) \subseteq P
    BY <1>4, <1>9, <1>10 DEF AnswersAfter
  <2>2. ASSUME NEW c \in P
        PROVE  c \in AnswersAfter(n, m)
    <3>1. PICK k \in 1..z : s[k] = c
      BY <1>4, <2>2
    <3>2. n[Len(m) + k].answers = c
      BY <1>10, <1>11, <3>1
    <3>3. QED
      BY <1>11, <3>2 DEF AnswersAfter
  <2>3. QED
    BY <2>1, <2>2
<1>13. \A j, k \in (Len(m)+1)..Len(n) : k < j => n[k].answers # n[j].answers
  BY <1>2, <1>5, <1>8, <1>9, <1>10
<1>14. \A j \in (Len(m)+1)..Len(n) : IsTool(n[j]) /\ n[j].answers \in P
  BY <1>4, <1>9, <1>10
<1>15. Extends(n, m)
  BY <1>2, <1>8 DEF Extends
<1>16. QED
  BY <1>8, <1>12, <1>13, <1>14, <1>15 DEF P

(* What repair returns has no pending call, keeps the stored rows and keeps *)
(* the shape.                                                               *)
LEMMA RepairCloses ==
  ASSUME NEW m \in Seq(Row), NEW n \in Repaired(m)
  PROVE  /\ n \in Seq(Row) /\ Extends(n, m)
         /\ Pending(n) = {}
         /\ Shape(m) => Shape(n)
<1>1. Pending(n) = Pending(m) \ AnswersAfter(n, m)
  BY RepairedRows, PendingExtendTools
<1>2. Shape(m) => Shape(n)
  BY RepairedRows, ShapeExtendTools
<1>3. QED
  BY <1>1, <1>2, RepairedRows
-----------------------------------------------------------------------------
(* compact: a cut that find_compaction_boundary allows leaves no answer     *)
(* without its call.                                                        *)
LEMMA CompactedRows ==
  ASSUME NEW m \in Seq(Row), NEW b \in 1..Len(m)
  PROVE  /\ Compact(m, b) \in Seq(Row)
         /\ Len(Compact(m, b)) = Len(m) - b + 1
         /\ Compact(m, b)[1] = UserRow("summary")
         /\ \A j \in 2..(Len(m) - b + 1) : Compact(m, b)[j] = m[j + b - 1]
<1> DEFINE t == SubSeq(m, b + 1, Len(m))
           u == UserRow("summary")
<1>1. u \in Row
  BY RowTypes DEF Bodies
<1> HIDE DEF u
<1>2. /\ t \in Seq(Row) /\ Len(t) = Len(m) - b /\ Len(m) \in Nat
      /\ \A k \in 1..(Len(m) - b) : t[k] = m[k + b]
  OBVIOUS
<1> HIDE DEF t
<1> DEFINE n == << u >> \o t
<1>3. /\ n \in Seq(Row) /\ Len(n) = Len(m) - b + 1
      /\ n[1] = u
      /\ \A j \in 2..(Len(m) - b + 1) : n[j] = t[j - 1]
  BY <1>1, <1>2
<1>4. \A j \in 2..(Len(m) - b + 1) :
        j - 1 \in 1..(Len(m) - b) /\ j - 1 + b = j + b - 1
  BY <1>2
<1>5. Compact(m, b) = n
  BY DEF Compact, t, u
<1> HIDE DEF n
<1>6. QED
  BY <1>2, <1>3, <1>4, <1>5 DEF u

LEMMA CompactCloses ==
  ASSUME NEW m \in Seq(Row), NEW b \in 1..Len(m), Pending(m) = {}
  PROVE  Pending(Compact(m, b)) = {}
<1> DEFINE n == Compact(m, b)
<1>1. /\ n \in Seq(Row) /\ Len(n) = Len(m) - b + 1 /\ n[1] = UserRow("summary")
      /\ \A j \in 2..Len(n) : n[j] = m[j + b - 1]
      /\ Len(m) \in Nat /\ DOMAIN m = 1..Len(m) /\ DOMAIN n = 1..Len(n)
  BY CompactedRows
<1> HIDE DEF n
<1>2. ~Opens(n[1])
  BY <1>1 DEF Opens, UserRow
<1>3. SUFFICES ASSUME NEW c \in Pending(n)
               PROVE  FALSE
  BY DEF n
<1>4. PICK i \in DOMAIN n :
        /\ LastOpening(n, i)
        /\ c \in Ids(n[i])
        /\ \A j \in (i+1)..Len(n) : IsTool(n[j]) => n[j].answers # c
  BY DEF Pending
<1>5. i \in 2..Len(n)
  BY <1>1, <1>2, <1>4 DEF LastOpening
<1> DEFINE I == i + b - 1
<1>6. I \in DOMAIN m /\ n[i] = m[I]
  BY <1>1, <1>5
<1>7. \A J \in (I+1)..Len(m) :
        J - b + 1 \in (i+1)..Len(n) /\ n[J - b + 1] = m[J]
  <2>1. \A J \in (I+1)..Len(m) :
          /\ J - b + 1 \in (i+1)..Len(n) /\ J - b + 1 \in 2..Len(n)
          /\ (J - b + 1) + b - 1 = J
    BY <1>1, <1>5
  <2>2. QED
    BY <1>1, <2>1
<1> HIDE DEF I
<1>8. LastOpening(m, I)
  BY <1>4, <1>6, <1>7 DEF LastOpening
<1>9. c \in Ids(m[I]) /\ \A J \in (I+1)..Len(m) : IsTool(m[J]) => m[J].answers # c
  BY <1>4, <1>6, <1>7
<1>10. c \in Calls
  BY <1>3 DEF Pending
<1>11. c \in Pending(m)
  BY <1>6, <1>8, <1>9, <1>10 DEF Pending
<1>12. QED
  BY <1>11

LEMMA CompactShape ==
  ASSUME NEW m \in Seq(Row), Shape(m), NEW b \in 1..Len(m), SafeCut(m, b)
  PROVE  Shape(Compact(m, b))
<1> DEFINE n == Compact(m, b)
           d == b - 1
<1>1. /\ n \in Seq(Row) /\ Len(n) = Len(m) - d /\ n[1] = UserRow("summary")
      /\ \A j \in 2..Len(n) : n[j] = m[j + d]
      /\ Len(m) \in Nat /\ DOMAIN m = 1..Len(m) /\ DOMAIN n = 1..Len(n)
      /\ d \in Nat
  BY CompactedRows
<1>2. ~IsTool(n[1]) /\ ~Opens(n[1])
  BY <1>1 DEF Opens, IsTool, UserRow
<1>3. b < Len(m) => ~IsTool(m[d + 2])
  <2>1. d + 2 = b + 1
    OBVIOUS
  <2>2. QED
    BY <1>1, <2>1 DEF SafeCut
<1> HIDE DEF n, d
<1>4. ASSUME NEW i \in 2..Len(n), NEW k \in i..Len(n), RunOfTools(m, i + d, k + d)
      PROVE  RunOfTools(n, i, k)
  <2>1. \A x \in (i+1)..k : x + d \in (i + d + 1)..(k + d) /\ n[x] = m[x + d]
    BY <1>1, <1>4
  <2>2. QED
    BY <1>4, <2>1 DEF RunOfTools
<1>5. ASSUME NEW j \in 2..Len(n), IsTool(n[j])
      PROVE  Matched(n, j)
  <2> DEFINE J == j + d
  <2>1. J \in DOMAIN m /\ n[j] = m[J] /\ J = j + d
    BY <1>1, <1>5
  <2> HIDE DEF J
  <2>2. Matched(m, J)
    BY <1>5, <2>1 DEF Shape, RowInPlace
  <2>3. PICK I \in 1..(J - 1) :
          /\ Opens(m[I])
          /\ m[J].answers \in Ids(m[I])
          /\ RunOfTools(m, I, J)
          /\ \A k \in (I+1)..(J - 1) : m[k].answers # m[J].answers
    BY <2>2 DEF Matched
  <2>4. I >= d + 2
    <3>1. SUFFICES ASSUME I <= d + 1 PROVE FALSE
      BY <1>1, <2>3
    <3>2. d + 2 \in (I+1)..J /\ b < Len(m)
      BY <1>1, <2>1, <2>3, <3>1 DEF d
    <3>3. QED
      BY <1>3, <2>3, <3>2 DEF RunOfTools
  <2>5. PICK i \in 2..(j-1) : I = i + d
    <3>1. I - d \in 2..(j-1) /\ I = (I - d) + d
      BY <1>1, <2>1, <2>3, <2>4
    <3>2. QED
      BY <3>1
  <2>6. n[i] = m[i + d] /\ i \in 2..Len(n) /\ j \in i..Len(n) /\ i \in 1..(j-1)
    BY <1>1, <2>5
  <2>7. RunOfTools(n, i, j)
    BY <1>4, <2>1, <2>3, <2>5, <2>6
  <2>8. \A k \in (i+1)..(j-1) : n[k].answers # n[j].answers
    <3>1. \A k \in (i+1)..(j-1) :
            k + d \in (I+1)..(J - 1) /\ n[k] = m[k + d]
      <4>1. i \in Nat /\ j \in Nat /\ d \in Nat /\ I = i + d /\ J = j + d
        BY <1>1, <2>1, <2>5
      <4>2. \A k \in (i+1)..(j-1) : k + d \in (I+1)..(J - 1) /\ k \in 2..Len(n)
        BY <1>1, <2>5, <4>1
      <4>3. QED
        BY <1>1, <4>2
    <3>2. QED
      BY <2>1, <2>3, <2>5, <3>1
  <2>9. QED
    BY <2>1, <2>3, <2>5, <2>6, <2>7, <2>8 DEF Matched
<1>6. ASSUME NEW j \in 2..Len(n), ~IsTool(n[j])
      PROVE  Settled(n, j)
  <2> DEFINE J == j + d
  <2>1. J \in DOMAIN m /\ n[j] = m[J] /\ J = j + d
    BY <1>1, <1>6
  <2> HIDE DEF J
  <2>2. Settled(m, J)
    BY <1>6, <2>1 DEF Shape, RowInPlace
  <2>3. SUFFICES ASSUME NEW i \in 1..(j-1), Opens(n[i]), NEW c \in Ids(n[i])
                 PROVE  \E k \in (i+1)..(j-1) : n[k].answers = c /\ RunOfTools(n, i, k)
    BY DEF Settled, Answered
  <2> DEFINE I == i + d
  <2>4. /\ i \in 2..Len(n) /\ n[i] = m[I] /\ I \in 1..(J - 1) /\ I = i + d
    BY <1>1, <1>2, <2>1, <2>3
  <2> HIDE DEF I
  <2>5. Answered(m, I, J - 1)
    BY <2>2, <2>3, <2>4 DEF Settled
  <2>6. PICK K \in (I+1)..(J - 1) : m[K].answers = c /\ RunOfTools(m, I, K)
    BY <2>3, <2>4, <2>5 DEF Answered
  <2>7. PICK k \in (i+1)..(j-1) : K = k + d
    <3>1. /\ i \in Int /\ j \in Int /\ d \in Int /\ K \in Int
          /\ i + d + 1 <= K /\ K <= j + d - 1
      BY <1>1, <2>1, <2>4, <2>6
    <3>2. K - d \in (i+1)..(j-1) /\ K = (K - d) + d
      BY <3>1
    <3>3. QED
      BY <3>2
  <2>8. k \in 2..Len(n) /\ k \in i..Len(n) /\ n[k] = m[k + d]
    BY <1>1, <2>4, <2>7
  <2>9. RunOfTools(n, i, k)
    BY <1>4, <2>4, <2>6, <2>7, <2>8
  <2>10. QED
    BY <2>6, <2>7, <2>8, <2>9
<1>7. RowInPlace(n, 1)
  BY <1>2 DEF RowInPlace, Settled
<1>8. \A j \in DOMAIN n : j = 1 \/ j \in 2..Len(n)
  BY <1>1
<1>9. \A j \in DOMAIN n : RowInPlace(n, j)
  BY <1>5, <1>6, <1>7, <1>8 DEF RowInPlace
<1>10. QED
  BY <1>9 DEF Shape, n
-----------------------------------------------------------------------------
(* What the turn appends.                                                  *)

LEMMA UserRowPlain ==
  ASSUME NEW body
  PROVE  ~IsTool(UserRow(body)) /\ ~Opens(UserRow(body))
BY DEF IsTool, Opens, UserRow

LEMMA AssistantRowPlain ==
  ASSUME NEW calls
  PROVE  /\ ~IsTool(AssistantRow(calls))
         /\ Opens(AssistantRow(calls)) <=> calls # << >>
BY DEF IsTool, Opens, AssistantRow

LEMMA ToolRowAnswers ==
  ASSUME NEW call, NEW body
  PROVE  IsTool(ToolRow(call, body)) /\ ToolRow(call, body).answers = call
BY DEF IsTool, ToolRow

LEMMA EmptyHistory ==
  << >> \in Seq(Row) /\ Pending(<< >>) = {} /\ Shape(<< >>)
BY DEF Pending, Shape

(* A plain row: append takes it when nothing is pending and keeps the      *)
(* history closed and in shape.                                            *)
LEMMA AppendPlain ==
  ASSUME NEW m \in Seq(Row), NEW r \in Row, ~IsTool(r), ~Opens(r),
         Pending(m) = {}
  PROVE  /\ CanAppend(m, r)
         /\ Append(m, r) \in Seq(Row)
         /\ Pending(Append(m, r)) = {}
         /\ Shape(m) => Shape(Append(m, r))
<1>1. Append(m, r) \in Seq(Row)
  OBVIOUS
<1>2. QED
  BY <1>1, PendingAppendPlain, ShapeAppendPlain DEF CanAppend

(* An answer to a pending call.                                            *)
LEMMA AppendAnswer ==
  ASSUME NEW m \in Seq(Row), NEW c \in Pending(m), NEW body \in Bodies
  PROVE  /\ CanAppend(m, ToolRow(c, body))
         /\ Append(m, ToolRow(c, body)) \in Seq(Row)
         /\ Pending(Append(m, ToolRow(c, body))) = Pending(m) \ {c}
         /\ Shape(m) => Shape(Append(m, ToolRow(c, body)))
<1>1. c \in Calls
  BY PendingFinite
<1>2. ToolRow(c, body) \in Row /\ IsTool(ToolRow(c, body))
      /\ ToolRow(c, body).answers = c
  BY <1>1, RowTypes, ToolRowAnswers
<1> DEFINE r == ToolRow(c, body)
<1> HIDE DEF r
<1>3. r \in Row /\ IsTool(r) /\ r.answers = c
  BY <1>2 DEF r
<1>4. Append(m, r) \in Seq(Row)
  BY <1>3
<1>5. CanAppend(m, r)
  BY <1>3 DEF CanAppend
<1>6. Pending(Append(m, r)) = Pending(m) \ {c}
  BY <1>3, PendingAppendTool
<1>7. Shape(m) => Shape(Append(m, r))
  BY <1>3, ShapeAppendTool
<1>8. QED
  BY <1>4, <1>5, <1>6, <1>7 DEF r

LEMMA ExtendsAppend ==
  ASSUME NEW m \in Seq(Row), NEW n \in Seq(Row), NEW r \in Row, Extends(n, m)
  PROVE  Extends(Append(n, r), m)
BY DEF Extends

LEMMA ExtendsRefl ==
  ASSUME NEW m \in Seq(Row)
  PROVE  Extends(m, m)
BY DEF Extends

(* What a turn starts with.                                                *)
LEMMA Started ==
  ASSUME NEW rows \in Seq(Row), NEW m \in Repaired(rows)
  PROVE  /\ m \in Seq(Row) /\ CanAppend(m, UserRow("input"))
         /\ Append(m, UserRow("input")) \in Seq(Row)
         /\ Len(Append(m, UserRow("input"))) - 1 \in Nat
         /\ Pending(Append(m, UserRow("input"))) = {}
         /\ Extends(Append(m, UserRow("input")), rows)
         /\ Shape(rows) => Shape(Append(m, UserRow("input")))
<1>1. m \in Seq(Row) /\ Extends(m, rows) /\ Pending(m) = {} /\ (Shape(rows) => Shape(m))
  BY RepairCloses
<1> DEFINE u == UserRow("input")
<1>2. u \in Row /\ ~IsTool(u) /\ ~Opens(u)
  BY RowTypes, UserRowPlain DEF Bodies
<1> HIDE DEF u
<1>3. CanAppend(m, u) /\ Append(m, u) \in Seq(Row) /\ Pending(Append(m, u)) = {}
      /\ (Shape(m) => Shape(Append(m, u)))
  BY <1>1, <1>2, AppendPlain
<1>4. Extends(Append(m, u), rows)
  BY <1>1, <1>2, ExtendsAppend
<1>5. Len(Append(m, u)) - 1 \in Nat
  BY <1>1, <1>2
<1>6. QED
  BY <1>1, <1>3, <1>4, <1>5 DEF u

(* Summarise: both rows of the epilogue.                                   *)
LEMMA Summarised ==
  ASSUME NEW m \in Seq(Row), Pending(m) = {}
  PROVE  LET n == m \o << UserRow("summary_request"), AssistantRow(<< >>) >>
         IN  /\ n \in Seq(Row) /\ Pending(n) = {}
             /\ Shape(m) => Shape(n)
             /\ \A rows \in Seq(Row) : Extends(m, rows) => Extends(n, rows)
<1> DEFINE u == UserRow("summary_request")
           a == AssistantRow(<< >>)
<1>1. u \in Row /\ ~IsTool(u) /\ ~Opens(u)
  BY RowTypes, UserRowPlain DEF Bodies
<1>2. a \in Row /\ ~IsTool(a) /\ ~Opens(a)
  <2>1. << >> \in Seq(Calls)
    OBVIOUS
  <2>2. QED
    BY <2>1, RowTypes, AssistantRowPlain
<1> HIDE DEF u, a
<1> DEFINE n1 == Append(m, u)
<1>3. n1 \in Seq(Row) /\ Pending(n1) = {} /\ (Shape(m) => Shape(n1))
  BY <1>1, AppendPlain
<1>4. m \o << u, a >> = Append(n1, a)
  BY <1>1, <1>2
<1>5. \A rows \in Seq(Row) : Extends(m, rows) => Extends(n1, rows)
  BY <1>1, ExtendsAppend
<1> HIDE DEF n1
<1> DEFINE n2 == Append(n1, a)
<1>6. n2 \in Seq(Row) /\ Pending(n2) = {} /\ (Shape(n1) => Shape(n2))
  BY <1>2, <1>3, AppendPlain
<1>7. \A rows \in Seq(Row) : Extends(n1, rows) => Extends(n2, rows)
  BY <1>2, <1>3, ExtendsAppend
<1> HIDE DEF n2
<1>8. m \o << u, a >> = n2
  BY <1>4 DEF n2
<1>9. QED
  BY <1>3, <1>5, <1>6, <1>7, <1>8 DEF u, a

(* The calls a batch asks for.                                             *)
LEMMA CallsRow ==
  ASSUME NEW calls \in Seq(Calls), calls # << >>
  PROVE  /\ AssistantRow(calls) \in Row /\ ~IsTool(AssistantRow(calls))
         /\ Opens(AssistantRow(calls))
         /\ Ids(AssistantRow(calls)) \subseteq Calls
         /\ Ids(AssistantRow(calls)) # {}
<1>1. Ids(AssistantRow(calls)) = {calls[k] : k \in DOMAIN calls}
  BY DEF Ids, AssistantRow
<1>2. 1 \in DOMAIN calls /\ \A k \in DOMAIN calls : calls[k] \in Calls
  OBVIOUS
<1>3. QED
  BY <1>1, <1>2, RowTypes, AssistantRowPlain
=============================================================================
