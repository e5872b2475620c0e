------------------------- MODULE DistinctSequences -------------------------
(***************************************************************************)
(* Sequences without repetition: queues whose entries are told apart.      *)
(***************************************************************************)
EXTENDS Integers, Sequences, TLAPS

Elems(q) == {q[i] : i \in 1..Len(q)}
Distinct(q) == \A i, j \in 1..Len(q) : q[i] = q[j] => i = j

\* A new element at the end.
LEMMA AppendDistinct ==
  ASSUME NEW S, NEW q \in Seq(S), NEW x \in S, Distinct(q), x \notin Elems(q)
  PROVE  /\ Append(q, x) \in Seq(S) /\ Len(Append(q, x)) = Len(q) + 1
         /\ Distinct(Append(q, x)) /\ Elems(Append(q, x)) = Elems(q) \cup {x}
<1>1. Append(q, x) \in Seq(S) /\ Len(Append(q, x)) = Len(q) + 1 /\ Len(q) \in Nat
  OBVIOUS
<1>2. \A i \in 1..Len(q) + 1 : Append(q, x)[i] = IF i = Len(q) + 1 THEN x ELSE q[i]
  OBVIOUS
<1>3. Distinct(Append(q, x))
  BY <1>1, <1>2 DEF Distinct, Elems
<1>4. Elems(Append(q, x)) = Elems(q) \cup {x}
  <2>1. Append(q, x)[Len(q) + 1] = x /\ \A i \in 1..Len(q) : Append(q, x)[i] = q[i]
    BY <1>1, <1>2
  <2>2. \A i \in 1..Len(q) + 1 : i = Len(q) + 1 \/ i \in 1..Len(q)
    BY <1>1
  <2>3. QED
    BY <1>1, <2>1, <2>2 DEF Elems
<1>5. QED
  BY <1>1, <1>3, <1>4

\* The first element is taken out.
LEMMA TailDistinct ==
  ASSUME NEW S, NEW q \in Seq(S), q # <<>>, Distinct(q)
  PROVE  /\ Tail(q) \in Seq(S) /\ Len(Tail(q)) = Len(q) - 1 /\ Head(q) \in Elems(q)
         /\ Distinct(Tail(q)) /\ Elems(Tail(q)) = Elems(q) \ {Head(q)}
<1>1. Tail(q) \in Seq(S) /\ Len(Tail(q)) = Len(q) - 1 /\ Len(q) \in Nat /\ Len(q) > 0 /\ Head(q) = q[1]
  OBVIOUS
<1>2. \A i \in 1..Len(q) - 1 : Tail(q)[i] = q[i + 1]
  OBVIOUS
<1>3. Distinct(Tail(q))
  BY <1>1, <1>2 DEF Distinct
<1>4. ASSUME NEW y \in Elems(Tail(q)) PROVE y \in Elems(q) \ {Head(q)}
  <2>1. PICK i \in 1..Len(q) - 1 : y = q[i + 1]
    BY <1>1, <1>2, <1>4 DEF Elems
  <2>2. i + 1 \in 1..Len(q) /\ i + 1 # 1 /\ 1 \in 1..Len(q)
    BY <1>1, <2>1
  <2>3. QED
    BY <1>1, <2>1, <2>2 DEF Elems, Distinct
<1>5. ASSUME NEW y \in Elems(q), y # Head(q) PROVE y \in Elems(Tail(q))
  <2>1. PICK i \in 1..Len(q) : y = q[i]
    BY <1>5 DEF Elems
  <2>2. i - 1 \in 1..Len(q) - 1 /\ Tail(q)[i - 1] = q[i]
    BY <1>1, <1>2, <1>5, <2>1
  <2>3. QED
    BY <1>1, <2>1, <2>2 DEF Elems
<1>6. Head(q) \in Elems(q)
  BY <1>1 DEF Elems
<1>7. QED
  BY <1>1, <1>3, <1>4, <1>5, <1>6

\* Two such sequences without a common element, one after the other.
LEMMA ConcatDistinct ==
  ASSUME NEW S, NEW q \in Seq(S), NEW r \in Seq(S), Distinct(q), Distinct(r),
         Elems(q) \cap Elems(r) = {}
  PROVE  /\ q \o r \in Seq(S) /\ Len(q \o r) = Len(q) + Len(r)
         /\ Distinct(q \o r) /\ Elems(q \o r) = Elems(q) \cup Elems(r)
<1>1. q \o r \in Seq(S) /\ Len(q \o r) = Len(q) + Len(r) /\ Len(q) \in Nat /\ Len(r) \in Nat
  OBVIOUS
<1>2. \A i \in 1..Len(q) : (q \o r)[i] = q[i]
  OBVIOUS
<1>3. \A i \in 1..Len(r) : (q \o r)[Len(q) + i] = r[i]
  OBVIOUS
<1>4. ASSUME NEW i \in 1..Len(q \o r)
      PROVE  \/ i \in 1..Len(q) /\ (q \o r)[i] = q[i]
             \/ /\ i - Len(q) \in 1..Len(r) /\ Len(q) + (i - Len(q)) = i
                /\ (q \o r)[i] = r[i - Len(q)]
  <2>1. CASE i <= Len(q)
    BY <1>1, <1>2, <2>1
  <2>2. CASE i > Len(q)
    <3>1. i - Len(q) \in 1..Len(r) /\ Len(q) + (i - Len(q)) = i
      BY <1>1, <2>2
    <3>2. QED
      BY <1>3, <3>1
  <2>3. QED
    BY <1>1, <2>1, <2>2
<1>5. Elems(q \o r) \subseteq Elems(q) \cup Elems(r)
  BY <1>4 DEF Elems
<1>6. Elems(q) \subseteq Elems(q \o r)
  <2>1. \A i \in 1..Len(q) : i \in 1..Len(q \o r)
    BY <1>1
  <2>2. QED
    BY <1>2, <2>1 DEF Elems
<1>7. Elems(r) \subseteq Elems(q \o r)
  <2>1. \A i \in 1..Len(r) : Len(q) + i \in 1..Len(q \o r)
    BY <1>1
  <2>2. QED
    BY <1>3, <2>1 DEF Elems
<1>8. ASSUME NEW i \in 1..Len(q \o r), NEW j \in 1..Len(q \o r), (q \o r)[i] = (q \o r)[j]
      PROVE  i = j
  <2>1. CASE i \in 1..Len(q) /\ (q \o r)[i] = q[i] /\ j \in 1..Len(q) /\ (q \o r)[j] = q[j]
    BY <1>8, <2>1 DEF Distinct
  <2>2. CASE /\ i - Len(q) \in 1..Len(r) /\ (q \o r)[i] = r[i - Len(q)]
             /\ j - Len(q) \in 1..Len(r) /\ (q \o r)[j] = r[j - Len(q)]
    <3>1. i - Len(q) = j - Len(q)
      BY <1>8, <2>2 DEF Distinct
    <3>2. QED
      BY <1>1, <3>1
  <2>3. CASE /\ i \in 1..Len(q) /\ (q \o r)[i] = q[i]
             /\ j - Len(q) \in 1..Len(r) /\ (q \o r)[j] = r[j - Len(q)]
    BY <1>8, <2>3 DEF Elems
  <2>4. CASE /\ i - Len(q) \in 1..Len(r) /\ (q \o r)[i] = r[i - Len(q)]
             /\ j \in 1..Len(q) /\ (q \o r)[j] = q[j]
    BY <1>8, <2>4 DEF Elems
  <2>5. QED
    BY <1>4, <2>1, <2>2, <2>3, <2>4
<1>9. QED
  BY <1>1, <1>5, <1>6, <1>7, <1>8 DEF Distinct
=============================================================================
