----------------------------- MODULE EventLists ------------------------------
(***************************************************************************)
(* Facts about the lists the generated code appends to: what an emitter was *)
(* told, and the tasks a deferred scan still has to visit. The proofs about *)
(* flows and parallels rest on them.                                        *)
(***************************************************************************)
EXTENDS Sequences, FiniteSets, FiniteSetTheorems, SequenceTheorems, TLAPS

(* What a list holds; that it holds nothing twice; and that nothing comes   *)
(* after the report that a task is done.                                    *)
Entries(s) == {s[i] : i \in DOMAIN s}
Distinct(s) == \A a, b \in DOMAIN s : s[a] = s[b] => a = b
DoneLast(s) == \A i \in DOMAIN s : s[i] = "TaskDone" => i = Len(s)

(* What appending a new entry, and dropping the first, does to a list.      *)
LEMMA AppendEntry ==
  ASSUME NEW S, NEW s \in Seq(S), NEW e \in S, e \notin Entries(s), Distinct(s)
  PROVE  /\ Entries(Append(s, e)) = Entries(s) \union {e}
         /\ Distinct(Append(s, e))
         /\ "TaskDone" \notin Entries(s) => DoneLast(Append(s, e))
<1>1. /\ Append(s, e) \in Seq(S) /\ Len(Append(s, e)) = Len(s) + 1
      /\ \A i \in 1..Len(s) : Append(s, e)[i] = s[i]
      /\ Append(s, e)[Len(s) + 1] = e
  BY AppendProperties
<1>2. /\ DOMAIN s = 1..Len(s) /\ Len(s) \in Nat
      /\ DOMAIN Append(s, e) = 1..(Len(s) + 1)
  BY <1>1, LenProperties
<1> DEFINE n == Len(s)
           r == Append(s, e)
<1> HIDE DEF n, r
<1>3. /\ n \in Nat /\ DOMAIN s = 1..n /\ DOMAIN r = 1..(n + 1) /\ Len(r) = n + 1
      /\ \A i \in 1..n : r[i] = s[i]
      /\ r[n + 1] = e
  BY <1>1, <1>2 DEF n, r
<1>4. \A i \in 1..(n + 1) : i = n + 1 \/ (i \in 1..n /\ r[i] = s[i] /\ r[i] # e)
  BY <1>3 DEF Entries
<1>5. Entries(r) = Entries(s) \union {e}
  BY <1>3, <1>4 DEF Entries
<1>6. Distinct(r)
  BY <1>3, <1>4 DEF Distinct
<1>7. "TaskDone" \notin Entries(s) => DoneLast(r)
  BY <1>3, <1>4 DEF Entries, DoneLast
<1> QED
  BY <1>5, <1>6, <1>7 DEF r

LEMMA ConcatEntry ==
  ASSUME NEW S, NEW s \in Seq(S), NEW e \in S, e \notin Entries(s), Distinct(s)
  PROVE  /\ s \o <<e>> \in Seq(S)
         /\ Entries(s \o <<e>>) = Entries(s) \union {e}
         /\ Distinct(s \o <<e>>)
         /\ "TaskDone" \notin Entries(s) => DoneLast(s \o <<e>>)
<1>1. PICK r : r = Append(s, e)
  OBVIOUS
<1>2. s \o <<e>> = r /\ r \in Seq(S)
  BY <1>1, AppendIsConcat, AppendProperties
<1>3. /\ Entries(r) = Entries(s) \union {e} /\ Distinct(r)
      /\ "TaskDone" \notin Entries(s) => DoneLast(r)
  BY <1>1, AppendEntry
<1> QED
  BY <1>2, <1>3

LEMMA DropEntry ==
  ASSUME NEW S, NEW s \in Seq(S), s # <<>>, Distinct(s)
  PROVE  /\ Head(s) \in S /\ Tail(s) \in Seq(S)
         /\ Head(s) \in Entries(s)
         /\ Entries(Tail(s)) = Entries(s) \ {Head(s)}
         /\ Distinct(Tail(s))
<1>1. /\ Head(s) \in S /\ Tail(s) \in Seq(S) /\ Len(Tail(s)) = Len(s) - 1
      /\ \A i \in 1..Len(Tail(s)) : Tail(s)[i] = s[i + 1]
  BY HeadTailProperties
<1>2. /\ DOMAIN s = 1..Len(s) /\ Len(s) \in Nat /\ Len(s) # 0
      /\ DOMAIN Tail(s) = 1..(Len(s) - 1) /\ Head(s) = s[1]
  BY <1>1, LenProperties
<1> DEFINE n == Len(s)
           r == Tail(s)
           h == Head(s)
<1> HIDE DEF n, r, h
<1>3. /\ n \in Nat /\ n # 0 /\ DOMAIN s = 1..n /\ DOMAIN r = 1..(n - 1)
      /\ \A i \in 1..(n - 1) : r[i] = s[i + 1]
      /\ h = s[1]
  BY <1>1, <1>2 DEF n, r, h
<1>4. h \in Entries(s)
  BY <1>3 DEF Entries
<1>7. Distinct(r)
  <2> SUFFICES ASSUME NEW a \in 1..(n - 1), NEW b \in 1..(n - 1), r[a] = r[b]
               PROVE  a = b
    BY <1>3 DEF Distinct
  <2>1. a + 1 \in 1..n /\ b + 1 \in 1..n /\ s[a + 1] = s[b + 1]
    BY <1>3
  <2>2. a + 1 = b + 1
    BY <1>3, <2>1 DEF Distinct
  <2> QED
    BY <2>2
<1>5. ASSUME NEW x \in Entries(r)
      PROVE  x \in Entries(s) /\ x # h
  BY <1>3 DEF Entries, Distinct
<1>6. ASSUME NEW x \in Entries(s), x # h
      PROVE  x \in Entries(r)
  <2>1. PICK i \in 1..n : x = s[i]
    BY <1>3 DEF Entries
  <2>2. i - 1 \in 1..(n - 1) /\ r[i - 1] = s[i]
    <3>1. i # 1
      BY <1>3, <1>6, <2>1
    <3>2. i - 1 \in 1..(n - 1) /\ (i - 1) + 1 = i
      BY <1>3, <3>1
    <3> QED
      BY <1>3, <3>2
  <2> QED
    BY <1>3, <2>1, <2>2 DEF Entries
<1> QED
  BY <1>1, <1>4, <1>5, <1>6, <1>7 DEF r, h

(* A list of distinct entries is no longer than what they come from.        *)
LEMMA DistinctLength ==
  ASSUME NEW S, NEW s \in Seq(S), Distinct(s),
         NEW T, IsFiniteSet(T), Entries(s) \subseteq T
  PROVE  Len(s) <= Cardinality(T)
<1>1. DOMAIN s = 1..Len(s) /\ Len(s) \in Nat /\ s \in [1..Len(s) -> S]
  BY LenProperties
<1>2. s \in [1..Len(s) -> T]
  BY <1>1 DEF Entries
<1>3. s \in Injection(1..Len(s), T)
  BY <1>1, <1>2 DEF Distinct, Injection, IsInjective
<1>4. Cardinality(1..Len(s)) <= Cardinality(T)
  BY <1>3, FS_Injection
<1>5. ASSUME NEW n \in Nat
      PROVE  Cardinality(1..n) = n
  <2>1. Cardinality(1..n) = IF 1 > n THEN 0 ELSE n - 1 + 1
    BY FS_Interval
  <2> QED
    BY <2>1
<1> QED
  BY <1>1, <1>4, <1>5

(* Three reports are at most three.                                         *)
LEMMA AtMostThree ==
  ASSUME NEW a, NEW b, NEW c
  PROVE  IsFiniteSet({a, b, c}) /\ Cardinality({a, b, c}) <= 3
<1>1. {a, b, c} = ({a} \union {b}) \union {c}
  OBVIOUS
<1>2. IsFiniteSet({a}) /\ Cardinality({a}) = 1
  BY FS_Singleton
<1>3. IsFiniteSet({a} \union {b}) /\ Cardinality({a} \union {b}) \in {1, 2}
  BY <1>2, FS_AddElement
<1>4. /\ IsFiniteSet(({a} \union {b}) \union {c})
      /\ Cardinality(({a} \union {b}) \union {c}) \in {1, 2, 3}
  BY <1>3, FS_AddElement
<1> QED
  BY <1>1, <1>4

=============================================================================
