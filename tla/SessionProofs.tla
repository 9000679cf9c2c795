---------------------------- MODULE SessionProofs ----------------------------
(***************************************************************************)
(* Proofs about a session: PromptRun, its prompts, for any histories, tool *)
(* rounds and retries, and SessionLog, its file, for any records, failed   *)
(* writes, crashes and forks.                                              *)
(***************************************************************************)
EXTENDS PromptRun, SessionLog, FiniteSetTheorems, SequenceTheorems, TLAPS

-----------------------------------------------------------------------------
(* Selecting elements of a sequence *)

LEMMA Least ==
    ASSUME NEW T, T \subseteq Nat, T # {}
    PROVE  \E n \in T : \A m \in T : n <= m
<1>1. PICK x \in T : \A y \in T : ~ (<<y, x>> \in OpToRel(<, Nat))
  BY WFMin, NatLessThanWellFounded
<1>2. \A y \in T : y < x => <<y, x>> \in OpToRel(<, Nat)
  BY DEF OpToRel
<1>3. \A y \in T : ~(y < x)
  BY <1>1, <1>2, Zenon
<1>4. \A y \in T : x <= y
  BY <1>3
<1> QED BY <1>4

LEMMA RankStep ==
    ASSUME NEW S, S \subseteq Nat, IsFiniteSet(S), NEW n \in Nat
    PROVE  /\ Rank(S, n) \in Nat
           /\ Rank(S, 0) = IF 0 \in S THEN 1 ELSE 0
           /\ n > 0 => Rank(S, n) = IF n \in S THEN Rank(S, n - 1) + 1 ELSE Rank(S, n - 1)
           /\ (\A p \in S : p <= n) => Rank(S, n) = Cardinality(S)
<1>1. ASSUME NEW m PROVE IsFiniteSet({q \in S : q <= m})
  BY FS_Subset
<1>2. Rank(S, n) \in Nat
  BY <1>1, FS_CardinalityType DEF Rank
<1>3. Rank(S, 0) = IF 0 \in S THEN 1 ELSE 0
  <2>1. \A q \in S : q <= 0 <=> q = 0
    OBVIOUS
  <2>2. {q \in S : q <= 0} = IF 0 \in S THEN {0} ELSE {}
    BY <2>1, Zenon
  <2> QED BY <2>2, FS_Singleton, FS_EmptySet, Zenon DEF Rank
<1>4. ASSUME n > 0 PROVE Rank(S, n) = IF n \in S THEN Rank(S, n - 1) + 1 ELSE Rank(S, n - 1)
  <2>0. \A q \in S : q <= n <=> q <= n - 1 \/ q = n
    BY <1>4
  <2>1. {q \in S : q <= n} =
          IF n \in S THEN {q \in S : q <= n - 1} \cup {n} ELSE {q \in S : q <= n - 1}
    BY <2>0, Zenon
  <2>2. n \notin {q \in S : q <= n - 1}
    BY <1>4
  <2>3. Cardinality({q \in S : q <= n - 1} \cup {n}) = Cardinality({q \in S : q <= n - 1}) + 1
    BY <1>1, <2>2, FS_AddElement, Zenon
  <2> QED BY <2>1, <2>3, Zenon DEF Rank
<1>5. ASSUME \A p \in S : p <= n PROVE Rank(S, n) = Cardinality(S)
  <2>1. {q \in S : q <= n} = S
    BY <1>5
  <2> QED BY <2>1, Zenon DEF Rank
<1> QED BY <1>2, <1>3, <1>4, <1>5

LEMMA RankExists ==
    ASSUME NEW S, S \subseteq Nat, IsFiniteSet(S), NEW N \in Nat, \A p \in S : p <= N,
           NEW k \in 1..Cardinality(S)
    PROVE  \E p \in S : Rank(S, p) = k
<1> DEFINE G == {n \in Nat : Rank(S, n) >= k}
<1>1. Cardinality(S) \in Nat /\ Rank(S, N) = Cardinality(S)
  BY RankStep, FS_CardinalityType
<1>2. N \in G
  BY <1>1
<1>3. PICK n \in G : \A m \in G : n <= m
  BY <1>2, Least
<1>4. n \in Nat /\ Rank(S, n) \in Nat /\ Rank(S, n) >= k
  BY <1>3, RankStep
<1>5. CASE n = 0
  <2>1. Rank(S, n) = IF n \in S THEN 1 ELSE 0
    BY <1>5, RankStep
  <2> QED BY <1>1, <1>4, <2>1
<1>6. CASE n # 0
  <2>1. n - 1 \in Nat /\ n > 0 /\ ~(n <= n - 1)
    BY <1>4, <1>6
  <2>2. n - 1 \notin G
    BY <1>3, <2>1
  <2>3. Rank(S, n - 1) \in Nat
    BY <2>1, RankStep
  <2>4. Rank(S, n - 1) < k
    BY <2>1, <2>2, <2>3
  <2>5. Rank(S, n) = IF n \in S THEN Rank(S, n - 1) + 1 ELSE Rank(S, n - 1)
    BY <2>1, <1>4, RankStep
  <2> QED BY <1>4, <2>3, <2>4, <2>5
<1> QED BY <1>5, <1>6

LEMMA AscendingIn ==
    ASSUME NEW S, S \subseteq Nat, IsFiniteSet(S), NEW N \in Nat, \A p \in S : p <= N
    PROVE  /\ Ascending(S) \in Seq(S) /\ Len(Ascending(S)) = Cardinality(S)
           /\ \A k \in 1..Cardinality(S) : Ascending(S)[k] \in S /\ Rank(S, Ascending(S)[k]) = k
<1>1. Cardinality(S) \in Nat
  BY FS_CardinalityType
<1>2. ASSUME NEW k \in 1..Cardinality(S)
      PROVE  Ascending(S)[k] \in S /\ Rank(S, Ascending(S)[k]) = k
  <2>1. \E p \in S : Rank(S, p) = k
    BY RankExists
  <2>2. Ascending(S)[k] = CHOOSE p \in S : Rank(S, p) = k
    BY DEF Ascending
  <2> QED BY <2>1, <2>2
<1>3. /\ DOMAIN Ascending(S) = 1..Cardinality(S)
      /\ Ascending(S) = [k \in 1..Cardinality(S) |-> Ascending(S)[k]]
  BY DEF Ascending
<1>4. Ascending(S) \in [1..Cardinality(S) -> S]
  BY <1>2, <1>3
<1> QED BY <1>1, <1>2, <1>4

LEMMA RankUnique ==
    ASSUME NEW S, S \subseteq Nat, IsFiniteSet(S), NEW p \in S, NEW r \in S,
           Rank(S, p) = Rank(S, r)
    PROVE  p = r
<1>1. ASSUME NEW a \in S, NEW b \in S, a < b PROVE Rank(S, a) # Rank(S, b)
  <2>0. \A q \in S : q <= a => q <= b
    BY <1>1
  <2>1. {q \in S : q <= a} \in SUBSET {q \in S : q <= b}
    BY <2>0, Zenon
  <2>2. b \in {q \in S : q <= b} /\ b \notin {q \in S : q <= a}
    BY <1>1
  <2>3. IsFiniteSet({q \in S : q <= b})
    BY FS_Subset
  <2>4. {q \in S : q <= a} # {q \in S : q <= b}
    BY <2>2, Zenon
  <2> QED BY <2>1, <2>3, <2>4, FS_Subset, Zenon DEF Rank
<1>2. p \in Nat /\ r \in Nat
  OBVIOUS
<1> QED BY <1>1, <1>2

\* A larger element comes last.
LEMMA AscendingAppend ==
    ASSUME NEW S, S \subseteq Nat, IsFiniteSet(S), NEW n \in Nat, \A p \in S : p < n
    PROVE  Ascending(S \cup {n}) = Append(Ascending(S), n)
<1>0. PICK c : c = Cardinality(S)
  OBVIOUS
<1>1. PICK U : U = S \cup {n}
  OBVIOUS
<1>2. c \in Nat /\ n \notin S /\ U \subseteq Nat /\ n \in U /\ S \subseteq U /\ \A p \in U : p <= n
  BY <1>0, <1>1, FS_CardinalityType
<1>3. IsFiniteSet(U) /\ Cardinality(U) = c + 1
  BY <1>0, <1>1, <1>2, FS_AddElement
<1>4. /\ Ascending(S) \in Seq(S) /\ Len(Ascending(S)) = c
      /\ \A k \in 1..c : Ascending(S)[k] \in S /\ Rank(S, Ascending(S)[k]) = k
  <2>1. \A p \in S : p <= n
    BY <1>2
  <2> QED BY <1>0, <2>1, AscendingIn
<1>5. /\ Ascending(U) \in Seq(U) /\ Len(Ascending(U)) = c + 1
      /\ \A k \in 1..c + 1 : Ascending(U)[k] \in U /\ Rank(U, Ascending(U)[k]) = k
  BY <1>2, <1>3, AscendingIn
<1>6. ASSUME NEW p \in S PROVE Rank(U, p) = Rank(S, p)
  <2>0. ~(n <= p)
    BY <1>2
  <2>1. {q \in U : q <= p} = {q \in S : q <= p}
    BY <1>1, <2>0, Zenon
  <2> QED BY <2>1, Zenon DEF Rank
<1>7. Rank(U, n) = c + 1
  BY <1>2, <1>3, RankStep
<1>8. ASSUME NEW k \in 1..c PROVE Ascending(U)[k] = Ascending(S)[k]
  <2>1. k \in 1..c + 1
    BY <1>2
  <2>2. Ascending(S)[k] \in U /\ Ascending(U)[k] \in U
    BY <1>2, <1>4, <1>5, <2>1
  <2>3. Rank(U, Ascending(U)[k]) = Rank(U, Ascending(S)[k])
    BY <1>4, <1>5, <1>6, <2>1
  <2> QED BY <1>2, <1>3, <2>2, <2>3, RankUnique
<1>9. Ascending(U)[c + 1] = n
  <2>1. c + 1 \in 1..c + 1
    BY <1>2
  <2> QED BY <1>2, <1>3, <1>5, <1>7, <2>1, RankUnique
<1>10. /\ Append(Ascending(S), n) \in Seq(U) /\ Len(Append(Ascending(S), n)) = c + 1
       /\ \A k \in 1..c : Append(Ascending(S), n)[k] = Ascending(S)[k]
       /\ Append(Ascending(S), n)[c + 1] = n
  <2>1. Ascending(S) \in Seq(U)
    BY <1>2, <1>4, SeqMonotonic
  <2>2. /\ Append(Ascending(S), n) \in Seq(U)
        /\ Len(Append(Ascending(S), n)) = Len(Ascending(S)) + 1
        /\ \A k \in 1..Len(Ascending(S)) : Append(Ascending(S), n)[k] = Ascending(S)[k]
        /\ Append(Ascending(S), n)[Len(Ascending(S)) + 1] = n
    BY <1>2, <2>1, AppendProperties
  <2> QED BY <1>4, <2>2, Zenon
<1>11. \A k \in 1..c + 1 : Ascending(U)[k] = Append(Ascending(S), n)[k]
  <2> TAKE k \in 1..c + 1
  <2>1. CASE k = c + 1
    BY <2>1, <1>9, <1>10
  <2>2. CASE k \in 1..c
    BY <2>2, <1>8, <1>10
  <2>3. c \in Nat
    BY <1>2
  <2>4. k = c + 1 \/ k \in 1..c
    BY <2>3
  <2> QED BY <2>1, <2>2, <2>4
<1>12. Ascending(U) = Append(Ascending(S), n)
  BY <1>5, <1>10, <1>11, SeqEqual
<1> QED BY <1>1, <1>12

LEMMA SelectIn ==
    ASSUME NEW T, NEW s \in Seq(T), NEW S \in SUBSET DOMAIN s
    PROVE  /\ Select(s, S) \in Seq(T)
           /\ \A k \in DOMAIN Select(s, S) : \E i \in S : Select(s, S)[k] = s[i]
<1>1. /\ DOMAIN s = 1..Len(s) /\ Len(s) \in Nat /\ s \in [1..Len(s) -> T]
  BY LenProperties
<1>2. /\ S \subseteq Nat /\ IsFiniteSet(S) /\ \A p \in S : p <= Len(s)
  <2>1. S \in SUBSET 1..Len(s)
    BY <1>1
  <2>2. IsFiniteSet(1..Len(s))
    BY <1>1, FS_Interval
  <2>3. IsFiniteSet(S)
    BY <2>1, <2>2, FS_Subset
  <2> QED BY <1>1, <2>1, <2>3
<1>3. Cardinality(S) \in Nat
  BY <1>2, FS_CardinalityType
<1>4. \A k \in 1..Cardinality(S) : Ascending(S)[k] \in S
  BY <1>1, <1>2, AscendingIn
<1>5. DOMAIN Ascending(S) = 1..Cardinality(S)
  BY DEF Ascending
<1>6. Select(s, S) = [k \in 1..Cardinality(S) |-> s[Ascending(S)[k]]]
  BY <1>5 DEF Select
<1>7. \A k \in 1..Cardinality(S) : s[Ascending(S)[k]] \in T
  BY <1>1, <1>4
<1>8. Select(s, S) \in [1..Cardinality(S) -> T]
  BY <1>6, <1>7
<1>9. Select(s, S) \in Seq(T)
  BY <1>3, <1>8
<1>10. \A k \in DOMAIN Select(s, S) : \E i \in S : Select(s, S)[k] = s[i]
  <2> TAKE k \in DOMAIN Select(s, S)
  <2>1. Ascending(S)[k] \in S /\ Select(s, S)[k] = s[Ascending(S)[k]]
    BY <1>4, <1>6
  <2> QED BY <2>1
<1> QED BY <1>9, <1>10

\* What is appended to a sequence is last in every selection it is part of.
LEMMA SelectAppend ==
    ASSUME NEW T, NEW s \in Seq(T), NEW e \in T, NEW S \in SUBSET DOMAIN s
    PROVE  /\ Select(Append(s, e), S) = Select(s, S)
           /\ Select(Append(s, e), S \cup {Len(s) + 1}) = Append(Select(s, S), e)
<1>1. /\ DOMAIN s = 1..Len(s) /\ Len(s) \in Nat /\ s \in [1..Len(s) -> T]
  BY LenProperties
<1>2. /\ S \subseteq Nat /\ IsFiniteSet(S) /\ \A p \in S : p <= Len(s) /\ p < Len(s) + 1
  <2>1. S \in SUBSET 1..Len(s)
    BY <1>1
  <2>2. IsFiniteSet(1..Len(s))
    BY <1>1, FS_Interval
  <2>3. IsFiniteSet(S)
    BY <2>1, <2>2, FS_Subset
  <2> QED BY <1>1, <2>1, <2>3
<1>3. PICK c : c = Cardinality(S)
  OBVIOUS
<1>4. c \in Nat
  BY <1>2, <1>3, FS_CardinalityType
<1>5. PICK a : a = Ascending(S)
  OBVIOUS
<1>6. a \in Seq(S) /\ Len(a) = c /\ \A k \in 1..c : a[k] \in S
  BY <1>1, <1>2, <1>3, <1>5, AscendingIn
<1>7. PICK t : t = Append(s, e)
  OBVIOUS
<1>8. /\ t \in Seq(T) /\ Len(t) = Len(s) + 1 /\ t[Len(s) + 1] = e
      /\ \A i \in 1..Len(s) : t[i] = s[i]
  BY <1>7, AppendProperties
<1>9. \A k \in 1..c : t[a[k]] = s[a[k]]
  BY <1>1, <1>6, <1>8
<1>10. Select(s, S) = [k \in 1..c |-> s[a[k]]] /\ Select(t, S) = [k \in 1..c |-> t[a[k]]]
  BY <1>4, <1>5, <1>6, LenProperties DEF Select
<1>11. Select(t, S) = Select(s, S)
  BY <1>9, <1>10
<1>12. PICK b : b = Ascending(S \cup {Len(s) + 1})
  OBVIOUS
<1>13. b = Append(a, Len(s) + 1)
  BY <1>1, <1>2, <1>5, <1>12, AscendingAppend
<1>14. /\ b \in Seq(Nat) /\ Len(b) = c + 1 /\ b[c + 1] = Len(s) + 1
       /\ \A k \in 1..c : b[k] = a[k]
  <2>1. a \in Seq(Nat) /\ Len(s) + 1 \in Nat
    BY <1>1, <1>2, <1>6, SeqMonotonic
  <2>2. /\ b \in Seq(Nat) /\ Len(b) = Len(a) + 1 /\ b[Len(a) + 1] = Len(s) + 1
        /\ \A k \in 1..Len(a) : b[k] = a[k]
    BY <1>13, <2>1, AppendProperties
  <2> QED BY <1>6, <2>2, Zenon
<1>15. Select(t, S \cup {Len(s) + 1}) = [k \in 1..c + 1 |-> t[b[k]]]
  <2>1. DOMAIN b = 1..c + 1
    BY <1>14, LenProperties
  <2> QED BY <1>12, <2>1 DEF Select
<1>16. PICK u : u = Select(s, S)
  OBVIOUS
<1>17. u \in Seq(T) /\ Len(u) = c /\ \A k \in 1..c : u[k] = s[a[k]]
  <2>1. u \in Seq(T)
    BY <1>16, SelectIn
  <2>2. DOMAIN u = 1..c
    BY <1>10, <1>16
  <2> QED BY <1>4, <1>10, <1>16, <2>1, <2>2, LenProperties
<1>18. /\ Append(u, e) \in Seq(T) /\ Len(Append(u, e)) = c + 1 /\ Append(u, e)[c + 1] = e
       /\ \A k \in 1..c : Append(u, e)[k] = u[k]
  <2>1. /\ Append(u, e) \in Seq(T) /\ Len(Append(u, e)) = Len(u) + 1
        /\ Append(u, e)[Len(u) + 1] = e
        /\ \A k \in 1..Len(u) : Append(u, e)[k] = u[k]
    BY <1>17, AppendProperties
  <2> QED BY <1>17, <2>1, Zenon
<1>19. \A k \in 1..c + 1 : t[b[k]] = Append(u, e)[k]
  <2> TAKE k \in 1..c + 1
  <2>1. CASE k = c + 1
    BY <2>1, <1>8, <1>14, <1>18
  <2>2. CASE k \in 1..c
    BY <2>2, <1>9, <1>14, <1>17, <1>18
  <2>3. k = c + 1 \/ k \in 1..c
    BY <1>4
  <2> QED BY <2>1, <2>2, <2>3
<1>20. Append(u, e) = [k \in 1..c + 1 |-> Append(u, e)[k]]
  BY <1>18, LenProperties
<1>21. Select(t, S \cup {Len(s) + 1}) = Append(u, e)
  BY <1>15, <1>19, <1>20
<1> QED BY <1>7, <1>11, <1>16, <1>21

\* An error is taken off the end of a context without a trace.
LEMMA WithoutErrorsAppend ==
    ASSUME NEW T, NEW s \in Seq(T), NEW m \in T
    PROVE  WithoutErrors(Append(s, m)) =
             IF m.kind \in StopError THEN WithoutErrors(s) ELSE Append(WithoutErrors(s), m)
<1> DEFINE Good(q) == {i \in DOMAIN q : q[i].kind \notin StopError}
<1>1. /\ DOMAIN s = 1..Len(s) /\ Len(s) \in Nat
      /\ DOMAIN Append(s, m) = 1..Len(s) + 1 /\ Append(s, m)[Len(s) + 1] = m
      /\ \A i \in 1..Len(s) : Append(s, m)[i] = s[i]
  BY LenProperties, AppendProperties
<1>2. DOMAIN Append(s, m) = DOMAIN s \cup {Len(s) + 1}
  BY <1>1
<1>3. Good(Append(s, m)) = IF m.kind \in StopError THEN Good(s) ELSE Good(s) \cup {Len(s) + 1}
  BY <1>1, <1>2, Zenon
<1>4. Good(s) \in SUBSET DOMAIN s
  OBVIOUS
<1>5. PICK G : G = Good(s)
  OBVIOUS
<1>6. Select(Append(s, m), G) = Select(s, G)
      /\ Select(Append(s, m), G \cup {Len(s) + 1}) = Append(Select(s, G), m)
  BY <1>4, <1>5, SelectAppend
<1> QED BY <1>3, <1>5, <1>6, Zenon DEF WithoutErrors

-----------------------------------------------------------------------------
(* The log and the context built from it *)

EntryType == [kind : Message \cup {"compaction"}, kept : Nat]
MessageType == [at : Nat, kind : Message \cup {"summary"}]

LEMMA MaxExists ==
    ASSUME NEW S, S \subseteq Nat, NEW n \in Nat, \A p \in S : p <= n, S # {}
    PROVE  Max(S) \in S /\ \A p \in S : Max(S) >= p
<1> DEFINE B == {b \in Nat : \A p \in S : p <= b}
<1>1. B \subseteq Nat /\ B # {}
  BY Zenon
<1>2. PICK b \in B : \A m \in B : b <= m
  BY <1>1, Least
<1>3. b \in Nat /\ \A p \in S : p <= b
  BY <1>2
<1>4. b \in S
  <2> SUFFICES ASSUME b \notin S PROVE FALSE
    OBVIOUS
  <2>1. \A p \in S : p \in Nat /\ p < b
    BY <1>3
  <2>2. b - 1 \in Nat /\ \A p \in S : p <= b - 1
    <3>1. PICK p \in S : p \in Nat /\ p < b
      BY <2>1
    <3>2. b - 1 \in Nat
      BY <1>3, <3>1
    <3>3. \A x \in S : x <= b - 1
      BY <1>3, <2>1, <3>2
    <3> QED BY <3>2, <3>3
  <2>3. b - 1 \in B
    BY <2>2
  <2>4. b <= b - 1
    BY <1>2, <2>3
  <2> QED BY <1>3, <2>4
<1>5. \A p \in S : b >= p
  BY <1>3
<1>6. \E x \in S : \A y \in S : x >= y
  BY <1>4, <1>5
<1> QED BY <1>6 DEF Max

LEMMA LastOfIn ==
    ASSUME NEW l \in Seq(EntryType), NEW K
    PROVE  /\ LastOf(l, K) \in 0..Len(l)
           /\ LastOf(l, K) # 0 => l[LastOf(l, K)].kind \in K
<1> DEFINE I == {i \in 1..Len(l) : l[i].kind \in K}
<1>1. LastOf(l, K) = IF I # {} THEN Max(I) ELSE 0
  BY DEF LastOf, SelectLastInSubSeq
<1>2. Len(l) \in Nat /\ I \subseteq Nat /\ \A p \in I : p <= Len(l)
  BY LenProperties
<1>3. CASE I = {}
  BY <1>1, <1>2, <1>3
<1>4. CASE I # {}
  <2>1. Max(I) \in I
    BY <1>2, <1>4, MaxExists
  <2> QED BY <1>1, <1>2, <1>4, <2>1
<1> QED BY <1>3, <1>4

LEMMA LastOfAppend ==
    ASSUME NEW l \in Seq(EntryType), NEW e \in EntryType, NEW K
    PROVE  LastOf(Append(l, e), K) = IF e.kind \in K THEN Len(l) + 1 ELSE LastOf(l, K)
<1> DEFINE I(q) == {i \in 1..Len(q) : q[i].kind \in K}
<1>1. /\ Len(l) \in Nat /\ Len(Append(l, e)) = Len(l) + 1 /\ Append(l, e)[Len(l) + 1] = e
      /\ \A i \in 1..Len(l) : Append(l, e)[i] = l[i]
  BY LenProperties, AppendProperties
<1>2. \A q : LastOf(q, K) = IF I(q) # {} THEN Max(I(q)) ELSE 0
  BY DEF LastOf, SelectLastInSubSeq
<1>3. 1..Len(Append(l, e)) = 1..Len(l) \cup {Len(l) + 1}
  BY <1>1
<1>4. I(Append(l, e)) = IF e.kind \in K THEN I(l) \cup {Len(l) + 1} ELSE I(l)
  BY <1>1, <1>3, Zenon
<1>5. CASE e.kind \notin K
  BY <1>2, <1>4, <1>5, Zenon
<1>6. CASE e.kind \in K
  <2>1. PICK J : J = I(l) \cup {Len(l) + 1}
    OBVIOUS
  <2>2. J \subseteq Nat /\ Len(l) + 1 \in J /\ \A p \in J : p <= Len(l) + 1
    BY <1>1, <2>1
  <2>3. Max(J) \in J /\ Max(J) >= Len(l) + 1
    <3>1. Len(l) + 1 \in Nat /\ J # {}
      BY <1>1, <2>2
    <3> QED BY <2>2, <3>1, MaxExists
  <2>4. Max(J) = Len(l) + 1
    <3>1. Max(J) \in Nat /\ Max(J) <= Len(l) + 1
      BY <2>2, <2>3
    <3> QED BY <1>1, <2>3, <3>1
  <2>5. LastOf(Append(l, e), K) = IF J # {} THEN Max(J) ELSE 0
    BY <1>2, <1>4, <1>6, <2>1, Zenon
  <2> QED BY <1>6, <2>2, <2>4, <2>5, Zenon
<1> QED BY <1>5, <1>6

LEMMA AsMessagesAppend ==
    ASSUME NEW l \in Seq(EntryType), NEW e \in EntryType
    PROVE  /\ AsMessages(l) \in Seq([at : Nat, kind : Message \cup {"compaction"}])
           /\ Len(AsMessages(l)) = Len(l) /\ DOMAIN AsMessages(l) = DOMAIN l
           /\ \A i \in DOMAIN l : AsMessages(l)[i] = [at |-> i, kind |-> l[i].kind]
           /\ AsMessages(Append(l, e)) =
                Append(AsMessages(l), [at |-> Len(l) + 1, kind |-> e.kind])
<1> DEFINE T == [at : Nat, kind : Message \cup {"compaction"}]
           m == [at |-> Len(l) + 1, kind |-> e.kind]
<1>1. ASSUME NEW q \in Seq(EntryType)
      PROVE  /\ AsMessages(q) \in Seq(T) /\ Len(AsMessages(q)) = Len(q)
             /\ DOMAIN AsMessages(q) = DOMAIN q /\ DOMAIN q = 1..Len(q) /\ Len(q) \in Nat
             /\ \A i \in DOMAIN q : AsMessages(q)[i] = [at |-> i, kind |-> q[i].kind]
  <2>1. DOMAIN q = 1..Len(q) /\ Len(q) \in Nat /\ q \in [1..Len(q) -> EntryType]
    BY LenProperties
  <2>2. \A i \in 1..Len(q) : [at |-> i, kind |-> q[i].kind] \in T
    BY <2>1 DEF EntryType
  <2>3. AsMessages(q) = [i \in 1..Len(q) |-> [at |-> i, kind |-> q[i].kind]]
    BY <2>1 DEF AsMessages
  <2>4. AsMessages(q) \in [1..Len(q) -> T]
    BY <2>2, <2>3
  <2>5. AsMessages(q) \in Seq(T) /\ Len(AsMessages(q)) = Len(q)
    <3> HIDE DEF T
    <3> QED BY <2>1, <2>4
  <2> QED BY <2>1, <2>3, <2>5
<1>2. PICK k : k = Append(l, e)
  OBVIOUS
<1>3. /\ k \in Seq(EntryType) /\ Len(k) = Len(l) + 1 /\ k[Len(l) + 1] = e
      /\ \A i \in 1..Len(l) : k[i] = l[i]
  BY <1>2, AppendProperties
<1>4. m \in T
  BY LenProperties DEF EntryType
<1>5. PICK a : a = AsMessages(l)
  OBVIOUS
<1>6. /\ Append(a, m) \in Seq(T) /\ Len(Append(a, m)) = Len(l) + 1
      /\ Append(a, m)[Len(l) + 1] = m /\ \A i \in 1..Len(l) : Append(a, m)[i] = a[i]
  <2>1. a \in Seq(T) /\ Len(a) = Len(l)
    BY <1>1, <1>5
  <2>2. /\ Append(a, m) \in Seq(T) /\ Len(Append(a, m)) = Len(a) + 1
        /\ Append(a, m)[Len(a) + 1] = m /\ \A i \in 1..Len(a) : Append(a, m)[i] = a[i]
    BY <1>4, <2>1, AppendProperties
  <2> QED BY <2>1, <2>2, Zenon
<1>7. AsMessages(k) \in Seq(T) /\ Len(AsMessages(k)) = Len(l) + 1
  BY <1>1, <1>3
<1>8. \A i \in 1..Len(l) + 1 : AsMessages(k)[i] = Append(a, m)[i]
  <2> TAKE i \in 1..Len(l) + 1
  <2>0. AsMessages(k)[i] = [at |-> i, kind |-> k[i].kind]
    BY <1>1, <1>3
  <2>1. CASE i = Len(l) + 1
    BY <1>3, <1>6, <2>0, <2>1
  <2>2. CASE i \in 1..Len(l)
    BY <1>1, <1>3, <1>5, <1>6, <2>0, <2>2
  <2>3. i = Len(l) + 1 \/ i \in 1..Len(l)
    BY LenProperties
  <2> QED BY <2>1, <2>2, <2>3
<1>9. AsMessages(k) = Append(a, m)
  <2> HIDE DEF T, m
  <2> QED BY <1>6, <1>7, <1>8, SeqEqual
<1> QED BY <1>1, <1>2, <1>5, <1>9

LEMMA MessagesIn ==
    ASSUME NEW l \in Seq(EntryType), NEW from, NEW to
    PROVE  Messages(l, from, to) \in Seq([at : 0..Len(l), kind : Message])
<1> DEFINE S == {p \in DOMAIN l : p \in from .. to /\ l[p].kind \in Message}
           U == [at : 0..Len(l), kind : Message]
<1>1. PICK a : a = AsMessages(l)
  OBVIOUS
<1>2. PICK e : e \in EntryType
  <2>1. [kind |-> "compaction", kept |-> 0] \in EntryType
    BY DEF EntryType
  <2> QED BY <2>1
<1>3. /\ a \in Seq([at : Nat, kind : Message \cup {"compaction"}]) /\ DOMAIN a = DOMAIN l
      /\ \A i \in DOMAIN l : a[i] = [at |-> i, kind |-> l[i].kind]
  BY <1>1, <1>2, AsMessagesAppend
<1>4. S \in SUBSET DOMAIN a
  BY <1>3
<1>5. PICK s : s = Select(a, S)
  OBVIOUS
<1>6. /\ s \in Seq([at : Nat, kind : Message \cup {"compaction"}])
      /\ \A k \in DOMAIN s : \E i \in S : s[k] = a[i]
  <2> HIDE DEF S
  <2> QED BY <1>3, <1>4, <1>5, SelectIn
<1>7. DOMAIN l = 1..Len(l) /\ Len(l) \in Nat /\ DOMAIN s = 1..Len(s) /\ Len(s) \in Nat
  BY <1>6, LenProperties
<1>8. \A i \in S : a[i] \in U
  BY <1>3, <1>7
<1>9. \A k \in 1..Len(s) : s[k] \in U
  BY <1>6, <1>7, <1>8, Zenon
<1>10. s = [k \in 1..Len(s) |-> s[k]]
  BY <1>6, LenProperties
<1>11. s \in [1..Len(s) -> U]
  BY <1>9, <1>10, Zenon
<1>12. s \in Seq(U)
  <2> HIDE DEF U
  <2> QED BY <1>7, <1>11
<1> QED BY <1>1, <1>5, <1>12 DEF Messages

LEMMA MessagesAppend ==
    ASSUME NEW l \in Seq(EntryType), NEW e \in EntryType, NEW from \in Nat, NEW to \in Int
    PROVE  /\ to <= Len(l) => Messages(Append(l, e), from, to) = Messages(l, from, to)
           /\ from <= Len(l) + 1 /\ e.kind \in Message =>
                Messages(Append(l, e), from, Len(l) + 1) =
                  Append(Messages(l, from, Len(l)), [at |-> Len(l) + 1, kind |-> e.kind])
           /\ e.kind \notin Message =>
                Messages(Append(l, e), from, Len(l) + 1) = Messages(l, from, Len(l))
<1> DEFINE S(q, t) == {p \in DOMAIN q : p \in from .. t /\ q[p].kind \in Message}
           T == [at : Nat, kind : Message \cup {"compaction"}]
           m == [at |-> Len(l) + 1, kind |-> e.kind]
<1>1. /\ DOMAIN l = 1..Len(l) /\ Len(l) \in Nat
      /\ DOMAIN Append(l, e) = DOMAIN l \cup {Len(l) + 1} /\ Append(l, e)[Len(l) + 1] = e
      /\ \A i \in DOMAIN l : Append(l, e)[i] = l[i]
  <2>1. DOMAIN Append(l, e) = 1..Len(l) + 1 /\ DOMAIN l = 1..Len(l) /\ Len(l) \in Nat
    BY AppendProperties, LenProperties
  <2>2. DOMAIN Append(l, e) = DOMAIN l \cup {Len(l) + 1}
    BY <2>1
  <2> QED BY <2>1, <2>2, AppendProperties
<1>2. PICK a : a = AsMessages(l)
  OBVIOUS
<1>3. /\ a \in Seq(T) /\ DOMAIN a = DOMAIN l /\ Len(a) = Len(l) /\ m \in T
      /\ AsMessages(Append(l, e)) = Append(a, m)
  <2>1. m \in T
    BY <1>1 DEF EntryType
  <2> QED BY <1>2, <2>1, AsMessagesAppend
<1>4. ASSUME to <= Len(l)
      PROVE  Messages(Append(l, e), from, to) = Messages(l, from, to)
  <2>1. Len(l) + 1 \notin from .. to
    BY <1>1, <1>4
  <2>2. S(Append(l, e), to) = S(l, to)
    BY <1>1, <2>1, Zenon
  <2>3. PICK I : I = S(l, to)
    OBVIOUS
  <2>4. I \in SUBSET DOMAIN a
    BY <1>3, <2>3
  <2>5. Select(Append(a, m), I) = Select(a, I)
    <3> HIDE DEF T, m
    <3> QED BY <1>3, <2>4, SelectAppend
  <2> QED BY <1>2, <1>3, <2>2, <2>3, <2>5, Zenon DEF Messages
<1>5. ASSUME from <= Len(l) + 1, e.kind \in Message
      PROVE  Messages(Append(l, e), from, Len(l) + 1) = Append(Messages(l, from, Len(l)), m)
  <2>1. \A p \in DOMAIN l : p \in from .. Len(l) + 1 <=> p \in from .. Len(l)
    BY <1>1
  <2>2. Len(l) + 1 \in from .. Len(l) + 1
    BY <1>1, <1>5
  <2>3. S(Append(l, e), Len(l) + 1) = S(l, Len(l)) \cup {Len(l) + 1}
    BY <1>1, <1>5, <2>1, <2>2, Zenon
  <2>4. PICK I : I = S(l, Len(l))
    OBVIOUS
  <2>5. I \in SUBSET DOMAIN a
    BY <1>3, <2>4
  <2>6. Select(Append(a, m), I \cup {Len(l) + 1}) = Append(Select(a, I), m)
    <3> HIDE DEF T, m
    <3>1. Select(Append(a, m), I \cup {Len(a) + 1}) = Append(Select(a, I), m)
      BY <1>3, <2>5, SelectAppend
    <3> QED BY <1>3, <3>1, Zenon
  <2> QED BY <1>2, <1>3, <2>3, <2>4, <2>6, Zenon DEF Messages
<1>6. ASSUME e.kind \notin Message
      PROVE  Messages(Append(l, e), from, Len(l) + 1) = Messages(l, from, Len(l))
  <2>1. \A p \in DOMAIN l : p \in from .. Len(l) + 1 <=> p \in from .. Len(l)
    BY <1>1
  <2>2. S(Append(l, e), Len(l) + 1) = S(l, Len(l))
    BY <1>1, <1>6, <2>1, Zenon
  <2>3. PICK I : I = S(l, Len(l))
    OBVIOUS
  <2>4. I \in SUBSET DOMAIN a
    BY <1>3, <2>3
  <2>5. Select(Append(a, m), I) = Select(a, I)
    <3> HIDE DEF T, m
    <3> QED BY <1>3, <2>4, SelectAppend
  <2> QED BY <1>2, <1>3, <2>2, <2>3, <2>5, Zenon DEF Messages
<1> QED BY <1>4, <1>5, <1>6, Zenon

LEMMA ConcatAppend ==
    ASSUME NEW T, NEW s \in Seq(T), NEW t \in Seq(T), NEW e \in T
    PROVE  s \o Append(t, e) = Append(s \o t, e)
<1>1. Append(t, e) = t \o <<e>> /\ <<e>> \in Seq(T)
  BY AppendIsConcat
<1>2. s \o t \in Seq(T)
  BY ConcatProperties
<1>3. Append(s \o t, e) = (s \o t) \o <<e>>
  BY <1>2, AppendIsConcat
<1> QED BY <1>1, <1>3, ConcatAssociative

LEMMA ContextIn ==
    ASSUME NEW l \in Seq(EntryType), NEW c
    PROVE  ContextFrom(l, c) \in Seq([at : 0..Len(l), kind : Message \cup {"summary"}])
<1> DEFINE U == [at : 0..Len(l), kind : Message \cup {"summary"}]
<1>1. \A from, to : Messages(l, from, to) \in Seq(U)
  <2> TAKE from, to
  <2>1. Messages(l, from, to) \in Seq([at : 0..Len(l), kind : Message])
    BY MessagesIn
  <2>2. [at : 0..Len(l), kind : Message] \subseteq U
    OBVIOUS
  <2> HIDE DEF U
  <2> QED BY <2>1, <2>2, SeqMonotonic
<1>2. Summary \in U
  BY LenProperties DEF Summary
<1>3. <<Summary>> \in Seq(U)
  <2> HIDE DEF U
  <2> QED BY <1>2
<1>4. \A s, t \in Seq(U) : s \o t \in Seq(U)
  <2> HIDE DEF U
  <2> QED BY ConcatProperties
<1> HIDE DEF U
<1>5. ContextFrom(l, c) \in Seq(U)
  BY <1>1, <1>3, <1>4, Zenon DEF ContextFrom
<1> QED BY <1>5 DEF U

\* A message appended to the log is appended to the context built from it.
LEMMA ContextAppend ==
    ASSUME NEW l \in Seq(EntryType), NEW k \in Message, NEW c \in 0..Len(l)
    PROVE  ContextFrom(Append(l, Entry(k)), c) =
             Append(ContextFrom(l, c), [at |-> Len(l) + 1, kind |-> k])
<1> DEFINE e == Entry(k)
           m == [at |-> Len(l) + 1, kind |-> k]
           U == [at : Nat, kind : Message \cup {"summary"}]
<1>1. e \in EntryType /\ e.kind = k /\ k # "compaction"
  BY DEF Entry, EntryType, Message, Assistant, Final, StopError, Overflow
<1>2. /\ Len(l) \in Nat /\ DOMAIN l = 1..Len(l) /\ l \in [1..Len(l) -> EntryType]
      /\ Len(Append(l, e)) = Len(l) + 1
      /\ \A i \in 1..Len(l) : Append(l, e)[i] = l[i]
  BY <1>1, LenProperties, AppendProperties
<1>6. \A from \in Nat, to \in Int :
        /\ to <= Len(l) => Messages(Append(l, e), from, to) = Messages(l, from, to)
        /\ from <= Len(l) + 1 =>
             Messages(Append(l, e), from, Len(l) + 1) = Append(Messages(l, from, Len(l)), m)
  BY <1>1, MessagesAppend
<1>7. \A from, to : Messages(l, from, to) \in Seq(U)
  <2> TAKE from, to
  <2>1. Messages(l, from, to) \in Seq([at : 0..Len(l), kind : Message])
    BY MessagesIn
  <2>2. [at : 0..Len(l), kind : Message] \subseteq U
    BY <1>2
  <2> HIDE DEF U
  <2> QED BY <2>1, <2>2, SeqMonotonic
<1>8. m \in U /\ Summary \in U
  BY <1>2 DEF Summary
<1>9. CASE c = 0
  <2>1. Messages(Append(l, e), 1, Len(l) + 1) = Append(Messages(l, 1, Len(l)), m)
    BY <1>2, <1>6
  <2>2. ContextFrom(l, c) = Messages(l, 1, Len(l))
    BY <1>9, Zenon DEF ContextFrom
  <2>3. ContextFrom(Append(l, e), c) = Messages(Append(l, e), 1, Len(l) + 1)
    BY <1>2, <1>9 DEF ContextFrom
  <2> QED BY <2>1, <2>2, <2>3, Zenon
<1>10. CASE c # 0
  <2>1. /\ c \in 1..Len(l) /\ c + 1 \in Nat /\ c - 1 \in Int /\ c - 1 <= Len(l)
        /\ c + 1 <= Len(l) + 1 /\ Len(l) \in Int
    BY <1>2, <1>10
  <2>2. Append(l, e)[c].kept = l[c].kept /\ l[c].kept \in Nat
    BY <1>2, <2>1 DEF EntryType
  <2>3. PICK kept : kept = Messages(l, l[c].kept, c - 1)
    OBVIOUS
  <2>4. Messages(Append(l, e), Append(l, e)[c].kept, c - 1) = kept
    BY <1>6, <2>1, <2>2, <2>3
  <2>5. PICK rest : rest = Messages(l, c + 1, Len(l))
    OBVIOUS
  <2>6. Messages(Append(l, e), c + 1, Len(l) + 1) = Append(rest, m)
    BY <1>6, <2>1, <2>5
  <2>7. PICK s : s = <<Summary>> \o kept \o kept
    OBVIOUS
  <2>8. s \in Seq(U) /\ rest \in Seq(U)
    <3>1. kept \in Seq(U) /\ rest \in Seq(U)
      BY <1>7, <2>3, <2>5, Zenon
    <3> HIDE DEF U
    <3>2. <<Summary>> \in Seq(U)
      BY <1>8
    <3>3. <<Summary>> \o kept \in Seq(U)
      BY <3>1, <3>2, ConcatProperties
    <3>4. s \in Seq(U)
      BY <2>7, <3>1, <3>3, ConcatProperties
    <3> QED BY <3>1, <3>4
  <2>9. s \o Append(rest, m) = Append(s \o rest, m)
    <3> HIDE DEF U, m
    <3> QED BY <1>8, <2>8, ConcatAppend
  <2>10. ContextFrom(Append(l, e), c) = s \o Append(rest, m)
    <3> HIDE DEF m, e
    <3>1. PICK q : q = Append(l, e)
      OBVIOUS
    <3>2. ContextFrom(q, c) = <<Summary>> \o Messages(q, q[c].kept, c - 1)
             \o Messages(q, q[c].kept, c - 1) \o Messages(q, c + 1, Len(q))
      BY <1>10, <3>1 DEF ContextFrom
    <3>3. Messages(q, q[c].kept, c - 1) = kept /\ Messages(q, c + 1, Len(q)) = Append(rest, m)
      BY <1>2, <2>4, <2>6, <3>1
    <3> QED BY <2>7, <3>1, <3>2, <3>3
  <2>11. ContextFrom(l, c) = s \o rest
    BY <1>10, <2>3, <2>5, <2>7, Zenon DEF ContextFrom
  <2> QED BY <2>9, <2>10, <2>11, Zenon
<1> QED BY <1>9, <1>10

\* A compaction appended to the log leaves the context after an earlier one.
LEMMA ContextCompaction ==
    ASSUME NEW l \in Seq(EntryType), NEW e \in EntryType, e.kind \notin Message,
           NEW c \in 0..Len(l)
    PROVE  ContextFrom(Append(l, e), c) = ContextFrom(l, c)
<1>1. /\ Len(l) \in Nat /\ DOMAIN l = 1..Len(l) /\ l \in [1..Len(l) -> EntryType]
      /\ Len(Append(l, e)) = Len(l) + 1
      /\ \A i \in 1..Len(l) : Append(l, e)[i] = l[i]
  BY LenProperties, AppendProperties
<1>2. \A from \in Nat, to \in Int :
        /\ to <= Len(l) => Messages(Append(l, e), from, to) = Messages(l, from, to)
        /\ Messages(Append(l, e), from, Len(l) + 1) = Messages(l, from, Len(l))
  BY MessagesAppend
<1>3. PICK q : q = Append(l, e)
  OBVIOUS
<1>4. CASE c = 0
  <2>1. Messages(q, 1, Len(q)) = Messages(l, 1, Len(l))
    BY <1>1, <1>2, <1>3
  <2> QED BY <1>3, <1>4, <2>1, Zenon DEF ContextFrom
<1>5. CASE c # 0
  <2>1. c \in 1..Len(l) /\ c + 1 \in Nat /\ c - 1 \in Int /\ c - 1 <= Len(l)
    BY <1>1, <1>5
  <2>2. q[c].kept = l[c].kept /\ l[c].kept \in Nat
    BY <1>1, <1>3, <2>1 DEF EntryType
  <2>3. Messages(q, q[c].kept, c - 1) = Messages(l, l[c].kept, c - 1)
    BY <1>2, <1>3, <2>1, <2>2
  <2>4. Messages(q, c + 1, Len(q)) = Messages(l, c + 1, Len(l))
    BY <1>1, <1>2, <1>3, <2>1
  <2> QED BY <1>3, <1>5, <2>3, <2>4, Zenon DEF ContextFrom
<1> QED BY <1>4, <1>5

-----------------------------------------------------------------------------
(* The invariants *)

InCompaction == pos \in {"compact", "prepare", "summarize", "append"}
NoneIs(e, n) == \A i \in 1..n : events[i] # e
Agent == {"agent_end", "agent_end_will_retry"}

\* A callback is owed, and a token aborted, only after an abort; a manual
\* compaction never runs the agent, and a compaction always has its reason.
JobInv ==
    /\ token = "aborted" \/ callback => cancelled
    /\ job.reason = "manual" =>
         /\ InCompaction \/ pos \in {"finish", "threw", "returned", "failed"}
         /\ ~job.pre /\ ~job.will_retry
    /\ InCompaction => job.reason # "none"
    /\ pos = "pre" \/ (InCompaction /\ job.reason = "threshold") => attempt = 0

\* When agent_settled has been emitted.
SettleInv ==
    LET settledAt(n) == n > 0 /\ events[n] = "agent_settled" /\ NoneIs("agent_settled", n - 1)
    IN  /\ pos \notin {"finish", "returned", "failed"} => NoneIs("agent_settled", Len(events))
        /\ job.reason # "manual" /\ pos \in {"finish", "failed"} => settledAt(Len(events))
        /\ IsPrompt /\ pos = "returned" =>
             settledAt(Len(events) - 1) /\ events[Len(events)] = "session_end"

\* Each further run of the agent is paid for by an attempt or the recovery.
RunInv ==
    LET n == Count(Agent)
        paid == attempt + (IF recovered THEN 1 ELSE 0)
    IN  /\ n <= MaxAttempts + 2
        /\ pos \in {"pre", "start", "prompted"} \/ (InCompaction /\ job.pre) => n = 0
        /\ pos \in {"agent", "begin_retry", "backoff", "continue"}
              \/ (InCompaction /\ ~job.pre /\ job.will_retry) => n <= paid
        /\ pos = "decide" => n <= paid + 1

\* What the decision after a turn finds: an abort, or the turn's answer at the
\* end of the log and of the context, which can do without it.
TurnInv ==
    LET n == Len(active)
    IN  /\ pos \in {"agent", "begin_retry", "backoff"} =>
             n > 0 /\ active[n].kind \notin Assistant
        /\ pos = "decide" /\ ~cancelled =>
             /\ LastOf(log, Assistant) = Len(log) /\ Len(log) > 0 /\ Answer # "aborted"
             /\ n > 1 /\ active[n].kind = Answer /\ active[n - 1].kind \notin Assistant

\* An announced retry is the next thing to happen unless cancelled.
AnnounceInv ==
    /\ AnnouncedRetryHappens
    /\ Len(events) > 0 /\ events[Len(events)] = "agent_end_will_retry" /\ ~cancelled =>
         pos = "decide" /\ Answer = "err" /\ RetryEnabled /\ attempt < MaxAttempts

Reported ==
    \A i \in DOMAIN events : events[i] = "retry_start" =>
        \E j \in DOMAIN events : i < j /\ events[j] = "retry_end"
Outgrown == LastOf(log, Assistant) \in DOMAIN log /\ Answer \in Overflow

\* A retry is open only while attempts are counted.
ReportInv ==
    /\ attempt = 0 => Reported
    /\ pos = "settle" \/ (pos = "finish" /\ job.reason # "manual") =>
         Reported \/ cancelled \/ Outgrown
    /\ InCompaction /\ ~job.pre /\ job.reason = "overflow" => Outgrown

-----------------------------------------------------------------------------
(* The log and the context: their types, and that they match *)

MessageUpTo(n) == [at : 0..n, kind : Message \cup {"summary"}]

\* The context a goes with the log l and its compaction at c.
Matching(l, a, c) ==
    /\ l \in Seq(EntryType) /\ WellFormed(l)
    /\ a \in Seq(MessageUpTo(Len(l)))
    /\ c \in 0..Len(l)
    /\ WithoutErrors(a) = WithoutErrors(ContextFrom(l, c))

ConvoInv == Matching(log, active, applied)

\* The message k is appended to both, and what that changes.
Extended(l, a, k, l2, a2) ==
    /\ l2 = Append(l, Entry(k))
    /\ a2 = Append(a, [at |-> Len(l) + 1, kind |-> k])

Grown(l, a, k, l2, a2) ==
    /\ Len(l2) = Len(l) + 1 /\ Len(l) \in Nat
    /\ l2[Len(l) + 1].kind = k /\ \A i \in 1..Len(l) : l2[i] = l[i]
    /\ Len(a2) = Len(a) + 1 /\ Len(a) \in Nat
    /\ a2[Len(a) + 1].kind = k /\ \A i \in 1..Len(a) : a2[i] = a[i]
    /\ \A K : LastOf(l2, K) = IF k \in K THEN Len(l) + 1 ELSE LastOf(l, K)

LEMMA FrontLast ==
    ASSUME NEW T, NEW s \in Seq(T), s # <<>>
    PROVE  /\ Front(s) \in Seq(T) /\ Last(s) \in T /\ s = Append(Front(s), Last(s))
           /\ Len(Front(s)) = Len(s) - 1 /\ Len(s) \in Nat /\ Len(s) > 0
           /\ \A i \in 1..Len(s) - 1 : Front(s)[i] = s[i]
<1>1. Len(s) \in Nat /\ Len(s) > 0 /\ \A i \in 1..Len(s) : s[i] \in T
  BY EmptySeq, ElementOfSeq
<1>2. /\ Front(s) \in Seq(T) /\ Len(Front(s)) = Len(s) - 1
      /\ \A i \in 1..Len(s) - 1 : Front(s)[i] = s[i]
  <2>1. PICK n \in Nat : n = Len(s) - 1
    BY <1>1
  <2>2. PICK f : f = SubSeq(s, 1, n)
    OBVIOUS
  <2>3. \A i \in 1..n : s[i] \in T
    BY <1>1, <2>1
  <2>4. /\ f \in Seq(T) /\ Len(f) = IF 1 <= n THEN n - 1 + 1 ELSE 0
        /\ \A i \in 1..n - 1 + 1 : f[i] = s[1 + i - 1]
    BY <2>2, <2>3, SubSeqProperties
  <2>5. (IF 1 <= n THEN n - 1 + 1 ELSE 0) = n /\ n - 1 + 1 = n /\ \A i \in 1..n : 1 + i - 1 = i
    OBVIOUS
  <2>6. Len(f) = n /\ \A i \in 1..n : f[i] = s[i]
    BY <2>4, <2>5
  <2>7. f = Front(s)
    BY <2>1, <2>2 DEF Front
  <2> QED BY <2>1, <2>4, <2>6, <2>7
<1>3. Last(s) \in T
  BY <1>1 DEF Last
<1>4. PICK t : t = Append(Front(s), Last(s))
  OBVIOUS
<1>5. /\ t \in Seq(T) /\ Len(t) = Len(Front(s)) + 1
      /\ \A i \in 1..Len(Front(s)) : t[i] = Front(s)[i]
      /\ t[Len(Front(s)) + 1] = Last(s)
  BY <1>2, <1>3, <1>4, AppendProperties
<1>6. Len(t) = Len(s) /\ \A i \in 1..Len(t) : t[i] = s[i]
  <2>1. Len(t) = Len(s) /\ t[Len(s)] = s[Len(s)]
    BY <1>1, <1>2, <1>5 DEF Last
  <2>2. \A i \in 1..Len(s) - 1 : t[i] = s[i]
    BY <1>1, <1>2, <1>5
  <2>3. \A i \in 1..Len(s) : i = Len(s) \/ i \in 1..Len(s) - 1
    BY <1>1
  <2> QED BY <2>1, <2>2, <2>3
<1>7. t = s
  BY <1>5, <1>6, SeqEqual
<1> QED BY <1>1, <1>2, <1>3, <1>4, <1>7

\* What append_message and append_active_message do with one message.
LEMMA OneMessage ==
    ASSUME NEW l, NEW a, NEW c, NEW k \in Message, NEW l2, NEW a2,
           Matching(l, a, c), Extended(l, a, k, l2, a2)
    PROVE  Matching(l2, a2, c) /\ Grown(l, a, k, l2, a2)
<1> USE DEF Matching, Extended
<1> DEFINE e == Entry(k)
           m == [at |-> Len(l) + 1, kind |-> k]
<1>1. e \in EntryType /\ e.kind = k /\ e.kept = 0 /\ Len(l) \in Nat /\ Len(a) \in Nat
  BY LenProperties DEF Entry, EntryType
<1>2. /\ l2 \in Seq(EntryType) /\ Len(l2) = Len(l) + 1 /\ l2[Len(l) + 1] = e
      /\ \A i \in 1..Len(l) : l2[i] = l[i]
  <2> HIDE DEF e
  <2> QED BY <1>1, AppendProperties DEF e
<1>3. WellFormed(l2)
  <2>1. DOMAIN l2 = 1..Len(l) + 1 /\ DOMAIN l = 1..Len(l)
    BY <1>2, LenProperties
  <2>2. l2[Len(l) + 1] \in [kind : Message \cup {"compaction"}, kept : 0 .. Len(l) + 1 - 1]
    BY <1>1, <1>2 DEF Entry
  <2>3. \A i \in 1..Len(l) :
          l2[i] \in [kind : Message \cup {"compaction"}, kept : 0 .. i - 1]
    BY <1>2, <2>1 DEF WellFormed
  <2>4. \A i \in 1..Len(l) + 1 : i = Len(l) + 1 \/ i \in 1..Len(l)
    BY <1>1
  <2> QED BY <2>1, <2>2, <2>3, <2>4 DEF WellFormed
<1>4. a \in Seq(MessageUpTo(Len(l2))) /\ m \in MessageUpTo(Len(l2))
  <2>1. MessageUpTo(Len(l)) \subseteq MessageUpTo(Len(l2)) /\ m \in MessageUpTo(Len(l2))
    BY <1>1, <1>2 DEF MessageUpTo
  <2> QED BY <2>1, SeqMonotonic
<1>5. /\ a2 \in Seq(MessageUpTo(Len(l2)))
      /\ Len(a2) = Len(a) + 1 /\ a2[Len(a) + 1] = m
      /\ \A i \in 1..Len(a) : a2[i] = a[i]
  <2> HIDE DEF m
  <2> QED BY <1>4, AppendProperties DEF m
<1>6. WithoutErrors(a2) = WithoutErrors(ContextFrom(l2, c)) /\ c \in 0..Len(l2)
  <2>0. c \in 0..Len(l2)
    BY <1>1, <1>2
  <2>1. PICK ctx : ctx = ContextFrom(l, c)
    OBVIOUS
  <2>2. ctx \in Seq(MessageUpTo(Len(l2)))
    <3>1. ctx \in Seq(MessageUpTo(Len(l)))
      BY <2>1, ContextIn DEF MessageUpTo
    <3>2. MessageUpTo(Len(l)) \subseteq MessageUpTo(Len(l2))
      BY <1>1, <1>2 DEF MessageUpTo
    <3> QED BY <3>1, <3>2, SeqMonotonic
  <2>3. ContextFrom(l2, c) = Append(ctx, m)
    BY <2>1, ContextAppend
  <2>4. WithoutErrors(Append(ctx, m)) =
          IF m.kind \in StopError THEN WithoutErrors(ctx) ELSE Append(WithoutErrors(ctx), m)
    <3> HIDE DEF m
    <3> QED BY <1>4, <2>2, WithoutErrorsAppend
  <2>5. WithoutErrors(Append(a, m)) =
          IF m.kind \in StopError THEN WithoutErrors(a) ELSE Append(WithoutErrors(a), m)
    <3> HIDE DEF m
    <3> QED BY <1>4, WithoutErrorsAppend
  <2> QED BY <2>0, <2>1, <2>3, <2>4, <2>5, Zenon
<1>7. \A K : LastOf(l2, K) = IF k \in K THEN Len(l) + 1 ELSE LastOf(l, K)
  BY <1>1, LastOfAppend
<1> QED BY <1>1, <1>2, <1>3, <1>5, <1>6, <1>7 DEF Grown

LEMMA AppendOne ==
    ASSUME ConvoInv, NEW k, AppendMessages(<<k>>)
    PROVE  Extended(log, active, k, log', active')
<1>1. [i \in DOMAIN <<k>> |-> Entry(<<k>>[i])] = <<Entry(k)>>
  OBVIOUS
<1>2. [i \in DOMAIN <<k>> |-> [at |-> Len(log) + i, kind |-> <<k>>[i]]]
        = <<[at |-> Len(log) + 1, kind |-> k]>>
  OBVIOUS
<1>3. log' = log \o <<Entry(k)>> /\ active' = active \o <<[at |-> Len(log) + 1, kind |-> k]>>
  BY <1>1, <1>2, Zenon DEF AppendMessages
<1>4. ASSUME NEW T, NEW s \in Seq(T), NEW e PROVE s \o <<e>> = Append(s, e)
  <2>1. s \in Seq(T \cup {e}) /\ e \in T \cup {e}
    BY SeqMonotonic
  <2> QED BY <2>1, AppendIsConcat
<1> QED BY <1>3, <1>4 DEF ConvoInv, Matching, Extended

LEMMA AppendTwo ==
    ASSUME ConvoInv, NEW k \in Message, NEW j \in Message, AppendMessages(<<k, j>>)
    PROVE  \E l, a : Extended(log, active, k, l, a) /\ Extended(l, a, j, log', active')
<1>0. Len(log) \in Nat
  BY LenProperties DEF ConvoInv, Matching
<1>1. [i \in DOMAIN <<k, j>> |-> Entry(<<k, j>>[i])] = <<Entry(k), Entry(j)>>
  OBVIOUS
<1>2. [i \in DOMAIN <<k, j>> |-> [at |-> Len(log) + i, kind |-> <<k, j>>[i]]]
        = <<[at |-> Len(log) + 1, kind |-> k], [at |-> Len(log) + 1 + 1, kind |-> j]>>
  <2>1. Len(log) + 2 = Len(log) + 1 + 1
    BY <1>0
  <2> QED BY <2>1
<1>3. /\ log' = log \o <<Entry(k), Entry(j)>>
      /\ active' = active \o <<[at |-> Len(log) + 1, kind |-> k],
                               [at |-> Len(log) + 1 + 1, kind |-> j]>>
  BY <1>1, <1>2, Zenon DEF AppendMessages
<1>4. ASSUME NEW T, NEW s \in Seq(T), NEW e, NEW f
      PROVE  s \o <<e, f>> = Append(Append(s, e), f)
  <2>0. PICK U : U = T \cup {e, f}
    OBVIOUS
  <2>1. s \in Seq(U) /\ e \in U /\ f \in U
    BY <2>0, SeqMonotonic
  <2>2. <<e>> \in Seq(U) /\ <<e, f>> = Append(<<e>>, f) /\ s \o <<e>> = Append(s, e)
    BY <2>1, AppendIsConcat
  <2> QED BY <2>1, <2>2, ConcatAppend
<1>5. PICK l, a : /\ l = Append(log, Entry(k))
                  /\ a = Append(active, [at |-> Len(log) + 1, kind |-> k])
  OBVIOUS
<1>6. /\ log' = Append(l, Entry(j))
      /\ active' = Append(a, [at |-> Len(log) + 1 + 1, kind |-> j])
  BY <1>3, <1>4, <1>5 DEF ConvoInv, Matching
<1>7. Extended(log, active, k, l, a)
  BY <1>5 DEF Extended
<1>8. Len(l) = Len(log) + 1
  BY <1>7, OneMessage DEF ConvoInv, Grown
<1> QED BY <1>6, <1>7, <1>8 DEF Extended

\* Taking the error off the end of a context.
LEMMA DropError ==
    ASSUME NEW T, NEW s \in Seq(T), s # <<>>, Last(s).kind \in StopError
    PROVE  Front(s) \in Seq(T) /\ WithoutErrors(Front(s)) = WithoutErrors(s)
<1>1. Front(s) \in Seq(T) /\ Last(s) \in T /\ s = Append(Front(s), Last(s))
  BY FrontLast
<1>2. PICK f, m : f = Front(s) /\ m = Last(s)
  OBVIOUS
<1>3. WithoutErrors(Append(f, m)) = WithoutErrors(f)
  BY <1>1, <1>2, WithoutErrorsAppend
<1> QED BY <1>1, <1>2, <1>3

LEMMA CompactedNotEmpty ==
    ASSUME NEW l \in Seq(EntryType), NEW c, c # 0
    PROVE  ContextFrom(l, c) # <<>>
<1>2. PICK kept, rest : kept = Messages(l, l[c].kept, c - 1) /\ rest = Messages(l, c + 1, Len(l))
  OBVIOUS
<1>3. ContextFrom(l, c) = <<Summary>> \o kept \o kept \o rest
  BY <1>2 DEF ContextFrom
<1>4. PICK T : T = MessageUpTo(Len(l))
  OBVIOUS
<1>5. [at : 0..Len(l), kind : Message] \subseteq T /\ Summary \in T
  BY <1>4, LenProperties DEF MessageUpTo, Summary
<1>6. kept \in Seq(T) /\ rest \in Seq(T)
  <2>1. /\ kept \in Seq([at : 0..Len(l), kind : Message])
        /\ rest \in Seq([at : 0..Len(l), kind : Message])
    BY <1>2, MessagesIn
  <2> QED BY <1>5, <2>1, SeqMonotonic
<1>7. <<Summary>> \in Seq(T) /\ <<Summary>> # <<>>
  BY <1>5
<1>8. <<Summary>> \o kept \in Seq(T) /\ <<Summary>> \o kept # <<>>
  BY <1>6, <1>7, ConcatEqualIffEmpty, ConcatProperties
<1>9. <<Summary>> \o kept \o kept \in Seq(T) /\ <<Summary>> \o kept \o kept # <<>>
  BY <1>6, <1>8, ConcatEqualIffEmpty, ConcatProperties
<1> QED BY <1>3, <1>6, <1>9, ConcatEqualIffEmpty

\* The entry a compaction appends, and the context built from it.
LEMMA CompactionEntry ==
    ASSUME ConvoInv, NEW cut \in Cuts,
           NEW l, l = Append(log, [kind |-> "compaction", kept |-> cut])
    PROVE  /\ l \in Seq(EntryType) /\ WellFormed(l)
           /\ Len(l) = Len(log) + 1 /\ Len(log) \in Nat
           /\ BuildContext(l) = ContextFrom(l, Len(l))
           /\ BuildContext(l) \in Seq(MessageUpTo(Len(l))) /\ BuildContext(l) # <<>>
           /\ ContextFrom(l, applied) = ContextFrom(log, applied)
           /\ LastOf(l, Assistant) = LastOf(log, Assistant)
           /\ \A i \in 1..Len(log) : l[i] = log[i]
<1> DEFINE e == [kind |-> "compaction", kept |-> cut]
<1>1. Len(log) \in Nat /\ DOMAIN log = 1..Len(log) /\ log \in [1..Len(log) -> EntryType]
  BY LenProperties DEF ConvoInv, Matching
<1>2. cut \in 1..Len(log)
  <2>1. PICK c : c = LastOf(log, {"compaction"})
    OBVIOUS
  <2>2. c \in 0..Len(log)
    BY <2>1, LastOfIn DEF ConvoInv, Matching
  <2>3. c # 0 => log[c].kept \in Nat
    BY <1>1, <2>2 DEF EntryType
  <2>4. PICK start \in Nat : cut \in start + 1 .. Len(log)
    BY <2>1, <2>3 DEF Cuts
  <2> QED BY <1>1, <2>4
<1>3. e \in EntryType /\ e.kind = "compaction" /\ e.kept = cut
  BY <1>1, <1>2 DEF EntryType
<1>4. /\ l \in Seq(EntryType) /\ Len(l) = Len(log) + 1 /\ l[Len(log) + 1] = e
      /\ \A i \in 1..Len(log) : l[i] = log[i]
  <2> HIDE DEF e
  <2> QED BY <1>3, AppendProperties DEF e, ConvoInv, Matching
<1>5. WellFormed(l)
  <2>1. DOMAIN l = 1..Len(log) + 1
    BY <1>4, LenProperties
  <2>2. l[Len(log) + 1] \in [kind : Message \cup {"compaction"}, kept : 0 .. Len(log) + 1 - 1]
    BY <1>1, <1>2, <1>4
  <2>3. \A i \in 1..Len(log) :
          l[i] \in [kind : Message \cup {"compaction"}, kept : 0 .. i - 1]
    BY <1>1, <1>4 DEF WellFormed, ConvoInv, Matching
  <2>4. \A i \in 1..Len(log) + 1 : i = Len(log) + 1 \/ i \in 1..Len(log)
    BY <1>1
  <2> QED BY <2>1, <2>2, <2>3, <2>4 DEF WellFormed
<1>6. BuildContext(l) \in Seq(MessageUpTo(Len(l)))
  BY <1>4, ContextIn DEF MessageUpTo, BuildContext
<1>7. \A K : LastOf(l, K) = IF "compaction" \in K THEN Len(log) + 1 ELSE LastOf(log, K)
  <2>1. log \in Seq(EntryType)
    BY DEF ConvoInv, Matching
  <2> HIDE DEF e
  <2>2. \A K : LastOf(Append(log, e), K) = IF e.kind \in K THEN Len(log) + 1 ELSE LastOf(log, K)
    BY <1>3, <2>1, LastOfAppend
  <2> QED BY <1>3, <2>2 DEF e
<1>8. LastOf(l, {"compaction"}) = Len(l) /\ Len(l) # 0 /\ LastOf(l, Assistant) = LastOf(log, Assistant)
  BY <1>1, <1>4, <1>7 DEF Assistant, Final, StopError, Overflow
<1>9. BuildContext(l) = ContextFrom(l, Len(l)) /\ BuildContext(l) # <<>>
  BY <1>4, <1>8, CompactedNotEmpty DEF BuildContext
<1>10. ContextFrom(l, applied) = ContextFrom(log, applied)
  <2>1. e.kind \notin Message
    BY DEF Message, Assistant, Final, StopError, Overflow
  <2> HIDE DEF e
  <2> QED BY <1>3, <2>1, ContextCompaction DEF e, ConvoInv, Matching
<1> QED BY <1>1, <1>4, <1>5, <1>6, <1>8, <1>9, <1>10

\* Which steps change the log or the context.
LEMMA ConvoSame ==
    ASSUME [Next]_vars, ~AgentTakesPrompt, ~AgentUsesTools, ~AgentAnswers, ~AppendCompaction,
           ~RebuildThrows, ~DecideRetry
    PROVE  log' = log /\ active' = active /\ applied' = applied
<1>1. CASE UNCHANGED vars
  BY <1>1 DEF vars, convo
<1>2. CASE Runner
  BY <1>2 DEF Runner, CompactionBegins, CompactionThrows, ThrowCompaction, NothingToCompact,
     PrepareFinds,
     PreCompacts, PreThrows, PreSkips, StartAgent, DecideAborted, DecideOverflow, DecideDone,
     BeginRetry, RetryElapses, RetryCancelled, ContinueAgent, Settles, Finishes, Fails, convo
<1>3. CASE Provider
  BY <1>3 DEF Provider, AgentStopsAfterTools, AgentFails, SummaryFails, SummaryArrives, convo
<1>4. CASE User \/ AbortCallback
  BY <1>4 DEF User, StartPrompt, CompactNow, StartOperation, Abort, AbortRetry, AbortCallback,
     convo
<1> QED BY <1>1, <1>2, <1>3, <1>4 DEF Next

LEMMA KindsAreMessages ==
    /\ \A k \in Final \cup Assistant \cup {"user", "call", "tool"} : k \in Message
    /\ "user" \notin Assistant /\ "tool" \notin Assistant /\ "call" \in Assistant
    /\ \A k \in Final : k \in Assistant /\ k # "call"
    /\ "err" \in StopError \cap Final /\ "err" \notin Overflow /\ "aborted" \notin Overflow
    /\ "none" \notin Assistant \cup StopError /\ "summary" \notin Assistant \cup StopError
BY DEF Message, Assistant, Final, StopError, Overflow

LEMMA ConvoStep == ASSUME ConvoInv, [Next]_vars PROVE ConvoInv'
<1> USE KindsAreMessages
<1>0. /\ log \in Seq(EntryType) /\ WellFormed(log) /\ active \in Seq(MessageUpTo(Len(log)))
      /\ applied \in 0..Len(log) /\ Len(log) \in Nat
      /\ WithoutErrors(active) = WithoutErrors(ContextFrom(log, applied))
  BY LenProperties DEF ConvoInv, Matching
<1>1. ASSUME NEW k \in Message, AppendMessages(<<k>>) PROVE ConvoInv'
  <2>1. Extended(log, active, k, log', active') /\ applied' = applied
    BY <1>1, AppendOne DEF AppendMessages
  <2> QED BY <2>1, OneMessage DEF ConvoInv
<1>2. CASE AgentTakesPrompt
  BY <1>1, <1>2 DEF AgentTakesPrompt
<1>3. CASE AgentAnswers
  BY <1>1, <1>3 DEF AgentAnswers
<1>4. CASE AgentUsesTools
  <2>1. PICK l, a : Extended(log, active, "call", l, a) /\ Extended(l, a, "tool", log', active')
    BY <1>4, AppendTwo DEF AgentUsesTools
  <2>2. Matching(l, a, applied)
    BY <2>1, OneMessage DEF ConvoInv
  <2>3. applied' = applied
    BY <1>4 DEF AgentUsesTools, AppendMessages
  <2> QED BY <2>1, <2>2, <2>3, OneMessage DEF ConvoInv
<1>5. CASE AppendCompaction
  <2>1. PICK cut \in Cuts : log' = Append(log, [kind |-> "compaction", kept |-> cut])
    BY <1>5 DEF AppendCompaction, StoreCompaction
  <2>2. PICK ctx : ctx = BuildContext(log')
    OBVIOUS
  <2>3. /\ active' = IF job.will_retry /\ Last(ctx).kind \in StopError THEN Front(ctx) ELSE ctx
        /\ applied' = Len(log')
    BY <1>5, <2>2 DEF AppendCompaction
  <2>4. /\ log' \in Seq(EntryType) /\ WellFormed(log') /\ applied' \in 0..Len(log')
        /\ ctx = ContextFrom(log', applied')
        /\ ctx \in Seq(MessageUpTo(Len(log'))) /\ ctx # <<>>
    <3>1. PICK l : l = log'
      OBVIOUS
    <3>2. /\ l \in Seq(EntryType) /\ WellFormed(l) /\ Len(l) = Len(log) + 1 /\ Len(log) \in Nat
          /\ BuildContext(l) = ContextFrom(l, Len(l))
          /\ BuildContext(l) \in Seq(MessageUpTo(Len(l))) /\ BuildContext(l) # <<>>
      BY <2>1, <3>1, CompactionEntry
    <3>3. Len(l) \in 0..Len(l)
      BY <3>2
    <3> QED BY <2>2, <2>3, <3>1, <3>2, <3>3
  <2>5. active' \in Seq(MessageUpTo(Len(log'))) /\ WithoutErrors(active') = WithoutErrors(ctx)
    BY <2>3, <2>4, DropError
  <2> QED BY <2>4, <2>5 DEF ConvoInv, Matching
<1>8. CASE RebuildThrows
  <2>1. PICK cut \in Cuts : log' = Append(log, [kind |-> "compaction", kept |-> cut])
    BY <1>8 DEF RebuildThrows, StoreCompaction
  <2>2. active' = active /\ applied' = applied
    BY <1>8 DEF RebuildThrows
  <2>3. /\ log' \in Seq(EntryType) /\ WellFormed(log') /\ Len(log') = Len(log) + 1
        /\ ContextFrom(log', applied) = ContextFrom(log, applied)
    BY <2>1, CompactionEntry
  <2>4. active' \in Seq(MessageUpTo(Len(log'))) /\ applied' \in 0..Len(log')
    <3>1. MessageUpTo(Len(log)) \subseteq MessageUpTo(Len(log'))
      BY <1>0, <2>3 DEF MessageUpTo
    <3> QED BY <1>0, <2>2, <2>3, <3>1, SeqMonotonic
  <2> QED BY <1>0, <2>2, <2>3, <2>4 DEF ConvoInv, Matching
<1>6. CASE DecideRetry
  <2>1. log' = log /\ applied' = applied
        /\ active' = IF LastKind \in StopError THEN Front(active) ELSE active
    BY <1>6 DEF DecideRetry
  <2>2. LastKind \in StopError => active # <<>> /\ Last(active).kind \in StopError
    BY DEF LastKind
  <2>3. /\ active' \in Seq(MessageUpTo(Len(log)))
        /\ WithoutErrors(active') = WithoutErrors(active)
    BY <1>0, <2>1, <2>2, DropError
  <2> QED BY <1>0, <2>1, <2>3 DEF ConvoInv, Matching
<1>7. CASE log' = log /\ active' = active /\ applied' = applied
  BY <1>0, <1>7 DEF ConvoInv, Matching
<1> QED BY <1>2, <1>3, <1>4, <1>5, <1>6, <1>7, <1>8, ConvoSame

LEMMA ConvoInit == Init => ConvoInv
<1> SUFFICES ASSUME Init PROVE ConvoInv
  OBVIOUS
<1>1. log \in Seq(EntryType) /\ WellFormed(log) /\ active = BuildContext(log)
  BY HistoriesAssumption DEF Init, HistoriesAssumption, EntryType
<1>2. applied = LastOf(log, {"compaction"}) /\ applied \in 0..Len(log)
  BY <1>1, LastOfIn DEF Init
<1>3. active = ContextFrom(log, applied)
  BY <1>1, <1>2 DEF BuildContext
<1>4. active \in Seq(MessageUpTo(Len(log)))
  BY <1>1, <1>3, ContextIn DEF MessageUpTo
<1> QED BY <1>1, <1>2, <1>3, <1>4 DEF ConvoInv, Matching

\* What build_context makes of the log, by the compaction the context was last
\* rebuilt from, is what the session works with, errors aside, for any
\* histories and however turns, retries and compactions, failing ones
\* included, follow each other (run_prompt_inner, run_compaction).
THEOREM ContextAlwaysMatches == Spec => []ContextMatchesLog
<1>1. ConvoInv => ContextMatchesLog
  BY DEF ConvoInv, Matching, ContextMatchesLog
<1>2. ConvoInv /\ [Next]_vars => ConvoInv'
  BY ConvoStep
<1> QED BY <1>1, <1>2, ConvoInit, PTL DEF Spec

-----------------------------------------------------------------------------
(* The types *)

Positions ==
    {"pre", "compact", "prepare", "summarize", "append", "start", "prompted", "agent",
     "decide", "begin_retry", "backoff", "continue", "settle", "finish", "threw",
     "returned", "failed"}

\* Everything but the log and the context.
StateInv ==
    /\ pos \in Positions
    /\ job \in [reason : {"none", "overflow", "threshold", "manual"},
                will_retry : BOOLEAN, pre : BOOLEAN]
    /\ attempt \in 0 .. MaxAttempts
    /\ recovered \in BOOLEAN /\ compacting \in BOOLEAN
    /\ cancelled \in BOOLEAN /\ callback \in BOOLEAN
    /\ token \in {"none", "open", "aborted"}
    /\ retry \in {"none", "open", "aborted"}
    /\ events \in Seq(Lifecycle)
    /\ prompts \in 0 .. MaxPrompts /\ rounds \in 0 .. MaxToolRounds

\* The event e is the next one emitted.
Emits(e) ==
    /\ events' \in Seq(Lifecycle) /\ Len(events) \in Nat /\ Len(events') = Len(events) + 1
    /\ events'[Len(events) + 1] = e /\ \A i \in 1..Len(events) : events'[i] = events[i]

LEMMA EmitOne ==
    ASSUME StateInv, NEW e \in Lifecycle, Emit(<<e>>)
    PROVE  Emits(e)
<1>1. events \in Seq(Lifecycle)
  BY DEF StateInv
<1>2. events' = Append(events, e)
  BY <1>1, AppendIsConcat DEF Emit
<1> QED BY <1>1, <1>2, AppendProperties, LenProperties DEF Emits

LEMMA EmitNone == ASSUME StateInv, Emit(<<>>) PROVE events' = events
BY ConcatEmptySeq DEF Emit, StateInv

\* What each step emits.
LEMMA WhatIsEmitted ==
    ASSUME StateInv, [Next]_vars
    PROVE  /\ CompactionThrows \/ RebuildThrows =>
                IF job.pre THEN Emits("compaction_end") ELSE events' = events
           /\ NothingToCompact =>
                IF job.reason = "manual" THEN Emits("compaction_end") ELSE events' = events
           /\ PrepareFinds => Emits("compaction_start")
           /\ SummaryFails \/ AppendCompaction => Emits("compaction_end")
           /\ AgentAnswers => \E k \in Final : /\ k = "aborted" => token = "aborted"
                                /\ AppendMessages(<<k>>)
                                /\ Emits(IF WillRetry(k) THEN "agent_end_will_retry"
                                                         ELSE "agent_end")
           /\ AgentStopsAfterTools => Emits("agent_end")
           /\ DecideOverflow =>
                IF Answer # "over" /\ recovered THEN Emits("compaction_end") ELSE events' = events
           /\ DecideRetry => Emits("retry_start")
           /\ DecideDone => IF attempt > 0 \/ (Answer = "err" /\ RetryEnabled)
                              THEN Emits("retry_end") ELSE events' = events
           /\ RetryCancelled => Emits("retry_end")
           /\ Settles => Emits("agent_settled")
           /\ Finishes => Emits("session_end")
           /\ Fails => IF job.reason = "manual" THEN events' = events ELSE Emits("agent_settled")
           /\ StartPrompt \/ CompactNow => events' = <<>>
           /\ CompactionBegins \/ PreCompacts \/ PreThrows \/ PreSkips \/ StartAgent \/ DecideAborted
                \/ BeginRetry \/ RetryElapses \/ ContinueAgent \/ AgentTakesPrompt
                \/ AgentUsesTools \/ AgentFails \/ SummaryArrives \/ Abort \/ AbortRetry
                \/ AbortCallback \/ UNCHANGED vars => events' = events
<1>1. \A e \in Lifecycle : Emit(<<e>>) => Emits(e)
  BY EmitOne
<1>2. Emit(<<>>) => events' = events
  BY EmitNone
<1>3. CompactionThrows \/ RebuildThrows =>
        IF job.pre THEN Emits("compaction_end") ELSE events' = events
  BY <1>1, <1>2 DEF CompactionThrows, RebuildThrows, ThrowCompaction, Lifecycle
<1>4. NothingToCompact =>
        IF job.reason = "manual" THEN Emits("compaction_end") ELSE events' = events
  BY <1>1, <1>2 DEF NothingToCompact, Lifecycle
<1>5. PrepareFinds => Emits("compaction_start")
  BY <1>1 DEF PrepareFinds, Lifecycle
<1>6. SummaryFails \/ AppendCompaction => Emits("compaction_end")
  BY <1>1 DEF SummaryFails, AppendCompaction, Lifecycle
<1>7. AgentAnswers => \E k \in Final : /\ k = "aborted" => token = "aborted"
        /\ AppendMessages(<<k>>)
        /\ Emits(IF WillRetry(k) THEN "agent_end_will_retry" ELSE "agent_end")
  <2> SUFFICES ASSUME NEW k \in Final, AgentEnd(k)
               PROVE  Emits(IF WillRetry(k) THEN "agent_end_will_retry" ELSE "agent_end")
    BY Zenon DEF AgentAnswers
  <2> QED BY <1>1 DEF AgentEnd, Lifecycle
<1>8. AgentStopsAfterTools => Emits("agent_end")
  BY <1>1 DEF AgentStopsAfterTools, AgentEnd, WillRetry, Lifecycle
<1>9. DecideOverflow =>
        IF Answer # "over" /\ recovered THEN Emits("compaction_end") ELSE events' = events
  BY <1>1 DEF DecideOverflow, Lifecycle
<1>10. DecideRetry => Emits("retry_start")
  BY <1>1 DEF DecideRetry, Lifecycle
<1>11. DecideDone => IF attempt > 0 \/ (Answer = "err" /\ RetryEnabled)
                       THEN Emits("retry_end") ELSE events' = events
  BY <1>1, <1>2 DEF DecideDone, Lifecycle
<1>12. RetryCancelled => Emits("retry_end")
  BY <1>1 DEF RetryCancelled, Lifecycle
<1>13. Settles => Emits("agent_settled")
  BY <1>1 DEF Settles, Lifecycle
<1>14. Finishes => Emits("session_end")
  BY <1>1 DEF Finishes, Lifecycle
<1>15. Fails => IF job.reason = "manual" THEN events' = events ELSE Emits("agent_settled")
  BY <1>1, <1>2 DEF Fails, Lifecycle
<1>16. StartPrompt \/ CompactNow => events' = <<>>
  BY DEF StartPrompt, CompactNow, StartOperation
<1>17. CompactionBegins \/ PreCompacts \/ PreThrows \/ PreSkips \/ StartAgent \/ DecideAborted
         \/ BeginRetry \/ RetryElapses \/ ContinueAgent \/ AgentTakesPrompt
         \/ AgentUsesTools \/ AgentFails \/ SummaryArrives \/ Abort \/ AbortRetry
         \/ AbortCallback \/ UNCHANGED vars => events' = events
  BY DEF CompactionBegins, PreCompacts, PreThrows, PreSkips, StartAgent, DecideAborted,
     BeginRetry,
     RetryElapses, ContinueAgent, AgentTakesPrompt, AgentUsesTools, AgentFails, SummaryArrives,
     Abort, AbortRetry, AbortCallback, vars
<1> QED BY <1>3, <1>4, <1>5, <1>6, <1>7, <1>8, <1>9, <1>10, <1>11, <1>12, <1>13, <1>14,
           <1>15, <1>16, <1>17

JobType ==
    [reason : {"none", "overflow", "threshold", "manual"}, will_retry : BOOLEAN, pre : BOOLEAN]

LEMMA CompactJob ==
    ASSUME NEW r \in {"overflow", "threshold"}, NEW w \in BOOLEAN, NEW p \in BOOLEAN,
           Compact(r, w, p)
    PROVE  pos' = "compact" /\ job' \in JobType
BY DEF Compact, JobType

LEMMA StateStep == ASSUME StateInv, [Next]_vars PROVE StateInv'
<1> USE PromptRunAssumption DEF PromptRunAssumption
<1> DEFINE Rest == /\ pos \in Positions
                   /\ job \in [reason : {"none", "overflow", "threshold", "manual"},
                               will_retry : BOOLEAN, pre : BOOLEAN]
                   /\ attempt \in 0 .. MaxAttempts
                   /\ recovered \in BOOLEAN /\ compacting \in BOOLEAN
                   /\ cancelled \in BOOLEAN /\ callback \in BOOLEAN
                   /\ token \in {"none", "open", "aborted"}
                   /\ retry \in {"none", "open", "aborted"}
                   /\ prompts \in 0 .. MaxPrompts /\ rounds \in 0 .. MaxToolRounds
<1>1. events' \in Seq(Lifecycle)
  <2>1. \/ events' = events \/ events' = <<>> \/ \E e : Emits(e)
    BY WhatIsEmitted DEF Next, Runner, Provider, User
  <2>2. events \in Seq(Lifecycle) /\ <<>> \in Seq(Lifecycle)
    BY EmptySeq DEF StateInv
  <2> QED BY <2>1, <2>2 DEF Emits
<1>2. Rest
  BY DEF StateInv
<1>3. Rest'
  <2> USE <1>2 DEF Positions, abortion, counters
  <2>1. CASE CompactionBegins \/ CompactionThrows \/ RebuildThrows \/ PreThrows \/ PreSkips
             \/ DecideAborted \/ BeginRetry
    BY <2>1 DEF CompactionBegins, CompactionThrows, RebuildThrows, ThrowCompaction, PreThrows,
       PreSkips, DecideAborted, BeginRetry
  <2>2. CASE NothingToCompact \/ SummaryFails \/ AppendCompaction \/ SummaryArrives
    <3>1. \A d : ReturnPos(d) \in Positions
      BY DEF ReturnPos
    <3>2. pos' \in Positions /\ compacting' \in BOOLEAN
      BY <2>2, <3>1 DEF NothingToCompact, SummaryFails, AppendCompaction, SummaryArrives
    <3>3. UNCHANGED <<job, attempt, recovered, abortion, counters>>
      BY <2>2 DEF NothingToCompact, SummaryFails, AppendCompaction, SummaryArrives
    <3> QED BY <3>1, <3>2, <3>3
  <2>3. CASE PrepareFinds \/ StartAgent \/ ContinueAgent
    <3>1. /\ pos' \in Positions /\ token' \in {"none", "open", "aborted"}
          /\ callback' \in BOOLEAN /\ cancelled' = cancelled /\ retry' = retry
      BY <2>3 DEF PrepareFinds, StartAgent, ContinueAgent, Register
    <3>2. UNCHANGED <<job, attempt, recovered, compacting, counters>>
      BY <2>3 DEF PrepareFinds, StartAgent, ContinueAgent
    <3> QED BY <3>1, <3>2
  <2>4. CASE PreCompacts \/ DecideOverflow
    <3>1. /\ UNCHANGED <<attempt, compacting, abortion, counters>>
          /\ recovered' = recovered \/ recovered' \in BOOLEAN
      BY <2>4 DEF PreCompacts, DecideOverflow
    <3>2. \/ pos' = "compact" /\ job' \in JobType
          \/ pos' = "settle" /\ job' = job
      BY <2>4, CompactJob DEF PreCompacts, DecideOverflow
    <3>3. job' \in JobType /\ pos' \in Positions
      BY <3>2 DEF JobType
    <3> QED BY <3>1, <3>3 DEF JobType
  <2>5. CASE DecideDone
    <3>1. UNCHANGED <<recovered, compacting, abortion, counters>> /\ attempt' = 0
      BY <2>5 DEF DecideDone
    <3>2. \/ pos' = "compact" /\ job' \in JobType
          \/ pos' \in {"settle", "threw"} /\ job' = job
      BY <2>5, CompactJob DEF DecideDone
    <3>3. job' \in JobType /\ pos' \in Positions
      BY <3>2 DEF JobType
    <3> QED BY <3>1, <3>3 DEF JobType
  <2>6. CASE DecideRetry
    BY <2>6 DEF DecideRetry
  <2>7. CASE RetryElapses \/ RetryCancelled \/ Settles \/ Finishes \/ Fails
    BY <2>7 DEF RetryElapses, RetryCancelled, Settles, Finishes, Fails
  <2>8. CASE AgentTakesPrompt \/ AgentAnswers \/ AgentStopsAfterTools \/ AgentFails
    <3>1. /\ pos' \in {"agent", "decide", "threw"}
          /\ UNCHANGED <<job, attempt, recovered, compacting, abortion, counters>>
      BY <2>8 DEF AgentTakesPrompt, AgentAnswers, AgentStopsAfterTools, AgentFails
    <3> QED BY <3>1
  <2>9. CASE AgentUsesTools
    <3>1. /\ rounds < MaxToolRounds /\ rounds' = rounds + 1 /\ prompts' = prompts
          /\ UNCHANGED <<pos, job, attempt, recovered, compacting, abortion>>
      BY <2>9 DEF AgentUsesTools
    <3> QED BY <3>1
  <2>10. CASE StartPrompt \/ CompactNow
    <3>1. /\ pos' \in {"pre", "compact"} /\ prompts < MaxPrompts /\ prompts' = prompts + 1
          /\ rounds' = 0 /\ attempt' = 0 /\ recovered' = FALSE /\ compacting' = compacting
          /\ cancelled' = FALSE /\ token' = "none" /\ callback' = FALSE /\ retry' = "none"
      BY <2>10 DEF StartPrompt, CompactNow, StartOperation
    <3>2. job' \in JobType
      <4>1. NoJob \in JobType
        BY DEF NoJob, JobType
      <4>2. [reason |-> "manual", will_retry |-> FALSE, pre |-> FALSE] \in JobType
        BY DEF JobType
      <4>3. \/ job' = NoJob
            \/ job' = [reason |-> "manual", will_retry |-> FALSE, pre |-> FALSE]
        BY <2>10, Zenon DEF StartPrompt, CompactNow, StartOperation
      <4> QED BY <4>1, <4>2, <4>3, Zenon
    <3>3. /\ prompts' \in 0 .. MaxPrompts /\ rounds' \in 0 .. MaxToolRounds
          /\ attempt' \in 0 .. MaxAttempts /\ pos' \in Positions
      BY <3>1
    <3> QED BY <3>1, <3>2, <3>3 DEF JobType
  <2>11. CASE Abort \/ AbortRetry \/ AbortCallback
    <3>1. UNCHANGED <<pos, job, attempt, recovered, compacting, counters>>
      BY <2>11 DEF Abort, AbortRetry, AbortCallback
    <3>2. /\ cancelled' \in BOOLEAN /\ callback' \in BOOLEAN
          /\ token' \in {"none", "open", "aborted"} /\ retry' \in {"none", "open", "aborted"}
      BY <2>11 DEF Abort, AbortRetry, AbortCallback
    <3> QED BY <3>1, <3>2
  <2>12. CASE UNCHANGED vars
    BY <2>12 DEF vars
  <2> HIDE DEF Rest
  <2> QED BY <2>1, <2>2, <2>3, <2>4, <2>5, <2>6, <2>7, <2>8, <2>9, <2>10, <2>11, <2>12
          DEF Next, Runner, Provider, User
<1> QED BY <1>1, <1>3 DEF StateInv

LEMMA StateInit == Init => StateInv
<1> SUFFICES ASSUME Init PROVE StateInv
  OBVIOUS
<1>1. job \in JobType
  BY DEF Init, NoJob, JobType
<1>2. events \in Seq(Lifecycle)
  BY EmptySeq DEF Init
<1>3. /\ attempt \in 0 .. MaxAttempts /\ prompts \in 0 .. MaxPrompts
      /\ rounds \in 0 .. MaxToolRounds
  BY PromptRunAssumption DEF Init, PromptRunAssumption
<1>4. /\ pos \in Positions /\ token \in {"none", "open", "aborted"}
      /\ retry \in {"none", "open", "aborted"}
      /\ recovered \in BOOLEAN /\ compacting \in BOOLEAN
      /\ cancelled \in BOOLEAN /\ callback \in BOOLEAN
  BY DEF Init, Positions
<1> QED BY <1>1, <1>2, <1>3, <1>4 DEF StateInv, JobType

\* The session, its prompt and the compaction under way keep their types, and
\* every entry of the log its shape.
THEOREM PromptRunTypes == Spec => []TypeOK
<1>1. StateInv /\ ConvoInv => TypeOK
  BY DEF StateInv, Positions, ConvoInv, Matching, EntryType, MessageUpTo, TypeOK
<1>2. StateInv /\ ConvoInv /\ [Next]_vars => StateInv' /\ ConvoInv'
  BY StateStep, ConvoStep
<1> QED BY <1>1, <1>2, StateInit, ConvoInit, PTL DEF Spec

-----------------------------------------------------------------------------
(* Which operation is where *)

LEMMA JobStep == ASSUME StateInv, JobInv, [Next]_vars PROVE JobInv'
<1> DEFINE Rest == /\ job.reason = "manual" =>
                        /\ InCompaction \/ pos \in {"finish", "threw", "returned", "failed"}
                        /\ ~job.pre /\ ~job.will_retry
                   /\ InCompaction => job.reason # "none"
                   /\ pos = "pre" \/ (InCompaction /\ job.reason = "threshold") => attempt = 0
<1>1. (token = "aborted" \/ callback => cancelled)'
  <2>1. CASE PrepareFinds \/ StartAgent \/ ContinueAgent
    BY <2>1 DEF PrepareFinds, StartAgent, ContinueAgent, Register, abortion, JobInv, StateInv
  <2>2. CASE StartPrompt \/ CompactNow
    BY <2>2 DEF StartPrompt, CompactNow, StartOperation
  <2>3. CASE Abort \/ AbortRetry \/ AbortCallback
    BY <2>3 DEF Abort, AbortRetry, AbortCallback, JobInv, StateInv
  <2>4. CASE token' = token /\ callback' = callback /\ cancelled' = cancelled
    BY <2>4 DEF JobInv
  <2>5. CASE UNCHANGED vars
    BY <2>4, <2>5 DEF vars, abortion
  <2>6. CASE Runner /\ ~(PrepareFinds \/ StartAgent \/ ContinueAgent)
    BY <2>4, <2>6 DEF Runner, CompactionBegins, CompactionThrows, RebuildThrows,
       ThrowCompaction, NothingToCompact,
       AppendCompaction, PreCompacts, PreThrows, PreSkips, DecideAborted, DecideOverflow, DecideRetry,
       DecideDone, BeginRetry, RetryElapses, RetryCancelled, Settles, Finishes, Fails, abortion
  <2>7. CASE Provider
    BY <2>4, <2>7 DEF Provider, AgentTakesPrompt, AgentUsesTools, AgentAnswers,
       AgentStopsAfterTools, AgentFails, SummaryFails, SummaryArrives, abortion
  <2> QED BY <2>1, <2>2, <2>3, <2>5, <2>6, <2>7 DEF Next, User
<1>2. Rest
  BY DEF JobInv
<1>3. Rest'
  <2> USE <1>2 DEF InCompaction
  <2>1. CASE CompactionBegins \/ CompactionThrows \/ RebuildThrows \/ PrepareFinds
             \/ SummaryArrives
    BY <2>1 DEF CompactionBegins, CompactionThrows, RebuildThrows, ThrowCompaction,
       PrepareFinds, SummaryArrives
  <2>2. CASE NothingToCompact \/ SummaryFails \/ AppendCompaction
    BY <2>2 DEF NothingToCompact, SummaryFails, AppendCompaction, ReturnPos
  <2>3. CASE PreCompacts \/ DecideOverflow
    BY <2>3 DEF PreCompacts, DecideOverflow, Compact
  <2>4. CASE DecideDone
    BY <2>4 DEF DecideDone, Compact
  <2>5. CASE PreThrows \/ PreSkips \/ StartAgent \/ DecideAborted \/ DecideRetry
             \/ BeginRetry \/ RetryElapses
    BY <2>5 DEF PreThrows, PreSkips, StartAgent, DecideAborted, DecideRetry, BeginRetry,
       RetryElapses
  <2>6. CASE RetryCancelled \/ ContinueAgent \/ Settles \/ Finishes \/ Fails
    BY <2>6 DEF RetryCancelled, ContinueAgent, Settles, Finishes, Fails
  <2>7. CASE AgentTakesPrompt \/ AgentUsesTools \/ AgentAnswers \/ AgentStopsAfterTools
             \/ AgentFails
    BY <2>7 DEF AgentTakesPrompt, AgentUsesTools, AgentAnswers, AgentStopsAfterTools, AgentFails
  <2>8. CASE StartPrompt \/ CompactNow
    BY <2>8 DEF StartPrompt, CompactNow, StartOperation, NoJob
  <2>9. CASE Abort \/ AbortRetry \/ AbortCallback
    BY <2>9 DEF Abort, AbortRetry, AbortCallback
  <2>10. CASE UNCHANGED vars
    BY <2>10 DEF vars
  <2> HIDE DEF Rest
  <2> QED BY <2>1, <2>2, <2>3, <2>4, <2>5, <2>6, <2>7, <2>8, <2>9, <2>10
          DEF Next, Runner, Provider, User
<1> QED BY <1>1, <1>3 DEF JobInv

-----------------------------------------------------------------------------
(* Every prompt settles once *)

\* The steps that emit no agent_settled leave the end of an operation alone,
\* and only a manual compaction reaches it without one.
LEMMA QuietStep ==
    ASSUME StateInv, JobInv, [Next]_vars, ~StartPrompt, ~CompactNow, ~Settles, ~Finishes, ~Fails
    PROVE  /\ prompts' = prompts
           /\ \/ events' = events
              \/ /\ pos \notin {"finish", "returned", "failed"}
                 /\ \E e : Emits(e) /\ e # "agent_settled"
           /\ pos \in {"finish", "returned", "failed"} => pos' = pos /\ job' = job
           /\ pos \notin {"finish", "returned", "failed"} =>
                pos' \notin {"returned", "failed"} /\ (pos' = "finish" => job'.reason = "manual")
<1> USE WhatIsEmitted DEF counters
<1>1. CASE CompactionBegins \/ CompactionThrows \/ RebuildThrows \/ PrepareFinds \/ SummaryArrives
  <2>1. /\ pos \in {"compact", "prepare", "append", "summarize"} /\ prompts' = prompts
        /\ pos' \in {"prepare", "start", "threw", "summarize", "append"}
    BY <1>1 DEF CompactionBegins, CompactionThrows, RebuildThrows, ThrowCompaction,
       PrepareFinds, SummaryArrives
  <2>2. events' = events \/ Emits("compaction_end") \/ Emits("compaction_start")
    BY <1>1
  <2> QED BY <2>1, <2>2
<1>2. CASE NothingToCompact \/ SummaryFails \/ AppendCompaction
  <2>1. /\ pos' = ReturnPos(FALSE) \/ pos' = ReturnPos(TRUE)
        /\ pos \in {"prepare", "summarize", "append"} /\ job' = job /\ prompts' = prompts
        /\ events' = events \/ Emits("compaction_end")
    BY <1>2 DEF NothingToCompact, SummaryFails, AppendCompaction
  <2>2. /\ ReturnPos(FALSE) \notin {"returned", "failed"}
        /\ ReturnPos(FALSE) = "finish" => job.reason = "manual"
    BY DEF ReturnPos
  <2>3. /\ ReturnPos(TRUE) \notin {"returned", "failed"}
        /\ ReturnPos(TRUE) = "finish" => job.reason = "manual"
    BY DEF ReturnPos
  <2>4. pos' \notin {"returned", "failed"} /\ (pos' = "finish" => job'.reason = "manual")
    BY <2>1, <2>2, <2>3
  <2>5. pos \notin {"finish", "returned", "failed"}
    BY <2>1
  <2>6. events' = events \/ \E e : Emits(e) /\ e # "agent_settled"
    BY <2>1
  <2> QED BY <2>1, <2>4, <2>5, <2>6
<1>3. CASE PreCompacts \/ DecideOverflow \/ DecideDone
  <2>1. /\ pos \in {"pre", "decide"} /\ pos' \in {"compact", "settle", "threw"}
        /\ prompts' = prompts
    BY <1>3 DEF PreCompacts, DecideOverflow, DecideDone, Compact
  <2>2. events' = events \/ Emits("compaction_end") \/ Emits("retry_end")
    BY <1>3
  <2> QED BY <2>1, <2>2
<1>4. CASE PreThrows \/ PreSkips \/ StartAgent \/ DecideAborted \/ DecideRetry \/ BeginRetry
           \/ RetryElapses
  BY <1>4 DEF PreThrows, PreSkips, StartAgent, DecideAborted, DecideRetry, BeginRetry,
     RetryElapses
<1>5. CASE RetryCancelled \/ ContinueAgent
  BY <1>5 DEF RetryCancelled, ContinueAgent
<1>6. CASE AgentTakesPrompt \/ AgentUsesTools \/ AgentAnswers \/ AgentStopsAfterTools \/ AgentFails
  <2>1. /\ pos \in {"prompted", "agent"} /\ pos' \in {"agent", "decide", "threw"}
        /\ prompts' = prompts
    BY <1>6 DEF AgentTakesPrompt, AgentUsesTools, AgentAnswers, AgentStopsAfterTools, AgentFails
  <2>2. events' = events \/ Emits("agent_end") \/ Emits("agent_end_will_retry")
    BY <1>6
  <2> QED BY <2>1, <2>2
<1>7. CASE Abort \/ AbortRetry \/ AbortCallback
  BY <1>7 DEF Abort, AbortRetry, AbortCallback
<1>8. CASE UNCHANGED vars
  BY <1>8 DEF vars
<1> QED BY <1>1, <1>2, <1>3, <1>4, <1>5, <1>6, <1>7, <1>8 DEF Next, Runner, Provider, User

LEMMA NoneKept ==
    ASSUME StateInv, NEW x, NoneIs(x, Len(events)),
           events' = events \/ \E e : Emits(e) /\ e # x
    PROVE  NoneIs(x, Len(events))'
<1>1. CASE events' = events
  BY <1>1 DEF NoneIs
<1>2. ASSUME NEW e, Emits(e), e # x PROVE NoneIs(x, Len(events))'
  <2>1. \A i \in 1..Len(events) + 1 : i = Len(events) + 1 \/ i \in 1..Len(events)
    BY <1>2 DEF Emits
  <2> QED BY <1>2, <2>1 DEF Emits, NoneIs
<1> QED BY <1>1, <1>2

LEMMA SettleStep == ASSUME StateInv, JobInv, SettleInv, [Next]_vars PROVE SettleInv'
<1> DEFINE settledAt(n) ==
             n > 0 /\ events[n] = "agent_settled" /\ NoneIs("agent_settled", n - 1)
           Over == {"finish", "returned", "failed"}
<1>0. Len(events) \in Nat
  BY LenProperties DEF StateInv
<1>1. CASE StartPrompt \/ CompactNow
  <2>1. pos' \in {"pre", "compact"} /\ events' = <<>>
    BY <1>1 DEF StartPrompt, CompactNow, StartOperation
  <2>2. Len(events') = 0
    BY <2>1
  <2> QED BY <2>1, <2>2 DEF SettleInv, NoneIs
<1>2. CASE Settles \/ (Fails /\ job.reason # "manual")
  <2>1. /\ pos \notin Over /\ pos' \in {"finish", "failed"} /\ Emits("agent_settled")
    BY <1>2, WhatIsEmitted DEF Settles, Fails
  <2>2. NoneIs("agent_settled", Len(events))
    BY <2>1 DEF SettleInv
  <2>3. /\ Len(events') = Len(events) + 1 /\ events'[Len(events')] = "agent_settled"
        /\ Len(events') - 1 = Len(events) /\ Len(events') > 0
    BY <1>0, <2>1 DEF Emits
  <2>4. \A i \in 1..Len(events') - 1 : events'[i] # "agent_settled"
    <3>1. \A i \in 1..Len(events) : events'[i] # "agent_settled"
      BY <2>1, <2>2 DEF Emits, NoneIs
    <3> QED BY <2>3, <3>1
  <2> QED BY <2>1, <2>3, <2>4 DEF SettleInv, NoneIs
<1>3. CASE Fails /\ job.reason = "manual"
  BY <1>3 DEF Fails, SettleInv, IsPrompt
<1>4. CASE Finishes
  <2>1. pos = "finish" /\ pos' = "returned" /\ Emits("session_end") /\ job' = job
    BY <1>4, WhatIsEmitted DEF Finishes
  <2>2. job.reason # "manual" => settledAt(Len(events))
    BY <2>1 DEF SettleInv
  <2>3. /\ Len(events') - 1 = Len(events) /\ events'[Len(events')] = "session_end"
        /\ Len(events') = Len(events) + 1
        /\ \A i \in 1..Len(events) : events'[i] = events[i]
    BY <1>0, <2>1 DEF Emits
  <2>4. job.reason # "manual" =>
          /\ Len(events) > 0 /\ events'[Len(events)] = "agent_settled"
          /\ \A i \in 1..Len(events) - 1 : events'[i] # "agent_settled"
    BY <1>0, <2>2, <2>3 DEF NoneIs
  <2> QED BY <2>1, <2>3, <2>4 DEF SettleInv, NoneIs, IsPrompt
<1>5. CASE ~StartPrompt /\ ~CompactNow /\ ~Settles /\ ~Finishes /\ ~Fails
  <2>1. CASE pos \in Over
    <3>1. pos' = pos /\ job' = job /\ events' = events /\ prompts' = prompts
      BY <1>5, <2>1, QuietStep
    <3> QED BY <3>1, <2>1 DEF SettleInv, NoneIs, IsPrompt
  <2>2. CASE pos \notin Over
    <3>1. /\ pos' \notin {"returned", "failed"} /\ (pos' = "finish" => job'.reason = "manual")
          /\ events' = events \/ \E e : Emits(e) /\ e # "agent_settled"
      BY <1>5, <2>2, QuietStep
    <3>2. NoneIs("agent_settled", Len(events))
      BY <2>2 DEF SettleInv
    <3>3. NoneIs("agent_settled", Len(events))'
      BY <3>1, <3>2, NoneKept
    <3> QED BY <3>1, <3>3 DEF SettleInv
  <2> QED BY <2>1, <2>2
<1> QED BY <1>1, <1>2, <1>3, <1>4, <1>5

LEMMA SettledFollows == ASSUME StateInv, SettleInv PROVE SettledOnce
<1> SUFFICES ASSUME IsPrompt, Ended
             PROVE  /\ Count({"agent_settled"}) = 1
                    /\ \A i \in DOMAIN events : events[i] = "agent_settled" =>
                         SubSeq(events, i + 1, Len(events)) \in {<<>>, <<"session_end">>}
  BY DEF SettledOnce
<1>0. events \in Seq(Lifecycle) /\ Len(events) \in Nat /\ DOMAIN events = 1..Len(events)
  BY LenProperties DEF StateInv
<1>1. \E n \in DOMAIN events : /\ \A i \in DOMAIN events : events[i] = "agent_settled" <=> i = n
                               /\ SubSeq(events, n + 1, Len(events)) \in {<<>>, <<"session_end">>}
  <2>1. CASE pos = "failed"
    <3>1. /\ Len(events) > 0 /\ events[Len(events)] = "agent_settled"
          /\ \A i \in 1..Len(events) - 1 : events[i] # "agent_settled"
      BY <2>1 DEF SettleInv, NoneIs, IsPrompt
    <3>2. \A i \in DOMAIN events : events[i] = "agent_settled" <=> i = Len(events)
      BY <1>0, <3>1
    <3>3. SubSeq(events, Len(events) + 1, Len(events)) = <<>>
      BY <1>0, SubSeqProperties, EmptySeq
    <3> QED BY <1>0, <3>1, <3>2, <3>3
  <2>2. CASE pos = "returned"
    <3> DEFINE n == Len(events) - 1
    <3>1. /\ n > 0 /\ events[n] = "agent_settled" /\ events[Len(events)] = "session_end"
          /\ \A i \in 1..n - 1 : events[i] # "agent_settled"
      BY <2>2 DEF SettleInv, NoneIs
    <3>2. n \in DOMAIN events
      BY <1>0, <3>1
    <3>3. \A i \in DOMAIN events : i = Len(events) \/ i = n \/ i \in 1..n - 1
      BY <1>0, <3>1
    <3>4. n # Len(events)
      <4>1. \A m \in Nat : m - 1 # m
        OBVIOUS
      <4> QED BY <1>0, <4>1
    <3>5. \A i \in DOMAIN events : events[i] = "agent_settled" <=> i = n
      BY <3>1, <3>3
    <3>6. SubSeq(events, n + 1, Len(events)) = <<"session_end">>
      <4>1. n + 1 = Len(events) /\ Len(events) \in 1..Len(events)
        BY <1>0, <3>1
      <4>2. SubSeq(events, Len(events), Len(events)) = <<events[Len(events)]>>
        <5>1. SubSeq(events, Len(events), Len(events))
                = <<events[Len(events)]>> \o SubSeq(events, Len(events) + 1, Len(events))
          BY <1>0, <4>1, SubSeqRecursiveFirst
        <5>2. SubSeq(events, Len(events) + 1, Len(events)) = <<>>
          BY <1>0, SubSeqEmpty
        <5>3. <<events[Len(events)]>> \in Seq(Lifecycle)
          BY <3>1 DEF Lifecycle
        <5> QED BY <5>1, <5>2, <5>3, ConcatEmptySeq
      <4> QED BY <3>1, <4>1, <4>2
    <3> QED BY <3>2, <3>5, <3>6
  <2> QED BY <2>1, <2>2 DEF Ended
<1>2. PICK n \in DOMAIN events :
        /\ \A i \in DOMAIN events : events[i] = "agent_settled" <=> i = n
        /\ SubSeq(events, n + 1, Len(events)) \in {<<>>, <<"session_end">>}
  BY <1>1
<1>3. {i \in DOMAIN events : events[i] \in {"agent_settled"}} = {n}
  BY <1>2
<1> QED BY <1>2, <1>3, FS_Singleton DEF Count

LEMMA FlowInit == Init => JobInv /\ SettleInv
<1> SUFFICES ASSUME Init PROVE JobInv /\ SettleInv
  OBVIOUS
<1>1. JobInv
  BY DEF Init, NoJob, JobInv, InCompaction
<1>2. SettleInv
  BY DEF Init, NoJob, SettleInv, IsPrompt
<1> QED BY <1>1, <1>2

\* However it ends, completed, cancelled or failed, a prompt emits
\* agent_settled exactly once, and after it nothing but session_end
\* (run_prompt, run_prompt_inner).
THEOREM SettlesExactlyOnce == Spec => []SettledOnce
<1>1. StateInv /\ JobInv /\ SettleInv /\ [Next]_vars => StateInv' /\ JobInv' /\ SettleInv'
  BY StateStep, JobStep, SettleStep
<1> QED BY <1>1, StateInit, FlowInit, SettledFollows, PTL DEF Spec

-----------------------------------------------------------------------------
(* The runs of the agent *)

LEMMA CountStep ==
    ASSUME StateInv, NEW e, Emits(e)
    PROVE  Count(Agent)' = Count(Agent) + (IF e \in Agent THEN 1 ELSE 0)
<1> DEFINE S(s) == {i \in DOMAIN s : s[i] \in Agent}
<1>1. /\ Len(events) \in Nat /\ DOMAIN events = 1..Len(events)
      /\ DOMAIN events' = 1..Len(events) + 1
      /\ events'[Len(events) + 1] = e /\ \A i \in 1..Len(events) : events'[i] = events[i]
  BY LenProperties DEF StateInv, Emits
<1>2. PICK A : A = S(events)
  OBVIOUS
<1>3. PICK B : B = S(events')
  OBVIOUS
<1>4. Count(Agent) = Cardinality(A) /\ Count(Agent)' = Cardinality(B)
  BY <1>2, <1>3 DEF Count, Agent
<1>5. \A i \in 1..Len(events) + 1 : i = Len(events) + 1 \/ i \in 1..Len(events)
  BY <1>1
<1>6. A \in SUBSET (1..Len(events)) /\ Len(events) + 1 \notin 1..Len(events)
  BY <1>1, <1>2
<1>7. IsFiniteSet(A) /\ Cardinality(A) \in Nat
  <2>1. IsFiniteSet(1..Len(events))
    BY <1>1, FS_Interval
  <2>2. IsFiniteSet(A)
    BY <1>6, <2>1, FS_Subset
  <2> QED BY <2>2, FS_CardinalityType
<1>8. CASE e \in Agent
  <2>1. B = A \cup {Len(events) + 1}
    BY <1>1, <1>2, <1>3, <1>5, <1>8
  <2> QED BY <1>4, <1>6, <1>7, <1>8, <2>1, FS_AddElement
<1>9. CASE e \notin Agent
  <2>1. B = A
    BY <1>1, <1>2, <1>3, <1>5, <1>9
  <2> QED BY <1>4, <1>7, <1>9, <2>1
<1> QED BY <1>8, <1>9

LEMMA CountSame == ASSUME events' = events PROVE Count(Agent)' = Count(Agent)
BY DEF Count, Agent

LEMMA CountNat == ASSUME StateInv PROVE Count(Agent) \in Nat
<1>1. Len(events) \in Nat /\ DOMAIN events = 1..Len(events)
  BY LenProperties DEF StateInv
<1>2. PICK A : A = {i \in DOMAIN events : events[i] \in Agent}
  OBVIOUS
<1>3. A \in SUBSET (1..Len(events))
  BY <1>1, <1>2
<1>4. IsFiniteSet(1..Len(events))
  BY <1>1, FS_Interval
<1>5. IsFiniteSet(A)
  BY <1>3, <1>4, FS_Subset
<1>6. Cardinality(A) \in Nat
  BY <1>5, FS_CardinalityType
<1> QED BY <1>2, <1>6 DEF Count

LEMMA CountNone == ASSUME events' = <<>> PROVE Count(Agent)' = 0
<1>1. {i \in DOMAIN events' : events'[i] \in Agent} = {}
  BY DEF Agent
<1> QED BY <1>1, FS_EmptySet DEF Count, Agent

\* Only the end of a run counts.
LEMMA Counted ==
    ASSUME StateInv, [Next]_vars
    PROVE  /\ Count(Agent) \in Nat /\ Count(Agent)' \in Nat
           /\ StartPrompt \/ CompactNow => Count(Agent)' = 0
           /\ AgentAnswers \/ AgentStopsAfterTools => Count(Agent)' = Count(Agent) + 1
           /\ ~(StartPrompt \/ CompactNow \/ AgentAnswers \/ AgentStopsAfterTools) =>
                Count(Agent)' = Count(Agent)
<1>1. Count(Agent) \in Nat
  BY CountNat
<1>2. StartPrompt \/ CompactNow => Count(Agent)' = 0
  BY WhatIsEmitted, CountNone
<1>3. \A e \in Agent : Emits(e) => Count(Agent)' = Count(Agent) + 1
  BY CountStep
<1>4. \A e \in Lifecycle \ Agent : Emits(e) => Count(Agent)' = Count(Agent)
  BY <1>1, CountStep
<1>5. AgentAnswers \/ AgentStopsAfterTools => Count(Agent)' = Count(Agent) + 1
  <2>1. AgentAnswers \/ AgentStopsAfterTools =>
          Emits("agent_end") \/ Emits("agent_end_will_retry")
    BY WhatIsEmitted
  <2> QED BY <1>3, <2>1 DEF Agent
<1>6. ~(StartPrompt \/ CompactNow \/ AgentAnswers \/ AgentStopsAfterTools) =>
        Count(Agent)' = Count(Agent)
  <2>1. ~(StartPrompt \/ CompactNow \/ AgentAnswers \/ AgentStopsAfterTools) =>
          \/ events' = events \/ Emits("compaction_end") \/ Emits("compaction_start")
          \/ Emits("retry_start") \/ Emits("retry_end") \/ Emits("agent_settled")
          \/ Emits("session_end")
    BY WhatIsEmitted DEF Next, Runner, Provider, User
  <2>2. {"compaction_end", "compaction_start", "retry_start", "retry_end", "agent_settled",
         "session_end"} \subseteq Lifecycle \ Agent
    BY DEF Lifecycle, Agent
  <2> QED BY <1>4, <2>1, <2>2, CountSame
<1> QED BY <1>1, <1>2, <1>5, <1>6

Paid == attempt + (IF recovered THEN 1 ELSE 0)

LEMMA RunStep == ASSUME StateInv, JobInv, RunInv, [Next]_vars PROVE RunInv'
<1> DEFINE n == Count(Agent)
           Unpaid == pos \in {"pre", "start", "prompted"} \/ (InCompaction /\ job.pre)
           Running == \/ pos \in {"agent", "begin_retry", "backoff", "continue"}
                      \/ InCompaction /\ ~job.pre /\ job.will_retry
<1> HIDE DEF n
<1>0. /\ n \in Nat /\ n' \in Nat /\ Paid \in Nat /\ MaxAttempts \in Nat
      /\ Paid' \in Nat /\ Paid <= MaxAttempts + 1
  <2>1. attempt \in 0..MaxAttempts /\ attempt' \in 0..MaxAttempts /\ MaxAttempts \in Nat
    BY StateStep, PromptRunAssumption DEF StateInv, PromptRunAssumption
  <2>2. Paid \in Nat /\ Paid <= MaxAttempts + 1
    BY <2>1 DEF Paid
  <2>3. Paid' \in Nat
    <3>1. attempt' \in Nat
      BY <2>1
    <3>2. Paid' = attempt' \/ Paid' = attempt' + 1
      <4>1. PICK p : p = Paid'
        OBVIOUS
      <4>2. recovered' \in BOOLEAN
        BY StateStep DEF StateInv
      <4>3. p = attempt' + (IF recovered' THEN 1 ELSE 0)
        BY <4>1, Zenon DEF Paid
      <4>4. \A b \in BOOLEAN : (IF b THEN 1 ELSE 0) \in {0, 1}
        OBVIOUS
      <4>5. \A a \in Nat : \A d \in {0, 1} : a + d = a \/ a + d = a + 1
        OBVIOUS
      <4>6. attempt' + (IF recovered' THEN 1 ELSE 0) = attempt'
             \/ attempt' + (IF recovered' THEN 1 ELSE 0) = attempt' + 1
        BY <3>1, <4>2, <4>4, <4>5, Zenon
      <4> QED BY <4>1, <4>3, <4>6, Zenon
    <3>3. \A m \in Nat : m + 1 \in Nat
      OBVIOUS
    <3> QED BY <3>1, <3>2, <3>3
  <2>4. n \in Nat /\ n' \in Nat
    BY Counted DEF n
  <2> QED BY <2>1, <2>2, <2>3, <2>4
<1>1. /\ n <= MaxAttempts + 2 /\ (Unpaid => n = 0) /\ (Running => n <= Paid)
      /\ pos = "decide" => n <= Paid + 1
  BY DEF RunInv, n, Paid
<1>2. SUFFICES /\ n' <= MaxAttempts + 2 /\ (Unpaid' => n' = 0) /\ (Running' => n' <= Paid')
               /\ (pos = "decide")' => n' <= Paid' + 1
  BY DEF RunInv, n, Paid
<1> USE DEF InCompaction
<1>3. CASE StartPrompt \/ CompactNow
  <2>1. n' = 0
    BY <1>3, Counted DEF n
  <2>2. pos' # "decide"
    BY <1>3 DEF StartPrompt, CompactNow, StartOperation
  <2>3. n' <= MaxAttempts + 2 /\ n' <= Paid'
    BY <1>0, <2>1
  <2> QED BY <2>1, <2>2, <2>3
<1>4. CASE AgentAnswers \/ AgentStopsAfterTools
  <2>1. pos = "agent" /\ pos' = "decide" /\ Paid' = Paid
    BY <1>4 DEF AgentAnswers, AgentStopsAfterTools, Paid
  <2>2. n' = n + 1
    BY <1>4, Counted DEF n
  <2>3. n <= Paid
    BY <1>1, <2>1
  <2> QED BY <1>0, <2>1, <2>2, <2>3
<1>5. CASE n' = n /\ (Unpaid' => Unpaid) /\ (Running' => Running \/ Unpaid) /\ Paid' = Paid
           /\ pos' # "decide"
  BY <1>0, <1>1, <1>5
<1>6. ~(StartPrompt \/ CompactNow \/ AgentAnswers \/ AgentStopsAfterTools) => n' = n
  BY Counted DEF n
<1>7. CASE CompactionBegins \/ CompactionThrows \/ RebuildThrows \/ PrepareFinds \/ SummaryArrives
  <2>1. /\ InCompaction /\ job' = job /\ Paid' = Paid
        /\ InCompaction' \/ (pos' = "start" /\ job.pre) \/ pos' = "threw"
        /\ pos' \notin {"decide", "pre", "prompted", "agent", "begin_retry", "backoff", "continue"}
    BY <1>7 DEF CompactionBegins, CompactionThrows, RebuildThrows, ThrowCompaction,
       PrepareFinds, SummaryArrives, Paid
  <2>2. n' = n
    BY <1>6, <2>1, <1>7 DEF CompactionBegins, CompactionThrows, RebuildThrows, ThrowCompaction,
       PrepareFinds, SummaryArrives,
       StartPrompt, CompactNow, StartOperation, AgentAnswers, AgentStopsAfterTools
  <2> QED BY <1>5, <2>1, <2>2
<1>8. CASE NothingToCompact \/ SummaryFails \/ AppendCompaction
  <2>1. /\ pos' = ReturnPos(FALSE) \/ pos' = ReturnPos(TRUE)
        /\ InCompaction /\ job' = job /\ attempt' = attempt /\ recovered' = recovered
    BY <1>8 DEF NothingToCompact, SummaryFails, AppendCompaction
  <2>4. Paid' = Paid
    BY <2>1 DEF Paid
  <2>2. \/ pos' = "start" /\ job.pre
        \/ pos' \in {"finish", "settle"}
        \/ pos' = "continue" /\ ~job.pre /\ job.will_retry
    BY <2>1 DEF ReturnPos
  <2>3. n' = n
    BY <1>6, <2>1, <1>8 DEF NothingToCompact, SummaryFails, AppendCompaction,
       StartPrompt, CompactNow, StartOperation, AgentAnswers, AgentStopsAfterTools
  <2> QED BY <1>5, <2>1, <2>2, <2>3, <2>4
<1>9. CASE PreCompacts
  <2>1. pos = "pre" /\ pos' = "compact" /\ job'.pre /\ Paid' = Paid
    BY <1>9 DEF PreCompacts, Compact, Paid
  <2>2. n' = n
    BY <1>6, <2>1 DEF StartPrompt, CompactNow, StartOperation, AgentAnswers, AgentStopsAfterTools
  <2> QED BY <1>5, <2>1, <2>2
<1>10. CASE DecideOverflow \/ DecideRetry \/ DecideDone
  <2>1. /\ pos = "decide"
        /\ \/ pos' \in {"settle", "threw"}
           \/ pos' = "compact" /\ job'.pre = FALSE /\ (job'.will_retry => Paid' = Paid + 1)
           \/ pos' = "begin_retry" /\ Paid' = Paid + 1
    <3>1. CASE DecideOverflow
      <4>1. pos' = "settle" \/ (/\ Compact("overflow", Answer # "over", FALSE)
                                /\ (Answer # "over" => ~recovered)
                                /\ recovered' = (recovered \/ Answer # "over"))
        BY <3>1 DEF DecideOverflow
      <4>2. attempt' = attempt /\ pos = "decide" /\ attempt \in Nat
        BY <3>1 DEF DecideOverflow, StateInv
      <4>3. CASE pos' = "settle"
        BY <4>2, <4>3
      <4>4. CASE Compact("overflow", TRUE, FALSE) /\ ~recovered /\ recovered'
        BY <4>2, <4>4 DEF Compact, Paid
      <4>5. CASE Compact("overflow", FALSE, FALSE)
        BY <4>2, <4>5 DEF Compact
      <4>6. Answer # "over" \/ Answer = "over"
        OBVIOUS
      <4>7. (Answer # "over") = TRUE \/ (Answer # "over") = FALSE
        OBVIOUS
      <4> QED BY <4>1, <4>3, <4>4, <4>5, <4>7
    <3>2. CASE DecideRetry
      <4>1. /\ pos = "decide" /\ pos' = "begin_retry" /\ attempt' = attempt + 1
            /\ recovered' = recovered /\ attempt \in Nat
        BY <3>2 DEF DecideRetry, StateInv
      <4> QED BY <4>1 DEF Paid
    <3>3. CASE DecideDone
      BY <3>3 DEF DecideDone, Compact
    <3> QED BY <1>10, <3>1, <3>2, <3>3
  <2>2. n' = n
    BY <1>6, <2>1 DEF StartPrompt, CompactNow, StartOperation, AgentAnswers, AgentStopsAfterTools
  <2> QED BY <1>0, <1>1, <2>1, <2>2
<1>11. CASE \/ PreThrows \/ PreSkips \/ StartAgent \/ DecideAborted \/ BeginRetry \/ RetryElapses
            \/ RetryCancelled \/ ContinueAgent \/ Settles \/ Finishes \/ Fails
  <2>1. /\ Paid' = Paid
        /\ \/ pos = "pre" /\ pos' = "start"
           \/ pos = "start" /\ pos' = "prompted"
           \/ Running /\ pos' \in {"backoff", "continue", "agent"}
           \/ pos' \in {"settle", "threw", "finish", "returned", "failed"}
        /\ pos # "agent" /\ pos' \notin {"pre", "compact"}
    BY <1>11 DEF PreThrows, PreSkips, StartAgent, DecideAborted, BeginRetry, RetryElapses,
       RetryCancelled,
       ContinueAgent, Settles, Finishes, Fails, Paid
  <2>2. n' = n
    BY <1>6, <2>1 DEF StartPrompt, CompactNow, StartOperation, AgentAnswers, AgentStopsAfterTools
  <2> QED BY <1>5, <2>1, <2>2
<1>12. CASE AgentTakesPrompt \/ AgentUsesTools \/ AgentFails
  <2>1. /\ Paid' = Paid
        /\ pos \in {"prompted", "agent"} /\ pos' \in {"agent", "threw"}
    BY <1>12 DEF AgentTakesPrompt, AgentUsesTools, AgentFails, Paid
  <2>2. n' = n
    BY <1>6, <2>1, <1>12 DEF StartPrompt, CompactNow, StartOperation, AgentAnswers,
       AgentStopsAfterTools, AgentTakesPrompt, AgentUsesTools, AgentFails
  <2> QED BY <1>5, <2>1, <2>2
<1>13. CASE Abort \/ AbortRetry \/ AbortCallback \/ UNCHANGED vars
  <2>1. events' = events /\ pos' = pos /\ job' = job /\ Paid' = Paid
    BY <1>13 DEF Abort, AbortRetry, AbortCallback, vars, Paid
  <2>2. n' = n
    BY <2>1, CountSame DEF n
  <2> QED BY <1>0, <1>1, <2>1, <2>2
<1> QED BY <1>3, <1>4, <1>7, <1>8, <1>9, <1>10, <1>11, <1>12, <1>13
        DEF Next, Runner, Provider, User

\* A prompt runs the agent at most once for itself, once for each retry and
\* once after a compaction of its own, however retries and overflows
\* alternate (run_prompt_inner).
THEOREM RunsAreBounded == Spec => []RunsBounded
<1>1. Init => RunInv
  <2> SUFFICES ASSUME Init PROVE RunInv
    OBVIOUS
  <2>1. {i \in DOMAIN events : events[i] \in Agent} = {}
    BY DEF Init
  <2>2. Count(Agent) = 0
    BY <2>1, FS_EmptySet DEF Count
  <2> QED BY <2>2, PromptRunAssumption DEF Init, RunInv, InCompaction, PromptRunAssumption
<1>2. StateInv /\ JobInv /\ RunInv /\ [Next]_vars => StateInv' /\ JobInv' /\ RunInv'
  BY StateStep, JobStep, RunStep
<1>3. RunInv => RunsBounded
  BY DEF RunInv, RunsBounded, Agent
<1> QED BY <1>1, <1>2, <1>3, StateInit, FlowInit, PTL DEF Spec

-----------------------------------------------------------------------------
(* The answer of a turn, and the retry *)

LEMMA TurnStep == ASSUME ConvoInv, StateInv, JobInv, TurnInv, [Next]_vars PROVE TurnInv'
<1> USE KindsAreMessages
<1>0. /\ log \in Seq(EntryType) /\ active \in Seq(MessageUpTo(Len(log)))
      /\ Len(log) \in Nat /\ Len(active) \in Nat
  BY LenProperties DEF ConvoInv, Matching
<1>1. ASSUME NEW k \in Message, AppendMessages(<<k>>) PROVE Grown(log, active, k, log', active')
  BY <1>1, AppendOne, OneMessage DEF ConvoInv
<1>2. CASE AgentTakesPrompt
  <2>1. Grown(log, active, "user", log', active') /\ pos' = "agent"
    BY <1>1, <1>2 DEF AgentTakesPrompt
  <2>2. Len(active') = Len(active) + 1 /\ active'[Len(active) + 1].kind = "user"
    BY <2>1 DEF Grown
  <2>3. Len(active') > 0 /\ active'[Len(active')].kind \notin Assistant
    BY <1>0, <2>2
  <2> QED BY <2>1, <2>3 DEF TurnInv
<1>3. CASE AgentUsesTools
  <2>1. PICK l, a : Extended(log, active, "call", l, a) /\ Extended(l, a, "tool", log', active')
    BY <1>3, AppendTwo DEF AgentUsesTools
  <2>2. Matching(l, a, applied)
    BY <2>1, OneMessage DEF ConvoInv
  <2>3. Grown(l, a, "tool", log', active')
    BY <2>1, <2>2, OneMessage
  <2>4. Len(active') = Len(a) + 1 /\ active'[Len(a) + 1].kind = "tool" /\ Len(a) \in Nat
    BY <2>3 DEF Grown
  <2>5. Len(active') > 0 /\ active'[Len(active')].kind \notin Assistant
    BY <2>4
  <2>6. pos' = "agent"
    BY <1>3 DEF AgentUsesTools
  <2> QED BY <2>5, <2>6 DEF TurnInv
<1>4. CASE AgentAnswers
  <2>1. PICK k \in Final : (k = "aborted" => token = "aborted") /\ AppendMessages(<<k>>)
    BY <1>4 DEF AgentAnswers
  <2>2. Grown(log, active, k, log', active') /\ k \in Assistant
    BY <1>1, <2>1
  <2>3. /\ pos = "agent" /\ pos' = "decide" /\ cancelled' = cancelled
        /\ k = "aborted" => cancelled
    BY <1>4, <2>1 DEF AgentAnswers, abortion, JobInv
  <2>4. /\ LastOf(log', Assistant) = Len(log) + 1 /\ Len(log') = Len(log) + 1
        /\ log'[Len(log) + 1].kind = k
    BY <2>2 DEF Grown
  <2>5. /\ Len(active') = Len(active) + 1 /\ active'[Len(active) + 1].kind = k
        /\ \A i \in 1..Len(active) : active'[i] = active[i]
    BY <2>2 DEF Grown
  <2>6. Len(active) > 0 /\ active[Len(active)].kind \notin Assistant
    BY <2>3 DEF TurnInv
  <2>7. /\ Len(active') > 1 /\ active'[Len(active')].kind = k
        /\ active'[Len(active') - 1].kind \notin Assistant
    <3>1. Len(active') - 1 = Len(active) /\ Len(active) \in 1..Len(active) /\ Len(active') > 1
      BY <1>0, <2>5, <2>6
    <3> QED BY <2>5, <2>6, <3>1
  <2>8. Answer' = k /\ Len(log') > 0
    BY <1>0, <2>4 DEF Answer
  <2> QED BY <2>3, <2>4, <2>7, <2>8 DEF TurnInv
<1>5. CASE DecideRetry
  <2>1. /\ pos = "decide" /\ ~cancelled /\ Answer = "err" /\ pos' = "begin_retry"
        /\ active' = IF LastKind \in StopError THEN Front(active) ELSE active
    BY <1>5 DEF DecideRetry
  <2>2. /\ Len(active) > 1 /\ active[Len(active)].kind = "err"
        /\ active[Len(active) - 1].kind \notin Assistant
    BY <2>1 DEF TurnInv
  <2>3. active # <<>>
    BY <2>2
  <2>4. LastKind = "err"
    BY <2>2, <2>3 DEF LastKind, Last
  <2>5. active' = Front(active)
    BY <2>1, <2>4
  <2>6. Len(active') = Len(active) - 1 /\ \A i \in 1..Len(active) - 1 : active'[i] = active[i]
    BY <1>0, <2>3, <2>5, FrontLast
  <2>7. Len(active') > 0 /\ active'[Len(active')].kind \notin Assistant
    <3>1. Len(active) - 1 \in 1..Len(active) - 1 /\ Len(active) - 1 > 0
      BY <1>0, <2>2
    <3> QED BY <2>2, <2>6, <3>1
  <2> QED BY <2>1, <2>7 DEF TurnInv
<1>6. CASE AppendCompaction
  <2>1. pos' \notin {"agent", "begin_retry", "backoff", "decide"}
    BY <1>6 DEF AppendCompaction, ReturnPos
  <2> QED BY <2>1 DEF TurnInv
<1>7. CASE ContinueAgent
  <2>1. pos' \notin {"begin_retry", "backoff", "decide"} /\ active' = active
    BY <1>7 DEF ContinueAgent, convo
  <2>2. pos' = "agent" => active # <<>> /\ Last(active).kind \notin Assistant
    BY <1>7 DEF ContinueAgent, LastKind
  <2>3. active # <<>> => Len(active) > 0
    BY <1>0, EmptySeq
  <2> QED BY <2>1, <2>2, <2>3 DEF TurnInv, Last
<1>8. CASE AgentStopsAfterTools
  <2>1. cancelled' /\ pos' = "decide"
    BY <1>8 DEF AgentStopsAfterTools, abortion, JobInv
  <2> QED BY <2>1 DEF TurnInv
<1>9. CASE pos' \notin {"agent", "begin_retry", "backoff", "decide"}
  BY <1>9 DEF TurnInv
<1>10. ASSUME log' = log, active' = active, cancelled' = cancelled \/ cancelled',
              pos' = pos \/ (pos' = "backoff" /\ pos = "begin_retry")
       PROVE  TurnInv'
  <2>1. Answer' = Answer
    BY <1>10 DEF Answer
  <2> QED BY <1>10, <2>1 DEF TurnInv
<1>11. CASE Abort \/ AbortRetry \/ AbortCallback \/ BeginRetry \/ UNCHANGED vars
  BY <1>10, <1>11 DEF Abort, AbortRetry, AbortCallback, BeginRetry, vars, convo, abortion
<1>12. CASE StartPrompt \/ CompactNow \/ PreCompacts \/ DecideOverflow \/ DecideDone
  BY <1>9, <1>12 DEF StartPrompt, CompactNow, StartOperation, PreCompacts, DecideOverflow,
     DecideDone, Compact
<1>13. CASE CompactionBegins \/ CompactionThrows \/ RebuildThrows \/ PrepareFinds
            \/ SummaryArrives \/ AgentFails
  BY <1>9, <1>13 DEF CompactionBegins, CompactionThrows, RebuildThrows, ThrowCompaction,
     PrepareFinds, SummaryArrives, AgentFails
<1>14. CASE NothingToCompact \/ SummaryFails
  BY <1>9, <1>14 DEF NothingToCompact, SummaryFails, ReturnPos
<1>15. CASE PreThrows \/ PreSkips \/ StartAgent \/ DecideAborted \/ RetryElapses \/ RetryCancelled
            \/ Settles \/ Finishes \/ Fails
  BY <1>9, <1>15 DEF PreThrows, PreSkips, StartAgent, DecideAborted, RetryElapses, RetryCancelled,
     Settles, Finishes, Fails
<1> QED BY <1>2, <1>3, <1>4, <1>5, <1>6, <1>7, <1>8, <1>11, <1>12, <1>13, <1>14, <1>15
        DEF Next, Runner, Provider, User

LEMMA NewAnswer ==
    ASSUME ConvoInv, NEW k \in Final, AppendMessages(<<k>>)
    PROVE  Answer' = k
<1>1. Grown(log, active, k, log', active') /\ k \in Assistant
  BY AppendOne, OneMessage, KindsAreMessages DEF ConvoInv
<1>2. LastOf(log', Assistant) = Len(log) + 1 /\ log'[Len(log) + 1].kind = k
  BY <1>1 DEF Grown
<1> QED BY <1>2 DEF Answer

AnnouncedLast == Len(events) > 0 /\ events[Len(events)] = "agent_end_will_retry"

\* Until an abort, an announced retry is waiting for DecideRetry.
LEMMA AnnouncedNext ==
    ASSUME StateInv, AnnounceInv, [Next]_vars, AnnouncedLast, ~cancelled
    PROVE  \/ cancelled' \/ DecideRetry
           \/ UNCHANGED <<events, pos, log, attempt>>
<1>1. pos = "decide" /\ Answer = "err" /\ RetryEnabled /\ attempt < MaxAttempts
  BY DEF AnnounceInv, AnnouncedLast
<1>2. ~DecideAborted /\ ~DecideOverflow /\ ~DecideDone
  BY <1>1, KindsAreMessages DEF DecideAborted, DecideOverflow, DecideDone
<1>3. CASE Runner
  BY <1>1, <1>2, <1>3 DEF Runner, CompactionBegins, CompactionThrows, RebuildThrows,
     ThrowCompaction, NothingToCompact,
     PrepareFinds, AppendCompaction, PreCompacts, PreThrows, PreSkips, StartAgent, BeginRetry, RetryElapses,
     RetryCancelled, ContinueAgent, Settles, Finishes, Fails
<1>4. CASE Provider
  BY <1>1, <1>4 DEF Provider, AgentTakesPrompt, AgentUsesTools, AgentAnswers,
     AgentStopsAfterTools, AgentFails, SummaryFails, SummaryArrives
<1>5. CASE User \/ AbortCallback
  BY <1>1, <1>5 DEF User, StartPrompt, CompactNow, StartOperation, Abort, AbortRetry,
     AbortCallback, convo
<1>6. CASE UNCHANGED vars
  BY <1>6 DEF vars, convo
<1> QED BY <1>3, <1>4, <1>5, <1>6 DEF Next

LEMMA CancelledStays ==
    ASSUME [Next]_vars, ~StartPrompt, ~CompactNow
    PROVE  cancelled => cancelled'
<1>1. CASE Runner
  BY <1>1 DEF Runner, CompactionBegins, CompactionThrows, RebuildThrows, ThrowCompaction,
     NothingToCompact, PrepareFinds,
     AppendCompaction, PreCompacts, PreThrows, PreSkips, StartAgent, DecideAborted, DecideOverflow,
     DecideRetry, DecideDone, BeginRetry, RetryElapses, RetryCancelled, ContinueAgent,
     Settles, Finishes, Fails, Register, abortion
<1>2. CASE Provider
  BY <1>2 DEF Provider, AgentTakesPrompt, AgentUsesTools, AgentAnswers,
     AgentStopsAfterTools, AgentFails, SummaryFails, SummaryArrives, abortion
<1>3. CASE User \/ AbortCallback \/ UNCHANGED vars
  BY <1>3 DEF User, Abort, AbortRetry, AbortCallback, vars, abortion
<1> QED BY <1>1, <1>2, <1>3 DEF Next

LEMMA AnnounceStep == ASSUME ConvoInv, StateInv, AnnounceInv, [Next]_vars PROVE AnnounceInv'
<1>0. events \in Seq(Lifecycle) /\ Len(events) \in Nat /\ DOMAIN events = 1..Len(events)
  BY LenProperties DEF StateInv
<1>1. CASE StartPrompt \/ CompactNow
  <2>1. events' = <<>>
    BY <1>1, WhatIsEmitted
  <2>2. Len(events') = 0 /\ DOMAIN events' = {}
    BY <2>1
  <2> QED BY <2>2 DEF AnnounceInv, AnnouncedRetryHappens
<1>2. ASSUME ~StartPrompt, ~CompactNow, events' = events PROVE AnnounceInv'
  <2>1. cancelled => cancelled'
    BY <1>2, CancelledStays
  <2>2. AnnouncedRetryHappens'
    BY <1>2, <2>1 DEF AnnounceInv, AnnouncedRetryHappens
  <2>3. SUFFICES ASSUME AnnouncedLast', ~cancelled'
                 PROVE  (pos = "decide" /\ Answer = "err" /\ RetryEnabled
                           /\ attempt < MaxAttempts)'
    BY <2>2 DEF AnnounceInv, AnnouncedLast
  <2>4. AnnouncedLast /\ ~cancelled
    BY <1>2, <2>1, <2>3 DEF AnnouncedLast
  <2>5. ~DecideRetry
    <3>1. DecideRetry => Emits("retry_start")
      BY WhatIsEmitted
    <3>2. Emits("retry_start") => Len(events') # Len(events)
      <4>1. \A m \in Nat : m + 1 # m
        OBVIOUS
      <4> QED BY <1>0, <4>1 DEF Emits
    <3> QED BY <1>2, <3>1, <3>2
  <2>6. UNCHANGED <<events, pos, log, attempt>>
    BY <2>3, <2>4, <2>5, AnnouncedNext
  <2>7. Answer' = Answer
    BY <2>6 DEF Answer
  <2> QED BY <2>4, <2>6, <2>7 DEF AnnounceInv, AnnouncedLast
<1>3. ASSUME ~StartPrompt, ~CompactNow, NEW e, Emits(e),
             e = "agent_end_will_retry" =>
               (pos = "decide" /\ Answer = "err" /\ RetryEnabled /\ attempt < MaxAttempts)'
      PROVE  AnnounceInv'
  <2>1. cancelled => cancelled'
    BY <1>3, CancelledStays
  <2>2. /\ Len(events') = Len(events) + 1 /\ events'[Len(events) + 1] = e
        /\ \A i \in 1..Len(events) : events'[i] = events[i]
        /\ DOMAIN events' = 1..Len(events) + 1
    BY <1>3, LenProperties DEF Emits
  <2>3. AnnouncedLast => e = "retry_start" \/ cancelled'
    <3> SUFFICES ASSUME AnnouncedLast, ~cancelled' PROVE e = "retry_start"
      OBVIOUS
    <3>1. events' # events
      BY <1>0, <2>2
    <3>2. DecideRetry
      BY <2>1, <3>1, AnnouncedNext
    <3>3. Emits("retry_start")
      BY <3>2, WhatIsEmitted
    <3> QED BY <1>3, <3>3 DEF Emits
  <2>4. AnnouncedRetryHappens'
    <3> SUFFICES ASSUME NEW i \in 1..Len(events) + 1,
                        events'[i] = "agent_end_will_retry", i < Len(events) + 1
                 PROVE  events'[i + 1] = "retry_start" \/ cancelled'
      BY <2>2 DEF AnnouncedRetryHappens
    <3>1. i \in 1..Len(events) /\ events[i] = "agent_end_will_retry"
      BY <1>0, <2>2
    <3>2. CASE i = Len(events)
      <4>1. AnnouncedLast
        BY <1>0, <3>1, <3>2 DEF AnnouncedLast
      <4> QED BY <2>2, <2>3, <3>2, <4>1
    <3>3. CASE i # Len(events)
      <4>1. i < Len(events) /\ i + 1 \in 1..Len(events)
        <5>1. \A m \in Nat : \A q \in 1..m : q # m => q < m /\ q + 1 \in 1..m
          OBVIOUS
        <5> QED BY <1>0, <3>1, <3>3, <5>1
      <4>2. events[i + 1] = "retry_start" \/ cancelled
        BY <1>0, <3>1, <4>1 DEF AnnounceInv, AnnouncedRetryHappens
      <4> QED BY <2>1, <2>2, <4>1, <4>2
    <3> QED BY <3>2, <3>3
  <2>5. AnnouncedLast' => e = "agent_end_will_retry"
    BY <2>2 DEF AnnouncedLast
  <2> QED BY <1>3, <2>4, <2>5 DEF AnnounceInv, AnnouncedLast
<1>4. CASE AgentAnswers
  <2>1. PICK k \in Final : /\ AppendMessages(<<k>>)
                           /\ Emits(IF WillRetry(k) THEN "agent_end_will_retry" ELSE "agent_end")
    BY <1>4, WhatIsEmitted
  <2>2. pos = "agent" /\ pos' = "decide" /\ attempt' = attempt
    BY <1>4 DEF AgentAnswers
  <2>3. Answer' = k
    BY <2>1, NewAnswer
  <2>4. WillRetry(k) => k = "err" /\ RetryEnabled /\ attempt < MaxAttempts
    BY DEF WillRetry
  <2>5. ~StartPrompt /\ ~CompactNow
    BY <2>2 DEF StartPrompt, CompactNow, StartOperation
  <2> QED BY <1>3, <2>1, <2>2, <2>3, <2>4, <2>5
<1>5. CASE ~StartPrompt /\ ~CompactNow /\ ~AgentAnswers
  <2>1. \/ events' = events \/ Emits("compaction_end") \/ Emits("compaction_start")
        \/ Emits("retry_start") \/ Emits("retry_end") \/ Emits("agent_settled")
        \/ Emits("session_end") \/ Emits("agent_end")
    BY <1>5, WhatIsEmitted DEF Next, Runner, Provider, User
  <2> QED BY <1>2, <1>3, <1>5, <2>1
<1> QED BY <1>1, <1>4, <1>5

-----------------------------------------------------------------------------
(* The end of a retry is reported *)

LEMMA ReportedKept ==
    ASSUME StateInv, Reported, events' = events \/ \E e : Emits(e) /\ e # "retry_start"
    PROVE  Reported'
<1>1. CASE events' = events
  BY <1>1 DEF Reported
<1>2. ASSUME NEW e, Emits(e), e # "retry_start" PROVE Reported'
  <2>1. /\ Len(events) \in Nat /\ DOMAIN events = 1..Len(events)
        /\ DOMAIN events' = 1..Len(events) + 1 /\ events'[Len(events) + 1] = e
        /\ \A i \in 1..Len(events) : events'[i] = events[i]
    BY <1>2, LenProperties DEF Emits, StateInv
  <2>2. \A i \in 1..Len(events) + 1 : i = Len(events) + 1 \/ i \in 1..Len(events)
    BY <2>1
  <2>3. \A i \in 1..Len(events) : i \in 1..Len(events) + 1
    BY <2>1
  <2> SUFFICES ASSUME NEW i \in 1..Len(events) + 1, events'[i] = "retry_start"
               PROVE  \E j \in 1..Len(events) + 1 : i < j /\ events'[j] = "retry_end"
    BY <2>1 DEF Reported
  <2>4. i \in 1..Len(events) /\ events[i] = "retry_start"
    BY <1>2, <2>1, <2>2
  <2>5. PICK j \in 1..Len(events) : i < j /\ events[j] = "retry_end"
    BY <2>1, <2>4 DEF Reported
  <2> QED BY <2>1, <2>3, <2>5
<1> QED BY <1>1, <1>2

LEMMA ReportedNow == ASSUME StateInv, Emits("retry_end") PROVE Reported'
<1>1. /\ Len(events) \in Nat /\ DOMAIN events' = 1..Len(events) + 1
      /\ events'[Len(events) + 1] = "retry_end"
  BY LenProperties DEF Emits
<1>2. SUFFICES ASSUME NEW i \in 1..Len(events) + 1, events'[i] = "retry_start"
               PROVE  \E j \in 1..Len(events) + 1 : i < j /\ events'[j] = "retry_end"
  BY <1>1 DEF Reported
<1>3. i # Len(events) + 1
  BY <1>1, <1>2
<1>4. \A m \in Nat : \A q \in 1..m + 1 : q # m + 1 => q < m + 1 /\ m + 1 \in 1..m + 1
  OBVIOUS
<1> QED BY <1>1, <1>3, <1>4

\* Only DecideRetry opens a retry.
LEMMA ReportedStep ==
    ASSUME StateInv, [Next]_vars, ~DecideRetry
    PROVE  /\ Reported => Reported'
           /\ StartPrompt \/ CompactNow \/ RetryCancelled => Reported'
           /\ DecideDone /\ attempt > 0 => Reported'
<1>1. StartPrompt \/ CompactNow => Reported'
  <2>1. events' = <<>> => DOMAIN events' = {}
    OBVIOUS
  <2> QED BY <2>1, WhatIsEmitted DEF Reported
<1>2. RetryCancelled => Reported'
  BY WhatIsEmitted, ReportedNow
<1>3. DecideDone /\ attempt > 0 => Reported'
  BY WhatIsEmitted, ReportedNow
<1>4. CASE ~StartPrompt /\ ~CompactNow
  <2>1. \/ events' = events \/ Emits("compaction_end") \/ Emits("compaction_start")
        \/ Emits("retry_end") \/ Emits("agent_settled") \/ Emits("session_end")
        \/ Emits("agent_end") \/ Emits("agent_end_will_retry")
    BY <1>4, WhatIsEmitted DEF Next, Runner, Provider, User
  <2>2. events' = events \/ \E e : Emits(e) /\ e # "retry_start"
    BY <2>1
  <2> QED BY <1>2, <1>3, <1>4, <2>2, ReportedKept
<1> QED BY <1>1, <1>4, <1>2, <1>3

LEMMA OutgrownStays == ASSUME log' = log PROVE Outgrown => Outgrown'
BY DEF Outgrown, Answer

LEMMA OutgrownCompacted == ASSUME ConvoInv, AppendCompaction PROVE Outgrown => Outgrown'
<1>1. PICK cut \in Cuts : log' = Append(log, [kind |-> "compaction", kept |-> cut])
  BY DEF AppendCompaction, StoreCompaction
<1>2. /\ log' \in Seq(EntryType) /\ Len(log') = Len(log) + 1
      /\ LastOf(log', Assistant) = LastOf(log, Assistant)
      /\ \A i \in 1..Len(log) : log'[i] = log[i]
  BY <1>1, CompactionEntry
<1>3. Len(log) \in Nat /\ DOMAIN log = 1..Len(log) /\ DOMAIN log' = 1..Len(log) + 1
  BY <1>2, LenProperties DEF ConvoInv, Matching
<1>4. \A i \in 1..Len(log) : i \in 1..Len(log) + 1
  BY <1>3
<1>5. PICK a : a = LastOf(log, Assistant)
  OBVIOUS
<1>6. Outgrown => a \in 1..Len(log) /\ log[a].kind \in Overflow
  BY <1>3, <1>5 DEF Outgrown, Answer
<1>7. Outgrown => a \in DOMAIN log' /\ log'[a].kind \in Overflow
  BY <1>2, <1>3, <1>4, <1>6
<1> QED BY <1>2, <1>5, <1>7 DEF Outgrown, Answer

LEMMA ReportStep ==
    ASSUME ConvoInv, StateInv, JobInv, TurnInv, ReportInv, [Next]_vars
    PROVE  ReportInv'
<1> DEFINE Own == InCompaction /\ ~job.pre /\ job.reason = "overflow"
           Ending == pos = "settle" \/ (pos = "finish" /\ job.reason # "manual")
           Accounted == Reported \/ cancelled \/ Outgrown
<1> HIDE DEF Accounted
<1>0. attempt \in Nat
  BY DEF StateInv
<1>1. /\ attempt = 0 => Reported
      /\ Ending => Accounted
      /\ Own => Outgrown
  BY DEF ReportInv, Accounted
<1>2. SUFFICES /\ (attempt = 0 => Reported)'
               /\ (Ending => Accounted)'
               /\ (Own => Outgrown)'
  BY DEF ReportInv, Accounted
<1>3. (attempt = 0 => Reported)'
  <2>1. CASE DecideRetry
    BY <1>0, <2>1 DEF DecideRetry
  <2>2. CASE DecideDone
    <3>1. ~DecideRetry
      BY <2>2 DEF DecideRetry, DecideDone
    <3>2. attempt > 0 \/ attempt = 0
      BY <1>0
    <3> QED BY <1>1, <2>2, <3>1, <3>2, ReportedStep
  <2>3. CASE StartPrompt \/ CompactNow
    <3>1. ~DecideRetry
      BY <2>3 DEF DecideRetry, StartPrompt, CompactNow, StartOperation
    <3> QED BY <2>3, <3>1, ReportedStep
  <2>4. CASE ~DecideRetry /\ ~DecideDone /\ ~StartPrompt /\ ~CompactNow
    <3>1. attempt' = attempt
      <4>1. CASE Runner
        BY <2>4, <4>1 DEF Runner, CompactionBegins, CompactionThrows, RebuildThrows,
           ThrowCompaction, NothingToCompact,
           PrepareFinds, AppendCompaction, PreCompacts, PreThrows, PreSkips, StartAgent, DecideAborted,
           DecideOverflow, BeginRetry, RetryElapses, RetryCancelled, ContinueAgent, Settles,
           Finishes, Fails
      <4>2. CASE Provider
        BY <4>2 DEF Provider, AgentTakesPrompt, AgentUsesTools, AgentAnswers,
           AgentStopsAfterTools, AgentFails, SummaryFails, SummaryArrives
      <4>3. CASE User \/ AbortCallback \/ UNCHANGED vars
        BY <2>4, <4>3 DEF User, Abort, AbortRetry, AbortCallback, vars
      <4> QED BY <4>1, <4>2, <4>3 DEF Next
    <3> QED BY <1>1, <2>4, <3>1, ReportedStep
  <2> QED BY <2>1, <2>2, <2>3, <2>4
<1>4. pos = "decide" /\ ~cancelled /\ Answer \in Overflow => Outgrown
  <2>1. log \in Seq(EntryType) /\ Len(log) \in Nat /\ DOMAIN log = 1..Len(log)
    BY LenProperties DEF ConvoInv, Matching
  <2>2. pos = "decide" /\ ~cancelled => LastOf(log, Assistant) = Len(log) /\ Len(log) > 0
    BY DEF TurnInv
  <2> QED BY <2>1, <2>2 DEF Outgrown
<1> USE DEF InCompaction
<1>5. (Own => Outgrown)'
  <2>1. CASE DecideOverflow
    <3>1. pos = "decide" /\ ~cancelled /\ Answer \in Overflow /\ log' = log
      BY <2>1 DEF DecideOverflow, convo
    <3> QED BY <1>4, <3>1, OutgrownStays
  <2>2. CASE CompactionBegins \/ CompactionThrows \/ PrepareFinds \/ SummaryArrives
    <3>1. InCompaction /\ job' = job /\ log' = log
      BY <2>2 DEF CompactionBegins, CompactionThrows, ThrowCompaction, PrepareFinds,
         SummaryArrives, convo
    <3> QED BY <1>1, <3>1, OutgrownStays
  <2>3. CASE PreCompacts \/ DecideDone
    <3>1. (pos' = "compact" /\ (job'.pre \/ job'.reason # "overflow")) \/ pos' = "settle"
            \/ pos' = "threw"
      BY <2>3 DEF PreCompacts, DecideDone, Compact
    <3> QED BY <3>1
  <2>4. CASE StartPrompt \/ CompactNow
    BY <2>4 DEF StartPrompt, CompactNow, StartOperation
  <2>5. CASE Abort \/ AbortRetry \/ AbortCallback \/ UNCHANGED vars
    <3>1. pos' = pos /\ job' = job /\ log' = log
      BY <2>5 DEF Abort, AbortRetry, AbortCallback, vars, convo
    <3> QED BY <1>1, <3>1, OutgrownStays
  <2>6. CASE NothingToCompact \/ SummaryFails \/ AppendCompaction
    <3>1. pos' = ReturnPos(FALSE) \/ pos' = ReturnPos(TRUE)
      BY <2>6 DEF NothingToCompact, SummaryFails, AppendCompaction
    <3>2. pos' \notin {"compact", "prepare", "summarize", "append"}
      BY <3>1 DEF ReturnPos
    <3> QED BY <3>2
  <2>7. CASE \/ PreThrows \/ PreSkips \/ StartAgent \/ DecideAborted \/ DecideRetry \/ BeginRetry
             \/ RetryElapses \/ RetryCancelled \/ ContinueAgent \/ Settles \/ Finishes \/ Fails
             \/ RebuildThrows
    BY <2>7 DEF RebuildThrows, ThrowCompaction, PreThrows, PreSkips, StartAgent, DecideAborted,
       DecideRetry, BeginRetry, RetryElapses,
       RetryCancelled, ContinueAgent, Settles, Finishes, Fails
  <2>8. CASE AgentTakesPrompt \/ AgentUsesTools \/ AgentAnswers \/ AgentStopsAfterTools
             \/ AgentFails
    BY <2>8 DEF AgentTakesPrompt, AgentUsesTools, AgentAnswers, AgentStopsAfterTools, AgentFails
  <2> QED BY <2>1, <2>2, <2>3, <2>4, <2>5, <2>6, <2>7, <2>8 DEF Next, Runner, Provider, User
<1>6. (Ending => Accounted)'
  <2>1. CASE NothingToCompact \/ SummaryFails \/ AppendCompaction
    <3>1. /\ pos' = ReturnPos(FALSE) \/ pos' = ReturnPos(TRUE)
          /\ InCompaction /\ job' = job /\ ~DecideRetry
      BY <2>1 DEF NothingToCompact, SummaryFails, AppendCompaction, DecideRetry
    <3>2. Ending' => ~job.pre /\ job.reason # "manual"
      BY <3>1 DEF ReturnPos
    <3>3. Ending' => job.reason \in {"overflow", "threshold"}
      BY <3>1, <3>2 DEF JobInv, StateInv
    <3>4. CASE job.reason = "threshold"
      <4>1. Reported
        BY <1>1, <3>1, <3>4 DEF JobInv
      <4> QED BY <3>1, <4>1, ReportedStep DEF Accounted
    <3>5. CASE job.reason = "overflow" /\ ~job.pre
      <4>1. Outgrown
        BY <1>1, <3>1, <3>5
      <4>2. AppendCompaction \/ log' = log
        BY <2>1 DEF NothingToCompact, SummaryFails, convo
      <4> QED BY <4>1, <4>2, OutgrownStays, OutgrownCompacted DEF Accounted
    <3> QED BY <3>2, <3>3, <3>4, <3>5
  <2>2. CASE DecideAborted
    <3>1. pos = "decide" /\ (cancelled \/ Answer = "aborted") /\ cancelled' = cancelled
      BY <2>2 DEF DecideAborted, abortion
    <3>2. cancelled'
      BY <3>1 DEF TurnInv
    <3> QED BY <3>2 DEF Accounted
  <2>3. CASE DecideOverflow
    <3>1. pos = "decide" /\ ~cancelled /\ Answer \in Overflow /\ log' = log
      BY <2>3 DEF DecideOverflow, convo
    <3> QED BY <1>4, <3>1, OutgrownStays DEF Accounted
  <2>4. CASE DecideDone
    <3>1. attempt' = 0
      BY <2>4 DEF DecideDone
    <3> QED BY <1>3, <3>1 DEF Accounted
  <2>5. CASE RetryCancelled
    <3>1. ~DecideRetry
      BY <2>5 DEF RetryCancelled, DecideRetry
    <3> QED BY <2>5, <3>1, ReportedStep DEF Accounted
  <2>6. ASSUME Ending, ~DecideRetry, ~StartPrompt, ~CompactNow, log' = log PROVE Accounted'
    BY <1>1, <2>6, ReportedStep, CancelledStays, OutgrownStays DEF Accounted
  <2>7. CASE Settles
    <3>1. pos = "settle" /\ log' = log /\ ~DecideRetry /\ ~StartPrompt /\ ~CompactNow
      BY <2>7 DEF Settles, convo, DecideRetry, StartPrompt, CompactNow, StartOperation
    <3> QED BY <2>6, <3>1
  <2>8. CASE Abort \/ AbortRetry \/ AbortCallback \/ UNCHANGED vars
    <3>1. pos' = pos /\ job' = job /\ log' = log
      BY <2>8 DEF Abort, AbortRetry, AbortCallback, vars, convo
    <3>2. \/ ~DecideRetry /\ ~StartPrompt /\ ~CompactNow
          \/ pos' \notin {"settle", "finish"}
      BY <2>8 DEF DecideRetry, StartPrompt, CompactNow, StartOperation
    <3> QED BY <2>6, <3>1, <3>2
  <2>9. CASE pos' \notin {"settle", "finish"}
    BY <2>9
  <2>10. CASE \/ CompactionBegins \/ CompactionThrows \/ RebuildThrows \/ PrepareFinds
              \/ SummaryArrives
              \/ PreCompacts \/ PreThrows \/ PreSkips \/ StartAgent \/ StartPrompt \/ CompactNow
    BY <2>9, <2>10 DEF CompactionBegins, CompactionThrows, RebuildThrows, ThrowCompaction,
       PrepareFinds, SummaryArrives,
       PreCompacts, PreThrows, PreSkips, StartAgent, StartPrompt, CompactNow, StartOperation, Compact
  <2>11. CASE DecideRetry \/ BeginRetry \/ RetryElapses \/ ContinueAgent \/ Finishes \/ Fails
    BY <2>9, <2>11 DEF DecideRetry, BeginRetry, RetryElapses, ContinueAgent, Finishes, Fails
  <2>12. CASE AgentTakesPrompt \/ AgentUsesTools \/ AgentAnswers \/ AgentStopsAfterTools
              \/ AgentFails
    BY <2>9, <2>12 DEF AgentTakesPrompt, AgentUsesTools, AgentAnswers, AgentStopsAfterTools,
       AgentFails
  <2> QED BY <2>1, <2>2, <2>3, <2>4, <2>5, <2>7, <2>8, <2>10, <2>11, <2>12
          DEF Next, Runner, Provider, User
<1> QED BY <1>3, <1>5, <1>6

LEMMA RetryInit == Init => TurnInv /\ AnnounceInv /\ ReportInv
<1> SUFFICES ASSUME Init PROVE TurnInv /\ AnnounceInv /\ ReportInv
  OBVIOUS
<1>1. pos = "returned" /\ Len(events) = 0 /\ DOMAIN events = {}
  BY DEF Init
<1> QED BY <1>1 DEF TurnInv, AnnounceInv, AnnouncedRetryHappens, ReportInv, Reported, InCompaction

\* The announced retry of a failed answer takes place unless the user
\* cancels, it finds a context that does not end in an answer, and a prompt
\* that completes has reported the end of its retries.
THEOREM RetriesAlwaysGoThrough == Spec => []RetriesGoThrough
<1> DEFINE Inv == /\ ConvoInv /\ StateInv /\ JobInv
                  /\ TurnInv /\ AnnounceInv /\ ReportInv
<1>1. Init => Inv
  BY ConvoInit, StateInit, FlowInit, RetryInit
<1>2. Inv /\ [Next]_vars => Inv'
  BY ConvoStep, StateStep, JobStep, TurnStep, AnnounceStep, ReportStep
<1>3. Inv => RetriesGoThrough
  <2> SUFFICES ASSUME Inv PROVE RetriesGoThrough
    OBVIOUS
  <2>1. RetryCanContinue
    <3>1. active # <<>> => LastKind = active[Len(active)].kind
      BY DEF LastKind, Last
    <3>2. Len(active) > 0 => active # <<>>
      OBVIOUS
    <3> QED BY <3>1, <3>2 DEF TurnInv, RetryCanContinue
  <2>2. RetryReported
    BY DEF ReportInv, RetryReported, Reported, Outgrown, IsPrompt
  <2> QED BY <2>1, <2>2 DEF AnnounceInv, RetriesGoThrough
<1> QED BY <1>1, <1>2, <1>3, PTL DEF Spec

-----------------------------------------------------------------------------
(* The session's log: what a load finds *)

\* Everything that is selected is there.
LEMMA AscendingAll ==
    ASSUME NEW S, S \subseteq Nat, IsFiniteSet(S), NEW N \in Nat, \A p \in S : p <= N, NEW p \in S
    PROVE  Rank(S, p) \in 1..Cardinality(S) /\ Ascending(S)[Rank(S, p)] = p
<1>1. {q \in S : q <= p} \in SUBSET S /\ p \in {q \in S : q <= p}
  OBVIOUS
<1>2. /\ IsFiniteSet({q \in S : q <= p}) /\ Rank(S, p) \in Nat /\ Cardinality(S) \in Nat
      /\ Rank(S, p) <= Cardinality(S)
  BY <1>1, FS_Subset, FS_CardinalityType DEF Rank
<1>3. Rank(S, p) # 0
  BY <1>1, <1>2, FS_EmptySet DEF Rank
<1>4. Rank(S, p) \in 1..Cardinality(S)
  BY <1>2, <1>3
<1>5. Ascending(S)[Rank(S, p)] \in S /\ Rank(S, Ascending(S)[Rank(S, p)]) = Rank(S, p)
  BY <1>4, AscendingIn
<1> QED BY <1>4, <1>5, RankUnique

LEMMA SelectAll ==
    ASSUME NEW T, NEW s \in Seq(T), NEW S \in SUBSET DOMAIN s, NEW i \in S
    PROVE  \E k \in DOMAIN Select(s, S) : Select(s, S)[k] = s[i]
<1>1. DOMAIN s = 1..Len(s) /\ Len(s) \in Nat
  BY LenProperties
<1>2. S \subseteq Nat /\ IsFiniteSet(S) /\ \A p \in S : p <= Len(s)
  <2>1. S \in SUBSET 1..Len(s)
    BY <1>1
  <2>2. IsFiniteSet(S)
    <3>1. IsFiniteSet(1..Len(s))
      BY <1>1, FS_Interval
    <3> QED BY <2>1, <3>1, FS_Subset
  <2> QED BY <1>1, <2>1, <2>2
<1>3. Rank(S, i) \in 1..Cardinality(S) /\ Ascending(S)[Rank(S, i)] = i
  BY <1>1, <1>2, AscendingAll
<1>4. DOMAIN Ascending(S) = 1..Cardinality(S)
  BY DEF Ascending
<1>5. Select(s, S) = [k \in 1..Cardinality(S) |-> s[Ascending(S)[k]]]
  BY <1>4 DEF Select
<1> QED BY <1>3, <1>5

\* The lines a load takes for records.
Parsed(lines) == {l \in ToSet(lines) : l.kind \notin {"header", "garbage"}}

LEMMA RecordsAreParsed ==
    ASSUME NEW T, NEW lines \in Seq(T)
    PROVE  Records(lines) \in Seq(T) /\ ToSet(Records(lines)) = Parsed(lines)
<1> DEFINE S == {i \in DOMAIN lines : lines[i].kind \notin {"header", "garbage"}}
<1>1. S \in SUBSET DOMAIN lines
  OBVIOUS
<1>2. Records(lines) = Select(lines, S)
  BY DEF Records
<1>3. Parsed(lines) = {lines[i] : i \in S}
  BY DEF Parsed, ToSet
<1> HIDE DEF S
<1>4. ASSUME NEW x \in ToSet(Records(lines)) PROVE x \in {lines[i] : i \in S}
  <2>1. PICK k \in DOMAIN Select(lines, S) : x = Select(lines, S)[k]
    BY <1>2 DEF ToSet
  <2> QED BY <1>1, <2>1, SelectIn
<1>5. ASSUME NEW i \in S PROVE lines[i] \in ToSet(Records(lines))
  <2>1. PICK k \in DOMAIN Select(lines, S) : Select(lines, S)[k] = lines[i]
    BY <1>1, SelectAll
  <2> QED BY <1>2, <2>1 DEF ToSet
<1>6. Records(lines) \in Seq(T)
  BY <1>1, <1>2, SelectIn
<1> QED BY <1>3, <1>4, <1>5, <1>6

LEMMA SetOfConcat ==
    ASSUME NEW T, NEW a \in Seq(T), NEW b \in Seq(T)
    PROVE  a \o b \in Seq(T) /\ ToSet(a \o b) = ToSet(a) \cup ToSet(b)
<1>1. /\ a \o b \in Seq(T) /\ Len(a \o b) = Len(a) + Len(b)
      /\ \A i \in 1..Len(a) + Len(b) : (a \o b)[i] = IF i <= Len(a) THEN a[i] ELSE b[i - Len(a)]
  BY ConcatProperties
<1>2. Len(a) \in Nat /\ Len(b) \in Nat /\ DOMAIN a = 1..Len(a) /\ DOMAIN b = 1..Len(b)
      /\ DOMAIN (a \o b) = 1..Len(a) + Len(b)
  BY <1>1, LenProperties
<1>3. ToSet(a \o b) \subseteq ToSet(a) \cup ToSet(b)
  BY <1>1, <1>2 DEF ToSet
<1>4. ASSUME NEW i \in DOMAIN a PROVE a[i] \in ToSet(a \o b)
  BY <1>1, <1>2 DEF ToSet
<1>5. ASSUME NEW i \in DOMAIN b PROVE b[i] \in ToSet(a \o b)
  <2>1. Len(a) + i \in 1..Len(a) + Len(b) /\ (a \o b)[Len(a) + i] = b[i]
    BY <1>1, <1>2
  <2> QED BY <1>2, <2>1 DEF ToSet
<1>6. ToSet(a) \subseteq ToSet(a \o b) /\ ToSet(b) \subseteq ToSet(a \o b)
  BY <1>4, <1>5 DEF ToSet
<1> QED BY <1>1, <1>3, <1>6

LEMMA ParsedConcat ==
    ASSUME NEW T, NEW a \in Seq(T), NEW b \in Seq(T)
    PROVE  a \o b \in Seq(T) /\ Parsed(a \o b) = Parsed(a) \cup Parsed(b)
BY SetOfConcat DEF Parsed

-----------------------------------------------------------------------------
(* Walking up the tree *)

\* f[j] is the way up from j, where p gives the parents.
Walks(f, M, I, p) == f = [j \in 0..M |-> IF j \notin I THEN {} ELSE {j} \cup f[p[j]]]

\* There is a walk wherever parents come before their children.
LEMMA WalkExists ==
    ASSUME NEW M \in Nat, NEW I, NEW p, \A j \in (0..M) \cap I : p[j] \in 0..j - 1
    PROVE  \E f : Walks(f, M, I, p)
<1> DEFINE E(n) == \E f : f = [j \in 0..n |-> IF j \notin I THEN {} ELSE {j} \cup f[p[j]]]
           B == {n \in Nat : n <= M /\ ~E(n)}
<1>1. CASE B = {}
  <2>1. M <= M
    OBVIOUS
  <2>2. E(M)
    <3> HIDE DEF E
    <3> QED BY <1>1, <2>1
  <2> QED BY <2>2 DEF Walks
<1>2. CASE B # {}
  <2>1. PICK n \in B : \A m \in B : n <= m
    <3>1. B \subseteq Nat
      OBVIOUS
    <3> HIDE DEF B
    <3> QED BY <1>2, <3>1, Least
  <2>2. n \in Nat /\ n <= M /\ ~E(n)
    BY <2>1
  <2>3. CASE n = 0
    <3>1. 0..0 = {0} /\ 0 \in 0..M /\ 0..0 - 1 = {}
      OBVIOUS
    <3>2. 0 \notin I
      BY <3>1
    <3>3. [j \in 0..0 |-> {}] = [j \in 0..0 |-> IF j \notin I THEN {} ELSE {j} \cup [i \in 0..0 |-> {}][p[j]]]
      BY <3>1, <3>2
    <3>4. E(0)
      BY <3>3
    <3> QED BY <2>2, <2>3, <3>4
  <2>4. CASE n # 0
    <3>1. n - 1 \in Nat /\ n - 1 <= M /\ ~(n <= n - 1)
      BY <2>2, <2>4
    <3>2. E(n - 1)
      BY <2>1, <3>1
    <3>3. PICK f : f = [j \in 0..n - 1 |-> IF j \notin I THEN {} ELSE {j} \cup f[p[j]]]
      BY <3>2
    <3>4. PICK g : g = [j \in 0..n |-> IF j \in 0..n - 1 THEN f[j]
                                       ELSE IF j \notin I THEN {} ELSE {j} \cup f[p[j]]]
      OBVIOUS
    <3>5. ASSUME NEW j \in 0..n PROVE g[j] = IF j \notin I THEN {} ELSE {j} \cup g[p[j]]
      <4>1. CASE j \notin I
        <5>1. CASE j \in 0..n - 1
          <6>1. f[j] = {}
            BY <3>3, <4>1, <5>1, Zenon
          <6>2. g[j] = f[j]
            BY <3>4, <5>1, Zenon
          <6> QED BY <4>1, <6>1, <6>2
        <5>2. CASE j \notin 0..n - 1
          BY <3>4, <4>1, <5>2, Zenon
        <5> QED BY <5>1, <5>2
      <4>2. CASE j \in I
        <5>1. p[j] \in 0..j - 1
          BY <2>2, <4>2
        <5>2. p[j] \in 0..n - 1 /\ p[j] \in 0..n
          BY <2>2, <5>1
        <5>3. g[p[j]] = f[p[j]]
          BY <3>4, <5>2, Zenon
        <5>4. g[j] = {j} \cup f[p[j]]
          <6>1. CASE j \in 0..n - 1
            <7>1. f[j] = {j} \cup f[p[j]]
              BY <3>3, <4>2, <6>1, Zenon
            <7>2. g[j] = f[j]
              BY <3>4, <6>1, Zenon
            <7> QED BY <7>1, <7>2
          <6>2. CASE j \notin 0..n - 1
            BY <3>4, <4>2, <6>2, Zenon
          <6> QED BY <6>1, <6>2
        <5> QED BY <4>2, <5>3, <5>4
      <4> QED BY <4>1, <4>2
    <3>6. g = [j \in 0..n |-> IF j \notin I THEN {} ELSE {j} \cup g[p[j]]]
      <4>1. g = [j \in 0..n |-> g[j]]
        BY <3>4, Zenon
      <4>2. [j \in 0..n |-> g[j]] = [j \in 0..n |-> IF j \notin I THEN {} ELSE {j} \cup g[p[j]]]
        BY <3>5, Zenon
      <4> QED BY <4>1, <4>2, Zenon
    <3>7. E(n)
      BY <3>6
    <3> QED BY <2>2, <3>7
  <2> QED BY <2>3, <2>4
<1> QED BY <1>1, <1>2

\* Parents are older than their children.
Grows(es) == \A j \in Ids(es) : j \in 1..MaxEntries /\ ById(es, j).parent \in 0..j - 1

LEMMA PathUnfolds ==
    ASSUME NEW es, Grows(es), NEW i \in 0..MaxEntries
    PROVE  path_to(es, i) = IF i \notin Ids(es) THEN {} ELSE {i} \cup path_to(es, ById(es, i).parent)
<1> DEFINE p == [j \in 0..MaxEntries |-> ById(es, j).parent]
           U(f) == f = [j \in 0..MaxEntries |->
                          IF j \notin Ids(es) THEN {} ELSE {j} \cup f[ById(es, j).parent]]
           up == CHOOSE f : U(f)
<1>1. \A x : path_to(es, x) = up[x]
  BY DEF path_to
<1>2. \E f : U(f)
  <2>1. MaxEntries \in Nat
    BY SessionLogAssumption DEF SessionLogAssumption
  <2>2. \A j \in (0..MaxEntries) \cap Ids(es) : p[j] \in 0..j - 1
    BY DEF Grows
  <2>3. PICK f : Walks(f, MaxEntries, Ids(es), p)
    <3> HIDE DEF p
    <3> QED BY <2>1, <2>2, WalkExists
  <2>4. \A j \in 0..MaxEntries : p[j] = ById(es, j).parent
    OBVIOUS
  <2>5. U(f)
    BY <2>3, <2>4 DEF Walks
  <2> QED BY <2>5
<1>3. U(up)
  BY <1>2
<1>4. up[i] = IF i \notin Ids(es) THEN {} ELSE {i} \cup up[ById(es, i).parent]
  <2> HIDE DEF up
  <2> QED BY <1>3, Zenon
<1> HIDE DEF up
<1> QED BY <1>1, <1>4

\* The same entries with the same parents have the same paths.
LEMMA PathsAgree ==
    ASSUME NEW es, NEW fs, Grows(es), Grows(fs),
           \A j \in Ids(es) : /\ j \in Ids(fs) /\ ById(fs, j) = ById(es, j)
                              /\ ById(es, j).parent \in Ids(fs) => ById(es, j).parent \in Ids(es),
           NEW i \in Ids(es)
    PROVE  path_to(fs, i) = path_to(es, i)
<1> DEFINE B == {j \in Ids(es) : path_to(fs, j) # path_to(es, j)}
<1>1. MaxEntries \in Nat
  BY SessionLogAssumption DEF SessionLogAssumption
<1>2. CASE B = {}
  BY <1>2
<1>3. CASE B # {}
  <2>1. B \subseteq Nat
    BY <1>1 DEF Grows
  <2>2. PICK j \in B : \A k \in B : j <= k
    <3> HIDE DEF B
    <3> QED BY <1>3, <2>1, Least
  <2> DEFINE q == ById(es, j).parent
  <2>3. /\ j \in Ids(es) /\ j \in Ids(fs) /\ ById(fs, j) = ById(es, j)
        /\ j \in 1..MaxEntries /\ q \in 0..j - 1 /\ (q \in Ids(fs) => q \in Ids(es))
    BY <2>2 DEF Grows
  <2>4. j \in 0..MaxEntries /\ q \in 0..MaxEntries /\ ~(j <= q)
    BY <1>1, <2>3
  <2>5. path_to(es, j) = {j} \cup path_to(es, q) /\ path_to(fs, j) = {j} \cup path_to(fs, q)
    BY <2>3, <2>4, PathUnfolds
  <2>6. CASE q \in Ids(es)
    <3>1. q \notin B
      BY <2>2, <2>4
    <3> QED BY <2>2, <2>5, <2>6, <3>1
  <2>7. CASE q \notin Ids(es)
    <3>1. path_to(es, q) = {} /\ path_to(fs, q) = {}
      BY <2>3, <2>4, <2>7, PathUnfolds
    <3> QED BY <2>2, <2>5, <3>1
  <2> QED BY <2>6, <2>7
<1> QED BY <1>2, <1>3

-----------------------------------------------------------------------------
(* The invariant *)

LineKinds == PlainKinds \cup LabelKinds \cup {"compaction", "summary", "header", "garbage"}
LogLine == [id : Nat, kind : LineKinds, parent : Nat, ref : Nat]
NoRecord == {"header", "garbage"}
IdSet(S) == {e.id : e \in S}

\* Records below n: an id is one record's, and its parent is older.
Sound(S, n) ==
    /\ \A e \in S : e.id \in 1..n - 1 /\ e.parent \in 0..e.id - 1 /\ e.kind \notin NoRecord
    /\ \A d, e \in S : d.id = e.id => d = e

\* Each record comes behind its parent.
Chained(es) ==
    \A k \in DOMAIN es : es[k].parent = 0 \/ \E j \in 1..k - 1 : es[j].id = es[k].parent

\* The parents of S are in S.
Closed(S) == \A e \in S : e.parent \in IdSet(S) \cup {0}

\* The file F has the entries E, and no parent of theirs that they have not.
Holds(F, E) == E \subseteq F /\ \A e \in E : e.parent \in IdSet(F) => e.parent \in IdSet(E)

LogTypes ==
    /\ entries \in Seq(LogLine) /\ pending_lines \in Seq(LogLine) /\ file \in Seq(LogLine)
    /\ session_flushed \in BOOLEAN /\ needs_separator \in BOOLEAN
    /\ exists \in BOOLEAN /\ terminated \in BOOLEAN /\ alive \in BOOLEAN
    /\ next \in 1..MaxEntries + 1

LogInv ==
    /\ LogTypes
    /\ Sound(ToSet(entries) \cup ToSet(pending_lines) \cup Parsed(file), next)
    /\ leaf \in IdSet(ToSet(entries)) \cup {0}
    /\ ~exists => file = <<>>
    /\ file = <<>> => terminated
    /\ ~session_flushed => pending_lines = entries /\ Chained(entries)
    /\ alive /\ session_flushed /\ torn # "now" => terminated \/ needs_separator
    /\ session_flushed /\ torn # "now" => Holds(Parsed(file), ToSet(entries))
    /\ torn = "no" => Closed(Parsed(file))

\* As Chained, for lines: records whose parents are in S need no such record.
Behind(S, s) ==
    \A k \in DOMAIN s :
        \/ s[k].kind \in NoRecord \/ s[k].parent \in S
        \/ \E j \in 1..k - 1 : s[j].kind \notin NoRecord /\ s[j].id = s[k].parent

\* Every first part of the file, and of the entries, has the parents of its
\* records: what a copy that is cut off leaves behind.
OrderInv == torn = "no" => Behind({0}, file) /\ Chained(entries)

LEMMA IdsAreIdSet == ASSUME NEW es PROVE Ids(es) = IdSet(ToSet(es))
BY DEF Ids, IdSet, ToSet

LEMMA SoundById ==
    ASSUME NEW es, NEW n, Sound(ToSet(es), n)
    PROVE  /\ \A e \in ToSet(es) : ById(es, e.id) = e
           /\ \A i \in Ids(es) : ById(es, i) \in ToSet(es) /\ ById(es, i).id = i
<1>1. ASSUME NEW i \in Ids(es) PROVE ById(es, i) \in ToSet(es) /\ ById(es, i).id = i
  <2>1. \E e \in ToSet(es) : e.id = i
    BY DEF Ids, ToSet
  <2> QED BY <2>1 DEF ById
<1>2. ASSUME NEW e \in ToSet(es) PROVE ById(es, e.id) = e
  <2>1. e.id \in Ids(es)
    BY IdsAreIdSet DEF IdSet
  <2>2. ById(es, e.id) \in ToSet(es) /\ ById(es, e.id).id = e.id
    BY <1>1, <2>1
  <2> QED BY <2>2 DEF Sound
<1> QED BY <1>1, <1>2

LEMMA SoundSubset ==
    ASSUME NEW S, NEW n \in Nat, NEW m \in Nat, n <= m, NEW V, V \subseteq S, Sound(S, n)
    PROVE  Sound(V, m)
<1>1. ASSUME NEW e \in V
      PROVE  e.id \in 1..m - 1 /\ e.parent \in 0..e.id - 1 /\ e.kind \notin NoRecord
  <2>1. e.id \in 1..n - 1 /\ e.parent \in 0..e.id - 1 /\ e.kind \notin NoRecord
    BY DEF Sound
  <2> QED BY <2>1
<1>2. \A d, e \in V : d.id = e.id => d = e
  BY DEF Sound
<1> QED BY <1>1, <1>2 DEF Sound

\* A record with the next id.
LEMMA SoundAdd ==
    ASSUME NEW S, NEW n \in Nat, Sound(S, n), n >= 1,
           NEW l, l.id = n, l.parent \in 0..n - 1, l.kind \notin NoRecord
    PROVE  Sound(S \cup {l}, n + 1)
<1>1. ASSUME NEW e \in S \cup {l}
      PROVE  e.id \in 1..n /\ e.parent \in 0..e.id - 1 /\ e.kind \notin NoRecord
  <2>1. CASE e \in S
    <3>1. e.id \in 1..n - 1 /\ e.parent \in 0..e.id - 1 /\ e.kind \notin NoRecord
      BY <2>1 DEF Sound
    <3> QED BY <3>1
  <2>2. CASE e = l
    BY <2>2
  <2> QED BY <2>1, <2>2
<1>2. \A e \in S : e.id # n
  <2>1. \A e \in S : e.id \in 1..n - 1
    BY DEF Sound
  <2> QED BY <2>1
<1>3. \A d, e \in S \cup {l} : d.id = e.id => d = e
  BY <1>2 DEF Sound
<1>4. n + 1 - 1 = n
  OBVIOUS
<1> QED BY <1>1, <1>3, <1>4 DEF Sound

LEMMA SoundGrows ==
    ASSUME NEW es, NEW n \in 1..MaxEntries + 1, Sound(ToSet(es), n)
    PROVE  Grows(es)
<1>1. MaxEntries \in Nat
  BY SessionLogAssumption DEF SessionLogAssumption
<1>2. ASSUME NEW j \in Ids(es) PROVE j \in 1..MaxEntries /\ ById(es, j).parent \in 0..j - 1
  <2>1. ById(es, j) \in ToSet(es) /\ ById(es, j).id = j
    BY SoundById
  <2>2. j \in 1..n - 1 /\ ById(es, j).parent \in 0..j - 1
    BY <2>1 DEF Sound
  <2> QED BY <1>1, <2>2
<1> QED BY <1>2 DEF Grows

\* What the invariant is for.
LEMMA InvSurvives == LogInv => LogSurvives
<1> SUFFICES ASSUME LogInv PROVE LogSurvives
  OBVIOUS
<1> DEFINE E == ToSet(entries)
           F == Parsed(file)
<1>1. file \in Seq(LogLine) /\ next \in 1..MaxEntries + 1
  BY DEF LogInv, LogTypes
<1>2. ToSet(Records(file)) = F
  BY <1>1, RecordsAreParsed
<1>3. MaxEntries \in Nat /\ next \in Nat /\ next <= next
  BY <1>1, SessionLogAssumption DEF SessionLogAssumption
<1>4. Sound(E, next) /\ Sound(F, next) /\ Sound(E \cup ToSet(pending_lines) \cup F, next)
  BY <1>3, SoundSubset DEF LogInv
<1>5. NoOrphans
  <2>1. Ids(Records(file)) = IdSet(F)
    BY <1>2, IdsAreIdSet
  <2> QED BY <1>2, <2>1 DEF NoOrphans, LogInv, Closed
<1>6. ASSUME session_flushed, torn # "now", NEW i \in Ids(entries)
      PROVE  path_to(Records(file), i) = path_to(entries, i)
  <2>1. Grows(entries) /\ Grows(Records(file))
    BY <1>1, <1>2, <1>4, SoundGrows
  <2>2. Holds(F, E)
    BY <1>6 DEF LogInv
  <2>3. Ids(entries) = IdSet(E) /\ Ids(Records(file)) = IdSet(F)
    BY <1>2, IdsAreIdSet
  <2>4. ASSUME NEW j \in Ids(entries)
        PROVE  /\ j \in Ids(Records(file)) /\ ById(Records(file), j) = ById(entries, j)
               /\ ById(entries, j).parent \in Ids(Records(file)) =>
                    ById(entries, j).parent \in Ids(entries)
    <3>1. PICK e \in E : e = ById(entries, j) /\ e.id = j
      BY <1>4, SoundById
    <3>2. e \in F
      BY <2>2 DEF Holds
    <3>3. ById(Records(file), e.id) = e
      BY <1>2, <1>4, <3>2, SoundById
    <3>4. e.parent \in IdSet(F) => e.parent \in IdSet(E)
      BY <2>2 DEF Holds
    <3>5. j \in IdSet(F)
      BY <3>1, <3>2 DEF IdSet
    <3> QED BY <2>3, <3>1, <3>3, <3>4, <3>5
  <2> QED BY <2>1, <2>4, PathsAgree
<1> QED BY <1>5, <1>6 DEF LogSurvives, PathsSurvive

-----------------------------------------------------------------------------
(* Writing *)

\* The file after a write of lines that parse to the records P.
Wrote(P) ==
    /\ file' \in Seq(LogLine) /\ exists' = TRUE /\ terminated' \in BOOLEAN
    /\ needs_separator' = FALSE
    /\ Parsed(file') \subseteq Parsed(file) \cup P
    /\ terminated \/ needs_separator => Parsed(file') = Parsed(file) \cup P
    /\ file' = <<>> => terminated'

LEMMA ParsedLines ==
    /\ HEADER \in LogLine /\ GARBAGE \in LogLine
    /\ Parsed(<<>>) = {} /\ Parsed(<<HEADER>>) = {} /\ Parsed(<<GARBAGE>>) = {}
    /\ \A l \in LogLine : l.kind \notin NoRecord => Parsed(<<l>>) = {l}
<1>0. HEADER.kind = "header" /\ GARBAGE.kind = "garbage"
  BY DEF HEADER, GARBAGE
<1>1. HEADER \in LogLine /\ GARBAGE \in LogLine
  BY DEF HEADER, GARBAGE, LogLine, LineKinds
<1>2. ToSet(<<>>) = {} /\ \A x : ToSet(<<x>>) = {x}
  BY DEF ToSet
<1>3. Parsed(<<>>) = {} /\ \A x : Parsed(<<x>>) = {y \in {x} : y.kind \notin NoRecord}
  BY <1>2 DEF Parsed, NoRecord
<1>4. \A x : x.kind \in NoRecord => Parsed(<<x>>) = {}
  BY <1>3
<1>5. \A x : x.kind \notin NoRecord => Parsed(<<x>>) = {x}
  BY <1>3
<1>6. HEADER.kind \in NoRecord /\ GARBAGE.kind \in NoRecord
  BY <1>0 DEF NoRecord
<1> QED BY <1>1, <1>3, <1>4, <1>5, <1>6

LEMMA FrontTail ==
    ASSUME NEW s \in Seq(LogLine), s # <<>>
    PROVE  /\ Front(s) \in Seq(LogLine) /\ ToSet(Front(s)) \subseteq ToSet(s)
           /\ Tail(s) \in Seq(LogLine) /\ ToSet(Tail(s)) \subseteq ToSet(s)
<1>1. Len(s) \in Nat /\ Len(s) >= 1 /\ DOMAIN s = 1..Len(s)
  BY EmptySeq, LenProperties
<1>2. /\ Tail(s) \in Seq(LogLine) /\ Len(Tail(s)) = Len(s) - 1
      /\ \A i \in 1..Len(s) - 1 : Tail(s)[i] = s[i + 1]
  BY <1>1, HeadTailProperties
<1>3. ToSet(Tail(s)) \subseteq ToSet(s)
  <2>1. DOMAIN Tail(s) = 1..Len(s) - 1
    BY <1>2, LenProperties
  <2>2. \A i \in 1..Len(s) - 1 : i + 1 \in 1..Len(s)
    BY <1>1
  <2> QED BY <1>1, <1>2, <2>1, <2>2 DEF ToSet
<1>4. PICK f : f = SubSeq(s, 1, Len(s) - 1)
  OBVIOUS
<1>5. f \in Seq(LogLine) /\ Len(f) = Len(s) - 1 /\ \A i \in 1..Len(s) - 1 : f[i] = s[i]
  BY <1>1, <1>4
<1>6. ToSet(f) \subseteq ToSet(s)
  <2>1. DOMAIN f = 1..Len(s) - 1
    BY <1>5, LenProperties
  <2>2. \A i \in 1..Len(s) - 1 : i \in 1..Len(s)
    BY <1>1
  <2> QED BY <1>1, <1>5, <2>1, <2>2 DEF ToSet
<1>7. Front(s) = f
  BY <1>4 DEF Front
<1> QED BY <1>2, <1>3, <1>5, <1>6, <1>7

LEMMA ConcatEmpty ==
    ASSUME NEW T, NEW a \in Seq(T), NEW b \in Seq(T), a \o b = <<>>
    PROVE  a = <<>> /\ b = <<>>
<1>1. Len(a \o b) = Len(a) + Len(b) /\ Len(a) \in Nat /\ Len(b) \in Nat
  BY ConcatProperties, LenProperties
<1>2. Len(a) = 0 /\ Len(b) = 0
  BY <1>1
<1> QED BY <1>2, EmptySeq

\* write_all: what was there stays, unless a torn line is continued.
LEMMA WriteWrote ==
    ASSUME NEW lines \in Seq(LogLine), NEW rest \in Seq(LogLine), Write(lines, rest),
           file \in Seq(LogLine), file = <<>> => terminated,
           terminated \in BOOLEAN, needs_separator \in BOOLEAN
    PROVE  /\ Wrote(Parsed(lines \o rest))
           /\ rest = <<>> /\ lines # <<>> => terminated'
<1>1. PICK all : all = lines \o rest
  OBVIOUS
<1>2. all \in Seq(LogLine)
  BY <1>1
<1>3. /\ exists' = TRUE /\ needs_separator' = FALSE
      /\ file' = IF (terminated \/ needs_separator) \/ all = <<>> THEN file \o all
                 ELSE Front(file) \o <<GARBAGE>> \o Tail(all)
      /\ terminated' = (rest = <<>> /\ ((terminated \/ needs_separator) \/ all # <<>>))
  BY <1>1 DEF Write
<1>6. rest = <<>> /\ lines # <<>> => terminated'
  <2>1. all = <<>> => lines = <<>>
    BY <1>1, ConcatEmpty
  <2> QED BY <1>3, <2>1, Zenon
<1>4. CASE (terminated \/ needs_separator) \/ all = <<>>
  <2>1. file' = file \o all
    BY <1>3, <1>4
  <2>2. file' \in Seq(LogLine) /\ Parsed(file') = Parsed(file) \cup Parsed(all)
    BY <1>2, <2>1, ParsedConcat
  <2>3. file' = <<>> => terminated'
    <3> SUFFICES ASSUME file' = <<>> PROVE terminated'
      OBVIOUS
    <3>1. file = <<>> /\ all = <<>>
      BY <1>2, <2>1, ConcatEmpty
    <3>2. rest = <<>>
      BY <1>1, <3>1, ConcatEmpty
    <3> QED BY <1>3, <3>1, <3>2, Zenon
  <2> QED BY <1>1, <1>3, <1>6, <2>2, <2>3 DEF Wrote
<1>5. CASE ~(terminated \/ needs_separator) /\ all # <<>>
  <2>1. file' = Front(file) \o <<GARBAGE>> \o Tail(all)
    BY <1>3, <1>5
  <2>2. /\ Front(file) \in Seq(LogLine) /\ Parsed(Front(file)) \subseteq Parsed(file)
        /\ Tail(all) \in Seq(LogLine) /\ Parsed(Tail(all)) \subseteq Parsed(all)
    BY <1>2, <1>5, FrontTail DEF Parsed
  <2>3. <<GARBAGE>> \in Seq(LogLine) /\ Parsed(<<GARBAGE>>) = {}
    BY ParsedLines
  <2>4. PICK a \in Seq(LogLine), g \in Seq(LogLine), c \in Seq(LogLine) :
          a = Front(file) /\ g = <<GARBAGE>> /\ c = Tail(all)
    BY <2>2, <2>3
  <2>5. a \o g \in Seq(LogLine) /\ Parsed(a \o g) = Parsed(a) \cup Parsed(g)
    BY ParsedConcat
  <2>6. PICK d \in Seq(LogLine) : d = a \o g
    BY <2>5
  <2>7. d \o c \in Seq(LogLine) /\ Parsed(d \o c) = Parsed(d) \cup Parsed(c)
    BY ParsedConcat
  <2>8. file' \in Seq(LogLine) /\ Parsed(file') \subseteq Parsed(file) \cup Parsed(all)
    BY <2>1, <2>2, <2>3, <2>4, <2>5, <2>6, <2>7
  <2>9. file' # <<>>
    <3>1. file' = d \o c /\ g # <<>>
      BY <2>1, <2>4, <2>6
    <3>2. d = <<>> => g = <<>>
      BY <2>6, ConcatEmpty
    <3>3. d \o c = <<>> => d = <<>>
      BY ConcatEmpty
    <3> QED BY <3>1, <3>2, <3>3
  <2> QED BY <1>1, <1>3, <1>5, <1>6, <2>8, <2>9 DEF Wrote
<1> QED BY <1>4, <1>5, <1>6

\* The first k records of a sequence.
FirstOf(r, k) == {r[j] : j \in 1..k}

\* A part of a batch that creates the file is the header and the first records.
LEMMA PrefixOfBatch ==
    ASSUME NEW r \in Seq(LogLine), \A e \in ToSet(r) : e.kind \notin NoRecord,
           NEW b \in Seq(LogLine), b = <<HEADER>> \o r
    PROVE  /\ Parsed(b) = ToSet(r)
           /\ \A m \in 0..Len(b) :
                \E k \in 0..Len(r) : Parsed(SubSeq(b, 1, m)) = FirstOf(r, k)
<1>1. <<HEADER>> \in Seq(LogLine) /\ Parsed(<<HEADER>>) = {} /\ Len(r) \in Nat /\ DOMAIN r = 1..Len(r)
      /\ Len(<<HEADER>>) = 1 /\ <<HEADER>>[1] = HEADER /\ HEADER.kind \in NoRecord
  BY ParsedLines, LenProperties DEF HEADER, NoRecord
<1>2. /\ b \in Seq(LogLine) /\ Len(b) = Len(r) + 1
      /\ \A i \in 1..Len(r) + 1 : b[i] = IF i <= 1 THEN <<HEADER>>[i] ELSE r[i - 1]
  <2>1. /\ <<HEADER>> \o r \in Seq(LogLine) /\ Len(<<HEADER>> \o r) = 1 + Len(r)
        /\ \A i \in 1..1 + Len(r) :
             (<<HEADER>> \o r)[i] = IF i <= 1 THEN <<HEADER>>[i] ELSE r[i - 1]
    <3>1. PICK h \in Seq(LogLine) : h = <<HEADER>> /\ Len(h) = 1
      BY <1>1
    <3>2. /\ h \o r \in Seq(LogLine) /\ Len(h \o r) = Len(h) + Len(r)
          /\ \A i \in 1..Len(h) + Len(r) :
               (h \o r)[i] = IF i <= Len(h) THEN h[i] ELSE r[i - Len(h)]
      BY ConcatProperties
    <3> QED BY <3>1, <3>2
  <2>2. 1 + Len(r) = Len(r) + 1
    BY <1>1
  <2> QED BY <2>1, <2>2
<1>3. Parsed(b) = ToSet(r)
  <2>1. Parsed(b) = Parsed(<<HEADER>>) \cup Parsed(r)
    <3>1. PICK h \in Seq(LogLine) : h = <<HEADER>>
      BY <1>1
    <3>2. Parsed(h \o r) = Parsed(h) \cup Parsed(r)
      BY ParsedConcat
    <3> QED BY <3>1, <3>2
  <2>2. Parsed(r) = ToSet(r)
    BY DEF Parsed, NoRecord
  <2> QED BY <1>1, <2>1, <2>2
<1>4. ASSUME NEW m \in 0..Len(b)
      PROVE  \E k \in 0..Len(r) : Parsed(SubSeq(b, 1, m)) = FirstOf(r, k)
  <2>4. PICK s : s = SubSeq(b, 1, m)
    OBVIOUS
  <2>5. Len(s) = m /\ DOMAIN s = 1..m /\ \A i \in 1..m : s[i] = b[i]
    BY <1>1, <1>2, <2>4
  <2>6. ToSet(s) = {b[i] : i \in 1..m}
    BY <2>5 DEF ToSet
  <2>7. CASE m = 0
    <3>1. 1..m = {} /\ 1..0 = {}
      BY <2>7
    <3>2. ToSet(s) = {} /\ FirstOf(r, 0) = {}
      BY <2>6, <3>1 DEF FirstOf
    <3>3. 0 \in 0..Len(r) /\ Parsed(s) = FirstOf(r, 0)
      BY <1>1, <3>2 DEF Parsed
    <3> QED BY <1>2, <1>3, <2>4, <3>3
  <2>8. CASE m # 0
    <3>1. m \in 1..Len(r) + 1 /\ m - 1 \in 0..Len(r)
      BY <1>1, <1>2, <2>8
    <3>2. ASSUME NEW x \in Parsed(s) PROVE x \in FirstOf(r, m - 1)
      <4>1. PICK i \in 1..m : x = b[i] /\ x.kind \notin NoRecord
        BY <2>6, <3>2 DEF Parsed, NoRecord
      <4>2. i # 1
        BY <1>1, <1>2, <3>1, <4>1
      <4>3. i - 1 \in 1..m - 1 /\ b[i] = r[i - 1]
        BY <1>1, <1>2, <3>1, <4>2
      <4> QED BY <4>1, <4>3 DEF FirstOf
    <3>3. ASSUME NEW j \in 1..m - 1 PROVE r[j] \in Parsed(s)
      <4>1. j + 1 \in 1..m /\ j \in 1..Len(r) /\ b[j + 1] = r[j]
        BY <1>1, <1>2, <3>1
      <4>2. r[j] \in ToSet(r) /\ r[j] \in ToSet(s)
        BY <1>1, <2>6, <4>1 DEF ToSet
      <4> QED BY <4>2 DEF Parsed, NoRecord
    <3>4. Parsed(s) = FirstOf(r, m - 1)
      BY <3>2, <3>3 DEF FirstOf
    <3> QED BY <1>2, <1>3, <2>4, <3>1, <3>4
  <2> QED BY <2>7, <2>8
<1> QED BY <1>3, <1>4

\* A record the manager may append.
Fits(l) ==
    /\ l \in LogLine /\ l.id = next /\ l.kind \notin NoRecord
    /\ l.parent \in IdSet(ToSet(entries)) \cup {0}

LEMMA SubSeqNext ==
    ASSUME NEW b \in Seq(LogLine), NEW n \in Nat, n + 1 \in 1..Len(b)
    PROVE  SubSeq(b, 1, n) \o <<b[n + 1]>> = SubSeq(b, 1, n + 1)
<1>1. PICK c \in Nat : c = Len(b) /\ n + 1 <= c
  BY LenProperties
<1>2. b[n + 1] \in LogLine
  BY ElementOfSeq
<1>3. PICK s : s = SubSeq(b, 1, n)
  OBVIOUS
<1>4. s \in Seq(LogLine) /\ Len(s) = n /\ \A i \in 1..n : s[i] = b[i]
  BY <1>1, <1>3
<1>5. PICK u : u = SubSeq(b, 1, n + 1)
  OBVIOUS
<1>6. u \in Seq(LogLine) /\ Len(u) = n + 1 /\ \A i \in 1..n + 1 : u[i] = b[i]
  BY <1>1, <1>5
<1>7. PICK r \in Seq(LogLine) : r = <<b[n + 1]>> /\ Len(r) = 1 /\ r[1] = b[n + 1]
  <2>1. PICK x \in LogLine : x = b[n + 1]
    BY <1>2
  <2>2. <<x>> \in Seq(LogLine) /\ Len(<<x>>) = 1 /\ <<x>>[1] = x
    OBVIOUS
  <2> QED BY <2>1, <2>2
<1>8. /\ s \o r \in Seq(LogLine) /\ Len(s \o r) = Len(s) + Len(r)
      /\ \A i \in 1..Len(s) + Len(r) : (s \o r)[i] = IF i <= Len(s) THEN s[i] ELSE r[i - Len(s)]
  BY <1>4, <1>7, ConcatProperties
<1>9. ASSUME NEW i \in 1..n + 1 PROVE (s \o r)[i] = u[i]
  <2>1. CASE i <= n
    BY <1>4, <1>6, <1>7, <1>8, <2>1
  <2>2. CASE ~(i <= n)
    <3>1. i = n + 1 /\ i - n = 1
      BY <2>2
    <3> QED BY <1>4, <1>6, <1>7, <1>8, <2>2, <3>1
  <2> QED BY <2>1, <2>2
<1>10. Len(s \o r) = Len(u)
  BY <1>4, <1>6, <1>7, <1>8
<1> QED BY <1>3, <1>5, <1>6, <1>7, <1>8, <1>9, <1>10, SeqEqual

\* A write that fails or is cut off has written a first part of the batch.
LEMMA PartWrote ==
    ASSUME LogTypes, file = <<>> => terminated, NEW l \in LogLine, Batch(l) \in Seq(LogLine),
           WritePart(l)
    PROVE  \E m \in 0..Len(Batch(l)) : Wrote(Parsed(SubSeq(Batch(l), 1, m)))
<1>1. PICK b \in Seq(LogLine) : b = Batch(l)
  OBVIOUS
<1>0. PICK n \in 0..Len(b) :
        \E rest \in Cut(b, n) : Write(SubSeq(b, 1, n), rest)
  BY <1>1 DEF WritePart
<1>2. PICK rest : /\ Write(SubSeq(b, 1, n), rest)
                 /\ \/ rest = <<>> \/ rest = <<GARBAGE>>
                    \/ n # Len(b) /\ rest = <<b[n + 1]>>
  BY <1>0, Zenon DEF Cut
<1>t. /\ file \in Seq(LogLine) /\ terminated \in BOOLEAN /\ needs_separator \in BOOLEAN
  BY DEF LogTypes
<1>3. Len(b) \in Nat /\ n \in Nat /\ n <= Len(b) /\ DOMAIN b = 1..Len(b)
  BY LenProperties
<1>4. SubSeq(b, 1, n) \in Seq(LogLine)
  BY <1>3
<1>5. PICK s \in Seq(LogLine) : s = SubSeq(b, 1, n)
  BY <1>4
<1>6. CASE rest = <<>> \/ rest = <<GARBAGE>>
  <2>1. rest \in Seq(LogLine) /\ Parsed(rest) = {}
    <3>1. <<>> \in Seq(LogLine) /\ <<GARBAGE>> \in Seq(LogLine)
      BY ParsedLines
    <3> QED BY <1>6, <3>1, ParsedLines
  <2>2. Wrote(Parsed(s \o rest))
    BY <1>2, <1>5, <1>t, <2>1, WriteWrote
  <2>3. Parsed(s \o rest) = Parsed(s)
    <3>1. PICK g \in Seq(LogLine) : g = rest
      BY <2>1
    <3>2. Parsed(s \o g) = Parsed(s) \cup Parsed(g)
      BY ParsedConcat
    <3> QED BY <2>1, <3>1, <3>2
  <2> QED BY <1>1, <1>5, <2>2, <2>3
<1>7. CASE n # Len(b) /\ rest = <<b[n + 1]>>
  <2>0. n # Len(b)
    BY <1>7, Zenon
  <2>1. n + 1 \in 1..Len(b) /\ b[n + 1] \in LogLine
    <3>1. PICK c \in Nat : c = Len(b)
      BY <1>3
    <3>2. n \in Nat /\ n <= c /\ n # c
      BY <1>3, <2>0, <3>1
    <3>3. n + 1 \in 1..c
      BY <3>2
    <3> QED BY <3>1, <3>3, ElementOfSeq
  <2>2. rest \in Seq(LogLine)
    BY <1>7, <2>1
  <2>3. Wrote(Parsed(s \o rest))
    BY <1>2, <1>5, <1>t, <2>2, WriteWrote
  <2>4. s \o rest = SubSeq(b, 1, n + 1)
    <3>1. n + 1 \in 1..Len(b) /\ n = (n + 1) - 1
      BY <1>3, <2>1
    <3> QED BY <1>3, <1>5, <1>7, <3>1, SubSeqNext
  <2>5. n + 1 \in 0..Len(b)
    BY <1>3, <2>1
  <2> QED BY <1>1, <2>3, <2>4, <2>5
<1> QED BY <1>2, <1>6, <1>7

LEMMA HoldsAdd ==
    ASSUME NEW F, NEW E, NEW n \in Nat, n >= 1, Sound(F \cup E, n),
           NEW l, l.id = n, l.parent \in IdSet(E) \cup {0}
    PROVE  /\ Holds(F, E) => Holds(F \cup {l}, E) /\ Holds(F \cup {l}, E \cup {l})
           /\ Closed(F) /\ E \subseteq F => Closed(F \cup {l})
<1>1. /\ IdSet(F \cup {l}) = IdSet(F) \cup {n} /\ IdSet(E \cup {l}) = IdSet(E) \cup {n}
      /\ E \subseteq F => IdSet(E) \subseteq IdSet(F)
  BY DEF IdSet
<1>2. ASSUME NEW e \in F \cup E PROVE e.parent # n /\ e.id # 0
  <2>1. e.id \in 1..n - 1 /\ e.parent \in 0..e.id - 1
    BY DEF Sound
  <2> QED BY <2>1
<1>3. 0 \notin IdSet(F) \cup {n}
  BY <1>2 DEF IdSet
<1>4. ASSUME Holds(F, E) PROVE Holds(F \cup {l}, E) /\ Holds(F \cup {l}, E \cup {l})
  BY <1>1, <1>2, <1>3, <1>4 DEF Holds
<1>5. ASSUME Closed(F), E \subseteq F PROVE Closed(F \cup {l})
  BY <1>1, <1>5 DEF Closed
<1> QED BY <1>4, <1>5

LEMMA ChainedAppend ==
    ASSUME NEW es \in Seq(LogLine), NEW l \in LogLine, Chained(es),
           l.parent \in IdSet(ToSet(es)) \cup {0}
    PROVE  Chained(Append(es, l))
<1>1. /\ Len(es) \in Nat /\ DOMAIN es = 1..Len(es) /\ DOMAIN Append(es, l) = 1..Len(es) + 1
      /\ \A i \in 1..Len(es) : Append(es, l)[i] = es[i]
      /\ Append(es, l)[Len(es) + 1] = l
  BY AppendProperties, LenProperties
<1> DEFINE r == Append(es, l)
<1> HIDE DEF r
<1>2. ASSUME NEW k \in DOMAIN r
      PROVE  r[k].parent = 0 \/ \E j \in 1..k - 1 : r[j].id = r[k].parent
  <2>1. CASE k \in 1..Len(es)
    <3>1. es[k].parent = 0 \/ \E j \in 1..k - 1 : es[j].id = es[k].parent
      BY <1>1, <2>1 DEF Chained
    <3>2. r[k] = es[k] /\ \A j \in 1..k - 1 : r[j] = es[j]
      BY <1>1, <2>1 DEF r
    <3> QED BY <3>1, <3>2
  <2>2. CASE k \notin 1..Len(es)
    <3>1. k = Len(es) + 1 /\ r[k] = l /\ k - 1 = Len(es)
      BY <1>1, <2>2 DEF r
    <3>2. CASE l.parent = 0
      BY <3>1, <3>2
    <3>3. CASE l.parent \in IdSet(ToSet(es))
      <4>1. PICK j \in 1..Len(es) : es[j].id = l.parent
        BY <1>1, <3>3 DEF IdSet, ToSet
      <4>2. r[j] = es[j]
        BY <1>1 DEF r
      <4> QED BY <3>1, <4>1, <4>2
    <3> QED BY <3>2, <3>3
  <2> QED BY <2>1, <2>2
<1>3. Chained(r)
  BY <1>2 DEF Chained
<1> QED BY <1>3 DEF r

LEMMA ChainedClosed ==
    ASSUME NEW r \in Seq(LogLine), Chained(r), NEW k \in 0..Len(r)
    PROVE  Closed(FirstOf(r, k)) /\ FirstOf(r, k) \subseteq ToSet(r) /\ FirstOf(r, Len(r)) = ToSet(r)
<1>1. Len(r) \in Nat /\ DOMAIN r = 1..Len(r)
  BY LenProperties
<1>2. ASSUME NEW e \in FirstOf(r, k) PROVE e.parent \in IdSet(FirstOf(r, k)) \cup {0}
  <2>1. PICK i \in 1..k : e = r[i]
    BY DEF FirstOf
  <2>2. i \in DOMAIN r
    BY <1>1
  <2>3. r[i].parent = 0 \/ \E j \in 1..i - 1 : r[j].id = r[i].parent
    BY <2>2 DEF Chained
  <2>4. ASSUME NEW j \in 1..i - 1, r[j].id = r[i].parent PROVE e.parent \in IdSet(FirstOf(r, k))
    <3>1. j \in 1..k
      BY <1>1
    <3> QED BY <2>1, <2>4, <3>1 DEF IdSet, FirstOf
  <2> QED BY <2>1, <2>3, <2>4
<1>3. FirstOf(r, k) \subseteq ToSet(r) /\ FirstOf(r, Len(r)) = ToSet(r)
  <2>1. 1..k \subseteq DOMAIN r
    BY <1>1
  <2> QED BY <1>1, <2>1 DEF FirstOf, ToSet
<1> QED BY <1>2, <1>3 DEF Closed

LEMMA SetOfAppend ==
    ASSUME NEW T, NEW s \in Seq(T), NEW e \in T
    PROVE  Append(s, e) \in Seq(T) /\ ToSet(Append(s, e)) = ToSet(s) \cup {e}
<1>1. /\ Append(s, e) \in Seq(T) /\ Len(s) \in Nat /\ DOMAIN s = 1..Len(s)
      /\ DOMAIN Append(s, e) = 1..Len(s) + 1
      /\ \A i \in 1..Len(s) : Append(s, e)[i] = s[i]
      /\ Append(s, e)[Len(s) + 1] = e
  BY AppendProperties, LenProperties
<1> QED BY <1>1 DEF ToSet

LEMMA LinesAssociate ==
    ASSUME NEW x \in Seq(LogLine), NEW y \in Seq(LogLine), NEW z \in Seq(LogLine)
    PROVE  (x \o y) \o z = x \o (y \o z)
BY ConcatAssociative

\* The batch that creates the file: the header and all records.
LEMMA FirstBatch ==
    ASSUME LogInv, NEW l, Fits(l), ~session_flushed, NEW r, r = Append(entries, l)
    PROVE  /\ r \in Seq(LogLine) /\ ToSet(r) = ToSet(entries) \cup {l} /\ Chained(r)
           /\ Batch(l) = <<HEADER>> \o r
<1>0. entries \in Seq(LogLine) /\ l \in LogLine /\ pending_lines = entries /\ Chained(entries)
  BY DEF LogInv, LogTypes, Fits
<1>1. r \in Seq(LogLine) /\ ToSet(r) = ToSet(entries) \cup {l}
  BY <1>0, SetOfAppend
<1>2. Chained(r)
  BY <1>0, ChainedAppend DEF Fits
<1>3. Batch(l) = <<HEADER>> \o r
  <2>1. Batch(l) = (<<HEADER>> \o entries) \o <<l>>
    BY <1>0 DEF Batch
  <2>2. <<HEADER>> \in Seq(LogLine) /\ <<l>> \in Seq(LogLine)
    BY <1>0, ParsedLines
  <2>3. PICK h \in Seq(LogLine), t \in Seq(LogLine) : h = <<HEADER>> /\ t = <<l>>
    BY <2>2
  <2>4. (h \o entries) \o t = h \o (entries \o t)
    BY <1>0, LinesAssociate
  <2>5. r = entries \o <<l>>
    BY <1>0, AppendIsConcat
  <2> QED BY <2>1, <2>3, <2>4, <2>5
<1> QED BY <1>1, <1>2, <1>3

\* What a batch holds: the new record, or all records of a session that has no
\* file yet behind the header.
LEMMA BatchHolds ==
    ASSUME LogInv, NEW l, Fits(l)
    PROVE  /\ Batch(l) \in Seq(LogLine) /\ Batch(l) # <<>>
           /\ session_flushed =>
                /\ Parsed(Batch(l)) = {l}
                /\ \A m \in 0..Len(Batch(l)) : Parsed(SubSeq(Batch(l), 1, m)) \subseteq {l}
           /\ ~session_flushed =>
                /\ Parsed(Batch(l)) = ToSet(entries) \cup {l}
                /\ \A m \in 0..Len(Batch(l)) :
                     /\ Closed(Parsed(SubSeq(Batch(l), 1, m)))
                     /\ Parsed(SubSeq(Batch(l), 1, m)) \subseteq ToSet(entries) \cup {l}
                /\ Closed(ToSet(entries) \cup {l})
<1>0. /\ entries \in Seq(LogLine) /\ l \in LogLine /\ l.kind \notin NoRecord
      /\ \A e \in ToSet(entries) : e.kind \notin NoRecord
  BY DEF LogInv, LogTypes, Fits, Sound
<1>1. CASE session_flushed
  <2>1. Batch(l) = <<l>> /\ <<l>> \in Seq(LogLine) /\ <<l>> # <<>> /\ Len(<<l>>) = 1
    BY <1>0, <1>1 DEF Batch
  <2>2. Parsed(<<l>>) = {l}
    BY <1>0, ParsedLines
  <2>3. ASSUME NEW m \in 0..1 PROVE Parsed(SubSeq(<<l>>, 1, m)) \subseteq {l}
    <3>1. PICK s : s = SubSeq(<<l>>, 1, m)
      OBVIOUS
    <3>2. DOMAIN s = 1..m /\ \A i \in 1..m : s[i] = <<l>>[i]
      BY <1>0, <2>1, <3>1
    <3>3. \A i \in 1..m : <<l>>[i] = l
      OBVIOUS
    <3> QED BY <3>1, <3>2, <3>3 DEF Parsed, ToSet
  <2> QED BY <1>1, <2>1, <2>2, <2>3
<1>2. CASE ~session_flushed
  <2>2. PICK r : r = Append(entries, l)
    OBVIOUS
  <2>3. r \in Seq(LogLine) /\ ToSet(r) = ToSet(entries) \cup {l}
    BY <1>2, <2>2, FirstBatch
  <2>4. Chained(r)
    BY <1>2, <2>2, FirstBatch
  <2>5. Batch(l) = <<HEADER>> \o r
    BY <1>2, <2>2, FirstBatch
  <2>6. PICK b : b = Batch(l)
    OBVIOUS
  <2>7. \A e \in ToSet(r) : e.kind \notin NoRecord
    BY <1>0, <2>3
  <2>8. b \in Seq(LogLine) /\ b # <<>>
    <3>0. <<HEADER>> \in Seq(LogLine)
      BY ParsedLines
    <3>1. PICK h \in Seq(LogLine) : h = <<HEADER>>
      BY <3>0
    <3>2. b = h \o r /\ b \in Seq(LogLine)
      BY <2>3, <2>5, <2>6, <3>1
    <3>3. h # <<>>
      BY <3>1
    <3> QED BY <2>3, <3>2, <3>3, ConcatEmpty
  <2>9. /\ Parsed(b) = ToSet(r)
        /\ \A m \in 0..Len(b) : \E k \in 0..Len(r) : Parsed(SubSeq(b, 1, m)) = FirstOf(r, k)
    <3>1. b = <<HEADER>> \o r
      BY <2>5, <2>6
    <3> QED BY <2>3, <2>7, <2>8, <3>1, PrefixOfBatch
  <2>10. ASSUME NEW m \in 0..Len(b)
         PROVE  /\ Closed(Parsed(SubSeq(b, 1, m)))
                /\ Parsed(SubSeq(b, 1, m)) \subseteq ToSet(entries) \cup {l}
    <3>1. PICK k \in 0..Len(r) : Parsed(SubSeq(b, 1, m)) = FirstOf(r, k)
      BY <2>9
    <3>2. Closed(FirstOf(r, k)) /\ FirstOf(r, k) \subseteq ToSet(r)
      BY <2>3, <2>4, ChainedClosed
    <3> QED BY <2>3, <3>1, <3>2
  <2>11. Closed(ToSet(r))
    <3>1. Len(r) \in 0..Len(r)
      BY <2>3, LenProperties
    <3> QED BY <2>3, <2>4, <3>1, ChainedClosed
  <2> QED BY <1>2, <2>3, <2>6, <2>8, <2>9, <2>10, <2>11
<1>3. session_flushed \in BOOLEAN
  BY DEF LogInv, LogTypes
<1> QED BY <1>1, <1>2, <1>3

-----------------------------------------------------------------------------
(* An append *)

\* The new record is a record, and its parent is older.
LEMMA FitsSound ==
    ASSUME LogInv, NEW l, Fits(l)
    PROVE  /\ next \in Nat /\ next >= 1 /\ MaxEntries \in Nat
           /\ Sound(ToSet(entries) \cup ToSet(pending_lines) \cup Parsed(file) \cup {l}, next + 1)
           /\ Sound(Parsed(file) \cup ToSet(entries), next)
<1>1. next \in Nat /\ next >= 1 /\ next <= next /\ MaxEntries \in Nat
  BY SessionLogAssumption DEF LogInv, LogTypes, SessionLogAssumption
<1>2. l.parent \in 0..next - 1
  <2>1. CASE l.parent = 0
    BY <1>1, <2>1
  <2>2. CASE l.parent \in IdSet(ToSet(entries))
    <3>1. PICK e \in ToSet(entries) : l.parent = e.id
      BY <2>2 DEF IdSet
    <3>2. e.id \in 1..next - 1
      BY DEF LogInv, Sound
    <3> QED BY <1>1, <3>1, <3>2
  <2> QED BY <2>1, <2>2 DEF Fits
<1> DEFINE U == ToSet(entries) \cup ToSet(pending_lines) \cup Parsed(file)
<1>3. Sound(U, next)
  BY DEF LogInv
<1>4. Sound(U \cup {l}, next + 1)
  <2> HIDE DEF U
  <2> QED BY <1>1, <1>2, <1>3, SoundAdd DEF Fits
<1>5. Sound(Parsed(file) \cup ToSet(entries), next)
  <2>1. Parsed(file) \cup ToSet(entries) \subseteq U
    OBVIOUS
  <2> HIDE DEF U
  <2> QED BY <1>1, <1>3, <2>1, SoundSubset
<1> QED BY <1>1, <1>4, <1>5

LEMMA FitsKeeps ==
    ASSUME LogInv, NEW l, Fits(l), NEW V,
           V \subseteq ToSet(entries) \cup ToSet(pending_lines) \cup Parsed(file) \cup {l}
    PROVE  Sound(V, next + 1)
<1>1. PICK U : U = ToSet(entries) \cup ToSet(pending_lines) \cup Parsed(file) \cup {l}
  OBVIOUS
<1>2. next \in Nat /\ Sound(ToSet(entries) \cup ToSet(pending_lines) \cup Parsed(file) \cup {l}, next + 1)
  BY FitsSound, Zenon
<1>3. PICK m \in Nat : m = next + 1 /\ m <= m
  BY <1>2
<1>4. Sound(U, m) /\ V \subseteq U
  BY <1>1, <1>2, <1>3, Zenon
<1>5. Sound(V, m)
  BY <1>3, <1>4, SoundSubset
<1> QED BY <1>3, <1>5

LEMMA FitsHolds ==
    ASSUME LogInv, NEW l, Fits(l), Holds(Parsed(file), ToSet(entries))
    PROVE  /\ Holds(Parsed(file) \cup {l}, ToSet(entries))
           /\ Holds(Parsed(file) \cup {l}, ToSet(entries) \cup {l})
           /\ Closed(Parsed(file)) => Closed(Parsed(file) \cup {l})
<1>1. PICK F : F = Parsed(file)
  OBVIOUS
<1>2. PICK E : E = ToSet(entries)
  OBVIOUS
<1>3. next \in Nat /\ next >= 1 /\ Sound(Parsed(file) \cup ToSet(entries), next)
  BY FitsSound, Zenon
<1>4. l.id = next /\ l.parent \in IdSet(E) \cup {0}
  BY <1>2 DEF Fits
<1>5. Sound(F \cup E, next) /\ Holds(F, E)
  BY <1>1, <1>2, <1>3
<1>6. E \subseteq F
  BY <1>5 DEF Holds
<1>7. /\ Holds(F, E) => Holds(F \cup {l}, E) /\ Holds(F \cup {l}, E \cup {l})
      /\ Closed(F) /\ E \subseteq F => Closed(F \cup {l})
  BY <1>3, <1>4, <1>5, HoldsAdd
<1> QED BY <1>1, <1>2, <1>5, <1>6, <1>7

\* The file before the first answer.
LEMMA NoFileYet ==
    ASSUME LogInv, NEW l, CanOpen(l), ~session_flushed
    PROVE  Parsed(file) = {} /\ terminated
<1>1. file = <<>> /\ terminated
  BY DEF LogInv, CanOpen
<1> QED BY <1>1, ParsedLines

\* An append that throws or is cut off leaves a file that has all entries.
LEMMA PartKeeps ==
    ASSUME LogInv, alive, NEW l, Fits(l), CanOpen(l), WritePart(l), next' = next + 1,
           UNCHANGED <<entries, pending_lines>>
    PROVE  /\ file' \in Seq(LogLine) /\ exists' = TRUE /\ terminated' \in BOOLEAN
           /\ needs_separator' = FALSE /\ (file' = <<>> => terminated')
           /\ Sound(ToSet(entries') \cup ToSet(pending_lines') \cup Parsed(file'), next')
           /\ session_flushed /\ torn # "now" => Holds(Parsed(file'), ToSet(entries))
           /\ torn = "no" => Closed(Parsed(file'))
<1>1. LogTypes /\ (file = <<>> => terminated) /\ l \in LogLine
  BY DEF LogInv, Fits
<1>2. Batch(l) \in Seq(LogLine)
  BY BatchHolds
<1>3. PICK m \in 0..Len(Batch(l)) : Wrote(Parsed(SubSeq(Batch(l), 1, m)))
  BY <1>1, <1>2, PartWrote
<1>4. PICK P : P = Parsed(SubSeq(Batch(l), 1, m))
  OBVIOUS
<1>5. /\ Wrote(P) /\ P \subseteq ToSet(entries) \cup {l}
      /\ session_flushed => P \subseteq {l}
      /\ ~session_flushed => Closed(P)
  BY <1>3, <1>4, BatchHolds
<1>6. Parsed(file') \subseteq Parsed(file) \cup ToSet(entries) \cup {l}
  BY <1>5 DEF Wrote
<1>7. Sound(ToSet(entries') \cup ToSet(pending_lines') \cup Parsed(file'), next')
  <2>2. ToSet(entries') \cup ToSet(pending_lines') \cup Parsed(file') \subseteq
          ToSet(entries) \cup ToSet(pending_lines) \cup Parsed(file) \cup {l}
    BY <1>6
  <2>3. PICK V : V = ToSet(entries') \cup ToSet(pending_lines') \cup Parsed(file')
    OBVIOUS
  <2>4. Sound(V, next + 1)
    BY <2>2, <2>3, FitsKeeps
  <2> QED BY <2>3, <2>4
<1>8. ASSUME session_flushed, torn # "now"
      PROVE  /\ Holds(Parsed(file'), ToSet(entries))
             /\ Closed(Parsed(file)) => Closed(Parsed(file'))
  <2>1. terminated \/ needs_separator
    BY <1>8 DEF LogInv
  <2>2. Parsed(file') = Parsed(file) \cup P /\ P \subseteq {l}
    BY <1>5, <1>8, <2>1 DEF Wrote
  <2>3. Holds(Parsed(file), ToSet(entries))
    BY <1>8 DEF LogInv
  <2>4. /\ Holds(Parsed(file) \cup {l}, ToSet(entries))
        /\ Closed(Parsed(file)) => Closed(Parsed(file) \cup {l})
    BY <2>3, FitsHolds
  <2>5. Parsed(file') = Parsed(file) \/ Parsed(file') = Parsed(file) \cup {l}
    BY <2>2
  <2> QED BY <2>3, <2>4, <2>5
<1>9. ASSUME torn = "no" PROVE Closed(Parsed(file'))
  <2>1. CASE session_flushed
    BY <1>8, <1>9, <2>1 DEF LogInv
  <2>2. CASE ~session_flushed
    <3>1. Parsed(file) = {} /\ terminated
      BY <2>2, NoFileYet
    <3>2. Parsed(file') = P
      BY <1>5, <3>1 DEF Wrote
    <3> QED BY <1>5, <2>2, <3>2
  <2> QED BY <2>1, <2>2
<1> QED BY <1>5, <1>7, <1>8, <1>9 DEF Wrote

LEMMA AttemptStep ==
    ASSUME LogInv, NEW l, Fits(l), Attempt(l) PROVE LogInv'
<1>1. alive /\ next <= MaxEntries /\ next' = next + 1
  BY DEF Attempt
<1>2. next' \in 1..MaxEntries + 1 /\ next \in Nat
  <2>1. next \in Nat /\ MaxEntries \in Nat
    BY FitsSound, Zenon
  <2> QED BY <1>1, <2>1
<1>t. /\ entries \in Seq(LogLine) /\ pending_lines \in Seq(LogLine) /\ file \in Seq(LogLine)
      /\ session_flushed \in BOOLEAN /\ needs_separator \in BOOLEAN
      /\ exists \in BOOLEAN /\ terminated \in BOOLEAN /\ alive \in BOOLEAN
      /\ l \in LogLine
  BY DEF LogInv, LogTypes, Fits
<1>a. /\ Append(entries, l) \in Seq(LogLine) /\ ToSet(Append(entries, l)) = ToSet(entries) \cup {l}
      /\ l.id \in IdSet(ToSet(entries) \cup {l})
  BY <1>t, SetOfAppend DEF IdSet
<1>3. CASE Hold(l)
  <2>1. /\ ~session_flushed /\ pending_lines' = Append(pending_lines, l)
        /\ entries' = Append(entries, l) /\ leaf' = l.id
        /\ UNCHANGED <<session_flushed, needs_separator, exists, file, terminated, alive, torn>>
    BY <1>3 DEF Hold, Held, Remember, disk
  <2>2. pending_lines = entries /\ Chained(entries)
    BY <2>1 DEF LogInv
  <2>3. Chained(entries') /\ pending_lines' = entries'
    BY <1>t, <2>1, <2>2, ChainedAppend DEF Fits
  <2>4. Sound(ToSet(entries') \cup ToSet(pending_lines') \cup Parsed(file'), next')
    <3>1. ToSet(entries') \cup ToSet(pending_lines') \cup Parsed(file') \subseteq
            ToSet(entries) \cup ToSet(pending_lines) \cup Parsed(file) \cup {l}
      BY <1>a, <2>1, <2>3
    <3>3. PICK V : V = ToSet(entries') \cup ToSet(pending_lines') \cup Parsed(file')
      OBVIOUS
    <3>4. Sound(V, next + 1)
      BY <3>1, <3>3, FitsKeeps
    <3> QED BY <1>1, <3>3, <3>4
  <2>5. LogTypes'
    BY <1>2, <1>t, <1>a, <2>1, <2>3 DEF LogTypes
  <2>6. leaf' \in IdSet(ToSet(entries')) \cup {0}
    BY <1>a, <2>1
  <2> QED BY <2>1, <2>3, <2>4, <2>5, <2>6 DEF LogInv
<1>4. CASE Store(l)
  <2>1. /\ CanOpen(l) /\ Write(Batch(l), <<>>) /\ session_flushed' = TRUE /\ pending_lines' = <<>>
        /\ entries' = Append(entries, l) /\ leaf' = l.id /\ UNCHANGED <<alive, torn>>
    BY <1>4 DEF Store, Remember
  <2>2. PICK b \in Seq(LogLine) : b = Batch(l) /\ b # <<>>
    BY BatchHolds
  <2>3. Wrote(Parsed(b)) /\ terminated'
    <3>1. <<>> \in Seq(LogLine) /\ (file = <<>> => terminated) /\ Write(b, <<>>) /\ b \o <<>> = b
      BY <2>1, <2>2 DEF LogInv
    <3> QED BY <1>t, <2>2, <3>1, WriteWrote
  <2>4. PICK P : P = Parsed(b)
    OBVIOUS
  <2>5. /\ Wrote(P) /\ session_flushed => P = {l}
        /\ Wrote(P) /\ ~session_flushed => P = ToSet(entries) \cup {l} /\ Closed(P)
    BY <2>2, <2>3, <2>4, BatchHolds
  <2>6. /\ Wrote(P) /\ P \subseteq ToSet(entries) \cup {l}
    BY <1>t, <2>3, <2>4, <2>5
  <2>7. /\ Sound(ToSet(entries') \cup ToSet(pending_lines') \cup Parsed(file'), next')
    <3>1. ToSet(<<>>) = {}
      BY DEF ToSet
    <3>2. ToSet(entries') \cup ToSet(pending_lines') \cup Parsed(file') \subseteq
            ToSet(entries) \cup ToSet(pending_lines) \cup Parsed(file) \cup {l}
      BY <1>a, <2>1, <2>6, <3>1 DEF Wrote
    <3>3. PICK V : V = ToSet(entries') \cup ToSet(pending_lines') \cup Parsed(file')
      OBVIOUS
    <3>4. Sound(V, next + 1)
      BY <3>2, <3>3, FitsKeeps
    <3> QED BY <1>1, <3>3, <3>4
  <2>8. LogTypes'
    <3>1. /\ file' \in Seq(LogLine) /\ exists' = TRUE /\ terminated' \in BOOLEAN
          /\ needs_separator' = FALSE
      BY <2>6 DEF Wrote
    <3>2. <<>> \in Seq(LogLine)
      OBVIOUS
    <3> QED BY <1>2, <1>t, <1>a, <2>1, <3>1, <3>2 DEF LogTypes
  <2>9. leaf' \in IdSet(ToSet(entries')) \cup {0}
    BY <1>a, <2>1
  <2>10. ASSUME torn # "now"
         PROVE  /\ Holds(Parsed(file'), ToSet(entries'))
                /\ torn = "no" => Closed(Parsed(file'))
    <3>1. CASE session_flushed
      <4>1. terminated \/ needs_separator
        BY <1>1, <2>10, <3>1 DEF LogInv
      <4>2. Parsed(file') = Parsed(file) \cup {l}
        BY <2>5, <2>6, <3>1, <4>1 DEF Wrote
      <4>3. Holds(Parsed(file), ToSet(entries)) /\ (torn = "no" => Closed(Parsed(file)))
        BY <2>10, <3>1 DEF LogInv
      <4>4. /\ Holds(Parsed(file) \cup {l}, ToSet(entries) \cup {l})
            /\ Closed(Parsed(file)) => Closed(Parsed(file) \cup {l})
        BY <4>3, FitsHolds
      <4> QED BY <1>a, <2>1, <4>2, <4>3, <4>4
    <3>2. CASE ~session_flushed
      <4>1. Parsed(file) = {} /\ terminated
        BY <2>1, <3>2, NoFileYet
      <4>2. Parsed(file') = ToSet(entries') /\ Closed(Parsed(file'))
        BY <1>a, <2>1, <2>5, <2>6, <3>2, <4>1 DEF Wrote
      <4> QED BY <4>2 DEF Holds
    <3> QED BY <1>t, <3>1, <3>2
  <2> QED BY <2>1, <2>3, <2>6, <2>7, <2>8, <2>9, <2>10 DEF LogInv, Wrote
<1>5. CASE Refuse(l)
  <2>1. /\ CanOpen(l) /\ WritePart(l) /\ leaf' = l.parent
        /\ torn' = IF session_flushed /\ ~terminated' THEN "now" ELSE torn
        /\ UNCHANGED <<entries, session_flushed, pending_lines, alive>>
    BY <1>5 DEF Refuse
  <2>2. /\ file' \in Seq(LogLine) /\ exists' = TRUE /\ terminated' \in BOOLEAN
        /\ needs_separator' = FALSE /\ (file' = <<>> => terminated')
        /\ Sound(ToSet(entries') \cup ToSet(pending_lines') \cup Parsed(file'), next')
        /\ session_flushed /\ torn # "now" => Holds(Parsed(file'), ToSet(entries))
        /\ torn = "no" => Closed(Parsed(file'))
    BY <1>1, <2>1, PartKeeps
  <2>3. LogTypes'
    BY <1>2, <1>t, <2>1, <2>2 DEF LogTypes
  <2>4. /\ torn' # "now" => torn # "now" /\ (session_flushed => terminated')
        /\ torn' = "no" => torn = "no"
    BY <2>1
  <2>5. leaf' \in IdSet(ToSet(entries')) \cup {0}
    BY <2>1 DEF Fits
  <2> QED BY <2>1, <2>2, <2>3, <2>4, <2>5 DEF LogInv
<1>6. CASE Die(l)
  <2>1. /\ CanOpen(l) /\ WritePart(l) /\ alive' = FALSE
        /\ UNCHANGED <<entries, leaf, session_flushed, pending_lines, torn>>
    BY <1>6 DEF Die, memory
  <2>2. /\ file' \in Seq(LogLine) /\ exists' = TRUE /\ terminated' \in BOOLEAN
        /\ needs_separator' = FALSE /\ (file' = <<>> => terminated')
        /\ Sound(ToSet(entries') \cup ToSet(pending_lines') \cup Parsed(file'), next')
        /\ session_flushed /\ torn # "now" => Holds(Parsed(file'), ToSet(entries))
        /\ torn = "no" => Closed(Parsed(file'))
    BY <1>1, <2>1, PartKeeps
  <2>3. LogTypes'
    BY <1>2, <1>t, <2>1, <2>2 DEF LogTypes
  <2> QED BY <2>1, <2>2, <2>3 DEF LogInv
<1> QED BY <1>3, <1>4, <1>5, <1>6 DEF Attempt

-----------------------------------------------------------------------------
(* The steps *)

\* The ids of the entries, and the leaf, are below the next id.
LEMMA IdsBelow ==
    ASSUME LogInv, NEW i \in IdSet(ToSet(entries)) \cup {0}
    PROVE  i \in Nat /\ i \in 0..MaxEntries /\ i \in 0..next - 1
<1>1. next \in 1..MaxEntries + 1 /\ MaxEntries \in Nat
  BY SessionLogAssumption DEF LogInv, LogTypes, SessionLogAssumption
<1>2. CASE i = 0
  BY <1>1, <1>2
<1>3. CASE i \in IdSet(ToSet(entries))
  <2>1. PICK e \in ToSet(entries) : i = e.id
    BY <1>3 DEF IdSet
  <2>2. e.id \in 1..next - 1
    BY DEF LogInv, Sound
  <2> QED BY <1>1, <2>1, <2>2
<1> QED BY <1>2, <1>3

LEMMA LineFits ==
    ASSUME LogInv, NEW k \in LineKinds \ NoRecord,
           NEW p \in IdSet(ToSet(entries)) \cup {0}, NEW r \in Nat
    PROVE  Fits(Line(k, p, r))
<1>1. p \in Nat
  BY IdsBelow
<1>2. next \in Nat
  BY SessionLogAssumption DEF LogInv, LogTypes, SessionLogAssumption
<1> QED BY <1>1, <1>2 DEF Fits, Line, LogLine

\* Whatever is appended is a record with its parent among the entries.
LEMMA AppendsAttempt ==
    ASSUME LogInv,
           \/ \E k \in Kinds : append_message(k)
           \/ \E t \in Ids(entries) :
                \/ \E k \in LabelKinds : append_label_change(t, k)
                \/ append_compaction(t) \/ append_branch_summary(t)
    PROVE  \E k \in LineKinds \ NoRecord, p \in IdSet(ToSet(entries)) \cup {0}, r \in 0..MaxEntries :
             Attempt(Line(k, p, r))
<1> DEFINE Goal == \E k \in LineKinds \ NoRecord, p \in IdSet(ToSet(entries)) \cup {0}, r \in 0..MaxEntries :
                     Attempt(Line(k, p, r))
<1>1. leaf \in IdSet(ToSet(entries)) \cup {0}
  BY DEF LogInv
<1>2. ASSUME NEW k \in Kinds, append_message(k) PROVE Goal
  <2>1. k \in LineKinds \ NoRecord /\ 0 \in 0..MaxEntries
    BY SessionLogAssumption DEF SessionLogAssumption, LineKinds, PlainKinds, NoRecord
  <2> QED BY <1>1, <1>2, <2>1 DEF append_message
<1>3. ASSUME NEW t \in Ids(entries) PROVE t \in IdSet(ToSet(entries)) /\ t \in 0..MaxEntries
  BY IdsAreIdSet, IdsBelow
<1>4. ASSUME NEW t \in Ids(entries), NEW k \in LabelKinds, append_label_change(t, k) PROVE Goal
  <2>1. k \in LineKinds \ NoRecord
    BY DEF LineKinds, LabelKinds, NoRecord
  <2> QED BY <1>1, <1>3, <1>4, <2>1 DEF append_label_change
<1>5. ASSUME NEW t \in Ids(entries), append_compaction(t) PROVE Goal
  <2>1. "compaction" \in LineKinds \ NoRecord
    BY DEF LineKinds, NoRecord
  <2> QED BY <1>1, <1>3, <1>5, <2>1 DEF append_compaction
<1>6. ASSUME NEW t \in Ids(entries), append_branch_summary(t) PROVE Goal
  <2>1. "summary" \in LineKinds \ NoRecord
    BY DEF LineKinds, NoRecord
  <2>2. NewLeaf(t) \in IdSet(ToSet(entries)) \cup {0}
    BY <1>6, IdsAreIdSet DEF append_branch_summary, Known
  <2>3. NewLeaf(t) \in 0..MaxEntries
    BY <2>2, IdsBelow
  <2> QED BY <1>6, <2>1, <2>2, <2>3 DEF append_branch_summary
<1> QED BY <1>2, <1>4, <1>5, <1>6

\* A leaf that moves, a process that ends.
LEMMA QuietKeeps ==
    ASSUME LogInv,
           UNCHANGED <<entries, pending_lines, session_flushed, needs_separator, disk, torn, next>>,
           leaf' \in IdSet(ToSet(entries)) \cup {0}, alive' \in BOOLEAN, alive' => alive
    PROVE  LogInv'
<1>1. /\ entries' = entries /\ pending_lines' = pending_lines /\ session_flushed' = session_flushed
      /\ needs_separator' = needs_separator /\ exists' = exists /\ file' = file
      /\ terminated' = terminated /\ torn' = torn /\ next' = next
  BY DEF disk
<1>2. LogTypes'
  BY <1>1 DEF LogInv, LogTypes
<1> QED BY <1>1, <1>2 DEF LogInv

\* The manager of a file whose records are sound.
LEMMA LoadKeeps ==
    ASSUME NEW lines \in Seq(LogLine), NEW closed \in BOOLEAN, Load(lines, closed),
           file' = lines, terminated' = closed, exists' \in BOOLEAN, ~exists' => file' = <<>>,
           next' \in 1..MaxEntries + 1, Sound(Parsed(lines), next'),
           lines = <<>> => closed, torn = "no" => Closed(Parsed(lines))
    PROVE  LogInv'
<1>1. PICK es : es = Records(lines)
  OBVIOUS
<1>2. es \in Seq(LogLine) /\ ToSet(es) = Parsed(lines)
  BY <1>1, RecordsAreParsed
<1>3. /\ entries' = es /\ leaf' = (IF es = <<>> THEN 0 ELSE Last(es).id)
      /\ session_flushed' = TRUE /\ pending_lines' = <<>> /\ needs_separator' = ~closed
      /\ torn' = (IF torn = "no" THEN "no" ELSE "before") /\ alive' = TRUE
  BY <1>1 DEF Load
<1>4. LogTypes'
  <2>1. <<>> \in Seq(LogLine)
    OBVIOUS
  <2> QED BY <1>2, <1>3, <2>1 DEF LogTypes
<1>5. ToSet(entries') \cup ToSet(pending_lines') \cup Parsed(file') = Parsed(lines)
  <2>1. ToSet(<<>>) = {}
    BY DEF ToSet
  <2> QED BY <1>2, <1>3, <2>1
<1>6. leaf' \in IdSet(ToSet(entries')) \cup {0}
  <2>1. CASE es = <<>>
    BY <1>3, <2>1
  <2>2. CASE es # <<>>
    <3>1. Len(es) \in Nat /\ DOMAIN es = 1..Len(es) /\ Len(es) # 0
      BY <1>2, <2>2, LenProperties, EmptySeq
    <3>2. Len(es) \in DOMAIN es
      BY <3>1
    <3>3. Last(es) \in ToSet(es)
      BY <3>2 DEF Last, ToSet
    <3> QED BY <1>3, <2>2, <3>3 DEF IdSet
  <2> QED BY <2>1, <2>2
<1>7. Holds(Parsed(file'), ToSet(entries'))
  BY <1>2, <1>3 DEF Holds
<1> QED BY <1>3, <1>4, <1>5, <1>6, <1>7 DEF LogInv

LEMMA OpenKeeps == ASSUME LogInv, open PROVE LogInv'
<1>1. /\ Load(file, terminated) /\ exists' = exists /\ file' = file /\ terminated' = terminated
      /\ next' = next
  BY DEF open, disk
<1>2. /\ file \in Seq(LogLine) /\ terminated \in BOOLEAN /\ exists \in BOOLEAN
      /\ next \in 1..MaxEntries + 1
      /\ (~exists => file = <<>>) /\ (file = <<>> => terminated)
      /\ (torn = "no" => Closed(Parsed(file)))
  BY DEF LogInv, LogTypes
<1>3. Sound(Parsed(file), next)
  <2>1. PICK U : U = ToSet(entries) \cup ToSet(pending_lines) \cup Parsed(file)
    OBVIOUS
  <2>2. Sound(U, next) /\ Parsed(file) \subseteq U
    BY <2>1 DEF LogInv
  <2>3. next \in Nat /\ next <= next
    BY <1>2, SessionLogAssumption DEF SessionLogAssumption
  <2> QED BY <2>2, <2>3, SoundSubset
<1> QED BY <1>1, <1>2, <1>3, LoadKeeps

LEMMA EmptyInv ==
    ASSUME entries = <<>>, leaf = 0, session_flushed = FALSE, pending_lines = <<>>,
           needs_separator = FALSE, exists = FALSE, file = <<>>, terminated = TRUE,
           alive = TRUE, torn = "no", next \in 1..MaxEntries + 1
    PROVE  LogInv
<1>1. <<>> \in Seq(LogLine) /\ ToSet(<<>>) = {} /\ DOMAIN <<>> = {}
  BY DEF ToSet
<1>2. Parsed(<<>>) = {}
  BY <1>1 DEF Parsed
<1>3. LogTypes
  BY <1>1 DEF LogTypes
<1>4. Sound({}, next) /\ Closed({}) /\ Chained(<<>>)
  BY <1>1 DEF Sound, Closed, Chained
<1>5. ToSet(entries) \cup ToSet(pending_lines) \cup Parsed(file) = {}
  BY <1>1, <1>2
<1> QED BY <1>2, <1>3, <1>4, <1>5 DEF LogInv

LEMMA CreateKeeps == ASSUME LogInv, create PROVE LogInv'
<1>1. /\ (entries = <<>>)' /\ (leaf = 0)' /\ (session_flushed = FALSE)' /\ (pending_lines = <<>>)'
      /\ (needs_separator = FALSE)' /\ (exists = FALSE)' /\ (file = <<>>)' /\ (terminated = TRUE)'
      /\ (alive = TRUE)' /\ (torn = "no")' /\ (next \in 1..MaxEntries + 1)'
  BY DEF create, LogInv, LogTypes
<1>2. <<>> \in Seq(LogLine) /\ ToSet(<<>>) = {} /\ DOMAIN <<>> = {}
  BY DEF ToSet
<1>3. Parsed(<<>>) = {}
  BY <1>2 DEF Parsed
<1>4. LogTypes'
  BY <1>1, <1>2 DEF LogTypes
<1>5. Sound({}, next') /\ Closed({}) /\ Chained(<<>>)
  BY <1>2 DEF Sound, Closed, Chained
<1>6. ToSet(entries') \cup ToSet(pending_lines') \cup Parsed(file') = {}
  BY <1>1, <1>2, <1>3
<1> QED BY <1>1, <1>3, <1>4, <1>5, <1>6 DEF LogInv

-----------------------------------------------------------------------------
(* A clone of a branch *)

LEMMA PathIn ==
    ASSUME NEW es, Grows(es), NEW i \in 0..MaxEntries
    PROVE  path_to(es, i) \subseteq Ids(es)
<1> DEFINE B == {j \in 0..MaxEntries : ~(path_to(es, j) \subseteq Ids(es))}
<1>1. MaxEntries \in Nat
  BY SessionLogAssumption DEF SessionLogAssumption
<1>2. CASE B = {}
  BY <1>2
<1>3. CASE B # {}
  <2>1. B \subseteq Nat
    BY <1>1
  <2>2. PICK j \in B : \A k \in B : j <= k
    <3> HIDE DEF B
    <3> QED BY <1>3, <2>1, Least
  <2>3. j \in Ids(es) /\ path_to(es, j) = {j} \cup path_to(es, ById(es, j).parent)
    BY <2>2, PathUnfolds
  <2>4. ById(es, j).parent \in 0..j - 1 /\ j \in 1..MaxEntries
    BY <2>3 DEF Grows
  <2>5. ById(es, j).parent \in 0..MaxEntries /\ ~(j <= ById(es, j).parent)
    BY <1>1, <2>4
  <2>6. path_to(es, ById(es, j).parent) \subseteq Ids(es)
    BY <2>2, <2>5
  <2> QED BY <2>2, <2>3, <2>6
<1> QED BY <1>2, <1>3

LEMMA AscendingOrder ==
    ASSUME NEW S, S \subseteq Nat, IsFiniteSet(S), NEW N \in Nat, \A p \in S : p <= N
    PROVE  /\ Ascending(S) \in Seq(S) /\ Len(Ascending(S)) = Cardinality(S)
           /\ Cardinality(S) \in Nat /\ ToSet(Ascending(S)) = S
           /\ \A j, k \in 1..Cardinality(S) : j < k => Ascending(S)[j] < Ascending(S)[k]
<1>1. /\ Ascending(S) \in Seq(S) /\ Len(Ascending(S)) = Cardinality(S)
      /\ \A k \in 1..Cardinality(S) : Ascending(S)[k] \in S /\ Rank(S, Ascending(S)[k]) = k
  BY AscendingIn
<1>2. Cardinality(S) \in Nat
  BY FS_CardinalityType
<1>3. ASSUME NEW j \in 1..Cardinality(S), NEW k \in 1..Cardinality(S), j < k
      PROVE  Ascending(S)[j] < Ascending(S)[k]
  <2>1. PICK p \in S, q \in S : p = Ascending(S)[j] /\ q = Ascending(S)[k]
    BY <1>1
  <2>2. Rank(S, p) = j /\ Rank(S, q) = k
    BY <1>1, <2>1
  <2>3. ASSUME ~(p < q) PROVE FALSE
    <3>0. \A x \in S : x <= q => x <= p
      BY <2>3
    <3>1. {x \in S : x <= q} \in SUBSET {x \in S : x <= p}
      BY <3>0, Zenon
    <3>2. IsFiniteSet({x \in S : x <= p})
      <4>1. {x \in S : x <= p} \in SUBSET S
        OBVIOUS
      <4> QED BY <4>1, FS_Subset
    <3>3. Rank(S, q) <= Rank(S, p)
      BY <3>1, <3>2, FS_Subset DEF Rank
    <3> QED BY <1>2, <1>3, <2>2, <3>3
  <2> QED BY <2>1, <2>3
<1>4. DOMAIN Ascending(S) = 1..Cardinality(S)
  BY DEF Ascending
<1>5. ToSet(Ascending(S)) \subseteq S
  BY <1>1, <1>4 DEF ToSet
<1>6. ASSUME NEW p \in S PROVE p \in ToSet(Ascending(S))
  <2>1. Rank(S, p) \in 1..Cardinality(S) /\ Ascending(S)[Rank(S, p)] = p
    BY AscendingAll
  <2> QED BY <1>4, <2>1 DEF ToSet
<1> QED BY <1>1, <1>2, <1>3, <1>5, <1>6

LEMMA SeqWiden ==
    ASSUME NEW S, NEW T, S \subseteq T, NEW s \in Seq(S)
    PROVE  s \in Seq(T) /\ \A n \in 1..Len(s) : s[n] \in S
<1>1. /\ Len(s) \in Nat /\ DOMAIN s = 1..Len(s) /\ \A n \in 1..Len(s) : s[n] \in S
      /\ s \in [1..Len(s) -> S]
  BY LenProperties, ElementOfSeq
<1>2. s \in [1..Len(s) -> T]
  BY <1>1
<1> QED BY <1>1, <1>2, SeqDef

Base(ids) == Ascending(ids \ OfKind(entries, LabelKinds))
Labelled(ids) == Ascending(ToSet(Base(ids)) \cap labels)

\* The parts a clone is made of.
LEMMA CloneParts ==
    ASSUME LogInv, NEW ids, ids \subseteq Ids(entries)
    PROVE  /\ Base(ids) \in Seq(Nat) /\ Len(Base(ids)) \in Nat
           /\ ToSet(Base(ids)) = ids \ OfKind(entries, LabelKinds)
           /\ \A n \in 1..Len(Base(ids)) : /\ Base(ids)[n] \in ids \ OfKind(entries, LabelKinds)
                                           /\ Base(ids)[n] \in 1..next - 1
           /\ \A j, k \in 1..Len(Base(ids)) : j < k => Base(ids)[j] < Base(ids)[k]
           /\ Labelled(ids) \in Seq(Nat) /\ Len(Labelled(ids)) \in Nat
           /\ ToSet(Labelled(ids)) = ToSet(Base(ids)) \cap labels
           /\ Len(Labelled(ids)) # 0 => Len(Base(ids)) # 0
<1>1. next \in Nat
  BY SessionLogAssumption DEF LogInv, LogTypes, SessionLogAssumption
<1>2. ids \subseteq 1..next - 1
  <2>1. ASSUME NEW i \in ids PROVE i \in 1..next - 1
    <3>1. i \in IdSet(ToSet(entries))
      BY IdsAreIdSet
    <3>2. PICK e \in ToSet(entries) : i = e.id
      BY <3>1 DEF IdSet
    <3> QED BY <3>2 DEF LogInv, Sound
  <2> QED BY <2>1
<1>3. ASSUME NEW S, S \subseteq ids
      PROVE  S \subseteq Nat /\ IsFiniteSet(S) /\ \A p \in S : p <= next
  <2>1. S \subseteq 1..next - 1
    BY <1>2, <1>3
  <2>2. PICK I : I = 1..next - 1
    OBVIOUS
  <2>3. IsFiniteSet(I)
    BY <1>1, <2>2, FS_Interval
  <2>4. IsFiniteSet(S)
    BY <2>1, <2>2, <2>3, FS_Subset
  <2> QED BY <1>1, <2>1, <2>4
<1>4. PICK S : S = ids \ OfKind(entries, LabelKinds)
  OBVIOUS
<1>5. PICK A : A = Base(ids)
  OBVIOUS
<1>6. A = Ascending(S)
  BY <1>4, <1>5 DEF Base
<1>7. S \subseteq ids /\ S \subseteq Nat /\ IsFiniteSet(S) /\ \A p \in S : p <= next
  BY <1>3, <1>4
<1>8. /\ A \in Seq(S) /\ Len(A) = Cardinality(S) /\ Cardinality(S) \in Nat /\ ToSet(A) = S
      /\ \A j, k \in 1..Len(A) : j < k => A[j] < A[k]
  BY <1>1, <1>6, <1>7, AscendingOrder
<1>9. A \in Seq(Nat) /\ \A n \in 1..Len(A) : A[n] \in S
  BY <1>7, <1>8, SeqWiden
<1>10. PICK R : R = S \cap labels
  OBVIOUS
<1>11. PICK L : L = Labelled(ids)
  OBVIOUS
<1>12. L = Ascending(R)
  BY <1>5, <1>8, <1>10, <1>11 DEF Labelled
<1>13. R \subseteq Nat /\ IsFiniteSet(R) /\ \A p \in R : p <= next
  BY <1>3, <1>7, <1>10
<1>14. L \in Seq(R) /\ Len(L) = Cardinality(R) /\ Cardinality(R) \in Nat /\ ToSet(L) = R
  BY <1>1, <1>12, <1>13, AscendingOrder
<1>15. L \in Seq(Nat)
  BY <1>13, <1>14, SeqWiden
<1>16. ASSUME Len(L) # 0 PROVE Len(A) # 0
  <2>1. R # {}
    BY <1>14, <1>16, FS_EmptySet
  <2>2. S # {}
    BY <1>10, <2>1
  <2> QED BY <1>7, <1>8, <2>2, FS_EmptySet
<1> QED BY <1>2, <1>4, <1>5, <1>7, <1>8, <1>9, <1>10, <1>11, <1>14, <1>15, <1>16

LEMMA Reparented ==
    ASSUME NEW e \in LogLine, NEW x \in Nat
    PROVE  /\ [e EXCEPT !.parent = x] \in LogLine
           /\ [e EXCEPT !.parent = x].id = e.id /\ [e EXCEPT !.parent = x].kind = e.kind
           /\ [e EXCEPT !.parent = x].parent = x /\ [e EXCEPT !.parent = x].ref = e.ref
BY DEF LogLine

\* Its entries: the branch without its label records, and a new label record
\* for each label.
CloneShape(es, A, L) ==
    /\ es \in Seq(LogLine) /\ Len(es) = Len(A) + Len(L)
    /\ \A n \in 1..Len(A) :
         /\ es[n].id = A[n] /\ es[n].kind = ById(entries, A[n]).kind
         /\ es[n].ref = ById(entries, A[n]).ref
         /\ es[n].parent = IF n = 1 THEN 0 ELSE A[n - 1]
    /\ \A n \in 1..Len(L) :
         es[Len(A) + n] = [id |-> next + n - 1, kind |-> "label", ref |-> L[n],
                           parent |-> IF n = 1 THEN A[Len(A)] ELSE next + n - 2]

LEMMA CloneEntries ==
    ASSUME LogInv, NEW ids, ids \subseteq Ids(entries), NEW es, es = rechain_with_labels(ids),
           NEW A, A = Base(ids), NEW L, L = Labelled(ids)
    PROVE  CloneShape(es, A, L)
<1>1. next \in Nat /\ next >= 1 /\ entries \in Seq(LogLine) /\ Sound(ToSet(entries), next)
  <2>1. next \in Nat /\ next >= 1 /\ next <= next /\ entries \in Seq(LogLine)
    BY SessionLogAssumption DEF LogInv, LogTypes, SessionLogAssumption
  <2>2. PICK U : U = ToSet(entries) \cup ToSet(pending_lines) \cup Parsed(file)
    OBVIOUS
  <2>3. Sound(U, next) /\ ToSet(entries) \subseteq U
    BY <2>2 DEF LogInv
  <2> QED BY <2>1, <2>3, SoundSubset
<1>2. /\ A \in Seq(Nat) /\ Len(A) \in Nat /\ L \in Seq(Nat) /\ Len(L) \in Nat
      /\ \A n \in 1..Len(A) : A[n] \in ids /\ A[n] \in 1..next - 1
      /\ Len(L) # 0 => Len(A) # 0
  BY CloneParts
<1>3. PICK a \in Nat, b \in Nat : a = Len(A) /\ b = Len(L) /\ (b # 0 => a # 0)
  BY <1>2
<1>4. DOMAIN A = 1..a /\ DOMAIN L = 1..b /\ \A n \in 1..b : L[n] \in Nat
  BY <1>2, <1>3, LenProperties, ElementOfSeq
<1>5. \A e \in ToSet(entries) : e \in LogLine
  <2>1. DOMAIN entries = 1..Len(entries) /\ \A i \in 1..Len(entries) : entries[i] \in LogLine
    BY <1>1, LenProperties, ElementOfSeq
  <2> QED BY <2>1 DEF ToSet
<1> DEFINE P == [n \in 1..a |-> [ById(entries, A[n]) EXCEPT !.parent = IF n = 1 THEN 0 ELSE A[n - 1]]]
           Q == [n \in 1..b |-> [id |-> next + n - 1, kind |-> "label", ref |-> L[n],
                                 parent |-> IF n = 1 THEN A[a] ELSE next + n - 2]]
<1>6. es = P \o Q
  BY <1>3, <1>4 DEF rechain_with_labels, Base, Labelled, Last
<1>7. ASSUME NEW n \in 1..a
      PROVE  /\ P[n] \in LogLine /\ P[n].id = A[n] /\ P[n].kind = ById(entries, A[n]).kind
             /\ P[n].ref = ById(entries, A[n]).ref
             /\ P[n].parent = IF n = 1 THEN 0 ELSE A[n - 1]
  <2>1. A[n] \in Ids(entries)
    BY <1>2, <1>3
  <2>2. PICK e \in LogLine : e = ById(entries, A[n]) /\ e.id = A[n]
    BY <1>1, <1>5, <2>1, SoundById
  <2>3. PICK x \in Nat : x = IF n = 1 THEN 0 ELSE A[n - 1]
    <3>1. CASE n = 1
      BY <3>1
    <3>2. CASE n # 1
      <4>1. n - 1 \in 1..a
        BY <3>2
      <4> QED BY <1>1, <1>2, <1>3, <3>2, <4>1
    <3> QED BY <3>1, <3>2
  <2>4. P[n] = [e EXCEPT !.parent = x]
    BY <2>2, <2>3
  <2> HIDE DEF P
  <2> QED BY <2>2, <2>3, <2>4, Reparented
<1>8. ASSUME NEW n \in 1..b
      PROVE  /\ Q[n] \in LogLine
             /\ Q[n] = [id |-> next + n - 1, kind |-> "label", ref |-> L[n],
                        parent |-> IF n = 1 THEN A[a] ELSE next + n - 2]
  <2>1. a \in 1..a /\ A[a] \in Nat
    BY <1>1, <1>2, <1>3
  <2>2. PICK x \in Nat : x = IF n = 1 THEN A[a] ELSE next + n - 2
    <3>1. CASE n = 1
      BY <2>1, <3>1
    <3>2. CASE n # 1
      <4>1. next + n - 2 \in Nat
        BY <1>1, <3>2
      <4> QED BY <3>2, <4>1
    <3> QED BY <3>1, <3>2
  <2>3. next + n - 1 \in Nat /\ L[n] \in Nat /\ "label" \in LineKinds
    BY <1>1, <1>4 DEF LineKinds, LabelKinds
  <2>4. Q[n] = [id |-> next + n - 1, kind |-> "label", ref |-> L[n], parent |-> x]
    BY <2>2
  <2>5. [id |-> next + n - 1, kind |-> "label", ref |-> L[n], parent |-> x] \in LogLine
    BY <2>3 DEF LogLine
  <2> QED BY <2>2, <2>4, <2>5
<1>9. P \in Seq(LogLine) /\ Len(P) = a /\ Q \in Seq(LogLine) /\ Len(Q) = b
  <2>1. DOMAIN P = 1..a /\ DOMAIN Q = 1..b
    OBVIOUS
  <2>2. P \in [1..a -> LogLine] /\ Q \in [1..b -> LogLine]
    <3>1. P = [n \in 1..a |-> P[n]] /\ Q = [n \in 1..b |-> Q[n]]
      OBVIOUS
    <3> HIDE DEF P, Q
    <3> QED BY <1>7, <1>8, <3>1
  <2> HIDE DEF P, Q
  <2>3. P \in Seq(LogLine) /\ Q \in Seq(LogLine)
    BY <2>2, SeqDef
  <2> QED BY <2>1, <2>3, LenProperties
<1> HIDE DEF P, Q
<1>10. /\ es \in Seq(LogLine) /\ Len(es) = a + b
       /\ \A n \in 1..a + b : es[n] = IF n <= a THEN P[n] ELSE Q[n - a]
  <2>1. PICK p \in Seq(LogLine), q \in Seq(LogLine) : p = P /\ q = Q
    BY <1>9
  <2>2. Len(p) = a /\ Len(q) = b /\ es = p \o q
    BY <1>6, <1>9, <2>1
  <2>3. /\ p \o q \in Seq(LogLine) /\ Len(p \o q) = Len(p) + Len(q)
        /\ \A n \in 1..Len(p) + Len(q) : (p \o q)[n] = IF n <= Len(p) THEN p[n] ELSE q[n - Len(p)]
    BY ConcatProperties
  <2> QED BY <2>1, <2>2, <2>3
<1>11. \A n \in 1..a : es[n] = P[n]
  BY <1>10
<1>12. \A n \in 1..b : es[a + n] = Q[n]
  BY <1>10
<1>13. ASSUME NEW n \in 1..Len(A)
       PROVE  /\ es[n].id = A[n] /\ es[n].kind = ById(entries, A[n]).kind
              /\ es[n].ref = ById(entries, A[n]).ref
              /\ es[n].parent = IF n = 1 THEN 0 ELSE A[n - 1]
  BY <1>3, <1>7, <1>11
<1>14. ASSUME NEW n \in 1..Len(L)
       PROVE  es[Len(A) + n] = [id |-> next + n - 1, kind |-> "label", ref |-> L[n],
                                parent |-> IF n = 1 THEN A[Len(A)] ELSE next + n - 2]
  <2>1. n \in 1..b /\ es[a + n] = Q[n]
    BY <1>3, <1>12
  <2> QED BY <1>3, <1>8, <2>1
<1>15. Len(es) = Len(A) + Len(L)
  BY <1>3, <1>10
<1> QED BY <1>10, <1>13, <1>14, <1>15 DEF CloneShape

\* One record after the other, each the child of the one before.
Linear(es) ==
    /\ \A n \in DOMAIN es : es[n].parent = IF n = 1 THEN 0 ELSE es[n - 1].id
    /\ \A n, o \in DOMAIN es : n < o => es[n].id < es[o].id

LEMMA LinearSound ==
    ASSUME NEW es \in Seq(LogLine), Linear(es), NEW N \in Nat,
           \A n \in DOMAIN es : es[n].id \in 1..N - 1 /\ es[n].kind \notin NoRecord
    PROVE  Sound(ToSet(es), N) /\ Closed(ToSet(es))
<1>1. Len(es) \in Nat /\ DOMAIN es = 1..Len(es)
  BY LenProperties
<1>2. ASSUME NEW n \in DOMAIN es
      PROVE  es[n].parent \in 0..es[n].id - 1 /\ es[n].parent \in IdSet(ToSet(es)) \cup {0}
  <2>1. CASE n = 1
    BY <2>1 DEF Linear
  <2>2. CASE n # 1
    <3>1. n - 1 \in DOMAIN es /\ n - 1 < n
      BY <1>1, <2>2
    <3>2. es[n].parent = es[n - 1].id /\ es[n - 1].id < es[n].id
      BY <2>2, <3>1 DEF Linear
    <3>3. es[n - 1].id \in IdSet(ToSet(es))
      BY <3>1 DEF IdSet, ToSet
    <3> QED BY <3>1, <3>2, <3>3
  <2> QED BY <2>1, <2>2
<1>3. ASSUME NEW n \in DOMAIN es, NEW o \in DOMAIN es, es[n].id = es[o].id PROVE n = o
  <2>1. ~(n < o) /\ ~(o < n)
    BY <1>3 DEF Linear
  <2> QED BY <1>1, <2>1
<1>4. \A d, e \in ToSet(es) : d.id = e.id => d = e
  BY <1>3 DEF ToSet
<1>5. \A e \in ToSet(es) : /\ e.id \in 1..N - 1 /\ e.parent \in 0..e.id - 1 /\ e.kind \notin NoRecord
                           /\ e.parent \in IdSet(ToSet(es)) \cup {0}
  BY <1>2 DEF ToSet
<1> QED BY <1>4, <1>5 DEF Sound, Closed

LEMMA CloneLinear ==
    ASSUME LogInv, NEW ids, ids \subseteq Ids(entries), NEW es, es = rechain_with_labels(ids),
           NEW A, A = Base(ids), NEW L, L = Labelled(ids)
    PROVE  /\ Linear(es) /\ Len(L) \in Nat /\ next \in Nat \ {0}
           /\ \A n \in DOMAIN es : es[n].id \in 1..next + Len(L) - 1 /\ es[n].kind \notin NoRecord
           /\ Ids(es) \ Ids(entries) = next..next + Len(L) - 1
<1>1. /\ next \in Nat /\ next >= 1
      /\ \A i \in Ids(entries) : i \in 1..next - 1 /\ ById(entries, i).kind \notin NoRecord
  <2>1. next \in Nat /\ next >= 1 /\ next <= next
    BY SessionLogAssumption DEF LogInv, LogTypes, SessionLogAssumption
  <2>2. PICK U : U = ToSet(entries) \cup ToSet(pending_lines) \cup Parsed(file)
    OBVIOUS
  <2>3. Sound(U, next) /\ ToSet(entries) \subseteq U
    BY <2>2 DEF LogInv
  <2>4. Sound(ToSet(entries), next)
    BY <2>1, <2>3, SoundSubset
  <2>5. \A i \in Ids(entries) : ById(entries, i) \in ToSet(entries) /\ ById(entries, i).id = i
    BY <2>4, SoundById
  <2> QED BY <2>1, <2>4, <2>5 DEF Sound
<1>2. /\ Len(A) \in Nat /\ Len(L) \in Nat
      /\ \A n \in 1..Len(A) : A[n] \in ids /\ A[n] \in 1..next - 1
      /\ \A j, k \in 1..Len(A) : j < k => A[j] < A[k]
      /\ Len(L) # 0 => Len(A) # 0
  BY CloneParts
<1>3. /\ es \in Seq(LogLine) /\ Len(es) = Len(A) + Len(L)
      /\ \A n \in 1..Len(A) :
           /\ es[n].id = A[n] /\ es[n].kind = ById(entries, A[n]).kind
           /\ es[n].parent = IF n = 1 THEN 0 ELSE A[n - 1]
      /\ \A n \in 1..Len(L) :
           es[Len(A) + n] = [id |-> next + n - 1, kind |-> "label", ref |-> L[n],
                             parent |-> IF n = 1 THEN A[Len(A)] ELSE next + n - 2]
  <2>1. CloneShape(es, A, L)
    BY CloneEntries
  <2> QED BY <2>1 DEF CloneShape
<1>4. PICK a \in Nat, b \in Nat : a = Len(A) /\ b = Len(L) /\ (b # 0 => a # 0)
  BY <1>2
<1>5. DOMAIN es = 1..a + b
  BY <1>3, <1>4, LenProperties
<1>6. ASSUME NEW n \in 1..a
      PROVE  /\ es[n].id = A[n] /\ es[n].kind \notin NoRecord /\ A[n] \in Ids(entries)
             /\ A[n] \in 1..next - 1
             /\ es[n].parent = IF n = 1 THEN 0 ELSE A[n - 1]
  BY <1>1, <1>2, <1>3, <1>4
<1>7. ASSUME NEW n \in a + 1..a + b
      PROVE  /\ es[n].id = next + (n - a) - 1 /\ es[n].kind = "label"
             /\ es[n].parent = IF n = a + 1 THEN A[a] ELSE next + (n - a) - 2
  <2>0. n - a \in 1..b /\ n = a + (n - a)
    OBVIOUS
  <2>1. PICK k \in 1..b : k = n - a /\ n = a + k
    BY <2>0
  <2>2. es[a + k] = [id |-> next + k - 1, kind |-> "label", ref |-> L[k],
                     parent |-> IF k = 1 THEN A[a] ELSE next + k - 2]
    BY <1>3, <1>4
  <2>3. /\ es[n].id = next + k - 1 /\ es[n].kind = "label"
        /\ es[n].parent = IF k = 1 THEN A[a] ELSE next + k - 2
    BY <2>1, <2>2
  <2>4. k = 1 <=> n = a + 1
    BY <2>1
  <2> QED BY <2>1, <2>3, <2>4
<1>8. \A n \in 1..a + b : n \in 1..a \/ n \in a + 1..a + b
  OBVIOUS
<1>9. ASSUME NEW n \in 1..a + b
      PROVE  es[n].id \in 1..next + b - 1 /\ es[n].kind \notin NoRecord
  <2>1. CASE n \in 1..a
    BY <1>1, <1>6, <2>1
  <2>2. CASE n \in a + 1..a + b
    <3>1. es[n].id \in 1..next + b - 1
      BY <1>1, <1>7, <2>2
    <3> QED BY <1>7, <2>2, <3>1 DEF NoRecord
  <2> QED BY <1>8, <2>1, <2>2
<1>10. ASSUME NEW n \in 1..a + b PROVE es[n].parent = IF n = 1 THEN 0 ELSE es[n - 1].id
  <2>1. CASE n = 1
    <3>1. n \in 1..a
      BY <1>4, <2>1
    <3> QED BY <1>6, <2>1, <3>1
  <2>2. CASE n # 1 /\ n \in 1..a
    <3>1. n - 1 \in 1..a
      BY <2>2
    <3> QED BY <1>6, <2>2, <3>1
  <2>3. CASE n # 1 /\ n = a + 1
    <3>1. n - 1 = a /\ a \in 1..a /\ n \in a + 1..a + b
      BY <2>3
    <3> QED BY <1>6, <1>7, <2>3, <3>1
  <2>4. CASE n # 1 /\ n \in a + 2..a + b
    <3>1. n - 1 \in a + 1..a + b /\ n \in a + 1..a + b /\ n # a + 1
      BY <2>4
    <3>2. es[n - 1].id = next + (n - 1 - a) - 1 /\ es[n].parent = next + (n - a) - 2
      BY <1>7, <3>1
    <3> QED BY <1>1, <2>4, <3>2
  <2> QED BY <2>1, <2>2, <2>3, <2>4
<1>11. ASSUME NEW n \in 1..a + b, NEW o \in 1..a + b, n < o PROVE es[n].id < es[o].id
  <2>1. CASE n \in 1..a /\ o \in 1..a
    BY <1>2, <1>4, <1>6, <1>11, <2>1
  <2>2. CASE n \in 1..a /\ o \in a + 1..a + b
    BY <1>1, <1>6, <1>7, <2>2
  <2>3. CASE n \in a + 1..a + b /\ o \in a + 1..a + b
    BY <1>1, <1>7, <1>11, <2>3
  <2> QED BY <1>8, <1>11, <2>1, <2>2, <2>3
<1>12. Linear(es)
  BY <1>5, <1>10, <1>11 DEF Linear
<1>13. ASSUME NEW i \in Ids(es) \ Ids(entries) PROVE i \in next..next + b - 1
  <2>1. PICK n \in 1..a + b : i = es[n].id
    BY <1>5 DEF Ids
  <2>2. n \in a + 1..a + b
    BY <1>6, <1>8, <2>1
  <2> QED BY <1>1, <1>7, <2>1, <2>2
<1>14. ASSUME NEW i \in next..next + b - 1 PROVE i \in Ids(es) \ Ids(entries)
  <2>1. PICK n \in a + 1..a + b : n = i - next + 1 + a
    BY <1>1
  <2>2. es[n].id = i
    BY <1>1, <1>7, <2>1
  <2>3. n \in DOMAIN es
    BY <1>5
  <2>4. i \notin Ids(entries)
    BY <1>1
  <2> QED BY <2>2, <2>3, <2>4 DEF Ids
<1> QED BY <1>1, <1>4, <1>5, <1>9, <1>12, <1>13, <1>14

LEMMA ClonePathIn ==
    ASSUME LogInv, NEW i, Known(i)
    PROVE  path_to(entries, i) \subseteq Ids(entries)
<1>1. next \in 1..MaxEntries + 1 /\ MaxEntries \in Nat
  BY SessionLogAssumption DEF LogInv, LogTypes, SessionLogAssumption
<1>2. PICK U : U = ToSet(entries) \cup ToSet(pending_lines) \cup Parsed(file)
  OBVIOUS
<1>3. Sound(U, next) /\ ToSet(entries) \subseteq U /\ next \in Nat /\ next <= next
  BY <1>1, <1>2 DEF LogInv
<1>4. Sound(ToSet(entries), next)
  BY <1>3, SoundSubset
<1>5. Grows(entries)
  BY <1>1, <1>4, SoundGrows
<1>6. i \in 0..MaxEntries
  BY <1>1, <1>5 DEF Known, Grows
<1> QED BY <1>5, <1>6, PathIn

\* The records that are made anew.
LEMMA CloneCount ==
    ASSUME LogInv, NEW ids, ids \subseteq Ids(entries), NEW es, es = rechain_with_labels(ids),
           NEW b, b = Len(Labelled(ids))
    PROVE  Cardinality(Ids(es) \ Ids(entries)) = b
<1>1. b \in Nat /\ next \in Nat \ {0} /\ Ids(es) \ Ids(entries) = next..next + b - 1
  BY CloneLinear
<1>2. PICK hi \in Int : hi = next + b - 1
  BY <1>1
<1>3. next \in Int /\ (IF next > hi THEN 0 ELSE hi - next + 1) = b
  BY <1>1, <1>2
<1>4. Cardinality(next..hi) = IF next > hi THEN 0 ELSE hi - next + 1
  BY <1>3, FS_Interval
<1> QED BY <1>1, <1>2, <1>3, <1>4

-----------------------------------------------------------------------------
(* The order of the lines *)

LEMMA BehindConcat ==
    ASSUME NEW a \in Seq(LogLine), NEW c \in Seq(LogLine), NEW S, NEW T, Behind(S, a), Behind(T, c),
           T \subseteq S \cup IdSet(Parsed(a))
    PROVE  Behind(S, a \o c)
<1>1. PICK s : s = a \o c
  OBVIOUS
<1>2. PICK m \in Nat, n \in Nat : m = Len(a) /\ n = Len(c) /\ DOMAIN a = 1..m /\ DOMAIN c = 1..n
  BY LenProperties
<1>3. /\ DOMAIN s = 1..m + n
      /\ \A i \in 1..m + n : s[i] = IF i <= m THEN a[i] ELSE c[i - m]
  BY <1>1, <1>2, ConcatProperties, LenProperties
<1>4. ASSUME NEW k \in 1..m + n
      PROVE  \/ s[k].kind \in NoRecord \/ s[k].parent \in S
             \/ \E j \in 1..k - 1 : s[j].kind \notin NoRecord /\ s[j].id = s[k].parent
  <2>1. CASE k <= m
    <3>1. k \in 1..m /\ s[k] = a[k] /\ \A j \in 1..k - 1 : s[j] = a[j]
      BY <1>3, <2>1
    <3>2. \/ a[k].kind \in NoRecord \/ a[k].parent \in S
          \/ \E j \in 1..k - 1 : a[j].kind \notin NoRecord /\ a[j].id = a[k].parent
      BY <1>2, <3>1 DEF Behind
    <3> QED BY <3>1, <3>2
  <2>2. CASE ~(k <= m)
    <3>1. PICK i \in 1..n : i = k - m /\ k = m + i /\ s[k] = c[i]
      <4>1. k - m \in 1..n /\ k = m + (k - m) /\ s[k] = c[k - m]
        BY <1>3, <2>2
      <4> QED BY <4>1
    <3>2. \/ c[i].kind \in NoRecord \/ c[i].parent \in T
          \/ \E j \in 1..i - 1 : c[j].kind \notin NoRecord /\ c[j].id = c[i].parent
      BY <1>2 DEF Behind
    <3>3. ASSUME NEW j \in 1..i - 1, c[j].kind \notin NoRecord, c[j].id = c[i].parent
          PROVE  \E p \in 1..k - 1 : s[p].kind \notin NoRecord /\ s[p].id = s[k].parent
      <4>1. m + j \in 1..k - 1 /\ m + j \in 1..m + n /\ ~(m + j <= m) /\ (m + j) - m = j
        BY <3>1
      <4>2. s[m + j] = c[j]
        BY <1>3, <4>1
      <4> QED BY <3>1, <3>3, <4>1, <4>2
    <3>4. ASSUME c[i].parent \in IdSet(Parsed(a))
          PROVE  \E p \in 1..k - 1 : s[p].kind \notin NoRecord /\ s[p].id = s[k].parent
      <4>1. PICK p \in 1..m : a[p].id = c[i].parent /\ a[p].kind \notin NoRecord
        BY <1>2, <3>4 DEF IdSet, Parsed, ToSet, NoRecord
      <4>2. p \in 1..k - 1 /\ s[p] = a[p]
        BY <1>3, <2>2
      <4> QED BY <3>1, <4>1, <4>2
    <3> QED BY <3>1, <3>2, <3>3, <3>4
  <2> QED BY <2>1, <2>2
<1> QED BY <1>1, <1>3, <1>4 DEF Behind

LEMMA BehindFirst ==
    ASSUME NEW b \in Seq(LogLine), NEW S, Behind(S, b), NEW m \in 0..Len(b)
    PROVE  SubSeq(b, 1, m) \in Seq(LogLine) /\ Behind(S, SubSeq(b, 1, m))
           /\ Parsed(SubSeq(b, 1, m)) \subseteq Parsed(b)
<1>1. Len(b) \in Nat /\ DOMAIN b = 1..Len(b)
  BY LenProperties
<1>2. PICK u : u = SubSeq(b, 1, m)
  OBVIOUS
<1>3. u \in Seq(LogLine) /\ DOMAIN u = 1..m /\ \A i \in 1..m : u[i] = b[i] /\ i \in DOMAIN b
  BY <1>1, <1>2
<1>4. ASSUME NEW k \in 1..m
      PROVE  \/ u[k].kind \in NoRecord \/ u[k].parent \in S
             \/ \E j \in 1..k - 1 : u[j].kind \notin NoRecord /\ u[j].id = u[k].parent
  <2>1. \/ b[k].kind \in NoRecord \/ b[k].parent \in S
        \/ \E j \in 1..k - 1 : b[j].kind \notin NoRecord /\ b[j].id = b[k].parent
    BY <1>3 DEF Behind
  <2>2. \A j \in 1..k - 1 : j \in 1..m
    BY <1>1
  <2> QED BY <1>3, <2>1, <2>2
<1>5. Behind(S, u)
  BY <1>3, <1>4 DEF Behind
<1>6. Parsed(u) \subseteq Parsed(b)
  BY <1>3 DEF Parsed, ToSet
<1> QED BY <1>2, <1>3, <1>5, <1>6

LEMMA SubSeqIn ==
    ASSUME NEW b \in Seq(LogLine), NEW n \in 0..Len(b) PROVE SubSeq(b, 1, n) \in Seq(LogLine)
<1>1. Len(b) \in Nat /\ n \in Nat /\ n <= Len(b) /\ DOMAIN b = 1..Len(b)
  BY LenProperties
<1> QED BY <1>1

\* Whatever the writing of b stops with: its first lines, and perhaps a torn one.
LEMMA StopsWith ==
    ASSUME NEW b \in Seq(LogLine), NEW n \in 0..Len(b), NEW rest \in Cut(b, n)
    PROVE  /\ rest \in Seq(LogLine)
           /\ \E m \in 0..Len(b) : \E g \in {<<>>, <<GARBAGE>>} :
                SubSeq(b, 1, n) \o rest = SubSeq(b, 1, m) \o g
<1>1. PICK c \in Nat : c = Len(b) /\ n \in Nat /\ n <= c
  BY LenProperties
<1>2. \/ rest = <<>> \/ rest = <<GARBAGE>>
      \/ n # Len(b) /\ rest = <<b[n + 1]>>
  BY Zenon DEF Cut
<1>3. CASE rest = <<>> \/ rest = <<GARBAGE>>
  <2>1. <<>> \in Seq(LogLine) /\ <<GARBAGE>> \in Seq(LogLine)
    BY ParsedLines
  <2> QED BY <1>3, <2>1
<1>4. CASE n # Len(b) /\ rest = <<b[n + 1]>>
  <2>0. n # Len(b)
    BY <1>4, Zenon
  <2>1. n + 1 \in 1..c /\ n + 1 \in 0..c
    BY <1>1, <2>0
  <2>2. SubSeq(b, 1, n) \o rest = SubSeq(b, 1, n + 1)
    BY <1>1, <1>4, <2>1, SubSeqNext
  <2>3. SubSeq(b, 1, n + 1) \in Seq(LogLine)
    BY <1>1, <2>1, SubSeqIn
  <2>4. SubSeq(b, 1, n + 1) \o <<>> = SubSeq(b, 1, n + 1)
    BY <2>3, ConcatEmptySeq
  <2>5. PICK x \in LogLine : x = b[n + 1]
    BY <1>1, <2>1, ElementOfSeq
  <2>6. rest \in Seq(LogLine)
    BY <1>4, <2>5
  <2> QED BY <1>1, <2>1, <2>2, <2>4, <2>6
<1> QED BY <1>2, <1>3, <1>4

Leaves(b, all) == \E n \in 0..Len(b) : \E rest \in Cut(b, n) : all = SubSeq(b, 1, n) \o rest

LEMMA StopsBehind ==
    ASSUME NEW b \in Seq(LogLine), NEW all, Leaves(b, all), NEW S, Behind(S, b)
    PROVE  all \in Seq(LogLine) /\ Parsed(all) \subseteq Parsed(b) /\ Behind(S, all)
<1>0. PICK n \in 0..Len(b) : \E rest \in Cut(b, n) : all = SubSeq(b, 1, n) \o rest
  BY DEF Leaves
<1>1. PICK m \in 0..Len(b), g \in {<<>>, <<GARBAGE>>} : all = SubSeq(b, 1, m) \o g
  <2>1. PICK rest \in Cut(b, n) : all = SubSeq(b, 1, n) \o rest
    BY <1>0
  <2>2. \E m \in 0..Len(b) : \E g \in {<<>>, <<GARBAGE>>} :
          SubSeq(b, 1, n) \o rest = SubSeq(b, 1, m) \o g
    BY StopsWith
  <2> QED BY <2>1, <2>2, Zenon
<1>3. /\ <<>> \in Seq(LogLine) /\ <<GARBAGE>> \in Seq(LogLine)
      /\ Parsed(<<>>) = {} /\ Parsed(<<GARBAGE>>) = {}
      /\ DOMAIN <<>> = {} /\ DOMAIN <<GARBAGE>> = {1} /\ GARBAGE.kind \in NoRecord
  BY ParsedLines DEF GARBAGE, NoRecord
<1>4. Behind({}, g) /\ g \in Seq(LogLine) /\ Parsed(g) = {}
  <2>1. CASE g = <<>>
    BY <1>3, <2>1 DEF Behind
  <2>2. CASE g = <<GARBAGE>>
    <3>1. \A k \in DOMAIN g : g[k] = GARBAGE
      BY <1>3, <2>2
    <3>2. Behind({}, g)
      BY <1>3, <3>1 DEF Behind
    <3> QED BY <1>3, <2>2, <3>2
  <2> QED BY <2>1, <2>2
<1>5. PICK u \in Seq(LogLine) : u = SubSeq(b, 1, m)
  BY SubSeqIn
<1>6. all \in Seq(LogLine) /\ Parsed(all) = Parsed(u)
  <2>1. u \o g \in Seq(LogLine) /\ Parsed(u \o g) = Parsed(u) \cup Parsed(g)
    BY <1>4, ParsedConcat
  <2> QED BY <1>1, <1>4, <1>5, <2>1
<1>7. Parsed(u) \subseteq Parsed(b)
  BY <1>5, BehindFirst
<1>8. Behind(S, all)
  <2>1. Behind(S, u)
    BY <1>5, BehindFirst
  <2>2. {} \subseteq S \cup IdSet(Parsed(u))
    OBVIOUS
  <2>3. Behind(S, u \o g)
    BY <1>4, <2>1, <2>2, BehindConcat
  <2> QED BY <1>1, <1>5, <2>3
<1> QED BY <1>6, <1>7, <1>8

LEMMA BehindClosed ==
    ASSUME NEW s \in Seq(LogLine), Behind({0}, s) PROVE Closed(Parsed(s))
<1>1. Len(s) \in Nat /\ DOMAIN s = 1..Len(s)
  BY LenProperties
<1>2. ASSUME NEW e \in Parsed(s) PROVE e.parent \in IdSet(Parsed(s)) \cup {0}
  <2>1. PICK k \in DOMAIN s : s[k] = e /\ e.kind \notin NoRecord
    BY <1>2 DEF Parsed, ToSet, NoRecord
  <2>2. CASE e.parent # 0
    <3>1. PICK j \in 1..k - 1 : s[j].kind \notin NoRecord /\ s[j].id = e.parent
      BY <2>1, <2>2 DEF Behind
    <3>2. j \in DOMAIN s
      BY <1>1
    <3>3. s[j] \in Parsed(s)
      BY <3>1, <3>2 DEF Parsed, ToSet, NoRecord
    <3> QED BY <3>1, <3>3 DEF IdSet
  <2> QED BY <2>2
<1> QED BY <1>2 DEF Closed

\* A load keeps the order.
LEMMA RecordsChained ==
    ASSUME NEW s \in Seq(LogLine), Behind({0}, s) PROVE Chained(Records(s))
<1> DEFINE I == {i \in DOMAIN s : s[i].kind \notin {"header", "garbage"}}
<1>1. Len(s) \in Nat /\ DOMAIN s = 1..Len(s)
  BY LenProperties
<1>2. I \in SUBSET DOMAIN s /\ Records(s) = Select(s, I)
  BY DEF Records
<1>3. I \subseteq Nat /\ IsFiniteSet(I) /\ \A p \in I : p <= Len(s)
  <2>1. I \in SUBSET 1..Len(s)
    BY <1>1, <1>2
  <2>2. IsFiniteSet(1..Len(s))
    BY <1>1, FS_Interval
  <2>3. IsFiniteSet(I)
    BY <2>1, <2>2, FS_Subset
  <2> QED BY <1>1, <2>1, <2>3
<1>4. \A i \in I : i \in DOMAIN s /\ s[i].kind \notin NoRecord
  BY DEF NoRecord
<1>5. \A i \in DOMAIN s : s[i].kind \notin NoRecord => i \in I
  BY DEF NoRecord
<1> HIDE DEF I
<1>6. PICK A : A = Ascending(I)
  OBVIOUS
<1>7. PICK c \in Nat : c = Cardinality(I)
  BY <1>3, FS_CardinalityType
<1>8. /\ \A j, k \in 1..c : j < k => A[j] < A[k]
      /\ \A k \in 1..c : A[k] \in I
      /\ ToSet(A) = I /\ DOMAIN A = 1..c
  <2>1. DOMAIN A = 1..c
    BY <1>6, <1>7 DEF Ascending
  <2> QED BY <1>1, <1>3, <1>6, <1>7, <2>1, AscendingOrder, AscendingIn
<1>9. PICK r : r = Records(s)
  OBVIOUS
<1>10. DOMAIN r = 1..c /\ \A k \in 1..c : r[k] = s[A[k]]
  BY <1>2, <1>6, <1>8, <1>9 DEF Select
<1>11. ASSUME NEW k \in 1..c, r[k].parent # 0
       PROVE  \E j \in 1..k - 1 : r[j].id = r[k].parent
  <2>1. A[k] \in DOMAIN s /\ s[A[k]].kind \notin NoRecord /\ r[k] = s[A[k]] /\ A[k] \in Nat
    BY <1>3, <1>4, <1>8, <1>10
  <2>2. PICK i \in 1..A[k] - 1 : s[i].kind \notin NoRecord /\ s[i].id = r[k].parent
    BY <1>11, <2>1 DEF Behind
  <2>3. i \in DOMAIN s /\ i < A[k]
    BY <1>1, <2>1
  <2>4. i \in I
    BY <1>5, <2>2, <2>3
  <2>5. PICK j \in 1..c : A[j] = i
    BY <1>8, <2>4 DEF ToSet
  <2>6. j < k
    <3>1. CASE j = k
      BY <2>1, <2>3, <2>5, <3>1
    <3>2. CASE k < j
      <4>1. A[k] < i
        BY <1>8, <2>5, <3>2
      <4> QED BY <2>1, <2>3, <4>1
    <3> QED BY <3>1, <3>2
  <2>7. r[j] = s[i] /\ j \in 1..k - 1
    BY <1>10, <2>5, <2>6
  <2> QED BY <2>2, <2>7
<1>12. Chained(r)
  BY <1>10, <1>11 DEF Chained
<1> QED BY <1>9, <1>12

\* A file with the records es.
LEMMA FileOf ==
    ASSUME NEW es \in Seq(LogLine), \A e \in ToSet(es) : e.kind \notin NoRecord,
           NEW b, b = <<HEADER>> \o es
    PROVE  /\ b \in Seq(LogLine) /\ Parsed(b) = ToSet(es)
           /\ Chained(es) => Behind({0}, b)
<1>1. <<HEADER>> \in Seq(LogLine) /\ Parsed(<<HEADER>>) = {} /\ DOMAIN <<HEADER>> = {1}
  BY ParsedLines
<1>2. PICK h \in Seq(LogLine) : h = <<HEADER>> /\ Parsed(h) = {} /\ DOMAIN h = {1}
  BY <1>1
<1>3. b \in Seq(LogLine) /\ Parsed(b) = Parsed(h) \cup Parsed(es)
  BY <1>2, ParsedConcat
<1>4. Parsed(es) = ToSet(es)
  BY DEF Parsed, NoRecord
<1>5. Behind({0}, h)
  <2>1. \A k \in DOMAIN h : h[k] = HEADER
    BY <1>2
  <2> QED BY <2>1 DEF Behind, HEADER, NoRecord
<1>6. ASSUME Chained(es) PROVE Behind({0}, b)
  <2>1. Len(es) \in Nat /\ DOMAIN es = 1..Len(es)
    BY LenProperties
  <2>2. ASSUME NEW k \in DOMAIN es, NEW j \in 1..k - 1, es[j].id = es[k].parent
        PROVE  es[j].kind \notin NoRecord
    <3>1. j \in DOMAIN es
      BY <2>1
    <3> QED BY <3>1 DEF ToSet
  <2>3. Behind({0}, es)
    BY <1>6, <2>2 DEF Behind, Chained
  <2>4. {0} \subseteq {0} \cup IdSet(Parsed(h))
    OBVIOUS
  <2> QED BY <1>2, <1>5, <2>3, <2>4, BehindConcat
<1> QED BY <1>2, <1>3, <1>4, <1>6

\* What an append writes, whole or in part, comes behind what is there.
LEMMA OrderAppend ==
    ASSUME LogInv, OrderInv, NEW l, Fits(l), alive, CanOpen(l), torn = "no",
           NEW n \in 0..Len(Batch(l)), NEW rest \in Cut(Batch(l), n),
           Write(SubSeq(Batch(l), 1, n), rest)
    PROVE  Behind({0}, file')
<1>0. Batch(l) \in Seq(LogLine)
  BY BatchHolds
<1>1. PICK b \in Seq(LogLine) : b = Batch(l)
  BY <1>0
<1>2. PICK all : all = SubSeq(b, 1, n) \o rest
  OBVIOUS
<1>4. file \in Seq(LogLine) /\ Behind({0}, file) /\ session_flushed \in BOOLEAN
  BY DEF LogInv, LogTypes, OrderInv
<1>5. terminated \/ needs_separator
  <2>1. CASE session_flushed
    BY <2>1 DEF LogInv
  <2>2. CASE ~session_flushed
    BY <2>2, NoFileYet
  <2> QED BY <1>4, <2>1, <2>2
<1>6. file' = file \o all
  BY <1>1, <1>2, <1>5 DEF Write
<1>7. Behind({0} \cup IdSet(Parsed(file)), b)
  <2>1. CASE session_flushed
    <3>1. b = <<l>> /\ l.parent \in IdSet(ToSet(entries)) \cup {0}
      BY <1>1, <2>1 DEF Batch, Fits
    <3>2. ToSet(entries) \subseteq Parsed(file)
      BY <2>1 DEF LogInv, Holds
    <3>3. l.parent \in {0} \cup IdSet(Parsed(file))
      BY <3>1, <3>2 DEF IdSet
    <3>4. DOMAIN b = {1} /\ b[1] = l
      BY <3>1
    <3> QED BY <3>3, <3>4 DEF Behind
  <2>2. CASE ~session_flushed
    <3>1. PICK r : r = Append(entries, l)
      OBVIOUS
    <3>2. /\ r \in Seq(LogLine) /\ ToSet(r) = ToSet(entries) \cup {l} /\ Chained(r)
          /\ b = <<HEADER>> \o r
      BY <1>1, <2>2, <3>1, FirstBatch
    <3>3. \A e \in ToSet(r) : e.kind \notin NoRecord
      BY <3>2 DEF LogInv, Fits, Sound
    <3>4. Behind({0}, b)
      BY <3>2, <3>3, FileOf
    <3> QED BY <3>4 DEF Behind
  <2> QED BY <1>4, <2>1, <2>2
<1>3. PICK S : S = {0} \cup IdSet(Parsed(file))
  OBVIOUS
<1>8. all \in Seq(LogLine) /\ Behind(S, all)
  <2>1. Leaves(b, all) /\ Behind(S, b)
    BY <1>1, <1>2, <1>3, <1>7 DEF Leaves
  <2> QED BY <2>1, StopsBehind
<1> QED BY <1>3, <1>4, <1>6, <1>8, BehindConcat

LEMMA OrderAttempt ==
    ASSUME LogInv, OrderInv, NEW l, Fits(l), Attempt(l) PROVE OrderInv'
<1>1. alive
  BY DEF Attempt
<1>2. entries \in Seq(LogLine) /\ l \in LogLine /\ l.parent \in IdSet(ToSet(entries)) \cup {0}
  BY DEF LogInv, LogTypes, Fits
<1>3. Chained(entries) => Chained(Append(entries, l))
  BY <1>2, ChainedAppend
<1>4. CASE Hold(l)
  <2>1. file' = file /\ torn' = torn /\ entries' = Append(entries, l)
    BY <1>4 DEF Hold, Remember, disk
  <2> QED BY <1>3, <2>1 DEF OrderInv
<1>5. CASE Store(l)
  <2>1. CanOpen(l) /\ Write(Batch(l), <<>>) /\ torn' = torn /\ entries' = Append(entries, l)
    BY <1>5 DEF Store, Remember
  <2>2. ASSUME torn = "no" PROVE Behind({0}, file')
    <3>0. Batch(l) \in Seq(LogLine)
      BY BatchHolds
    <3>1. PICK b \in Seq(LogLine), n \in Nat : b = Batch(l) /\ n = Len(b)
      BY <3>0, LenProperties
    <3>2. n \in 0..Len(b) /\ <<>> \in Cut(b, n) /\ SubSeq(b, 1, n) = b
      <4>1. n \in 0..Len(b) /\ <<>> \in Cut(b, n)
        BY <3>1 DEF Cut
      <4>2. PICK u : u = SubSeq(b, 1, n)
        OBVIOUS
      <4>3. u \in Seq(LogLine) /\ Len(u) = n /\ \A i \in 1..n : u[i] = b[i]
        BY <3>1, <4>2
      <4>4. u = b
        BY <3>1, <4>3, SeqEqual
      <4> QED BY <4>1, <4>2, <4>4
    <3> QED BY <1>1, <2>1, <2>2, <3>1, <3>2, OrderAppend
  <2> QED BY <1>3, <2>1, <2>2 DEF OrderInv
<1>6. CASE Refuse(l) \/ Die(l)
  <2>1. /\ CanOpen(l) /\ WritePart(l) /\ entries' = entries
        /\ torn' = "no" => torn = "no"
    BY <1>6 DEF Refuse, Die, memory
  <2>2. ASSUME torn = "no" PROVE Behind({0}, file')
    <3>1. PICK n \in 0..Len(Batch(l)) : \E rest \in Cut(Batch(l), n) :
            Write(SubSeq(Batch(l), 1, n), rest)
      BY <2>1 DEF WritePart
    <3>2. PICK rest \in Cut(Batch(l), n) : Write(SubSeq(Batch(l), 1, n), rest)
      BY <3>1
    <3> QED BY <1>1, <2>1, <2>2, <3>2, OrderAppend
  <2> QED BY <2>1, <2>2 DEF OrderInv
<1> QED BY <1>4, <1>5, <1>6 DEF Attempt

LEMMA OrderLoad ==
    ASSUME NEW lines \in Seq(LogLine), NEW closed, Load(lines, closed), file' = lines,
           torn = "no" => Behind({0}, lines)
    PROVE  OrderInv'
<1>1. entries' = Records(lines) /\ torn' = (IF torn = "no" THEN "no" ELSE "before")
  BY DEF Load
<1> QED BY <1>1, RecordsChained DEF OrderInv

\* A fork of es: what it needs to know about them.
CopyOf(es) ==
    /\ es \in Seq(LogLine)
    /\ next + Cardinality(Ids(es) \ Ids(entries)) \in Nat \ {0}
    /\ Sound(ToSet(es), next + Cardinality(Ids(es) \ Ids(entries)))
    /\ torn = "no" => Chained(es)

LEMMA OrderFork == ASSUME NEW es, CopyOf(es), Fork(es) PROVE OrderInv'
<1>1. es \in Seq(LogLine) /\ \A e \in ToSet(es) : e.kind \notin NoRecord
  BY DEF CopyOf, Sound
<1>2. PICK b : b = <<HEADER>> \o es
  OBVIOUS
<1>3. b \in Seq(LogLine) /\ (torn = "no" => Behind({0}, b))
  BY <1>1, <1>2, FileOf DEF CopyOf
<1>4. Load(b, TRUE) /\ file' = b
  BY <1>2 DEF Fork
<1> QED BY <1>3, <1>4, OrderLoad

\* A copy that is cut off has the parents of its records.
LEMMA StopKeeps == ASSUME NEW es, CopyOf(es), ForkStops(es) PROVE LogInv' /\ OrderInv'
<1>1. es \in Seq(LogLine) /\ \A e \in ToSet(es) : e.kind \notin NoRecord
  BY DEF CopyOf, Sound
<1>2. PICK b : b = <<HEADER>> \o es
  OBVIOUS
<1>3. /\ b \in Seq(LogLine) /\ Parsed(b) = ToSet(es)
      /\ torn = "no" => Behind({0}, b)
  BY <1>1, <1>2, FileOf DEF CopyOf
<1>4. PICK n \in 0..Len(b) : \E rest \in Cut(b, n) :
        exists' = TRUE /\ file' = SubSeq(b, 1, n) \o rest /\ terminated' = (rest = <<>>)
  BY <1>2 DEF ForkStops
<1>5. PICK rest \in Cut(b, n) :
        exists' = TRUE /\ file' = SubSeq(b, 1, n) \o rest /\ terminated' = (rest = <<>>)
  BY <1>4
<1>6. /\ file' \in Seq(LogLine) /\ Parsed(file') \subseteq ToSet(es)
      /\ file' = <<>> => terminated'
      /\ torn = "no" => Behind({0}, file')
  <2>1. PICK all : all = SubSeq(b, 1, n) \o rest
    OBVIOUS
  <2>2. Leaves(b, all)
    BY <2>1 DEF Leaves
  <2>3. all \in Seq(LogLine) /\ Parsed(all) \subseteq Parsed(b)
    <3>1. PICK S : S = {b[j].parent : j \in DOMAIN b}
      OBVIOUS
    <3>2. Behind(S, b)
      BY <3>1 DEF Behind
    <3> QED BY <1>3, <2>2, <3>2, StopsBehind
  <2>4. Behind({0}, b) => Behind({0}, all)
    BY <1>3, <2>2, StopsBehind
  <2>5. rest \in Seq(LogLine) /\ SubSeq(b, 1, n) \in Seq(LogLine)
    BY <1>3, StopsWith, SubSeqIn
  <2>6. all = <<>> => rest = <<>>
    BY <2>1, <2>5, ConcatEmpty
  <2> QED BY <1>3, <1>5, <2>1, <2>3, <2>4, <2>6
<1>7. PICK N \in Nat \ {0} : N = next + Cardinality(Ids(es) \ Ids(entries))
  BY DEF CopyOf
<1>8. /\ next' = N /\ N <= MaxEntries + 1 /\ alive' = FALSE /\ entries' = <<>> /\ leaf' = 0
      /\ session_flushed' = FALSE /\ pending_lines' = <<>> /\ needs_separator' = FALSE
      /\ torn' = IF torn = "no" THEN "no" ELSE "before"
  BY <1>7 DEF ForkStops, Copy
<1>9. next' \in 1..MaxEntries + 1
  BY <1>8, SessionLogAssumption DEF SessionLogAssumption
<1>10. <<>> \in Seq(LogLine) /\ ToSet(<<>>) = {} /\ Chained(<<>>)
  BY DEF ToSet, Chained
<1>11. LogTypes'
  BY <1>5, <1>6, <1>8, <1>9, <1>10 DEF LogTypes
<1>12. Sound(ToSet(entries') \cup ToSet(pending_lines') \cup Parsed(file'), next')
  <2>1. ToSet(entries') \cup ToSet(pending_lines') \cup Parsed(file') = Parsed(file')
    BY <1>8, <1>10
  <2>2. Sound(ToSet(es), N)
    BY <1>7 DEF CopyOf
  <2>3. N \in Nat /\ N <= N
    OBVIOUS
  <2>4. Sound(Parsed(file'), N)
    BY <1>6, <2>2, <2>3, SoundSubset
  <2> QED BY <1>8, <2>1, <2>4
<1>13. torn = "no" => Closed(Parsed(file'))
  BY <1>6, BehindClosed
<1>14. LogInv'
  BY <1>5, <1>6, <1>8, <1>10, <1>11, <1>12, <1>13 DEF LogInv
<1>15. OrderInv'
  BY <1>6, <1>8, <1>10 DEF OrderInv
<1> QED BY <1>14, <1>15

LEMMA LinearChained ==
    ASSUME NEW es \in Seq(LogLine), Linear(es) PROVE Chained(es)
<1>1. Len(es) \in Nat /\ DOMAIN es = 1..Len(es)
  BY LenProperties
<1>2. ASSUME NEW k \in DOMAIN es
      PROVE  es[k].parent = 0 \/ \E j \in 1..k - 1 : es[j].id = es[k].parent
  <2>1. CASE k = 1
    BY <2>1 DEF Linear
  <2>2. CASE k # 1
    <3>1. k - 1 \in 1..k - 1 /\ es[k].parent = es[k - 1].id
      BY <1>1, <2>2 DEF Linear
    <3> QED BY <3>1
  <2> QED BY <2>1, <2>2
<1> QED BY <1>2 DEF Chained

\* What fork_to copies, and what a clone copies.
LEMMA EntriesCopy == ASSUME LogInv, OrderInv PROVE CopyOf(entries)
<1>1. entries \in Seq(LogLine) /\ next \in Nat \ {0} /\ (torn = "no" => Chained(entries))
  BY SessionLogAssumption DEF LogInv, LogTypes, OrderInv, SessionLogAssumption
<1>2. PICK c : c = Cardinality(Ids(entries) \ Ids(entries))
  OBVIOUS
<1>3. c = 0
  <2>1. PICK X : X = Ids(entries) \ Ids(entries)
    OBVIOUS
  <2>2. X = {}
    BY <2>1
  <2> QED BY <1>2, <2>1, <2>2, FS_EmptySet
<1>4. next + c = next
  BY <1>1, <1>3
<1>5. Sound(ToSet(entries), next)
  <2>1. PICK U : U = ToSet(entries) \cup ToSet(pending_lines) \cup Parsed(file)
    OBVIOUS
  <2>2. Sound(U, next) /\ ToSet(entries) \subseteq U
    BY <2>1 DEF LogInv
  <2>3. next \in Nat /\ next <= next
    BY <1>1
  <2> QED BY <2>2, <2>3, SoundSubset
<1> QED BY <1>1, <1>2, <1>4, <1>5 DEF CopyOf

LEMMA PathCopy ==
    ASSUME LogInv, NEW i, Known(i), NEW es, es = rechain_with_labels(path_to(entries, i))
    PROVE  CopyOf(es)
<1>1. PICK ids : ids = path_to(entries, i)
  OBVIOUS
<1>2. ids \subseteq Ids(entries)
  BY <1>1, ClonePathIn
<1>3. es = rechain_with_labels(ids)
  BY <1>1
<1>4. PICK b : b = Len(Labelled(ids))
  OBVIOUS
<1>5. /\ Linear(es) /\ b \in Nat /\ next \in Nat \ {0}
      /\ \A n \in DOMAIN es : es[n].id \in 1..next + b - 1 /\ es[n].kind \notin NoRecord
      /\ Ids(es) \ Ids(entries) = next..next + b - 1
  BY <1>2, <1>3, <1>4, CloneLinear
<1>6. es \in Seq(LogLine)
  <2>1. CloneShape(es, Base(ids), Labelled(ids))
    BY <1>2, <1>3, CloneEntries
  <2> QED BY <2>1 DEF CloneShape
<1>7. Cardinality(Ids(es) \ Ids(entries)) = b
  BY <1>2, <1>3, <1>4, CloneCount
<1>8. PICK N \in Nat : N = next + b /\ N # 0
  BY <1>5
<1>9. Sound(ToSet(es), N)
  <2>1. N - 1 = next + b - 1
    BY <1>5, <1>8
  <2>2. \A n \in DOMAIN es : es[n].id \in 1..N - 1 /\ es[n].kind \notin NoRecord
    BY <1>5, <2>1
  <2> QED BY <1>5, <1>6, <2>2, LinearSound
<1>10. Chained(es)
  BY <1>5, <1>6, LinearChained
<1> QED BY <1>6, <1>7, <1>8, <1>9, <1>10 DEF CopyOf

\* A new file with the records es.
LEMMA ForkKeeps == ASSUME NEW es, CopyOf(es), Fork(es) PROVE LogInv'
<1>1. es \in Seq(LogLine) /\ \A e \in ToSet(es) : e.kind \notin NoRecord
  BY DEF CopyOf, Sound
<1>2. PICK b : b = <<HEADER>> \o es
  OBVIOUS
<1>3. /\ b \in Seq(LogLine) /\ Parsed(b) = ToSet(es) /\ b # <<>>
      /\ torn = "no" => Closed(Parsed(b))
  <2>1. b # <<>>
    <3>0. <<HEADER>> \in Seq(LogLine)
      BY ParsedLines
    <3>1. PICK h \in Seq(LogLine) : h = <<HEADER>>
      BY <3>0
    <3>2. h # <<>>
      BY <3>1
    <3> QED BY <1>1, <1>2, <3>1, <3>2, ConcatEmpty
  <2> QED BY <1>1, <1>2, <2>1, FileOf, BehindClosed DEF CopyOf
<1>4. PICK n \in Nat \ {0} : n = next + Cardinality(Ids(es) \ Ids(entries))
  BY DEF CopyOf
<1>5. /\ Load(b, TRUE) /\ file' = b /\ terminated' = TRUE /\ exists' = TRUE
      /\ next' = n /\ next' <= MaxEntries + 1
  BY <1>2, <1>4 DEF Fork, Copy
<1>6. next' \in 1..MaxEntries + 1
  BY <1>5, SessionLogAssumption DEF SessionLogAssumption
<1>7. Sound(Parsed(b), next')
  BY <1>3, <1>4, <1>5 DEF CopyOf
<1> QED BY <1>3, <1>5, <1>6, <1>7, LoadKeeps

LEMMA CloneKeeps ==
    ASSUME LogInv, NEW i, clone_path_to(i) PROVE LogInv' /\ OrderInv'
<1>1. PICK es : es = rechain_with_labels(path_to(entries, i))
  OBVIOUS
<1>2. CopyOf(es) /\ Fork(es)
  BY <1>1, PathCopy DEF clone_path_to
<1> QED BY <1>2, ForkKeeps, OrderFork

LEMMA CopyStopKeeps == ASSUME LogInv, OrderInv, copy_stops PROVE LogInv' /\ OrderInv'
<1>1. CASE ForkStops(entries)
  BY <1>1, EntriesCopy, StopKeeps
<1>2. ASSUME NEW i \in Branches, Known(i), ForkStops(rechain_with_labels(path_to(entries, i)))
      PROVE  LogInv' /\ OrderInv'
  <2>1. PICK es : es = rechain_with_labels(path_to(entries, i))
    OBVIOUS
  <2>2. CopyOf(es) /\ ForkStops(es)
    BY <1>2, <2>1, PathCopy
  <2> QED BY <2>2, StopKeeps
<1> QED BY <1>1, <1>2 DEF copy_stops

LEMMA LogStep == ASSUME LogInv, OrderInv, [LogNext]_logVars PROVE LogInv' /\ OrderInv'
<1>1. CASE \/ \E k \in Kinds : append_message(k)
           \/ \E t \in Ids(entries) :
                \/ \E k \in LabelKinds : append_label_change(t, k)
                \/ append_compaction(t) \/ append_branch_summary(t)
  <2>1. PICK k \in LineKinds \ NoRecord, p \in IdSet(ToSet(entries)) \cup {0}, r \in 0..MaxEntries :
          Attempt(Line(k, p, r))
    BY <1>1, AppendsAttempt
  <2>2. r \in Nat
    OBVIOUS
  <2>3. PICK l : l = Line(k, p, r)
    OBVIOUS
  <2>4. Fits(l)
    BY <2>2, <2>3, LineFits
  <2> QED BY <2>1, <2>3, <2>4, AttemptStep, OrderAttempt
<1>2. leaf \in IdSet(ToSet(entries)) \cup {0} /\ alive \in BOOLEAN
  BY DEF LogInv, LogTypes
<1>3. ASSUME file' = file, entries' = entries, torn' = torn PROVE OrderInv'
  BY <1>3 DEF OrderInv
<1>4. ASSUME NEW t \in Ids(entries), set_leaf(t) PROVE LogInv' /\ OrderInv'
  <2>1. NewLeaf(t) \in IdSet(ToSet(entries)) \cup {0}
    BY <1>4, IdsAreIdSet DEF set_leaf, Known
  <2>2. /\ UNCHANGED <<entries, pending_lines, session_flushed, needs_separator, disk, torn, next>>
        /\ leaf' = NewLeaf(t) /\ alive' = alive /\ file' = file
    BY <1>4 DEF set_leaf, disk
  <2> QED BY <1>2, <1>3, <2>1, <2>2, QuietKeeps
<1>5. CASE Exit \/ UNCHANGED logVars
  <2>1. /\ UNCHANGED <<entries, pending_lines, session_flushed, needs_separator, disk, torn, next>>
        /\ leaf' = leaf /\ (alive' = FALSE \/ alive' = alive) /\ file' = file
    BY <1>5 DEF Exit, logVars, memory, disk
  <2>2. alive' \in BOOLEAN /\ (alive' => alive)
    <3>1. CASE alive' = FALSE
      BY <3>1
    <3>2. CASE alive' = alive
      BY <1>2, <3>2
    <3> QED BY <2>1, <3>1, <3>2
  <2>3. leaf' \in IdSet(ToSet(entries)) \cup {0} /\ entries' = entries /\ torn' = torn
    BY <1>2, <2>1
  <2> QED BY <1>3, <2>1, <2>2, <2>3, QuietKeeps
<1>6. ASSUME NEW t \in Ids(entries), fork_before(t) PROVE LogInv' /\ OrderInv'
  BY <1>6, CloneKeeps DEF fork_before
<1>7. CASE clone_active
  BY <1>7, CloneKeeps DEF clone_active
<1>8. CASE open
  <2>1. file \in Seq(LogLine) /\ Load(file, terminated) /\ file' = file
        /\ (torn = "no" => Behind({0}, file))
    BY <1>8 DEF open, disk, LogInv, LogTypes, OrderInv
  <2>2. OrderInv'
    BY <2>1, OrderLoad
  <2> QED BY <1>8, <2>2, OpenKeeps
<1>9. CASE create
  <2>1. file' = <<>> /\ entries' = <<>>
    BY <1>9 DEF create
  <2>2. OrderInv'
    BY <2>1 DEF OrderInv, Behind, Chained
  <2> QED BY <1>9, <2>2, CreateKeeps
<1>10. CASE fork_to
  BY <1>10, EntriesCopy, ForkKeeps, OrderFork DEF fork_to
<1>11. CASE copy_stops
  BY <1>11, CopyStopKeeps
<1> QED BY <1>1, <1>4, <1>5, <1>6, <1>7, <1>8, <1>9, <1>10, <1>11 DEF LogNext

LEMMA LogStart == LogInit => LogInv /\ OrderInv
<1> SUFFICES ASSUME LogInit PROVE LogInv /\ OrderInv
  OBVIOUS
<1>1. next \in 1..MaxEntries + 1
  BY SessionLogAssumption DEF LogInit, SessionLogAssumption
<1>2. OrderInv
  BY DEF LogInit, OrderInv, Behind, Chained
<1> QED BY <1>1, <1>2, EmptyInv DEF LogInit

\* A load finds every entry whose append returned, with the branch that leads
\* to it, and the parent of every record it finds: after any sequence of
\* appends that succeed, throw or are cut off by a crash at any byte, of moves
\* of the leaf, reopened sessions, clones and forks (persist_line, load,
\* rechain_with_labels).
THEOREM LogAlwaysSurvives == LogSpec => []LogSurvives
<1>1. LogInv /\ OrderInv /\ [LogNext]_logVars => (LogInv /\ OrderInv)'
  BY LogStep
<1> QED BY LogStart, <1>1, InvSurvives, PTL DEF LogSpec

-----------------------------------------------------------------------------
(* What a clone has *)

\* A load of a file that was just written finds what was written.
LEMMA RecordsOfNew ==
    ASSUME NEW es \in Seq(LogLine), \A e \in ToSet(es) : e.kind \notin NoRecord
    PROVE  Records(<<HEADER>> \o es) = es
<1>0. <<HEADER>> \in Seq(LogLine) /\ HEADER.kind \in NoRecord
  <2>1. HEADER.kind = "header"
    BY DEF HEADER
  <2> QED BY <2>1, ParsedLines DEF NoRecord
<1>1. PICK h \in Seq(LogLine) : h = <<HEADER>> /\ Len(h) = 1 /\ h[1] = HEADER
  BY <1>0
<1>2. PICK s : s = h \o es
  OBVIOUS
<1>3. PICK c \in Nat : c = Len(es) /\ DOMAIN es = 1..c /\ es = [k \in 1..c |-> es[k]]
  BY LenProperties
<1>4. /\ s \in Seq(LogLine) /\ Len(s) = c + 1 /\ DOMAIN s = 1..c + 1
      /\ s[1] = HEADER /\ \A k \in 1..c : s[k + 1] = es[k]
  <2>1. /\ h \o es \in Seq(LogLine) /\ Len(h \o es) = Len(h) + Len(es)
        /\ \A n \in 1..Len(h) + Len(es) : (h \o es)[n] = IF n <= Len(h) THEN h[n] ELSE es[n - Len(h)]
    BY ConcatProperties
  <2>2. \A n \in 1..1 + c : s[n] = IF n <= 1 THEN h[n] ELSE es[n - 1]
    BY <1>1, <1>2, <1>3, <2>1
  <2>3. s \in Seq(LogLine) /\ Len(s) = c + 1
    BY <1>1, <1>2, <1>3, <2>1
  <2>4. s[1] = HEADER
    BY <1>1, <2>2
  <2>5. ASSUME NEW k \in 1..c PROVE s[k + 1] = es[k]
    BY <2>2
  <2> QED BY <2>3, <2>4, <2>5, LenProperties
<1>5. PICK S : S = {i \in DOMAIN s : s[i].kind \notin NoRecord}
  OBVIOUS
<1>6. S = 2..c + 1
  <2>1. ASSUME NEW i \in 2..c + 1 PROVE i \in S
    <3>1. i - 1 \in 1..c /\ s[(i - 1) + 1] = es[i - 1] /\ (i - 1) + 1 = i
      BY <1>4
    <3>2. es[i - 1] \in ToSet(es)
      BY <1>3, <3>1 DEF ToSet
    <3> QED BY <1>4, <1>5, <3>1, <3>2
  <2>2. ASSUME NEW i \in S PROVE i \in 2..c + 1
    BY <1>0, <1>4, <1>5
  <2> QED BY <2>1, <2>2
<1>7. IsFiniteSet(S) /\ Cardinality(S) = c
  <2>1. PICK hi \in Int : hi = c + 1
    OBVIOUS
  <2>2. /\ 2 \in Int /\ (IF 2 > hi THEN 0 ELSE hi - 2 + 1) = c /\ S = 2..hi
    BY <1>6, <2>1
  <2>3. IsFiniteSet(2..hi) /\ Cardinality(2..hi) = IF 2 > hi THEN 0 ELSE hi - 2 + 1
    BY <2>2, FS_Interval
  <2> QED BY <2>2, <2>3
<1>8. ASSUME NEW k \in 1..c PROVE Ascending(S)[k] = k + 1
  <2>1. PICK p \in S : p = k + 1
    BY <1>6
  <2>2. Rank(S, p) = k
    <3>1. {q \in S : q <= p} = 2..p
      BY <1>6, <2>1
    <3>2. p \in Int /\ 2 \in Int /\ (IF 2 > p THEN 0 ELSE p - 2 + 1) = k
      BY <2>1
    <3>3. Cardinality(2..p) = IF 2 > p THEN 0 ELSE p - 2 + 1
      BY <3>2, FS_Interval
    <3> QED BY <3>1, <3>2, <3>3 DEF Rank
  <2>3. S \subseteq Nat /\ c + 1 \in Nat /\ \A q \in S : q <= c + 1
    BY <1>6
  <2>4. Ascending(S)[Rank(S, p)] = p
    BY <1>7, <2>3, AscendingAll
  <2> QED BY <2>1, <2>2, <2>4
<1>9. Records(s) = Select(s, S)
  BY <1>5 DEF Records, NoRecord
<1>10. DOMAIN Ascending(S) = 1..c
  BY <1>7 DEF Ascending
<1>11. Select(s, S) = [k \in 1..c |-> s[Ascending(S)[k]]]
  BY <1>10 DEF Select
<1>12. \A k \in 1..c : s[Ascending(S)[k]] = es[k]
  BY <1>4, <1>8
<1>13. [k \in 1..c |-> s[Ascending(S)[k]]] = [k \in 1..c |-> es[k]]
  BY <1>12
<1> QED BY <1>1, <1>2, <1>3, <1>9, <1>11, <1>13

\* In a line of records all of them are on the path of the last.
LEMMA LinearPath ==
    ASSUME NEW es \in Seq(LogLine), Linear(es), NEW N \in 1..MaxEntries + 1, Sound(ToSet(es), N)
    PROVE  path_to(es, IF es = <<>> THEN 0 ELSE Last(es).id) = Ids(es)
<1>1. PICK c \in Nat : c = Len(es) /\ DOMAIN es = 1..c
  BY LenProperties
<1>2. MaxEntries \in Nat /\ Grows(es)
  BY SoundGrows, SessionLogAssumption DEF SessionLogAssumption
<1>3. ASSUME NEW n \in 1..c
      PROVE  es[n].id \in Ids(es) /\ ById(es, es[n].id) = es[n] /\ es[n].id \in 0..MaxEntries
  <2>1. es[n] \in ToSet(es) /\ es[n].id \in Ids(es)
    BY <1>1 DEF ToSet, Ids
  <2>2. es[n].id \in 1..MaxEntries
    BY <1>2, <2>1 DEF Grows
  <2> QED BY <1>2, <2>1, <2>2, SoundById
<1>4. path_to(es, 0) = {}
  <2>1. 0 \in 0..MaxEntries /\ 0 \notin Ids(es)
    BY <1>2 DEF Grows
  <2> QED BY <1>2, <2>1, PathUnfolds
<1> DEFINE W(n) == {es[j].id : j \in 1..n}
           B == {n \in 1..c : path_to(es, es[n].id) # W(n)}
<1>5. CASE B # {}
  <2>1. PICK n \in B : \A k \in B : n <= k
    <3>1. B \subseteq Nat
      OBVIOUS
    <3> HIDE DEF B
    <3> QED BY <1>5, <3>1, Least
  <2>2. n \in 1..c
    OBVIOUS
  <2>3. path_to(es, es[n].id) = {es[n].id} \cup path_to(es, es[n].parent)
    <3>1. PICK i \in 0..MaxEntries : i = es[n].id /\ i \in Ids(es) /\ ById(es, i) = es[n]
      BY <1>3, <2>2
    <3>2. path_to(es, i) = {i} \cup path_to(es, ById(es, i).parent)
      BY <1>2, <3>1, PathUnfolds
    <3> QED BY <3>1, <3>2
  <2>4. CASE n = 1
    <3>1. es[n].parent = 0
      BY <1>1, <2>2, <2>4 DEF Linear
    <3>2. W(n) = {es[n].id}
      BY <2>4
    <3> QED BY <1>4, <2>1, <2>3, <3>1, <3>2
  <2>5. CASE n # 1
    <3>1. PICK m \in 1..c : m = n - 1 /\ ~(n <= m)
      BY <2>2, <2>5
    <3>2. es[n].parent = es[m].id
      BY <1>1, <2>2, <2>5, <3>1 DEF Linear
    <3>3. path_to(es, es[m].id) = W(m)
      BY <2>1, <3>1
    <3>4. W(n) = {es[n].id} \cup W(m)
      <4>1. \A j : j \in 1..n <=> j = n \/ j \in 1..m
        BY <2>2, <2>5, <3>1
      <4> QED BY <4>1
    <3> QED BY <2>1, <2>3, <3>2, <3>3, <3>4
  <2> QED BY <2>4, <2>5
<1>6. CASE B = {}
  <2>1. W(c) = Ids(es)
    BY <1>1 DEF Ids
  <2>2. CASE c = 0
    <3>1. es = <<>> /\ Ids(es) = {}
      BY <1>1, <2>2, EmptySeq DEF Ids
    <3> QED BY <1>4, <3>1
  <2>3. CASE c # 0
    <3>1. c \in 1..c /\ es # <<>> /\ Last(es) = es[c]
      BY <1>1, <2>3, EmptySeq DEF Last
    <3>2. path_to(es, es[c].id) = W(c)
      BY <1>6, <3>1
    <3> QED BY <2>1, <3>1, <3>2
  <2> QED BY <2>2, <2>3
<1> QED BY <1>5, <1>6

LEMMA CloneHas ==
    ASSUME LogInv, NEW ids, ids \subseteq Ids(entries), NEW es, es = rechain_with_labels(ids)
    PROVE  /\ Ids(es) \ OfKind(es, LabelKinds) = ids \ OfKind(entries, LabelKinds)
           /\ LabelsOf(es) = labels \cap (ids \ OfKind(entries, LabelKinds))
<1>1. PICK A : A = Base(ids)
  OBVIOUS
<1>2. PICK L : L = Labelled(ids)
  OBVIOUS
<1>3. /\ ToSet(A) = ids \ OfKind(entries, LabelKinds) /\ ToSet(L) = ToSet(A) \cap labels
      /\ A \in Seq(Nat) /\ L \in Seq(Nat) /\ Len(A) \in Nat /\ Len(L) \in Nat
      /\ \A n \in 1..Len(A) : /\ A[n] \in ids \ OfKind(entries, LabelKinds)
                              /\ A[n] \in 1..next - 1
  BY <1>1, <1>2, CloneParts
<1>4. /\ es \in Seq(LogLine) /\ Len(es) = Len(A) + Len(L)
      /\ \A n \in 1..Len(A) :
           /\ es[n].id = A[n] /\ es[n].kind = ById(entries, A[n]).kind
           /\ es[n].parent = IF n = 1 THEN 0 ELSE A[n - 1]
      /\ \A n \in 1..Len(L) :
           es[Len(A) + n] = [id |-> next + n - 1, kind |-> "label", ref |-> L[n],
                             parent |-> IF n = 1 THEN A[Len(A)] ELSE next + n - 2]
  <2>1. CloneShape(es, A, L)
    BY <1>1, <1>2, CloneEntries
  <2> QED BY <2>1 DEF CloneShape
<1>5. PICK a \in Nat, b \in Nat : a = Len(A) /\ b = Len(L) /\ DOMAIN es = 1..a + b
                                  /\ DOMAIN A = 1..a /\ DOMAIN L = 1..b
  BY <1>3, <1>4, LenProperties
<1>6. next \in Nat /\ Sound(ToSet(entries), next)
  <2>1. next \in Nat /\ next <= next
    BY SessionLogAssumption DEF LogInv, LogTypes, SessionLogAssumption
  <2>2. PICK U : U = ToSet(entries) \cup ToSet(pending_lines) \cup Parsed(file)
    OBVIOUS
  <2>3. Sound(U, next) /\ ToSet(entries) \subseteq U
    BY <2>2 DEF LogInv
  <2> QED BY <2>1, <2>3, SoundSubset
<1>7. ASSUME NEW n \in 1..a PROVE es[n].id = A[n] /\ es[n].kind \notin LabelKinds
  <2>1. A[n] \in Ids(entries) /\ A[n] \notin OfKind(entries, LabelKinds)
    BY <1>3, <1>5
  <2>2. ById(entries, A[n]) \in ToSet(entries) /\ ById(entries, A[n]).id = A[n]
    BY <1>6, <2>1, SoundById
  <2>3. ById(entries, A[n]).kind \notin LabelKinds
    BY <2>1, <2>2 DEF OfKind
  <2> QED BY <1>4, <1>5, <2>3
<1>8. ASSUME NEW k \in 1..b
      PROVE  /\ a + k \in 1..a + b /\ es[a + k].id = next + k - 1
             /\ es[a + k].kind = "label" /\ es[a + k].ref = L[k]
  <2>1. a + k \in 1..a + b
    OBVIOUS
  <2>2. es[a + k] = [id |-> next + k - 1, kind |-> "label", ref |-> L[k],
                     parent |-> IF k = 1 THEN A[a] ELSE next + k - 2]
    BY <1>4, <1>5
  <2> QED BY <2>1, <2>2
<1>9. ASSUME NEW n \in 1..a + b PROVE n \in 1..a \/ \E k \in 1..b : n = a + k
  <2>1. CASE n <= a
    BY <2>1
  <2>2. CASE ~(n <= a)
    <3>1. n - a \in 1..b /\ n = a + (n - a)
      BY <2>2
    <3> QED BY <3>1
  <2> QED BY <2>1, <2>2
<1>10. "label" \in LabelKinds /\ "unlabel" \in LabelKinds
  BY DEF LabelKinds
<1>11. OfKind(es, LabelKinds) = {es[n].id : n \in {m \in 1..a + b : es[m].kind \in LabelKinds}}
  BY <1>5 DEF OfKind, ToSet
<1>12. ASSUME NEW n \in 1..a PROVE A[n] \in Ids(es) \ OfKind(es, LabelKinds)
  <2>1. n \in 1..a + b
    OBVIOUS
  <2>2. A[n] \in Ids(es)
    BY <1>5, <1>7, <2>1 DEF Ids
  <2>3. ASSUME NEW m \in 1..a + b, es[m].kind \in LabelKinds PROVE es[m].id # A[n]
    <3>1. m \notin 1..a
      BY <1>7, <2>3
    <3>2. PICK k \in 1..b : m = a + k
      BY <1>9, <3>1
    <3>3. es[m].id = next + k - 1
      BY <1>8, <3>2
    <3>4. A[n] \in 1..next - 1
      BY <1>3, <1>5
    <3> QED BY <1>6, <3>3, <3>4
  <2> QED BY <1>11, <2>2, <2>3
<1>13. ASSUME NEW i \in Ids(es) \ OfKind(es, LabelKinds) PROVE i \in ToSet(A)
  <2>1. PICK n \in 1..a + b : i = es[n].id
    BY <1>5 DEF Ids
  <2>2. es[n].kind \notin LabelKinds
    BY <1>11, <2>1
  <2>3. n \in 1..a
    BY <1>8, <1>9, <1>10, <2>2
  <2> QED BY <1>5, <1>7, <2>1, <2>3 DEF ToSet
<1>14. Ids(es) \ OfKind(es, LabelKinds) = ToSet(A)
  BY <1>5, <1>12, <1>13 DEF ToSet
<1>15. \A n \in DOMAIN es : es[n].kind # "unlabel"
  <2>1. ASSUME NEW n \in 1..a + b PROVE es[n].kind # "unlabel"
    <3>1. CASE n \in 1..a
      BY <1>7, <1>10, <3>1
    <3>2. CASE n \notin 1..a
      BY <1>8, <1>9, <3>2
    <3> QED BY <3>1, <3>2
  <2> QED BY <1>5, <2>1
<1>16. ASSUME NEW t \in LabelsOf(es) PROVE t \in ToSet(L)
  <2>1. PICK n \in DOMAIN es : es[n].kind = "label" /\ es[n].ref = t
    BY DEF LabelsOf
  <2>2. n \notin 1..a
    BY <1>7, <1>10, <2>1
  <2>3. PICK k \in 1..b : n = a + k
    BY <1>5, <1>9, <2>2
  <2> QED BY <1>5, <1>8, <2>1, <2>3 DEF ToSet
<1>17. ASSUME NEW t \in ToSet(L) PROVE t \in LabelsOf(es)
  <2>1. PICK k \in 1..b : t = L[k]
    BY <1>5 DEF ToSet
  <2>2. PICK n \in DOMAIN es : n = a + k /\ es[n].kind = "label" /\ es[n].ref = t
    BY <1>5, <1>8, <2>1
  <2>3. \A j \in n + 1..Len(es) : es[j].kind # "unlabel"
    <3>1. Len(es) = a + b /\ n \in Nat
      BY <1>4, <1>5, <2>2
    <3>2. \A j \in n + 1..Len(es) : j \in DOMAIN es
      BY <1>5, <2>2, <3>1
    <3> QED BY <1>15, <3>2
  <2>4. t \in {e.ref : e \in ToSet(es)}
    BY <2>2 DEF ToSet
  <2> QED BY <2>2, <2>3, <2>4 DEF LabelsOf
<1> QED BY <1>3, <1>14, <1>16, <1>17

LEMMA CloneSame ==
    ASSUME LogInv, NEW i \in Ids(entries), clone_path_to(i)
    PROVE  /\ NotLabels(entries', leaf') = NotLabels(entries, i)
           /\ labels' = labels \cap NotLabels(entries, i)
<1>1. PICK ids : ids = path_to(entries, i)
  OBVIOUS
<1>2. next \in 1..MaxEntries + 1 /\ MaxEntries \in Nat
  BY SessionLogAssumption DEF LogInv, LogTypes, SessionLogAssumption
<1>3. ids \subseteq Ids(entries)
  BY <1>1, ClonePathIn DEF clone_path_to
<1>4. PICK es : es = rechain_with_labels(ids)
  OBVIOUS
<1>5. PICK b : b = Len(Labelled(ids))
  OBVIOUS
<1>6. /\ Linear(es) /\ b \in Nat /\ next \in Nat \ {0}
      /\ \A n \in DOMAIN es : es[n].id \in 1..next + b - 1 /\ es[n].kind \notin NoRecord
      /\ Ids(es) \ Ids(entries) = next..next + b - 1
  BY <1>3, <1>4, <1>5, CloneLinear
<1>7. es \in Seq(LogLine)
  <2>1. CloneShape(es, Base(ids), Labelled(ids))
    BY <1>3, <1>4, CloneEntries
  <2> QED BY <2>1 DEF CloneShape
<1>8. \A e \in ToSet(es) : e.kind \notin NoRecord
  BY <1>6 DEF ToSet
<1>9. Records(<<HEADER>> \o es) = es
  BY <1>7, <1>8, RecordsOfNew
<1>10. Fork(es)
  BY <1>1, <1>4 DEF clone_path_to
<1>11. /\ entries' = es /\ leaf' = (IF es = <<>> THEN 0 ELSE Last(es).id)
       /\ labels' = LabelsOf(es)
  BY <1>9, <1>10 DEF Fork, Load
<1>12. LogInv'
  BY CloneKeeps
<1>13. Sound(ToSet(es), next') /\ next' \in 1..MaxEntries + 1
  <2>1. next' \in 1..MaxEntries + 1
    BY <1>12 DEF LogInv, LogTypes
  <2>2. PICK U : U = ToSet(entries') \cup ToSet(pending_lines') \cup Parsed(file')
    OBVIOUS
  <2>3. Sound(U, next') /\ ToSet(es) \subseteq U
    BY <1>11, <1>12, <2>2 DEF LogInv
  <2>4. next' \in Nat /\ next' <= next'
    BY <1>2, <2>1
  <2> QED BY <2>1, <2>3, <2>4, SoundSubset
<1>14. path_to(es, leaf') = Ids(es)
  BY <1>6, <1>7, <1>11, <1>13, LinearPath
<1>15. /\ Ids(es) \ OfKind(es, LabelKinds) = ids \ OfKind(entries, LabelKinds)
       /\ LabelsOf(es) = labels \cap (ids \ OfKind(entries, LabelKinds))
  BY <1>3, <1>4, CloneHas
<1> QED BY <1>1, <1>11, <1>14, <1>15 DEF NotLabels

\* A clone has the branch it was made of, ends in it, and has the labels of
\* that branch: of every branch, with label records anywhere on it
\* (clone_path_to, rechain_with_labels).
THEOREM ClonesKeepTheirPath == LogSpec => ForkKeepsPath
<1>1. LogInv /\ OrderInv /\ [LogNext]_logVars => (LogInv /\ OrderInv)'
  BY LogStep
<1>2. LogInv /\ [LogNext]_logVars =>
        [\A i \in Ids(entries) :
           clone_path_to(i) => /\ NotLabels(entries', leaf') = NotLabels(entries, i)
                               /\ labels' = labels \cap NotLabels(entries, i)]_logVars
  BY CloneSame
<1> QED BY LogStart, <1>1, <1>2, PTL DEF LogSpec, ForkKeepsPath

-----------------------------------------------------------------------------
(* The index of the labels *)

\* append_label_change keeps the labels that rebuild_index would find.
LabelIndex == labels = LabelsOf(entries)

LEMMA LabelsOfAppend ==
    ASSUME NEW es \in Seq(LogLine), NEW l \in LogLine
    PROVE  LabelsOf(Append(es, l)) =
             IF l.kind = "label" THEN LabelsOf(es) \cup {l.ref}
             ELSE IF l.kind = "unlabel" THEN LabelsOf(es) \ {l.ref} ELSE LabelsOf(es)
<1>1. PICK r : r = Append(es, l)
  OBVIOUS
<1>2. PICK c \in Nat : /\ c = Len(es) /\ DOMAIN es = 1..c /\ DOMAIN r = 1..c + 1
                       /\ Len(r) = c + 1 /\ r[c + 1] = l /\ \A i \in 1..c : r[i] = es[i]
  BY <1>1, AppendProperties, LenProperties
<1> DEFINE Set(s, n, t) == \E i \in 1..n : /\ s[i].kind = "label" /\ s[i].ref = t
                                           /\ \A j \in i + 1..n : ~(s[j].kind = "unlabel" /\ s[j].ref = t)
<1>3. \A t : t \in LabelsOf(es) <=> Set(es, c, t)
  <2>1. \A t : Set(es, c, t) => t \in {e.ref : e \in ToSet(es)}
    BY <1>2 DEF ToSet
  <2> QED BY <1>2, <2>1 DEF LabelsOf
<1>4. \A t : t \in LabelsOf(r) <=> Set(r, c + 1, t)
  <2>1. \A t : Set(r, c + 1, t) => t \in {e.ref : e \in ToSet(r)}
    BY <1>2 DEF ToSet
  <2> QED BY <1>2, <2>1 DEF LabelsOf
<1>5. ASSUME NEW t
      PROVE  Set(r, c + 1, t) <=> \/ l.kind = "label" /\ l.ref = t
                                  \/ Set(es, c, t) /\ ~(l.kind = "unlabel" /\ l.ref = t)
  <2>1. ASSUME l.kind = "label", l.ref = t PROVE Set(r, c + 1, t)
    <3>1. c + 1 \in 1..c + 1 /\ (c + 1) + 1..c + 1 = {}
      OBVIOUS
    <3> QED BY <1>2, <2>1, <3>1
  <2>2. ASSUME Set(es, c, t), ~(l.kind = "unlabel" /\ l.ref = t) PROVE Set(r, c + 1, t)
    <3>1. PICK i \in 1..c : /\ es[i].kind = "label" /\ es[i].ref = t
                            /\ \A j \in i + 1..c : ~(es[j].kind = "unlabel" /\ es[j].ref = t)
      BY <2>2
    <3>2. ASSUME NEW j \in i + 1..c + 1 PROVE ~(r[j].kind = "unlabel" /\ r[j].ref = t)
      <4>1. CASE j = c + 1
        BY <1>2, <2>2, <4>1
      <4>2. CASE j # c + 1
        <5>1. j \in i + 1..c /\ j \in 1..c
          BY <4>2
        <5> QED BY <1>2, <3>1, <5>1
      <4> QED BY <4>1, <4>2
    <3>3. i \in 1..c + 1 /\ r[i] = es[i]
      BY <1>2
    <3> QED BY <3>1, <3>2, <3>3
  <2>3. ASSUME Set(r, c + 1, t), ~(l.kind = "label" /\ l.ref = t)
        PROVE  Set(es, c, t) /\ ~(l.kind = "unlabel" /\ l.ref = t)
    <3>1. PICK i \in 1..c + 1 : /\ r[i].kind = "label" /\ r[i].ref = t
                                /\ \A j \in i + 1..c + 1 : ~(r[j].kind = "unlabel" /\ r[j].ref = t)
      BY <2>3
    <3>2. i # c + 1
      BY <1>2, <2>3, <3>1
    <3>3. i \in 1..c /\ c + 1 \in i + 1..c + 1 /\ \A j \in i + 1..c : j \in i + 1..c + 1 /\ j \in 1..c
      BY <3>2
    <3>4. ~(l.kind = "unlabel" /\ l.ref = t)
      BY <1>2, <3>1, <3>3
    <3>5. Set(es, c, t)
      BY <1>2, <3>1, <3>3
    <3> QED BY <3>4, <3>5
  <2> QED BY <2>1, <2>2, <2>3
<1> HIDE DEF Set
<1>6. \A t : t \in LabelsOf(r) <=> \/ l.kind = "label" /\ l.ref = t
                                   \/ t \in LabelsOf(es) /\ ~(l.kind = "unlabel" /\ l.ref = t)
  BY <1>3, <1>4, <1>5
<1>7. CASE l.kind = "label"
  BY <1>1, <1>6, <1>7
<1>8. CASE l.kind = "unlabel"
  BY <1>1, <1>6, <1>8
<1>9. CASE l.kind \notin {"label", "unlabel"}
  <2>1. \A t : t \in LabelsOf(r) <=> t \in LabelsOf(es)
    BY <1>6, <1>9
  <2> QED BY <1>1, <1>9, <2>1
<1> QED BY <1>7, <1>8, <1>9

LEMMA IndexAttempt ==
    ASSUME LogInv, LabelIndex, NEW k \in LineKinds \ NoRecord,
           NEW p \in IdSet(ToSet(entries)) \cup {0}, NEW r \in Nat, Attempt(Line(k, p, r))
    PROVE  LabelIndex'
<1>1. PICK l : l = Line(k, p, r)
  OBVIOUS
<1>2. l \in LogLine /\ entries \in Seq(LogLine)
  BY <1>1, LineFits DEF Fits, LogInv, LogTypes
<1>3. CASE Hold(l) \/ Store(l)
  <2>1. Remember(l)
    BY <1>3 DEF Hold, Store
  <2> QED BY <1>2, <2>1, LabelsOfAppend DEF Remember, LabelIndex
<1>4. CASE Refuse(l) \/ Die(l)
  <2>1. entries' = entries /\ labels' = labels
    BY <1>4 DEF Refuse, Die, memory
  <2> QED BY <2>1 DEF LabelIndex
<1> QED BY <1>1, <1>3, <1>4 DEF Attempt

LEMMA IndexStep == ASSUME LogInv, LabelIndex, [LogNext]_logVars PROVE LabelIndex'
<1>1. CASE \/ \E k \in Kinds : append_message(k)
           \/ \E t \in Ids(entries) :
                \/ \E k \in LabelKinds : append_label_change(t, k)
                \/ append_compaction(t) \/ append_branch_summary(t)
  <2>1. PICK k \in LineKinds \ NoRecord, p \in IdSet(ToSet(entries)) \cup {0}, r \in 0..MaxEntries :
          Attempt(Line(k, p, r))
    BY <1>1, AppendsAttempt
  <2>2. r \in Nat
    OBVIOUS
  <2> QED BY <2>1, <2>2, IndexAttempt
<1>2. CASE \/ \E t \in Ids(entries) : set_leaf(t)
           \/ Exit \/ UNCHANGED logVars
  <2>1. entries' = entries /\ labels' = labels
    BY <1>2 DEF set_leaf, Exit, logVars, memory
  <2> QED BY <2>1 DEF LabelIndex
<1>3. ASSUME NEW lines, NEW closed, Load(lines, closed) PROVE LabelIndex'
  BY <1>3 DEF Load, LabelIndex
<1>4. ASSUME NEW es, Fork(es) PROVE LabelIndex'
  BY <1>3, <1>4 DEF Fork
<1>5. CASE open \/ fork_to \/ clone_active \/ \E t \in Ids(entries) : fork_before(t)
  BY <1>3, <1>4, <1>5 DEF open, fork_to, clone_active, fork_before, clone_path_to
<1>6. CASE create
  <2>1. LabelsOf(<<>>) = {}
    BY DEF LabelsOf
  <2> QED BY <1>6, <2>1 DEF create, LabelIndex
<1>7. CASE copy_stops
  <2>1. LabelsOf(<<>>) = {}
    BY DEF LabelsOf
  <2>2. entries' = <<>> /\ labels' = {}
    BY <1>7 DEF copy_stops, ForkStops
  <2> QED BY <2>1, <2>2 DEF LabelIndex
<1> QED BY <1>1, <1>2, <1>5, <1>6, <1>7 DEF LogNext

\* After any appends, failed appends, reopened sessions and forks the manager
\* has the labels that the next load would find in its entries: what a fork
\* takes over and what the tree shows (append_label_change, rebuild_index).
THEOREM LabelsAlwaysIndexed == LogSpec => []LabelIndex
<1>1. LogInit => LabelIndex
  <2>1. LabelsOf(<<>>) = {}
    BY DEF LabelsOf
  <2> QED BY <2>1 DEF LogInit, LabelIndex
<1>2. LogInv /\ OrderInv /\ [LogNext]_logVars => (LogInv /\ OrderInv)'
  BY LogStep
<1>3. LogInv /\ LabelIndex /\ [LogNext]_logVars => LabelIndex'
  BY IndexStep
<1> QED BY LogStart, <1>1, <1>2, <1>3, PTL DEF LogSpec

-----------------------------------------------------------------------------
(* The types of the log *)

\* No record is there twice.
Distinct(s) ==
    \A i, j \in DOMAIN s :
        s[i].kind \notin NoRecord /\ s[j].kind \notin NoRecord /\ s[i].id = s[j].id => i = j

\* Lines within the bounds, each record once.
Clean(s) == ToSet(s) \subseteq Record /\ Distinct(s)

\* No record of A is one of B.
Apart(A, B) == \A d \in A, e \in B : d.id # e.id

\* The lines of the manager and of its file are within the bounds, and no
\* record is among them twice.
LinesInv ==
    /\ Clean(entries) /\ Clean(file) /\ ToSet(pending_lines) \subseteq Record
    /\ torn \in {"no", "now", "before"}
    /\ faults \in 0..MaxFaults /\ forks \in 0..MaxForks

LEMMA RecordIs ==
    /\ Record = [id : 0..MaxEntries, kind : LineKinds, parent : 0..MaxEntries, ref : 0..MaxEntries + 1]
    /\ HEADER \in Record /\ GARBAGE \in Record
<1>1. Record = [id : 0..MaxEntries, kind : LineKinds, parent : 0..MaxEntries, ref : 0..MaxEntries + 1]
  BY DEF Record, LineKinds
<1>2. MaxEntries \in Nat
  BY SessionLogAssumption DEF SessionLogAssumption
<1>3. 0 \in 0..MaxEntries /\ 0 \in 0..MaxEntries + 1 /\ "header" \in LineKinds /\ "garbage" \in LineKinds
  BY <1>2 DEF LineKinds
<1> QED BY <1>1, <1>3 DEF HEADER, GARBAGE

LEMMA CleanEmpty == Clean(<<>>)
BY DEF Clean, Distinct, ToSet

LEMMA CleanOne == ASSUME NEW l \in Record PROVE Clean(<<l>>)
<1>1. DOMAIN <<l>> = {1} /\ ToSet(<<l>>) = {l}
  BY DEF ToSet
<1> QED BY <1>1 DEF Clean, Distinct

LEMMA CleanConcat ==
    ASSUME NEW a \in Seq(LogLine), NEW b \in Seq(LogLine), Clean(a), Clean(b),
           Apart(Parsed(a), Parsed(b))
    PROVE  Clean(a \o b)
<1>1. PICK s : s = a \o b
  OBVIOUS
<1>2. PICK m \in Nat, n \in Nat : /\ m = Len(a) /\ n = Len(b) /\ DOMAIN a = 1..m /\ DOMAIN b = 1..n
  BY LenProperties
<1>3. /\ DOMAIN s = 1..m + n
      /\ \A i \in 1..m + n : s[i] = IF i <= m THEN a[i] ELSE b[i - m]
  BY <1>1, <1>2, ConcatProperties, LenProperties
<1>4. \A i \in 1..m + n : i > m => i - m \in 1..n
  OBVIOUS
<1>5. ToSet(s) \subseteq Record
  <2>1. ToSet(s) = ToSet(a) \cup ToSet(b)
    BY <1>1, SetOfConcat
  <2> QED BY <2>1 DEF Clean
<1>6. ASSUME NEW i \in 1..m, NEW j \in 1..n, a[i].kind \notin NoRecord, b[j].kind \notin NoRecord
      PROVE  a[i].id # b[j].id
  <2>1. a[i] \in Parsed(a) /\ b[j] \in Parsed(b)
    BY <1>2, <1>6 DEF Parsed, ToSet, NoRecord
  <2> QED BY <2>1 DEF Apart
<1>7. ASSUME NEW i \in 1..m + n, NEW j \in 1..m + n,
             s[i].kind \notin NoRecord, s[j].kind \notin NoRecord, s[i].id = s[j].id
      PROVE  i = j
  <2>1. CASE i <= m /\ j <= m
    <3>1. i \in 1..m /\ j \in 1..m /\ s[i] = a[i] /\ s[j] = a[j]
      BY <1>3, <2>1
    <3> QED BY <1>2, <1>7, <3>1 DEF Clean, Distinct
  <2>2. CASE i > m /\ j > m
    <3>1. i - m \in 1..n /\ j - m \in 1..n /\ s[i] = b[i - m] /\ s[j] = b[j - m]
      BY <1>3, <1>4, <2>2
    <3>2. i - m = j - m
      BY <1>2, <1>7, <3>1 DEF Clean, Distinct
    <3> QED BY <3>2
  <2>3. CASE i <= m /\ j > m
    <3>1. i \in 1..m /\ j - m \in 1..n /\ s[i] = a[i] /\ s[j] = b[j - m]
      BY <1>3, <1>4, <2>3
    <3> QED BY <1>6, <1>7, <3>1
  <2>4. CASE i > m /\ j <= m
    <3>1. j \in 1..m /\ i - m \in 1..n /\ s[j] = a[j] /\ s[i] = b[i - m]
      BY <1>3, <1>4, <2>4
    <3> QED BY <1>6, <1>7, <3>1
  <2> QED BY <2>1, <2>2, <2>3, <2>4
<1>8. Distinct(s)
  BY <1>3, <1>7 DEF Distinct
<1> QED BY <1>1, <1>5, <1>8 DEF Clean

\* A part of the lines: s shifted by k.
LEMMA CleanShift ==
    ASSUME NEW s \in Seq(LogLine), Clean(s), NEW t \in Seq(LogLine), NEW k \in Nat,
           Len(t) + k <= Len(s), \A i \in 1..Len(t) : t[i] = s[i + k]
    PROVE  Clean(t)
<1>1. PICK m \in Nat, n \in Nat : m = Len(t) /\ n = Len(s) /\ DOMAIN t = 1..m /\ DOMAIN s = 1..n
  BY LenProperties
<1>2. \A i \in 1..m : i + k \in 1..n /\ t[i] = s[i + k]
  BY <1>1
<1>3. ToSet(t) \subseteq ToSet(s)
  BY <1>1, <1>2 DEF ToSet
<1>4. ASSUME NEW i \in 1..m, NEW j \in 1..m,
             t[i].kind \notin NoRecord, t[j].kind \notin NoRecord, t[i].id = t[j].id
      PROVE  i = j
  <2>1. i + k = j + k
    BY <1>1, <1>2, <1>4 DEF Clean, Distinct
  <2> QED BY <2>1
<1>5. Distinct(t)
  BY <1>1, <1>4 DEF Distinct
<1> QED BY <1>3, <1>5 DEF Clean

LEMMA CleanParts ==
    ASSUME NEW s \in Seq(LogLine), Clean(s)
    PROVE  /\ s # <<>> => Clean(Front(s)) /\ Clean(Tail(s))
           /\ \A m \in 0..Len(s) : Clean(SubSeq(s, 1, m))
<1>1. PICK n \in Nat : n = Len(s)
  BY LenProperties
<1>2. ASSUME NEW m \in 0..n PROVE Clean(SubSeq(s, 1, m))
  <2>1. PICK t : t = SubSeq(s, 1, m)
    OBVIOUS
  <2>2. t \in Seq(LogLine) /\ Len(t) = m /\ \A i \in 1..m : t[i] = s[i]
    BY <1>1, <2>1
  <2>3. 0 \in Nat /\ Len(t) + 0 <= Len(s) /\ \A i \in 1..Len(t) : t[i] = s[i + 0]
    BY <1>1, <2>2
  <2>4. Clean(t)
    BY <2>2, <2>3, CleanShift
  <2> QED BY <2>1, <2>4
<1>3. ASSUME s # <<>> PROVE Clean(Front(s)) /\ Clean(Tail(s))
  <2>1. n >= 1
    BY <1>1, <1>3, EmptySeq
  <2>2. n - 1 \in 0..n /\ Front(s) = SubSeq(s, 1, n - 1)
    BY <1>1, <2>1 DEF Front
  <2>3. PICK t : t = Tail(s)
    OBVIOUS
  <2>4. t \in Seq(LogLine) /\ Len(t) = n - 1 /\ \A i \in 1..n - 1 : t[i] = s[i + 1]
    BY <1>1, <1>3, <2>3, HeadTailProperties
  <2>5. 1 \in Nat /\ Len(t) + 1 <= Len(s) /\ \A i \in 1..Len(t) : t[i] = s[i + 1]
    BY <1>1, <2>4
  <2>6. Clean(t)
    BY <2>4, <2>5, CleanShift
  <2> QED BY <1>2, <2>2, <2>3, <2>6
<1> QED BY <1>1, <1>2, <1>3

\* write_all keeps a clean file clean when the records are new.
LEMMA CleanWrite ==
    ASSUME NEW lines \in Seq(LogLine), NEW rest \in Seq(LogLine), Write(lines, rest),
           file \in Seq(LogLine), file = <<>> => terminated, Clean(file),
           Clean(lines \o rest), Apart(Parsed(file), Parsed(lines \o rest))
    PROVE  Clean(file')
<1>0. lines \o rest \in Seq(LogLine)
  BY ConcatProperties
<1>1. PICK all \in Seq(LogLine) : all = lines \o rest
  BY <1>0
<1>2. /\ file' = IF (terminated \/ needs_separator) \/ all = <<>> THEN file \o all
                 ELSE Front(file) \o <<GARBAGE>> \o Tail(all)
      /\ Clean(all) /\ Apart(Parsed(file), Parsed(all))
  BY <1>1 DEF Write
<1>3. CASE (terminated \/ needs_separator) \/ all = <<>>
  BY <1>2, <1>3, CleanConcat
<1>4. CASE ~((terminated \/ needs_separator) \/ all = <<>>)
  <2>1. file' = Front(file) \o <<GARBAGE>> \o Tail(all) /\ file # <<>> /\ all # <<>>
    BY <1>2, <1>4
  <2>2. /\ Front(file) \in Seq(LogLine) /\ ToSet(Front(file)) \subseteq ToSet(file)
        /\ Tail(all) \in Seq(LogLine) /\ ToSet(Tail(all)) \subseteq ToSet(all)
        /\ Clean(Front(file)) /\ Clean(Tail(all))
    BY <2>1, <1>2, FrontTail, CleanParts
  <2>3. <<GARBAGE>> \in Seq(LogLine) /\ Parsed(<<GARBAGE>>) = {} /\ Clean(<<GARBAGE>>)
    BY ParsedLines, RecordIs, CleanOne
  <2>4. PICK a \in Seq(LogLine), g \in Seq(LogLine), c \in Seq(LogLine) :
          a = Front(file) /\ g = <<GARBAGE>> /\ c = Tail(all)
    BY <2>2, <2>3
  <2>5. /\ Clean(a) /\ Clean(g) /\ Clean(c) /\ Parsed(g) = {}
        /\ Parsed(a) \subseteq Parsed(file) /\ Parsed(c) \subseteq Parsed(all)
    BY <2>2, <2>3, <2>4 DEF Parsed
  <2>6. Apart(Parsed(a), Parsed(g))
    BY <2>5 DEF Apart
  <2>7. Clean(a \o g) /\ a \o g \in Seq(LogLine) /\ Parsed(a \o g) = Parsed(a) \cup Parsed(g)
    <3>1. Clean(a \o g)
      BY <2>5, <2>6, CleanConcat
    <3> QED BY <3>1, ParsedConcat
  <2>8. PICK d \in Seq(LogLine) : d = a \o g
    BY <2>7
  <2>9. Clean(d) /\ Apart(Parsed(d), Parsed(c))
    BY <1>2, <2>5, <2>7, <2>8 DEF Apart
  <2>10. Clean(d \o c)
    BY <2>5, <2>9, CleanConcat
  <2> QED BY <2>1, <2>4, <2>8, <2>10
<1> QED BY <1>3, <1>4

\* The new record.
LEMMA LineClean ==
    ASSUME LogInv, next <= MaxEntries, NEW k \in LineKinds \ NoRecord,
           NEW p \in IdSet(ToSet(entries)) \cup {0}, NEW r \in 0..MaxEntries
    PROVE  Line(k, p, r) \in Record
<1>1. p \in 0..MaxEntries
  BY IdsBelow
<1>2. next \in 0..MaxEntries /\ r \in 0..MaxEntries + 1
  BY SessionLogAssumption DEF LogInv, LogTypes, SessionLogAssumption
<1>3. Line(k, p, r).kind = k
  BY DEF Line
<1> QED BY <1>1, <1>2, RecordIs DEF Line

LEMMA ApartNext ==
    ASSUME LogInv, NEW l, Fits(l), NEW V, V \subseteq ToSet(entries) \cup ToSet(pending_lines) \cup Parsed(file)
    PROVE  Apart(V, {l})
<1>1. l.id = next /\ next \in Nat
  BY SessionLogAssumption DEF Fits, LogInv, LogTypes, SessionLogAssumption
<1>2. ASSUME NEW e \in V PROVE e.id # next
  <2>1. e.id \in 1..next - 1
    BY DEF LogInv, Sound
  <2> QED BY <1>1, <2>1
<1> QED BY <1>1, <1>2 DEF Apart

LEMMA AppendClean ==
    ASSUME LogInv, NEW l \in Record, Fits(l), Clean(entries)
    PROVE  Clean(Append(entries, l))
<1>1. entries \in Seq(LogLine) /\ l \in LogLine /\ l.kind \notin NoRecord
  BY DEF LogInv, LogTypes, Fits
<1>2. <<l>> \in Seq(LogLine) /\ Parsed(<<l>>) = {l} /\ Clean(<<l>>)
  BY <1>1, ParsedLines, CleanOne
<1>3. PICK g \in Seq(LogLine) : g = <<l>>
  BY <1>2
<1>4. Parsed(entries) \subseteq ToSet(entries) \cup ToSet(pending_lines) \cup Parsed(file)
  BY DEF Parsed
<1>5. PICK V : V = Parsed(entries)
  OBVIOUS
<1>6. Apart(V, {l})
  BY <1>4, <1>5, ApartNext
<1>7. Clean(entries \o g)
  BY <1>1, <1>2, <1>3, <1>5, <1>6, CleanConcat
<1>8. Append(entries, l) = entries \o <<l>>
  BY <1>1, AppendIsConcat
<1> QED BY <1>3, <1>7, <1>8

LEMMA BatchClean ==
    ASSUME LogInv, NEW l \in Record, Fits(l), CanOpen(l), Clean(entries)
    PROVE  Clean(Batch(l)) /\ Apart(Parsed(file), Parsed(Batch(l)))
<1>1. entries \in Seq(LogLine) /\ l \in LogLine /\ l.kind \notin NoRecord
  BY DEF LogInv, LogTypes, Fits
<1>2. CASE session_flushed
  <2>1. Batch(l) = <<l>> /\ Parsed(<<l>>) = {l} /\ Clean(<<l>>)
    BY <1>1, <1>2, ParsedLines, CleanOne DEF Batch
  <2>2. PICK V : V = Parsed(file)
    OBVIOUS
  <2>3. Apart(V, {l})
    BY <2>2, ApartNext
  <2> QED BY <2>1, <2>2, <2>3
<1>3. CASE ~session_flushed
  <2>1. Parsed(file) = {}
    BY <1>3, NoFileYet
  <2>2. Apart(Parsed(file), Parsed(Batch(l)))
    BY <2>1 DEF Apart
  <2>3. pending_lines = entries
    BY <1>3 DEF LogInv
  <2>4. /\ <<HEADER>> \in Seq(LogLine) /\ Parsed(<<HEADER>>) = {} /\ Clean(<<HEADER>>)
        /\ <<l>> \in Seq(LogLine)
    <3>1. HEADER \in Record
      BY RecordIs
    <3>2. Clean(<<HEADER>>)
      BY <3>1, CleanOne
    <3>3. <<HEADER>> \in Seq(LogLine) /\ Parsed(<<HEADER>>) = {} /\ <<l>> \in Seq(LogLine)
      BY <1>1, ParsedLines
    <3> QED BY <3>2, <3>3
  <2>5. PICK h \in Seq(LogLine), g \in Seq(LogLine) : h = <<HEADER>> /\ g = <<l>>
    BY <2>4
  <2>6. PICK r \in Seq(LogLine) : r = entries \o g /\ Clean(r)
    <3>1. Append(entries, l) = entries \o <<l>> /\ Append(entries, l) \in Seq(LogLine)
      BY <1>1, AppendIsConcat, AppendProperties
    <3>2. Clean(Append(entries, l))
      BY AppendClean
    <3> QED BY <2>5, <3>1, <3>2
  <2>7. Apart(Parsed(h), Parsed(r)) /\ Clean(h)
    BY <2>4, <2>5 DEF Apart
  <2>8. Clean(h \o r)
    BY <2>6, <2>7, CleanConcat
  <2>9. Batch(l) = (h \o entries) \o g
    BY <1>3, <2>3, <2>5 DEF Batch
  <2>10. (h \o entries) \o g = h \o (entries \o g)
    <3>1. \A x, y, z \in Seq(LogLine) : (x \o y) \o z = x \o (y \o z)
      BY ConcatAssociative
    <3> QED BY <1>1, <3>1, Zenon
  <2> QED BY <2>2, <2>6, <2>8, <2>9, <2>10
<1>4. session_flushed \in BOOLEAN
  BY DEF LogInv, LogTypes
<1> QED BY <1>2, <1>3, <1>4

\* Also a part of the batch.
LEMMA PartClean ==
    ASSUME LogInv, NEW l \in Record, Fits(l), CanOpen(l), Clean(entries), Clean(file), WritePart(l)
    PROVE  Clean(file')
<1>0. Batch(l) \in Seq(LogLine)
  BY BatchHolds
<1>1. PICK b \in Seq(LogLine) : b = Batch(l)
  BY <1>0
<1>2. PICK n \in 0..Len(b) :
        \E rest \in Cut(b, n) : Write(SubSeq(b, 1, n), rest)
  BY <1>1 DEF WritePart
<1>3. PICK rest : /\ Write(SubSeq(b, 1, n), rest)
                  /\ \/ rest = <<>> \/ rest = <<GARBAGE>>
                     \/ n # Len(b) /\ rest = <<b[n + 1]>>
  BY <1>2, Zenon DEF Cut
<1>4. Len(b) \in Nat /\ n \in Nat /\ n <= Len(b)
  BY LenProperties
<1>5. Clean(b) /\ Apart(Parsed(file), Parsed(b))
  BY <1>1, BatchClean
<1>6. PICK s \in Seq(LogLine) : s = SubSeq(b, 1, n)
  BY SubSeqIn
<1>7. \A m \in 0..Len(b) : Clean(SubSeq(b, 1, m))
  BY <1>5, CleanParts
<1>8. ASSUME NEW m \in 0..Len(b) PROVE Parsed(SubSeq(b, 1, m)) \subseteq Parsed(b)
  <2>1. PICK u : u = SubSeq(b, 1, m)
    OBVIOUS
  <2>2. DOMAIN u = 1..m /\ \A i \in 1..m : u[i] = b[i]
    BY <1>4, <2>1
  <2>3. \A i \in 1..m : i \in DOMAIN b
    BY <1>4, LenProperties
  <2> QED BY <2>1, <2>2, <2>3 DEF Parsed, ToSet
<1>9. /\ rest \in Seq(LogLine) /\ Clean(s \o rest) /\ Parsed(s \o rest) \subseteq Parsed(b)
  <2>1. CASE rest = <<>> \/ rest = <<GARBAGE>>
    <3>1. rest \in Seq(LogLine) /\ Parsed(rest) = {} /\ Clean(rest)
      <4>1. /\ <<>> \in Seq(LogLine) /\ <<GARBAGE>> \in Seq(LogLine)
            /\ Parsed(<<>>) = {} /\ Parsed(<<GARBAGE>>) = {}
            /\ Clean(<<>>) /\ Clean(<<GARBAGE>>)
        BY ParsedLines, RecordIs, CleanOne, CleanEmpty
      <4> QED BY <2>1, <4>1
    <3>2. Clean(s) /\ Parsed(s) \subseteq Parsed(b)
      BY <1>6, <1>7, <1>8
    <3>3. PICK g \in Seq(LogLine) : g = rest
      BY <3>1
    <3>4. Apart(Parsed(s), Parsed(g))
      BY <3>1, <3>3 DEF Apart
    <3>5. Clean(s \o g)
      BY <3>1, <3>2, <3>3, <3>4, CleanConcat
    <3>6. Parsed(s \o g) = Parsed(s) \cup Parsed(g)
      BY ParsedConcat
    <3> QED BY <3>1, <3>2, <3>3, <3>5, <3>6
  <2>2. CASE n # Len(b) /\ rest = <<b[n + 1]>>
    <3>0. n # Len(b)
      BY <2>2, Zenon
    <3>1. PICK c \in Nat : c = Len(b) /\ n <= c /\ n # c
      BY <1>4, <3>0
    <3>2. n + 1 \in 1..c /\ n + 1 \in 0..c
      BY <1>4, <3>1
    <3>3. s \o rest = SubSeq(b, 1, n + 1)
      BY <1>4, <1>6, <2>2, <3>1, <3>2, SubSeqNext
    <3>4. PICK x \in LogLine : x = b[n + 1]
      BY <3>1, <3>2, ElementOfSeq
    <3>5. rest \in Seq(LogLine)
      BY <2>2, <3>4
    <3> QED BY <1>7, <1>8, <3>1, <3>2, <3>3, <3>5
  <2> QED BY <1>3, <2>1, <2>2
<1>10. PICK g \in Seq(LogLine) : g = rest
  BY <1>9
<1>11. Write(s, g) /\ Clean(s \o g) /\ Apart(Parsed(file), Parsed(s \o g))
  BY <1>3, <1>5, <1>6, <1>9, <1>10 DEF Apart
<1>12. file \in Seq(LogLine) /\ (file = <<>> => terminated)
  BY DEF LogInv, LogTypes
<1> QED BY <1>11, <1>12, CleanWrite

LEMMA RecordsClean ==
    ASSUME NEW lines \in Seq(LogLine), Clean(lines)
    PROVE  Clean(Records(lines))
<1>1. PICK S : S = {i \in DOMAIN lines : lines[i].kind \notin NoRecord}
  OBVIOUS
<1>2. Records(lines) = Select(lines, S)
  BY <1>1 DEF Records, NoRecord
<1>3. PICK n \in Nat : n = Len(lines) /\ DOMAIN lines = 1..n
  BY LenProperties
<1>4. S \subseteq Nat /\ IsFiniteSet(S) /\ \A p \in S : p <= n
  <2>1. S \in SUBSET 1..n
    BY <1>1, <1>3
  <2>2. IsFiniteSet(1..n)
    BY FS_Interval
  <2>3. IsFiniteSet(S)
    BY <2>1, <2>2, FS_Subset
  <2> QED BY <2>1, <2>3
<1>5. PICK A : A = Ascending(S)
  OBVIOUS
<1>6. PICK c \in Nat : c = Cardinality(S)
  BY <1>4, FS_CardinalityType
<1>7. /\ \A j, k \in 1..c : j < k => A[j] < A[k]
      /\ \A k \in 1..c : A[k] \in S
  BY <1>4, <1>5, <1>6, AscendingOrder, AscendingIn
<1>8. PICK r : r = Records(lines)
  OBVIOUS
<1>9. DOMAIN r = 1..c /\ \A k \in 1..c : r[k] = lines[A[k]]
  BY <1>2, <1>5, <1>6, <1>8 DEF Select, Ascending
<1>10. ToSet(r) \subseteq Record
  BY <1>8, RecordsAreParsed DEF Clean, Parsed
<1>11. ASSUME NEW i \in 1..c, NEW j \in 1..c, r[i].id = r[j].id PROVE i = j
  <2>1. A[i] \in S /\ A[j] \in S /\ r[i] = lines[A[i]] /\ r[j] = lines[A[j]]
    BY <1>7, <1>9
  <2>2. A[i] = A[j]
    BY <1>1, <1>11, <2>1 DEF Clean, Distinct
  <2>3. ~(i < j) /\ ~(j < i)
    <3>1. A[i] \in Nat /\ A[j] \in Nat
      BY <1>4, <2>1
    <3> QED BY <1>7, <2>2, <3>1
  <2> QED BY <2>3
<1>12. Distinct(r)
  BY <1>9, <1>11 DEF Distinct
<1> QED BY <1>8, <1>10, <1>12 DEF Clean

LEMMA LinearDistinct ==
    ASSUME NEW es \in Seq(LogLine), Linear(es) PROVE Distinct(es)
<1>1. PICK n \in Nat : n = Len(es) /\ DOMAIN es = 1..n
  BY LenProperties
<1>2. ASSUME NEW i \in 1..n, NEW j \in 1..n, es[i].id = es[j].id PROVE i = j
  <2>1. es[i] \in LogLine /\ es[j] \in LogLine
    BY <1>1, ElementOfSeq
  <2>2. PICK v \in Nat : v = es[i].id /\ v = es[j].id
    BY <1>2, <2>1 DEF LogLine
  <2>3. ASSUME i < j \/ j < i PROVE v < v
    BY <1>1, <2>2, <2>3 DEF Linear
  <2>4. ~(i < j) /\ ~(j < i)
    BY <2>3
  <2> QED BY <2>4
<1> QED BY <1>1, <1>2 DEF Distinct

LEMMA CloneClean ==
    ASSUME LogInv, Clean(entries), NEW ids, ids \subseteq Ids(entries),
           NEW es, es = rechain_with_labels(ids),
           next + Len(Labelled(ids)) <= MaxEntries + 1
    PROVE  Clean(es)
<1>1. PICK A : A = Base(ids)
  OBVIOUS
<1>2. PICK L : L = Labelled(ids)
  OBVIOUS
<1>3. /\ ToSet(L) = ToSet(A) \cap labels /\ ToSet(A) = ids \ OfKind(entries, LabelKinds)
      /\ Len(A) \in Nat /\ Len(L) \in Nat /\ L \in Seq(Nat)
      /\ \A n \in 1..Len(A) : A[n] \in ids /\ A[n] \in 1..next - 1
      /\ Len(L) # 0 => Len(A) # 0
  BY <1>1, <1>2, CloneParts
<1>4. /\ es \in Seq(LogLine) /\ Len(es) = Len(A) + Len(L)
      /\ \A n \in 1..Len(A) :
           /\ es[n].id = A[n] /\ es[n].kind = ById(entries, A[n]).kind
           /\ es[n].ref = ById(entries, A[n]).ref
           /\ es[n].parent = IF n = 1 THEN 0 ELSE A[n - 1]
      /\ \A n \in 1..Len(L) :
           es[Len(A) + n] = [id |-> next + n - 1, kind |-> "label", ref |-> L[n],
                             parent |-> IF n = 1 THEN A[Len(A)] ELSE next + n - 2]
  <2>1. CloneShape(es, A, L)
    BY <1>1, <1>2, CloneEntries
  <2> QED BY <2>1 DEF CloneShape
<1>5. PICK a \in Nat, b \in Nat : /\ a = Len(A) /\ b = Len(L) /\ DOMAIN es = 1..a + b /\ DOMAIN L = 1..b
                                  /\ (b # 0 => a # 0) /\ next + b <= MaxEntries + 1
  <2>1. DOMAIN es = 1..Len(es) /\ DOMAIN L = 1..Len(L)
    BY <1>3, <1>4, LenProperties
  <2>2. next + Len(L) <= MaxEntries + 1
    BY <1>2
  <2> QED BY <1>3, <1>4, <2>1, <2>2
<1>6. /\ next \in Nat /\ next >= 1 /\ next <= MaxEntries + 1 /\ MaxEntries \in Nat
      /\ Sound(ToSet(entries), next)
  <2>1. next \in Nat /\ next >= 1 /\ next <= MaxEntries + 1 /\ MaxEntries \in Nat /\ next <= next
    BY SessionLogAssumption DEF LogInv, LogTypes, SessionLogAssumption
  <2>2. PICK U : U = ToSet(entries) \cup ToSet(pending_lines) \cup Parsed(file)
    OBVIOUS
  <2>3. Sound(U, next) /\ ToSet(entries) \subseteq U
    BY <2>2 DEF LogInv
  <2> QED BY <2>1, <2>3, SoundSubset
<1>7. \A n \in 1..a : A[n] \in 1..next - 1 /\ A[n] \in ids
  BY <1>3, <1>5
<1>8. \A n \in 1..a + b : es[n] \in LogLine
  BY <1>4, <1>5, ElementOfSeq
<1>9. ASSUME NEW n \in 1..a PROVE es[n] \in Record
  <2>1. A[n] \in Ids(entries)
    BY <1>7
  <2>2. ById(entries, A[n]) \in ToSet(entries)
    BY <1>6, <2>1, SoundById
  <2>3. ById(entries, A[n]) \in Record
    BY <2>2 DEF Clean
  <2>4. es[n].ref \in 0..MaxEntries + 1
    BY <1>4, <1>5, <2>3, RecordIs
  <2>5. es[n].id \in 0..MaxEntries
    <3>1. es[n].id = A[n] /\ A[n] \in 1..next - 1
      BY <1>4, <1>5, <1>7
    <3> QED BY <1>6, <3>1
  <2>6. es[n].parent \in 0..MaxEntries
    <3>1. CASE n = 1
      BY <1>4, <1>5, <1>6, <3>1
    <3>2. CASE n # 1
      <4>1. n - 1 \in 1..a
        BY <3>2
      <4>2. es[n].parent = A[n - 1] /\ A[n - 1] \in 1..next - 1
        BY <1>4, <1>5, <1>7, <3>2, <4>1
      <4> QED BY <1>6, <4>2
    <3> QED BY <3>1, <3>2
  <2>7. es[n] \in LogLine
    BY <1>8
  <2> QED BY <2>4, <2>5, <2>6, <2>7, RecordIs DEF LogLine
<1>10. ASSUME NEW k \in 1..b PROVE es[a + k] \in Record
  <2>1. es[a + k] = [id |-> next + k - 1, kind |-> "label", ref |-> L[k],
                     parent |-> IF k = 1 THEN A[a] ELSE next + k - 2]
    BY <1>4, <1>5
  <2>2. L[k] \in 0..MaxEntries + 1
    <3>1. L[k] \in ids
      BY <1>3, <1>5 DEF ToSet
    <3>2. L[k] \in IdSet(ToSet(entries))
      BY <3>1, IdsAreIdSet
    <3>3. L[k] \in 0..MaxEntries
      BY <3>2, IdsBelow
    <3> QED BY <1>6, <3>3
  <2>3. next + k - 1 \in 0..MaxEntries
    BY <1>5, <1>6
  <2>4. PICK x \in 0..MaxEntries : x = IF k = 1 THEN A[a] ELSE next + k - 2
    <3>1. CASE k = 1
      <4>1. a \in 1..a
        BY <1>5
      <4>2. A[a] \in 0..MaxEntries
        BY <1>6, <1>7, <4>1
      <4> QED BY <3>1, <4>2
    <3>2. CASE k # 1
      <4>1. next + k - 2 \in 0..MaxEntries
        BY <1>5, <1>6, <3>2
      <4> QED BY <3>2, <4>1
    <3> QED BY <3>1, <3>2
  <2>5. "label" \in LineKinds
    BY DEF LineKinds, LabelKinds
  <2>6. [id |-> next + k - 1, kind |-> "label", ref |-> L[k], parent |-> x] \in Record
    BY <2>2, <2>3, <2>4, <2>5, RecordIs
  <2>7. es[a + k] = [id |-> next + k - 1, kind |-> "label", ref |-> L[k], parent |-> x]
    BY <2>1, <2>4
  <2> QED BY <2>6, <2>7
<1>11. ASSUME NEW n \in 1..a + b PROVE es[n] \in Record
  <2>1. CASE n <= a
    <3>1. n \in 1..a
      BY <2>1
    <3> QED BY <1>9, <3>1
  <2>2. CASE ~(n <= a)
    <3>1. PICK k \in 1..b : n = a + k
      <4>1. n - a \in 1..b /\ n = a + (n - a)
        BY <2>2
      <4> QED BY <4>1
    <3> QED BY <1>10, <3>1
  <2> QED BY <2>1, <2>2
<1>12. Linear(es)
  BY <1>1, <1>2, CloneLinear
<1>13. Distinct(es)
  BY <1>4, <1>12, LinearDistinct
<1>14. ToSet(es) \subseteq Record
  BY <1>5, <1>11 DEF ToSet
<1> QED BY <1>13, <1>14 DEF Clean

LEMMA LinesAttempt ==
    ASSUME LogInv, LinesInv, NEW k \in LineKinds \ NoRecord,
           NEW p \in IdSet(ToSet(entries)) \cup {0}, NEW r \in 0..MaxEntries, Attempt(Line(k, p, r))
    PROVE  LinesInv'
<1>1. PICK l : l = Line(k, p, r)
  OBVIOUS
<1>2. next <= MaxEntries /\ forks' = forks
  BY DEF Attempt
<1>3. l \in Record
  BY <1>1, <1>2, LineClean
<1>4. Fits(l)
  <2>1. r \in Nat
    OBVIOUS
  <2> QED BY <1>1, <2>1, LineFits
<1>5. entries \in Seq(LogLine) /\ pending_lines \in Seq(LogLine) /\ l \in LogLine
  BY <1>4 DEF LogInv, LogTypes, Fits
<1>6. Clean(entries) /\ Clean(file) /\ ToSet(pending_lines) \subseteq Record
  BY DEF LinesInv
<1>7. Clean(Append(entries, l))
  BY <1>3, <1>4, <1>6, AppendClean
<1>8. faults \in Nat /\ MaxFaults \in Nat
  BY SessionLogAssumption DEF LinesInv, SessionLogAssumption
<1>9. CASE Hold(l)
  <2>1. /\ pending_lines' = Append(pending_lines, l) /\ entries' = Append(entries, l)
        /\ file' = file /\ torn' = torn /\ faults' = faults
    BY <1>9 DEF Hold, Remember, disk
  <2>2. ToSet(Append(pending_lines, l)) = ToSet(pending_lines) \cup {l}
    BY <1>5, SetOfAppend
  <2>3. ToSet(pending_lines') \subseteq Record
    BY <1>3, <1>6, <2>1, <2>2
  <2> QED BY <1>2, <1>6, <1>7, <2>1, <2>3 DEF LinesInv
<1>10. CASE Store(l)
  <2>1. /\ CanOpen(l) /\ Write(Batch(l), <<>>) /\ pending_lines' = <<>>
        /\ entries' = Append(entries, l) /\ torn' = torn /\ faults' = faults
    BY <1>10 DEF Store, Remember
  <2>2. Batch(l) \in Seq(LogLine)
    BY <1>4, BatchHolds
  <2>3. PICK b \in Seq(LogLine) : b = Batch(l)
    BY <2>2
  <2>4. Clean(b) /\ Apart(Parsed(file), Parsed(b))
    BY <1>3, <1>4, <1>6, <2>1, <2>3, BatchClean
  <2>a. <<>> \in Seq(LogLine) /\ b \o <<>> = b
    BY <2>3, ConcatEmptySeq
  <2>5. PICK g \in Seq(LogLine) : g = <<>> /\ b \o g = b
    BY <2>a
  <2>6. Write(b, g) /\ Clean(b \o g) /\ Apart(Parsed(file), Parsed(b \o g))
    BY <2>1, <2>3, <2>4, <2>5
  <2>7. file \in Seq(LogLine) /\ (file = <<>> => terminated)
    BY DEF LogInv, LogTypes
  <2>8. Clean(file')
    BY <1>6, <2>6, <2>7, CleanWrite
  <2>9. ToSet(pending_lines') \subseteq Record
    BY <2>1 DEF ToSet
  <2> QED BY <1>2, <1>7, <2>1, <2>8, <2>9 DEF LinesInv
<1>11. CASE Refuse(l) \/ Die(l)
  <2>1. /\ CanOpen(l) /\ WritePart(l) /\ faults < MaxFaults /\ faults' = faults + 1
        /\ entries' = entries /\ pending_lines' = pending_lines
    BY <1>11 DEF Refuse, Die, memory
  <2>2. torn' \in {"no", "now", "before"}
    BY <1>11 DEF Refuse, Die, LinesInv
  <2>3. Clean(file')
    BY <1>3, <1>4, <1>6, <2>1, PartClean
  <2>4. faults' \in 0..MaxFaults
    BY <1>8, <2>1
  <2> QED BY <1>2, <1>6, <2>1, <2>2, <2>3, <2>4 DEF LinesInv
<1> QED BY <1>1, <1>9, <1>10, <1>11 DEF Attempt

LEMMA LinesFile ==
    ASSUME LogInv, LinesInv, NEW es \in Seq(LogLine), Clean(es), NEW b, b = <<HEADER>> \o es
    PROVE  b \in Seq(LogLine) /\ Clean(b)
<1>1. <<HEADER>> \in Seq(LogLine) /\ Parsed(<<HEADER>>) = {} /\ HEADER \in Record
  BY ParsedLines, RecordIs
<1>2. PICK h \in Seq(LogLine) : h = <<HEADER>>
  BY <1>1
<1>3. Clean(h) /\ Apart(Parsed(h), Parsed(es))
  BY <1>1, <1>2, CleanOne DEF Apart
<1>4. b \in Seq(LogLine)
  BY <1>2, ConcatProperties
<1>5. Clean(b)
  BY <1>2, <1>3, CleanConcat
<1> QED BY <1>4, <1>5

LEMMA LinesFork ==
    ASSUME LogInv, LinesInv, NEW es \in Seq(LogLine), Clean(es), Fork(es)
    PROVE  LinesInv'
<1>1. PICK lines : lines = <<HEADER>> \o es
  OBVIOUS
<1>2. lines \in Seq(LogLine) /\ Clean(lines)
  BY <1>1, LinesFile
<1>3. /\ file' = lines /\ entries' = Records(lines) /\ pending_lines' = <<>>
      /\ torn' = (IF torn = "no" THEN "no" ELSE "before")
      /\ faults' = faults /\ forks' = forks + 1 /\ forks < MaxForks
  BY <1>1 DEF Fork, Copy, Load
<1>4. Clean(entries')
  BY <1>2, <1>3, RecordsClean
<1>5. forks' \in 0..MaxForks
  BY <1>3, SessionLogAssumption DEF LinesInv, SessionLogAssumption
<1>6. ToSet(pending_lines') \subseteq Record
  BY <1>3 DEF ToSet
<1>7. torn' \in {"no", "now", "before"}
  BY <1>3
<1>8. faults' \in 0..MaxFaults /\ Clean(file')
  BY <1>2, <1>3 DEF LinesInv
<1> QED BY <1>4, <1>5, <1>6, <1>7, <1>8 DEF LinesInv

LEMMA LinesStop ==
    ASSUME LogInv, LinesInv, NEW es \in Seq(LogLine), Clean(es), ForkStops(es)
    PROVE  LinesInv'
<1>1. PICK b : b = <<HEADER>> \o es
  OBVIOUS
<1>2. b \in Seq(LogLine) /\ Clean(b)
  BY <1>1, LinesFile
<1>3. PICK n \in 0..Len(b) : \E rest \in Cut(b, n) : file' = SubSeq(b, 1, n) \o rest
  BY <1>1 DEF ForkStops
<1>4. PICK rest \in Cut(b, n) : file' = SubSeq(b, 1, n) \o rest
  BY <1>3
<1>5. PICK m \in 0..Len(b), g \in {<<>>, <<GARBAGE>>} : file' = SubSeq(b, 1, m) \o g
  BY <1>2, <1>4, StopsWith
<1>6. PICK u \in Seq(LogLine) : u = SubSeq(b, 1, m) /\ Clean(u)
  BY <1>2, SubSeqIn, CleanParts
<1>7. g \in Seq(LogLine) /\ Clean(g) /\ Parsed(g) = {}
  <2>1. /\ <<>> \in Seq(LogLine) /\ <<GARBAGE>> \in Seq(LogLine)
        /\ Parsed(<<>>) = {} /\ Parsed(<<GARBAGE>>) = {}
        /\ Clean(<<>>) /\ Clean(<<GARBAGE>>)
    BY ParsedLines, RecordIs, CleanOne, CleanEmpty
  <2> QED BY <2>1
<1>8. Clean(u \o g)
  <2>1. Apart(Parsed(u), Parsed(g))
    BY <1>7 DEF Apart
  <2> QED BY <1>6, <1>7, <2>1, CleanConcat
<1>9. /\ entries' = <<>> /\ pending_lines' = <<>>
      /\ torn' = (IF torn = "no" THEN "no" ELSE "before")
      /\ faults' = faults + 1 /\ faults < MaxFaults
      /\ forks' = forks + 1 /\ forks < MaxForks
  BY DEF ForkStops, Copy
<1>10. Clean(<<>>) /\ ToSet(<<>>) \subseteq Record
  BY CleanEmpty DEF Clean
<1>11. forks' \in 0..MaxForks /\ faults' \in 0..MaxFaults
  BY <1>9, SessionLogAssumption DEF LinesInv, SessionLogAssumption
<1>12. torn' \in {"no", "now", "before"}
  BY <1>9
<1> QED BY <1>5, <1>6, <1>8, <1>9, <1>10, <1>11, <1>12 DEF LinesInv

\* A clone within the bound of the records.
LEMMA PathClean ==
    ASSUME LogInv, LinesInv, NEW i, Known(i), NEW es, es = rechain_with_labels(path_to(entries, i)),
           next + Cardinality(Ids(es) \ Ids(entries)) <= MaxEntries + 1
    PROVE  es \in Seq(LogLine) /\ Clean(es)
<1>1. PICK ids : ids = path_to(entries, i)
  OBVIOUS
<1>2. ids \subseteq Ids(entries)
  BY <1>1, ClonePathIn
<1>3. es = rechain_with_labels(ids)
  BY <1>1
<1>4. PICK b : b = Len(Labelled(ids))
  OBVIOUS
<1>5. es \in Seq(LogLine)
  BY PathCopy DEF CopyOf
<1>6. Cardinality(Ids(es) \ Ids(entries)) = b
  BY <1>2, <1>3, <1>4, CloneCount
<1>7. next + b <= MaxEntries + 1
  BY <1>6
<1>8. Clean(es)
  BY <1>2, <1>3, <1>4, <1>7, CloneClean DEF LinesInv
<1> QED BY <1>5, <1>8

LEMMA LinesClone ==
    ASSUME LogInv, LinesInv, NEW i, clone_path_to(i) PROVE LinesInv'
<1>1. PICK es : es = rechain_with_labels(path_to(entries, i))
  OBVIOUS
<1>2. Fork(es) /\ Known(i)
  BY <1>1 DEF clone_path_to
<1>3. next + Cardinality(Ids(es) \ Ids(entries)) <= MaxEntries + 1
  BY <1>2 DEF Fork, Copy
<1>4. es \in Seq(LogLine) /\ Clean(es)
  BY <1>1, <1>2, <1>3, PathClean
<1> QED BY <1>2, <1>4, LinesFork

LEMMA LinesCopyStops ==
    ASSUME LogInv, LinesInv, copy_stops PROVE LinesInv'
<1>1. CASE ForkStops(entries)
  <2>1. entries \in Seq(LogLine) /\ Clean(entries)
    BY DEF LogInv, LogTypes, LinesInv
  <2> QED BY <1>1, <2>1, LinesStop
<1>2. ASSUME NEW i \in Branches, Known(i), ForkStops(rechain_with_labels(path_to(entries, i)))
      PROVE  LinesInv'
  <2>1. PICK es : es = rechain_with_labels(path_to(entries, i))
    OBVIOUS
  <2>2. ForkStops(es)
    BY <1>2, <2>1
  <2>3. next + Cardinality(Ids(es) \ Ids(entries)) <= MaxEntries + 1
    BY <2>2 DEF ForkStops, Copy
  <2>4. es \in Seq(LogLine) /\ Clean(es)
    BY <1>2, <2>1, <2>3, PathClean
  <2> QED BY <2>2, <2>4, LinesStop
<1> QED BY <1>1, <1>2 DEF copy_stops

LEMMA LinesStep == ASSUME LogInv, LinesInv, [LogNext]_logVars PROVE LinesInv'
<1>1. CASE \/ \E k \in Kinds : append_message(k)
           \/ \E t \in Ids(entries) :
                \/ \E k \in LabelKinds : append_label_change(t, k)
                \/ append_compaction(t) \/ append_branch_summary(t)
  <2>1. PICK k \in LineKinds \ NoRecord, p \in IdSet(ToSet(entries)) \cup {0}, r \in 0..MaxEntries :
          Attempt(Line(k, p, r))
    BY <1>1, AppendsAttempt
  <2> QED BY <2>1, LinesAttempt
<1>2. CASE \/ \E t \in Ids(entries) : set_leaf(t)
           \/ Exit \/ UNCHANGED logVars
  <2>1. /\ entries' = entries /\ file' = file /\ pending_lines' = pending_lines
        /\ torn' = torn /\ faults' = faults /\ forks' = forks
    BY <1>2 DEF set_leaf, Exit, logVars, memory, disk, bounds
  <2> QED BY <2>1 DEF LinesInv
<1>3. CASE open
  <2>1. /\ entries' = Records(file) /\ file' = file /\ pending_lines' = <<>>
        /\ torn' = (IF torn = "no" THEN "no" ELSE "before") /\ faults' = faults /\ forks' = forks
    BY <1>3 DEF open, Load, disk, bounds
  <2>2. file \in Seq(LogLine) /\ Clean(file)
    BY DEF LogInv, LogTypes, LinesInv
  <2>3. Clean(entries')
    BY <2>1, <2>2, RecordsClean
  <2>4. ToSet(pending_lines') \subseteq Record /\ torn' \in {"no", "now", "before"}
    BY <2>1 DEF ToSet
  <2> QED BY <2>1, <2>2, <2>3, <2>4 DEF LinesInv
<1>4. CASE create
  <2>1. /\ entries' = <<>> /\ file' = <<>> /\ pending_lines' = <<>> /\ torn' = "no"
        /\ faults' = faults /\ forks' = forks
    BY <1>4 DEF create, bounds
  <2>2. Clean(<<>>) /\ ToSet(<<>>) \subseteq Record
    BY CleanEmpty DEF Clean
  <2> QED BY <2>1, <2>2 DEF LinesInv
<1>5. CASE fork_to
  <2>1. entries \in Seq(LogLine) /\ Clean(entries) /\ Fork(entries)
    BY <1>5 DEF LogInv, LogTypes, LinesInv, fork_to
  <2> QED BY <2>1, LinesFork
<1>6. CASE clone_active \/ \E t \in Ids(entries) : fork_before(t)
  BY <1>6, LinesClone DEF clone_active, fork_before
<1>7. CASE copy_stops
  BY <1>7, LinesCopyStops
<1> QED BY <1>1, <1>2, <1>3, <1>4, <1>5, <1>6, <1>7 DEF LogNext

LEMMA LinesInit == LogInit => LinesInv
<1>1. Clean(<<>>) /\ ToSet(<<>>) \subseteq Record
  BY CleanEmpty DEF Clean
<1>2. 0 \in 0..MaxFaults /\ 0 \in 0..MaxForks
  BY SessionLogAssumption DEF SessionLogAssumption
<1> QED BY <1>1, <1>2 DEF LogInit, LinesInv

LEMMA CountDistinct ==
    ASSUME NEW es \in Seq(LogLine), Distinct(es), \A e \in ToSet(es) : e.kind \notin NoRecord
    PROVE  Cardinality(Ids(es)) = Len(es)
<1>1. PICK n \in Nat : n = Len(es) /\ DOMAIN es = 1..n
  BY LenProperties
<1>2. PICK f : f = [i \in 1..n |-> es[i].id]
  OBVIOUS
<1>3. \A i \in 1..n : es[i].kind \notin NoRecord
  BY <1>1 DEF ToSet
<1>4. \A i, j \in 1..n : es[i].id = es[j].id => i = j
  BY <1>1, <1>3 DEF Distinct
<1>5. Ids(es) = {es[i].id : i \in 1..n}
  BY <1>1 DEF Ids
<1>6. f \in Bijection(1..n, Ids(es))
  <2>1. f \in [1..n -> Ids(es)]
    BY <1>2, <1>5
  <2>2. \A i, j \in 1..n : f[i] = f[j] => i = j
    BY <1>2, <1>4
  <2>3. \A x \in Ids(es) : \E i \in 1..n : f[i] = x
    BY <1>2, <1>5
  <2>4. f \in Injection(1..n, Ids(es))
    BY <2>1, <2>2 DEF Injection, IsInjective
  <2>5. f \in Surjection(1..n, Ids(es))
    BY <2>1, <2>3 DEF Surjection
  <2> QED BY <2>4, <2>5 DEF Bijection
<1>7. IsFiniteSet(1..n) /\ Cardinality(1..n) = n
  BY FS_Interval
<1>8. ExistsBijection(1..n, Ids(es))
  BY <1>6 DEF ExistsBijection
<1>9. Cardinality(Ids(es)) = Cardinality(1..n)
  BY <1>7, <1>8, FS_Bijection
<1> QED BY <1>1, <1>7, <1>9

\* The manager and its file keep their types and their bounds; no entry is
\* there twice, in memory or after a load of a file that was written in parts
\* and reopened; and the leaf and the labels belong to the entries (load,
\* persist_line, rebuild_index).
THEOREM LogTypesHold == LogSpec => []LogTypeOK
<1>1. LogInv /\ LinesInv /\ LabelIndex => LogTypeOK
  <2> SUFFICES ASSUME LogInv, LinesInv, LabelIndex PROVE LogTypeOK
    OBVIOUS
  <2>1. ToSet(entries) \cup ToSet(pending_lines) \cup ToSet(file) \subseteq Record
    BY DEF LinesInv, Clean
  <2>2. leaf \in Ids(entries) \cup {0} /\ labels = LabelsOf(entries)
    BY IdsAreIdSet DEF LogInv, LabelIndex
  <2>3. \A e \in ToSet(entries) : e.parent < e.id /\ e.kind \notin NoRecord
    <3>1. next \in Nat
      BY SessionLogAssumption DEF LogInv, LogTypes, SessionLogAssumption
    <3>2. ASSUME NEW e \in ToSet(entries)
          PROVE  e.id \in 1..next - 1 /\ e.parent \in 0..e.id - 1 /\ e.kind \notin NoRecord
      BY DEF LogInv, Sound
    <3> QED BY <3>1, <3>2
  <2>4. entries \in Seq(LogLine) /\ Distinct(entries)
    BY DEF LogInv, LogTypes, LinesInv, Clean
  <2>5. Cardinality(Ids(entries)) = Len(entries)
    BY <2>3, <2>4, CountDistinct
  <2>6. {session_flushed, needs_separator, exists, terminated, alive} \subseteq BOOLEAN
    BY DEF LogInv, LogTypes
  <2>7. /\ torn \in {"no", "now", "before"} /\ next \in 1..MaxEntries + 1
        /\ faults \in 0..MaxFaults /\ forks \in 0..MaxForks
    BY DEF LogInv, LogTypes, LinesInv
  <2> QED BY <2>1, <2>2, <2>3, <2>5, <2>6, <2>7 DEF LogTypeOK
<1>2. LogInit => LabelIndex
  <2>1. LabelsOf(<<>>) = {}
    BY DEF LabelsOf
  <2> QED BY <2>1 DEF LogInit, LabelIndex
<1>3. LogInv /\ OrderInv /\ [LogNext]_logVars => (LogInv /\ OrderInv)'
  BY LogStep
<1>4. LogInv /\ LabelIndex /\ [LogNext]_logVars => LabelIndex'
  BY IndexStep
<1>5. LogInv /\ LinesInv /\ [LogNext]_logVars => LinesInv'
  BY LinesStep
<1> QED BY LogStart, LinesInit, <1>1, <1>2, <1>3, <1>4, <1>5, PTL DEF LogSpec
=============================================================================
