---------------------------- MODULE WindowProofs ----------------------------
(***************************************************************************)
(* What the proofs about receiving share: induction over the naturals, the *)
(* filter of a batch, numbers on the ring of sequence numbers, the types   *)
(* of the receive window, and what it has let pass and counted as lost.    *)
(***************************************************************************)
EXTENDS RxWindow, SequencesExt, FiniteSetTheorems, SequenceTheorems, TLAPS

\* No element of a sequence twice.
SeqInj(s) == \A i, j \in 1..Len(s) : s[i] = s[j] => i = j

-----------------------------------------------------------------------------
\* Induction over the naturals, for sets

\* A set that holds 0 and, with every natural number, the next one, holds all.
LEMMA SetInduction ==
  ASSUME NEW S, 0 \in S, \A n \in Nat : n \in S => n + 1 \in S
  PROVE  Nat \subseteq S
  <1> SUFFICES ASSUME NEW k \in Nat, k \notin S PROVE FALSE
    OBVIOUS
  <1> DEFINE A == {n \in 0..k : n \in S}
             f == [n \in A |-> n + 1]
  <1>1. IsFiniteSet(A)
    <2>1. IsFiniteSet(0..k)
      BY FS_Interval
    <2> QED BY <2>1, FS_Subset
  <1>2. 0 \in A
    OBVIOUS
  <1>3. IsFiniteSet(A \ {0}) /\ Cardinality(A \ {0}) = Cardinality(A) - 1 /\ Cardinality(A) \in Nat
    BY <1>1, <1>2, FS_RemoveElement, FS_CardinalityType
  <1>4. f \in Injection(A, A \ {0})
    BY DEF Injection, IsInjective
  <1>5. Cardinality(A) <= Cardinality(A \ {0})
    BY <1>3, <1>4, FS_Injection
  <1> QED BY <1>3, <1>5

\* Min picks the least element of a set of naturals.
LEMMA MinIn ==
  ASSUME NEW S, S \subseteq Nat, S # {}
  PROVE  Min(S) \in S /\ \A n \in S : Min(S) <= n
  <1>1. \E m \in S : \A n \in S : m <= n
    <2> SUFFICES ASSUME \A m \in S : \E n \in S : n < m PROVE FALSE
      OBVIOUS
    <2> DEFINE T == {n \in Nat : \A k \in S : k > n}
    <2>1. 0 \in T
      OBVIOUS
    <2>2. \A n \in Nat : n \in T => n + 1 \in T
      <3> SUFFICES ASSUME NEW n \in Nat, \A k \in S : k > n PROVE \A k \in S : k > n + 1
        OBVIOUS
      <3>1. n + 1 \notin S
        OBVIOUS
      <3> QED BY <3>1
    <2> HIDE DEF T
    <2>3. Nat \subseteq T
      BY <2>1, <2>2, SetInduction
    <2>4. PICK k \in S : k \in Nat
      OBVIOUS
    <2>5. k \in T
      BY <2>3, <2>4
    <2> QED BY <2>5 DEF T
  <1> QED BY <1>1 DEF Min

\* A bounded set of naturals has a greatest element.
LEMMA MaxExists ==
  ASSUME NEW n \in Nat, NEW S, S \subseteq 0..n, S # {}
  PROVE  \E m \in S : \A k \in S : k <= m
  <1> DEFINE T == {n - k : k \in S}
  <1>1. T \subseteq Nat /\ T # {}
    <2>1. PICK k \in S : TRUE
      OBVIOUS
    <2>2. n - k \in T
      OBVIOUS
    <2>3. ASSUME NEW t \in T PROVE t \in Nat
      <3>1. PICK j \in S : t = n - j
        OBVIOUS
      <3>2. j \in 0..n
        OBVIOUS
      <3> QED BY <3>1, <3>2
    <2> QED BY <2>2, <2>3
  <1> HIDE DEF T
  <1>2. Min(T) \in T /\ \A k \in T : Min(T) <= k
    BY <1>1, MinIn
  <1>3. PICK m \in S : Min(T) = n - m
    BY <1>2 DEF T
  <1>4. ASSUME NEW k \in S PROVE k <= m
    <2>1. n - k \in T
      BY DEF T
    <2>2. n - m <= n - k
      BY <1>2, <1>3, <2>1
    <2> QED BY <2>2
  <1> QED BY <1>4

-----------------------------------------------------------------------------
\* Sequences

\* The recursive function behind Selected exists.
LEMMA SelectedRun ==
  ASSUME NEW X, NEW s \in Seq(X), NEW S
  PROVE  \E g : /\ Selected(s, S) = g[Len(s)]
                /\ g[0] = << >>
                /\ \A i \in 1..Len(s) : /\ s[i] \in S => g[i] = Append(g[i - 1], s[i])
                                        /\ s[i] \notin S => g[i] = g[i - 1]
  <1> DEFINE Step(r, i) == IF s[i] \in S THEN Append(r, s[i]) ELSE r
             F(n, f) == [i \in 0..n |-> IF i = 0 THEN << >> ELSE Step(f[i - 1], i)]
             T == {n \in Nat : \E g : g = F(n, g)}
             sel == CHOOSE f : f = F(Len(s), f)
  <1>1. Selected(s, S) = sel[Len(s)]
    BY DEF Selected
  <1> HIDE DEF Step
  <1>2. 0 \in T
    <2> DEFINE g == [i \in 0..0 |-> << >>]
    <2>1. g = F(0, g)
      OBVIOUS
    <2> QED BY <2>1
  <1>3. \A n \in Nat : n \in T => n + 1 \in T
    <2> SUFFICES ASSUME NEW n \in Nat, n \in T
                 PROVE  \E g : g = F(n + 1, g)
      <3> HIDE DEF F
      <3> QED OBVIOUS
    <2>1. PICK g : g = F(n, g)
      <3> HIDE DEF F
      <3> QED OBVIOUS
    <2> DEFINE h == F(n + 1, g)
    <2>2. ASSUME NEW i \in 0..n PROVE h[i] = g[i]
      <3>1. h[i] = IF i = 0 THEN << >> ELSE Step(g[i - 1], i)
        OBVIOUS
      <3>2. F(n, g)[i] = IF i = 0 THEN << >> ELSE Step(g[i - 1], i)
        OBVIOUS
      <3> QED BY ONLY <2>1, <3>1, <3>2
    <2> HIDE DEF h
    <2>3. \A i \in 1..(n + 1) : h[i - 1] = g[i - 1]
      BY <2>2
    <2>4. F(n + 1, g) = F(n + 1, h)
      BY <2>3
    <2>5. h = F(n + 1, h)
      BY <2>4 DEF h
    <2> QED BY <2>5
  <1>4. Len(s) \in Nat
    OBVIOUS
  <1>5. Len(s) \in T
    <2> HIDE DEF T
    <2> QED BY <1>2, <1>3, <1>4, SetInduction
  <1>6. sel = F(Len(s), sel)
    <2> HIDE DEF F
    <2> QED BY <1>5
  <1> HIDE DEF sel
  <1>7. sel[0] = << >>
    BY <1>4, <1>6
  <1>8. ASSUME NEW i \in 1..Len(s) PROVE sel[i] = Step(sel[i - 1], i)
    <2>1. F(Len(s), sel)[i] = Step(sel[i - 1], i)
      BY <1>4
    <2> QED BY ONLY <1>6, <2>1
  <1> QED BY <1>1, <1>7, <1>8 DEF Step

\* Appending to a sequence.
LEMMA AppendFacts ==
  ASSUME NEW X, NEW s \in Seq(X), NEW x \in X
  PROVE  /\ Append(s, x) \in Seq(X)
         /\ ToSet(Append(s, x)) = ToSet(s) \cup {x}
         /\ SeqInj(s) /\ x \notin ToSet(s) => SeqInj(Append(s, x))
  BY DEF ToSet, SeqInj

\* Selected keeps exactly the elements in S, and no element becomes double.
LEMMA SelectedFacts ==
  ASSUME NEW X, NEW s \in Seq(X), NEW S
  PROVE  /\ Selected(s, S) \in Seq(X)
         /\ ToSet(Selected(s, S)) = ToSet(s) \cap S
         /\ SeqInj(s) => SeqInj(Selected(s, S))
  <1>1. PICK g : /\ Selected(s, S) = g[Len(s)]
                 /\ g[0] = << >>
                 /\ \A i \in 1..Len(s) : /\ s[i] \in S => g[i] = Append(g[i - 1], s[i])
                                         /\ s[i] \notin S => g[i] = g[i - 1]
    BY SelectedRun
  <1> DEFINE Ok(n) == /\ g[n] \in Seq(X)
                      /\ ToSet(g[n]) = {s[j] : j \in 1..n} \cap S
                      /\ SeqInj(s) => SeqInj(g[n])
             T == {n \in Nat : n <= Len(s) => Ok(n)}
  <1>2. 0 \in T
    <2>1. g[0] = << >> /\ << >> \in Seq(X) /\ Len(<< >>) = 0 /\ 1..0 = {} /\ DOMAIN << >> = {}
      BY <1>1
    <2>2. SeqInj(<< >>) /\ ToSet(<< >>) = {}
      BY <2>1 DEF SeqInj, ToSet
    <2> QED BY <2>1, <2>2
  <1>3. \A n \in Nat : n \in T => n + 1 \in T
    <2> SUFFICES ASSUME NEW n \in Nat, n + 1 <= Len(s), Ok(n) PROVE Ok(n + 1)
      <3> HIDE DEF Ok
      <3> QED OBVIOUS
    <2>1. s[n + 1] \in X /\ n + 1 \in 1..Len(s)
      OBVIOUS
    <2>2. {s[j] : j \in 1..(n + 1)} = {s[j] : j \in 1..n} \cup {s[n + 1]}
      OBVIOUS
    <2>3. CASE s[n + 1] \notin S
      <3>1. g[n + 1] = g[n]
        BY <1>1, <2>1, <2>3
      <3> QED BY <2>2, <2>3, <3>1
    <2>4. CASE s[n + 1] \in S
      <3>1. g[n + 1] = Append(g[n], s[n + 1])
        <4>1. (n + 1) - 1 = n
          OBVIOUS
        <4> QED BY <1>1, <2>1, <2>4, <4>1
      <3>2. SeqInj(s) => s[n + 1] \notin ToSet(g[n])
        BY DEF SeqInj
      <3> QED BY <2>1, <2>2, <2>4, <3>1, <3>2, AppendFacts
    <2> QED BY <2>3, <2>4
  <1>4. Len(s) \in T
    <2> HIDE DEF T
    <2> QED BY <1>2, <1>3, SetInduction
  <1>5. ToSet(s) = {s[j] : j \in 1..Len(s)}
    BY DEF ToSet
  <1> QED BY <1>1, <1>4, <1>5

\* Taking the first element of a sequence away.
LEMMA TailFacts ==
  ASSUME NEW X, NEW s \in Seq(X), s # << >>
  PROVE  /\ Head(s) \in X /\ Tail(s) \in Seq(X)
         /\ ToSet(s) = ToSet(Tail(s)) \cup {Head(s)}
         /\ SeqInj(s) => SeqInj(Tail(s)) /\ Head(s) \notin ToSet(Tail(s))
         /\ Len(s) = 1 <=> Tail(s) = << >>
  <1>1. Len(s) \in Nat \ {0} /\ Len(Tail(s)) = Len(s) - 1 /\ Head(s) = s[1]
    OBVIOUS
  <1>2. \A i \in 1..(Len(s) - 1) : Tail(s)[i] = s[i + 1]
    OBVIOUS
  <1>3. Head(s) \in X /\ Tail(s) \in Seq(X)
    BY <1>1
  <1>4. ToSet(s) = {s[i] : i \in 1..Len(s)} /\ ToSet(Tail(s)) = {Tail(s)[i] : i \in 1..(Len(s) - 1)}
    <2>1. DOMAIN s = 1..Len(s)
      OBVIOUS
    <2>2. DOMAIN Tail(s) = 1..(Len(s) - 1)
      BY <1>1, <1>3
    <2> QED BY <2>1, <2>2 DEF ToSet
  <1>5. ToSet(s) = ToSet(Tail(s)) \cup {Head(s)}
    <2>1. ASSUME NEW i \in 1..Len(s) PROVE s[i] \in ToSet(Tail(s)) \cup {Head(s)}
      <3>1. CASE i = 1
        BY <1>1, <3>1
      <3>2. CASE i # 1
        <4>1. i - 1 \in 1..(Len(s) - 1) /\ (i - 1) + 1 = i
          BY <1>1, <3>2
        <4>2. Tail(s)[i - 1] = s[i]
          BY <1>2, <4>1
        <4> QED BY <1>4, <4>1, <4>2
      <3> QED BY <3>1, <3>2
    <2>2. Head(s) \in ToSet(s)
      BY <1>1, <1>4
    <2>3. ASSUME NEW i \in 1..(Len(s) - 1) PROVE Tail(s)[i] \in ToSet(s)
      BY <1>1, <1>2, <1>4
    <2> QED BY <1>4, <2>1, <2>2, <2>3
  <1>6. ASSUME SeqInj(s) PROVE SeqInj(Tail(s)) /\ Head(s) \notin ToSet(Tail(s))
    <2>1. SeqInj(Tail(s))
      BY <1>1, <1>2, <1>6 DEF SeqInj
    <2>2. ASSUME NEW i \in 1..(Len(s) - 1), Tail(s)[i] = Head(s) PROVE FALSE
      <3>1. i + 1 \in 1..Len(s) /\ 1 \in 1..Len(s) /\ s[i + 1] = s[1]
        BY <1>1, <1>2, <2>2
      <3>2. i + 1 = 1
        BY <1>6, <3>1 DEF SeqInj
      <3> QED BY <3>2
    <2> QED BY <1>4, <2>1, <2>2
  <1>7. Len(s) = 1 <=> Tail(s) = << >>
    <2>1. Tail(s) = << >> <=> Len(Tail(s)) = 0
      BY <1>3, EmptySeq
    <2> QED BY <1>1, <2>1
  <1> QED BY <1>3, <1>5, <1>6, <1>7

-----------------------------------------------------------------------------
\* The receive window keeps its type

\* Sequence numbers are natural numbers below SeqCount, and so are their distances.
LEMMA DistType ==
  /\ SeqCount \in Nat \ {0} /\ WinBits \in Nat \ {0} /\ SeqCount \div 2 \in Nat /\ WinBits <= SeqCount \div 2
  /\ 2 * (SeqCount \div 2) = SeqCount
  /\ \A a, b \in Int : Dist(a, b) \in 0..(SeqCount - 1)
  <1>1. SeqCount \in Nat /\ SeqCount % 2 = 0 /\ WinBits \in 1..(SeqCount \div 2)
    BY WindowAssumption
  <1>2. SeqCount \in Nat \ {0} /\ WinBits \in Nat \ {0} /\ SeqCount \div 2 \in Nat /\ WinBits <= SeqCount \div 2
    BY <1>1
  <1>3. ASSUME NEW a \in Int, NEW b \in Int PROVE Dist(a, b) \in 0..(SeqCount - 1)
    <2>1. \A n \in Int : n % SeqCount \in 0..(SeqCount - 1)
      BY <1>2
    <2> QED BY <2>1 DEF Dist
  <1>4. 2 * (SeqCount \div 2) = SeqCount
    BY <1>1
  <1> QED BY <1>2, <1>3, <1>4

\* The loss that an advance confirms is a natural number.
LEMMA LostType ==
  ASSUME NEW w \in Windows, NEW a \in Nat
  PROVE  ConfirmedLost(w, a) \in Nat
  <1> DEFINE A == {o \in 0..(w.tracked - 1) : o + a >= WinBits} \ w.got
  <1>1. w.tracked \in Nat
    BY DistType DEF Windows
  <1>2. IsFiniteSet(A)
    <2>1. IsFiniteSet(0..(w.tracked - 1))
      BY <1>1, FS_Interval
    <2>2. A \subseteq 0..(w.tracked - 1)
      OBVIOUS
    <2> HIDE DEF A
    <2> QED BY <2>1, <2>2, FS_Subset
  <1>3. Cardinality(A) \in Nat
    BY <1>2, FS_CardinalityType
  <1>4. CASE w.tracked = 0
    BY <1>4 DEF ConfirmedLost
  <1>5. CASE w.tracked # 0 /\ a >= WinBits
    <2>1. ConfirmedLost(w, a) = Cardinality(A) + (a - WinBits)
      BY <1>5 DEF ConfirmedLost
    <2>2. PICK n \in Nat : n = Cardinality(A)
      BY <1>3
    <2>3. ConfirmedLost(w, a) = n + (a - WinBits)
      BY <2>1, <2>2
    <2>4. WinBits \in Nat
      BY DistType
    <2> QED BY ONLY <1>5, <2>3, <2>4, n \in Nat, a \in Nat
  <1>6. CASE w.tracked # 0 /\ ~(a >= WinBits)
    <2>1. ConfirmedLost(w, a) = Cardinality(A) + 0
      BY <1>6 DEF ConfirmedLost
    <2> HIDE DEF A
    <2> QED BY <1>3, <2>1
  <1> QED BY <1>4, <1>5, <1>6

\* linkg_transport_window_accept_ex takes windows to windows.
LEMMA AcceptType ==
  ASSUME NEW w \in Windows, NEW s \in 0..(SeqCount - 1)
  PROVE  /\ WindowAccept(w, s).w \in Windows
         /\ WindowAccept(w, s).ok \in BOOLEAN
         /\ WindowAccept(w, s).lost \in Nat
  <1> DEFINE advance == Dist(s, w.high)
             behind == Dist(w.high, s)
  <1>1. /\ w.high \in 0..(SeqCount - 1) /\ w.high \in Int /\ s \in Int /\ w.tracked \in 0..WinBits
        /\ w.got \in SUBSET (0..(WinBits - 1))
    BY DistType DEF Windows
  <1>2. advance \in 0..(SeqCount - 1) /\ behind \in 0..(SeqCount - 1)
    BY <1>1, DistType
  <1> HIDE DEF advance, behind
  <1>w. WinBits \in Nat \ {0} /\ SeqCount \in Nat /\ advance \in Nat /\ behind \in Nat
    BY <1>2, DistType
  <1>3. CASE ~w.init
    <2>1. WindowAccept(w, s) = [w |-> [init |-> TRUE, high |-> s, tracked |-> 1, got |-> {0}],
                                ok |-> TRUE, lost |-> 0]
      BY <1>3 DEF WindowAccept
    <2> QED BY <2>1, DistType DEF Windows
  <1>4. CASE w.init /\ advance # 0 /\ ~Before(s, w.high)
    <2>1. WindowAccept(w, s) = [w |-> [init |-> TRUE, high |-> s,
                                       tracked |-> Tracked(w, advance),
                                       got |-> Shifted(w.got, advance) \cup {0}],
                                ok |-> TRUE, lost |-> ConfirmedLost(w, advance)]
      BY <1>4 DEF WindowAccept, advance
    <2>2. Tracked(w, advance) \in 0..WinBits
      BY <1>1, <1>w DEF Tracked
    <2>3. Shifted(w.got, advance) \subseteq 0..(WinBits - 1)
      BY <1>1, <1>w DEF Shifted
    <2>4. ConfirmedLost(w, advance) \in Nat
      BY <1>w, LostType
    <2>5. Shifted(w.got, advance) \cup {0} \in SUBSET (0..(WinBits - 1))
      BY <1>w, <2>3
    <2>6. WindowAccept(w, s).w \in Windows
      BY <2>1, <2>2, <2>5 DEF Windows
    <2> QED BY <2>1, <2>4, <2>6
  <1>5. CASE w.init /\ ~(advance # 0 /\ ~Before(s, w.high)) /\ (TooOld(w, behind) \/ behind \in w.got)
    <2>1. WindowAccept(w, s) = [w |-> w, ok |-> FALSE, lost |-> 0]
      BY <1>5 DEF WindowAccept, advance, behind
    <2> QED BY <2>1
  <1>6. CASE w.init /\ ~(advance # 0 /\ ~Before(s, w.high)) /\ ~(TooOld(w, behind) \/ behind \in w.got)
    <2>1. WindowAccept(w, s) = [w |-> [w EXCEPT !.got = @ \cup {behind}], ok |-> TRUE, lost |-> 0]
      BY <1>6 DEF WindowAccept, advance, behind
    <2>2. behind \in 0..(WinBits - 1)
      BY <1>1, <1>6, <1>w DEF TooOld
    <2>3. [w EXCEPT !.got = @ \cup {behind}] \in Windows
      BY <1>1, <2>2 DEF Windows
    <2> QED BY <2>1, <2>3
  <1> QED BY <1>3, <1>4, <1>5, <1>6

\* Distances of two sequence numbers, without %.
LEMMA DistCases ==
  ASSUME NEW x \in 0..(SeqCount - 1), NEW y \in 0..(SeqCount - 1)
  PROVE  /\ x >= y => Dist(x, y) = x - y
         /\ x < y => Dist(x, y) = x - y + SeqCount
  <1>1. \A a, m \in Int : m > 0 /\ a >= 0 /\ a < m => a % m = a
    OBVIOUS
  <1>2. \A a, m \in Int : m > 0 /\ a < 0 /\ a + m >= 0 => a % m = a + m
    OBVIOUS
  <1>3. SeqCount \in Int /\ SeqCount > 0 /\ x \in Int /\ y \in Int /\ x - y \in Int
    BY DistType
  <1>4. x >= y => (x - y) % SeqCount = x - y
    BY <1>1, <1>3
  <1>5. x < y => (x - y) % SeqCount = x - y + SeqCount
    BY <1>2, <1>3
  <1> QED BY <1>4, <1>5 DEF Dist

\* Among the numbers that came a little before s one is the earliest, so a prepared
\* window starts at a sequence number.
LEMMA PreparedType ==
  ASSUME NEW w \in Windows, NEW s \in 0..(SeqCount - 1), NEW S \in SUBSET (0..(SeqCount - 1)),
         NEW size \in Nat, size <= SeqCount \div 2
  PROVE  Prepared(w, s, S, size) \in Windows
  <1> DEFINE near == {r \in S : Before(r, s) /\ Dist(s, r) < size}
             N == SeqCount
             first == CHOOSE r \in near : \A x \in near : ~Before(x, r)
  <1>1. near \subseteq 0..(N - 1) /\ \A r \in near : Dist(s, r) < size
    OBVIOUS
  <1>2. CASE w.init \/ near = {}
    <2>1. Prepared(w, s, S, size) = w
      BY <1>2 DEF Prepared
    <2> QED BY <2>1
  <1>3. CASE ~w.init /\ near # {}
    <2>1. Prepared(w, s, S, size) = [EmptyWindow EXCEPT !.init = TRUE, !.high = (first - 1) % N]
      BY <1>3 DEF Prepared
    <2> HIDE DEF near, first
    <2>2. N \in Nat \ {0} /\ 2 * (N \div 2) = N /\ N \div 2 \in Nat /\ s \in 0..(N - 1)
      BY DistType
    <2>3. size \in Nat /\ size <= N \div 2
      OBVIOUS
    <2>4. \E r \in near : \A x \in near : ~Before(x, r)
      <3> DEFINE D == {Dist(s, r) : r \in near}
      <3>1. D \subseteq 0..(N - 1)
        BY <1>1, <2>2, DistType
      <3>2. D # {}
        BY <1>3
      <3> HIDE DEF D
      <3>3. N - 1 \in Nat
        BY <2>2
      <3>4. PICK d \in D : \A k \in D : k <= d
        BY <3>1, <3>2, <3>3, MaxExists
      <3>5. PICK r \in near : d = Dist(s, r)
        BY <3>4 DEF D
      <3>6. ASSUME NEW x \in near, Before(x, r) PROVE FALSE
        <4> DEFINE a == Dist(s, r)
                   b == Dist(s, x)
                   c == Dist(x, r)
        <4>1. b <= a
          BY <3>4, <3>5 DEF D
        <4>2. x \in 0..(N - 1) /\ r \in 0..(N - 1) /\ a < size
          BY <1>1
        <4>3. c >= N \div 2
          BY <3>6 DEF Before
        <4>4. /\ s >= r => a = s - r
              /\ s < r => a = s - r + N
          BY <2>2, <4>2, DistCases
        <4>5. /\ s >= x => b = s - x
              /\ s < x => b = s - x + N
          BY <2>2, <4>2, DistCases
        <4>6. /\ x >= r => c = x - r
              /\ x < r => c = x - r + N
          BY <2>2, <4>2, DistCases
        <4> HIDE DEF a, b, c
        <4> QED BY <2>2, <2>3, <4>1, <4>2, <4>3, <4>4, <4>5, <4>6
      <3> QED BY <3>6
    <2>5. first \in near
      BY <2>4 DEF first
    <2>6. (first - 1) % N \in 0..(N - 1)
      <3>1. first - 1 \in Int
        BY <1>1, <2>2, <2>5
      <3> QED BY <2>2, <3>1
    <2>7. EmptyWindow \in Windows
      BY DistType DEF EmptyWindow, Windows
    <2> QED BY <2>1, <2>6, <2>7 DEF Windows, EmptyWindow
  <1> QED BY <1>2, <1>3

-----------------------------------------------------------------------------
\* The ring of sequence numbers

\* Numbers that differ by full laps have one remainder.
LEMMA ModUnique ==
  ASSUME NEW m \in Nat \ {0}, NEW a \in Int, NEW r \in 0..(m - 1), NEW k \in Int, a = k * m + r
  PROVE  a % m = r
  OBVIOUS

\* A number is full laps and its remainder.
LEMMA ModExists ==
  ASSUME NEW m \in Nat \ {0}, NEW a \in Int
  PROVE  /\ a % m \in 0..(m - 1)
         /\ \E k \in Int : a = k * m + (a % m)
  <1>1. a % m \in 0..(m - 1)
    OBVIOUS
  <1>2. a \div m \in Int /\ a = m * (a \div m) + (a % m)
    OBVIOUS
  <1>3. m * (a \div m) = (a \div m) * m
    BY <1>2
  <1> QED BY <1>1, <1>2, <1>3

\* Full laps do not change a remainder.
LEMMA ModLaps ==
  ASSUME NEW m \in Nat \ {0}, NEW a \in Int, NEW b \in Int, NEW k \in Int, a = b + k * m
  PROVE  a % m = b % m
  <1>1. PICK j \in Int : b = j * m + (b % m)
    BY ModExists
  <1>2. PICK r \in 0..(m - 1) : r = b % m
    BY ModExists
  <1>3. PICK n \in Int : n = j + k
    OBVIOUS
  <1>4. a = n * m + r
    <2>1. a = (j * m + r) + k * m
      BY <1>1, <1>2
    <2>2. (j * m + r) + k * m = (j + k) * m + r
      BY <1>2
    <2> QED BY <1>3, <2>1, <2>2
  <1>5. a % m = r
    BY ONLY <1>4, ModUnique, m \in Nat \ {0}, a \in Int, r \in 0..(m - 1), n \in Int
  <1> QED BY <1>2, <1>5

\* A remainder may be taken of the parts of a sum or a difference first.
LEMMA ModParts ==
  ASSUME NEW m \in Nat \ {0}, NEW a \in Int, NEW b \in Int
  PROVE  /\ ((a % m) + b) % m = (a + b) % m
         /\ ((a % m) - b) % m = (a - b) % m
         /\ (a - (b % m)) % m = (a - b) % m
  <1>1. PICK j \in Int : a = j * m + (a % m)
    BY ModExists
  <1>2. PICK k \in Int : b = k * m + (b % m)
    BY ModExists
  <1>3. PICK r \in Int : r = a % m
    BY ModExists
  <1>4. PICK s \in Int : s = b % m
    BY ModExists
  <1>5. (r + b) % m = (a + b) % m
    <2>1. PICK x \in Int : x = a + b
      OBVIOUS
    <2>2. PICK y \in Int : y = r + b
      OBVIOUS
    <2>3. x = y + j * m
      BY <1>1, <1>3, <2>1, <2>2
    <2>4. x % m = y % m
      BY ONLY <2>3, ModLaps, m \in Nat \ {0}, x \in Int, y \in Int, j \in Int
    <2> QED BY <2>1, <2>2, <2>4
  <1>6. (r - b) % m = (a - b) % m
    <2>1. PICK x \in Int : x = a - b
      OBVIOUS
    <2>2. PICK y \in Int : y = r - b
      OBVIOUS
    <2>3. x = y + j * m
      BY <1>1, <1>3, <2>1, <2>2
    <2>4. x % m = y % m
      BY ONLY <2>3, ModLaps, m \in Nat \ {0}, x \in Int, y \in Int, j \in Int
    <2> QED BY <2>1, <2>2, <2>4
  <1>7. (a - s) % m = (a - b) % m
    <2>1. PICK x \in Int : x = a - s
      OBVIOUS
    <2>2. PICK y \in Int : y = a - b
      OBVIOUS
    <2>3. x = y + k * m
      <3>1. PICK z \in Int : z = k * m
        OBVIOUS
      <3>2. b = z + s
        BY ONLY <1>2, <1>4, <3>1
      <3> QED BY ONLY <2>1, <2>2, <3>1, <3>2, a \in Int, b \in Int, s \in Int
    <2>4. x % m = y % m
      BY ONLY <2>3, ModLaps, m \in Nat \ {0}, x \in Int, y \in Int, k \in Int
    <2> QED BY <2>1, <2>2, <2>4
  <1> QED BY <1>3, <1>4, <1>5, <1>6, <1>7

-----------------------------------------------------------------------------
\* What the receive window has let pass and what it has lost

\* The sequence number of the x-th frame, counted from b.
RingAt(b, x) == (b + x) % SeqCount

\* The sequence numbers of the frames with the numbers N.
RingOf(b, N) == {RingAt(b, x) : x \in N}

\* The distance of two numbers that are less than a lap apart.
LEMMA RingDist ==
  ASSUME NEW b \in Int, NEW x \in Int, NEW y \in Int
  PROVE  /\ x - y \in 0..(SeqCount - 1) => Dist(RingAt(b, x), RingAt(b, y)) = x - y
         /\ y - x \in 1..SeqCount => Dist(RingAt(b, x), RingAt(b, y)) = x - y + SeqCount
  <1> DEFINE N == SeqCount
  <1>0. N \in Nat \ {0}
    BY DistType
  <1>1. Dist(RingAt(b, x), RingAt(b, y)) = (x - y) % N
    <2>1. PICK a \in Int : a = b + x
      OBVIOUS
    <2>2. PICK c \in Int : c = b + y
      OBVIOUS
    <2>3. c % N \in Int /\ a % N \in Int
      BY <1>0, ModExists
    <2>4. ((a % N) - (c % N)) % N = (a - (c % N)) % N
      BY ONLY <1>0, <2>3, ModParts, a \in Int, ZenonT(40)
    <2>5. (a - (c % N)) % N = (a - c) % N
      BY ONLY <1>0, ModParts, a \in Int, c \in Int
    <2>6. a - c = x - y
      BY <2>1, <2>2
    <2> QED BY <2>1, <2>2, <2>4, <2>5, <2>6 DEF Dist, RingAt
  <1>2. ASSUME x - y \in 0..(N - 1) PROVE (x - y) % N = x - y
    <2>1. PICK d \in 0..(N - 1) : d = x - y
      BY <1>2
    <2>2. d = 0 * N + d
      BY <1>0
    <2> QED BY <1>0, <2>1, <2>2, ModUnique
  <1>3. ASSUME y - x \in 1..N PROVE (x - y) % N = x - y + N
    <2>1. PICK d \in 0..(N - 1) : d = x - y + N
      BY <1>0, <1>3
    <2>2. PICK z \in Int : z = x - y
      OBVIOUS
    <2>3. z = (-1) * N + d
      BY <1>0, <2>1, <2>2
    <2>4. z % N = d
      BY ONLY <1>0, <2>3, ModUnique, z \in Int, d \in 0..(N - 1)
    <2> QED BY <2>1, <2>2, <2>4
  <1> QED BY <1>1, <1>2, <1>3

\* The numbers a window tells apart: less than half a lap.
Numbers == 1..(SeqCount \div 2 - 1)

\* Which of two such numbers comes first on the ring, and how far they are apart.
LEMMA RingOrder ==
  ASSUME NEW b \in Int, NEW x \in 0..(SeqCount \div 2 - 1), NEW y \in 0..(SeqCount \div 2 - 1)
  PROVE  /\ RingAt(b, x) \in 0..(SeqCount - 1)
         /\ x >= y => Dist(RingAt(b, x), RingAt(b, y)) = x - y /\ ~Before(RingAt(b, x), RingAt(b, y))
         /\ x < y => Before(RingAt(b, x), RingAt(b, y)) /\ Dist(RingAt(b, x), RingAt(b, y)) # 0
  <1>1. PICK h \in Nat : h = SeqCount \div 2 /\ 2 * h = SeqCount
    BY DistType
  <1>2. SeqCount \in Nat \ {0} /\ x \in 0..(h - 1) /\ y \in 0..(h - 1)
    BY <1>1, DistType
  <1>3. RingAt(b, x) \in 0..(SeqCount - 1)
    <2>1. PICK a \in Int : a = b + x
      BY <1>2
    <2> QED BY <1>2, <2>1, ModExists DEF RingAt
  <1>4. ASSUME x >= y PROVE Dist(RingAt(b, x), RingAt(b, y)) = x - y /\ x - y < h
    <2>1. x - y \in 0..(SeqCount - 1) /\ x - y < h
      BY <1>1, <1>2, <1>4
    <2> QED BY <1>2, <2>1, RingDist
  <1>5. ASSUME x < y
        PROVE  Dist(RingAt(b, x), RingAt(b, y)) = x - y + SeqCount /\ x - y + SeqCount >= h /\ x - y + SeqCount # 0
    <2>1. y - x \in 1..SeqCount /\ x - y + SeqCount >= h /\ x - y + SeqCount # 0
      BY <1>1, <1>2, <1>5
    <2> QED BY <1>2, <2>1, RingDist
  <1>6. x - y \in Int
    BY <1>2
  <1> QED BY <1>1, <1>2, <1>3, <1>4, <1>5, <1>6 DEF Before

\* What the window has to say about the numbers low..high, of which those in P came.
Following(b, w, low, high, P) ==
  /\ w.init /\ w.high = RingAt(b, high)
  /\ low \in Numbers /\ high \in Numbers /\ P \subseteq low..high /\ high \in P
  /\ w.tracked = IF high - low + 1 > WinBits THEN WinBits ELSE high - low + 1
  /\ w.got = {o \in 0..(w.tracked - 1) : high - o \in P}

\* The numbers that left it without having come.
Missed(low, high, P) == (low..(high - WinBits)) \ P

\* Part of an interval has a size.
LEMMA PartSize ==
  ASSUME NEW a \in Int, NEW c \in Int, NEW S, S \subseteq a..c
  PROVE  IsFiniteSet(S) /\ Cardinality(S) \in Nat
  <1>1. IsFiniteSet(a..c)
    BY FS_Interval
  <1>2. IsFiniteSet(S)
    BY <1>1, FS_Subset
  <1> QED BY <1>2, FS_CardinalityType

\* Mirroring does not change the size of a set of numbers.
LEMMA MirrorSize ==
  ASSUME NEW a \in Int, NEW c \in Int, NEW S, S \subseteq a..c, NEW k \in Int
  PROVE  Cardinality({k - n : n \in S}) = Cardinality(S)
  <1> DEFINE T == {k - n : n \in S}
             f == [n \in S |-> k - n]
  <1>1. IsFiniteSet(S)
    BY PartSize
  <1>2. f \in Bijection(S, T)
    BY DEF Bijection, Injection, Surjection, IsInjective
  <1>3. ExistsBijection(S, T)
    BY <1>2 DEF ExistsBijection
  <1> HIDE DEF T
  <1>4. Cardinality(T) = Cardinality(S)
    BY <1>1, <1>3, FS_Bijection
  <1> QED BY <1>4 DEF T

\* Two finite sets that share nothing.
LEMMA ApartSize ==
  ASSUME NEW S, NEW T, IsFiniteSet(S), IsFiniteSet(T), S \cap T = {}
  PROVE  Cardinality(S \cup T) = Cardinality(S) + Cardinality(T)
  <1>1. Cardinality(S) \in Nat /\ Cardinality(T) \in Nat
    BY FS_CardinalityType
  <1>2. Cardinality(S \cup T) = Cardinality(S) + Cardinality(T) - Cardinality(S \cap T)
    BY FS_Union
  <1>3. Cardinality(S \cap T) = 0
    BY FS_EmptySet
  <1> QED BY <1>1, <1>2, <1>3

\* An advance confirms as lost exactly what leaves the window without having come, and
\* what the window never had.
LEMMA AdvanceLoss ==
  ASSUME NEW b \in Int, NEW w, NEW low, NEW high, NEW P, Following(b, w, low, high, P),
         NEW x \in Numbers, x > high
  PROVE  Cardinality(Missed(low, x, P \cup {x}))
           = Cardinality(Missed(low, high, P)) + ConfirmedLost(w, x - high)
  <1> DEFINE W == WinBits
             a == x - high
             t == w.tracked
             A == Missed(low, high, P)
             O == {o \in 0..(t - 1) : o + a >= W} \ w.got
             B == {high - o : o \in O}
             C == (high + 1)..(x - W)
             M == Missed(low, x, P \cup {x})
  <1>1. /\ W \in Nat \ {0} /\ low \in Nat \ {0} /\ high \in Nat \ {0} /\ x \in Nat /\ x > high /\ low <= high
        /\ a \in Nat \ {0}
    <2>1. PICK h \in Nat : h = SeqCount \div 2
      BY DistType
    <2>2. low \in 1..(h - 1) /\ high \in 1..(h - 1) /\ x \in 1..(h - 1)
      BY <2>1 DEF Following, Numbers
    <2>3. low <= high
      BY <2>2 DEF Following
    <2>4. W \in Nat \ {0}
      BY DistType
    <2> QED BY ONLY <2>2, <2>3, <2>4, x > high, h \in Nat
  <1>2. /\ t = IF high - low + 1 > W THEN W ELSE high - low + 1
        /\ w.got = {o \in 0..(t - 1) : high - o \in P} /\ P \subseteq low..high
    BY DEF Following
  <1>3. t \in Nat \ {0} /\ t <= W /\ t <= high - low + 1
    BY <1>1, <1>2
  <1>4. ConfirmedLost(w, a) = Cardinality(O) + (IF a >= W THEN a - W ELSE 0)
    BY <1>3 DEF ConfirmedLost
  <1>5. O \subseteq 0..(t - 1)
    OBVIOUS
  <1>6. Cardinality(B) = Cardinality(O)
    <2>1. 0 \in Int /\ t - 1 \in Int /\ high \in Int
      BY <1>1, <1>3
    <2> HIDE DEF O
    <2>2. Cardinality({high - o : o \in O}) = Cardinality(O)
      BY ONLY <1>5, <2>1, MirrorSize
    <2> QED BY <2>2
  <1>7. Cardinality(C) = IF a >= W THEN a - W ELSE 0
    <2>1. Cardinality(C) = IF high + 1 > x - W THEN 0 ELSE (x - W) - (high + 1) + 1
      BY <1>1, FS_Interval
    <2> QED BY <1>1, <2>1
  <1>8. M = A \cup (B \cup C)
    <2>1. ASSUME NEW n \in Int PROVE n \in B <=> /\ n > high - t /\ n <= high /\ n <= x - W /\ n \notin P
      <3>1. n \in B <=> high - n \in O
        BY <1>1
      <3>2. high - n \in O <=> /\ high - n \in 0..(t - 1) /\ (high - n) + a >= W
                               /\ high - n \notin w.got
        OBVIOUS
      <3>3. high - n \in 0..(t - 1) => (high - n \in w.got <=> n \in P)
        <4>1. high - (high - n) = n
          BY <1>1
        <4> QED BY <1>2, <4>1
      <3> QED BY <1>1, <1>3, <3>1, <3>2, <3>3
    <2>2. ASSUME NEW n \in Int PROVE n \in A <=> n >= low /\ n <= high - W /\ n \notin P
      BY <1>1 DEF Missed
    <2>3. ASSUME NEW n \in Int PROVE n \in C <=> n > high /\ n <= x - W
      BY <1>1
    <2>4. ASSUME NEW n \in Int PROVE n \in M <=> n >= low /\ n <= x - W /\ n \notin P /\ n # x
      BY <1>1 DEF Missed
    <2>5. ASSUME NEW n \in P PROVE n \in Int /\ n <= high
      BY <1>1, <1>2
    <2>6. A \subseteq Int /\ B \subseteq Int /\ C \subseteq Int /\ M \subseteq Int
      BY <1>1, <1>3 DEF Missed
    <2>7. ASSUME NEW n \in Int PROVE n \in M <=> n \in A \/ n \in B \/ n \in C
      <3> HIDE DEF A, B, C, M, O, a
      <3>1. n > high => n \notin P
        BY <1>1, <2>5
      <3> QED BY <1>1, <1>2, <1>3, <2>1, <2>2, <2>3, <2>4, <3>1
    <2> HIDE DEF A, B, C, M
    <2> QED BY <2>6, <2>7
  <1>9. B \subseteq (high - t + 1)..high
    BY <1>1, <1>3
  <1>10. A \subseteq low..x /\ B \cup C \subseteq low..x /\ B \subseteq low..x /\ C \subseteq low..x
    <2>1. A \subseteq low..x /\ C \subseteq low..x
      BY <1>1 DEF Missed
    <2>2. B \subseteq low..x
      <3> HIDE DEF B
      <3> QED BY <1>1, <1>3, <1>9
    <2> QED BY <2>1, <2>2
  <1>11. B \cap C = {} /\ A \cap (B \cup C) = {}
    <2>1. \A n \in A : n \in Int /\ n <= high - W /\ n >= low
      BY <1>1 DEF Missed
    <2>2. \A n \in C : n \in Int /\ n > high
      BY <1>1
    <2>3. \A n \in A : n <= high - t
      BY <1>1, <1>3, <2>1
    <2> HIDE DEF A, B, C
    <2>4. \A n \in B : n \in Int /\ n > high - t /\ n <= high
      BY <1>1, <1>3, <1>9
    <2>5. ASSUME NEW n \in A, n \in B \cup C PROVE FALSE
      BY <1>1, <1>3, <2>1, <2>2, <2>3, <2>4, <2>5
    <2>6. ASSUME NEW n \in B, n \in C PROVE FALSE
      BY <1>1, <2>2, <2>4, <2>6
    <2> QED BY <2>5, <2>6
  <1> HIDE DEF A, B, C, M, O
  <1>12. low \in Int /\ x \in Int
    BY <1>1
  <1>13. /\ IsFiniteSet(A) /\ IsFiniteSet(B) /\ IsFiniteSet(C) /\ IsFiniteSet(B \cup C)
         /\ Cardinality(A) \in Nat /\ Cardinality(B) \in Nat /\ Cardinality(C) \in Nat
    BY ONLY <1>10, <1>12, PartSize
  <1>14. /\ Cardinality(B \cup C) = Cardinality(B) + Cardinality(C)
         /\ Cardinality(M) = Cardinality(A) + Cardinality(B \cup C)
    BY ONLY <1>8, <1>11, <1>13, ApartSize
  <1>15. Cardinality(M) = Cardinality(A) + ConfirmedLost(w, a)
    BY <1>4, <1>6, <1>7, <1>13, <1>14
  <1> QED BY <1>15 DEF A, M

\* A frame that comes to a window that is running: it passes if it is ahead of all that
\* came, or if it is in reach and has not come; what is known to be lost stays exact.
LEMMA AcceptKeeps ==
  ASSUME NEW b \in Int, NEW w, NEW low, NEW high, NEW P, Following(b, w, low, high, P),
         NEW x \in Numbers, NEW a, a = WindowAccept(w, RingAt(b, x)),
         NEW h, h = (IF x > high THEN x ELSE high), NEW Q, Q = (IF a.ok THEN P \cup {x} ELSE P)
  PROVE  /\ Following(b, a.w, low, h, Q)
         /\ Cardinality(Missed(low, h, Q)) = Cardinality(Missed(low, high, P)) + a.lost
         /\ a.ok => x \notin P
         /\ x >= low /\ high - low < WinBits => x \in Q
  <1> DEFINE W == WinBits
             s == RingAt(b, x)
             t == w.tracked
             adv == Dist(s, w.high)
             beh == Dist(w.high, s)
  <1>1. PICK k \in Nat : k = SeqCount \div 2
    BY DistType
  <1>2. /\ w.init /\ w.high = RingAt(b, high) /\ P \subseteq low..high /\ high \in P
        /\ low \in Numbers /\ high \in Numbers
        /\ t = IF high - low + 1 > W THEN W ELSE high - low + 1
        /\ w.got = {o \in 0..(t - 1) : high - o \in P}
    BY DEF Following
  <1>3. /\ W \in Nat \ {0} /\ low \in Nat \ {0} /\ high \in Nat \ {0} /\ x \in Nat \ {0} /\ low <= high
        /\ high < k /\ x < k
    <2>1. low \in 1..(k - 1) /\ high \in 1..(k - 1) /\ x \in 1..(k - 1)
      BY <1>1, <1>2 DEF Numbers
    <2>2. W \in Nat \ {0} /\ low <= high
      BY <1>2, <2>1, DistType
    <2> QED BY ONLY <2>1, <2>2, k \in Nat
  <1>4. t \in Nat \ {0} /\ t <= W /\ t <= high - low + 1
    BY <1>2, <1>3
  <1>5. x \in 0..(SeqCount \div 2 - 1) /\ high \in 0..(SeqCount \div 2 - 1)
    <2>1. x \in 0..(k - 1) /\ high \in 0..(k - 1)
      BY <1>3
    <2> QED BY <1>1, <2>1
  <1>6. CASE x > high
    <2>1. adv = x - high /\ ~Before(s, w.high)
      BY <1>2, <1>3, <1>5, <1>6, RingOrder
    <2>2. adv # 0
      BY <1>3, <1>6, <2>1
    <2>3. a = [w |-> [init |-> TRUE, high |-> s, tracked |-> Tracked(w, adv),
                      got |-> Shifted(w.got, adv) \cup {0}],
               ok |-> TRUE, lost |-> ConfirmedLost(w, adv)]
      BY <1>2, <2>1, <2>2 DEF WindowAccept
    <2>4. Q = P \cup {x} /\ h = x /\ a.ok /\ a.lost = ConfirmedLost(w, x - high)
      BY <1>6, <2>1, <2>3
    <2>5. x \notin P
      BY <1>2, <1>3, <1>6
    <2>6. Cardinality(Missed(low, h, Q)) = Cardinality(Missed(low, high, P)) + a.lost
      BY <1>6, <2>4, AdvanceLoss
    <2> DEFINE u == Tracked(w, x - high)
    <2>7. /\ a.w.init /\ a.w.high = s /\ a.w.tracked = u
          /\ a.w.got = Shifted(w.got, x - high) \cup {0}
      BY <2>1, <2>3
    <2>8. u = IF x - low + 1 > W THEN W ELSE x - low + 1
      BY <1>2, <1>3, <1>6 DEF Tracked
    <2>9. a.w.got = {o \in 0..(u - 1) : x - o \in Q}
      <3>1. ASSUME NEW o \in Int
            PROVE  o \in Shifted(w.got, x - high) \cup {0} <=> o \in 0..(u - 1) /\ x - o \in Q
        <4>1. o \in Shifted(w.got, x - high) <=>
                /\ o - (x - high) \in w.got /\ o < W
          <5>1. \A y \in w.got : y \in Int
            BY <1>2, <1>4
          <5> QED BY <1>3, <5>1 DEF Shifted
        <4>2. o - (x - high) \in w.got <=> o - (x - high) \in 0..(t - 1) /\ x - o \in P
          <5>1. high - (o - (x - high)) = x - o
            BY <1>3
          <5> QED BY <1>2, <5>1
        <4>3. x - o \in P => x - o <= high /\ x - o >= low
          BY <1>2, <1>3
        <4>4. x - o \in Q <=> x - o \in P \/ o = 0
          BY <1>3, <2>4
        <4> HIDE DEF u
        <4> QED BY <1>2, <1>3, <1>4, <1>6, <2>8, <4>1, <4>2, <4>3, <4>4
      <3>2. Shifted(w.got, x - high) \cup {0} \subseteq Int
        <4>1. \A y \in w.got : y \in Int
          BY <1>2, <1>4
        <4> QED BY <1>3, <4>1 DEF Shifted
      <3>3. u \in Int
        BY <1>3, <2>8
      <3> HIDE DEF u
      <3> QED BY <2>7, <3>1, <3>2, <3>3
    <2>10. Q \subseteq low..x /\ x \in Q
      BY <1>2, <1>3, <1>6, <2>4
    <2>11. Following(b, a.w, low, h, Q)
      <3> HIDE DEF u, s
      <3> QED BY <1>2, <2>4, <2>7, <2>8, <2>9, <2>10 DEF Following, s
    <2> QED BY <2>4, <2>5, <2>6, <2>10, <2>11
  <1>7. CASE x <= high
    <2>1. beh = high - x
      BY <1>2, <1>3, <1>5, <1>7, RingOrder
    <2>2. ~(adv # 0 /\ ~Before(s, w.high))
      <3>1. CASE x = high
        <4>1. adv = x - high
          BY <1>2, <1>3, <1>5, <3>1, RingOrder
        <4> QED BY <1>3, <3>1, <4>1
      <3>2. CASE x < high
        BY <1>2, <1>5, <3>2, RingOrder
      <3> QED BY <1>3, <1>7, <3>1, <3>2
    <2>3. h = high
      BY <1>3, <1>7
    <2>4. beh \in w.got <=> high - x < t /\ x \in P
      <3>1. high - x \in 0..(t - 1) <=> high - x < t
        BY <1>3, <1>4, <1>7
      <3>2. high - (high - x) = x
        BY <1>3
      <3> QED BY <1>2, <2>1, <3>1, <3>2
    <2>5. CASE TooOld(w, beh) \/ beh \in w.got
      <3>1. a = [w |-> w, ok |-> FALSE, lost |-> 0]
        BY <1>2, <2>2, <2>5 DEF WindowAccept
      <3>2. ~a.ok /\ a.w = w /\ a.lost = 0 /\ Q = P
        BY <3>1
      <3>3. Cardinality(Missed(low, high, P)) \in Nat
        <4>1. Missed(low, high, P) \subseteq low..(high - W) /\ low \in Int /\ high - W \in Int
          BY <1>3 DEF Missed
        <4> QED BY ONLY <4>1, PartSize
      <3>4. x >= low /\ high - low < W => x \in Q
        BY <1>2, <1>3, <1>7, <2>1, <2>4, <2>5, <3>2 DEF TooOld
      <3>5. Cardinality(Missed(low, h, Q)) = Cardinality(Missed(low, high, P)) + a.lost
        BY <2>3, <3>2, <3>3
      <3> QED BY <2>3, <3>2, <3>4, <3>5
    <2>6. CASE ~(TooOld(w, beh) \/ beh \in w.got)
      <3>1. a = [w |-> [w EXCEPT !.got = @ \cup {beh}], ok |-> TRUE, lost |-> 0]
        BY <1>2, <2>2, <2>6 DEF WindowAccept
      <3>2. a.ok /\ a.lost = 0 /\ Q = P \cup {x} /\ a.w = [w EXCEPT !.got = @ \cup {high - x}]
        BY <2>1, <3>1
      <3>3. high - x < t /\ x \notin P
        BY <1>3, <1>4, <2>1, <2>4, <2>6 DEF TooOld
      <3>4. x >= low /\ x > high - W
        BY <1>3, <1>4, <3>3
      <3>5. Missed(low, high, Q) = Missed(low, high, P)
        BY <1>3, <3>2, <3>4 DEF Missed
      <3>6. Cardinality(Missed(low, high, P)) \in Nat
        <4>1. Missed(low, high, P) \subseteq low..(high - W) /\ low \in Int /\ high - W \in Int
          BY <1>3 DEF Missed
        <4> QED BY ONLY <4>1, PartSize
      <3>7. Cardinality(Missed(low, h, Q)) = Cardinality(Missed(low, high, P)) + a.lost
        BY <2>3, <3>2, <3>5, <3>6
      <3>8. w.got \cup {high - x} = {o \in 0..(t - 1) : high - o \in Q}
        <4>1. ASSUME NEW o \in 0..(t - 1) PROVE high - o \in Q <=> high - o \in P \/ o = high - x
          BY <1>3, <1>4, <3>2
        <4>2. high - x \in 0..(t - 1)
          BY <1>3, <1>4, <1>7, <3>3
        <4> QED BY <1>2, <4>1, <4>2
      <3>9. Following(b, a.w, low, high, Q)
        BY <1>2, <1>3, <1>7, <3>2, <3>4, <3>8 DEF Following
      <3> QED BY <2>3, <3>2, <3>3, <3>7, <3>9
    <2> QED BY <2>5, <2>6
  <1>8. x > high \/ x <= high
    BY <1>3
  <1> QED BY <1>6, <1>7, <1>8

\* A window that has not begun makes room for the numbers just before the first: it
\* starts at the earliest of them, or at the first.
LEMMA FirstAccept ==
  ASSUME NEW b \in Int, NEW w, ~w.init, NEW x \in Numbers, NEW N, N \subseteq Numbers, x \in N,
         NEW size \in 1..WinBits, NEW S, S = RingOf(b, N),
         NEW a, a = WindowAccept(Prepared(w, RingAt(b, x), S, size), RingAt(b, x))
  PROVE  /\ a.ok /\ a.lost = 0
         /\ \E low \in N : /\ low <= x /\ x < low + size
                          /\ Following(b, a.w, low, x, {x})
  <1> DEFINE s == RingAt(b, x)
             near == {r \in S : Before(r, s) /\ Dist(s, r) < size}
             first == CHOOSE r \in near : \A y \in near : ~Before(y, r)
             M == {n \in N : n < x /\ x - n < size}
             p == Prepared(w, s, S, size)
  <1>s. S = {RingAt(b, n) : n \in N}
    BY DEF RingOf
  <1>1. PICK k \in Nat : k = SeqCount \div 2 /\ 2 * k = SeqCount
    BY DistType
  <1>2. /\ SeqCount \in Nat \ {0} /\ WinBits \in Nat \ {0} /\ WinBits <= k /\ size \in Nat \ {0} /\ size <= WinBits
        /\ \A n \in N : n \in Nat \ {0} /\ n < k /\ n \in 0..(SeqCount \div 2 - 1)
    <2>1. WinBits \in Nat \ {0} /\ WinBits <= k /\ SeqCount \in Nat \ {0}
      BY <1>1, DistType
    <2>2. Numbers = 1..(k - 1)
      BY <1>1 DEF Numbers
    <2>3. \A n \in N : n \in 1..(k - 1)
      BY <2>2
    <2>4. \A n \in N : n \in Nat \ {0} /\ n < k /\ n \in 0..(k - 1)
      BY ONLY <2>3, k \in Nat
    <2>5. size \in 1..WinBits
      OBVIOUS
    <2>6. size \in Nat \ {0} /\ size <= WinBits
      BY ONLY <2>1, <2>5
    <2> QED BY <1>1, <2>1, <2>4, <2>6
  <1>3. x \in Nat \ {0} /\ x < k
    BY <1>2
  <1>4. \A n \in N : RingAt(b, n) \in near <=> n \in M
    <2> SUFFICES ASSUME NEW n \in N PROVE RingAt(b, n) \in near <=> n \in M
      OBVIOUS
    <2>s. RingAt(b, n) \in S
      BY <1>s
    <2>1. n >= x => ~Before(RingAt(b, n), s)
      BY <1>2, RingOrder
    <2>2. n < x => Before(RingAt(b, n), s) /\ Dist(s, RingAt(b, n)) = x - n
      BY <1>2, <1>3, RingOrder
    <2> QED BY <1>2, <1>3, <2>s, <2>1, <2>2
  <1>5. CASE M = {}
    <2>1. near = {}
      BY <1>s, <1>4, <1>5
    <2>2. p = w
      BY <2>1 DEF Prepared
    <2>3. a = [w |-> [init |-> TRUE, high |-> s, tracked |-> 1, got |-> {0}], ok |-> TRUE, lost |-> 0]
      BY <2>2 DEF WindowAccept
    <2>4. /\ a.ok /\ a.lost = 0 /\ a.w.init /\ a.w.high = s /\ a.w.tracked = 1 /\ a.w.got = {0}
      BY ONLY <2>3
    <2>5. {0} = {o \in 0..(1 - 1) : x - o \in {x}}
      BY <1>3
    <2>6. Following(b, a.w, x, x, {x})
      BY ONLY <1>2, <1>3, <2>4, <2>5, x \in Numbers DEF Following, s
    <2>7. x <= x /\ x < x + size /\ x \in N
      BY <1>2, <1>3
    <2>8. a.ok /\ a.lost = 0 /\ \E low \in N : low <= x /\ x < low + size /\ Following(b, a.w, low, x, {x})
      BY <2>4, <2>6, <2>7
    <2> QED BY <2>8
  <1>6. CASE M # {}
    <2>1. M \subseteq Nat
      BY <1>2
    <2>2. \E r \in near : \A y \in near : ~Before(y, r)
      <3> DEFINE m == Min(M)
      <3>1. m \in M /\ \A n \in M : m <= n
        BY <1>6, <2>1, MinIn
      <3> HIDE DEF m
      <3>2. RingAt(b, m) \in near
        BY <1>4, <3>1
      <3>3. ASSUME NEW y \in near PROVE ~Before(y, RingAt(b, m))
        <4>1. PICK n \in N : y = RingAt(b, n)
          BY <1>s
        <4>2. n \in M
          BY <1>4, <4>1
        <4> QED BY <1>2, <3>1, <4>1, <4>2, RingOrder
      <3> QED BY <3>2, <3>3
    <2>3. first \in near
      BY <2>2
    <2>4. PICK n \in N : first = RingAt(b, n)
      BY <1>s, <2>3
    <2>5. n \in M
      BY <1>4, <2>3, <2>4
    <2>6. n \in Nat \ {0} /\ n < x /\ x - n < size
      BY <1>2, <2>5
    <2>7. near # {}
      BY <2>3
    <2>8. p = [EmptyWindow EXCEPT !.init = TRUE, !.high = (first - 1) % SeqCount]
      BY <2>7 DEF Prepared
    <2>9. (first - 1) % SeqCount = RingAt(b, n - 1)
      <3>1. PICK c \in Int : c = b + n
        BY <2>6
      <3>2. first = c % SeqCount
        BY <2>4, <3>1 DEF RingAt
      <3>3. ((c % SeqCount) - 1) % SeqCount = (c - 1) % SeqCount
        BY ONLY <1>2, ModParts, c \in Int, 1 \in Int
      <3>4. c - 1 = b + (n - 1)
        BY <2>6, <3>1
      <3> QED BY <3>2, <3>3, <3>4 DEF RingAt
    <2>10. p = [init |-> TRUE, high |-> RingAt(b, n - 1), tracked |-> 0, got |-> {}]
      BY <2>8, <2>9 DEF EmptyWindow
    <2>11. Dist(s, p.high) = x - n + 1 /\ ~Before(s, p.high)
      <3>1. x \in 0..(SeqCount \div 2 - 1) /\ n - 1 \in 0..(SeqCount \div 2 - 1)
        <4>1. x \in 0..(k - 1) /\ n - 1 \in 0..(k - 1)
          BY <1>3, <2>6
        <4> QED BY <1>1, <4>1
      <3>2. x >= n - 1 /\ x - (n - 1) = x - n + 1
        BY <1>3, <2>6
      <3>3. p.high = RingAt(b, n - 1)
        BY <2>10
      <3> QED BY <3>1, <3>2, <3>3, RingOrder
    <2>12. a = [w |-> [init |-> TRUE, high |-> s, tracked |-> Tracked(p, x - n + 1),
                       got |-> Shifted(p.got, x - n + 1) \cup {0}],
                ok |-> TRUE, lost |-> ConfirmedLost(p, x - n + 1)]
      <3>1. p.init /\ x - n + 1 # 0
        BY <1>3, <2>6, <2>10
      <3>2. a = WindowAccept(p, s)
        OBVIOUS
      <3> HIDE DEF p, s
      <3> QED BY <2>11, <3>1, <3>2 DEF WindowAccept
    <2>13. p.tracked = 0 /\ p.got = {}
      BY <2>10
    <2> HIDE DEF p, s
    <2>14. /\ ConfirmedLost(p, x - n + 1) = 0 /\ Shifted(p.got, x - n + 1) = {}
           /\ Tracked(p, x - n + 1) = x - n + 1
      BY <1>2, <1>3, <2>6, <2>13 DEF ConfirmedLost, Shifted, Tracked
    <2>15. /\ a.ok /\ a.lost = 0 /\ a.w.init /\ a.w.high = s /\ a.w.tracked = x - n + 1
           /\ a.w.got = {0}
      <3>1. a = [w |-> [init |-> TRUE, high |-> s, tracked |-> x - n + 1, got |-> {0}], ok |-> TRUE, lost |-> 0]
        BY <2>12, <2>14
      <3> QED BY ONLY <3>1
    <2>16. {0} = {o \in 0..(a.w.tracked - 1) : x - o \in {x}}
      BY <1>3, <2>6, <2>15
    <2>17. Following(b, a.w, n, x, {x})
      BY <1>2, <1>3, <2>6, <2>15, <2>16 DEF Following, s
    <2>18. a.ok /\ a.lost = 0 /\ n <= x /\ x < n + size
      BY <1>2, <1>3, <2>6, <2>15
    <2> QED BY <2>17, <2>18 DEF s
  <1> QED BY <1>5, <1>6
=============================================================================
