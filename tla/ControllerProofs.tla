-------------------------- MODULE ControllerProofs --------------------------
(***************************************************************************)
(* Proofs about the two machines of the controller, which share the lemmas *)
(* about lists: module Groups, for any invites, any URLs and any number of *)
(* groups and commands, and module LiveMap, for any points, any sizes of   *)
(* the window, any drags and any number of zooms.                          *)
(***************************************************************************)
EXTENDS Groups, LiveMap, SequenceTheorems, FiniteSetTheorems, WellFoundedInduction, TLAPS

-----------------------------------------------------------------------------
(* Induction up to a number, and functions defined step by step *)

(* A set of numbers has a least one. *)
LEMMA LeastNumber ==
    ASSUME NEW S, S \subseteq Nat, S # {}
    PROVE  \E m \in S : \A n \in S : m <= n
<1>1. PICK m \in S : \A n \in S : <<n, m>> \notin OpToRel(<, Nat)
  BY WFMin, NatLessThanWellFounded, Zenon
<1>2. \A n \in S : ~(n < m)
  BY <1>1, Zenon DEF OpToRel
<1> QED  BY <1>2

(* Induction up to N, of a set: a place outside of it would have a first one. *)
LEMMA UpTo ==
    ASSUME NEW N \in Nat, NEW S, 0 \in S, \A n \in 1..N : n - 1 \in S => n \in S
    PROVE  \A n \in 0..N : n \in S
<1> DEFINE Bad == {n \in 0..N : n \notin S}
<1>1. SUFFICES ASSUME Bad # {}  PROVE FALSE
  OBVIOUS
<1>2. Bad \subseteq Nat
  OBVIOUS
<1>3. PICK m \in Bad : \A n \in Bad : m <= n
  <2> HIDE DEF Bad
  <2> QED  BY <1>1, <1>2, LeastNumber
<1>4. m \in 1..N /\ m - 1 \in 0..N /\ ~(m <= m - 1)
  BY <1>3
<1> QED  BY <1>3, <1>4

(* A function that is defined step by step exists. *)
StepsFrom(f, start, step, N) ==
    f[0] = start /\ \A n \in 1..N : f[n] = step[<<n, f[n - 1]>>]

LEMMA Stepwise ==
    ASSUME NEW N \in Nat, NEW D, NEW start \in D, NEW step \in [(1..N) \X D -> D]
    PROVE  \E f \in [0..N -> D] : StepsFrom(f, start, step, N)
<1> DEFINE To(m, f) == /\ f \in [0..m -> D] /\ f[0] = start
                       /\ \A n \in 1..m : f[n] = step[<<n, f[n - 1]>>]
           S == {m \in 0..N : \E f : To(m, f)}
<1>1. 0 \in S
  <2> DEFINE f == [n \in 0..0 |-> start]
  <2>1. To(0, f)
    OBVIOUS
  <2> HIDE DEF f
  <2> QED  BY <2>1
<1>2. ASSUME NEW m \in 1..N, m - 1 \in S  PROVE m \in S
  <2>1. PICK f : To(m - 1, f)
    BY <1>2
  <2> DEFINE new == step[<<m, f[m - 1]>>]
             g == [n \in 0..m |-> IF n = m THEN new ELSE f[n]]
  <2>2. m \in Nat /\ m - 1 \in 0..(m - 1) /\ f[m - 1] \in D /\ <<m, f[m - 1]>> \in (1..N) \X D
    BY <2>1
  <2>3. new \in D
    BY <2>2
  <2>4. \A n \in 0..m : n # m => n \in 0..(m - 1) /\ g[n] = f[n]
    BY <2>2
  <2>5. g[m] = new
    BY <2>2
  <2>6. g \in [0..m -> D]
    <3>1. \A n \in 0..(m - 1) : f[n] \in D
      BY <2>1
    <3> HIDE DEF new
    <3> QED  BY <2>3, <2>4, <3>1
  <2>7. g[0] = start
    BY <2>1, <2>2, <2>4
  <2>8. ASSUME NEW n \in 1..m  PROVE g[n] = step[<<n, g[n - 1]>>]
    <3>1. n - 1 \in 0..m /\ n - 1 # m /\ g[n - 1] = f[n - 1]
      BY <2>2, <2>4
    <3>2. CASE n = m
      BY <2>5, <3>1, <3>2
    <3>3. CASE n # m
      <4>1. n \in 1..(m - 1) /\ g[n] = f[n]
        BY <2>2, <2>4, <3>3
      <4> QED  BY <2>1, <3>1, <4>1
    <3> QED  BY <3>2, <3>3
  <2> HIDE DEF g
  <2>9. To(m, g)
    BY <2>6, <2>7, <2>8
  <2> QED  BY <2>2, <2>9
<1>3. N \in S
  <2> HIDE DEF S
  <2>1. \A n \in 0..N : n \in S
    BY <1>1, <1>2, UpTo
  <2> QED  BY <2>1
<1> QED  BY <1>3 DEF StepsFrom

-----------------------------------------------------------------------------
(* Lists *)

(* A list with one element more. *)
LEMMA AppendIs ==
    ASSUME NEW T, NEW q \in Seq(T), NEW e \in T
    PROVE  /\ Append(q, e) \in Seq(T) /\ Len(Append(q, e)) = Len(q) + 1
           /\ ToSet(Append(q, e)) = ToSet(q) \cup {e}
           /\ IsInjective(q) /\ e \notin ToSet(q) => IsInjective(Append(q, e))
<1> DEFINE r == Append(q, e)
<1>1. /\ r \in Seq(T) /\ Len(r) = Len(q) + 1 /\ Len(q) \in Nat
      /\ DOMAIN r = 1 .. Len(q) + 1 /\ DOMAIN q = 1 .. Len(q)
      /\ r[Len(q) + 1] = e /\ \A i \in 1 .. Len(q) : r[i] = q[i]
  OBVIOUS
<1> HIDE DEF r
<1>2. Len(q) + 1 \in DOMAIN r /\ \A i \in DOMAIN r : i = Len(q) + 1 \/ i \in DOMAIN q
  BY <1>1
<1>3. DOMAIN q \subseteq DOMAIN r
  BY <1>1
<1>4. ToSet(r) = ToSet(q) \cup {e}
  BY <1>1, <1>2, <1>3 DEF ToSet
<1>5. IsInjective(q) /\ e \notin ToSet(q) => IsInjective(r)
  BY <1>1, <1>2 DEF IsInjective, ToSet
<1> QED  BY <1>1, <1>4, <1>5 DEF r

(* A list without its first element, where each is in it once. *)
LEMMA TailIs ==
    ASSUME NEW T, NEW q \in Seq(T), Len(q) > 0, IsInjective(q)
    PROVE  /\ Tail(q) \in Seq(T) /\ Len(Tail(q)) = Len(q) - 1
           /\ ToSet(Tail(q)) = ToSet(q) \ {Head(q)} /\ IsInjective(Tail(q))
<1> DEFINE r == Tail(q)
<1>1. /\ r \in Seq(T) /\ Len(r) = Len(q) - 1 /\ Len(q) \in Nat
      /\ DOMAIN r = 1..(Len(q) - 1) /\ DOMAIN q = 1..Len(q)
      /\ \A i \in 1..(Len(q) - 1) : r[i] = q[i + 1]
      /\ Head(q) = q[1]
  OBVIOUS
<1> HIDE DEF r
<1>2. 1 \in DOMAIN q /\ (\A i \in DOMAIN r : i + 1 \in DOMAIN q /\ i + 1 # 1)
      /\ (\A i \in DOMAIN q : i # 1 => i - 1 \in DOMAIN r /\ q[i] = r[i - 1])
  BY <1>1
<1>3. ASSUME NEW i \in DOMAIN r  PROVE r[i] \in ToSet(q) \ {Head(q)}
  <2>1. r[i] = q[i + 1] /\ q[i + 1] # q[1]
    BY <1>1, <1>2 DEF IsInjective
  <2> QED  BY <1>1, <1>2, <2>1 DEF ToSet
<1>4. ASSUME NEW i \in DOMAIN q, q[i] # Head(q)  PROVE q[i] \in ToSet(r)
  BY <1>1, <1>2, <1>4 DEF ToSet
<1>5. ToSet(r) = ToSet(q) \ {Head(q)}
  BY <1>3, <1>4 DEF ToSet
<1>6. IsInjective(r)
  <2> SUFFICES ASSUME NEW i \in DOMAIN r, NEW j \in DOMAIN r, r[i] = r[j]  PROVE i = j
    BY DEF IsInjective
  <2>1. q[i + 1] = q[j + 1] /\ i + 1 \in DOMAIN q /\ j + 1 \in DOMAIN q
    BY <1>1, <1>2
  <2>2. i + 1 = j + 1 /\ i \in Nat /\ j \in Nat
    BY <1>1, <2>1 DEF IsInjective
  <2> QED  BY <2>2
<1> QED  BY <1>1, <1>5, <1>6 DEF r

(* The recursive function in Keep is one. *)
LEMMA KeptStepwise ==
    ASSUME NEW T, NEW s \in Seq(T), NEW I
    PROVE  \E kept : /\ Keep(s, I) = kept[Len(s)] /\ kept[0] = <<>>
                     /\ \A n \in 1..Len(s) :
                            kept[n] = IF n \in I THEN Append(kept[n - 1], s[n])
                                      ELSE kept[n - 1]
<1> DEFINE N == Len(s)
           none == <<>>
           Taken(q, n) == IF n \in I THEN Append(q, s[n]) ELSE q
           At(f, n) == IF n = 0 THEN none ELSE Taken(f[n - 1], n)
           Is(f) == f = [n \in 0..N |-> At(f, n)]
           kept == CHOOSE f : Is(f)
           step == [p \in (1..N) \X Seq(T) |-> Taken(p[2], p[1])]
<1>1. N \in Nat /\ none \in Seq(T) /\ \A n \in 1..N : s[n] \in T
  OBVIOUS
<1>2. Keep(s, I) = kept[N]
  BY DEF Keep
<1>3. step \in [(1..N) \X Seq(T) -> Seq(T)]
  <2>1. \A n \in 1..N : \A q \in Seq(T) : Taken(q, n) \in Seq(T)
    BY <1>1
  <2> HIDE DEF Taken, N
  <2> QED  BY <2>1
<1>4. PICK f \in [0..N -> Seq(T)] : StepsFrom(f, none, step, N)
  <2> HIDE DEF N, none, step
  <2> QED  BY <1>1, <1>3, Stepwise
<1>5. ASSUME NEW n \in 0..N  PROVE f[n] = At(f, n)
  <2> HIDE DEF N, none, Taken
  <2>1. CASE n = 0
    BY <1>4, <2>1 DEF StepsFrom
  <2>2. CASE n # 0
    <3>1. n \in 1..N /\ n - 1 \in 0..N /\ f[n - 1] \in Seq(T)
      BY <1>1, <1>4, <2>2
    <3>2. <<n, f[n - 1]>> \in (1..N) \X Seq(T)
      BY <3>1
    <3>3. step[<<n, f[n - 1]>>] = Taken(f[n - 1], n)
      BY <3>2
    <3> QED  BY <1>4, <2>2, <3>1, <3>3 DEF StepsFrom
  <2> QED  BY <2>1, <2>2
<1>6. Is(f)
  <2>1. f = [n \in 0..N |-> f[n]]
    BY <1>4
  <2> HIDE DEF At, N
  <2> QED  BY <1>5, <2>1
<1>7. Is(kept)
  <2> HIDE DEF Is
  <2> QED  BY <1>6, Zenon
<1>8. \A n \in 0..N : kept[n] = At(kept, n)
  <2> HIDE DEF kept, At, N
  <2> QED  BY <1>7
<1>9. kept[0] = <<>> /\ \A n \in 1..N : kept[n] = Taken(kept[n - 1], n)
  <2>1. 0 \in 0..N /\ \A n \in 1..N : n \in 0..N /\ n # 0
    BY <1>1
  <2> HIDE DEF kept, N, Taken
  <2> QED  BY <1>8, <2>1
<1> HIDE DEF kept
<1> QED  BY <1>2, <1>9

(* The elements at the places kept, each place once. *)
LEMMA KeepIs ==
    ASSUME NEW T, NEW s \in Seq(T), NEW I, I \subseteq DOMAIN s
    PROVE  /\ Keep(s, I) \in Seq(T) /\ Len(Keep(s, I)) <= Len(s)
           /\ ToSet(Keep(s, I)) = {s[i] : i \in I}
           /\ (\A i, j \in I : s[i] = s[j] => i = j) => IsInjective(Keep(s, I))
           /\ I = DOMAIN s => Keep(s, I) = s
<1> DEFINE N == Len(s)
           Below(n) == {i \in I : i <= n}
           Distinct == \A i, j \in I : s[i] = s[j] => i = j
<1>0. N \in Nat /\ DOMAIN s = 1..N /\ \A i \in 1..N : s[i] \in T
  OBVIOUS
<1>1. PICK kept : /\ Keep(s, I) = kept[N] /\ kept[0] = <<>>
                  /\ \A n \in 1..N :
                         kept[n] = IF n \in I THEN Append(kept[n - 1], s[n]) ELSE kept[n - 1]
  BY KeptStepwise
<1> HIDE DEF N
<1> DEFINE Right(n) ==
               /\ kept[n] \in Seq(T) /\ Len(kept[n]) <= n
               /\ ToSet(kept[n]) = {s[i] : i \in Below(n)}
               /\ Distinct => IsInjective(kept[n])
               /\ I = 1..N => /\ Len(kept[n]) = n
                              /\ \A k \in 1..n : kept[n][k] = s[k]
           S == {n \in 0..N : Right(n)}
<1>2. Right(0)
  <2>1. Below(0) = {}
    BY <1>0
  <2>2. <<>> \in Seq(T) /\ ToSet(<<>>) = {} /\ IsInjective(<<>>) /\ Len(<<>>) = 0
    BY DEF ToSet, IsInjective
  <2> QED  BY <1>1, <2>1, <2>2
<1>3. ASSUME NEW n \in 1..N, Right(n - 1)  PROVE Right(n)
  <2>1. n \in Nat /\ n - 1 \in Nat /\ n - 1 < n /\ s[n] \in T
    BY <1>0
  <2> DEFINE q == kept[n - 1]
  <2>2. q \in Seq(T) /\ ToSet(q) = {s[i] : i \in Below(n - 1)} /\ Len(q) <= n - 1
    BY <1>3
  <2>3. CASE n \notin I
    <3>1. Below(n) = Below(n - 1) /\ I # 1..N /\ kept[n] = q
      BY <1>0, <1>1, <2>1, <2>3
    <3>2. Len(q) \in Nat /\ Len(q) <= n
      BY <2>1, <2>2
    <3> HIDE DEF Below
    <3> QED  BY <1>3, <3>1, <3>2
  <2>4. CASE n \in I
    <3>1. Below(n) = Below(n - 1) \cup {n} /\ kept[n] = Append(q, s[n])
      <4>1. \A i \in I : i \in Nat /\ (i <= n <=> i <= n - 1 \/ i = n)
        BY <1>0, <2>1
      <4>2. Below(n) = Below(n - 1) \cup {n}
        BY <2>1, <2>4, <4>1
      <4>3. kept[n] = Append(q, s[n])
        BY <1>1, <2>4
      <4> QED  BY <4>2, <4>3
    <3>2. /\ kept[n] \in Seq(T) /\ ToSet(kept[n]) = ToSet(q) \cup {s[n]}
          /\ IsInjective(q) /\ s[n] \notin ToSet(q) => IsInjective(kept[n])
          /\ Len(kept[n]) = Len(q) + 1
      BY <2>1, <2>2, <3>1, AppendIs
    <3>3. ToSet(kept[n]) = {s[i] : i \in Below(n)}
      <4> HIDE DEF Below
      <4> QED  BY <2>2, <3>1, <3>2
    <3>4. Distinct => IsInjective(kept[n])
      <4>1. Distinct => s[n] \notin ToSet(q)
        BY <1>0, <2>1, <2>2, <2>4
      <4> QED  BY <1>3, <3>2, <4>1
    <3>5. ASSUME I = 1..N
          PROVE  Len(kept[n]) = n /\ \A k \in 1..n : kept[n][k] = s[k]
      <4>1. Len(q) = n - 1 /\ \A k \in 1..(n - 1) : q[k] = s[k]
        BY <1>3, <3>5
      <4>2. Len(kept[n]) = n
        BY <2>1, <3>2, <4>1
      <4>3. ASSUME NEW k \in 1..n  PROVE kept[n][k] = s[k]
        <5>1. CASE k = n
          BY <2>1, <2>2, <3>1, <4>1, <5>1
        <5>2. CASE k # n
          <6>1. k \in 1..(n - 1) /\ k \in DOMAIN q
            BY <2>1, <2>2, <4>1, <5>2
          <6>2. kept[n][k] = q[k]
            BY <2>1, <2>2, <3>1, <6>1
          <6> QED  BY <4>1, <6>1, <6>2
        <5> QED  BY <5>1, <5>2
      <4> QED  BY <4>2, <4>3
    <3>6. Len(kept[n]) <= n
      <4>1. Len(q) \in Nat
        BY <2>2
      <4> QED  BY <2>1, <2>2, <3>2, <4>1
    <3> QED  BY <3>2, <3>3, <3>4, <3>5, <3>6
  <2> QED  BY <2>3, <2>4
<1>4. \A n \in 0..N : n \in S
  <2>1. 0 \in S
    BY <1>0, <1>2
  <2>2. ASSUME NEW n \in 1..N, n - 1 \in S  PROVE n \in S
    <3> HIDE DEF Right
    <3>1. n \in 0..N
      OBVIOUS
    <3> QED  BY <1>3, <2>2, <3>1
  <2> HIDE DEF S
  <2> QED  BY <1>0, <2>1, <2>2, UpTo
<1>5. Right(N) /\ Below(N) = I
  <2>1. N \in 0..N /\ Below(N) = I
    BY <1>0
  <2> HIDE DEF Right
  <2> QED  BY <1>4, <2>1
<1>6. I = DOMAIN s => kept[N] = s
  <2>1. ASSUME I = DOMAIN s  PROVE kept[N] = s
    <3>1. Len(kept[N]) = N /\ kept[N] \in Seq(T) /\ \A k \in 1..N : kept[N][k] = s[k]
      BY <1>0, <1>5, <2>1
    <3>2. Len(s) = N
      BY DEF N
    <3> QED  BY <3>1, <3>2, SeqEqual
  <2> QED  BY <2>1
<1>7. Len(kept[N]) <= Len(s)
  BY <1>5 DEF N
<1> HIDE DEF Below
<1> QED  BY <1>1, <1>5, <1>6, <1>7

LEMMA WithoutIs ==
    ASSUME NEW T, NEW s \in Seq(T), NEW S
    PROVE  /\ Without(s, S) \in Seq(T) /\ ToSet(Without(s, S)) = ToSet(s) \ S
           /\ IsInjective(s) => IsInjective(Without(s, S))
           /\ ToSet(s) \cap S = {} => Without(s, S) = s
<1> DEFINE I == {i \in DOMAIN s : s[i] \notin S}
<1>1. I \subseteq DOMAIN s /\ Without(s, S) = Keep(s, I)
  BY DEF Without
<1>2. IsInjective(s) => \A i, j \in I : s[i] = s[j] => i = j
  BY DEF IsInjective
<1>3. ToSet(s) \cap S = {} => I = DOMAIN s
  BY DEF ToSet
<1>4. {s[i] : i \in I} = ToSet(s) \ S
  BY DEF ToSet
<1> HIDE DEF I
<1> QED  BY <1>1, <1>2, <1>3, <1>4, KeepIs

LEMMA ConcatIs ==
    ASSUME NEW T, NEW q \in Seq(T), NEW r \in Seq(T)
    PROVE  /\ q \o r \in Seq(T) /\ ToSet(q \o r) = ToSet(q) \cup ToSet(r)
           /\ IsInjective(q) /\ IsInjective(r) /\ ToSet(q) \cap ToSet(r) = {} =>
                  IsInjective(q \o r)
<1> DEFINE s == q \o r
           M == Len(q)
<1>1. /\ s \in Seq(T) /\ M \in Nat /\ Len(r) \in Nat
      /\ DOMAIN s = 1..(M + Len(r)) /\ DOMAIN q = 1..M /\ DOMAIN r = 1..Len(r)
      /\ \A i \in DOMAIN q : s[i] = q[i]
      /\ \A i \in DOMAIN r : s[M + i] = r[i]
  OBVIOUS
<1> HIDE DEF s, M
<1>2. /\ \A i \in DOMAIN q : i \in DOMAIN s
      /\ \A i \in DOMAIN r : M + i \in DOMAIN s
  BY <1>1
<1>3. \A i \in DOMAIN s : i \in DOMAIN q \/ (i - M \in DOMAIN r /\ i = M + (i - M))
  BY <1>1
<1>4. \A i \in DOMAIN s : /\ i \in DOMAIN q => s[i] = q[i]
                          /\ i \notin DOMAIN q => i - M \in DOMAIN r /\ s[i] = r[i - M]
  BY <1>1, <1>3
<1>5. ToSet(s) = ToSet(q) \cup ToSet(r)
  <2>1. \A x \in ToSet(s) : x \in ToSet(q) \cup ToSet(r)
    BY <1>4 DEF ToSet
  <2>2. \A x \in ToSet(q) : x \in ToSet(s)
    BY <1>1, <1>2 DEF ToSet
  <2>3. \A x \in ToSet(r) : x \in ToSet(s)
    BY <1>1, <1>2 DEF ToSet
  <2> QED  BY <2>1, <2>2, <2>3
<1>6. ASSUME IsInjective(q), IsInjective(r), ToSet(q) \cap ToSet(r) = {}
      PROVE  IsInjective(s)
  <2>1. ASSUME NEW i \in DOMAIN s, NEW j \in DOMAIN s, s[i] = s[j]  PROVE i = j
    <3>1. CASE i \in DOMAIN q /\ j \in DOMAIN q
      BY <1>4, <1>6, <2>1, <3>1 DEF IsInjective
    <3>2. CASE i \notin DOMAIN q /\ j \notin DOMAIN q
      <4>1. i - M = j - M
        BY <1>4, <1>6, <2>1, <3>2 DEF IsInjective
      <4>2. i = M + (i - M) /\ j = M + (j - M)
        BY <1>3, <2>1, <3>2
      <4> QED  BY <4>1, <4>2
    <3>3. CASE i \in DOMAIN q /\ j \notin DOMAIN q
      <4>1. s[i] \in ToSet(q) /\ s[j] \in ToSet(r)
        BY <1>4, <3>3 DEF ToSet
      <4> QED  BY <1>6, <2>1, <4>1
    <3>4. CASE i \notin DOMAIN q /\ j \in DOMAIN q
      <4>1. s[i] \in ToSet(r) /\ s[j] \in ToSet(q)
        BY <1>4, <3>4 DEF ToSet
      <4> QED  BY <1>6, <2>1, <4>1
    <3> QED  BY <3>1, <3>2, <3>3, <3>4
  <2> QED  BY <2>1 DEF IsInjective
<1> QED  BY <1>1, <1>5, <1>6 DEF s

LEMMA FirstIs ==
    ASSUME NEW T, NEW q \in Seq(T), NEW n \in Nat
    PROVE  /\ First(q, n) \in Seq(T) /\ Len(First(q, n)) <= n
           /\ ToSet(First(q, n)) \subseteq ToSet(q)
           /\ IsInjective(q) => IsInjective(First(q, n))
           /\ Len(q) <= n => First(q, n) = q
<1> DEFINE r == First(q, n)
<1>1. PICK m \in Nat : m = (IF Len(q) < n THEN Len(q) ELSE n)
  OBVIOUS
<1>2. m <= Len(q) /\ m <= n /\ r = SubSeq(q, 1, m) /\ Len(q) \in Nat
  BY <1>1 DEF First
<1>3. /\ r \in Seq(T) /\ Len(r) = m /\ DOMAIN r = 1..m /\ DOMAIN q = 1..Len(q)
      /\ \A i \in 1..m : r[i] = q[i]
  BY <1>2
<1> HIDE DEF r
<1>4. \A i \in DOMAIN r : i \in DOMAIN q
  BY <1>2, <1>3
<1>5. ToSet(r) \subseteq ToSet(q)
  BY <1>3, <1>4 DEF ToSet
<1>6. IsInjective(q) => IsInjective(r)
  BY <1>3, <1>4 DEF IsInjective
<1>7. Len(q) <= n => r = q
  <2>1. ASSUME Len(q) <= n  PROVE r = q
    <3>1. m = Len(q)
      BY <1>1, <1>2, <2>1
    <3>2. Len(r) = Len(q) /\ \A i \in 1..Len(r) : r[i] = q[i]
      BY <1>3, <3>1
    <3> QED  BY <1>3, <3>2, SeqEqual
  <2> QED  BY <2>1
<1> QED  BY <1>2, <1>3, <1>5, <1>6, <1>7 DEF r

LEMMA RemoveAtIs ==
    ASSUME NEW T, NEW q \in Seq(T), NEW n \in DOMAIN q
    PROVE  RemoveAt(q, n) \in Seq(T) /\ ToSet(RemoveAt(q, n)) \subseteq ToSet(q)
<1> DEFINE a == SubSeq(q, 1, n - 1)
           b == SubSeq(q, n + 1, Len(q))
<1>1. n \in 1..Len(q) /\ Len(q) \in Nat
  OBVIOUS
<1>2. a \in Seq(T) /\ DOMAIN a = 1..(n - 1) /\ \A i \in 1..(n - 1) : a[i] = q[i]
  BY <1>1
<1>3. /\ b \in Seq(T) /\ DOMAIN b = 1..(Len(q) - n)
      /\ \A i \in 1..(Len(q) - n) : b[i] = q[n + i]
  BY <1>1
<1>4. RemoveAt(q, n) = a \o b
  BY DEF RemoveAt
<1> HIDE DEF a, b
<1>5. /\ \A i \in DOMAIN a : i \in DOMAIN q
      /\ \A i \in DOMAIN b : n + i \in DOMAIN q
  BY <1>1, <1>2, <1>3
<1>6. ToSet(a) \subseteq ToSet(q) /\ ToSet(b) \subseteq ToSet(q)
  BY <1>2, <1>3, <1>5 DEF ToSet
<1> QED  BY <1>2, <1>3, <1>4, <1>6, ConcatIs

LEMMA IndexOfIs ==
    ASSUME NEW groups, Len(groups) \in Nat, DOMAIN groups = 1..Len(groups), NEW public,
           IndexOf(groups, public) # 0
    PROVE  /\ IndexOf(groups, public) \in DOMAIN groups
           /\ groups[IndexOf(groups, public)].public = public
<1> DEFINE I == {i \in 1..Len(groups) : groups[i].public = public}
<1>1. IndexOf(groups, public) = IF I # {} THEN Min(I) ELSE 0
  BY DEF IndexOf, SelectInSeq
<1>2. PICK m \in I : \A n \in I : m <= n
  <2>1. I # {} /\ I \subseteq Nat
    BY <1>1
  <2> HIDE DEF I
  <2> QED  BY <2>1, LeastNumber
<1>3. Min(I) \in I
  BY <1>2 DEF Min
<1> QED  BY <1>1, <1>2, <1>3

-----------------------------------------------------------------------------
(***************************************************************************)
(* The groups.  The config is kept sound by every operation on it; what the*)
(* controller has put into a queue, the form or the stash stays true of the*)
(* invites, whatever the config has become meanwhile.                      *)
(***************************************************************************)

(* Relay lists *)

LEMMA SeqOfElements ==
    ASSUME NEW T, NEW S, NEW q \in Seq(T), ToSet(q) \subseteq S
    PROVE  q \in Seq(S)
<1>1. \A i \in 1..Len(q) : q[i] \in S
  BY DEF ToSet
<1>2. q = [i \in 1..Len(q) |-> q[i]] /\ Len(q) \in Nat
  OBVIOUS
<1> QED  BY <1>1, <1>2

LEMMA ToSetIn ==
    ASSUME NEW T, NEW q \in Seq(T)
    PROVE  ToSet(q) \subseteq T
BY DEF ToSet

(* One URL more: its relay goes to the end, if it is one and is not there. *)
LEMMA NormalizeOneIs ==
    ASSUME NEW q \in Seq(Relays), IsInjective(q), NEW u \in Urls
    PROVE  /\ NormalizeOne(q, u) \in Seq(Relays) /\ IsInjective(NormalizeOne(q, u))
           /\ ToSet(NormalizeOne(q, u)) \subseteq ToSet(q) \cup {Canonical[u]}
           /\ u \in Relays /\ u \notin ToSet(q) => NormalizeOne(q, u) = Append(q, u)
<1> DEFINE r == Canonical[u]
<1>1. r = NoRelay \/ r \in Relays
  BY DEF Relays, Urls
<1>2. Contains(q, r) <=> r \in ToSet(q)
  BY DEF Contains, ToSet
<1>3. NormalizeOne(q, u) = IF r = NoRelay \/ Contains(q, r) THEN q ELSE Append(q, r)
  BY DEF NormalizeOne
<1>4. u \in Relays => r = u /\ r # NoRelay
  BY GroupsAssumption DEF Relays
<1> HIDE DEF r
<1>5. CASE r = NoRelay \/ Contains(q, r)
  <2>1. NormalizeOne(q, u) = q
    BY <1>3, <1>5
  <2>2. ~(u \in Relays /\ u \notin ToSet(q))
    BY <1>2, <1>4, <1>5
  <2> QED  BY <2>1, <2>2
<1>6. CASE ~(r = NoRelay \/ Contains(q, r))
  <2>1. NormalizeOne(q, u) = Append(q, r) /\ r \in Relays /\ r \notin ToSet(q)
    BY <1>1, <1>2, <1>3, <1>6
  <2>2. /\ Append(q, r) \in Seq(Relays) /\ IsInjective(Append(q, r))
        /\ ToSet(Append(q, r)) = ToSet(q) \cup {r}
    BY <2>1, AppendIs
  <2> QED  BY <1>4, <2>1, <2>2 DEF r
<1> QED  BY <1>5, <1>6

(* The recursive function in NormalizeDedup is one. *)
LEMMA NormalizedStepwise ==
    ASSUME NEW urls \in Seq(Urls)
    PROVE  \E kept \in [0..Len(urls) -> {q \in Seq(Relays) : IsInjective(q)}] :
               /\ NormalizeDedup(urls) = kept[Len(urls)] /\ kept[0] = <<>>
               /\ \A n \in 1..Len(urls) : kept[n] = NormalizeOne(kept[n - 1], urls[n])
<1> DEFINE N == Len(urls)
           D == {q \in Seq(Relays) : IsInjective(q)}
           none == <<>>
           At(f, n) == IF n = 0 THEN none ELSE NormalizeOne(f[n - 1], urls[n])
           Is(f) == f = [n \in 0..N |-> At(f, n)]
           kept == CHOOSE f : Is(f)
           step == [p \in (1..N) \X D |-> NormalizeOne(p[2], urls[p[1]])]
<1>1. N \in Nat /\ none \in D /\ \A n \in 1..N : urls[n] \in Urls
  BY DEF IsInjective
<1>2. NormalizeDedup(urls) = kept[N]
  BY DEF NormalizeDedup
<1>3. step \in [(1..N) \X D -> D]
  <2>1. \A n \in 1..N : \A q \in D : NormalizeOne(q, urls[n]) \in D
    BY <1>1, NormalizeOneIs
  <2> HIDE DEF D, N
  <2> QED  BY <2>1
<1>4. PICK f \in [0..N -> D] : StepsFrom(f, none, step, N)
  <2> HIDE DEF N, D, none, step
  <2> QED  BY <1>1, <1>3, Stepwise
<1>5. ASSUME NEW n \in 0..N  PROVE f[n] = At(f, n)
  <2> HIDE DEF N, D, none
  <2>1. CASE n = 0
    BY <1>4, <2>1 DEF StepsFrom
  <2>2. CASE n # 0
    <3>1. n \in 1..N /\ n - 1 \in 0..N /\ f[n - 1] \in D
      BY <1>1, <1>4, <2>2
    <3>2. step[<<n, f[n - 1]>>] = NormalizeOne(f[n - 1], urls[n])
      BY <3>1
    <3> QED  BY <1>4, <2>2, <3>1, <3>2 DEF StepsFrom
  <2> QED  BY <2>1, <2>2
<1>6. Is(f)
  <2>1. f = [n \in 0..N |-> f[n]]
    BY <1>4
  <2> HIDE DEF At, N
  <2> QED  BY <1>5, <2>1
<1>7. Is(kept)
  <2> HIDE DEF Is
  <2> QED  BY <1>6, Zenon
<1>8. \A n \in 0..N : kept[n] = At(kept, n)
  <2> HIDE DEF kept, At, N
  <2> QED  BY <1>7
<1>9. kept[0] = <<>> /\ \A n \in 1..N : kept[n] = NormalizeOne(kept[n - 1], urls[n])
  <2>1. 0 \in 0..N /\ \A n \in 1..N : n \in 0..N /\ n # 0
    BY <1>1
  <2> HIDE DEF kept, N
  <2> QED  BY <1>8, <2>1
<1>10. kept \in [0..N -> D]
  <2> DEFINE S == {n \in 0..N : kept[n] \in D}
  <2>1. 0 \in S
    <3> HIDE DEF kept, D, N
    <3>1. 0 \in 0..N /\ kept[0] \in D
      BY <1>1, <1>9
    <3> QED  BY <3>1
  <2>2. ASSUME NEW n \in 1..N, n - 1 \in S  PROVE n \in S
    <3>1. urls[n] \in Urls /\ kept[n - 1] \in D /\ kept[n] = NormalizeOne(kept[n - 1], urls[n])
      BY <1>1, <1>9, <2>2
    <3> HIDE DEF kept
    <3>2. kept[n] \in D
      BY <3>1, NormalizeOneIs
    <3> QED  BY <3>2
  <2>3. \A n \in 0..N : n \in S
    <3> HIDE DEF S, N
    <3> QED  BY <1>1, <2>1, <2>2, UpTo
  <2>4. kept = [n \in 0..N |-> At(kept, n)]
    BY <1>7
  <2> HIDE DEF kept, At, N, D
  <2>5. kept = [n \in 0..N |-> kept[n]]
    BY <2>4
  <2> QED  BY <2>3, <2>5
<1> HIDE DEF kept, D, N
<1> QED  BY <1>2, <1>9, <1>10 DEF D, N

(* Relays, each once; and nothing changes in a list that is in order already. *)
LEMMA NormalizeDedupIs ==
    ASSUME NEW urls \in Seq(Urls)
    PROVE  /\ NormalizeDedup(urls) \in Seq(Relays)
           /\ IsInjective(NormalizeDedup(urls))
           /\ urls \in Seq(Relays) => ToSet(NormalizeDedup(urls)) \subseteq ToSet(urls)
           /\ urls \in Seq(Relays) /\ IsInjective(urls) => NormalizeDedup(urls) = urls
<1> DEFINE N == Len(urls)
<1>0. N \in Nat /\ DOMAIN urls = 1..N /\ \A n \in 1..N : urls[n] \in Urls
  OBVIOUS
<1>1. PICK kept \in [0..N -> {q \in Seq(Relays) : IsInjective(q)}] :
        /\ NormalizeDedup(urls) = kept[N] /\ kept[0] = <<>>
        /\ \A n \in 1..N : kept[n] = NormalizeOne(kept[n - 1], urls[n])
  BY NormalizedStepwise
<1> HIDE DEF N
<1>2. ASSUME NEW n \in 1..N
      PROVE  /\ n - 1 \in 0..N /\ kept[n - 1] \in Seq(Relays) /\ IsInjective(kept[n - 1])
             /\ ToSet(kept[n]) \subseteq ToSet(kept[n - 1]) \cup {Canonical[urls[n]]}
             /\ (urls[n] \in Relays /\ urls[n] \notin ToSet(kept[n - 1])
                    => kept[n] = Append(kept[n - 1], urls[n]))
  <2>1. n - 1 \in 0..N
    BY <1>0
  <2>2. kept[n - 1] \in Seq(Relays) /\ IsInjective(kept[n - 1])
    BY <1>1, <2>1
  <2> QED  BY <1>0, <1>1, <2>1, <2>2, NormalizeOneIs
<1>3. ASSUME urls \in Seq(Relays)  PROVE ToSet(kept[N]) \subseteq ToSet(urls)
  <2>1. \A n \in 1..N : urls[n] \in Relays /\ Canonical[urls[n]] = urls[n] /\ urls[n] \in ToSet(urls)
    <3>1. \A n \in 1..N : urls[n] \in Relays
      BY <1>0, <1>3 DEF N
    <3> QED  BY <1>0, <3>1, GroupsAssumption DEF ToSet
  <2> DEFINE S == {n \in 0..N : ToSet(kept[n]) \subseteq ToSet(urls)}
  <2>2. 0 \in S
    BY <1>0, <1>1 DEF ToSet
  <2>3. ASSUME NEW n \in 1..N, n - 1 \in S  PROVE n \in S
    <3>1. n \in 0..N
      BY <1>0
    <3>2. ToSet(kept[n]) \subseteq ToSet(kept[n - 1]) \cup {Canonical[urls[n]]}
      BY <1>2
    <3>3. Canonical[urls[n]] \in ToSet(urls)
      BY <2>1
    <3>4. ToSet(kept[n - 1]) \subseteq ToSet(urls)
      BY <2>3
    <3>5. ToSet(kept[n]) \subseteq ToSet(urls)
      BY <3>2, <3>3, <3>4, Zenon
    <3> QED  BY <3>1, <3>5
  <2>4. \A n \in 0..N : n \in S
    <3> HIDE DEF S
    <3> QED  BY <1>0, <2>2, <2>3, UpTo
  <2> QED  BY <1>0, <2>4
<1>4. ASSUME urls \in Seq(Relays), IsInjective(urls)  PROVE kept[N] = urls
  <2> DEFINE S == {n \in 0..N : Len(kept[n]) = n /\ \A k \in 1..n : kept[n][k] = urls[k]}
  <2>1. 0 \in S
    BY <1>0, <1>1
  <2>2. ASSUME NEW n \in 1..N, n - 1 \in S  PROVE n \in S
    <3> DEFINE q == kept[n - 1]
    <3>1. q \in Seq(Relays) /\ Len(q) = n - 1 /\ n - 1 \in 0..N /\ n \in 0..N
          /\ \A k \in 1..(n - 1) : q[k] = urls[k]
      BY <1>0, <1>2, <2>2
    <3>2. urls[n] \in Relays
      BY <1>0, <1>4 DEF N
    <3>3. urls[n] \notin ToSet(q)
      <4>1. SUFFICES ASSUME NEW k \in 1..(n - 1), q[k] = urls[n]  PROVE FALSE
        BY <3>1 DEF ToSet
      <4>2. k \in 1..N /\ k # n /\ urls[k] = urls[n]
        BY <1>0, <3>1, <4>1
      <4> QED  BY <1>0, <1>4, <4>2 DEF IsInjective
    <3>4. kept[n] = Append(q, urls[n])
      BY <1>2, <3>2, <3>3
    <3> HIDE DEF q
    <3>5. Len(kept[n]) = n /\ \A k \in 1..n : kept[n][k] = urls[k]
      BY <3>1, <3>2, <3>4
    <3> QED  BY <3>1, <3>5
  <2>3. \A n \in 0..N : n \in S
    <3> HIDE DEF S
    <3> QED  BY <1>0, <2>1, <2>2, UpTo
  <2>4. N \in 0..N /\ kept[N] \in Seq(Relays)
    BY <1>0, <1>1
  <2>5. Len(kept[N]) = N /\ \A k \in 1..N : kept[N][k] = urls[k]
    BY <2>3, <2>4
  <2>6. Len(urls) = N
    BY DEF N
  <2> QED  BY <1>4, <2>4, <2>5, <2>6, SeqEqual
<1>5. kept[N] \in Seq(Relays) /\ IsInjective(kept[N])
  BY <1>0, <1>1
<1> QED  BY <1>1, <1>3, <1>4, <1>5

LEMMA RelaysAreUrls == Relays \subseteq Urls /\ Seq(Relays) \subseteq Seq(Urls)
<1>1. Relays \subseteq Urls
  BY GroupsAssumption
<1> QED  BY <1>1

LEMMA InviteRelaysIs ==
    ASSUME NEW urls \in Seq(Urls)
    PROVE  /\ InviteRelays(urls) \in Seq(Relays)
           /\ IsInjective(InviteRelays(urls))
           /\ ToSet(InviteRelays(urls)) \subseteq ToSet(NormalizeDedup(urls))
           /\ urls \in Seq(Relays) => ToSet(InviteRelays(urls)) \subseteq ToSet(urls)
           /\ urls \in Seq(Relays) /\ IsInjective(urls) /\ Len(urls) <= MaxInviteRelays =>
                  InviteRelays(urls) = urls
<1>1. MaxInviteRelays \in Nat
  BY GroupsAssumption
<1>2. InviteRelays(urls) = First(NormalizeDedup(urls), MaxInviteRelays)
  BY DEF InviteRelays
<1> DEFINE q == NormalizeDedup(urls)
<1>3. /\ q \in Seq(Relays) /\ IsInjective(q)
      /\ urls \in Seq(Relays) => ToSet(q) \subseteq ToSet(urls)
      /\ urls \in Seq(Relays) /\ IsInjective(urls) => q = urls
  BY NormalizeDedupIs
<1> HIDE DEF q
<1>4. /\ First(q, MaxInviteRelays) \in Seq(Relays)
      /\ ToSet(First(q, MaxInviteRelays)) \subseteq ToSet(q)
      /\ IsInjective(q) => IsInjective(First(q, MaxInviteRelays))
      /\ Len(q) <= MaxInviteRelays => First(q, MaxInviteRelays) = q
  BY <1>1, <1>3, FirstIs
<1> QED  BY <1>2, <1>3, <1>4 DEF q

-----------------------------------------------------------------------------
(***************************************************************************)
(* The Config, sound: its lists hold relays, each once, the automatic ones *)
(* are in the list, and every group has a real key and only relays that    *)
(* invites for that key carried.                                           *)
(***************************************************************************)
Group == [public: Publics, secret: BOOLEAN, selected: BOOLEAN, relays: Seq(Relays)]

SoundGroups ==
    {g \in Group :
        /\ [public |-> g.public, secret |-> g.secret] # NoKey
        /\ IsInjective(g.relays)
        /\ g.public \notin Minted => ToSet(g.relays) \subseteq Carried(g.public)}

Sound(c) ==
    /\ c \in [relays: Seq(Relays), auto: SUBSET Relays, groups: Seq(SoundGroups)]
    /\ IsInjective(c.relays) /\ c.auto \subseteq ToSet(c.relays)

Manual(c, ty) == ty \subseteq ToSet(c.relays) /\ ty \cap c.auto = {}

Reaches(c, dr) ==
    \A g \in ToSet(c.groups) : ToSet(g.relays) \subseteq ToSet(c.relays) \cup dr

(* What a command has to say so that the config it leaves is sound. *)
Honest(public, relays) ==
    /\ relays \in Seq(Relays) /\ public \in Publics
    /\ ToSet(relays) \subseteq Carried(public)

Good(c, ty, dr) == Sound(c) /\ Manual(c, ty) /\ Reaches(c, dr)

(* What the user did not touch by hand and what is not in the list. *)
LEMMA ReachesWithout ==
    ASSUME NEW c, NEW dr, Reaches(c, dr)
    PROVE  Reaches(c, dr \ ToSet(c.relays))
BY DEF Reaches

LEMMA ReplaceIs ==
    ASSUME NEW T, NEW q \in Seq(T), NEW at \in DOMAIN q, NEW e \in T
    PROVE  /\ [q EXCEPT ![at] = e] \in Seq(T)
           /\ ToSet([q EXCEPT ![at] = e]) \subseteq ToSet(q) \cup {e}
<1> DEFINE r == [q EXCEPT ![at] = e]
<1>1. /\ r \in Seq(T) /\ DOMAIN r = DOMAIN q
      /\ \A i \in DOMAIN q : r[i] = IF i = at THEN e ELSE q[i]
  OBVIOUS
<1> HIDE DEF r
<1>2. ToSet(r) \subseteq ToSet(q) \cup {e}
  BY <1>1 DEF ToSet
<1> QED  BY <1>1, <1>2 DEF r

LEMMA AbsorbIs ==
    ASSUME NEW c, Sound(c), NEW relays \in Seq(Relays), IsInjective(relays)
    PROVE  \E q \in Seq(Relays), auto \in SUBSET Relays :
               /\ AbsorbRelays(c, relays) = [relays |-> q, auto |-> auto, groups |-> c.groups]
               /\ IsInjective(q) /\ ToSet(q) = ToSet(c.relays) \cup ToSet(relays)
               /\ auto \cap ToSet(c.relays) \subseteq c.auto /\ auto \subseteq ToSet(q)
<1> DEFINE new == Without(relays, ToSet(c.relays))
<1>1. /\ c \in [relays: Seq(Relays), auto: SUBSET Relays, groups: Seq(SoundGroups)]
      /\ IsInjective(c.relays) /\ c.auto \subseteq ToSet(c.relays)
  BY DEF Sound
<1>2. /\ new \in Seq(Relays) /\ ToSet(new) = ToSet(relays) \ ToSet(c.relays)
      /\ IsInjective(new)
  BY WithoutIs
<1>3. AbsorbRelays(c, relays) =
          [relays |-> c.relays \o new, auto |-> c.auto \cup ToSet(new), groups |-> c.groups]
  <2>1. AbsorbRelays(c, relays) =
            [c EXCEPT !.relays = c.relays \o new, !.auto = c.auto \cup ToSet(new)]
    BY DEF AbsorbRelays
  <2> HIDE DEF new
  <2> QED  BY <1>1, <2>1
<1> HIDE DEF new
<1>4. /\ c.relays \o new \in Seq(Relays)
      /\ ToSet(c.relays \o new) = ToSet(c.relays) \cup ToSet(new)
      /\ IsInjective(c.relays \o new)
  BY <1>1, <1>2, ConcatIs
<1>5. c.auto \cup ToSet(new) \in SUBSET Relays
  BY <1>1, <1>2, ToSetIn
<1>6. /\ (c.auto \cup ToSet(new)) \cap ToSet(c.relays) \subseteq c.auto
      /\ c.auto \cup ToSet(new) \subseteq ToSet(c.relays \o new)
  BY <1>1, <1>2, <1>4
<1>7. ToSet(c.relays) \cup ToSet(new) = ToSet(c.relays) \cup ToSet(relays)
  BY <1>2
<1> QED  BY <1>3, <1>4, <1>5, <1>6, <1>7

-----------------------------------------------------------------------------
(* The operations on a Config *)

(* Those that take no relay away. *)
LEMMA Extended ==
    ASSUME NEW c, NEW ty, NEW dr, Good(c, ty, dr),
           NEW q \in Seq(Relays), NEW auto \in SUBSET Relays, NEW groups \in Seq(SoundGroups),
           IsInjective(q), ToSet(c.relays) \subseteq ToSet(q),
           auto \cap ToSet(c.relays) \subseteq c.auto, auto \subseteq ToSet(q),
           \A g \in ToSet(groups) :
               g \in ToSet(c.groups) \/ ToSet(g.relays) \subseteq ToSet(q) \cup dr
    PROVE  Good([relays |-> q, auto |-> auto, groups |-> groups], ty, dr)
<1> DEFINE d == [relays |-> q, auto |-> auto, groups |-> groups]
<1>1. Sound(d)
  BY DEF Sound
<1>2. Manual(d, ty)
  <2>1. ty \subseteq ToSet(c.relays) /\ ty \cap c.auto = {}
    BY DEF Good, Manual
  <2>2. ty \subseteq ToSet(q) /\ ty \cap auto = {}
    BY <2>1
  <2> QED  BY <2>2 DEF Manual
<1>3. Reaches(d, dr)
  <2>1. \A g \in ToSet(c.groups) : ToSet(g.relays) \subseteq ToSet(c.relays) \cup dr
    BY DEF Good, Reaches
  <2>2. \A g \in ToSet(groups) : ToSet(g.relays) \subseteq ToSet(q) \cup dr
    BY <2>1
  <2> QED  BY <2>2 DEF Reaches
<1> QED  BY <1>1, <1>2, <1>3 DEF Good

LEMMA GoodType ==
    ASSUME NEW c, NEW ty, NEW dr, Good(c, ty, dr)
    PROVE  /\ Sound(c) /\ c.relays \in Seq(Relays) /\ IsInjective(c.relays)
           /\ c.auto \subseteq ToSet(c.relays) /\ c.auto \in SUBSET Relays /\ c.groups \in Seq(SoundGroups)
           /\ c = [relays |-> c.relays, auto |-> c.auto, groups |-> c.groups]
BY DEF Good, Sound

LEMMA Regrouped ==
    ASSUME NEW q, NEW auto, NEW groups, NEW c, NEW new,
           c = [relays |-> q, auto |-> auto, groups |-> groups]
    PROVE  [c EXCEPT !.groups = new] = [relays |-> q, auto |-> auto, groups |-> new]
OBVIOUS

LEMMA Relisted ==
    ASSUME NEW c, NEW relays, NEW list,
           c = [relays |-> c.relays, auto |-> c.auto, groups |-> c.groups]
    PROVE  [c EXCEPT !.relays = relays, !.auto = list] =
               [relays |-> relays, auto |-> list, groups |-> c.groups]
<1>1. PICK auto, groups : c = [relays |-> c.relays, auto |-> auto, groups |-> groups]
  BY Zenon
<1>2. PICK d : d = [c EXCEPT !.relays = relays]
  OBVIOUS
<1>3. d = [relays |-> relays, auto |-> auto, groups |-> groups]
  BY <1>1, <1>2
<1>4. [d EXCEPT !.auto = list] = [relays |-> relays, auto |-> list, groups |-> groups]
  BY <1>3
<1>5. groups = c.groups
  BY <1>1
<1> QED  BY <1>2, <1>4, <1>5

LEMMA SoundGroupIs ==
    ASSUME NEW g \in SoundGroups
    PROVE  /\ g = [public |-> g.public, secret |-> g.secret, selected |-> g.selected,
                   relays |-> g.relays]
           /\ g.public \in Publics /\ g.secret \in BOOLEAN /\ g.selected \in BOOLEAN
           /\ g.relays \in Seq(Relays) /\ IsInjective(g.relays)
           /\ [public |-> g.public, secret |-> g.secret] # NoKey
           /\ g.public \notin Minted => ToSet(g.relays) \subseteq Carried(g.public)
BY DEF SoundGroups, Group

LEMMA SoundGroup ==
    ASSUME NEW public \in Publics, NEW secret \in BOOLEAN, NEW selected \in BOOLEAN,
           NEW relays \in Seq(Relays), IsInjective(relays),
           [public |-> public, secret |-> secret] # NoKey,
           public \notin Minted => ToSet(relays) \subseteq Carried(public)
    PROVE  [public |-> public, secret |-> secret, selected |-> selected,
            relays |-> relays] \in SoundGroups
BY DEF SoundGroups, Group

LEMMA MintedKey ==
    ASSUME NEW public \in Minted
    PROVE  public \in Publics /\ [public |-> public, secret |-> TRUE] # NoKey
<1>1. public \in Publics
  BY DEF Publics
<1>2. public # NoKey.public
  BY GroupsAssumption
<1> QED  BY <1>1, <1>2

LEMMA Created ==
    ASSUME NEW c, NEW ty, NEW dr, Good(c, ty, dr), NEW public \in Minted
    PROVE  Good([c EXCEPT !.groups = Append(@, NewMember(public))], ty, dr)
<1> DEFINE g == NewMember(public)
<1>1. g \in SoundGroups /\ ToSet(g.relays) = {}
  <2>1. <<>> \in Seq(Relays) /\ ToSet(<<>>) = {} /\ IsInjective(<<>>)
    BY DEF ToSet, IsInjective
  <2> QED  BY <2>1, MintedKey, SoundGroup DEF NewMember
<1> HIDE DEF g
<1>2. Append(c.groups, g) \in Seq(SoundGroups) /\ ToSet(Append(c.groups, g)) = ToSet(c.groups) \cup {g}
  BY <1>1, GoodType, AppendIs
<1>3. Good([relays |-> c.relays, auto |-> c.auto, groups |-> Append(c.groups, g)], ty, dr)
  BY <1>1, <1>2, GoodType, Extended
<1>4. [c EXCEPT !.groups = Append(@, g)] =
          [relays |-> c.relays, auto |-> c.auto, groups |-> Append(c.groups, g)]
  <2>1. c = [relays |-> c.relays, auto |-> c.auto, groups |-> c.groups]
    BY GoodType
  <2> QED  BY <2>1, Regrouped
<1> QED  BY <1>3, <1>4 DEF g

(* An import whose key is real and whose relays are its own. *)
LEMMA Imported ==
    ASSUME NEW c, NEW ty, NEW dr, Good(c, ty, dr), NEW key \in Key, key # NoKey,
           NEW urls, Honest(key.public, urls)
    PROVE  Good(AddImportedGroup(c, key, urls), ty, dr)
<1> DEFINE relays == InviteRelays(urls)
           g == [public |-> key.public, secret |-> key.secret,
                 selected |-> TRUE, relays |-> relays]
<1>1. /\ relays \in Seq(Relays) /\ IsInjective(relays)
      /\ ToSet(relays) \subseteq Carried(key.public)
  BY InviteRelaysIs, RelaysAreUrls DEF Honest
<1>2. g \in SoundGroups /\ g.relays = relays
  <2>1. key.public \in Publics /\ key.secret \in BOOLEAN
        /\ [public |-> key.public, secret |-> key.secret] # NoKey
    BY DEF Key
  <2> HIDE DEF relays
  <2> QED  BY <1>1, <2>1, SoundGroup
<1>3. AddImportedGroup(c, key, urls) =
          [AbsorbRelays(c, relays) EXCEPT !.groups = Append(@, g)]
  BY DEF AddImportedGroup
<1> HIDE DEF g, relays
<1>4. PICK q \in Seq(Relays), auto \in SUBSET Relays :
          /\ AbsorbRelays(c, relays) = [relays |-> q, auto |-> auto, groups |-> c.groups]
          /\ IsInjective(q) /\ ToSet(q) = ToSet(c.relays) \cup ToSet(relays)
          /\ auto \cap ToSet(c.relays) \subseteq c.auto /\ auto \subseteq ToSet(q)
  BY <1>1, GoodType, AbsorbIs
<1>5. Append(c.groups, g) \in Seq(SoundGroups) /\ ToSet(Append(c.groups, g)) = ToSet(c.groups) \cup {g}
  BY <1>2, GoodType, AppendIs
<1>6. Good([relays |-> q, auto |-> auto, groups |-> Append(c.groups, g)], ty, dr)
  BY <1>2, <1>4, <1>5, Extended
<1>7. AddImportedGroup(c, key, urls) =
          [relays |-> q, auto |-> auto, groups |-> Append(c.groups, g)]
  <2>1. PICK a : a = AbsorbRelays(c, relays)
    OBVIOUS
  <2>2. a = [relays |-> q, auto |-> auto, groups |-> c.groups] /\ a.groups = c.groups
    BY <1>4, <2>1
  <2>3. AddImportedGroup(c, key, urls) = [a EXCEPT !.groups = Append(c.groups, g)]
    BY <1>3, <2>1, <2>2
  <2> QED  BY <2>2, <2>3, Regrouped
<1> QED  BY <1>6, <1>7

LEMMA IndexOfGroup ==
    ASSUME NEW groups \in Seq(SoundGroups), NEW public, IndexOf(groups, public) # 0
    PROVE  /\ IndexOf(groups, public) \in DOMAIN groups
           /\ groups[IndexOf(groups, public)] \in SoundGroups \cap ToSet(groups)
           /\ groups[IndexOf(groups, public)].public = public
<1>1. Len(groups) \in Nat /\ DOMAIN groups = 1..Len(groups)
  OBVIOUS
<1>2. /\ IndexOf(groups, public) \in DOMAIN groups
      /\ groups[IndexOf(groups, public)].public = public
  BY <1>1, IndexOfIs
<1>3. \A i \in DOMAIN groups : groups[i] \in SoundGroups /\ groups[i] \in ToSet(groups)
  BY DEF ToSet
<1> QED  BY <1>2, <1>3

LEMMA Merged ==
    ASSUME NEW c, NEW ty, NEW dr, Good(c, ty, dr), NEW public, NEW urls, Honest(public, urls)
    PROVE  Good(MergeGroupRelays(c, public, urls), ty, dr)
<1> DEFINE at == IndexOf(c.groups, public)
           relays == InviteRelays(urls)
           old == c.groups[at]
           both == old.relays \o Without(relays, ToSet(old.relays))
           g == [public |-> old.public, secret |-> old.secret,
                 selected |-> old.selected, relays |-> both]
<1>0. CASE at = 0
  BY <1>0 DEF MergeGroupRelays
<1>1. CASE at # 0
  <2>1. /\ relays \in Seq(Relays) /\ IsInjective(relays)
        /\ ToSet(relays) \subseteq Carried(public)
    BY InviteRelaysIs, RelaysAreUrls DEF Honest
  <2>2. at \in DOMAIN c.groups /\ old \in SoundGroups \cap ToSet(c.groups) /\ old.public = public
    <3>1. c.groups \in Seq(SoundGroups)
      BY GoodType
    <3> QED  BY <1>1, <3>1, IndexOfGroup
  <2>3. MergeGroupRelays(c, public, urls) =
            [AbsorbRelays(c, relays) EXCEPT
                 !.groups[at].relays = @ \o Without(relays, ToSet(@))]
    BY <1>1 DEF MergeGroupRelays
  <2> HIDE DEF relays, at
  <2>4. PICK q \in Seq(Relays), auto \in SUBSET Relays :
            /\ AbsorbRelays(c, relays) = [relays |-> q, auto |-> auto, groups |-> c.groups]
            /\ IsInjective(q) /\ ToSet(q) = ToSet(c.relays) \cup ToSet(relays)
            /\ auto \cap ToSet(c.relays) \subseteq c.auto /\ auto \subseteq ToSet(q)
    BY <2>1, GoodType, AbsorbIs
  <2>5. /\ both \in Seq(Relays) /\ ToSet(both) = ToSet(old.relays) \cup ToSet(relays)
        /\ IsInjective(both)
    <3>1. /\ Without(relays, ToSet(old.relays)) \in Seq(Relays)
          /\ ToSet(Without(relays, ToSet(old.relays))) = ToSet(relays) \ ToSet(old.relays)
          /\ IsInjective(Without(relays, ToSet(old.relays)))
      BY <2>1, WithoutIs
    <3>2. old.relays \in Seq(Relays) /\ IsInjective(old.relays)
      BY <2>2, SoundGroupIs
    <3> HIDE DEF old
    <3> QED  BY <3>1, <3>2, ConcatIs
  <2>6. MergeGroupRelays(c, public, urls) =
            [relays |-> q, auto |-> auto, groups |-> [c.groups EXCEPT ![at] = g]]
    <3>1. old = [public |-> old.public, secret |-> old.secret,
                 selected |-> old.selected, relays |-> old.relays]
      BY <2>2, SoundGroupIs
    <3>2. [old EXCEPT !.relays = both] = g
      <4> HIDE DEF old, both
      <4> QED  BY <3>1 DEF g
    <3>3. MergeGroupRelays(c, public, urls) =
              [relays |-> q, auto |-> auto,
               groups |-> [c.groups EXCEPT ![at] = [old EXCEPT !.relays = both]]]
      <4>1. AbsorbRelays(c, relays).groups = c.groups
        BY <2>4
      <4>2. MergeGroupRelays(c, public, urls) =
                [AbsorbRelays(c, relays) EXCEPT
                     !.groups = [c.groups EXCEPT ![at] = [old EXCEPT !.relays = both]]]
        BY <2>3, <4>1
      <4> HIDE DEF both, old
      <4> QED  BY <2>4, <4>2, Regrouped
    <3> HIDE DEF g
    <3> QED  BY <3>2, <3>3
  <2>7. g \in SoundGroups /\ g.relays = both
    <3>1. /\ old.public \in Publics /\ old.secret \in BOOLEAN /\ old.selected \in BOOLEAN
          /\ [public |-> old.public, secret |-> old.secret] # NoKey
          /\ old.public \notin Minted => ToSet(old.relays) \subseteq Carried(old.public)
      BY <2>2, SoundGroupIs
    <3>2. old.public \notin Minted => ToSet(both) \subseteq Carried(old.public)
      BY <2>1, <2>2, <2>5, <3>1
    <3> HIDE DEF both, old
    <3> QED  BY <2>5, <3>1, <3>2, SoundGroup
  <2>8. ToSet(g.relays) \subseteq ToSet(q) \cup dr
    <3>1. ToSet(old.relays) \subseteq ToSet(c.relays) \cup dr
      BY <2>2 DEF Good, Reaches
    <3> QED  BY <2>4, <2>5, <2>7, <3>1
  <2> HIDE DEF g
  <2>9. /\ [c.groups EXCEPT ![at] = g] \in Seq(SoundGroups)
        /\ ToSet([c.groups EXCEPT ![at] = g]) \subseteq ToSet(c.groups) \cup {g}
    BY <2>2, <2>7, GoodType, ReplaceIs
  <2>10. \A h \in ToSet([c.groups EXCEPT ![at] = g]) :
             h \in ToSet(c.groups) \/ ToSet(h.relays) \subseteq ToSet(q) \cup dr
    BY <2>8, <2>9
  <2>11. ToSet(c.relays) \subseteq ToSet(q)
    BY <2>4
  <2>12. Good([relays |-> q, auto |-> auto, groups |-> [c.groups EXCEPT ![at] = g]], ty, dr)
    BY <2>4, <2>9, <2>10, <2>11, Extended
  <2> QED  BY <2>6, <2>12
<1> QED  BY <1>0, <1>1

(* One group in the place of another, with the relays it had. *)
LEMMA Replaced ==
    ASSUME NEW c, NEW ty, NEW dr, Good(c, ty, dr), NEW at \in DOMAIN c.groups,
           NEW g \in SoundGroups, g.relays = c.groups[at].relays
    PROVE  Good([relays |-> c.relays, auto |-> c.auto,
                 groups |-> [c.groups EXCEPT ![at] = g]], ty, dr)
<1>1. /\ [c.groups EXCEPT ![at] = g] \in Seq(SoundGroups)
      /\ ToSet([c.groups EXCEPT ![at] = g]) \subseteq ToSet(c.groups) \cup {g}
  BY GoodType, ReplaceIs
<1>2. ToSet(g.relays) \subseteq ToSet(c.relays) \cup dr
  <2>1. c.groups[at] \in ToSet(c.groups)
    BY DEF ToSet
  <2> QED  BY <2>1 DEF Good, Reaches
<1>3. \A h \in ToSet([c.groups EXCEPT ![at] = g]) :
          h \in ToSet(c.groups) \/ ToSet(h.relays) \subseteq ToSet(c.relays) \cup dr
  BY <1>1, <1>2
<1> QED  BY <1>1, <1>3, GoodType, Extended

LEMMA ToggledIs ==
    ASSUME NEW c, NEW ty, NEW dr, Good(c, ty, dr), NEW public, NEW on \in BOOLEAN
    PROVE  Good(Toggled(c, public, on), ty, dr)
<1> DEFINE at == IndexOf(c.groups, public)
           old == c.groups[at]
           g == [public |-> old.public, secret |-> old.secret,
                 selected |-> on, relays |-> old.relays]
<1>0. CASE at = 0
  BY <1>0 DEF Toggled
<1>1. CASE at # 0
  <2>1. at \in DOMAIN c.groups /\ old \in SoundGroups
    BY <1>1, GoodType, IndexOfGroup
  <2>2. Toggled(c, public, on) = [c EXCEPT !.groups[at].selected = on]
    BY <1>1 DEF Toggled
  <2> HIDE DEF at
  <2>3. old = [public |-> old.public, secret |-> old.secret,
               selected |-> old.selected, relays |-> old.relays]
    BY <2>1, SoundGroupIs
  <2>4. [old EXCEPT !.selected = on] = g
    <3> HIDE DEF old
    <3> QED  BY <2>3
  <2>5. Toggled(c, public, on) = [c EXCEPT !.groups = [c.groups EXCEPT ![at] = g]]
    <3> HIDE DEF g
    <3> QED  BY <2>2, <2>4
  <2>6. g \in SoundGroups /\ g.relays = c.groups[at].relays
    BY <2>1, SoundGroupIs, SoundGroup
  <2> HIDE DEF g
  <2>7. Toggled(c, public, on) = [relays |-> c.relays, auto |-> c.auto,
                                  groups |-> [c.groups EXCEPT ![at] = g]]
    <3>1. c = [relays |-> c.relays, auto |-> c.auto, groups |-> c.groups]
      BY GoodType
    <3> QED  BY <2>5, <3>1, Regrouped
  <2>8. Good([relays |-> c.relays, auto |-> c.auto,
              groups |-> [c.groups EXCEPT ![at] = g]], ty, dr)
    BY <2>1, <2>6, Replaced
  <2> QED  BY <2>7, <2>8
<1> QED  BY <1>0, <1>1

LEMMA RotatedIs ==
    ASSUME NEW c, NEW ty, NEW dr, Good(c, ty, dr), NEW at \in DOMAIN c.groups,
           NEW public \in Minted
    PROVE  Good(Rotated(c, at, public), ty, dr)
<1> DEFINE old == c.groups[at]
           g == [public |-> public, secret |-> TRUE,
                 selected |-> old.selected, relays |-> old.relays]
<1>1. old \in SoundGroups
  BY GoodType
<1>2. old = [public |-> old.public, secret |-> old.secret,
             selected |-> old.selected, relays |-> old.relays]
  BY <1>1, SoundGroupIs
<1>3. [[old EXCEPT !.public = public] EXCEPT !.secret = TRUE] = g
  <2>1. PICK h : h = [old EXCEPT !.public = public]
    OBVIOUS
  <2>2. h = [public |-> public, secret |-> old.secret,
             selected |-> old.selected, relays |-> old.relays]
    <3> HIDE DEF old
    <3> QED  BY <1>2, <2>1
  <2>3. [h EXCEPT !.secret = TRUE] = g
    <3>1. \A s : [h EXCEPT !.secret = s] =
                     [public |-> public, secret |-> s,
                      selected |-> old.selected, relays |-> old.relays]
      <4> HIDE DEF old
      <4> QED  BY <2>2
    <3> QED  BY <3>1, Zenon
  <2> HIDE DEF old, g
  <2> QED  BY <2>1, <2>3
<1>4. g \in SoundGroups /\ g.relays = old.relays
  BY <1>1, SoundGroupIs, SoundGroup, MintedKey
<1>5. c = [relays |-> c.relays, auto |-> c.auto, groups |-> c.groups] /\ c.groups \in Seq(SoundGroups)
  BY GoodType
<1>6. Rotated(c, at, public) = [relays |-> c.relays, auto |-> c.auto,
                                groups |-> [c.groups EXCEPT ![at] = g]]
  <2> DEFINE h == [old EXCEPT !.public = public]
             once == [c.groups EXCEPT ![at] = h]
  <2>1. PICK d : d = [c EXCEPT !.groups = once]
    OBVIOUS
  <2>2. d = [relays |-> c.relays, auto |-> c.auto, groups |-> once]
    <3> HIDE DEF once
    <3> QED  BY <1>5, <2>1, Regrouped
  <2>3. d.groups = once /\ once[at] = h
    <3>1. once[at] = h
      BY <1>5
    <3> HIDE DEF once, h
    <3> QED  BY <2>2, <3>1
  <2>4. Rotated(c, at, public) = [d EXCEPT !.groups[at].secret = TRUE]
    BY <2>1 DEF Rotated
  <2>5. [h EXCEPT !.secret = TRUE] = g
    BY <1>3
  <2> HIDE DEF once, h, g
  <2>6. Rotated(c, at, public) = [d EXCEPT !.groups = [once EXCEPT ![at] = g]]
    BY <2>3, <2>4, <2>5
  <2>7. [once EXCEPT ![at] = g] = [c.groups EXCEPT ![at] = g]
    BY <1>5 DEF once
  <2> QED  BY <2>2, <2>6, <2>7, Regrouped
<1> HIDE DEF g
<1>7. Good([relays |-> c.relays, auto |-> c.auto,
            groups |-> [c.groups EXCEPT ![at] = g]], ty, dr)
  BY <1>4, Replaced
<1> QED  BY <1>6, <1>7

LEMMA AddedRelay ==
    ASSUME NEW c, NEW ty, NEW dr, Good(c, ty, dr), NEW r \in Relays
    PROVE  Good(AddRelay(c, r), ty \cup {r}, dr)
<1> DEFINE q == IF Contains(c.relays, r) THEN c.relays ELSE Append(c.relays, r)
<1>1. /\ c.relays \in Seq(Relays) /\ IsInjective(c.relays) /\ c.auto \in SUBSET Relays
      /\ c.auto \subseteq ToSet(c.relays)
      /\ c.groups \in Seq(SoundGroups)
      /\ c = [relays |-> c.relays, auto |-> c.auto, groups |-> c.groups]
  BY GoodType
<1>2. Contains(c.relays, r) <=> r \in ToSet(c.relays)
  BY <1>1 DEF Contains, ToSet
<1>3. q \in Seq(Relays) /\ IsInjective(q) /\ ToSet(q) = ToSet(c.relays) \cup {r}
  <2>1. /\ Append(c.relays, r) \in Seq(Relays)
        /\ ToSet(Append(c.relays, r)) = ToSet(c.relays) \cup {r}
        /\ r \notin ToSet(c.relays) => IsInjective(Append(c.relays, r))
    BY <1>1, AppendIs
  <2> QED  BY <1>1, <1>2, <2>1
<1>4. AddRelay(c, r) = [relays |-> q, auto |-> c.auto \ {r}, groups |-> c.groups]
  <2> HIDE DEF q
  <2>1. AddRelay(c, r) = [c EXCEPT !.relays = q, !.auto = c.auto \ {r}]
    BY DEF AddRelay, q
  <2> QED  BY <1>1, <2>1
<1> HIDE DEF q
<1>5. c.auto \ {r} \in SUBSET Relays /\ ToSet(c.relays) \subseteq ToSet(q)
      /\ c.auto \ {r} \subseteq ToSet(q)
      /\ (c.auto \ {r}) \cap ToSet(c.relays) \subseteq c.auto
  BY <1>1, <1>3
<1>6. Good([relays |-> q, auto |-> c.auto \ {r}, groups |-> c.groups], ty, dr)
  BY <1>1, <1>3, <1>5, Extended
<1>7. Manual([relays |-> q, auto |-> c.auto \ {r}, groups |-> c.groups], ty \cup {r})
  BY <1>3, <1>6 DEF Good, Manual
<1> QED  BY <1>4, <1>6, <1>7 DEF Good

(* Relays go that the user did not add, or not any more, and that nothing *)
(* needs any more, unless the user is the one who removes them.           *)
LEMMA Reduced ==
    ASSUME NEW c, NEW ty, NEW dr, Good(c, ty, dr), NEW gone, ty \cap gone = {},
           \A g \in ToSet(c.groups) : ToSet(g.relays) \cap gone \subseteq dr
    PROVE  Good([c EXCEPT !.relays = Without(@, gone), !.auto = @ \ gone], ty, dr)
<1> DEFINE q == Without(c.relays, gone)
           d == [relays |-> q, auto |-> c.auto \ gone, groups |-> c.groups]
<1>1. /\ c.relays \in Seq(Relays) /\ IsInjective(c.relays) /\ c.auto \in SUBSET Relays
      /\ c.auto \subseteq ToSet(c.relays)
      /\ c.groups \in Seq(SoundGroups)
      /\ c = [relays |-> c.relays, auto |-> c.auto, groups |-> c.groups]
  BY GoodType
<1>2. q \in Seq(Relays) /\ IsInjective(q) /\ ToSet(q) = ToSet(c.relays) \ gone
  BY <1>1, WithoutIs
<1> HIDE DEF q
<1>3. Sound(d)
  BY <1>1, <1>2 DEF Sound
<1>4. Manual(d, ty)
  BY <1>2 DEF Good, Manual
<1>5. Reaches(d, dr)
  <2>1. \A g \in ToSet(c.groups) : ToSet(g.relays) \subseteq ToSet(c.relays) \cup dr
    BY DEF Good, Reaches
  <2>2. \A g \in ToSet(c.groups) : ToSet(g.relays) \subseteq ToSet(q) \cup dr
    BY <1>2, <2>1
  <2> QED  BY <2>2 DEF Reaches
<1>6. [c EXCEPT !.relays = q, !.auto = c.auto \ gone] = d
  <2>1. c = [relays |-> c.relays, auto |-> c.auto, groups |-> c.groups]
    BY <1>1
  <2> QED  BY <2>1, Relisted
<1> QED  BY <1>3, <1>4, <1>5, <1>6 DEF Good, q

LEMMA RemovedRelay ==
    ASSUME NEW c, NEW ty, NEW dr, Good(c, ty, dr), NEW r
    PROVE  Good(RemoveRelay(c, r), ty \ {r}, dr \cup {r})
<1>1. Good(c, ty \ {r}, dr \cup {r})
  <2>1. Sound(c) /\ Manual(c, ty) /\ Reaches(c, dr)
    BY DEF Good
  <2>2. Manual(c, ty \ {r})
    BY <2>1 DEF Manual
  <2>3. Reaches(c, dr \cup {r})
    BY <2>1 DEF Reaches
  <2> QED  BY <2>1, <2>2, <2>3 DEF Good
<1>2. Good([c EXCEPT !.relays = Without(@, {r}), !.auto = @ \ {r}], ty \ {r}, dr \cup {r})
  BY <1>1, Reduced
<1> QED  BY <1>2 DEF RemoveRelay

(* One candidate: it is on the automatic list, which what the user added is *)
(* not, and no group that stays wants it.                                  *)
LEMMA PrunedOne ==
    ASSUME NEW c, NEW ty, NEW dr, Good(c, ty, dr), NEW r \in Relays
    PROVE  Good(PruneOne(c, r), ty, dr)
<1>1. CASE Len(c.relays) <= MinRelays \/ ~Orphaned(c, r)
  BY <1>1 DEF PruneOne
<1>2. CASE ~(Len(c.relays) <= MinRelays \/ ~Orphaned(c, r))
  <2> DEFINE gone == {r}
  <2>1. PruneOne(c, r) = [c EXCEPT !.relays = Without(@, gone), !.auto = @ \ gone]
    BY <1>2 DEF PruneOne
  <2>2. r \in c.auto /\ \A i \in DOMAIN c.groups : ~Contains(c.groups[i].relays, r)
    BY <1>2 DEF Orphaned
  <2>3. ty \cap gone = {}
    BY <2>2 DEF Good, Manual
  <2>4. \A g \in ToSet(c.groups) : ToSet(g.relays) \cap gone = {}
    <3>1. SUFFICES ASSUME NEW g \in ToSet(c.groups), r \in ToSet(g.relays)  PROVE FALSE
      OBVIOUS
    <3>2. PICK i \in DOMAIN c.groups : c.groups[i] = g
      BY DEF ToSet
    <3>3. g \in SoundGroups
      BY <3>2, GoodType
    <3>4. DOMAIN g.relays = 1..Len(g.relays)
      BY <3>3, SoundGroupIs
    <3>5. Contains(g.relays, r)
      BY <3>1, <3>4 DEF Contains, ToSet
    <3> QED  BY <2>2, <3>2, <3>5
  <2> HIDE DEF gone
  <2>5. Good([c EXCEPT !.relays = Without(@, gone), !.auto = @ \ gone], ty, dr)
    BY <2>3, <2>4, Reduced
  <2> QED  BY <2>1, <2>5
<1> QED  BY <1>1, <1>2

(* All of them, one after another. *)
LEMMA Pruned ==
    ASSUME NEW c, NEW ty, NEW dr, Good(c, ty, dr), NEW candidates \in Seq(Relays)
    PROVE  Good(PruneAutoRelays(c, candidates), ty, dr)
<1> DEFINE N == Len(candidates)
           All == [relays: Seq(Relays), auto: SUBSET Relays, groups: Seq(SoundGroups)]
           D == {d \in All : Good(d, ty, dr)}
           At(f, n) == IF n = 0 THEN c ELSE PruneOne(f[n - 1], candidates[n])
           Is(f) == f = [n \in 0..N |-> At(f, n)]
           pruned == CHOOSE f : Is(f)
           step == [p \in (1..N) \X D |-> PruneOne(p[2], candidates[p[1]])]
<1>0. \A d : Good(d, ty, dr) => d \in D
  BY DEF Good, Sound
<1> HIDE DEF All
<1>1. N \in Nat /\ c \in D /\ \A n \in 1..N : candidates[n] \in Relays
  BY <1>0
<1>2. PruneAutoRelays(c, candidates) = pruned[N]
  BY DEF PruneAutoRelays
<1>3. \A n \in 1..N : \A d \in D : PruneOne(d, candidates[n]) \in D
  <2>1. SUFFICES ASSUME NEW n \in 1..N, NEW d \in D
                 PROVE  PruneOne(d, candidates[n]) \in D
    OBVIOUS
  <2>2. Good(d, ty, dr) /\ candidates[n] \in Relays
    BY <1>1
  <2>3. Good(PruneOne(d, candidates[n]), ty, dr)
    BY <2>2, PrunedOne
  <2> HIDE DEF D
  <2> QED  BY <1>0, <2>3
<1>4. step \in [(1..N) \X D -> D]
  <2> HIDE DEF D, N
  <2> QED  BY <1>3
<1>5. PICK f \in [0..N -> D] : StepsFrom(f, c, step, N)
  <2> HIDE DEF N, D, step
  <2> QED  BY <1>1, <1>4, Stepwise
<1>6. ASSUME NEW n \in 0..N  PROVE f[n] = At(f, n)
  <2> HIDE DEF N, D
  <2>1. CASE n = 0
    BY <1>5, <2>1 DEF StepsFrom
  <2>2. CASE n # 0
    <3>1. n \in 1..N /\ n - 1 \in 0..N /\ f[n - 1] \in D
      BY <1>1, <1>5, <2>2
    <3>2. step[<<n, f[n - 1]>>] = PruneOne(f[n - 1], candidates[n])
      BY <3>1
    <3> QED  BY <1>5, <2>2, <3>1, <3>2 DEF StepsFrom
  <2> QED  BY <2>1, <2>2
<1>7. Is(f)
  <2>1. f = [n \in 0..N |-> f[n]]
    BY <1>5
  <2> HIDE DEF At, N
  <2> QED  BY <1>6, <2>1
<1>8. Is(pruned)
  <2> HIDE DEF Is
  <2> QED  BY <1>7, Zenon
<1>9. \A n \in 0..N : pruned[n] = At(pruned, n)
  <2> HIDE DEF pruned, At, N
  <2> QED  BY <1>8
<1>10. \A n \in 0..N : n \in {k \in 0..N : pruned[k] \in D}
  <2> DEFINE S == {k \in 0..N : pruned[k] \in D}
  <2> HIDE DEF pruned, D
  <2>1. 0 \in S
    BY <1>1, <1>9
  <2>2. ASSUME NEW n \in 1..N, n - 1 \in S  PROVE n \in S
    <3>1. n \in 0..N /\ n # 0 /\ pruned[n - 1] \in D
      BY <1>1, <2>2
    <3>2. pruned[n] = PruneOne(pruned[n - 1], candidates[n])
      BY <1>9, <3>1
    <3> QED  BY <1>3, <3>1, <3>2
  <2> HIDE DEF S, N
  <2> QED  BY <1>1, <2>1, <2>2, UpTo DEF S
<1>11. pruned[N] \in D
  <2> HIDE DEF pruned, D
  <2> QED  BY <1>1, <1>10
<1> HIDE DEF pruned
<1> QED  BY <1>2, <1>11

LEMMA RemovedGroup ==
    ASSUME NEW c, NEW ty, NEW dr, Good(c, ty, dr), NEW public
    PROVE  Good(RemoveGroup(c, public), ty, dr)
<1> DEFINE at == IndexOf(c.groups, public)
<1>0. CASE at = 0
  BY <1>0 DEF RemoveGroup
<1>1. CASE at # 0
  <2>1. at \in DOMAIN c.groups /\ c.groups[at] \in SoundGroups
    BY <1>1, GoodType, IndexOfGroup
  <2>2. RemoveGroup(c, public) =
            PruneAutoRelays([c EXCEPT !.groups = RemoveAt(c.groups, at)], c.groups[at].relays)
    BY <1>1 DEF RemoveGroup
  <2> HIDE DEF at
  <2>3. RemoveAt(c.groups, at) \in Seq(SoundGroups)
        /\ ToSet(RemoveAt(c.groups, at)) \subseteq ToSet(c.groups)
    BY <2>1, GoodType, RemoveAtIs
  <2>4. Good([relays |-> c.relays, auto |-> c.auto, groups |-> RemoveAt(c.groups, at)], ty, dr)
    BY <2>3, GoodType, Extended
  <2>5. [c EXCEPT !.groups = RemoveAt(c.groups, at)] =
            [relays |-> c.relays, auto |-> c.auto, groups |-> RemoveAt(c.groups, at)]
    <3>1. c = [relays |-> c.relays, auto |-> c.auto, groups |-> c.groups]
      BY GoodType
    <3> QED  BY <3>1, Regrouped
  <2>6. c.groups[at].relays \in Seq(Relays)
    BY <2>1, SoundGroupIs
  <2>7. Good(PruneAutoRelays([c EXCEPT !.groups = RemoveAt(c.groups, at)],
                             c.groups[at].relays), ty, dr)
    BY <2>4, <2>5, <2>6, Pruned
  <2> QED  BY <2>2, <2>7
<1> QED  BY <1>0, <1>1

-----------------------------------------------------------------------------
(***************************************************************************)
(* What is in the queues, in the form and in the stash.  An import and a   *)
(* merge carry relays of the key they name: the controller took them from  *)
(* a text with that key, or from the stash of that key.                    *)
(***************************************************************************)
Imports ==
    {cmd \in [op: {"import"}, key: Key, relays: Seq(Relays)] :
        cmd.key # NoKey /\ Honest(cmd.key.public, cmd.relays)}

Merges ==
    {cmd \in [op: {"merge"}, key: Publics, relays: Seq(Relays)] :
        Honest(cmd.key, cmd.relays)}

Confirms == [op: {"rotate", "delete"}, key: Publics]

Commands ==
    Imports \cup Merges \cup Confirms
        \cup [op: {"create"}, key: Minted]
        \cup [op: {"toggle"}, key: Publics, on: BOOLEAN]
        \cup [op: {"add_relay", "remove_relay"}, relay: Relays]
        \cup [op: {"start", "stop"}]

Shared ==
    {text \in [key: Key, urls: Seq(Urls)] :
        ToSet(NormalizeDedup(text.urls)) \subseteq Carried(text.key.public)}

Stashes ==
    {stash \in [key: Key, relays: Seq(Relays)] :
        ToSet(stash.relays) \subseteq Carried(stash.key.public)}

Configs ==
    {c \in [relays: Seq(Relays), auto: SUBSET Relays, groups: Seq(SoundGroups)] :
        IsInjective(c.relays) /\ c.auto \subseteq ToSet(c.relays)}

Queued ==
    /\ cmds \in Seq(Commands)
    /\ snapshots \in Seq(Configs)
    /\ fills \in Seq(Shared)

OnScreen ==
    /\ view \in Configs \cup {Nothing}
    /\ pending \in Stashes \cup {Nothing}
    /\ confirm \in Confirms \cup {Nothing}
    /\ field \in Shared \cup {Nothing}

IInv ==
    /\ Good(config, typed, dropped)
    /\ Queued
    /\ OnScreen
    /\ minted \subseteq Minted

LEMMA GoodConfig ==
    ASSUME NEW c, NEW ty, NEW dr, Good(c, ty, dr)
    PROVE  c \in Configs
BY DEF Good, Sound, Configs

(* What is added to the set of the dropped, what is in the list leaves it. *)
LEMMA GoodWithout ==
    ASSUME NEW c, NEW ty, NEW dr, Good(c, ty, dr)
    PROVE  Good(c, ty, dr \ ToSet(c.relays))
BY ReachesWithout DEF Good

LEMMA MutatedIs ==
    ASSUME NEW c, NEW ty, NEW dr, Good(c, ty, dr),
           NEW cmd \in Commands, cmd.op \notin {"rotate", "start", "stop"}
    PROVE  \/ cmd.op = "add_relay" /\ Good(Mutated(c, cmd), ty \cup {cmd.relay}, dr)
           \/ cmd.op = "remove_relay"
                /\ Good(Mutated(c, cmd), ty \ {cmd.relay}, dr \cup {cmd.relay})
           \/ cmd.op \notin {"add_relay", "remove_relay"} /\ Good(Mutated(c, cmd), ty, dr)
<1>1. CASE cmd \in [op: {"create"}, key: Minted]
  <2>1. cmd.op = "create" /\ cmd.key \in Minted
    BY <1>1
  <2>2. Mutated(c, cmd) = [c EXCEPT !.groups = Append(@, NewMember(cmd.key))]
    BY <2>1 DEF Mutated
  <2>3. Good([c EXCEPT !.groups = Append(@, NewMember(cmd.key))], ty, dr)
    BY <2>1, Created
  <2> QED  BY <2>1, <2>2, <2>3, Zenon
<1>2. CASE cmd \in Imports
  <2>1. cmd.op = "import" /\ cmd.key \in Key /\ cmd.key # NoKey /\ Honest(cmd.key.public, cmd.relays)
    BY <1>2 DEF Imports
  <2>2. Mutated(c, cmd) = AddImportedGroup(c, cmd.key, cmd.relays)
    BY <2>1 DEF Mutated
  <2> QED  BY <2>1, <2>2, Imported
<1>3. CASE cmd \in Merges
  <2>1. cmd.op = "merge" /\ Honest(cmd.key, cmd.relays)
    BY <1>3 DEF Merges
  <2>2. Mutated(c, cmd) = MergeGroupRelays(c, cmd.key, cmd.relays)
    BY <2>1 DEF Mutated
  <2> QED  BY <2>1, <2>2, Merged
<1>4. CASE cmd \in [op: {"toggle"}, key: Publics, on: BOOLEAN]
  <2>1. cmd.op = "toggle" /\ cmd.on \in BOOLEAN
    BY <1>4
  <2>2. Mutated(c, cmd) = Toggled(c, cmd.key, cmd.on)
    BY <2>1 DEF Mutated
  <2> QED  BY <2>1, <2>2, ToggledIs
<1>5. CASE cmd \in Confirms
  <2>1. cmd.op = "delete"
    BY <1>5 DEF Confirms
  <2>2. Mutated(c, cmd) = RemoveGroup(c, cmd.key)
    BY <2>1 DEF Mutated
  <2> QED  BY <2>1, <2>2, RemovedGroup
<1>6. CASE cmd \in [op: {"add_relay", "remove_relay"}, relay: Relays]
  <2>1. cmd.relay \in Relays /\ cmd.op \in {"add_relay", "remove_relay"}
    BY <1>6
  <2>2. cmd.op = "add_relay" => Mutated(c, cmd) = AddRelay(c, cmd.relay)
    BY DEF Mutated
  <2>3. cmd.op = "remove_relay" => Mutated(c, cmd) = RemoveRelay(c, cmd.relay)
    BY DEF Mutated
  <2> QED  BY <2>1, <2>2, <2>3, AddedRelay, RemovedRelay
<1>7. CASE cmd \in [op: {"start", "stop"}]
  BY <1>7
<1> QED  BY <1>1, <1>2, <1>3, <1>4, <1>5, <1>6, <1>7 DEF Commands

-----------------------------------------------------------------------------
(* Texts and stashes *)

LEMMA TextsShared ==
    ASSUME NEW text \in Texts
    PROVE  text \in Shared /\ Bare(text.key) \in Shared
<1>1. text \in [key: Key, urls: Seq(Urls)]
  BY GroupsAssumption
<1>2. text.key \in Key /\ text.key.public = text.key.public
  BY <1>1
<1>3. ToSet(NormalizeDedup(text.urls)) \subseteq Carried(text.key.public)
  BY DEF Carried
<1>4. <<>> \in Seq(Urls) /\ <<>> \in Seq(Relays) /\ ToSet(<<>>) = {}
  BY DEF ToSet
<1>5. ToSet(NormalizeDedup(<<>>)) = {}
  BY <1>4, NormalizeDedupIs
<1>6. Bare(text.key) \in [key: Key, urls: Seq(Urls)] /\ Bare(text.key).urls = <<>>
  BY <1>2, <1>4 DEF Bare
<1> QED  BY <1>1, <1>3, <1>5, <1>6 DEF Shared

LEMMA ParsedIs ==
    ASSUME NEW text \in Shared
    PROVE  ParseShared(text) \in Stashes \cup {Nothing}
<1>1. /\ text.key \in Key /\ text.urls \in Seq(Urls)
      /\ ToSet(NormalizeDedup(text.urls)) \subseteq Carried(text.key.public)
  BY DEF Shared
<1>2. /\ InviteRelays(text.urls) \in Seq(Relays)
      /\ ToSet(InviteRelays(text.urls)) \subseteq Carried(text.key.public)
  BY <1>1, InviteRelaysIs
<1>3. [key |-> text.key, relays |-> InviteRelays(text.urls)] \in Stashes
  BY <1>1, <1>2 DEF Stashes
<1> QED  BY <1>3 DEF ParseShared

(* What Import sends is of the key in the form, whoever stashed what. *)
LEMMA ImportHonest ==
    ASSUME NEW text \in Shared, pending \in Stashes \cup {Nothing}
    PROVE  Honest(text.key.public, InviteRelays(text.urls) \o StashedFor(text.key))
<1> DEFINE own == InviteRelays(text.urls)
           stashed == StashedFor(text.key)
<1>1. /\ text.key \in Key /\ text.urls \in Seq(Urls) /\ text.key.public \in Publics
      /\ ToSet(NormalizeDedup(text.urls)) \subseteq Carried(text.key.public)
  BY DEF Shared, Key
<1>2. own \in Seq(Relays) /\ ToSet(own) \subseteq Carried(text.key.public)
  BY <1>1, InviteRelaysIs
<1>3. stashed \in Seq(Relays) /\ ToSet(stashed) \subseteq Carried(text.key.public)
  <2>1. <<>> \in Seq(Relays) /\ ToSet(<<>>) = {}
    BY DEF ToSet
  <2>2. CASE pending # Nothing /\ pending.key = text.key
    <3>1. pending.relays \in Seq(Relays) /\ ToSet(pending.relays) \subseteq Carried(text.key.public)
      BY <2>2 DEF Stashes
    <3> QED  BY <2>2, <3>1 DEF StashedFor
  <2>3. CASE ~(pending # Nothing /\ pending.key = text.key)
    BY <2>1, <2>3 DEF StashedFor
  <2> QED  BY <2>2, <2>3
<1> HIDE DEF own, stashed
<1>4. own \o stashed \in Seq(Relays) /\ ToSet(own \o stashed) = ToSet(own) \cup ToSet(stashed)
  BY <1>2, <1>3, ConcatIs
<1>5. Honest(text.key.public, own \o stashed)
  BY <1>1, <1>2, <1>3, <1>4 DEF Honest
<1> QED  BY <1>5 DEF own, stashed

(* At every zoom the tiles of a side make up the world, without a rest. *)
LEMMA ViewIs ==
    ASSUME view \in Configs \cup {Nothing}
    PROVE  /\ ToSet(ViewRelays) \subseteq Relays
           /\ \A g \in ViewGroups : g.public \in Publics /\ g.selected \in BOOLEAN
<1>1. CASE view = Nothing
  <2>1. DefaultRelays \in Seq(Relays)
    BY GroupsAssumption
  <2> QED  BY <1>1, <2>1, ToSetIn DEF ViewRelays, ViewGroups
<1>2. CASE view # Nothing
  <2>1. view.relays \in Seq(Relays) /\ view.groups \in Seq(SoundGroups)
    BY <1>2 DEF Configs
  <2>2. ToSet(view.relays) \subseteq Relays /\ ToSet(view.groups) \subseteq SoundGroups
    BY <2>1, ToSetIn
  <2>3. \A g \in ToSet(view.groups) : g.public \in Publics /\ g.selected \in BOOLEAN
    BY <2>2, SoundGroupIs
  <2> QED  BY <1>2, <2>2, <2>3 DEF ViewRelays, ViewGroups
<1> QED  BY <1>1, <1>2

LEMMA FreshIs ==
    ASSUME minted \subseteq Minted, minted # Minted
    PROVE  Fresh \in Minted
<1>1. \E k \in Minted \ minted : TRUE
  OBVIOUS
<1> QED  BY <1>1 DEF Fresh

-----------------------------------------------------------------------------
(* The initial states and the steps of Groups *)

LEMMA InitGood == Init => IInv
<1> SUFFICES ASSUME Init  PROVE IInv
  OBVIOUS
<1>1. PICK stored \in Stored : config = NormalizeRelays(stored)
  BY DEF Init
<1> DEFINE StoredGroup == [public: Publics, secret: BOOLEAN, selected: BOOLEAN,
                           relays: Seq(Urls)]
           relays == NormalizeDedup(stored.relays)
           auto == {Canonical[u] : u \in stored.auto} \cap ToSet(relays)
           normal(g) == [public |-> g.public, secret |-> g.secret,
                         selected |-> g.selected, relays |-> NormalizeDedup(g.relays)]
           groups == [i \in DOMAIN stored.groups |->
                         [stored.groups[i] EXCEPT !.relays = NormalizeDedup(@)]]
<1>2. stored.relays \in Seq(Urls) /\ stored.groups \in Seq(StoredGroup)
  BY GroupsAssumption
<1>3. config = [relays |-> relays, auto |-> auto, groups |-> groups]
  BY <1>1 DEF NormalizeRelays
<1>4. relays \in Seq(Relays) /\ IsInjective(relays) /\ auto \in SUBSET Relays
      /\ auto \subseteq ToSet(relays)
  <2>1. relays \in Seq(Relays) /\ IsInjective(relays)
    BY <1>2, NormalizeDedupIs
  <2>2. ToSet(relays) \subseteq Relays
    BY <2>1, ToSetIn
  <2> HIDE DEF relays
  <2> QED  BY <2>1, <2>2
<1>5. ASSUME NEW i \in DOMAIN stored.groups
      PROVE  [stored.groups[i] EXCEPT !.relays = NormalizeDedup(@)] \in SoundGroups
  <2>1. PICK g : g = stored.groups[i]
    OBVIOUS
  <2>2. g \in StoredGroup /\ g \in ToSet(stored.groups)
    <3>1. g \in ToSet(stored.groups)
      BY <2>1 DEF ToSet
    <3> HIDE DEF StoredGroup
    <3> QED  BY <1>2, <3>1, ToSetIn
  <2>3. [public |-> g.public, secret |-> g.secret] # NoKey
        /\ ToSet(NormalizeDedup(g.relays)) \subseteq Carried(g.public)
    BY <2>2, StoredAssumption
  <2>4. NormalizeDedup(g.relays) \in Seq(Relays) /\ IsInjective(NormalizeDedup(g.relays))
    BY <2>2, NormalizeDedupIs
  <2>5. normal(g) \in SoundGroups
    BY <2>2, <2>3, <2>4, SoundGroup
  <2>6. [g EXCEPT !.relays = NormalizeDedup(g.relays)] = normal(g)
    <3>1. PICK own : own = NormalizeDedup(g.relays)
      OBVIOUS
    <3>2. g = [public |-> g.public, secret |-> g.secret,
               selected |-> g.selected, relays |-> g.relays]
      BY <2>2
    <3>3. [g EXCEPT !.relays = own] =
              [public |-> g.public, secret |-> g.secret,
               selected |-> g.selected, relays |-> own]
      BY <3>2
    <3> QED  BY <3>1, <3>3
  <2> HIDE DEF normal
  <2> QED  BY <2>1, <2>5, <2>6
<1>6. groups \in Seq(SoundGroups)
  <2>1. DOMAIN stored.groups = 1..Len(stored.groups) /\ Len(stored.groups) \in Nat
    BY <1>2
  <2>2. \A i \in DOMAIN stored.groups : groups[i] \in SoundGroups
    BY <1>5
  <2>3. groups = [i \in 1..Len(stored.groups) |-> groups[i]]
    BY <2>1
  <2> HIDE DEF groups
  <2> QED  BY <2>1, <2>2, <2>3
<1> HIDE DEF relays, auto, groups
<1>7. Sound(config)
  BY <1>3, <1>4, <1>6 DEF Sound
<1>8. typed = {}
  BY DEF Init
<1>9. Manual(config, typed) /\ Reaches(config, dropped)
  <2>1. PICK wanted : wanted = UNION {ToSet(g.relays) : g \in ToSet(config.groups)}
    OBVIOUS
  <2>2. dropped = wanted \ ToSet(config.relays)
    BY <2>1 DEF Init
  <2>3. \A g \in ToSet(config.groups) : ToSet(g.relays) \subseteq wanted
    BY <2>1
  <2>4. Reaches(config, dropped)
    BY <2>2, <2>3 DEF Reaches
  <2>5. Manual(config, typed)
    BY <1>8 DEF Manual
  <2> QED  BY <2>4, <2>5
<1>10. Good(config, typed, dropped)
  BY <1>7, <1>9 DEF Good
<1>11. Queued
  <2>1. cmds = <<>> /\ snapshots = <<config>> /\ fills = <<>> /\ config \in Configs
    BY <1>10, GoodConfig DEF Init
  <2> QED  BY <2>1 DEF Queued
<1>12. OnScreen /\ minted \subseteq Minted
  BY DEF Init, OnScreen
<1> QED  BY <1>10, <1>11, <1>12 DEF IInv

LEMMA HeadTail ==
    ASSUME NEW T, NEW q \in Seq(T), q # <<>>
    PROVE  Head(q) \in T /\ Tail(q) \in Seq(T)
OBVIOUS

LEMMA MutateStep == IInv /\ Mutate => IInv'
<1> SUFFICES ASSUME IInv, Mutate  PROVE IInv'
  OBVIOUS
<1>1. PICK cmd : cmd = Head(cmds)
  OBVIOUS
<1>2. /\ cmd \in Commands /\ cmd.op \notin {"rotate", "start", "stop"}
      /\ cmds' \in Seq(Commands)
  BY <1>1, HeadTail DEF IInv, Queued, Mutate
<1>3. config' = Mutated(config, cmd) /\ snapshots' = Append(snapshots, config')
  BY <1>1 DEF Mutate, EmitConfig
<1>4. PICK d : d = config'
  OBVIOUS
<1>5. Good(d, typed', dropped')
  <2>1. Good(config, typed, dropped)
    BY DEF IInv
  <2>2. d = Mutated(config, cmd)
    BY <1>3, <1>4
  <2>3. /\ typed' = CASE cmd.op = "add_relay"    -> typed \cup {cmd.relay}
                      [] cmd.op = "remove_relay" -> typed \ {cmd.relay}
                      [] OTHER -> typed
        /\ dropped' = (IF cmd.op = "remove_relay" THEN dropped \cup {cmd.relay} ELSE dropped)
                        \ ToSet(d.relays)
    BY <1>1, <1>4 DEF Mutate, Observe
  <2>4. CASE cmd.op = "add_relay"
    <3>1. Good(d, typed \cup {cmd.relay}, dropped)
      BY <1>2, <2>1, <2>2, <2>4, MutatedIs
    <3>2. typed' = typed \cup {cmd.relay} /\ dropped' = dropped \ ToSet(d.relays)
      BY <2>3, <2>4
    <3> QED  BY <3>1, <3>2, GoodWithout
  <2>5. CASE cmd.op = "remove_relay"
    <3>1. Good(d, typed \ {cmd.relay}, dropped \cup {cmd.relay})
      BY <1>2, <2>1, <2>2, <2>5, MutatedIs
    <3>2. /\ typed' = typed \ {cmd.relay}
          /\ dropped' = (dropped \cup {cmd.relay}) \ ToSet(d.relays)
      BY <2>3, <2>5
    <3> QED  BY <3>1, <3>2, GoodWithout
  <2>6. CASE cmd.op \notin {"add_relay", "remove_relay"}
    <3>1. Good(d, typed, dropped)
      BY <1>2, <2>1, <2>2, <2>6, MutatedIs
    <3>2. typed' = typed /\ dropped' = dropped \ ToSet(d.relays)
      BY <2>3, <2>6
    <3> QED  BY <3>1, <3>2, GoodWithout
  <2> QED  BY <2>4, <2>5, <2>6
<1>6. snapshots' \in Seq(Configs) /\ fills' \in Seq(Shared)
  <2>1. d \in Configs
    BY <1>5, GoodConfig
  <2>2. snapshots \in Seq(Configs) /\ fills \in Seq(Shared)
    BY DEF IInv, Queued
  <2>3. snapshots' = Append(snapshots, d) /\ fills' = fills
    BY <1>3, <1>4 DEF Mutate, form
  <2> QED  BY <2>1, <2>2, <2>3
<1>7. OnScreen' /\ (minted \subseteq Minted)'
  <2>1. UNCHANGED <<view, pending, confirm, field, minted>>
    BY DEF Mutate, controller, form, bounds
  <2> QED  BY <2>1 DEF IInv, OnScreen
<1> QED  BY <1>2, <1>4, <1>5, <1>6, <1>7 DEF IInv, Queued

LEMMA RotateStep == IInv /\ RotateGroup => IInv'
<1> SUFFICES ASSUME IInv, RotateGroup  PROVE IInv'
  OBVIOUS
<1> DEFINE old == Head(cmds).key
           at  == IndexOf(config.groups, old)
<1>1. cmds' \in Seq(Commands)
  BY HeadTail DEF IInv, Queued, RotateGroup
<1>2. UNCHANGED <<view, pending, confirm, field, fills, typed, dropped>>
  BY DEF RotateGroup, controller, form
<1>3. OnScreen' /\ fills' \in Seq(Shared)
  BY <1>2 DEF IInv, OnScreen, Queued
<1>4. CASE at = 0
  <2>1. UNCHANGED <<config, snapshots, minted>>
    BY <1>4 DEF RotateGroup
  <2> QED  BY <1>1, <1>2, <1>3, <2>1 DEF IInv, Queued
<1>5. CASE at # 0
  <2>1. /\ minted # Minted /\ config' = Rotated(config, at, Fresh)
        /\ snapshots' = Append(snapshots, config') /\ minted' = minted \cup {Fresh}
    BY <1>5 DEF RotateGroup, EmitConfig
  <2>2. Good(config, typed, dropped) /\ minted \subseteq Minted
    BY DEF IInv
  <2>3. at \in DOMAIN config.groups
    BY <1>5, <2>2, GoodType, IndexOfGroup
  <2>4. Fresh \in Minted
    BY <2>1, <2>2, FreshIs
  <2> HIDE DEF at
  <2>5. PICK d : d = config'
    OBVIOUS
  <2>6. Good(d, typed', dropped')
    <3>1. Good(Rotated(config, at, Fresh), typed, dropped)
      BY <2>2, <2>3, <2>4, RotatedIs
    <3> QED  BY <1>2, <2>1, <2>5, <3>1
  <2>7. snapshots' \in Seq(Configs)
    <3>1. d \in Configs /\ snapshots \in Seq(Configs) /\ snapshots' = Append(snapshots, d)
      BY <2>1, <2>5, <2>6, GoodConfig DEF IInv, Queued
    <3> QED  BY <3>1
  <2>8. minted' \subseteq Minted
    BY <2>1, <2>2, <2>4
  <2> QED  BY <1>1, <1>3, <2>5, <2>6, <2>7, <2>8 DEF IInv, Queued
<1> QED  BY <1>4, <1>5

LEMMA ShareStep ==
    ASSUME IInv, StartShare \/ StopShare \/ PublishActive
    PROVE  IInv'
<1>1. UNCHANGED <<config, snapshots, view, pending, confirm, field, fills,
                  minted, typed, dropped>>
  BY DEF StartShare, StopShare, PublishActive, engine, controller, form, bounds, seen
<1>2. cmds' \in Seq(Commands)
  <2>1. cmds \in Seq(Commands)
    BY DEF IInv, Queued
  <2>2. cmds' = cmds \/ (cmds # <<>> /\ cmds' = Tail(cmds))
    BY DEF StartShare, StopShare, PublishActive
  <2> QED  BY <2>1, <2>2, HeadTail
<1> QED  BY <1>1, <1>2 DEF IInv, Queued, OnScreen

LEMMA ArrivalStep ==
    ASSUME IInv, OnConfig \/ Fill
    PROVE  IInv'
<1>1. UNCHANGED <<config, cmds, pending, confirm, minted, typed, dropped>>
  BY DEF OnConfig, Fill, engine, controller, form, bounds, seen
<1>2. snapshots \in Seq(Configs) /\ fills \in Seq(Shared)
  BY DEF IInv, Queued
<1>3. CASE OnConfig
  <2>1. view' \in Configs /\ snapshots' \in Seq(Configs)
    BY <1>2, <1>3, HeadTail DEF OnConfig
  <2>2. UNCHANGED <<field, fills>>
    BY <1>3 DEF OnConfig, form
  <2> QED  BY <1>1, <2>1, <2>2 DEF IInv, Queued, OnScreen
<1>4. CASE Fill
  <2>1. field' \in Shared /\ fills' \in Seq(Shared)
    BY <1>2, <1>4, HeadTail DEF Fill
  <2>2. UNCHANGED <<view, snapshots>>
    BY <1>4 DEF Fill, controller
  <2> QED  BY <1>1, <2>1, <2>2 DEF IInv, Queued, OnScreen
<1> QED  BY <1>3, <1>4

LEMMA OfferStep ==
    ASSUME IInv, NEW text \in Texts,
           OnIncomingInvite(text) \/ PasteInvite(text) \/ Type(text)
    PROVE  IInv'
<1>1. UNCHANGED <<config, cmds, snapshots, view, confirm, minted, typed, dropped>>
  BY DEF OnIncomingInvite, PasteInvite, Type, engine, controller, seen
<1>2. text \in Shared /\ Bare(text.key) \in Shared
  BY TextsShared
<1>3. fills' \in Seq(Shared)
  <2>1. fills \in Seq(Shared)
    BY DEF IInv, Queued
  <2>2. fills' = fills \/ fills' = Append(fills, Bare(text.key))
    BY DEF OnIncomingInvite, PasteInvite, Type
  <2> QED  BY <1>2, <2>1, <2>2
<1>4. field' \in Shared \cup {Nothing}
  <2>1. field' = field \/ field' = text
    BY DEF OnIncomingInvite, PasteInvite, Type
  <2> QED  BY <1>2, <2>1 DEF IInv, OnScreen
<1>5. pending' \in Stashes \cup {Nothing}
  <2>1. pending' = pending \/ pending' = ParseShared(text)
    BY DEF OnIncomingInvite, PasteInvite, Type, controller
  <2> QED  BY <1>2, <2>1, ParsedIs DEF IInv, OnScreen
<1> QED  BY <1>1, <1>3, <1>4, <1>5 DEF IInv, Queued, OnScreen

LEMMA SendIs ==
    ASSUME IInv, NEW cmd \in Commands, Send(cmd)
    PROVE  cmds' \in Seq(Commands)
<1>1. cmds \in Seq(Commands) /\ cmds' = Append(cmds, cmd)
  BY DEF IInv, Queued, Send
<1> QED  BY <1>1

LEMMA ImportStep == IInv /\ ImportGroup => IInv'
<1> SUFFICES ASSUME IInv, ImportGroup  PROVE IInv'
  OBVIOUS
<1>1. UNCHANGED <<config, snapshots, view, confirm, field, fills, minted, typed, dropped>>
  BY DEF ImportGroup, engine, form, seen
<1>2. pending' = Nothing /\ field \in Shared /\ pending \in Stashes \cup {Nothing}
  BY DEF ImportGroup, IInv, OnScreen
<1> DEFINE key    == field.key
           relays == InviteRelays(field.urls) \o StashedFor(key)
<1>3. key \in Key /\ key.public \in Publics /\ Honest(key.public, relays)
  <2>1. key \in Key /\ key.public \in Publics
    BY <1>2 DEF Shared, Key
  <2> QED  BY <1>2, <2>1, ImportHonest
<1>4. cmds' \in Seq(Commands)
  <2>1. \/ cmds' = cmds
        \/ key # NoKey /\ Send([op |-> "import", key |-> key, relays |-> relays])
        \/ Send([op |-> "merge", key |-> key.public, relays |-> relays])
    BY DEF ImportGroup
  <2> HIDE DEF key, relays
  <2>2. CASE cmds' = cmds
    BY <2>2 DEF IInv, Queued
  <2>3. CASE key # NoKey /\ Send([op |-> "import", key |-> key, relays |-> relays])
    <3>1. [op |-> "import", key |-> key, relays |-> relays] \in Imports
      BY <1>3, <2>3 DEF Imports, Honest
    <3> QED  BY <2>3, <3>1, SendIs DEF Commands
  <2>4. CASE Send([op |-> "merge", key |-> key.public, relays |-> relays])
    <3>1. [op |-> "merge", key |-> key.public, relays |-> relays] \in Merges
      BY <1>3 DEF Merges, Honest
    <3> QED  BY <2>4, <3>1, SendIs DEF Commands
  <2> QED  BY <2>1, <2>2, <2>3, <2>4
<1> QED  BY <1>1, <1>2, <1>4 DEF IInv, Queued, OnScreen

LEMMA CreateStep == IInv /\ CreateGroup => IInv'
<1> SUFFICES ASSUME IInv, CreateGroup  PROVE IInv'
  OBVIOUS
<1>1. UNCHANGED <<config, snapshots, view, pending, confirm, field, fills, typed, dropped>>
  BY DEF CreateGroup, engine, controller, form, seen
<1>2. Fresh \in Minted /\ minted' \subseteq Minted
  BY FreshIs DEF CreateGroup, IInv
<1>3. cmds' \in Seq(Commands)
  <2>1. Send([op |-> "create", key |-> Fresh])
    BY DEF CreateGroup
  <2>2. [op |-> "create", key |-> Fresh] \in Commands
    BY <1>2 DEF Commands
  <2> QED  BY <2>1, <2>2, SendIs
<1> QED  BY <1>1, <1>2, <1>3 DEF IInv, Queued, OnScreen

LEMMA ConfirmStep ==
    ASSUME IInv, AskConfirm \/ ConfirmAccepted
    PROVE  IInv'
<1>1. UNCHANGED <<config, snapshots, view, pending, field, fills, minted, typed, dropped>>
  BY DEF AskConfirm, ConfirmAccepted, engine, controller, form, bounds, seen
<1>2. view \in Configs \cup {Nothing} /\ confirm \in Confirms \cup {Nothing}
  BY DEF IInv, OnScreen
<1>3. CASE AskConfirm
  <2>1. cmds' = cmds
    BY <1>3 DEF AskConfirm
  <2>2. PICK g \in ViewGroups, op \in {"rotate", "delete"} :
            confirm' = [op |-> op, key |-> g.public]
    BY <1>3 DEF AskConfirm
  <2>3. g.public \in Publics
    BY <1>2, ViewIs
  <2>4. confirm' \in Confirms
    BY <2>2, <2>3 DEF Confirms
  <2> QED  BY <1>1, <2>1, <2>4 DEF IInv, Queued, OnScreen
<1>4. CASE ConfirmAccepted
  <2>1. confirm \in Commands /\ Send(confirm) /\ confirm' = Nothing
    BY <1>2, <1>4 DEF ConfirmAccepted, Commands
  <2>2. cmds' \in Seq(Commands)
    BY <2>1, SendIs
  <2> QED  BY <1>1, <2>1, <2>2 DEF IInv, Queued, OnScreen
<1> QED  BY <1>3, <1>4

LEMMA TapStep == IInv /\ Tap => IInv'
<1> SUFFICES ASSUME IInv, Tap  PROVE IInv'
  OBVIOUS
<1>1. UNCHANGED <<config, snapshots, view, pending, confirm, field, fills, minted, typed, dropped>>
  BY DEF Tap, engine, controller, form, seen
<1>2. /\ ToSet(ViewRelays) \subseteq Relays
      /\ \A g \in ViewGroups : g.public \in Publics /\ g.selected \in BOOLEAN
  BY ViewIs DEF IInv, OnScreen
<1>3. \E cmd \in Commands : Send(cmd)
  <2>1. CASE ToggleGroup
    <3>1. PICK g \in ViewGroups : Send([op |-> "toggle", key |-> g.public, on |-> ~g.selected])
      BY <2>1 DEF ToggleGroup
    <3>2. (~g.selected) \in BOOLEAN /\ g.public \in Publics
      BY <1>2
    <3>3. PICK on \in BOOLEAN : on = ~g.selected
      BY <3>2, Zenon
    <3>4. [op |-> "toggle", key |-> g.public, on |-> on] \in Commands
      BY <3>2 DEF Commands
    <3> QED  BY <3>1, <3>3, <3>4, Zenon
  <2>2. CASE EditRelays
    <3>1. CASE \E r \in Relays : Send([op |-> "add_relay", relay |-> r])
      <4>1. PICK r \in Relays : Send([op |-> "add_relay", relay |-> r])
        BY <3>1
      <4>2. [op |-> "add_relay", relay |-> r] \in Commands
        BY DEF Commands
      <4> QED  BY <4>1, <4>2
    <3>2. CASE \E r \in ToSet(ViewRelays) : Send([op |-> "remove_relay", relay |-> r])
      <4>1. PICK r \in Relays : Send([op |-> "remove_relay", relay |-> r])
        BY <1>2, <3>2
      <4>2. [op |-> "remove_relay", relay |-> r] \in Commands
        BY DEF Commands
      <4> QED  BY <4>1, <4>2
    <3> QED  BY <2>2, <3>1, <3>2 DEF EditRelays
  <2>3. CASE TapShare
    <3>1. [op |-> "start"] \in Commands /\ [op |-> "stop"] \in Commands
      BY DEF Commands
    <3> QED  BY <2>3, <3>1 DEF TapShare
  <2> QED  BY <2>1, <2>2, <2>3 DEF Tap
<1>4. cmds' \in Seq(Commands)
  BY <1>3, SendIs
<1> QED  BY <1>1, <1>4 DEF IInv, Queued, OnScreen

LEMMA Stuttering == IInv /\ UNCHANGED vars => IInv'
BY DEF IInv, Queued, OnScreen, vars, engine, controller, form, bounds, seen

LEMMA Inductive == Spec => []IInv
<1>1. IInv /\ [Next]_vars => IInv'
  <2> SUFFICES ASSUME IInv, [Next]_vars  PROVE IInv'
    OBVIOUS
  <2> QED  BY MutateStep, RotateStep, ShareStep, ArrivalStep, OfferStep, ImportStep,
              CreateStep, ConfirmStep, TapStep, Stuttering DEF Next
<1> QED  BY InitGood, <1>1, PTL DEF Spec

-----------------------------------------------------------------------------
(***************************************************************************)
(* Every config, saved, shown or on its way, lists relays and no relay     *)
(* twice, its groups have real keys; and every command on its way names    *)
(* things that exist, an import or a merge only relays of its own key.     *)
(***************************************************************************)
THEOREM TypeCorrect == Spec => [](Sound(config) /\ Queued /\ OnScreen)
<1>1. IInv => Sound(config) /\ Queued /\ OnScreen
  BY DEF IInv, Good
<1> QED  BY <1>1, Inductive, PTL

(***************************************************************************)
(* A relay the user added by hand stays until the user removes it: no      *)
(* deletion of a group prunes it, whatever invites brought it before or    *)
(* after (add_relay, prune_auto_relays).                                   *)
(***************************************************************************)
THEOREM ManualRelaysKept == Spec => []ManualKept
<1>1. IInv => ManualKept
  BY DEF IInv, Good, Manual, ManualKept
<1> QED  BY <1>1, Inductive, PTL

(***************************************************************************)
(* Every relay of a group on the device is in the relay list or was        *)
(* removed by the user, for any number of groups that share relays and any *)
(* order of imports, merges, rotations and deletions.                      *)
(***************************************************************************)
THEOREM GroupsReachable == Spec => []ReachesItsRelays
<1>1. IInv => ReachesItsRelays
  <2> SUFFICES ASSUME IInv, NEW i \in DOMAIN config.groups
               PROVE  ToSet(config.groups[i].relays) \subseteq ToSet(config.relays) \cup dropped
    BY DEF ReachesItsRelays
  <2>1. config.groups[i] \in ToSet(config.groups)
    BY DEF ToSet
  <2> QED  BY <2>1 DEF IInv, Good, Reaches
<1> QED  BY <1>1, Inductive, PTL

(***************************************************************************)
(* A group's relays come from invites for its own key, although the stash  *)
(* of a scan may be of another group than the form (handle_import_group).  *)
(***************************************************************************)
THEOREM RelaysFromOwnInvites == Spec => []ProvenanceHonest
<1>1. IInv => ProvenanceHonest
  <2> SUFFICES ASSUME IInv, NEW i \in DOMAIN config.groups,
                      config.groups[i].public \notin Minted
               PROVE  ToSet(config.groups[i].relays) \subseteq Carried(config.groups[i].public)
    BY DEF ProvenanceHonest
  <2>1. config.groups \in Seq(SoundGroups)
    BY DEF IInv, Good, Sound
  <2>2. config.groups[i] \in SoundGroups
    BY <2>1
  <2> QED  BY <2>2, SoundGroupIs
<1> QED  BY <1>1, Inductive, PTL

(***************************************************************************)
(* What a device puts into an invite, the device that imports it gets out, *)
(* relay for relay and in the same order: building takes the first of the  *)
(* list, and parsing neither drops, merges nor reorders any of them.       *)
(***************************************************************************)
THEOREM InvitesRoundTrip == Spec => []InviteRoundTrips
<1>1. ASSUME IInv, NEW i \in DOMAIN config.groups
      PROVE  LET made == BuildInvite(GroupShare(config, config.groups[i]))
                 read == ParseShared(made)
             IN  /\ read = [key |-> made.key, relays |-> InviteRelaysOf(config)]
                 /\ AddImportedGroup([relays |-> <<>>, auto |-> {}, groups |-> <<>>],
                                     read.key, read.relays).relays = InviteRelaysOf(config)
  <2> DEFINE g == config.groups[i]
             q == InviteRelaysOf(config)
             key == [public |-> g.public, secret |-> g.secret]
             empty == [relays |-> <<>>, auto |-> {}, groups |-> <<>>]
  <2>1. /\ config.relays \in Seq(Relays) /\ IsInjective(config.relays)
        /\ config.groups \in Seq(SoundGroups) /\ MaxInviteRelays \in Nat
    BY <1>1, GroupsAssumption DEF IInv, Good, Sound
  <2>2. key # NoKey
    BY <1>1, <2>1, SoundGroupIs
  <2>3. q \in Seq(Relays) /\ IsInjective(q) /\ Len(q) <= MaxInviteRelays
    BY <2>1, FirstIs DEF InviteRelaysOf
  <2> HIDE DEF q
  <2>4. First(q, MaxInviteRelays) = q /\ InviteRelays(q) = q
    BY <2>1, <2>3, FirstIs, InviteRelaysIs, RelaysAreUrls
  <2>5. BuildInvite(GroupShare(config, g)) = [key |-> key, urls |-> q]
    BY <2>4 DEF BuildInvite, GroupShare, SharedKey, q
  <2> HIDE DEF key, g
  <2>6. ParseShared([key |-> key, urls |-> q]) = [key |-> key, relays |-> q]
    BY <2>2, <2>4 DEF ParseShared
  <2>7. AddImportedGroup(empty, key, q).relays = q
    <3>1. Without(q, ToSet(<<>>)) = q
      <4>1. ToSet(<<>>) = {}
        BY DEF ToSet
      <4> QED  BY <2>3, <4>1, WithoutIs
    <3>2. AbsorbRelays(empty, q).relays = <<>> \o q /\ <<>> \o q = q
      BY <2>3, <3>1 DEF AbsorbRelays
    <3>3. AddImportedGroup(empty, key, q).relays = AbsorbRelays(empty, q).relays
      BY <2>4 DEF AddImportedGroup, AbsorbRelays
    <3> QED  BY <3>2, <3>3
  <2> HIDE DEF empty
  <2> QED  BY <2>5, <2>6, <2>7 DEF g, q, empty
<1>2. IInv => InviteRoundTrips
  BY <1>1 DEF InviteRoundTrips
<1> QED  BY <1>2, Inductive, PTL
-----------------------------------------------------------------------------
(***************************************************************************)
(* The live map.  Its view and its cache are as well formed as the code    *)
(* takes them to be: every tile there is a slot for, or a fetch, exists.   *)
(* What keeps the cache sound are the fetches on their way, which the      *)
(* invariant therefore counts; what tiles the window are the powers of two *)
(* that divide the world.                                                  *)
(***************************************************************************)

(* Tiles *)

(* The number of tiles to a side. *)
LEMMA TilesAtIs ==
    /\ TilesAt[0] = 1
    /\ \A z \in 1..MaxZoom : TilesAt[z] = 2 * TilesAt[z - 1]
    /\ \A z \in 0..MaxZoom : TilesAt[z] \in Nat \ {0}
<1> DEFINE D == Nat \ {0}
           At(f, z) == IF z = 0 THEN 1 ELSE 2 * f[z - 1]
           Is(f) == f = [z \in 0..MaxZoom |-> At(f, z)]
           one == 1
           step == [p \in (1..MaxZoom) \X D |-> 2 * p[2]]
<1>0. MaxZoom \in Nat
  BY LiveMapAssumption DEF LiveMapAssumption
<1>1. \E f : Is(f)
  <2>1. step \in [(1..MaxZoom) \X D -> D] /\ one \in D
    OBVIOUS
  <2>2. PICK f \in [0..MaxZoom -> D] : StepsFrom(f, one, step, MaxZoom)
    <3> HIDE DEF D, step, one
    <3> QED  BY <1>0, <2>1, Stepwise
  <2>3. ASSUME NEW z \in 0..MaxZoom  PROVE f[z] = At(f, z)
    <3>1. CASE z = 0
      BY <2>2, <3>1 DEF StepsFrom
    <3>2. CASE z # 0
      <4>1. z \in 1..MaxZoom /\ z - 1 \in 0..MaxZoom /\ f[z - 1] \in D
        BY <1>0, <3>2
      <4>2. f[z] = step[<<z, f[z - 1]>>] /\ <<z, f[z - 1]>> \in (1..MaxZoom) \X D
        BY <2>2, <4>1 DEF StepsFrom
      <4>3. step[<<z, f[z - 1]>>] = 2 * f[z - 1]
        BY <4>2
      <4> QED  BY <3>2, <4>2, <4>3
    <3> QED  BY <3>1, <3>2
  <2>4. f = [z \in 0..MaxZoom |-> f[z]]
    BY <2>2
  <2> HIDE DEF At
  <2> QED  BY <2>3, <2>4
<1>2. Is(TilesAt)
  <2>1. TilesAt = CHOOSE f : Is(f)
    BY DEF TilesAt
  <2> HIDE DEF Is
  <2> QED  BY <1>1, <2>1, Zenon
<1>3. \A z \in 0..MaxZoom : TilesAt[z] = At(TilesAt, z)
  <2> HIDE DEF At
  <2> QED  BY <1>2
<1>4. TilesAt[0] = 1 /\ \A z \in 1..MaxZoom : TilesAt[z] = 2 * TilesAt[z - 1]
  BY <1>0, <1>3
<1>5. \A z \in 0..MaxZoom : TilesAt[z] \in D
  <2> DEFINE S == {z \in 0..MaxZoom : TilesAt[z] \in D}
  <2>1. 0 \in S
    BY <1>0, <1>4
  <2>2. ASSUME NEW n \in 1..MaxZoom, n - 1 \in S  PROVE n \in S
    BY <1>0, <1>4, <2>2
  <2>3. \A n \in 0..MaxZoom : n \in S
    <3> HIDE DEF S
    <3> QED  BY <1>0, <2>1, <2>2, UpTo
  <2> QED  BY <2>3
<1> QED  BY <1>4, <1>5

(* A tile of zoom z and one of the whole world: as many to a side as zooms lie between. *)
LEMMA TilesCompose ==
    \A z \in 0..MaxZoom : TilesAt[z] * TilesAt[MaxZoom - z] = TilesAt[MaxZoom]
<1> DEFINE S == {z \in 0..MaxZoom : TilesAt[z] * TilesAt[MaxZoom - z] = TilesAt[MaxZoom]}
<1>0. MaxZoom \in Nat
  BY LiveMapAssumption DEF LiveMapAssumption
<1>1. 0 \in S
  <2>1. 0 \in 0..MaxZoom /\ MaxZoom - 0 = MaxZoom /\ MaxZoom \in 0..MaxZoom
    BY <1>0
  <2>2. TilesAt[0] = 1 /\ TilesAt[MaxZoom] \in Nat
    BY <2>1, TilesAtIs
  <2> QED  BY <2>1, <2>2
<1>2. ASSUME NEW z \in 1..MaxZoom, z - 1 \in S  PROVE z \in S
  <2>1. MaxZoom - z \in 0..MaxZoom /\ MaxZoom - (z - 1) \in 1..MaxZoom
        /\ MaxZoom - (z - 1) - 1 = MaxZoom - z /\ z - 1 \in 0..MaxZoom
    BY <1>0
  <2> DEFINE a == TilesAt[z - 1]
             b == TilesAt[MaxZoom - z]
  <2>2. TilesAt[z] = 2 * a /\ TilesAt[MaxZoom - (z - 1)] = 2 * b /\ a \in Nat /\ b \in Nat
    BY <2>1, TilesAtIs
  <2>3. a * (2 * b) = TilesAt[MaxZoom]
    BY <1>2, <2>2
  <2>4. (2 * a) * b = a * (2 * b)
    <3> HIDE DEF a, b
    <3> QED  BY <2>2
  <2> QED  BY <1>0, <2>2, <2>3, <2>4
<1>3. \A z \in 0..MaxZoom : z \in S
  <2> HIDE DEF S
  <2> QED  BY <1>0, <1>1, <1>2, UpTo
<1> QED  BY <1>3

-----------------------------------------------------------------------------
(* The cache *)

(* The tiles there are. *)
TileIds ==
    UNION {[z: {z}, x: 0..(TilesAt[z] - 1), y: 0..(TilesAt[z] - 1)] : z \in MinZoom..MaxZoom}

Slots   == UNION {[S -> {Loading, Loaded, Failed}] : S \in SUBSET TileIds}
Fetches == UNION {[S -> Nat \ {0}] : S \in SUBSET TileIds}
Caches  == [slots: Slots, order: Seq(TileIds)]

(* IndexesAgree and LoadingIsFetched of any cache. *)
InStep(c) ==
    /\ Len(c.order) <= CacheCap
    /\ ToSet(c.order) = DOMAIN c.slots
    /\ IsInjective(c.order)
Awaited(c, b) == \A id \in DOMAIN c.slots : c.slots[id] = Loading => BagIn(id, b)

Found == {f \in [cache: Caches, fetch: Fetches] :
             InStep(f.cache) /\ Awaited(f.cache, f.fetch)}

(* Functions with some tiles for a domain. *)
LEMMA SlotsAre ==
    /\ \A s \in Slots : /\ DOMAIN s \subseteq TileIds /\ s = [id \in DOMAIN s |-> s[id]]
                        /\ \A id \in DOMAIN s : s[id] \in {Loading, Loaded, Failed}
    /\ \A S \in SUBSET TileIds : [S -> {Loading, Loaded, Failed}] \subseteq Slots
BY DEF Slots

LEMMA FetchesAre ==
    /\ \A b \in Fetches : /\ DOMAIN b \subseteq TileIds /\ b = [id \in DOMAIN b |-> b[id]]
                          /\ \A id \in DOMAIN b : b[id] \in Nat \ {0}
    /\ \A S \in SUBSET TileIds : [S -> Nat \ {0}] \subseteq Fetches
BY DEF Fetches

(* One more fetch, and one less: the others stay on their way. *)
LEMMA FetchAdded ==
    ASSUME NEW b \in Fetches, NEW id \in TileIds
    PROVE  LET b2 == b (+) SetToBag({id})
           IN  b2 \in Fetches /\ \A i : BagIn(i, b2) <=> i = id \/ BagIn(i, b)
<1> DEFINE b2 == b (+) SetToBag({id})
           S == DOMAIN b \cup {id}
           new == [i \in S |-> (IF i \in DOMAIN b THEN b[i] ELSE 0)
                                 + (IF i \in {id} THEN 1 ELSE 0)]
<1>1. DOMAIN b \subseteq TileIds /\ \A i \in DOMAIN b : b[i] \in Nat \ {0}
  BY FetchesAre
<1>2. b2 = new
  BY DEF (+), SetToBag
<1>3. new \in [S -> Nat \ {0}]
  BY <1>1
<1>4. S \in SUBSET TileIds /\ S = DOMAIN new
  BY <1>1
<1>5. new \in Fetches
  <2> HIDE DEF new, S
  <2> QED  BY <1>3, <1>4, FetchesAre
<1>6. \A i : BagIn(i, b2) <=> i = id \/ BagIn(i, b)
  BY <1>2, <1>4 DEF BagIn, BagToSet
<1> QED  BY <1>2, <1>5, <1>6

LEMMA FetchTaken ==
    ASSUME NEW b \in Fetches, NEW id
    PROVE  LET b2 == b (-) SetToBag({id})
           IN  b2 \in Fetches /\ \A i : i # id /\ BagIn(i, b) => BagIn(i, b2)
<1> DEFINE b2 == b (-) SetToBag({id})
           B == [i \in DOMAIN b |-> IF i \in {id} THEN b[i] - 1 ELSE b[i]]
           S == {i \in DOMAIN b : B[i] > 0}
           new == [i \in S |-> B[i]]
<1>1. DOMAIN b \subseteq TileIds /\ \A i \in DOMAIN b : b[i] \in Nat \ {0}
  BY FetchesAre
<1>2. b2 = new
  BY <1>1 DEF (-), SetToBag
<1>3. new \in [S -> Nat \ {0}] /\ S \in SUBSET TileIds /\ S = DOMAIN new
  BY <1>1
<1>4. new \in Fetches
  <2> HIDE DEF new, S
  <2> QED  BY <1>3, FetchesAre
<1>5. ASSUME NEW i, i # id, BagIn(i, b)  PROVE BagIn(i, b2)
  <2>1. i \in DOMAIN b /\ B[i] = b[i]
    BY <1>5 DEF BagIn, BagToSet
  <2>2. i \in DOMAIN b2
    <3> HIDE DEF B
    <3> QED  BY <1>1, <1>2, <1>3, <2>1
  <2> QED  BY <2>2 DEF BagIn, BagToSet
<1> QED  BY <1>2, <1>4, <1>5

(* Eviction drops the oldest tile from both. *)
LEMMA EvictedIs ==
    ASSUME NEW c \in Caches, Len(c.order) <= CacheCap + 1,
           ToSet(c.order) = DOMAIN c.slots, IsInjective(c.order)
    PROVE  /\ Evicted(c) \in Caches /\ InStep(Evicted(c))
           /\ \A i \in DOMAIN Evicted(c).slots :
                  i \in DOMAIN c.slots /\ Evicted(c).slots[i] = c.slots[i]
<1>0. CacheCap \in Nat /\ Len(c.order) \in Nat /\ c.slots \in Slots /\ c.order \in Seq(TileIds)
  BY LiveMapAssumption DEF LiveMapAssumption, Caches
<1>1. CASE Len(c.order) <= CacheCap
  BY <1>1 DEF Evicted, InStep
<1>2. CASE ~(Len(c.order) <= CacheCap)
  <2> DEFINE S == DOMAIN c.slots \ {Head(c.order)}
             kept == [i \in S |-> c.slots[i]]
             rest == Tail(c.order)
  <2>1. Evicted(c) = [slots |-> kept, order |-> rest]
    BY <1>2 DEF Evicted, Restrict
  <2>2. /\ rest \in Seq(TileIds) /\ Len(rest) = Len(c.order) - 1
        /\ ToSet(rest) = S /\ IsInjective(rest)
    <3>1. Len(c.order) > 0
      BY <1>0, <1>2
    <3> QED  BY <1>0, <3>1, TailIs
  <2>3. kept \in Slots
    <3>1. S \in SUBSET TileIds /\ kept \in [S -> {Loading, Loaded, Failed}]
      BY <1>0, SlotsAre
    <3> HIDE DEF S, kept
    <3> QED  BY <3>1, SlotsAre
  <2>4. Len(rest) <= CacheCap
    BY <1>0, <2>2
  <2>5. DOMAIN kept = S /\ \A i \in S : i \in DOMAIN c.slots /\ kept[i] = c.slots[i]
    OBVIOUS
  <2> HIDE DEF S, kept, rest
  <2> QED  BY <2>1, <2>2, <2>3, <2>4, <2>5 DEF Caches, InStep
<1> QED  BY <1>1, <1>2

(* An insertion leaves the cache in step and every other slot as it is, or drops it. *)
LEMMA InsertIs ==
    ASSUME NEW c \in Caches, InStep(c), NEW id \in TileIds,
           NEW slot \in {Loading, Loaded, Failed}
    PROVE  LET new == Insert(c, id, slot)
           IN  /\ new \in Caches /\ InStep(new)
               /\ \A i \in DOMAIN new.slots :
                      \/ i = id /\ new.slots[i] = slot
                      \/ i # id /\ i \in DOMAIN c.slots /\ new.slots[i] = c.slots[i]
<1> DEFINE S == DOMAIN c.slots \cup {id}
           slots == [i \in S |-> IF i = id THEN slot ELSE c.slots[i]]
           row == IF id \in DOMAIN c.slots THEN c.order ELSE Append(c.order, id)
           fresh == [slots |-> slots, order |-> row]
<1>1. Insert(c, id, slot) = Evicted(fresh)
  BY DEF Insert
<1>2. c.slots \in Slots /\ c.order \in Seq(TileIds) /\ CacheCap \in Nat /\ Len(c.order) \in Nat
  BY LiveMapAssumption DEF LiveMapAssumption, Caches
<1>3. slots \in Slots /\ DOMAIN slots = S
  <2>1. S \in SUBSET TileIds /\ slots \in [S -> {Loading, Loaded, Failed}]
    BY <1>2, SlotsAre
  <2> HIDE DEF S, slots
  <2> QED  BY <2>1, SlotsAre
<1>4. row \in Seq(TileIds) /\ Len(row) <= CacheCap + 1 /\ ToSet(row) = S /\ IsInjective(row)
  <2>1. CASE id \in DOMAIN c.slots
    BY <1>2, <2>1 DEF InStep
  <2>2. CASE id \notin DOMAIN c.slots
    BY <1>2, <2>2, AppendIs DEF InStep
  <2> QED  BY <2>1, <2>2
<1>5. \A i \in S : \/ i = id /\ slots[i] = slot
                   \/ i # id /\ i \in DOMAIN c.slots /\ slots[i] = c.slots[i]
  OBVIOUS
<1> HIDE DEF S, slots, row
<1>6. fresh \in Caches
  BY <1>3, <1>4 DEF Caches
<1>7. fresh.slots = slots /\ fresh.order = row
  OBVIOUS
<1> HIDE DEF fresh
<1> QED  BY <1>1, <1>3, <1>4, <1>5, <1>6, <1>7, EvictedIs

(* What is marked as Loading is fetched. *)
LEMMA MarkedIs ==
    ASSUME NEW f \in Found, NEW id \in TileIds
    PROVE  Marked(f, id) \in Found
<1>1. f.cache \in Caches /\ f.fetch \in Fetches /\ InStep(f.cache) /\ Awaited(f.cache, f.fetch)
  BY DEF Found
<1>2. CASE id \in DOMAIN f.cache.slots
  BY <1>2 DEF Marked
<1>3. CASE id \notin DOMAIN f.cache.slots
  <2> DEFINE c == Insert(f.cache, id, Loading)
             b == f.fetch (+) SetToBag({id})
  <2>1. /\ c \in Caches /\ InStep(c)
        /\ \A i \in DOMAIN c.slots :
               i = id \/ (i \in DOMAIN f.cache.slots /\ c.slots[i] = f.cache.slots[i])
    BY <1>1, InsertIs
  <2>2. b \in Fetches /\ \A i : BagIn(i, b) <=> i = id \/ BagIn(i, f.fetch)
    BY <1>1, FetchAdded
  <2>3. Marked(f, id) = [cache |-> c, fetch |-> b]
    BY <1>3 DEF Marked
  <2> HIDE DEF c, b
  <2>4. Awaited(c, b)
    BY <1>1, <2>1, <2>2 DEF Awaited
  <2> QED  BY <2>1, <2>2, <2>3, <2>4 DEF Found
<1> QED  BY <1>2, <1>3

(* The recursive function in Refreshed is one. *)
LEMMA MarkedInTurn ==
    ASSUME NEW N \in Nat, NEW ids \in [1..N -> TileIds], NEW found \in Found
    PROVE  \E f : f = [n \in 0..N |-> IF n = 0 THEN found ELSE Marked(f[n - 1], ids[n])]
<1> DEFINE At(f, n) == IF n = 0 THEN found ELSE Marked(f[n - 1], ids[n])
           step == [p \in (1..N) \X Found |-> Marked(p[2], ids[p[1]])]
<1>1. step \in [(1..N) \X Found -> Found]
  <2>1. \A p \in (1..N) \X Found : Marked(p[2], ids[p[1]]) \in Found
    BY MarkedIs
  <2> QED  BY <2>1
<1>2. PICK f \in [0..N -> Found] : StepsFrom(f, found, step, N)
  <2> HIDE DEF step
  <2> QED  BY <1>1, Stepwise
<1>3. ASSUME NEW n \in 0..N  PROVE f[n] = At(f, n)
  <2>1. CASE n = 0
    BY <1>2, <2>1 DEF StepsFrom
  <2>2. CASE n # 0
    <3>1. n \in 1..N /\ n - 1 \in 0..N /\ f[n - 1] \in Found
      BY <1>2, <2>2
    <3>2. <<n, f[n - 1]>> \in (1..N) \X Found
      BY <3>1
    <3>3. step[<<n, f[n - 1]>>] = Marked(f[n - 1], ids[n])
      BY <3>2
    <3> QED  BY <1>2, <2>2, <3>1, <3>3 DEF StepsFrom
  <2> QED  BY <2>1, <2>2
<1>4. f = [n \in 0..N |-> f[n]]
  BY <1>2
<1>5. f = [n \in 0..N |-> At(f, n)]
  <2> HIDE DEF At
  <2> QED  BY <1>3, <1>4
<1> QED  BY <1>5

(* A whole refresh keeps the cache in step and every Loading slot fetched. *)
LEMMA RefreshedIs ==
    ASSUME NEW found \in Found, NEW asked, Len(asked) \in Nat,
           \A n \in 1..Len(asked) : asked[n].id \in TileIds
    PROVE  Refreshed(found, asked) \in Found
<1> DEFINE N == Len(asked)
           ids == [n \in 1..N |-> asked[n].id]
           At(f, n) == IF n = 0 THEN found ELSE Marked(f[n - 1], asked[n].id)
           Is(f) == f = [n \in 0..N |-> At(f, n)]
           done == CHOOSE f : Is(f)
<1>1. Refreshed(found, asked) = done[N]
  BY DEF Refreshed
<1>2. N \in Nat /\ ids \in [1..N -> TileIds]
  OBVIOUS
<1>3. PICK f : f = [n \in 0..N |-> IF n = 0 THEN found ELSE Marked(f[n - 1], ids[n])]
  <2> HIDE DEF ids
  <2> QED  BY <1>2, MarkedInTurn
<1>4. Is(f)
  <2>1. \A n \in 0..N : n # 0 => n \in 1..N /\ ids[n] = asked[n].id
    OBVIOUS
  <2> HIDE DEF ids
  <2> QED  BY <1>3, <2>1
<1>5. Is(done)
  <2> HIDE DEF Is
  <2> QED  BY <1>4, Zenon
<1> HIDE DEF done
<1>6. done[0] = found /\ \A n \in 1..N : done[n] = Marked(done[n - 1], asked[n].id)
  <2>1. \A n \in 0..N : done[n] = At(done, n)
    <3> HIDE DEF At
    <3> QED  BY <1>5
  <2>2. 0 \in 0..N /\ \A n \in 1..N : n \in 0..N /\ n # 0
    OBVIOUS
  <2> QED  BY <2>1, <2>2
<1> DEFINE S == {n \in 0..N : done[n] \in Found}
<1>7. 0 \in S /\ \A n \in 1..N : n - 1 \in S => n \in S
  BY <1>6, MarkedIs
<1>8. \A n \in 0..N : n \in S
  <2> HIDE DEF S
  <2> QED  BY <1>7, UpTo
<1> QED  BY <1>1, <1>8

(* What is left on reopening. *)
LEMMA RetainedIs ==
    ASSUME NEW c \in Caches, InStep(c)
    PROVE  LET new == RetainLoaded(c)
           IN  /\ new \in Caches /\ InStep(new)
               /\ \A id \in DOMAIN new.slots : new.slots[id] = Loaded
<1> DEFINE kept == {id \in DOMAIN c.slots : c.slots[id] = Loaded}
           slots == [id \in kept |-> c.slots[id]]
           I == {i \in DOMAIN c.order : c.order[i] \in kept}
           row == Keep(c.order, I)
<1>1. RetainLoaded(c) = [slots |-> slots, order |-> row]
  BY DEF RetainLoaded, Restrict
<1>2. c.slots \in Slots /\ c.order \in Seq(TileIds)
  BY DEF Caches
<1>3. slots \in Slots /\ DOMAIN slots = kept
  <2>1. kept \in SUBSET TileIds /\ slots \in [kept -> {Loading, Loaded, Failed}]
    BY <1>2, SlotsAre
  <2> HIDE DEF kept, slots
  <2> QED  BY <2>1, SlotsAre
<1>4. I \subseteq DOMAIN c.order /\ \A i, j \in I : c.order[i] = c.order[j] => i = j
  BY DEF InStep, IsInjective
<1>5. row \in Seq(TileIds) /\ Len(row) <= Len(c.order) /\ IsInjective(row)
      /\ ToSet(row) = {c.order[i] : i \in I}
  <2> HIDE DEF I
  <2> QED  BY <1>2, <1>4, KeepIs
<1>6. {c.order[i] : i \in I} = kept
  BY DEF InStep, ToSet
<1>7. \A id \in kept : slots[id] = Loaded
  OBVIOUS
<1>8. Len(row) <= CacheCap
  <2>1. Len(c.order) \in Nat /\ Len(row) \in Nat /\ CacheCap \in Nat /\ Len(c.order) <= CacheCap
    BY <1>2, <1>5, LiveMapAssumption DEF LiveMapAssumption, InStep
  <2> HIDE DEF row
  <2> QED  BY <1>5, <2>1
<1> DEFINE new == [slots |-> slots, order |-> row]
<1> HIDE DEF kept, slots, I, row
<1>9. new.slots = slots /\ new.order = row /\ new \in Caches
  BY <1>3, <1>5 DEF Caches
<1> HIDE DEF new
<1>10. InStep(new)
  BY <1>3, <1>5, <1>6, <1>8, <1>9 DEF InStep
<1>11. \A id \in DOMAIN new.slots : new.slots[id] = Loaded
  BY <1>3, <1>7, <1>9
<1> QED  BY <1>1, <1>9, <1>10, <1>11 DEF new

-----------------------------------------------------------------------------
(* The view *)

(* Multiplication keeps the order. *)
LEMMA Scaled ==
    ASSUME NEW a \in Int, NEW b \in Int, NEW w \in Nat, a <= b
    PROVE  a * w <= b * w
<1>1. \E d \in Nat : b = a + d
  <2>1. b - a \in Nat /\ b = a + (b - a)
    OBVIOUS
  <2> QED  BY <2>1
<1>2. PICK d \in Nat : b = a + d
  BY <1>1
<1>3. b * w = a * w + d * w /\ d * w \in Nat /\ a * w \in Int
  BY <1>2
<1> QED  BY <1>3

(* Division and remainder, of a negative number as well. *)
LEMMA DivIs ==
    ASSUME NEW a \in Int, NEW w \in Nat \ {0}
    PROVE  /\ a \div w \in Int /\ a % w \in 0..(w - 1)
           /\ (a \div w) * w <= a /\ a < (a \div w) * w + w
           /\ a % w = a - w * (a \div w)
<1>1. a \div w \in Int /\ a % w \in 0..(w - 1)
  OBVIOUS
<1>2. (a \div w) * w <= a /\ a < (a \div w) * w + w
  OBVIOUS
<1>3. a % w = a - w * (a \div w)
  OBVIOUS
<1> QED  BY <1>1, <1>2, <1>3

(* The quotient is the only one with a remainder below the divisor. *)
LEMMA DivUnique ==
    ASSUME NEW a \in Int, NEW w \in Nat \ {0}, NEW q \in Int,
           q * w <= a, a < q * w + w
    PROVE  q = a \div w
<1> DEFINE p == a \div w
<1>1. p \in Int /\ p * w <= a /\ a < p * w + w /\ p * w \in Int /\ q * w \in Int
  BY DivIs
<1> HIDE DEF p
<1>2. ASSUME NEW i \in Int, NEW j \in Int, i + 1 <= j, j * w <= a, a < i * w + w  PROVE FALSE
  <2>1. (i + 1) * w <= j * w /\ (i + 1) * w = i * w + w /\ i * w \in Int /\ j * w \in Int
    BY <1>2, Scaled
  <2> QED  BY <1>2, <2>1
<1>3. ~(p + 1 <= q) /\ ~(q + 1 <= p)
  BY <1>1, <1>2
<1>4. p = q
  BY <1>1, <1>3
<1> QED  BY <1>4 DEF p

(* Division keeps the order. *)
LEMMA DivMonotone ==
    ASSUME NEW a \in Int, NEW b \in Int, NEW w \in Nat \ {0}, a <= b
    PROVE  a \div w <= b \div w
<1> DEFINE p == a \div w
           q == b \div w
<1>1. p \in Int /\ q \in Int /\ p * w <= a /\ b < q * w + w
  BY DivIs
<1> HIDE DEF p, q
<1>2. ASSUME q + 1 <= p  PROVE FALSE
  <2>1. (q + 1) * w <= p * w /\ (q + 1) * w = q * w + w /\ p * w \in Int /\ q * w \in Int
    BY <1>1, <1>2, Scaled
  <2> QED  BY <1>1, <2>1
<1>3. p <= q
  BY <1>1, <1>2
<1> QED  BY <1>3 DEF p, q

(* Counting row by row: k stands in row (k \div w), at place (k % w). *)
LEMMA RowsCount ==
    ASSUME NEW w \in Nat \ {0}, NEW r \in Int
    PROVE  /\ \A k \in Int : 0 <= k /\ k < w * r => k \div w \in 0..(r - 1)
           /\ \A i \in 0..(w - 1), j \in 0..(r - 1) :
                  /\ j * w + i \in 0..(w * r - 1)
                  /\ (j * w + i) \div w = j /\ (j * w + i) % w = i
<1>1. ASSUME NEW k \in Int, 0 <= k, k < w * r  PROVE k \div w \in 0..(r - 1)
  <2> DEFINE q == k \div w
  <2>1. q \in Int /\ q * w <= k /\ k < q * w + w
    BY DivIs
  <2> HIDE DEF q
  <2>2. ASSUME q <= -1  PROVE FALSE
    <3>1. q * w <= (-1) * w /\ (-1) * w = -w /\ q * w \in Int
      BY <2>1, <2>2, Scaled
    <3> QED  BY <1>1, <2>1, <3>1
  <2>3. ASSUME r <= q  PROVE FALSE
    <3>1. r * w <= q * w /\ r * w = w * r /\ q * w \in Int /\ r * w \in Int
      BY <2>1, <2>3, Scaled
    <3> QED  BY <1>1, <2>1, <3>1
  <2>4. 0 <= q /\ q <= r - 1
    BY <2>1, <2>2, <2>3
  <2> QED  BY <2>1, <2>4 DEF q
<1>2. ASSUME NEW i \in 0..(w - 1), NEW j \in 0..(r - 1)
      PROVE  /\ j * w + i \in 0..(w * r - 1)
             /\ (j * w + i) \div w = j /\ (j * w + i) % w = i
  <2>1. j \in Nat /\ i \in Nat /\ j <= r - 1 /\ i <= w - 1 /\ j * w \in Nat
    OBVIOUS
  <2>2. j * w <= (r - 1) * w /\ (r - 1) * w = w * r - w /\ w * r \in Int
    BY <2>1, Scaled
  <2>3. j * w + i \in 0..(w * r - 1)
    BY <2>1, <2>2
  <2>4. j = (j * w + i) \div w
    <3>1. PICK a \in Nat : a = j * w + i
      BY <2>1
    <3>2. j * w <= a /\ a < j * w + w
      BY <2>1, <3>1
    <3> QED  BY <2>1, <3>1, <3>2, DivUnique
  <2>5. (j * w + i) % w = i
    <3>1. PICK a \in Nat : a = j * w + i
      BY <2>1
    <3>2. a % w = a - w * j
      <4>1. a \div w = j
        BY <2>4, <3>1
      <4>2. a % w = a - w * (a \div w)
        BY <3>1
      <4> QED  BY <4>1, <4>2
    <3>3. PICK p \in Nat : p = j * w /\ w * j = p
      BY <2>1
    <3>4. a % w = a - p /\ a = p + i
      BY <3>1, <3>2, <3>3
    <3> QED  BY <2>1, <3>1, <3>4
  <2> QED  BY <2>3, <2>4, <2>5
<1> QED  BY <1>1, <1>2

(* The views there are: a zoom in range, a centre on the world in y. *)
Views ==
    [open: BOOLEAN, x: Int, y: 0..World, zoom: MinZoom..MaxZoom, w: Nat, h: Nat]

LEMMA ZoomIs ==
    ASSUME NEW z \in MinZoom..MaxZoom
    PROVE  /\ z \in 0..MaxZoom /\ TilesAt[z] \in Nat \ {0}
           /\ Scale(z) \in Nat \ {0} /\ TileWidth(z) \in Nat \ {0}
           /\ World = TilesAt[z] * TileWidth(z) /\ World \in Nat \ {0}
           /\ \A side \in Nat : Reach(side, z) \in Nat
<1>0. MinZoom \in Nat /\ MaxZoom \in Nat /\ TileSize \in Nat \ {0} /\ Margin \in Nat
  BY LiveMapAssumption DEF LiveMapAssumption
<1>1. z \in 0..MaxZoom /\ MaxZoom - z \in 0..MaxZoom /\ MaxZoom \in 0..MaxZoom
  BY <1>0
<1> DEFINE n == TilesAt[z]
           s == TilesAt[MaxZoom - z]
           all == TilesAt[MaxZoom]
<1>2. n \in Nat \ {0} /\ s \in Nat \ {0} /\ all \in Nat \ {0} /\ n * s = all
  BY <1>1, TilesAtIs, TilesCompose
<1> HIDE DEF n, s, all
<1>3. TileSize * s \in Nat \ {0} /\ TileSize * all \in Nat \ {0}
  BY <1>0, <1>2
<1>4. TileSize * all = n * (TileSize * s)
  BY <1>0, <1>2
<1>5. \A side \in Nat : (side \div 2 + Margin) * s \in Nat
  BY <1>0, <1>2
<1> QED  BY <1>1, <1>2, <1>3, <1>4, <1>5 DEF n, s, all, Scale, TileWidth, World, Reach

(* Every tile that is placed exists. *)
LEMMA PlacedExists ==
    ASSUME NEW m \in Views, NEW tx \in Int, NEW ty \in 0..(TilesAt[m.zoom] - 1)
    PROVE  Placement(m, tx, ty).id \in TileIds
<1>1. PICK z \in MinZoom..MaxZoom : z = m.zoom
  BY DEF Views
<1>2. TilesAt[z] \in Nat \ {0}
  BY ZoomIs
<1>3. tx % TilesAt[z] \in 0..(TilesAt[z] - 1)
  BY <1>2, DivIs
<1>4. Placement(m, tx, ty).id = [z |-> z, x |-> tx % TilesAt[z], y |-> ty]
  BY <1>1 DEF Placement, Column
<1>5. [z |-> z, x |-> tx % TilesAt[z], y |-> ty]
          \in [z: {z}, x: 0..(TilesAt[z] - 1), y: 0..(TilesAt[z] - 1)]
  BY <1>1, <1>3
<1> QED  BY <1>4, <1>5 DEF TileIds

(* The columns and rows of the window, and its tiles as a set. *)
West(m)  == TileAt(m.x, -Reach(m.w, m.zoom), m.zoom)
East(m)  == TileAt(m.x, Reach(m.w, m.zoom), m.zoom)
North(m) == LargerOf(0, TileAt(m.y, -Reach(m.h, m.zoom), m.zoom))
South(m) == SmallerOf(TilesAt[m.zoom] - 1, TileAt(m.y, Reach(m.h, m.zoom), m.zoom))

(* The columns are in order and the rows are rows of the world. *)
LEMMA WindowIs ==
    ASSUME NEW m \in Views
    PROVE  /\ West(m) \in Int /\ East(m) \in Int /\ West(m) <= East(m)
           /\ North(m) \in Nat /\ South(m) \in Int /\ South(m) <= TilesAt[m.zoom] - 1
<1>1. PICK z \in MinZoom..MaxZoom : z = m.zoom
  BY DEF Views
<1>2. m.x \in Int /\ m.y \in Int /\ m.w \in Nat /\ m.h \in Nat
  BY <1>1, ZoomIs DEF Views
<1>3. /\ TilesAt[z] \in Nat /\ TileWidth(z) \in Nat \ {0}
      /\ Reach(m.w, z) \in Nat /\ Reach(m.h, z) \in Nat
  BY <1>1, <1>2, ZoomIs
<1>4. PICK rw \in Nat : rw = Reach(m.w, z)
  BY <1>3
<1>5. PICK rh \in Nat : rh = Reach(m.h, z)
  BY <1>3
<1> DEFINE up == (m.y + (-rh)) \div TileWidth(z)
           low == (m.y + rh) \div TileWidth(z)
<1>6. m.x + (-rw) \in Int /\ m.x + rw \in Int /\ m.x + (-rw) <= m.x + rw
      /\ m.y + (-rh) \in Int /\ m.y + rh \in Int
  BY <1>2
<1>7. up \in Int /\ low \in Int
  BY <1>3, <1>6, DivIs
<1>8. North(m) = LargerOf(0, up) /\ South(m) = SmallerOf(TilesAt[z] - 1, low)
  BY <1>1, <1>5 DEF North, South, TileAt
<1>9. West(m) \in Int /\ East(m) \in Int /\ West(m) <= East(m)
  <2>1. West(m) = (m.x + (-rw)) \div TileWidth(z) /\ East(m) = (m.x + rw) \div TileWidth(z)
    BY <1>1, <1>4 DEF West, East, TileAt
  <2> QED  BY <1>3, <1>6, <2>1, DivIs, DivMonotone
<1> HIDE DEF up, low
<1>10. North(m) \in Nat /\ South(m) \in Int /\ South(m) <= TilesAt[z] - 1
  BY <1>3, <1>7, <1>8 DEF LargerOf, SmallerOf
<1> QED  BY <1>1, <1>9, <1>10

(* The list, row by row, has just the tiles of these columns and rows. *)
LEMMA VisibleIs ==
    ASSUME NEW m \in Views
    PROVE  /\ Len(VisibleTiles(m)) \in Nat
           /\ \A n \in 1..Len(VisibleTiles(m)) : VisibleTiles(m)[n].id \in TileIds
           /\ ToSet(VisibleTiles(m)) =
                  {Placement(m, tx, ty) : tx \in West(m)..East(m), ty \in North(m)..South(m)}
<1> DEFINE z == m.zoom
           across == East(m) - West(m) + 1
           down == South(m) - North(m) + 1
           place(k) == Placement(m, West(m) + ((k - 1) % across), North(m) + ((k - 1) \div across))
           K == across * down
           list == [k \in 1..K |-> place(k)]
           All == {Placement(m, tx, ty) : tx \in West(m)..East(m), ty \in North(m)..South(m)}
<1>1. VisibleTiles(m) = list
  BY DEF VisibleTiles, West, East, North, South
<1>2. /\ West(m) \in Int /\ East(m) \in Int /\ North(m) \in Nat /\ South(m) \in Int
      /\ South(m) <= TilesAt[z] - 1 /\ across \in Nat \ {0} /\ down \in Int /\ K \in Int
      /\ TilesAt[z] \in Nat
  <2>1. z \in MinZoom..MaxZoom
    BY DEF Views
  <2>2. TilesAt[z] \in Nat
    BY <2>1, ZoomIs
  <2>3. across \in Nat \ {0} /\ down \in Int
    BY WindowIs
  <2>4. K \in Int
    <3> HIDE DEF across, down
    <3> QED  BY <2>3
  <2> QED  BY <2>2, <2>3, <2>4, WindowIs
<1>3. ASSUME NEW k \in 1..K
      PROVE  /\ West(m) + ((k - 1) % across) \in West(m)..East(m)
             /\ North(m) + ((k - 1) \div across) \in North(m)..South(m)
  <2>1. k - 1 \in Int /\ 0 <= k - 1 /\ k - 1 < K
    BY <1>2
  <2>2. (k - 1) % across \in 0..(across - 1) /\ (k - 1) \div across \in 0..(down - 1)
    <3> HIDE DEF across, down
    <3> QED  BY <1>2, <2>1, DivIs, RowsCount
  <2>3. PICK i \in 0..(across - 1) : i = (k - 1) % across
    BY <2>2
  <2>4. PICK j \in 0..(down - 1) : j = (k - 1) \div across
    BY <2>2
  <2>5. West(m) + i \in West(m)..East(m) /\ North(m) + j \in North(m)..South(m)
    BY <1>2
  <2> QED  BY <2>3, <2>4, <2>5
<1>4. \A k \in 1..K : list[k] \in All
  BY <1>3
<1>5. ASSUME NEW tx \in West(m)..East(m), NEW ty \in North(m)..South(m)
      PROVE  \E k \in 1..K : list[k] = Placement(m, tx, ty)
  <2>1. PICK i \in 0..(across - 1) : tx = West(m) + i
    <3>1. tx - West(m) \in 0..(across - 1) /\ tx = West(m) + (tx - West(m))
      BY <1>2
    <3> QED  BY <3>1
  <2>2. PICK j \in 0..(down - 1) : ty = North(m) + j
    <3>1. ty - North(m) \in 0..(down - 1) /\ ty = North(m) + (ty - North(m))
      BY <1>2
    <3> QED  BY <3>1
  <2>3. /\ j * across + i \in 0..(K - 1)
        /\ (j * across + i) \div across = j /\ (j * across + i) % across = i
    <3> HIDE DEF across, down
    <3> QED  BY <1>2, RowsCount
  <2>4. PICK k \in 1..K : k - 1 = j * across + i
    <3>1. PICK l \in 0..(K - 1) : l = j * across + i
      BY <2>3
    <3>2. l + 1 \in 1..K /\ (l + 1) - 1 = l
      BY <1>2
    <3> QED  BY <3>1, <3>2
  <2>5. (k - 1) % across = i /\ (k - 1) \div across = j
    BY <2>3, <2>4
  <2>6. list[k] = Placement(m, West(m) + i, North(m) + j)
    BY <2>5
  <2> QED  BY <2>1, <2>2, <2>6
<1>6. All \subseteq {list[k] : k \in 1..K}
  BY <1>5
<1>7. DOMAIN list = 1..K
  OBVIOUS
<1>8. \A k \in 1..K : list[k].id \in TileIds
  <2>1. ASSUME NEW tx \in West(m)..East(m), NEW ty \in North(m)..South(m)
        PROVE  Placement(m, tx, ty).id \in TileIds
    <3>1. tx \in Int /\ ty \in 0..(TilesAt[m.zoom] - 1)
      BY <1>2
    <3> QED  BY <3>1, PlacedExists
  <2> HIDE DEF list
  <2> QED  BY <1>4, <2>1
<1> DEFINE L == IF K < 0 THEN 0 ELSE K
<1>9. L \in Nat /\ 1..L = 1..K
  <2> HIDE DEF K
  <2> QED  BY <1>2
<1>10. list \in Seq(All) /\ Len(list) = L
  <2> HIDE DEF list, All, L, K
  <2>1. list \in [1..L -> All]
    <3>1. list = [k \in 1..K |-> list[k]]
      BY DEF list
    <3> QED  BY <1>4, <1>9, <3>1
  <2> QED  BY <1>9, <2>1
<1>11. ToSet(list) = All
  <2> HIDE DEF list, All, K
  <2> QED  BY <1>4, <1>6, <1>7 DEF ToSet
<1>12. 1..Len(list) = 1..K
  BY <1>9, <1>10
<1> HIDE DEF list, K, L
<1>13. Len(list) \in Nat /\ \A n \in 1..Len(list) : list[n].id \in TileIds
  BY <1>8, <1>9, <1>10, <1>12
<1> QED  BY <1>1, <1>11, <1>13

-----------------------------------------------------------------------------
(* The window *)

(* Wrapped by pixels or by tiles, a place is on the same column. *)
LEMMA WrapIs ==
    ASSUME NEW a \in Int, NEW w \in Nat \ {0}, NEW n \in Nat \ {0}
    PROVE  (a % (n * w)) \div w = (a \div w) % n
<1>1. PICK q \in Int : q = a \div w
  BY DivIs
<1>2. PICK p \in Int : p = q \div n
  BY DivIs
<1>3. PICK k \in 0..(n - 1) : k = q % n
  BY DivIs
<1>4. PICK W \in Nat \ {0} : W = n * w
  OBVIOUS
<1>5. q * w <= a /\ a < q * w + w
  BY <1>1, DivIs
<1>6. q = n * p + k
  <2>1. q % n = q - n * (q \div n)
    BY DivIs
  <2>2. PICK np \in Int : np = n * p
    OBVIOUS
  <2>3. k = q - np
    BY <1>2, <1>3, <2>1, <2>2
  <2>4. q = np + k
    BY <2>3
  <2> QED  BY <2>2, <2>4
<1>7. q * w = p * W + k * w /\ k * w \in Nat /\ p * W \in Int
  <2>1. (n * p + k) * w = (n * p) * w + k * w /\ (n * p) * w = p * (n * w)
    OBVIOUS
  <2> QED  BY <1>4, <1>6, <2>1
<1>8. k * w + w <= W
  <2>1. (k + 1) * w <= n * w /\ (k + 1) * w = k * w + w
    BY Scaled
  <2> QED  BY <1>4, <2>1
<1>9. PICK pW \in Int : pW = p * W
  OBVIOUS
<1>10. PICK kw \in Nat : kw = k * w
  BY <1>7
<1>11. pW <= a /\ a < pW + W /\ kw <= a - pW /\ a - pW < kw + w
  BY <1>5, <1>7, <1>8, <1>9, <1>10
<1>12. p = a \div W
  BY <1>9, <1>11, DivUnique
<1>13. a % W = a - pW
  <2>1. a % W = a - W * (a \div W)
    BY DivIs
  <2>2. W * p = p * W
    OBVIOUS
  <2> QED  BY <1>9, <1>12, <2>1, <2>2
<1>14. k = (a - pW) \div w
  BY <1>10, <1>11, DivUnique
<1> QED  BY <1>1, <1>3, <1>4, <1>13, <1>14

(* The offsets that tile (tx, ty) spans are those of the places on it. *)
LEMMA Spans ==
    ASSUME NEW at \in Int, NEW by \in Int, NEW w \in Nat \ {0}, NEW t \in Int
    PROVE  by \in (t * w - at)..(t * w - at + w - 1) <=> t = (at + by) \div w
<1>1. PICK a \in Int : a = at + by
  OBVIOUS
<1>2. PICK tw \in Int : tw = t * w
  OBVIOUS
<1>3. by \in (tw - at)..(tw - at + w - 1) <=> tw <= a /\ a < tw + w
  BY <1>1
<1>4. tw <= a /\ a < tw + w => t = a \div w
  BY <1>2, DivUnique
<1>5. t = a \div w => tw <= a /\ a < tw + w
  BY <1>2, DivIs
<1> QED  BY <1>1, <1>2, <1>3, <1>4, <1>5

(* The place `by` pixels from the centre is on a tile between those at the ends. *)
LEMMA Reached ==
    ASSUME NEW z \in MinZoom..MaxZoom, NEW side \in Nat, NEW at \in Int,
           NEW by \in Int, by <= (side \div 2) * Scale(z), -by <= (side \div 2) * Scale(z)
    PROVE  /\ TileAt(at, -Reach(side, z), z) <= (at + by) \div TileWidth(z)
           /\ (at + by) \div TileWidth(z) <= TileAt(at, Reach(side, z), z)
<1>1. PICK s \in Nat \ {0} : s = Scale(z)
  BY ZoomIs
<1>2. PICK w \in Nat \ {0} : w = TileWidth(z)
  BY ZoomIs
<1>3. PICK h \in Nat : h = side \div 2
  <2>1. side \div 2 \in Nat
    OBVIOUS
  <2> QED  BY <2>1
<1>4. Margin \in Nat
  BY LiveMapAssumption DEF LiveMapAssumption
<1>5. PICK r \in Nat : r = Reach(side, z)
  BY ZoomIs
<1>6. PICK hs \in Nat : hs = h * s
  OBVIOUS
<1>7. hs <= r
  <2>1. (h + Margin) * s = h * s + Margin * s /\ Margin * s \in Nat
    BY <1>4
  <2>2. r = (h + Margin) * s
    BY <1>1, <1>3, <1>5 DEF Reach
  <2> QED  BY <1>6, <2>1, <2>2
<1>8. by <= hs /\ -by <= hs
  BY <1>1, <1>3, <1>6
<1>9. at + (-r) \in Int /\ at + r \in Int /\ at + by \in Int
      /\ at + (-r) <= at + by /\ at + by <= at + r
  BY <1>7, <1>8
<1>10. /\ (at + (-r)) \div w <= (at + by) \div w
       /\ (at + by) \div w <= (at + r) \div w
  BY <1>9, DivMonotone
<1> QED  BY <1>2, <1>5, <1>9, <1>10 DEF TileAt

(* A pixel is on one column and one row of the window, and on no other tile. *)
LEMMA PixelIsTiled ==
    ASSUME map \in Views, NEW c \in Int \X Int, map.y + c[2] \in 0..(World - 1),
           c[1] <= Half(map.w), -c[1] <= Half(map.w),
           c[2] <= Half(map.h), -c[2] <= Half(map.h)
    PROVE  TiledAt(ToSet(VisibleTiles(map)), c)
<1> DEFINE z == map.zoom
           asked == ToSet(VisibleTiles(map))
           covering == {t \in asked : /\ c[1] \in t.dx..(t.dx + TileWidth(z) - 1)
                                      /\ c[2] \in t.dy..(t.dy + TileWidth(z) - 1)}
           place == [z |-> z, x |-> ((map.x + c[1]) % World) \div TileWidth(z),
                     y |-> (map.y + c[2]) \div TileWidth(z)]
<1>1. SUFFICES Cardinality(covering) = 1 /\ \A t \in covering : t.id = place
  BY DEF TiledAt
<1>2. PICK w \in Nat \ {0} : w = TileWidth(z)
  BY <1>1, ZoomIs DEF Views
<1>3. PICK n \in Nat \ {0} : n = TilesAt[z] /\ World = n * w
  BY <1>1, <1>2, ZoomIs DEF Views
<1>4. PICK x \in Int : x = map.x
  BY <1>1 DEF Views
<1>5. PICK y \in Int : y = map.y
  BY <1>1 DEF Views
<1>6. PICK dx \in Int : c[1] = dx
  OBVIOUS
<1>7. PICK dy \in Int : c[2] = dy
  OBVIOUS
<1>8. PICK mz \in MinZoom..MaxZoom, mw \in Nat, mh \in Nat :
          mz = map.zoom /\ mw = map.w /\ mh = map.h
  BY <1>1 DEF Views
<1>9. West(map) <= (x + dx) \div w /\ (x + dx) \div w <= East(map)
  <2>1. dx <= (mw \div 2) * Scale(mz) /\ -dx <= (mw \div 2) * Scale(mz)
    BY <1>6, <1>8, Zenon DEF Half
  <2>2. /\ TileAt(x, -Reach(mw, mz), mz) <= (x + dx) \div TileWidth(mz)
        /\ (x + dx) \div TileWidth(mz) <= TileAt(x, Reach(mw, mz), mz)
    BY <2>1, Reached, Zenon
  <2>3. TileWidth(mz) = w /\ West(map) = TileAt(x, -Reach(mw, mz), mz)
        /\ East(map) = TileAt(x, Reach(mw, mz), mz)
    BY <1>2, <1>4, <1>8, Zenon DEF West, East
  <2> QED  BY <2>2, <2>3, Zenon
<1>10. /\ TileAt(y, -Reach(map.h, z), z) <= (y + dy) \div w
       /\ (y + dy) \div w <= TileAt(y, Reach(map.h, z), z)
  <2>1. dy <= (mh \div 2) * Scale(mz) /\ -dy <= (mh \div 2) * Scale(mz)
    BY <1>7, <1>8, Zenon DEF Half
  <2>2. /\ TileAt(y, -Reach(mh, mz), mz) <= (y + dy) \div TileWidth(mz)
        /\ (y + dy) \div TileWidth(mz) <= TileAt(y, Reach(mh, mz), mz)
    BY <2>1, Reached, Zenon
  <2> QED  BY <1>2, <1>8, <2>2, Zenon
<1>11. PICK tx \in Int : tx = (x + dx) \div w
  BY <1>9, DivIs
<1>12. PICK ty \in 0..(n - 1) : ty = (y + dy) \div w
  <2>1. y + dy \in Int /\ 0 <= y + dy /\ y + dy < w * n
    <3>1. World \in Int /\ World = w * n
      BY <1>3
    <3>2. y + dy \in 0..(World - 1)
      BY <1>1, <1>5, <1>7
    <3> QED  BY <3>1, <3>2
  <2>2. PICK b \in Int : b = y + dy
    BY <2>1
  <2>3. b \div w \in 0..(n - 1)
    <3>1. \A k \in Int : 0 <= k /\ k < w * n => k \div w \in 0..(n - 1)
      <4>1. n \in Int
        OBVIOUS
      <4> QED  BY <4>1, RowsCount, Zenon
    <3>2. 0 <= b /\ b < w * n
      BY <2>1, <2>2
    <3> QED  BY <3>1, <3>2, Zenon
  <2> QED  BY <2>2, <2>3
<1>13. tx \in West(map)..East(map)
  BY <1>1, <1>9, <1>11, WindowIs
<1>14. ty \in North(map)..South(map)
  <2>1. PICK up : up = TileAt(y, -Reach(map.h, z), z)
    OBVIOUS
  <2>2. PICK low : low = TileAt(y, Reach(map.h, z), z)
    OBVIOUS
  <2>3. up <= ty /\ ty <= low
    BY <1>10, <1>12, <2>1, <2>2
  <2>4. North(map) = LargerOf(0, up) /\ South(map) = SmallerOf(n - 1, low)
    BY <1>3, <1>5, <2>1, <2>2 DEF North, South
  <2>5. North(map) <= ty /\ ty <= South(map)
    BY <2>3, <2>4 DEF LargerOf, SmallerOf
  <2> QED  BY <1>1, <2>5, WindowIs
<1> DEFINE here == Placement(map, tx, ty)
<1>15. ASSUME NEW i \in Int, NEW j \in Int
       PROVE  /\ Placement(map, i, j).dx = i * w - x
              /\ Placement(map, i, j).dy = j * w - y
  BY <1>2, <1>4, <1>5 DEF Placement
<1>16. here \in asked
  BY <1>1, <1>13, <1>14, VisibleIs
<1>17. here \in covering
  <2>1. dx \in (tx * w - x)..(tx * w - x + w - 1) /\ dy \in (ty * w - y)..(ty * w - y + w - 1)
    BY <1>9, <1>10, <1>11, <1>12, Spans
  <2>2. here.dx = tx * w - x /\ here.dy = ty * w - y
    <3>1. tx \in Int /\ ty \in Int
      OBVIOUS
    <3> QED  BY <1>15, <3>1, Zenon
  <2> HIDE DEF here, asked
  <2> QED  BY <1>2, <1>6, <1>7, <1>16, <2>1, <2>2
<1>18. ASSUME NEW t \in covering  PROVE t = here
  <2>1. t \in asked /\ dx \in t.dx..(t.dx + w - 1) /\ dy \in t.dy..(t.dy + w - 1)
    BY <1>2, <1>6, <1>7
  <2>2. PICK i \in West(map)..East(map), j \in North(map)..South(map) :
            t = Placement(map, i, j)
    <3>1. asked = {Placement(map, i, j) : i \in West(map)..East(map), j \in North(map)..South(map)}
      BY <1>1, VisibleIs
    <3>2. t \in asked
      BY <2>1
    <3> HIDE DEF asked
    <3> QED  BY <3>1, <3>2
  <2>3. i \in Int /\ j \in Int
    BY <1>1, WindowIs
  <2>4. dx \in (i * w - x)..(i * w - x + w - 1) /\ dy \in (j * w - y)..(j * w - y + w - 1)
    BY <1>15, <2>1, <2>2, <2>3
  <2>5. i = tx /\ j = ty
    <3>1. dx \in (i * w - x)..(i * w - x + w - 1) <=> i = (x + dx) \div w
      BY <1>9, <2>3, Spans
    <3>2. dy \in (j * w - y)..(j * w - y + w - 1) <=> j = (y + dy) \div w
      BY <1>10, <2>3, Spans
    <3> QED  BY <1>11, <1>12, <2>4, <3>1, <3>2, Zenon
  <2> QED  BY <2>2, <2>5
<1>19. covering = {here}
  <2> HIDE DEF covering, here
  <2> QED  BY <1>17, <1>18
<1>20. Cardinality(covering) = 1
  <2> HIDE DEF covering, here
  <2> QED  BY <1>19, FS_Singleton
<1>21. here.id = place
  <2>1. here.id = [z |-> z, x |-> tx % n, y |-> ty]
    BY <1>3 DEF Placement, Column
  <2>2. ((x + dx) % World) \div w = tx % n
    <3>1. PICK a \in Int : a = x + dx
      BY <1>9
    <3>2. (a % (n * w)) \div w = (a \div w) % n
      BY WrapIs
    <3> QED  BY <1>3, <1>11, <3>1, <3>2, Zenon
  <2>3. place = [z |-> z, x |-> ((x + dx) % World) \div w, y |-> (y + dy) \div w]
    BY <1>2, <1>4, <1>5, <1>6, <1>7
  <2> QED  BY <1>12, <2>1, <2>2, <2>3
<1> HIDE DEF covering, here, place
<1> QED  BY <1>19, <1>20, <1>21

(* No pixel of the window but is tiled. *)
EveryPixelTiled ==
    \A by \in (-Half(map.w)..Half(map.w)) \X (-Half(map.h)..Half(map.h)) :
        map.y + by[2] \in 0..(World - 1) => TiledAt(ToSet(VisibleTiles(map)), by)

(* Half a side is some pixels of the world. *)
LEMMA HalfIs ==
    ASSUME map \in Views, NEW side \in Nat
    PROVE  Half(side) \in Nat
<1>1. PICK s \in Nat : s = Scale(map.zoom)
  BY ZoomIs DEF Views
<1>2. PICK h \in Nat : h = side \div 2
  <2>1. side \div 2 \in Nat
    OBVIOUS
  <2> QED  BY <2>1
<1>3. h * s \in Nat
  OBVIOUS
<1> QED  BY <1>1, <1>2, <1>3 DEF Half

(* So every pixel is tiled, and the corners are pixels of the window. *)
LEMMA WindowIsTiled == map \in Views => EveryPixelTiled /\ WindowTiled
<1>1. SUFFICES ASSUME map \in Views  PROVE EveryPixelTiled /\ WindowTiled
  OBVIOUS
<1>2. PICK a \in Nat : a = Half(map.w)
  BY <1>1, HalfIs DEF Views
<1>3. PICK b \in Nat : b = Half(map.h)
  BY <1>1, HalfIs DEF Views
<1>4. ASSUME NEW by \in (-a..a) \X (-b..b), map.y + by[2] \in 0..(World - 1)
      PROVE  TiledAt(ToSet(VisibleTiles(map)), by)
  <2>1. by \in Int \X Int /\ by[1] <= a /\ -by[1] <= a /\ by[2] <= b /\ -by[2] <= b
    OBVIOUS
  <2> QED  BY <1>1, <1>2, <1>3, <1>4, <2>1, PixelIsTiled
<1>5. EveryPixelTiled
  BY <1>2, <1>3, <1>4 DEF EveryPixelTiled
<1>6. {a, 0, -a} \X {b, 0, -b} \subseteq (-a..a) \X (-b..b)
  OBVIOUS
<1>7. WindowTiled
  BY <1>2, <1>3, <1>4, <1>6 DEF WindowTiled
<1> QED  BY <1>5, <1>7

-----------------------------------------------------------------------------
(* The actions *)

(* The type of the state; the invariant adds nothing to it but CacheSound. *)
MapTyped ==
    /\ map \in Views
    /\ tracks \in [Peers -> Points \cup {Nowhere}]
    /\ tiles \in Slots /\ order \in Seq(TileIds) /\ fetches \in Fetches
    /\ ui \in {"idle", "framed", "moved"}

MapInv == MapTyped /\ CacheSound

(* A peer's place, the middle of two and the edges are in the world. *)
LEMMA EndsAre ==
    ASSUME NEW N \in Nat, NEW S, S \subseteq 0..N, S # {}
    PROVE  Least(S) \in S /\ Greatest(S) \in S
<1>1. S \subseteq Nat
  OBVIOUS
<1>2. \E i \in S : \A j \in S : i <= j
  BY <1>1, LeastNumber
<1>3. \E i \in S : \A j \in S : i >= j
  <2> DEFINE D == {N - i : i \in S}
  <2>1. D \subseteq Nat /\ D # {}
    <3>1. \A i \in S : N - i \in Nat
      OBVIOUS
    <3> QED  BY <3>1
  <2>2. PICK d \in D : \A e \in D : d <= e
    <3> HIDE DEF D
    <3> QED  BY <2>1, LeastNumber
  <2>3. PICK i \in S : d = N - i
    BY <2>2
  <2>4. \A j \in S : N - i <= N - j
    BY <2>2, <2>3
  <2>5. \A j \in S : i >= j
    BY <2>4
  <2> QED  BY <2>5
<1>4. Least(S) \in S
  BY <1>2 DEF Least
<1>5. Greatest(S) \in S
  BY <1>3 DEF Greatest
<1> QED  BY <1>4, <1>5

(* So is the middle of the two ends. *)
LEMMA MiddleIs ==
    ASSUME NEW N \in Nat, NEW S, S \subseteq 0..N, S # {}
    PROVE  (Least(S) + Greatest(S)) \div 2 \in 0..N
<1>1. PICK a \in 0..N : a = Least(S)
  BY EndsAre
<1>2. PICK b \in 0..N : b = Greatest(S)
  BY EndsAre
<1>3. (a + b) \div 2 \in 0..N
  OBVIOUS
<1> QED  BY <1>1, <1>2, <1>3

(* The world has a size. *)
LEMMA WorldIs == World \in Nat
BY LiveMapAssumption, ZoomIs DEF LiveMapAssumption

(* A fit stays on the world and within the zooms, whoever is live. *)
LEMMA FramedIs ==
    ASSUME MapTyped, NEW m \in Views
    PROVE  Framed(m) \in Views /\ Framed(m).open = m.open
<1> DEFINE xs == {tracks[p].x : p \in LivePeers}
           ys == {tracks[p].y : p \in LivePeers}
           mid(S) == (Least(S) + Greatest(S)) \div 2
           span(S) == Greatest(S) - Least(S)
           zooms == {z \in MinZoom..MaxZoom : Fits(z, span(xs), span(ys), m)}
<1>0. /\ MinZoom \in Nat /\ MaxZoom \in Nat /\ MinZoom \in MinZoom..MaxZoom
      /\ SoloZoom \in MinZoom..MaxZoom /\ Home \in [x: 0..World, y: 0..World]
      /\ Points \subseteq [x: 0..World, y: 0..World] /\ World \in Nat
  BY WorldIs, LiveMapAssumption DEF LiveMapAssumption
<1>1. xs \subseteq 0..World /\ ys \subseteq 0..World
  <2>1. \A p \in LivePeers : tracks[p] \in [x: 0..World, y: 0..World]
    BY <1>0 DEF MapTyped, LivePeers
  <2> QED  BY <2>1
<1>2. ASSUME NEW x \in Int, NEW y \in 0..World, NEW z \in MinZoom..MaxZoom
      PROVE  \A v : v = [m EXCEPT !.x = x, !.y = y, !.zoom = z] =>
                       v \in Views /\ v.open = m.open
  BY DEF Views
<1>3. CASE LivePeers = {}
  <2>1. Framed(m) = [m EXCEPT !.x = Home.x, !.y = Home.y, !.zoom = MinZoom]
    BY <1>3, FS_EmptySet DEF Framed
  <2>2. PICK x \in Int, y \in 0..World : x = Home.x /\ y = Home.y
    BY <1>0
  <2>3. Framed(m) = [m EXCEPT !.x = x, !.y = y, !.zoom = MinZoom]
    BY <2>1, <2>2
  <2>4. PICK z \in MinZoom..MaxZoom : z = MinZoom
    BY <1>0, Zenon
  <2>5. Framed(m) = [m EXCEPT !.x = x, !.y = y, !.zoom = z]
    BY <2>3, <2>4
  <2>6. \A v : v = [m EXCEPT !.x = x, !.y = y, !.zoom = z] =>
                 v \in Views /\ v.open = m.open
    BY DEF Views
  <2> QED  BY <2>5, <2>6, Zenon
<1>4. CASE LivePeers # {}
  <2>1. xs # {} /\ ys # {}
    BY <1>4
  <2>2. PICK x \in Int : x = mid(xs)
    <3>1. mid(xs) \in 0..World
      <4> HIDE DEF xs
      <4> QED  BY <1>0, <1>1, <2>1, MiddleIs
    <3>2. mid(xs) \in Int
      <4> DEFINE c == mid(xs)
      <4> HIDE DEF c
      <4>1. c \in 0..World => c \in Int
        BY <1>0
      <4> QED  BY <3>1, <4>1 DEF c
    <3> QED  BY <3>2, Zenon
  <2>3. PICK y \in 0..World : y = mid(ys)
    <3>1. mid(ys) \in 0..World
      <4> HIDE DEF ys
      <4> QED  BY <1>0, <1>1, <2>1, MiddleIs
    <3> QED  BY <3>1, Zenon
  <2>4. PICK z \in MinZoom..MaxZoom : z = Greatest(zooms \cup {MinZoom})
    <3>1. zooms \cup {MinZoom} \subseteq 0..MaxZoom /\ zooms \cup {MinZoom} # {}
          /\ zooms \cup {MinZoom} \subseteq MinZoom..MaxZoom
      BY <1>0
    <3> HIDE DEF zooms
    <3>2. Greatest(zooms \cup {MinZoom}) \in zooms \cup {MinZoom}
      BY <1>0, <3>1, EndsAre
    <3> QED  BY <3>1, <3>2
  <2>5. \/ Framed(m) = [m EXCEPT !.x = mid(xs), !.y = mid(ys), !.zoom = SoloZoom]
        \/ Framed(m) = [m EXCEPT !.x = mid(xs), !.y = mid(ys),
                                 !.zoom = Greatest(zooms \cup {MinZoom})]
    BY <1>4 DEF Framed
  <2> HIDE DEF xs, ys, mid, zooms
  <2>6. \/ Framed(m) = [m EXCEPT !.x = x, !.y = y, !.zoom = SoloZoom]
        \/ Framed(m) = [m EXCEPT !.x = x, !.y = y, !.zoom = z]
    BY <2>2, <2>3, <2>4, <2>5
  <2> QED  BY <1>0, <1>2, <2>6
<1> QED  BY <1>3, <1>4

(* So does a drag, however far. *)
LEMMA PannedIs ==
    ASSUME NEW m \in Views, NEW d \in Drags
    PROVE  Panned(m, d) \in Views /\ Panned(m, d).open = m.open
<1>1. PICK z \in MinZoom..MaxZoom : z = m.zoom
  BY DEF Views
<1>2. PICK s \in Nat : s = Scale(z)
  BY ZoomIs
<1>3. PICK x \in Int, y \in Int : x = d.x /\ y = d.y
  BY LiveMapAssumption DEF LiveMapAssumption
<1>4. PICK a \in Int : a = m.x - x * s
  BY DEF Views
<1>5. PICK b \in Int : b = m.y - y * s
  BY DEF Views
<1>6. OnWorld(b) \in 0..World
  BY WorldIs DEF OnWorld, LargerOf, SmallerOf
<1>7. Panned(m, d) = [m EXCEPT !.x = a, !.y = OnWorld(b)]
  BY <1>1, <1>2, <1>3, <1>4, <1>5 DEF Panned, Views
<1> QED  BY <1>6, <1>7 DEF Views

(* A view as good as the old one, the cache and the fetches untouched. *)
LEMMA OnlyTheView ==
    ASSUME MapInv, map' \in Views, map'.open = map.open,
           UNCHANGED <<tiles, order, fetches>>,
           tracks' \in [Peers -> Points \cup {Nowhere}],
           ui' \in {"idle", "framed", "moved"}
    PROVE  MapInv'
BY DEF MapInv, MapTyped, CacheSound, IndexesAgree, LoadingIsFetched

(* The invariant, of the cache and the fetches as one. *)
LEMMA FoundIs ==
    ASSUME MapInv
    PROVE  /\ Cache \in Caches /\ InStep(Cache)
           /\ map.open => [cache |-> Cache, fetch |-> fetches] \in Found
<1>1. Cache \in Caches /\ fetches \in Fetches /\ Cache.slots = tiles /\ Cache.order = order
  BY DEF MapInv, MapTyped, Cache, Caches
<1>2. InStep(Cache)
  BY <1>1 DEF MapInv, CacheSound, IndexesAgree, InStep
<1>3. map.open => Awaited(Cache, fetches)
  BY <1>1 DEF MapInv, CacheSound, LoadingIsFetched, Awaited
<1> QED  BY <1>1, <1>2, <1>3 DEF Found

(* A cache that is put in place, with its fetches. *)
LEMMA SetFound ==
    ASSUME NEW c \in Caches, InStep(c), SetCache(c), fetches' \in Fetches,
           map' \in Views, tracks' \in [Peers -> Points \cup {Nowhere}],
           ui' \in {"idle", "framed", "moved"},
           map'.open => Awaited(c, fetches')
    PROVE  MapInv'
<1>1. tiles' = c.slots /\ order' = c.order /\ tiles' \in Slots /\ order' \in Seq(TileIds)
  BY DEF SetCache, Caches
<1>2. MapTyped'
  BY <1>1 DEF MapTyped
<1>3. IndexesAgree'
  BY <1>1 DEF IndexesAgree, InStep
<1>4. LoadingIsFetched'
  BY <1>1 DEF LoadingIsFetched, Awaited
<1> QED  BY <1>2, <1>3, <1>4 DEF MapInv, CacheSound

(* Reopening drops every slot that waits or failed. *)
LEMMA OpenKeeps == MapInv /\ OpenMapView => MapInv'
<1> SUFFICES ASSUME MapInv, OpenMapView  PROVE MapInv'
  OBVIOUS
<1> DEFINE c == RetainLoaded(Cache)
           m == [map EXCEPT !.open = TRUE]
<1>1. /\ c \in Caches /\ InStep(c) /\ \A id \in DOMAIN c.slots : c.slots[id] = Loaded
  BY FoundIs, RetainedIs
<1>2. m \in Views
  BY DEF MapInv, MapTyped, Views
<1>3. map' = Framed(m) /\ SetCache(c) /\ ui' = "framed" /\ UNCHANGED <<tracks, fetches>>
  BY DEF OpenMapView
<1> HIDE DEF c, m
<1>4. map' \in Views
  BY <1>2, <1>3, FramedIs DEF MapInv
<1>5. Awaited(c, fetches')
  BY <1>1 DEF Awaited, Loaded, Loading
<1> QED  BY <1>1, <1>3, <1>4, <1>5, SetFound DEF MapInv, MapTyped

LEMMA FitKeeps == MapInv /\ MapFit => MapInv'
<1> SUFFICES ASSUME MapInv, MapFit  PROVE MapInv'
  OBVIOUS
<1>1. map' \in Views /\ map'.open = map.open
  BY FramedIs DEF MapFit, MapInv, MapTyped
<1> QED  BY <1>1, OnlyTheView DEF MapFit, MapInv, MapTyped

LEMMA PanKeeps == MapInv /\ MapPan => MapInv'
<1> SUFFICES ASSUME MapInv, MapPan  PROVE MapInv'
  OBVIOUS
<1>1. PICK d \in Drags : map' = Panned(map, d)
  BY DEF MapPan
<1>2. map' \in Views /\ map'.open = map.open
  BY <1>1, PannedIs DEF MapInv, MapTyped
<1> QED  BY <1>2, OnlyTheView DEF MapPan, MapInv, MapTyped

LEMMA ZoomKeeps == MapInv /\ MapZoom => MapInv'
<1> SUFFICES ASSUME MapInv, MapZoom  PROVE MapInv'
  OBVIOUS
<1>1. PICK delta \in {-1, 1} :
        map' = [map EXCEPT !.zoom = LargerOf(MinZoom, SmallerOf(@ + delta, MaxZoom))]
  BY DEF MapZoom
<1>2. map \in Views /\ map.zoom \in MinZoom..MaxZoom
  BY DEF MapInv, MapTyped, Views
<1>3. MinZoom \in Nat /\ MaxZoom \in Nat /\ MinZoom <= MaxZoom
  BY LiveMapAssumption DEF LiveMapAssumption
<1>4. PICK z \in MinZoom..MaxZoom : z = LargerOf(MinZoom, SmallerOf(map.zoom + delta, MaxZoom))
  BY <1>2, <1>3 DEF LargerOf, SmallerOf
<1>5. map' = [map EXCEPT !.zoom = z]
  BY <1>1, <1>2, <1>4 DEF Views
<1>6. map' \in Views /\ map'.open = map.open
  BY <1>2, <1>5 DEF Views
<1> QED  BY <1>6, OnlyTheView DEF MapZoom, MapInv, MapTyped

LEMMA ViewportKeeps == MapInv /\ MapViewport => MapInv'
<1> SUFFICES ASSUME MapInv, MapViewport  PROVE MapInv'
  OBVIOUS
<1>1. PICK v \in Viewports : map' = [map EXCEPT !.w = v.w, !.h = v.h]
  BY DEF MapViewport
<1>2. v.w \in Nat /\ v.h \in Nat
  BY LiveMapAssumption DEF LiveMapAssumption
<1>3. map' \in Views /\ map'.open = map.open
  BY <1>1, <1>2 DEF MapInv, MapTyped, Views
<1> QED  BY <1>3, OnlyTheView DEF MapViewport, MapInv, MapTyped

(* A closed map waits for nothing. *)
LEMMA CloseKeeps == MapInv /\ MapClose => MapInv'
<1> SUFFICES ASSUME MapInv, MapClose  PROVE MapInv'
  OBVIOUS
<1>1. map' \in Views /\ ~map'.open
  BY DEF MapClose, MapInv, MapTyped, Views
<1>2. UNCHANGED <<tiles, order, tracks, fetches, ui>>
  BY DEF MapClose
<1> QED
  BY <1>1, <1>2 DEF MapInv, MapTyped, CacheSound, IndexesAgree, LoadingIsFetched

(* What the refresh marks it also fetches. *)
LEMMA RefreshKeeps == MapInv /\ RefreshMap => MapInv'
<1> SUFFICES ASSUME MapInv, RefreshMap  PROVE MapInv'
  OBVIOUS
<1> DEFINE asked == VisibleTiles(map)
           found == [cache |-> Cache, fetch |-> fetches]
           done == Refreshed(found, asked)
<1>1. ui' = "idle" /\ UNCHANGED <<map, tracks>> /\ map \in Views
  BY DEF RefreshMap, MapInv, MapTyped
<1>2. CASE ~map.open
  <2>1. UNCHANGED <<tiles, order, fetches>>
    BY <1>2 DEF RefreshMap
  <2> QED  BY <1>1, <2>1, OnlyTheView DEF MapInv, MapTyped
<1>3. CASE map.open
  <2>1. SetCache(done.cache) /\ fetches' = done.fetch
    BY <1>3 DEF RefreshMap
  <2>2. found \in Found
    BY <1>3, FoundIs
  <2>3. Len(asked) \in Nat /\ \A n \in 1..Len(asked) : asked[n].id \in TileIds
    BY <1>1, VisibleIs
  <2> HIDE DEF asked, found
  <2>4. done \in Found
    BY <2>2, <2>3, RefreshedIs
  <2> HIDE DEF done
  <2>5. /\ done.cache \in Caches /\ InStep(done.cache) /\ done.fetch \in Fetches
        /\ Awaited(done.cache, done.fetch)
    BY <2>4 DEF Found
  <2> QED  BY <1>1, <2>1, <2>5, SetFound DEF MapInv, MapTyped
<1> QED  BY <1>2, <1>3

(* The answer settles the slot it was fetched for, evicted meanwhile or not. *)
LEMMA FetchedKeeps ==
    ASSUME MapInv, NEW id, NEW slot \in Outcomes, TileFetched(id, slot)
    PROVE  MapInv'
<1>1. /\ BagIn(id, fetches) /\ fetches' = fetches (-) SetToBag({id})
      /\ UNCHANGED <<map, tracks, ui>> /\ map \in Views /\ fetches \in Fetches
  BY DEF TileFetched, MapInv, MapTyped
<1>2. id \in TileIds
  BY <1>1, FetchesAre DEF BagIn, BagToSet
<1>3. fetches' \in Fetches /\ \A i : i # id /\ BagIn(i, fetches) => BagIn(i, fetches')
  BY <1>1, FetchTaken
<1>4. slot \in {Loading, Loaded, Failed} /\ slot # Loading
  BY DEF Outcomes, Loading, Loaded, Failed
<1>5. CASE ~map.open
  <2>1. UNCHANGED <<tiles, order>>
    BY <1>5 DEF TileFetched
  <2> QED
    BY <1>1, <1>3, <1>5, <2>1
    DEF MapInv, MapTyped, CacheSound, IndexesAgree, LoadingIsFetched
<1>6. CASE map.open
  <2> DEFINE c == Insert(Cache, id, slot)
  <2>1. SetCache(c)
    BY <1>6 DEF TileFetched
  <2>2. /\ c \in Caches /\ InStep(c)
        /\ \A i \in DOMAIN c.slots : \/ i = id /\ c.slots[i] = slot
                                    \/ /\ i # id /\ i \in DOMAIN Cache.slots
                                       /\ c.slots[i] = Cache.slots[i]
    <3>1. Cache \in Caches /\ InStep(Cache)
      BY FoundIs
    <3> QED  BY <1>2, <1>4, <3>1, InsertIs
  <2> HIDE DEF c
  <2>3. Awaited(Cache, fetches)
    BY <1>6, FoundIs DEF Found
  <2>4. Awaited(c, fetches')
    <3> SUFFICES ASSUME NEW i \in DOMAIN c.slots, c.slots[i] = Loading
                 PROVE  BagIn(i, fetches')
      BY DEF Awaited
    <3>1. i # id /\ i \in DOMAIN Cache.slots /\ Cache.slots[i] = Loading
      <4>1. slot # Loading
        BY <1>4
      <4>2. ~(i = id /\ c.slots[i] = slot)
        BY <4>1
      <4>3. i # id /\ i \in DOMAIN Cache.slots /\ c.slots[i] = Cache.slots[i]
        BY <2>2, <4>2
      <4> QED  BY <4>3
    <3>2. BagIn(i, fetches)
      BY <2>3, <3>1 DEF Awaited
    <3> QED  BY <1>3, <3>1, <3>2
  <2> QED  BY <1>1, <1>3, <2>1, <2>2, <2>4, SetFound DEF MapInv, MapTyped
<1> QED  BY <1>5, <1>6

LEMMA MapStarts == MapInit => MapInv
<1> SUFFICES ASSUME MapInit  PROVE MapInv
  OBVIOUS
<1>0. /\ MinZoom \in MinZoom..MaxZoom /\ Home.x \in Int /\ Home.y \in 0..World
      /\ CacheCap \in Nat
  <2>1. MinZoom \in MinZoom..MaxZoom /\ Home \in [x: 0..World, y: 0..World] /\ CacheCap \in Nat
    BY LiveMapAssumption DEF LiveMapAssumption
  <2> QED  BY <2>1, WorldIs
<1>1. map \in Views
  <2>1. PICK v \in Viewports :
          map = [open |-> FALSE, x |-> Home.x, y |-> Home.y, zoom |-> MinZoom,
                 w |-> v.w, h |-> v.h]
    BY DEF MapInit
  <2>2. v.w \in Nat /\ v.h \in Nat
    BY LiveMapAssumption DEF LiveMapAssumption
  <2> QED  BY <1>0, <2>1, <2>2 DEF Views
<1>2. tracks \in [Peers -> Points \cup {Nowhere}] /\ ui \in {"idle", "framed", "moved"}
  BY DEF MapInit
<1>3. tiles \in Slots /\ DOMAIN tiles = {}
  <2>1. tiles \in [{} -> {Loading, Loaded, Failed}]
    BY DEF MapInit
  <2> QED  BY <2>1, SlotsAre
<1>4. fetches \in Fetches
  <2>1. fetches = [i \in {} |-> 1]
    BY DEF MapInit, EmptyBag, SetToBag
  <2>2. fetches \in [{} -> Nat \ {0}]
    BY <2>1
  <2> QED  BY <2>2, FetchesAre
<1>5. order \in Seq(TileIds) /\ Len(order) = 0 /\ DOMAIN order = {}
  BY DEF MapInit
<1>6. IndexesAgree
  BY <1>0, <1>3, <1>5 DEF IndexesAgree, ToSet, IsInjective
<1> QED
  BY <1>1, <1>2, <1>3, <1>4, <1>5, <1>6
  DEF MapInv, MapTyped, CacheSound, LoadingIsFetched

LEMMA TracksKeep == MapInv /\ OnTracks => MapInv'
<1> SUFFICES ASSUME MapInv, OnTracks  PROVE MapInv'
  OBVIOUS
<1>1. /\ UNCHANGED <<map, tiles, order, fetches, ui>>
      /\ tracks' \in [Peers -> Points \cup {Nowhere}]
  BY DEF OnTracks
<1> QED  BY <1>1, OnlyTheView DEF MapInv, MapTyped

LEMMA MapStep == MapInv /\ [MapNext]_mapVars => MapInv'
<1> SUFFICES ASSUME MapInv, [MapNext]_mapVars  PROVE MapInv'
  OBVIOUS
<1>1. CASE OpenMapView  BY <1>1, OpenKeeps
<1>2. CASE MapFit  BY <1>2, FitKeeps
<1>3. CASE MapPan  BY <1>3, PanKeeps
<1>4. CASE MapZoom  BY <1>4, ZoomKeeps
<1>5. CASE MapViewport  BY <1>5, ViewportKeeps
<1>6. CASE MapClose  BY <1>6, CloseKeeps
<1>7. CASE RefreshMap  BY <1>7, RefreshKeeps
<1>8. CASE OnTracks  BY <1>8, TracksKeep
<1>9. CASE \E id \in BagToSet(fetches), slot \in Outcomes : TileFetched(id, slot)
  BY <1>9, FetchedKeeps
<1>10. CASE UNCHANGED mapVars
  BY <1>10 DEF mapVars, MapInv, MapTyped, CacheSound, IndexesAgree, LoadingIsFetched
<1> QED
  BY <1>1, <1>2, <1>3, <1>4, <1>5, <1>6, <1>7, <1>8, <1>9, <1>10 DEF MapNext

LEMMA MapAlways == MapSpec => []MapInv
BY MapStarts, MapStep, PTL DEF MapSpec

(***************************************************************************)
(* The view stays on the world and within the zooms, and whatever is in    *)
(* the cache, in the order of eviction or being fetched is a tile there    *)
(* is: a z, x and y the tile server can be asked for (Column,              *)
(* VisibleTiles, Insert).                                                  *)
(***************************************************************************)
THEOREM MapTypeCorrect == MapSpec => []MapTyped
<1>1. MapInv => MapTyped
  BY DEF MapInv
<1> QED  BY <1>1, MapAlways, PTL

(***************************************************************************)
(* The slots and the order of eviction are about the same tiles, each once *)
(* and no more than the cap, and an open map waits for no tile that is not *)
(* being fetched, for any cap, any windows, any drags and any order of the *)
(* answers (Insert, RetainLoaded, Refreshed, TileFetched).                 *)
(***************************************************************************)
THEOREM MapCacheSound == MapSpec => []CacheSound
<1>1. MapInv => CacheSound
  BY DEF MapInv
<1> QED  BY <1>1, MapAlways, PTL

(***************************************************************************)
(* Every pixel of the window, its corners among them, is covered by one    *)
(* tile of those asked for where there is a world: the tile of that place  *)
(* of the globe, for any window, any zooms and any centre (VisibleTiles,   *)
(* Placement, Column).                                                     *)
(***************************************************************************)
THEOREM MapWindowTiled == MapSpec => [](WindowTiled /\ EveryPixelTiled)
<1>1. MapInv => WindowTiled /\ EveryPixelTiled
  BY WindowIsTiled DEF MapInv, MapTyped
<1> QED  BY <1>1, MapAlways, PTL
=============================================================================
