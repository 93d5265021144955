--------------------------- MODULE SequenceProofs ---------------------------
(***************************************************************************)
(* Lemmas about sequences, for the proofs of the other modules: what is    *)
(* joined, appended, flattened or picked out, by induction over lengths.   *)
(***************************************************************************)
EXTENDS Selections, FiniteSetTheorems, NaturalsInduction, WellFoundedInduction, TLAPS

-----------------------------------------------------------------------------
(* Induction, for a set of naturals.                                       *)
LEMMA AllNat ==
    ASSUME NEW S, 0 \in S, \A n \in S \cap Nat : n + 1 \in S
    PROVE  \A n \in Nat : n \in S
<1> DEFINE Bad == Nat \ S
<1> SUFFICES ASSUME Bad # {} PROVE FALSE
  OBVIOUS
<1>1. PICK n \in Bad : \A k \in Bad : ~(<<k, n>> \in OpToRel(<, Nat))
  <2>1. Bad \subseteq Nat
    OBVIOUS
  <2> HIDE DEF Bad
  <2> QED
    BY <2>1, NatLessThanWellFounded, WFMin
<1>2. n \in Nat /\ n # 0 /\ \A k \in Bad : ~(k < n)
  BY <1>1 DEF OpToRel
<1>3. n - 1 \in Nat /\ n - 1 < n /\ (n - 1) + 1 = n
  BY <1>2
<1>4. n - 1 \in S
  BY <1>2, <1>3
<1> QED
  BY <1>3, <1>4

-----------------------------------------------------------------------------
(* Sequences, whatever their elements are.                                 *)
IsSeq(s) == s \in Seq({s[i] : i \in DOMAIN s})

LEMMA SeqIs ==
    ASSUME NEW S, NEW s \in Seq(S)
    PROVE  IsSeq(s)
<1>1. s \in [1..Len(s) -> {s[i] : i \in DOMAIN s}] /\ Len(s) \in Nat
  OBVIOUS
<1> HIDE DEF IsSeq
<1>2. s \in Seq({s[i] : i \in DOMAIN s})
  BY <1>1
<1> QED
  BY <1>2 DEF IsSeq

LEMMA SeqHas ==
    ASSUME NEW s, IsSeq(s)
    PROVE  Len(s) \in Nat /\ DOMAIN s = 1..Len(s) /\ s = [i \in 1..Len(s) |-> s[i]]
BY DEF IsSeq

LEMMA FunIsSeq ==
    ASSUME NEW n \in Nat, NEW s, DOMAIN s = 1..n, s = [i \in 1..n |-> s[i]]
    PROVE  IsSeq(s) /\ Len(s) = n
<1>1. s \in [1..n -> {s[i] : i \in DOMAIN s}]
  OBVIOUS
<1>2. s \in Seq({s[i] : i \in DOMAIN s})
  BY <1>1
<1> QED
  BY <1>1, <1>2 DEF IsSeq

LEMMA Joined ==
    ASSUME NEW s, NEW t, IsSeq(s), IsSeq(t)
    PROVE  /\ IsSeq(s \o t) /\ Len(s \o t) = Len(s) + Len(t)
           /\ \A i \in 1..Len(s) : (s \o t)[i] = s[i]
           /\ \A i \in 1..Len(t) : (s \o t)[Len(s) + i] = t[i]
           /\ \A i \in 1..Len(s \o t) : i \notin 1..Len(s) =>
                  i - Len(s) \in 1..Len(t) /\ (s \o t)[i] = t[i - Len(s)]
<1> DEFINE S == {s[i] : i \in DOMAIN s} \cup {t[i] : i \in DOMAIN t}
<1>1. s \in Seq(S) /\ t \in Seq(S)
  <2>1. s \in [1..Len(s) -> S] /\ Len(s) \in Nat
    BY SeqHas
  <2>2. t \in [1..Len(t) -> S] /\ Len(t) \in Nat
    BY SeqHas
  <2> HIDE DEF S
  <2> QED
    BY <2>1, <2>2
<1> HIDE DEF S
<1>2. s \o t \in Seq(S)
  BY <1>1
<1>3. IsSeq(s \o t)
  BY <1>2, SeqIs
<1> QED
  BY <1>1, <1>2, <1>3

LEMMA OneLong == ASSUME NEW x PROVE IsSeq(<<x>>) /\ Len(<<x>>) = 1 /\ <<x>>[1] = x
<1>1. <<x>> \in Seq({x})
  OBVIOUS
<1> QED
  BY <1>1, SeqIs

LEMMA Nothing == IsSeq(<< >>) /\ Len(<< >>) = 0
<1>1. << >> \in Seq({})
  OBVIOUS
<1> QED
  BY <1>1, SeqIs

(* FlattenSeq concatenates one part after the other.                       *)
LEMMA Flattens ==
    ASSUME NEW s, IsSeq(s), Len(s) > 0
    PROVE  \E f : /\ f = [i \in 1..Len(s) |-> IF i = 1 THEN s[i] ELSE f[i - 1] \o s[i]]
                  /\ FlattenSeq(s) = f[Len(s)]
<1> DEFINE Is(f, n) == f = [i \in 1..n |-> IF i = 1 THEN s[i] ELSE f[i - 1] \o s[i]]
           Good == {n \in Nat : \E f : Is(f, n)}
<1>1. 0 \in Good
  <2>1. Is(<< >>, 0)
    OBVIOUS
  <2> HIDE DEF Is
  <2> QED
    BY <2>1
<1>2. ASSUME NEW n \in Good \cap Nat PROVE n + 1 \in Good
  <2>1. PICK f : Is(f, n)
    OBVIOUS
  <2> DEFINE g == [i \in 1..(n + 1) |-> IF i <= n THEN f[i]
                                        ELSE IF i = 1 THEN s[i] ELSE f[n] \o s[i]]
  <2>2. \A i \in 1..n : f[i] = (IF i = 1 THEN s[i] ELSE f[i - 1] \o s[i])
    BY <2>1
  <2>3. ASSUME NEW i \in 1..(n + 1)
        PROVE  g[i] = (IF i = 1 THEN s[i] ELSE g[i - 1] \o s[i])
    <3>1. CASE i <= n
      <4>1. i = 1 \/ (i - 1 \in 1..(n + 1) /\ i - 1 <= n)
        BY <3>1
      <4> QED
        BY <2>2, <3>1, <4>1
    <3>2. CASE i = n + 1
      <4>1. i = 1 \/ (n \in 1..(n + 1) /\ i - 1 = n)
        BY <3>2
      <4> QED
        BY <3>2, <4>1
    <3> QED
      BY <3>1, <3>2
  <2>4. DOMAIN g = 1..(n + 1) /\ g = [i \in 1..(n + 1) |-> g[i]]
    OBVIOUS
  <2> HIDE DEF g
  <2>5. Is(g, n + 1)
    BY <2>3, <2>4
  <2> HIDE DEF Is
  <2> QED
    BY <2>5
<1> HIDE DEF Good
<1>3. Len(s) \in Good
  BY <1>1, <1>2, AllNat, SeqHas
<1>4. \E f : Is(f, Len(s))
  BY <1>3 DEF Good
<1> DEFINE F == CHOOSE f : Is(f, Len(s))
<1>5. Is(F, Len(s))
  <2> HIDE DEF Is
  <2> QED
    BY <1>4
<1>6. FlattenSeq(s) = F[Len(s)]
  BY SeqHas DEF FlattenSeq
<1> HIDE DEF F
<1> QED
  BY <1>5, <1>6

(* Every element of it is one of a part's.                                 *)
LEMMA FlattenHas ==
    ASSUME NEW s, IsSeq(s), \A j \in 1..Len(s) : IsSeq(s[j])
    PROVE  /\ IsSeq(FlattenSeq(s))
           /\ \A i \in 1..Len(FlattenSeq(s)) : \E j \in 1..Len(s) : \E k \in 1..Len(s[j]) :
                  FlattenSeq(s)[i] = s[j][k]
<1> DEFINE Has(t) == /\ IsSeq(t)
                     /\ \A i \in 1..Len(t) : \E j \in 1..Len(s) : \E k \in 1..Len(s[j]) :
                            t[i] = s[j][k]
<1>1. CASE Len(s) = 0
  <2>1. FlattenSeq(s) = s
    BY <1>1 DEF FlattenSeq
  <2> QED
    BY <1>1, <2>1
<1>2. CASE Len(s) > 0
  <2>1. PICK f : /\ f = [i \in 1..Len(s) |-> IF i = 1 THEN s[i] ELSE f[i - 1] \o s[i]]
                 /\ FlattenSeq(s) = f[Len(s)]
    BY <1>2, Flattens
  <2>2. \A i \in 1..Len(s) : f[i] = IF i = 1 THEN s[i] ELSE f[i - 1] \o s[i]
    BY <2>1
  <2> DEFINE Good == {n \in Nat : n + 1 <= Len(s) => Has(f[n + 1])}
  <2>3. ASSUME NEW i \in 1..Len(s) PROVE Has(s[i])
    BY <2>3
  <2>4. 0 \in Good
    <3>1. 1 \in 1..Len(s) /\ 0 + 1 = 1
      BY <1>2, SeqHas
    <3>2. f[1] = s[1]
      BY <2>2, <3>1
    <3>3. Has(f[1])
      BY <2>3, <3>1, <3>2
    <3> HIDE DEF Has
    <3> QED
      BY <3>1, <3>3
  <2>5. ASSUME NEW n \in Good \cap Nat PROVE n + 1 \in Good
    <3> SUFFICES ASSUME n + 2 <= Len(s) PROVE Has(f[n + 2])
      <4>1. (n + 1) + 1 = n + 2 /\ n + 1 \in Nat
        OBVIOUS
      <4> HIDE DEF Has
      <4> QED
        BY <4>1
    <3>1. n + 1 <= Len(s) /\ n + 2 \in 1..Len(s) /\ (n + 2) - 1 = n + 1 /\ n + 2 # 1
      BY SeqHas
    <3>2. Has(f[n + 1]) /\ Has(s[n + 2])
      BY <2>3, <3>1
    <3>3. f[n + 2] = f[n + 1] \o s[n + 2]
      BY <2>2, <3>1
    <3>4. ASSUME NEW a, NEW b, Has(a), Has(b) PROVE Has(a \o b)
      <4>1. IsSeq(a \o b)
        BY <3>4, Joined
      <4>2. ASSUME NEW i \in 1..Len(a \o b)
            PROVE  \E j \in 1..Len(s) : \E k \in 1..Len(s[j]) : (a \o b)[i] = s[j][k]
        <5>1. CASE i \in 1..Len(a)
          <6>1. (a \o b)[i] = a[i]
            BY <3>4, <5>1, Joined
          <6> QED
            BY <3>4, <5>1, <6>1
        <5>2. CASE i \notin 1..Len(a)
          <6>1. i - Len(a) \in 1..Len(b) /\ (a \o b)[i] = b[i - Len(a)]
            BY <3>4, <5>2, Joined
          <6>2. \E j \in 1..Len(s) : \E k \in 1..Len(s[j]) : b[i - Len(a)] = s[j][k]
            BY <3>4, <6>1
          <6> QED
            BY <6>1, <6>2
        <5> QED
          BY <5>1, <5>2
      <4> QED
        BY <4>1, <4>2
    <3> HIDE DEF Has
    <3> QED
      BY <3>2, <3>3, <3>4
  <2>6. Len(s) \in Nat /\ Len(s) - 1 \in Nat /\ (Len(s) - 1) + 1 = Len(s)
    BY <1>2, SeqHas
  <2> HIDE DEF Has
  <2>7. \A n \in Nat : n \in Good
    <3> HIDE DEF Good
    <3> QED
      BY <2>4, <2>5, AllNat
  <2>8. Has(f[Len(s)])
    BY <2>6, <2>7
  <2> QED
    BY <2>1, <2>8 DEF Has
<1> QED
  BY <1>1, <1>2, SeqHas

LEMMA Appended ==
    ASSUME NEW s, IsSeq(s), NEW x
    PROVE  IsSeq(Append(s, x)) /\ Append(s, x) = s \o <<x>>
<1> DEFINE S == {s[i] : i \in DOMAIN s} \cup {x}
<1>1. s \in Seq(S)
  <2>1. s \in [1..Len(s) -> S] /\ Len(s) \in Nat
    BY SeqHas
  <2> HIDE DEF S
  <2> QED
    BY <2>1
<1>2. x \in S
  OBVIOUS
<1> HIDE DEF S
<1>3. Append(s, x) \in Seq(S) /\ Append(s, x) = s \o <<x>>
  BY <1>1, <1>2
<1> QED
  BY <1>3, SeqIs

LEMMA Adds ==
    ASSUME NEW s, IsSeq(s), NEW x
    PROVE  /\ IsSeq(Append(s, x)) /\ Len(Append(s, x)) = Len(s) + 1
           /\ Append(s, x)[Len(s) + 1] = x
           /\ \A i \in 1..Len(s) : Append(s, x)[i] = s[i]
<1>1. Append(s, x) = s \o <<x>> /\ IsSeq(Append(s, x))
  BY Appended
<1>2. IsSeq(<<x>>) /\ Len(<<x>>) = 1 /\ <<x>>[1] = x
  BY OneLong
<1>3. 1 \in 1..1
  OBVIOUS
<1> QED
  BY <1>1, <1>2, <1>3, Joined

LEMMA SameSeq ==
    ASSUME NEW s, NEW t, IsSeq(s), IsSeq(t), Len(s) = Len(t),
           \A i \in 1..Len(s) : s[i] = t[i]
    PROVE  s = t
BY SeqHas

(* A sequence that is not empty is another one and a last element.         *)
LEMMA HasLast ==
    ASSUME NEW n \in Nat, NEW s, IsSeq(s), Len(s) = n + 1
    PROVE  \E t, x : IsSeq(t) /\ Len(t) = n /\ s = Append(t, x)
<1> DEFINE t == [i \in 1..n |-> s[i]]
<1>1. DOMAIN t = 1..n /\ t = [i \in 1..n |-> t[i]] /\ \A i \in 1..n : t[i] = s[i]
  OBVIOUS
<1> HIDE DEF t
<1>2. IsSeq(t) /\ Len(t) = n
  BY <1>1, FunIsSeq
<1>3. s = Append(t, s[n + 1])
  <2>1. IsSeq(Append(t, s[n + 1])) /\ Len(Append(t, s[n + 1])) = n + 1
        /\ \A i \in 1..n : Append(t, s[n + 1])[i] = t[i]
        /\ Append(t, s[n + 1])[n + 1] = s[n + 1]
    BY <1>2, Adds
  <2>2. \A i \in 1..(n + 1) : i \in 1..n \/ i = n + 1
    OBVIOUS
  <2> DEFINE u == Append(t, s[n + 1])
  <2> HIDE DEF u
  <2>3. IsSeq(u) /\ Len(u) = Len(s) /\ \A i \in 1..Len(s) : s[i] = u[i]
    BY <1>1, <2>1, <2>2 DEF u
  <2>4. s = u
    BY <2>3, SameSeq
  <2> QED
    BY <2>4 DEF u
<1> QED
  BY <1>2, <1>3

LEMMA EmptySeq == ASSUME NEW s, IsSeq(s), Len(s) = 0 PROVE s = << >>
BY Nothing, SameSeq

LEMMA ToSetIs == ASSUME NEW s, IsSeq(s)
                 PROVE  /\ \A x : Contains(s, x) <=> x \in ToSet(s)
                        /\ \A x : x \in ToSet(s) <=> \E i \in 1..Len(s) : s[i] = x
BY SeqHas DEF Contains, ToSet

LEMMA ToSetAdds ==
    ASSUME NEW s, IsSeq(s), NEW x
    PROVE  ToSet(Append(s, x)) = ToSet(s) \cup {x}
<1>1. IsSeq(Append(s, x)) /\ Len(Append(s, x)) = Len(s) + 1 /\ Len(s) \in Nat
  BY Adds, SeqHas
<1>2. \A i \in 1..(Len(s) + 1) : i \in 1..Len(s) \/ i = Len(s) + 1
  BY <1>1
<1>3. Len(s) + 1 \in 1..(Len(s) + 1) /\ \A i \in 1..Len(s) : i \in 1..(Len(s) + 1)
  BY <1>1
<1>4. \A y : y \in ToSet(s) <=> \E i \in 1..Len(s) : s[i] = y
  BY ToSetIs
<1>5. \A y : y \in ToSet(Append(s, x)) <=> \E i \in 1..(Len(s) + 1) : Append(s, x)[i] = y
  BY <1>1, ToSetIs
<1>6. Append(s, x)[Len(s) + 1] = x /\ \A i \in 1..Len(s) : Append(s, x)[i] = s[i]
  BY Adds
<1>7. ASSUME NEW y PROVE y \in ToSet(Append(s, x)) <=> y \in ToSet(s) \/ y = x
  BY <1>2, <1>3, <1>4, <1>5, <1>6
<1> QED
  BY <1>7

(* FlattenSeq, one part after the other.                                   *)
LEMMA FlattenOne == ASSUME NEW x PROVE FlattenSeq(<<x>>) = x
<1>1. IsSeq(<<x>>) /\ Len(<<x>>) = 1 /\ <<x>>[1] = x
  BY OneLong
<1> DEFINE s == <<x>>
<1> HIDE DEF s
<1>2. PICK f : /\ f = [i \in 1..Len(s) |-> IF i = 1 THEN s[i] ELSE f[i - 1] \o s[i]]
               /\ FlattenSeq(s) = f[Len(s)]
  <2>1. IsSeq(s) /\ Len(s) > 0
    BY <1>1 DEF s
  <2> QED
    BY <2>1, Flattens, Zenon
<1>3. Len(s) = 1 /\ 1 \in 1..1 /\ s[1] = x
  BY <1>1 DEF s
<1>4. f[1] = s[1]
  BY <1>2, <1>3
<1> QED
  BY <1>2, <1>3, <1>4 DEF s

LEMMA FlattenAdds ==
    ASSUME NEW s, IsSeq(s), NEW x, IsSeq(x)
    PROVE  FlattenSeq(Append(s, x)) = FlattenSeq(s) \o x
<1> DEFINE t == Append(s, x)
           n == Len(s)
<1>1. IsSeq(t) /\ Len(t) = n + 1 /\ t[n + 1] = x /\ (\A i \in 1..n : t[i] = s[i]) /\ n \in Nat
  BY Adds, SeqHas
<1> HIDE DEF t
<1>2. PICK f : /\ f = [i \in 1..(n + 1) |-> IF i = 1 THEN t[i] ELSE f[i - 1] \o t[i]]
               /\ FlattenSeq(t) = f[n + 1]
  <2>1. \E f : /\ f = [i \in 1..Len(t) |-> IF i = 1 THEN t[i] ELSE f[i - 1] \o t[i]]
               /\ FlattenSeq(t) = f[Len(t)]
    <3>1. IsSeq(t) /\ Len(t) > 0
      BY <1>1
    <3> QED
      BY <3>1, Flattens, Zenon
  <2> QED
    BY <1>1, <2>1
<1>3. \A i \in 1..(n + 1) : f[i] = IF i = 1 THEN t[i] ELSE f[i - 1] \o t[i]
  BY <1>2
<1>4. CASE n = 0
  <2>1. FlattenSeq(t) = x
    <3>1. n + 1 = 1 /\ 1 \in 1..(n + 1)
      BY <1>4
    <3>2. f[1] = t[1]
      BY <1>3, <3>1
    <3> QED
      BY <1>1, <1>2, <3>1, <3>2
  <2>2. FlattenSeq(s) = << >>
    BY <1>4, EmptySeq DEF FlattenSeq
  <2>3. << >> \o x = x
    <3>1. IsSeq(<< >> \o x) /\ Len(<< >> \o x) = Len(x)
      BY Nothing, Joined, SeqHas
    <3>2. \A i \in 1..Len(x) : (<< >> \o x)[0 + i] = x[i]
      BY Nothing, Joined
    <3>3. \A i \in 1..Len(x) : 0 + i = i
      OBVIOUS
    <3> QED
      BY <3>1, <3>2, <3>3, SameSeq
  <2> QED
    BY <2>1, <2>2, <2>3 DEF t
<1>5. CASE n > 0
  <2>1. PICK g : /\ g = [i \in 1..n |-> IF i = 1 THEN s[i] ELSE g[i - 1] \o s[i]]
                 /\ FlattenSeq(s) = g[n]
    BY <1>5, Flattens
  <2>2. \A i \in 1..n : g[i] = IF i = 1 THEN s[i] ELSE g[i - 1] \o s[i]
    BY <2>1
  <2> DEFINE Good == {m \in Nat : m + 1 <= n => f[m + 1] = g[m + 1]}
  <2>3. 0 \in Good
    <3>1. 0 + 1 = 1 /\ 1 \in 1..n /\ 1 \in 1..(n + 1)
      BY <1>1, <1>5
    <3> QED
      BY <1>1, <1>3, <2>2, <3>1
  <2>4. ASSUME NEW m \in Good \cap Nat PROVE m + 1 \in Good
    <3> SUFFICES ASSUME m + 2 <= n PROVE f[m + 2] = g[m + 2]
      <4>1. (m + 1) + 1 = m + 2 /\ m + 1 \in Nat
        OBVIOUS
      <4> QED
        BY <4>1
    <3>1. m + 2 \in 1..n /\ m + 2 \in 1..(n + 1) /\ (m + 2) - 1 = m + 1 /\ m + 2 # 1
          /\ m + 1 <= n
      BY <1>1
    <3>2. f[m + 1] = g[m + 1] /\ t[m + 2] = s[m + 2]
      BY <1>1, <3>1
    <3>3. f[m + 2] = f[m + 1] \o t[m + 2] /\ g[m + 2] = g[m + 1] \o s[m + 2]
      BY <1>3, <2>2, <3>1
    <3> QED
      BY <3>2, <3>3
  <2> HIDE DEF Good
  <2>5. n - 1 \in Good
    <3>1. n - 1 \in Nat
      BY <1>1, <1>5
    <3> QED
      BY <2>3, <2>4, <3>1, AllNat
  <2>6. f[n] = g[n]
    <3>1. (n - 1) + 1 = n
      BY <1>1
    <3> QED
      BY <1>1, <2>5, <3>1 DEF Good
  <2>7. f[n + 1] = f[n] \o t[n + 1]
    <3>1. n + 1 \in 1..(n + 1) /\ n + 1 # 1 /\ (n + 1) - 1 = n
      BY <1>1, <1>5
    <3> QED
      BY <1>3, <3>1
  <2> QED
    BY <1>1, <1>2, <2>1, <2>6, <2>7 DEF t
<1> QED
  BY <1>1, <1>4, <1>5

(* Induction, for a set of sequences over E.                               *)
LEMMA AllSeq ==
    ASSUME NEW E, NEW G, << >> \in G, \A s \in G \cap Seq(E), x \in E : Append(s, x) \in G
    PROVE  \A s \in Seq(E) : s \in G
<1> DEFINE Good == {n \in Nat : \A s \in Seq(E) : Len(s) = n => s \in G}
<1>1. 0 \in Good
  <2>1. ASSUME NEW s \in Seq(E), Len(s) = 0 PROVE s = << >>
    BY <2>1
  <2> QED
    BY <2>1
<1>2. ASSUME NEW n \in Good \cap Nat PROVE n + 1 \in Good
  <2> SUFFICES ASSUME NEW s \in Seq(E), Len(s) = n + 1 PROVE s \in G
    OBVIOUS
  <2>1. PICK t, x : IsSeq(t) /\ Len(t) = n /\ s = Append(t, x)
    BY HasLast, SeqIs
  <2>2. t \in Seq(E) /\ x \in E
    <3>1. s[n + 1] = x /\ \A i \in 1..n : s[i] = t[i]
      BY <2>1, Adds
    <3>2. \A i \in 1..(n + 1) : s[i] \in E
      OBVIOUS
    <3>3. \A i \in 1..n : t[i] \in E
      BY <3>1, <3>2
    <3>4. DOMAIN t = 1..n /\ t = [i \in 1..n |-> t[i]]
      BY <2>1, SeqHas
    <3>5. t \in [1..n -> E]
      BY <3>3, <3>4
    <3>6. n + 1 \in 1..(n + 1)
      OBVIOUS
    <3> QED
      BY <3>1, <3>2, <3>5, <3>6
  <2>3. t \in G
    BY <2>1, <2>2
  <2> QED
    BY <2>1, <2>2, <2>3
<1> HIDE DEF Good
<1>3. \A n \in Nat : n \in Good
  BY <1>1, <1>2, AllNat
<1> QED
  BY <1>3 DEF Good

LEMMA InSeq == ASSUME NEW s PROVE IsSeq(s) <=> s \in Seq(ToSet(s))
BY DEF IsSeq, ToSet

-----------------------------------------------------------------------------
(* The elements of a sequence that are in a set.                           *)
LEMMA OnlyIsSeq == ASSUME NEW s, IsSeq(s), NEW S PROVE IsSeq(Only(s, S))
<1> DEFINE each == [i \in DOMAIN s |-> If(s[i] \in S, <<s[i]>>)]
<1>1. Len(s) \in Nat /\ DOMAIN s = 1..Len(s)
  BY SeqHas
<1>2. DOMAIN each = 1..Len(s) /\ each = [i \in 1..Len(s) |-> each[i]]
  BY <1>1
<1>3. \A i \in 1..Len(s) : IsSeq(each[i])
  BY <1>1, OneLong, Nothing DEF If
<1>4. Only(s, S) = FlattenSeq(each)
  BY DEF Only
<1> HIDE DEF each
<1> QED
  BY <1>1, <1>2, <1>3, <1>4, FunIsSeq, FlattenHas

LEMMA OnlyNothing == ASSUME NEW S PROVE Only(<< >>, S) = << >>
<1> DEFINE each == [i \in DOMAIN << >> |-> If(<< >>[i] \in S, <<<< >>[i]>>)]
<1>1. DOMAIN each = 1..0 /\ each = [i \in 1..0 |-> each[i]]
  OBVIOUS
<1> HIDE DEF each
<1>2. IsSeq(each) /\ Len(each) = 0
  BY <1>1, FunIsSeq
<1>3. each = << >> /\ FlattenSeq(each) = each
  BY <1>2, EmptySeq DEF FlattenSeq
<1> QED
  BY <1>3 DEF each, Only

LEMMA OnlyAdds ==
    ASSUME NEW s, IsSeq(s), NEW x, NEW S
    PROVE  Only(Append(s, x), S) = IF x \in S THEN Append(Only(s, S), x) ELSE Only(s, S)
<1> DEFINE each(t) == [i \in DOMAIN t |-> If(t[i] \in S, <<t[i]>>)]
           last == If(x \in S, <<x>>)
           n == Len(s)
           t == Append(s, x)
<1>1. n \in Nat /\ DOMAIN s = 1..n /\ IsSeq(t) /\ Len(t) = n + 1 /\ DOMAIN t = 1..(n + 1)
      /\ t[n + 1] = x /\ \A i \in 1..n : t[i] = s[i]
  BY Adds, SeqHas
<1>2. IsSeq(each(s)) /\ Len(each(s)) = n
  <2>1. DOMAIN each(s) = 1..n /\ each(s) = [i \in 1..n |-> each(s)[i]]
    BY <1>1
  <2> HIDE DEF each
  <2> QED
    BY <1>1, <2>1, FunIsSeq
<1>3. IsSeq(each(t)) /\ Len(each(t)) = n + 1
  <2>1. DOMAIN each(t) = 1..(n + 1) /\ each(t) = [i \in 1..(n + 1) |-> each(t)[i]]
    BY <1>1
  <2> HIDE DEF each, t
  <2> QED
    BY <1>1, <2>1, FunIsSeq
<1>4. \A i \in 1..n : each(t)[i] = each(s)[i]
  <2> HIDE DEF t
  <2> QED
    BY <1>1
<1>5. each(t)[n + 1] = last
  <2> HIDE DEF t
  <2> QED
    BY <1>1
<1>6. IsSeq(last) /\ IsSeq(Only(s, S))
  BY OnlyIsSeq, OneLong, Nothing DEF If
<1>7. Only(s, S) = FlattenSeq(each(s)) /\ Only(t, S) = FlattenSeq(each(t))
  BY DEF Only
<1>8. each(t) = Append(each(s), last)
  <2> DEFINE u == Append(each(s), last)
             v == each(t)
  <2>1. IsSeq(u) /\ Len(u) = n + 1 /\ u[n + 1] = last /\ \A i \in 1..n : u[i] = each(s)[i]
    BY <1>2, Adds
  <2>2. IsSeq(v) /\ Len(v) = n + 1 /\ v[n + 1] = last /\ \A i \in 1..n : v[i] = each(s)[i]
    BY <1>3, <1>4, <1>5
  <2> HIDE DEF u, v
  <2>3. \A i \in 1..(n + 1) : i \in 1..n \/ i = n + 1
    BY <1>1
  <2>4. v = u
    BY <2>1, <2>2, <2>3, SameSeq
  <2> QED
    BY <2>4 DEF u, v
<1> HIDE DEF each, t
<1>9. Only(t, S) = Only(s, S) \o last
  BY <1>2, <1>6, <1>7, <1>8, FlattenAdds
<1>10. CASE x \in S
  <2>1. last = <<x>>
    BY <1>10 DEF If
  <2> QED
    BY <1>6, <1>9, <1>10, <2>1, Appended DEF t
<1>11. CASE x \notin S
  <2>1. last = << >>
    BY <1>11 DEF If
  <2>2. Only(s, S) \o << >> = Only(s, S)
    <3> DEFINE o == Only(s, S)
    <3> HIDE DEF o
    <3>1. IsSeq(o \o << >>) /\ Len(o \o << >>) = Len(o) /\ \A i \in 1..Len(o) : (o \o << >>)[i] = o[i]
      BY <1>6, Nothing, Joined, SeqHas DEF o
    <3>2. o \o << >> = o
      BY <1>6, <3>1, SameSeq DEF o
    <3> QED
      BY <3>2 DEF o
  <2> QED
    BY <1>9, <1>11, <2>1, <2>2 DEF t
<1> QED
  BY <1>10, <1>11

LEMMA OnlySet ==
    ASSUME NEW s, IsSeq(s), NEW S
    PROVE  IsSeq(Only(s, S)) /\ ToSet(Only(s, S)) = ToSet(s) \cap S
<1> DEFINE E == ToSet(s)
           G == {t \in Seq(E) : ToSet(Only(t, S)) = ToSet(t) \cap S}
<1>1. << >> \in G
  <2>1. ToSet(<< >>) = {}
    BY DEF ToSet
  <2> QED
    BY <2>1, OnlyNothing
<1>2. ASSUME NEW t \in G \cap Seq(E), NEW x \in E PROVE Append(t, x) \in G
  <2>1. IsSeq(t) /\ IsSeq(Only(t, S))
    BY SeqIs, OnlyIsSeq
  <2>2. ToSet(Append(t, x)) = ToSet(t) \cup {x}
    BY <2>1, ToSetAdds
  <2>3. x \in S => ToSet(Append(Only(t, S), x)) = ToSet(Only(t, S)) \cup {x}
    BY <2>1, ToSetAdds
  <2>4. Only(Append(t, x), S) = IF x \in S THEN Append(Only(t, S), x) ELSE Only(t, S)
    BY <2>1, OnlyAdds
  <2>5. ToSet(Only(t, S)) = ToSet(t) \cap S
    OBVIOUS
  <2>6. ToSet(Only(Append(t, x), S)) = ToSet(Append(t, x)) \cap S
    <3>1. CASE x \in S
      BY <2>2, <2>3, <2>4, <2>5, <3>1
    <3>2. CASE x \notin S
      BY <2>2, <2>4, <2>5, <3>2
    <3> QED
      BY <3>1, <3>2
  <2> QED
    BY <2>6
<1> HIDE DEF G
<1>3. s \in G
  BY <1>1, <1>2, AllSeq, InSeq
<1> QED
  BY <1>3, OnlyIsSeq DEF G

LEMMA OnlyOnly ==
    ASSUME NEW s, IsSeq(s), NEW S, NEW T
    PROVE  Only(Only(s, S), T) = Only(s, S \cap T)
<1> DEFINE E == ToSet(s)
           G == {t \in Seq(E) : Only(Only(t, S), T) = Only(t, S \cap T)}
<1>1. << >> \in G
  BY OnlyNothing
<1>2. ASSUME NEW t \in G \cap Seq(E), NEW x \in E PROVE Append(t, x) \in G
  <2>1. IsSeq(t) /\ IsSeq(Only(t, S))
    BY SeqIs, OnlyIsSeq
  <2>2. Only(Append(t, x), S) = IF x \in S THEN Append(Only(t, S), x) ELSE Only(t, S)
    BY <2>1, OnlyAdds
  <2>3. Only(Append(t, x), S \cap T) =
            IF x \in S \cap T THEN Append(Only(t, S \cap T), x) ELSE Only(t, S \cap T)
    BY <2>1, OnlyAdds
  <2>4. Only(Append(Only(t, S), x), T) =
            IF x \in T THEN Append(Only(Only(t, S), T), x) ELSE Only(Only(t, S), T)
    BY <2>1, OnlyAdds
  <2>5. Only(Only(t, S), T) = Only(t, S \cap T)
    OBVIOUS
  <2>6. Only(Only(Append(t, x), S), T) = Only(Append(t, x), S \cap T)
    <3>1. CASE x \in S /\ x \in T
      BY <2>2, <2>3, <2>4, <2>5, <3>1
    <3>2. CASE x \in S /\ x \notin T
      BY <2>2, <2>3, <2>4, <2>5, <3>2
    <3>3. CASE x \notin S
      BY <2>2, <2>3, <2>5, <3>3
    <3> QED
      BY <3>1, <3>2, <3>3
  <2> QED
    BY <2>6
<1> HIDE DEF G
<1>3. s \in G
  BY <1>1, <1>2, AllSeq, InSeq
<1> QED
  BY <1>3 DEF G

LEMMA OnlySame ==
    ASSUME NEW s, IsSeq(s), NEW S, NEW T, ToSet(s) \cap S = ToSet(s) \cap T
    PROVE  Only(s, S) = Only(s, T)
<1> DEFINE E == ToSet(s)
           G == {t \in Seq(E) : Only(t, S) = Only(t, T)}
<1>1. << >> \in G
  BY OnlyNothing
<1>2. ASSUME NEW t \in G \cap Seq(E), NEW x \in E PROVE Append(t, x) \in G
  <2>1. IsSeq(t) /\ (x \in S <=> x \in T) /\ Only(t, S) = Only(t, T)
    BY SeqIs
  <2>2. Only(Append(t, x), S) = IF x \in S THEN Append(Only(t, S), x) ELSE Only(t, S)
    BY <2>1, OnlyAdds
  <2>3. Only(Append(t, x), T) = IF x \in T THEN Append(Only(t, T), x) ELSE Only(t, T)
    BY <2>1, OnlyAdds
  <2>4. Only(Append(t, x), S) = Only(Append(t, x), T)
    BY <2>1, <2>2, <2>3
  <2> QED
    BY <2>4
<1> HIDE DEF G
<1>3. s \in G
  BY <1>1, <1>2, AllSeq, InSeq
<1> QED
  BY <1>3 DEF G

LEMMA OnlyAll ==
    ASSUME NEW s, IsSeq(s), NEW S, ToSet(s) \subseteq S
    PROVE  Only(s, S) = s
<1> DEFINE E == ToSet(s)
           G == {t \in Seq(E) : Only(t, S) = t}
<1>1. << >> \in G
  BY OnlyNothing
<1>2. ASSUME NEW t \in G \cap Seq(E), NEW x \in E PROVE Append(t, x) \in G
  <2>1. IsSeq(t) /\ x \in S /\ Only(t, S) = t
    BY SeqIs
  <2>2. Only(Append(t, x), S) = Append(t, x)
    BY <2>1, OnlyAdds
  <2> QED
    BY <2>2
<1> HIDE DEF G
<1>3. s \in G
  BY <1>1, <1>2, AllSeq, InSeq
<1> QED
  BY <1>3 DEF G

LEMMA OnlyNone ==
    ASSUME NEW s, IsSeq(s), NEW S, ToSet(s) \cap S = {}
    PROVE  Only(s, S) = << >>
<1> DEFINE E == ToSet(s)
           G == {t \in Seq(E) : Only(t, S) = << >>}
<1>1. << >> \in G
  BY OnlyNothing
<1>2. ASSUME NEW t \in G \cap Seq(E), NEW x \in E PROVE Append(t, x) \in G
  <2>1. IsSeq(t) /\ x \notin S
    BY SeqIs
  <2> QED
    BY <2>1, OnlyAdds
<1> HIDE DEF G
<1>3. s \in G
  BY <1>1, <1>2, AllSeq, InSeq
<1> QED
  BY <1>3 DEF G

(* No element twice.                                                       *)
Once(s) == \A i, j \in 1..Len(s) : s[i] = s[j] => i = j

LEMMA OnceAdds ==
    ASSUME NEW s, IsSeq(s), NEW x
    PROVE  Once(Append(s, x)) <=> Once(s) /\ x \notin ToSet(s)
<1>1. Len(s) \in Nat /\ Len(Append(s, x)) = Len(s) + 1 /\ Append(s, x)[Len(s) + 1] = x
      /\ \A i \in 1..Len(s) : Append(s, x)[i] = s[i]
  BY Adds, SeqHas
<1>2. \A i \in 1..(Len(s) + 1) : i \in 1..Len(s) \/ i = Len(s) + 1
  BY <1>1
<1>3. Len(s) + 1 \in 1..(Len(s) + 1) /\ Len(s) + 1 \notin 1..Len(s)
      /\ \A i \in 1..Len(s) : i \in 1..(Len(s) + 1)
  BY <1>1
<1>4. x \in ToSet(s) <=> \E i \in 1..Len(s) : s[i] = x
  BY ToSetIs
<1> QED
  BY <1>1, <1>2, <1>3, <1>4 DEF Once

LEMMA OnlyOnce ==
    ASSUME NEW s, IsSeq(s), NEW S, Once(s)
    PROVE  Once(Only(s, S))
<1> DEFINE E == ToSet(s)
           G == {t \in Seq(E) : Once(t) => Once(Only(t, S))}
<1>1. << >> \in G
  BY OnlyNothing
<1>2. ASSUME NEW t \in G \cap Seq(E), NEW x \in E PROVE Append(t, x) \in G
  <2>1. IsSeq(t) /\ IsSeq(Only(t, S)) /\ ToSet(Only(t, S)) = ToSet(t) \cap S
    BY SeqIs, OnlySet
  <2>2. Only(Append(t, x), S) = IF x \in S THEN Append(Only(t, S), x) ELSE Only(t, S)
    BY <2>1, OnlyAdds
  <2>3. Once(Append(t, x)) => Once(Only(Append(t, x), S))
    BY <2>1, <2>2, OnceAdds
  <2> QED
    BY <2>3
<1> HIDE DEF G
<1>3. s \in G
  BY <1>1, <1>2, AllSeq, InSeq
<1> QED
  BY <1>3 DEF G
=============================================================================
