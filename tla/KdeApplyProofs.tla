---------------------------- MODULE KdeApplyProofs ----------------------------
(***************************************************************************)
(* Proofs about KdeSession: what apply and restore make of the outputs, as *)
(* long as nothing else changes them; and its type correctness.            *)
(*                                                                         *)
(* The argument: at the end of the refresh's round trip the State has of   *)
(* each output exactly what KWin has (Settled), so the configuration built *)
(* of it, if KWin applies it, makes of each head what the plan wants of it *)
(* as it is (Right), and that is what the plan wants of the head as it was *)
(* when the call began, whether nothing or the first configuration of a    *)
(* restore has come before (Undone, FitsTwice).  Until KWin has applied the*)
(* configuration at hand nothing has changed; from then on it is in force  *)
(* (InForce), and apply returns Ok only then.                              *)
(***************************************************************************)
EXTENDS KdeProofs

-----------------------------------------------------------------------------
(* Plans: the first configuration of a restore, and how a head comes to be *)
(* as a plan wants it, given how it was.                                   *)
First(p) == [p EXCEPT !.dis = {}]

Alternatives(want, ks) == {k \in ToSet(ks) : want # None /\ k.size = want.size}
Suits(is, was, want, ks) ==
    /\ Alternatives(want, ks) = {} => is = was
    /\ Alternatives(want, ks) # {} =>
          /\ is \in Alternatives(want, ks)
          /\ \A k \in Alternatives(want, ks) : Apart(is, want) <= Apart(k, want)

Fits(g, h, p, n) ==
    /\ g.modes = h.modes
    /\ g.on <=> n \notin p.dis /\ (n \in DOMAIN p.en \/ h.on)
    /\ n \in DOMAIN p.en =>
          /\ g.place = Or(p.en[n].place, h.place)
          /\ Suits(g.mode, h.mode, p.en[n].mode, h.modes)
    /\ n \notin DOMAIN p.en => g.place = h.place /\ g.mode = h.mode
Same(g, h) == /\ g.modes = h.modes /\ g.place = h.place /\ g.mode = h.mode
              /\ g.on <=> h.on

(* The outputs of D have priorities of their own, the first is p's primary.*)
Ranked(h, D, p) ==
    \A d \in D :
        /\ h[d].prio > 0
        /\ p.primary # None => (h[d].prio = 1 <=> Connector[d] = p.primary)
        /\ \A e \in D \ {d} : h[d].prio # h[e].prio

(* What the plan wants of a head as it is, it wants of it as it was.       *)
LEMMA FirstIs ==
    ASSUME NEW p \in Plans
    PROVE  /\ First(p).dis = {} /\ First(p).en = p.en /\ First(p).primary = p.primary
           /\ p.dis \cap DOMAIN p.en = {} /\ First(p).dis \cap DOMAIN p.en = {}
           /\ \A n \in DOMAIN p.en :
                 p.en[n].mode \in Kind \cup {None} /\ p.en[n].place \in Place \cup {None}
BY PlansAre DEF First

LEMMA FitsAgain ==
    ASSUME NEW g, NEW h, NEW b, NEW p, NEW n, Fits(g, h, p, n), Same(h, b)
    PROVE  Fits(g, b, p, n)
BY DEF Fits, Same

LEMMA FitsTwice ==
    ASSUME NEW g, NEW h, NEW b, NEW p \in Plans, NEW n, Fits(g, h, p, n), Fits(h, b, First(p), n)
    PROVE  Fits(g, b, p, n)
<1>1. First(p).dis = {} /\ First(p).en = p.en
  BY FirstIs
<1>2. /\ g.modes = b.modes /\ h.modes = b.modes
      /\ g.on <=> n \notin p.dis /\ (n \in DOMAIN p.en \/ b.on)
  BY <1>1 DEF Fits
<1>3. CASE n \in DOMAIN p.en
  <2> DEFINE want == p.en[n].mode
  <2>1. g.place = Or(p.en[n].place, h.place) /\ h.place = Or(p.en[n].place, b.place)
    BY <1>1, <1>3 DEF Fits
  <2>2. g.place = Or(p.en[n].place, b.place)
    BY <2>1 DEF Or
  <2>3. Suits(g.mode, h.mode, want, b.modes) /\ Suits(h.mode, b.mode, want, b.modes)
    BY <1>1, <1>2, <1>3 DEF Fits
  <2> HIDE DEF want
  <2>4. Suits(g.mode, b.mode, want, b.modes)
    BY <2>3 DEF Suits
  <2> QED
    BY <1>2, <1>3, <2>2, <2>4 DEF Fits, want
<1>4. CASE n \notin DOMAIN p.en
  BY <1>1, <1>2, <1>4 DEF Fits
<1> QED
  BY <1>3, <1>4

-----------------------------------------------------------------------------
(* The priorities a configuration writes.                                  *)
Behind(live, p, i) == {j \in 1..i : Connector[live[j]] # p.primary}

LEMMA OthersCount ==
    ASSUME NEW live, NEW p, NEW i \in Nat, NEW k \in 1..i
    PROVE  /\ Cardinality(Behind(live, p, k)) \in Nat /\ Cardinality(Behind(live, p, i)) \in Nat
           /\ Connector[live[i]] # p.primary =>
                 /\ Cardinality(Behind(live, p, i)) > 0
                 /\ k # i => Cardinality(Behind(live, p, k)) < Cardinality(Behind(live, p, i))
<1> DEFINE S == Behind(live, p, i)
           T == Behind(live, p, k)
<1>1. IsFiniteSet(1..i) /\ S \in SUBSET (1..i) /\ T \in SUBSET S
  BY FS_Interval DEF Behind
<1>2. IsFiniteSet(S)
  <2> HIDE DEF S, T
  <2> QED
    BY <1>1, FS_Subset
<1>3. Connector[live[i]] # p.primary => i \in S /\ (k # i => i \notin T)
  BY DEF Behind
<1> HIDE DEF S, T
<1>4. IsFiniteSet(T) /\ Cardinality(T) <= Cardinality(S) /\ (Cardinality(S) = Cardinality(T) => S = T)
  BY <1>1, <1>2, FS_Subset
<1>5. Cardinality(S) \in Nat /\ Cardinality(T) \in Nat
  BY <1>2, <1>4, FS_CardinalityType
<1>6. Connector[live[i]] # p.primary => Cardinality(S) > 0
  <2>1. Cardinality(S) = 0 => S = {}
    BY <1>2, FS_EmptySet
  <2> QED
    BY <1>3, <1>5, <2>1
<1>7. Connector[live[i]] # p.primary /\ k # i => Cardinality(T) < Cardinality(S)
  BY <1>3, <1>4, <1>5
<1> QED
  BY <1>5, <1>6, <1>7 DEF S, T

ToldApart(live) ==
    \A i, j \in 1..Len(live) : Connector[live[i]] = Connector[live[j]] => live[i] = live[j]
Placed(live, p, i, j) ==
    /\ Priority(live, p, i) > 0
    /\ p.primary # None => (Priority(live, p, i) = 1 <=> Connector[live[i]] = p.primary)
    /\ live[i] # live[j] => Priority(live, p, i) # Priority(live, p, j)

LEMMA PrioritiesRank ==
    ASSUME NEW live \in Seq(Dev), NEW p, ToldApart(live)
    PROVE  \A i, j \in 1..Len(live) : Placed(live, p, i, j)
<1> DEFINE c(i) == Cardinality(Behind(live, p, i))
           lead == IF p.primary = None THEN 0 ELSE 1
<1>1. Len(live) \in Nat /\ lead \in {0, 1} /\ (p.primary # None => lead = 1)
  OBVIOUS
<1>2. \A i \in 1..Len(live) : live[i] \in Dev /\ Connector[live[i]] # None
  BY Names DEF Dev
<1>3. \A i \in 1..Len(live) :
         Priority(live, p, i) = IF Connector[live[i]] = p.primary THEN 1 ELSE c(i) + lead
  BY DEF Priority, Behind
<1> HIDE DEF lead
<1>4. ASSUME NEW i \in 1..Len(live), NEW k \in 1..i
      PROVE  /\ c(k) \in Nat /\ c(i) \in Nat
             /\ Connector[live[i]] # p.primary => c(i) > 0 /\ (k # i => c(k) < c(i))
  <2>1. i \in Nat
    BY <1>1
  <2> QED
    BY <2>1, OthersCount
<1> HIDE DEF c
<1>5. ASSUME NEW i \in 1..Len(live)
      PROVE  c(i) \in Nat /\ (Connector[live[i]] # p.primary => c(i) > 0)
  <2>1. i \in 1..i
    BY <1>1
  <2> QED
    BY <1>4, <2>1
<1>6. ASSUME NEW i \in 1..Len(live), NEW j \in 1..Len(live), Connector[live[i]] # p.primary,
             Connector[live[j]] # p.primary, i # j
      PROVE  c(i) # c(j)
  <2>1. i \in 1..j \/ j \in 1..i
    BY <1>1
  <2> QED
    BY <1>1, <1>4, <1>5, <1>6, <2>1
<1> SUFFICES ASSUME NEW i \in 1..Len(live), NEW j \in 1..Len(live)
             PROVE  Placed(live, p, i, j)
  OBVIOUS
<1>7. Priority(live, p, i) > 0
      /\ (p.primary # None => (Priority(live, p, i) = 1 <=> Connector[live[i]] = p.primary))
  BY <1>1, <1>3, <1>5
<1>8. ASSUME live[i] # live[j] PROVE Priority(live, p, i) # Priority(live, p, j)
  <2>1. Connector[live[i]] # Connector[live[j]] /\ i # j
    BY <1>8 DEF ToldApart
  <2>2. Connector[live[i]] = p.primary \/ Connector[live[j]] = p.primary => p.primary # None
    BY <1>2
  <2>3. CASE Connector[live[i]] # p.primary /\ Connector[live[j]] # p.primary
    BY <1>1, <1>3, <1>5, <1>6, <2>1, <2>3
  <2>4. CASE Connector[live[i]] = p.primary
    BY <1>1, <1>3, <1>5, <2>1, <2>2, <2>4
  <2>5. CASE Connector[live[j]] = p.primary
    BY <1>1, <1>3, <1>5, <2>1, <2>2, <2>5
  <2> QED
    BY <2>3, <2>4, <2>5
<1> QED
  BY <1>7, <1>8 DEF Placed

-----------------------------------------------------------------------------
(* The mode found is one of the wanted size nearest in refresh.            *)
LEMMA Least ==
    ASSUME NEW S, S \subseteq Nat, S # {}
    PROVE  \E n \in S : \A k \in S : n <= k
<1>1. PICK n \in S : \A k \in S : ~(<<k, n>> \in OpToRel(<, Nat))
  BY NatLessThanWellFounded, WFMin
<1>2. n \in Nat /\ \A k \in S : ~(k < n)
  BY <1>1 DEF OpToRel
<1> QED
  BY <1>2

LEMMA ApartIs ==
    ASSUME NEW k \in Kind, NEW want \in Kind
    PROVE  Apart(k, want) \in Nat /\ (k = want => Apart(k, want) = 0)
BY Rates DEF Apart

LEMMA FindModeIs ==
    ASSUME NEW s \in States, NEW d \in Dev, NEW want \in Kind, NEW ks, KindsOf(s, d) = ks,
           \A k \in ToSet(ks) : <<d, k>> \in s.info
    PROVE  /\ Alternatives(want, ks) = {} => FindMode(s, d, want) = None
           /\ Alternatives(want, ks) # {} =>
                 /\ FindMode(s, d, want) \in Alternatives(want, ks)
                 /\ \A k \in Alternatives(want, ks) :
                       Apart(FindMode(s, d, want), want) <= Apart(k, want)
<1> DEFINE k(i) == s.modes[i][2]
           like == {i \in DOMAIN s.modes : /\ s.modes[i] \in ({d} \X Kind) \cap s.info
                                           /\ s.modes[i][2].size = want.size}
           near == {i \in like : \A j \in like : Apart(k(i), want) <= Apart(k(j), want)}
           best == CHOOSE i \in near : \A j \in near : i <= j
           A == Alternatives(want, ks)
<1>1. FindMode(s, d, want) = IF like = {} THEN None ELSE k(best)
  BY DEF FindMode
<1>2. /\ s.modes \in Seq(Dev \X Kind) /\ IsSeq(s.modes) /\ DOMAIN s.modes = 1..Len(s.modes)
      /\ Len(s.modes) \in Nat /\ ks \in Seq(Kind)
      /\ \A x \in Kind : x \in ToSet(ks) <=> <<d, x>> \in ToSet(s.modes)
  <2>1. s.modes \in Seq(Dev \X Kind)
    BY DEF States
  <2> QED
    BY <2>1, KindsAre, SeqHas
<1>3. ToSet(ks) \subseteq Kind /\ want # None /\ A \subseteq Kind
  <2>1. ToSet(ks) \subseteq Kind
    BY <1>2, KindsIn
  <2> QED
    BY <2>1, NoneIsNothing DEF Alternatives
<1>4. ASSUME NEW i \in like PROVE k(i) \in A
  <2>1. s.modes[i] = <<d, k(i)>> /\ k(i) \in Kind /\ k(i).size = want.size
    OBVIOUS
  <2>2. s.modes[i] \in ToSet(s.modes)
    BY <1>2, ToSetIs
  <2> HIDE DEF k
  <2>3. k(i) \in ToSet(ks)
    BY <1>2, <2>1, <2>2
  <2> QED
    BY <1>3, <2>1, <2>3 DEF Alternatives
<1>5. ASSUME NEW x \in A PROVE \E i \in like : k(i) = x
  <2>1. x \in ToSet(ks) /\ x.size = want.size /\ x \in Kind
    BY <1>3 DEF Alternatives
  <2>2. PICK i \in 1..Len(s.modes) : s.modes[i] = <<d, x>>
    <3>1. <<d, x>> \in ToSet(s.modes)
      BY <1>2, <2>1
    <3> QED
      BY <1>2, <3>1, ToSetIs
  <2>3. <<d, x>> \in s.info /\ <<d, x>> \in {d} \X Kind /\ <<d, x>>[2] = x
    BY <2>1
  <2> QED
    BY <1>2, <2>1, <2>2, <2>3
<1>6. like \subseteq 1..Len(s.modes) /\ \A i, j \in like : s.modes[i] = s.modes[j] => k(i) = k(j)
  BY <1>2
<1> HIDE DEF like, A
<1>7. CASE like = {}
  <2>1. A = {}
    BY <1>5, <1>7
  <2> QED
    BY <1>1, <1>7, <2>1 DEF A
<1>8. CASE like # {}
  <2>1. \A i \in like : k(i) \in Kind /\ Apart(k(i), want) \in Nat
    BY <1>3, <1>4, ApartIs
  <2>2. near # {}
    <3> DEFINE S == {Apart(k(i), want) : i \in like}
    <3>1. S \subseteq Nat /\ S # {}
      BY <1>8, <2>1
    <3>2. \A i \in like : Apart(k(i), want) \in S
      OBVIOUS
    <3>3. \A n \in S : \E i \in like : Apart(k(i), want) = n
      OBVIOUS
    <3> HIDE DEF S, k
    <3>4. PICK n \in S : \A m \in S : n <= m
      BY <3>1, Least
    <3>5. PICK i \in like : Apart(k(i), want) = n
      BY <3>3
    <3> QED
      BY <3>2, <3>4, <3>5
  <2>3. near \subseteq Nat
    <3>1. near \subseteq like
      OBVIOUS
    <3> HIDE DEF near
    <3> QED
      BY <1>2, <1>6, <3>1
  <2>4. \E i \in near : \A j \in near : i <= j
    <3> HIDE DEF near
    <3> QED
      BY <2>2, <2>3, Least
  <2>5. best \in near
    <3> HIDE DEF near
    <3> QED
      BY <2>4
  <2>6. best \in like /\ \A j \in like : Apart(k(best), want) <= Apart(k(j), want)
    <3> HIDE DEF best, k
    <3> QED
      BY <2>5
  <2> HIDE DEF best, k
  <2>7. k(best) \in A /\ \A x \in A : Apart(k(best), want) <= Apart(x, want)
    BY <1>4, <1>5, <2>6
  <2> QED
    BY <1>1, <1>8, <2>7 DEF A
<1> QED
  BY <1>7, <1>8

-----------------------------------------------------------------------------
(* The configuration built of what KWin has.                               *)
LEMMA FullShown ==
    ASSUME NEW s \in States, NEW d \in Dev, NEW h, HeadOK(h), View(s, d) = Full(h)
    PROVE  /\ d \in ToSet(LiveHeads(s)) /\ HeadShown(s, d) = Shown(h)
           /\ KindsOf(s, d) = h.modes /\ \A k \in ToSet(h.modes) : <<d, k>> \in s.info
<1> DEFINE v == View(s, d)
<1>1. v.here /\ v.dev.named /\ v.dev.done /\ v.modes = h.modes /\ v.info = ToSet(h.modes)
  BY DEF Full, Listed, Pieces
<1>2. Shows(v) = Shown(h)
  BY FullIs
<1>3. h.modes \in Seq(Kind)
  BY DEF HeadOK, HeadType
<1>4. ToSet(h.modes) \subseteq Kind
  BY <1>3, KindsIn
<1>5. /\ v.modes = KindsOf(s, d)
      /\ \A k \in Kind : k \in v.info <=> <<d, k>> \in s.info
  BY ViewTyped
<1>6. /\ d \in ToSet(LiveHeads(s)) => HeadShown(s, d) = Shows(v)
      /\ d \in ToSet(LiveHeads(s)) <=> v.here /\ v.dev.named /\ v.dev.done
  BY SnapshotIs
<1> HIDE DEF v
<1> QED
  BY <1>1, <1>2, <1>4, <1>5, <1>6

(* What it writes of one head, and so makes of it.                         *)
Builds(c, s, p) ==
    LET b == Configuration(s, p) IN
    c.on = b.on /\ c.mode = b.mode /\ c.place = b.place /\ c.prio = b.prio

LEMMA WrittenIs ==
    ASSUME NEW s, NEW p, NEW c, Builds(c, s, p), NEW d
    PROVE  LET D == ToSet(LiveHeads(s))
               h == HeadShown(s, d)
               w == Target(h, Connector[d], p)
               m == FindMode(s, d, w.mode)
           IN
           /\ d \in DOMAIN c.on <=> d \in D /\ w.on # h.on
           /\ d \in DOMAIN c.on => c.on[d] = w.on
           /\ d \in DOMAIN c.mode <=> d \in D /\ w.on /\ w.mode \notin {None, h.mode} /\ m # None
           /\ d \in DOMAIN c.mode => c.mode[d] = m
           /\ d \in DOMAIN c.place <=> d \in D /\ w.on /\ w.place \notin {None, h.place}
           /\ d \in DOMAIN c.place => c.place[d] = w.place
           /\ d \in DOMAIN c.prio <=> d \in D
           /\ d \in DOMAIN c.prio =>
                 c.prio[d] = Priority(LiveHeads(s), p,
                                      CHOOSE i \in DOMAIN LiveHeads(s) : LiveHeads(s)[i] = d)
BY DEF Builds, Configuration

Made(h, c, d) ==
    [h EXCEPT !.on = IF d \in DOMAIN c.on THEN c.on[d] ELSE h.on,
              !.mode = IF d \in DOMAIN c.mode THEN c.mode[d] ELSE h.mode,
              !.place = IF d \in DOMAIN c.place THEN c.place[d] ELSE h.place,
              !.prio = IF d \in DOMAIN c.prio THEN c.prio[d] ELSE 0]

LEMMA MadeIs ==
    ASSUME NEW h \in HeadType, NEW c, NEW d
    PROVE  LET g == Made(h, c, d) IN
           /\ g.at = h.at /\ g.told = h.told /\ g.modes = h.modes
           /\ g.on = IF d \in DOMAIN c.on THEN c.on[d] ELSE h.on
           /\ g.mode = IF d \in DOMAIN c.mode THEN c.mode[d] ELSE h.mode
           /\ g.place = IF d \in DOMAIN c.place THEN c.place[d] ELSE h.place
           /\ g.prio = IF d \in DOMAIN c.prio THEN c.prio[d] ELSE 0
<1> DEFINE on == IF d \in DOMAIN c.on THEN c.on[d] ELSE h.on
           mode == IF d \in DOMAIN c.mode THEN c.mode[d] ELSE h.mode
           place == IF d \in DOMAIN c.place THEN c.place[d] ELSE h.place
           prio == IF d \in DOMAIN c.prio THEN c.prio[d] ELSE 0
           g == [h EXCEPT !.on = on, !.mode = mode, !.place = place, !.prio = prio]
<1>1. Made(h, c, d) = g
  BY DEF Made
<1> HIDE DEF on, mode, place, prio
<1>2. /\ g.at = h.at /\ g.told = h.told /\ g.modes = h.modes
      /\ g.on = on /\ g.mode = mode /\ g.place = place /\ g.prio = prio
  BY DEF HeadType
<1> HIDE DEF g
<1> QED
  BY <1>1, <1>2 DEF on, mode, place, prio

LEMMA MadeOf ==
    ASSUME HeadsOK(heads), NEW c, NEW d \in There
    PROVE  LET g == Configured(c)[d] IN
           /\ g = Made(heads[d], c, d)
           /\ g.at = heads[d].at /\ g.told = heads[d].told /\ g.modes = heads[d].modes
           /\ g.on = IF d \in DOMAIN c.on THEN c.on[d] ELSE heads[d].on
           /\ g.mode = IF d \in DOMAIN c.mode THEN c.mode[d] ELSE heads[d].mode
           /\ g.place = IF d \in DOMAIN c.place THEN c.place[d] ELSE heads[d].place
           /\ g.prio = IF d \in DOMAIN c.prio THEN c.prio[d] ELSE 0
<1>1. d \in Dev /\ heads[d] \in HeadType
  BY DEF There, HeadsOK, HeadOK
<1>2. Configured(c)[d] = Made(heads[d], c, d)
  BY <1>1 DEF Configured, Made
<1> QED
  BY <1>1, <1>2, MadeIs

LEMMA WrittenFits ==
    ASSUME HeadsOK(heads), NEW s \in States, NEW p, NEW q \in Plans, p \in {q, First(q)},
           NEW c, Builds(c, s, p), NEW d \in There, View(s, d) = Full(heads[d])
    PROVE  Fits(Configured(c)[d], heads[d], p, Connector[d])
<1> DEFINE g == Configured(c)[d]
           h == heads[d]
           n == Connector[d]
           w == Target(HeadShown(s, d), n, p)
           m == FindMode(s, d, w.mode)
<1>1. d \in Dev /\ HeadOK(h)
  BY DEF There, HeadsOK
<1>2. /\ d \in ToSet(LiveHeads(s)) /\ HeadShown(s, d) = Shown(h)
      /\ KindsOf(s, d) = h.modes /\ \A k \in ToSet(h.modes) : <<d, k>> \in s.info
  BY <1>1, FullShown
<1>3. /\ h.on \in BOOLEAN /\ h.mode \in Kind /\ h.mode \in ToSet(h.modes) /\ h.place \in Place
  BY <1>1 DEF HeadOK, HeadType
<1>4. /\ w.on <=> n \notin p.dis /\ (n \in DOMAIN p.en \/ h.on)
      /\ w.on \in BOOLEAN
      /\ w.mode = IF n \in DOMAIN p.en THEN Or(p.en[n].mode, h.mode) ELSE h.mode
      /\ w.place = IF n \in DOMAIN p.en THEN Or(p.en[n].place, h.place) ELSE h.place
  <2> DEFINE t == Target(Shown(h), n, p)
  <2>1. w = t
    BY <1>2
  <2> HIDE DEF h, n
  <2>2. /\ t.on = (n \notin p.dis /\ (n \in DOMAIN p.en \/ h.on))
        /\ t.mode = IF n \in DOMAIN p.en THEN Or(p.en[n].mode, h.mode) ELSE h.mode
        /\ t.place = IF n \in DOMAIN p.en THEN Or(p.en[n].place, h.place) ELSE h.place
    BY DEF Target, Shown
  <2> HIDE DEF t, w
  <2> QED
    BY <1>3, <2>1, <2>2
<1>5. /\ p.dis \cap DOMAIN p.en = {}
      /\ \A x \in DOMAIN p.en :
            p.en[x].mode \in Kind \cup {None} /\ p.en[x].place \in Place \cup {None}
  BY FirstIs
<1>6. HeadShown(s, d).on = h.on /\ HeadShown(s, d).mode = h.mode /\ HeadShown(s, d).place = h.place
  BY <1>2 DEF Shown
<1>7. /\ d \in DOMAIN c.on <=> w.on # h.on
      /\ d \in DOMAIN c.on => c.on[d] = w.on
      /\ d \in DOMAIN c.mode <=> w.on /\ w.mode \notin {None, h.mode} /\ m # None
      /\ d \in DOMAIN c.mode => c.mode[d] = m
      /\ d \in DOMAIN c.place <=> w.on /\ w.place \notin {None, h.place}
      /\ d \in DOMAIN c.place => c.place[d] = w.place
  BY <1>2, <1>6, WrittenIs
<1>8. /\ g.modes = h.modes
      /\ g.on = IF d \in DOMAIN c.on THEN c.on[d] ELSE h.on
      /\ g.mode = IF d \in DOMAIN c.mode THEN c.mode[d] ELSE h.mode
      /\ g.place = IF d \in DOMAIN c.place THEN c.place[d] ELSE h.place
  BY MadeOf
<1>9. None \notin Kind /\ None \notin Place
  BY NoneIsNothing
<1>10. m = FindMode(s, d, w.mode)
  OBVIOUS
<1> HIDE DEF g, h, n, w, m
<1>11. g.on <=> n \notin p.dis /\ (n \in DOMAIN p.en \/ h.on)
  BY <1>3, <1>4, <1>7, <1>8
<1>12. ASSUME n \notin DOMAIN p.en PROVE g.place = h.place /\ g.mode = h.mode
  BY <1>4, <1>7, <1>8, <1>12
<1>13. ASSUME n \in DOMAIN p.en PROVE g.place = Or(p.en[n].place, h.place)
  <2>1. w.on
    BY <1>4, <1>5, <1>13
  <2>2. w.place = Or(p.en[n].place, h.place) /\ w.place # None
    BY <1>3, <1>4, <1>5, <1>9, <1>13 DEF Or
  <2> QED
    BY <1>7, <1>8, <2>1, <2>2
<1>14. ASSUME n \in DOMAIN p.en PROVE Suits(g.mode, h.mode, p.en[n].mode, h.modes)
  <2> DEFINE want == p.en[n].mode
  <2>1. w.on /\ want \in Kind \cup {None} /\ w.mode = Or(want, h.mode)
    BY <1>4, <1>5, <1>14
  <2> HIDE DEF want
  <2>2. CASE want = None
    <3>1. g.mode = h.mode
      BY <1>7, <1>8, <2>1, <2>2 DEF Or
    <3>2. Alternatives(want, h.modes) = {}
      BY <2>2 DEF Alternatives
    <3> QED
      BY <3>1, <3>2 DEF Suits, want
  <2>3. CASE want = h.mode
    <3>1. g.mode = h.mode /\ want \in Kind
      BY <1>3, <1>7, <1>8, <2>1, <2>3 DEF Or
    <3>2. h.mode \in Alternatives(want, h.modes) /\ Apart(h.mode, want) = 0
      BY <1>3, <1>9, <2>3, ApartIs DEF Alternatives
    <3>3. ToSet(h.modes) \subseteq Kind
      BY <1>1, KindsIn DEF HeadOK, HeadType, h
    <3>4. \A k \in Alternatives(want, h.modes) : Apart(k, want) \in Nat
      BY <3>1, <3>3, ApartIs DEF Alternatives
    <3> QED
      BY <3>1, <3>2, <3>4 DEF Suits, want
  <2>4. CASE want \notin {None, h.mode}
    <3> DEFINE A == Alternatives(want, h.modes)
    <3>1. want \in Kind /\ w.mode = want /\ w.mode \notin {None, h.mode}
      BY <2>1, <2>4 DEF Or
    <3>2. /\ A = {} => m = None
          /\ A # {} => m \in A /\ \A k \in A : Apart(m, want) <= Apart(k, want)
      BY <1>1, <1>2, <1>10, <3>1, FindModeIs
    <3>3. A \subseteq Kind
      <4>1. ToSet(h.modes) \subseteq Kind
        BY <1>1, KindsIn DEF HeadOK, HeadType, h
      <4> QED
        BY <4>1 DEF Alternatives
    <3> HIDE DEF A
    <3>4. CASE A = {}
      <4>1. g.mode = h.mode
        BY <1>7, <1>8, <3>2, <3>4
      <4> QED
        BY <3>4, <4>1 DEF Suits, want, A
    <3>5. CASE A # {}
      <4>1. g.mode = m
        BY <1>7, <1>8, <1>9, <2>1, <3>1, <3>2, <3>3, <3>5
      <4>2. g.mode \in A /\ \A k \in A : Apart(g.mode, want) <= Apart(k, want)
        BY <3>2, <3>5, <4>1
      <4> QED
        BY <3>5, <4>2 DEF Suits, want, A
    <3> QED
      BY <3>4, <3>5
  <2> QED
    BY <2>2, <2>3, <2>4 DEF want
<1> QED
  BY <1>8, <1>11, <1>12, <1>13, <1>14 DEF Fits, g, h, n

(* And the priorities.                                                     *)
LEMMA WrittenRanks ==
    ASSUME HeadsOK(heads), NEW s \in States, NEW p, NEW c, Builds(c, s, p),
           NEW D, D = ToSet(LiveHeads(s)),
           \A d, e \in D : Connector[d] = Connector[e] => d = e,
           NEW K, K \subseteq There, K \subseteq D
    PROVE  Ranked(Configured(c), K, p)
<1> DEFINE live == LiveHeads(s)
           at(d) == CHOOSE i \in DOMAIN live : live[i] = d
<1>1. /\ live \in Seq(Dev) /\ IsSeq(live) /\ DOMAIN live = 1..Len(live) /\ Len(live) \in Nat
      /\ \A d \in D : \E i \in 1..Len(live) : live[i] = d
  BY LiveIs
<1>2. \A i \in 1..Len(live) : live[i] \in D
  BY <1>1, ToSetIs
<1> HIDE DEF live
<1>3. \A i, j \in 1..Len(live) : Placed(live, p, i, j)
  <2>1. ToldApart(live)
    BY <1>2 DEF ToldApart
  <2> QED
    BY <1>1, <2>1, PrioritiesRank
<1>4. ASSUME NEW d \in K
      PROVE  at(d) \in 1..Len(live) /\ live[at(d)] = d
             /\ Configured(c)[d].prio = Priority(live, p, at(d))
  <2>1. \E i \in DOMAIN live : live[i] = d
    BY <1>1
  <2>2. at(d) \in DOMAIN live /\ live[at(d)] = d
    BY <2>1
  <2>3. d \in DOMAIN c.prio /\ c.prio[d] = Priority(live, p, at(d))
    BY WrittenIs DEF live
  <2>4. Configured(c)[d].prio = IF d \in DOMAIN c.prio THEN c.prio[d] ELSE 0
    BY MadeOf
  <2> QED
    BY <1>1, <2>2, <2>3, <2>4
<1> DEFINE g == Configured(c)
<1> HIDE DEF at, g
<1>5. \A d, e \in K : /\ g[d].prio > 0
                      /\ p.primary # None => (g[d].prio = 1 <=> Connector[d] = p.primary)
                      /\ d # e => g[d].prio # g[e].prio
  <2> SUFFICES ASSUME NEW d \in K, NEW e \in K
               PROVE  /\ g[d].prio > 0
                      /\ p.primary # None => (g[d].prio = 1 <=> Connector[d] = p.primary)
                      /\ d # e => g[d].prio # g[e].prio
    OBVIOUS
  <2>1. /\ at(d) \in 1..Len(live) /\ live[at(d)] = d /\ g[d].prio = Priority(live, p, at(d))
        /\ at(e) \in 1..Len(live) /\ live[at(e)] = e /\ g[e].prio = Priority(live, p, at(e))
    BY <1>4 DEF g
  <2> DEFINE a == at(d)
             b == at(e)
  <2>2. a \in 1..Len(live) /\ b \in 1..Len(live) /\ live[a] = d /\ live[b] = e
        /\ g[d].prio = Priority(live, p, a) /\ g[e].prio = Priority(live, p, b)
    BY <2>1
  <2> HIDE DEF a, b
  <2>3. /\ Priority(live, p, a) > 0
        /\ p.primary # None => (Priority(live, p, a) = 1 <=> Connector[live[a]] = p.primary)
        /\ live[a] # live[b] => Priority(live, p, a) # Priority(live, p, b)
    BY <1>3, <2>2 DEF Placed
  <2> QED
    BY <2>2, <2>3
<1> QED
  BY <1>5 DEF Ranked, g

-----------------------------------------------------------------------------
(* The invariant.                                                          *)

(* The outputs there that KWin had described when the call began.          *)
Known == {d \in There : hist.before[d].told = "described"}

(* Names tell the outputs there are apart.                                 *)
Distinct == \A d, e \in There : Connector[d] = Connector[e] => d = e

(* What apply is about, and how many configurations have come before that  *)
(* of its present round.                                                   *)
AtWork == me.then \in {"refresh", "verdict"}
Earlier == Len(hist.fate) - hist.sent - (IF me.then = "verdict" THEN 1 ELSE 0)
Phases ==
    /\ Busy => me.then # None
    /\ me.call = "apply" => me.then \in {None, "refresh", "verdict"}
    /\ me.at = "off" => me.call = "connect"
Rounds ==
    AtWork =>
        /\ me.plan \in Plans
        /\ me.todo \in {<<me.plan>>, <<First(me.plan), me.plan>>}
        /\ Earlier \in {0, 1}
        /\ Earlier = 1 => Len(me.todo) = 1

(* As long as only the call changes the outputs.                           *)
Steady ==
    AtWork /\ hist.alone =>
        \A d \in Dev : hist.before[d].told = "described" => heads[d].told = "described"

(* At the end of the refresh's round trip the State has what KWin has.     *)
Settled ==
    me.then = "refresh" /\ hist.alone =>
        \A n \in 0..Len(wire) : Ripe(n) => \A d \in Dev :
            /\ d \in Known => View(At(st, wire, n), d) = Full(heads[d])
            /\ d \notin There => View(At(st, wire, n), d) \in Hidden

(* What KWin has decided, and what is in force before and after.           *)
Decided == me.then = "verdict" /\ hist.fate[Len(hist.fate)] = Applied
Undone ==
    \A d \in Known :
        /\ Earlier = 0 => Same(heads[d], hist.before[d])
        /\ Earlier = 1 => Fits(heads[d], hist.before[d], First(me.plan), Connector[d])
InForce(p) ==
    /\ \A d \in Known : Fits(heads[d], hist.before[d], p, Connector[d])
    /\ Ranked(heads, Known, p)

(* The configuration sent last makes what it should, wherever it is.       *)
Right(c) ==
    c.id = Len(hist.fate) =>
        /\ \A d \in Known : Fits(Configured(c)[d], heads[d], Head(me.todo), Connector[d])
        /\ Ranked(Configured(c), Known, Head(me.todo))
OnTheWay == inbox \cup {req[i].of : i \in {j \in 1..Len(req) : req[j].do = "apply"}}
Working ==
    AtWork /\ hist.alone =>
        /\ Decided => InForce(Head(me.todo))
        /\ ~Decided => Undone
        /\ me.then = "verdict" => \A c \in OnTheWay : Right(c)
Worked ==
    Applying /\ me.at = "idle" /\ me.out = "ok" /\ hist.alone => InForce(me.plan)

AInv == Phases /\ Rounds /\ Steady /\ Settled /\ Working /\ Worked /\ Distinct

(* What it says of the plan is what the properties do.                     *)
LEMMA WorkedIs == ASSUME Worked PROVE AppliedIsPlan
<1> SUFFICES ASSUME InForce(me.plan),
                    NEW d \in {x \in There : hist.before[x].told = "described"}
             PROVE  LET plan == me.plan
                        n == Connector[d]
                        was == hist.before[d]
                        is == heads[d]
                        want == IF n \in DOMAIN plan.en THEN plan.en[n].mode ELSE None
                        like == {k \in ToSet(is.modes) : want # None /\ k.size = want.size}
                    IN
                    /\ is.on <=> n \notin plan.dis /\ (n \in DOMAIN plan.en \/ was.on)
                    /\ n \in DOMAIN plan.en =>
                          /\ is.place = Or(plan.en[n].place, was.place)
                          /\ like = {} => is.mode = was.mode
                          /\ like # {} => is.mode \in like /\ \A k \in like :
                                Apart(is.mode, want) <= Apart(k, want)
                    /\ n \notin DOMAIN plan.en => is.place = was.place /\ is.mode = was.mode
                    /\ is.prio > 0
                    /\ plan.primary # None => (is.prio = 1 <=> n = plan.primary)
                    /\ \A e \in {x \in There : hist.before[x].told = "described"} \ {d} :
                          is.prio # heads[e].prio
  BY DEF Worked, AppliedIsPlan
<1> DEFINE p == me.plan
           n == Connector[d]
           was == hist.before[d]
           is == heads[d]
           want == IF n \in DOMAIN p.en THEN p.en[n].mode ELSE None
           like == {k \in ToSet(is.modes) : want # None /\ k.size = want.size}
<1>1. d \in Known /\ Known = {x \in There : hist.before[x].told = "described"}
  BY DEF Known
<1>2. Fits(is, was, p, n) /\ Ranked(heads, Known, p)
  BY <1>1 DEF InForce
<1>3. /\ is.prio > 0
      /\ p.primary # None => (is.prio = 1 <=> n = p.primary)
      /\ \A e \in Known \ {d} : is.prio # heads[e].prio
  BY <1>1, <1>2 DEF Ranked
<1> HIDE DEF is, was, p, n
<1>4. /\ is.on <=> n \notin p.dis /\ (n \in DOMAIN p.en \/ was.on)
      /\ n \in DOMAIN p.en => is.place = Or(p.en[n].place, was.place)
      /\ n \notin DOMAIN p.en => is.place = was.place /\ is.mode = was.mode
  BY <1>2 DEF Fits
<1>5. n \in DOMAIN p.en =>
          /\ like = {} => is.mode = was.mode
          /\ like # {} => is.mode \in like /\ \A k \in like : Apart(is.mode, want) <= Apart(k, want)
  <2> SUFFICES ASSUME n \in DOMAIN p.en
               PROVE  /\ like = {} => is.mode = was.mode
                      /\ like # {} => is.mode \in like
                                      /\ \A k \in like : Apart(is.mode, want) <= Apart(k, want)
    OBVIOUS
  <2>1. Suits(is.mode, was.mode, want, was.modes) /\ is.modes = was.modes
    BY <1>2 DEF Fits
  <2>2. like = Alternatives(want, was.modes)
    BY <2>1 DEF Alternatives
  <2> HIDE DEF like, want
  <2> QED
    BY <2>1, <2>2 DEF Suits
<1> QED
  BY <1>1, <1>3, <1>4, <1>5 DEF is, was, p, n

LEMMA LastTodo ==
    ASSUME Rounds, AtWork
    PROVE  /\ me.plan \in Plans /\ Head(me.todo) \in {me.plan, First(me.plan)}
           /\ Len(me.todo) = 1 => Head(me.todo) = me.plan
           /\ Len(me.todo) \in {1, 2}
           /\ Len(me.todo) > 1 => Tail(me.todo) = <<me.plan>>
<1> DEFINE p == me.plan
           f == First(p)
           todo == me.todo
<1>1. p \in Plans /\ todo \in {<<p>>, <<f, p>>}
  BY DEF Rounds
<1> HIDE DEF p, f, todo
<1>2. CASE todo = <<p>>
  BY <1>1, <1>2 DEF p, f, todo
<1>3. CASE todo = <<f, p>>
  BY <1>1, <1>3 DEF p, f, todo
<1> QED
  BY <1>1, <1>2, <1>3

LEMMA InOrder == ASSUME VInv, AInv PROVE RestoreInOrder
<1> SUFFICES ASSUME Applying, Busy, hist.alone, Len(hist.fate) = hist.sent + 2, NEW d \in There,
                    Connector[d] \in DOMAIN me.plan.en, hist.before[d].told = "described"
             PROVE  heads[d].on
  BY DEF RestoreInOrder
<1>1. AtWork /\ d \in Known
  BY DEF AInv, Phases, Applying, AtWork, Known
<1>2. hist.sent \in Nat /\ Len(hist.fate) \in Nat
  BY SeqHas DEF VInv, Shapes
<1>3. Earlier = 1 /\ Len(me.todo) = 1
  BY <1>1, <1>2 DEF AInv, Rounds, Earlier
<1>4. me.plan \in Plans /\ Head(me.todo) = me.plan
  BY <1>1, <1>3, LastTodo DEF AInv
<1>5. Connector[d] \notin me.plan.dis /\ First(me.plan).en = me.plan.en /\ First(me.plan).dis = {}
  BY <1>4, FirstIs
<1>6. CASE Decided
  <2>1. Fits(heads[d], hist.before[d], me.plan, Connector[d])
    BY <1>1, <1>4, <1>6 DEF AInv, Working, InForce
  <2> QED
    BY <1>5, <2>1 DEF Fits
<1>7. CASE ~Decided
  <2>1. Fits(heads[d], hist.before[d], First(me.plan), Connector[d])
    BY <1>1, <1>3, <1>7 DEF AInv, Working, Undone
  <2> QED
    BY <1>5, <2>1 DEF Fits
<1> QED
  BY <1>6, <1>7

-----------------------------------------------------------------------------
(* Steps that leave the outputs as they are, but for what KWin has told.   *)
Kept(h, g) ==
    /\ g.at = h.at /\ Same(g, h) /\ g.prio = h.prio
    /\ h.told = "described" => g.told = "described"

LEMMA KeptItself == ASSUME NEW h PROVE Kept(h, h)
BY DEF Kept, Same

LEMMA FitsAlike ==
    ASSUME NEW g, NEW h, NEW b, NEW c, NEW p, NEW n, Fits(g, h, p, n), Same(b, g), Same(c, h)
    PROVE  Fits(b, c, p, n)
BY DEF Fits, Same

LEMMA MadeAlike ==
    ASSUME NEW h \in HeadType, NEW g \in HeadType, Kept(h, g), NEW c, NEW d
    PROVE  Same(Made(g, c, d), Made(h, c, d)) /\ Made(g, c, d).prio = Made(h, c, d).prio
<1> DEFINE x == Made(g, c, d)
           y == Made(h, c, d)
<1>1. /\ x.modes = g.modes /\ x.on = IF d \in DOMAIN c.on THEN c.on[d] ELSE g.on
      /\ x.mode = IF d \in DOMAIN c.mode THEN c.mode[d] ELSE g.mode
      /\ x.place = IF d \in DOMAIN c.place THEN c.place[d] ELSE g.place
      /\ x.prio = IF d \in DOMAIN c.prio THEN c.prio[d] ELSE 0
  BY MadeIs
<1>2. /\ y.modes = h.modes /\ y.on = IF d \in DOMAIN c.on THEN c.on[d] ELSE h.on
      /\ y.mode = IF d \in DOMAIN c.mode THEN c.mode[d] ELSE h.mode
      /\ y.place = IF d \in DOMAIN c.place THEN c.place[d] ELSE h.place
      /\ y.prio = IF d \in DOMAIN c.prio THEN c.prio[d] ELSE 0
  BY MadeIs
<1>3. /\ g.modes = h.modes /\ g.place = h.place /\ g.mode = h.mode
      /\ g.on <=> h.on
  BY DEF Kept, Same
<1> HIDE DEF x, y
<1>4. Same(x, y) /\ x.prio = y.prio
  BY <1>1, <1>2, <1>3 DEF Same
<1> QED
  BY <1>4 DEF x, y

LEMMA RankedAlike ==
    ASSUME NEW h, NEW g, NEW D, NEW p, Ranked(h, D, p), \A d \in D : g[d].prio = h[d].prio
    PROVE  Ranked(g, D, p)
BY DEF Ranked

LEMMA KnownKept ==
    ASSUME \A d \in Dev : heads'[d].at = heads[d].at, hist'.before = hist.before
    PROVE  Known' = Known /\ There' = There
BY DEF Known, There

LEMMA RightKept ==
    ASSUME HeadsOK(heads), HeadsOK(heads'), \A d \in Dev : Kept(heads[d], heads'[d]),
           hist'.before = hist.before, me'.todo = me.todo, Len(hist'.fate) = Len(hist.fate),
           NEW c, Right(c)
    PROVE  Right(c)'
<1> SUFFICES ASSUME c.id = Len(hist.fate)
             PROVE  /\ \A d \in Known' :
                          Fits(Configured(c)'[d], heads'[d], Head(me.todo), Connector[d])
                    /\ Ranked(Configured(c)', Known', Head(me.todo))
  BY DEF Right
<1>1. Known' = Known /\ There' = There /\ Known \subseteq There /\ There \subseteq Dev
  BY KnownKept DEF Kept, Known, There
<1>2. ASSUME NEW d \in Known
      PROVE  /\ Same(Configured(c)'[d], Configured(c)[d])
             /\ Configured(c)'[d].prio = Configured(c)[d].prio
  <2>1. d \in There /\ d \in There' /\ d \in Dev
    BY <1>1
  <2>2. Configured(c)[d] = Made(heads[d], c, d) /\ Configured(c)'[d] = Made(heads'[d], c, d)
    BY <2>1 DEF Configured, Made
  <2>3. heads[d] \in HeadType /\ heads'[d] \in HeadType /\ Kept(heads[d], heads'[d])
    BY <2>1 DEF HeadsOK, HeadOK
  <2> QED
    BY <2>2, <2>3, MadeAlike
<1>3. ASSUME NEW d \in Known
      PROVE  Fits(Configured(c)'[d], heads'[d], Head(me.todo), Connector[d])
  <2>1. Fits(Configured(c)[d], heads[d], Head(me.todo), Connector[d])
    BY DEF Right
  <2>2. Same(heads'[d], heads[d])
    BY <1>1 DEF Kept
  <2> QED
    BY <1>2, <2>1, <2>2, FitsAlike
<1>4. Ranked(Configured(c)', Known, Head(me.todo))
  BY <1>2, RankedAlike DEF Right
<1> QED
  BY <1>1, <1>3, <1>4

LEMMA InForceKept ==
    ASSUME \A d \in Dev : Kept(heads[d], heads'[d]), hist'.before = hist.before,
           NEW p, InForce(p)
    PROVE  InForce(p)'
<1>1. Known' = Known /\ Known \subseteq Dev
  BY KnownKept DEF Kept, Known, There
<1>2. \A d \in Known : Same(heads'[d], heads[d]) /\ heads'[d].prio = heads[d].prio
  BY <1>1 DEF Kept
<1>3. \A d \in Known : Fits(heads'[d], hist.before[d], p, Connector[d])
  <2> SUFFICES ASSUME NEW d \in Known PROVE Fits(heads'[d], hist.before[d], p, Connector[d])
    OBVIOUS
  <2>1. Fits(heads[d], hist.before[d], p, Connector[d])
    BY DEF InForce
  <2>2. Same(hist.before[d], hist.before[d])
    BY DEF Same
  <2> QED
    BY <1>2, <2>1, <2>2, FitsAlike
<1>4. Ranked(heads', Known, p)
  BY <1>2, RankedAlike DEF InForce
<1> QED
  BY <1>1, <1>3, <1>4 DEF InForce

LEMMA UndoneKept ==
    ASSUME \A d \in Dev : Kept(heads[d], heads'[d]), hist'.before = hist.before,
           Earlier' = Earlier, me'.plan = me.plan, Undone
    PROVE  Undone'
<1>1. Known' = Known /\ Known \subseteq Dev
  BY KnownKept DEF Kept, Known, There
<1> SUFFICES ASSUME NEW d \in Known
             PROVE  /\ Earlier = 0 => Same(heads'[d], hist.before[d])
                    /\ Earlier = 1 =>
                         Fits(heads'[d], hist.before[d], First(me.plan), Connector[d])
  BY <1>1 DEF Undone
<1>2. Same(heads'[d], heads[d]) /\ Same(hist.before[d], hist.before[d])
  BY <1>1 DEF Kept, Same
<1>3. ASSUME Earlier = 0 PROVE Same(heads'[d], hist.before[d])
  BY <1>2, <1>3 DEF Undone, Same
<1>4. ASSUME Earlier = 1 PROVE Fits(heads'[d], hist.before[d], First(me.plan), Connector[d])
  <2>1. Fits(heads[d], hist.before[d], First(me.plan), Connector[d])
    BY <1>4 DEF Undone
  <2> QED
    BY <1>2, <2>1, FitsAlike
<1> QED
  BY <1>3, <1>4

(* Nothing is decided, and no configuration sent.                          *)
LEMMA WorkKept ==
    ASSUME VInv, AInv, HeadsOK(heads), HeadsOK(heads'), \A d \in Dev : Kept(heads[d], heads'[d]),
           me'.then = me.then, me'.plan = me.plan, me'.todo = me.todo,
           hist'.before = hist.before, hist'.sent = hist.sent,
           Len(hist'.fate) = Len(hist.fate), hist'.alone => hist.alone,
           AtWork => (Decided' <=> Decided), OnTheWay' \subseteq OnTheWay
    PROVE  Rounds' /\ Steady' /\ Working' /\ Distinct'
<1>1. (AtWork' <=> AtWork) /\ Earlier' = Earlier
  BY DEF AtWork, Earlier
<1>2. Rounds'
  BY <1>1 DEF AInv, Rounds
<1>3. Steady'
  BY <1>1 DEF AInv, Steady, Kept
<1>4. Distinct'
  <2>1. There' = There
    BY KnownKept DEF Kept
  <2> QED
    BY <2>1 DEF AInv, Distinct
<1>5. Working'
  <2> SUFFICES ASSUME AtWork, hist.alone
               PROVE  /\ Decided => InForce(Head(me.todo))'
                      /\ ~Decided => Undone'
                      /\ me.then = "verdict" => \A c \in OnTheWay' : Right(c)'
    BY <1>1 DEF Working
  <2>1. ASSUME Decided PROVE InForce(Head(me.todo))'
    <3> DEFINE p == Head(me.todo)
    <3>1. InForce(p) /\ p' = p
      BY <2>1 DEF AInv, Working
    <3> HIDE DEF p
    <3>2. \A q : InForce(q) => InForce(q)'
      BY InForceKept
    <3>3. InForce(p)'
      BY <3>1, <3>2
    <3> QED
      BY <3>3 DEF p
  <2>2. ASSUME ~Decided PROVE Undone'
    BY <1>1, <2>2, UndoneKept DEF AInv, Working
  <2>3. ASSUME me.then = "verdict", NEW c \in OnTheWay' PROVE Right(c)'
    BY <2>3, RightKept DEF AInv, Working
  <2> QED
    BY <2>1, <2>2, <2>3
<1> QED
  BY <1>2, <1>3, <1>4, <1>5

LEMMA WorkedKept ==
    ASSUME AInv, \A d \in Dev : Kept(heads[d], heads'[d]), me' = me,
           hist'.before = hist.before, hist'.alone => hist.alone
    PROVE  Worked'
<1> SUFFICES ASSUME Applying, me.at = "idle", me.out = "ok", hist.alone
             PROVE  InForce(me.plan)'
  BY DEF Worked, Applying
<1> DEFINE p == me.plan
<1>1. InForce(p) /\ p' = p
  BY DEF AInv, Worked
<1> HIDE DEF p
<1>2. \A q : InForce(q) => InForce(q)'
  BY InForceKept
<1>3. InForce(p)'
  BY <1>1, <1>2
<1> QED
  BY <1>3 DEF p

(* KWin says q meanwhile.                                                  *)
LEMMA SameFulls ==
    ASSUME NEW h, NEW g, HeadOK(h), HeadOK(g), Same(g, h)
    PROVE  Full(g) = Full(h)
<1>1. g.on \in BOOLEAN /\ h.on \in BOOLEAN
  BY HeadIs
<1>2. g.on = h.on /\ g.mode = h.mode /\ g.place = h.place /\ g.modes = h.modes
  BY <1>1 DEF Same
<1> QED
  BY <1>2 DEF Full

LEMMA SettledKept ==
    ASSUME Typed, InStep, AInv, NEW q, Tells(q, heads'), wire' = wire \o q, st' = st, me' = me,
           \A d \in Dev : Kept(heads[d], heads'[d]),
           hist'.before = hist.before, hist'.alone => hist.alone
    PROVE  Settled'
<1>0. Known' = Known /\ There' = There /\ Known \subseteq There /\ There \subseteq Dev
  BY KnownKept DEF Kept, Known, There
<1> SUFFICES ASSUME me.then = "refresh", hist.alone, NEW n \in 0..Len(wire'), Ripe(n)',
                    NEW d \in Dev
             PROVE  /\ d \in Known => View(At(st', wire', n), d) = Full(heads'[d])
                    /\ d \notin There => View(At(st', wire', n), d) \in Hidden
  BY <1>0 DEF Settled
<1> DEFINE h == heads[d]
           g == heads'[d]
<1>1. /\ IsSeq(wire) /\ IsSeq(q) /\ q \in Seq(Events) /\ Len(wire) \in Nat /\ Len(q) \in Nat
      /\ Len(wire') = Len(wire) + Len(q) /\ After(st, wire) \in States
  BY AtTyped, SeqIs, SeqHas, Joined DEF Typed, Tells
<1>2. HeadOK(h) /\ HeadOK(g) /\ Kept(h, g) /\ Full(g) = Full(h)
  <2>1. HeadOK(h) /\ HeadOK(g) /\ Kept(h, g)
    BY DEF Typed, Tells, HeadsOK
  <2> QED
    BY <2>1, SameFulls DEF Kept
<1>3. CASE n \in 0..Len(wire) /\ Ripe(n)
  <2>1. At(st', wire', n) = At(st, wire, n)
    BY <1>1, <1>3, AtJoined
  <2>2. /\ d \in Known => View(At(st, wire, n), d) = Full(h)
        /\ d \notin There => View(At(st, wire, n), d) \in Hidden
    BY <1>3 DEF AInv, Settled
  <2> QED
    BY <1>2, <2>1, <2>2
<1>4. CASE n \notin 0..Len(wire)
  <2> DEFINE k == n - Len(wire)
             v == View(At(After(st, wire), q, k), d)
  <2>1. k \in 0..Len(q) /\ n = Len(wire) + k
    BY <1>1, <1>4
  <2>2. At(st', wire', n) = At(After(st, wire), q, k)
    BY <1>1, <2>1, AtJoined
  <2>3. v \in Between(h, g)
    <3>1. View(After(st, wire), d) \in Held(h)
      BY DEF InStep
    <3>2. Leads(d, q, Held(h), Between(h, g), Held(g))
      BY DEF Tells, Leading
    <3> QED
      BY <1>1, <2>1, <3>1, <3>2 DEF Leads
  <2> HIDE DEF v, k
  <2>4. ASSUME d \in Known PROVE v = Full(g)
    <3>1. h.at = "there" /\ hist.before[d].told = "described"
      BY <2>4 DEF Known, There
    <3>2. h.told = "described"
      BY <3>1 DEF AInv, Steady, AtWork
    <3>3. g.at = "there" /\ g.told = "described"
      BY <1>2, <3>1, <3>2 DEF Kept
    <3>4. Held(h) = {Full(h)} /\ Held(g) = {Full(g)}
      BY <3>1, <3>2, <3>3 DEF Held
    <3>5. Unmoved(h, g)
      BY <1>2, <3>1, <3>2, <3>4 DEF Unmoved
    <3> QED
      BY <1>2, <2>3, <3>4, <3>5 DEF Between
  <2>5. ASSUME d \notin There PROVE v \in Hidden
    <3>1. h.at # "there" /\ g.at # "there"
      BY <1>2, <2>5 DEF There, Kept
    <3>2. Told(h) = Absent /\ Told(g) = Absent
      BY <3>1 DEF Told
    <3> QED
      BY <2>3, <3>2 DEF Between, Hidden
  <2> QED
    BY <2>2, <2>4, <2>5 DEF v
<1>5. n \in 0..Len(wire) => Ripe(n)
  <2> SUFFICES ASSUME n \in 0..Len(wire) PROVE Ripe(n)
    OBVIOUS
  <2>1. \A i \in 1..n : wire'[i] = wire[i]
    BY <1>1, Joined
  <2> QED
    BY <2>1 DEF Ripe
<1> QED
  BY <1>3, <1>4, <1>5

-----------------------------------------------------------------------------
(* KWin's steps: something else changes the outputs, KWin decides, or it   *)
(* answers a request.                                                      *)
LEMMA NotAlone ==
    ASSUME VInv, AInv, me' = me, ~hist'.alone, hist'.sent = hist.sent,
           Len(hist'.fate) = Len(hist.fate), Distinct'
    PROVE  AInv'
<1>1. Phases' /\ Rounds'
  BY DEF AInv, Phases, Busy, Rounds, AtWork, Earlier
<1>2. Steady' /\ Settled' /\ Working' /\ Worked'
  BY DEF Steady, Settled, Working, Worked
<1> QED
  BY <1>1, <1>2 DEF AInv

LEMMA OutsideWorks == ASSUME ~Mute, VInv, SInv, AInv, Outside PROVE AInv'
<1>1. HeadsOK(heads) /\ DOMAIN hist = HistNames
  BY DEF SInv, Typed, VInv, Shapes
<1>2. PICK q, become : Change(become, q)
  BY <1>1, OutsideMoves
<1>3. me' = me /\ ~hist'.alone /\ hist'.sent = hist.sent /\ hist'.fate = hist.fate
  <2>1. me' = me /\ hist' = [hist EXCEPT !.seen = Seen(become), !.alone = FALSE]
    BY <1>2 DEF Change
  <2> QED
    BY <1>1, <2>1 DEF HistNames
<1>4. Distinct'
  <2>1. CASE \E d \in Dev : Plug(d)
    <3>1. PICK d \in Dev : Plug(d)
      BY <2>1
    <3>2. /\ Unused(d)
          /\ \A e \in Dev \ {d} : heads'[e] = heads[e]
      BY <1>1, <3>1 DEF Plug, Change, HeadsOK
    <3>3. \A e \in There' \ {d} : e \in There
      BY <3>2 DEF There
    <3> QED
      BY <3>2, <3>3 DEF AInv, Distinct, Unused
  <2>2. CASE \A d \in Dev : heads'[d].at \in {heads[d].at, "gone"}
    <3>1. There' \subseteq There
      BY <2>2 DEF There
    <3> QED
      BY <3>1 DEF AInv, Distinct
  <2>3. ASSUME NEW d \in Dev, NEW g, heads' = [heads EXCEPT ![d] = g],
               g.at \in {heads[d].at, "gone"}
        PROVE  \A e \in Dev : heads'[e].at \in {heads[e].at, "gone"}
    <3>1. \A e \in Dev : heads'[e] = IF e = d THEN g ELSE heads[e]
      BY <1>1, <2>3 DEF HeadsOK
    <3> QED
      BY <2>3, <3>1
  <2>4. \A d \in Dev : DOMAIN heads[d] = HeadNames
    BY <1>1 DEF HeadsOK, HeadOK, HeadType, HeadNames
  <2>5. CASE \E d \in There : Unplug(d)
    <3>1. PICK d \in There : Unplug(d)
      BY <2>5
    <3> DEFINE g == [heads[d] EXCEPT !.at = "gone"]
    <3>2. d \in Dev /\ heads' = [heads EXCEPT ![d] = g]
      BY <1>1, <3>1 DEF Unplug, Change, There, HeadsOK
    <3>3. g.at = "gone"
      BY <2>4, <3>2 DEF HeadNames
    <3> HIDE DEF g
    <3> QED
      BY <2>2, <2>3, <3>2, <3>3
  <2>6. CASE \E d \in There : Rearrange(d)
    <3>1. PICK d \in There : Rearrange(d)
      BY <2>6
    <3>2. PICK on \in BOOLEAN, place \in Place, k \in ToSet(heads[d].modes) :
             LET h == [heads[d] EXCEPT !.on = on, !.place = place, !.mode = k] IN
             Change([heads EXCEPT ![d] = h], News(d, h))
      BY <3>1 DEF Rearrange
    <3> DEFINE g == [heads[d] EXCEPT !.on = on, !.place = place, !.mode = k]
    <3>3. d \in Dev /\ heads' = [heads EXCEPT ![d] = g]
      BY <3>2 DEF There, Change
    <3>4. g.at = heads[d].at
      BY <2>4, <3>3 DEF HeadNames
    <3> HIDE DEF g
    <3> QED
      BY <2>2, <2>3, <3>3, <3>4
  <2>7. CASE \E d \in There : LoseMode(d) \/ GainMode(d)
    <3>1. PICK d \in There : LoseMode(d) \/ GainMode(d)
      BY <2>7
    <3>2. d \in Dev
      BY DEF There
    <3>3. CASE LoseMode(d)
      <4>1. PICK k, next : heads' = [heads EXCEPT ![d] =
               [heads[d] EXCEPT !.modes = Only(@, Kind \ {k}), !.mode = IF @ = k THEN next ELSE @]]
        BY <3>3 DEF LoseMode, Change
      <4> DEFINE g == [heads[d] EXCEPT !.modes = Only(@, Kind \ {k}),
                                       !.mode = IF @ = k THEN next ELSE @]
      <4>2. heads' = [heads EXCEPT ![d] = g]
        BY <4>1
      <4>3. g.at = heads[d].at
        BY <2>4, <3>2 DEF HeadNames
      <4> HIDE DEF g
      <4> QED
        BY <2>2, <2>3, <3>2, <4>2, <4>3
    <3>4. CASE GainMode(d)
      <4>1. PICK k, now : heads' = [heads EXCEPT ![d] =
               [heads[d] EXCEPT !.modes = Append(@, k), !.mode = now]]
        BY <3>4 DEF GainMode, Change
      <4> DEFINE g == [heads[d] EXCEPT !.modes = Append(@, k), !.mode = now]
      <4>2. heads' = [heads EXCEPT ![d] = g]
        BY <4>1
      <4>3. g.at = heads[d].at
        BY <2>4, <3>2 DEF HeadNames
      <4> HIDE DEF g
      <4> QED
        BY <2>2, <2>3, <3>2, <4>2, <4>3
    <3> QED
      BY <3>1, <3>3, <3>4
  <2>8. CASE Quit
    <3>1. heads' = heads
      BY <2>8 DEF Quit, Withdraw, Crash, Change
    <3> QED
      BY <2>2, <3>1
  <2> QED
    BY <2>1, <2>5, <2>6, <2>7, <2>8 DEF Outside
<1> QED
  BY <1>3, <1>4, NotAlone

LEMMA KwinWorks ==
    ASSUME VInv, SInv, AInv, NEW q, Tells(q, heads'), wire' = wire \o q, st' = st, me' = me,
           \A d \in Dev : Kept(heads[d], heads'[d]),
           hist'.before = hist.before, hist'.sent = hist.sent,
           Len(hist'.fate) = Len(hist.fate), hist'.alone => hist.alone,
           AtWork => (Decided' <=> Decided), OnTheWay' \subseteq OnTheWay
    PROVE  AInv'
<1>1. HeadsOK(heads) /\ HeadsOK(heads')
  BY DEF SInv, Typed, Tells
<1>2. Rounds' /\ Steady' /\ Working' /\ Distinct'
  BY <1>1, WorkKept
<1>3. Settled'
  BY SettledKept DEF SInv
<1>4. Worked'
  BY WorkedKept
<1>5. Phases'
  BY DEF AInv, Phases, Busy
<1> QED
  BY <1>2, <1>3, <1>4, <1>5 DEF AInv

LEMMA FateKept ==
    ASSUME IsSeq(hist.fate), NEW k \in 1..Len(hist.fate), NEW v,
           hist'.fate = [hist.fate EXCEPT ![k] = v]
    PROVE  /\ Len(hist'.fate) = Len(hist.fate) /\ hist'.fate[k] = v
           /\ \A i \in 1..Len(hist.fate) : i # k => hist'.fate[i] = hist.fate[i]
<1> DEFINE f == hist.fate
           g == hist'.fate
           n == Len(f)
<1>1. n \in Nat /\ DOMAIN f = 1..n
  BY SeqHas
<1>2. DOMAIN g = 1..n /\ g = [i \in 1..n |-> g[i]]
  BY <1>1
<1>3. Len(g) = n
  <2> HIDE DEF g, n
  <2> QED
    BY <1>1, <1>2, FunIsSeq
<1> QED
  BY <1>1, <1>3

LEMMA RefusesWorks ==
    ASSUME ~Mute, VInv, SInv, AInv, NEW c \in inbox, inbox' = inbox \ {c}, Refuses(c),
           req' = req, st' = st, me' = me
    PROVE  AInv'
<1>1. /\ HeadsOK(heads) /\ IsSeq(wire) /\ c.id \in Nat /\ DOMAIN hist = HistNames
      /\ IsSeq(hist.fate) /\ c.id \in 1..Len(hist.fate) /\ hist.fate[c.id] = None
  BY DEF SInv, Typed, VInv, Pending, Open, Shapes
<1>2. PICK q : Moves(q, heads) /\ wire' = wire \o q /\ heads' = heads
  BY <1>1, RefusesMoves
<1>3. PICK why \in {None, c.id} :
         hist' = [hist EXCEPT !.fate[c.id] = [is |-> "failed", why |-> why]]
  BY DEF Refuses
<1>4. /\ hist'.before = hist.before /\ hist'.sent = hist.sent /\ hist'.alone = hist.alone
      /\ hist'.fate = [hist.fate EXCEPT ![c.id] = [is |-> "failed", why |-> why]]
  BY <1>1, <1>3 DEF HistNames
<1>5. /\ Len(hist'.fate) = Len(hist.fate) /\ hist'.fate[c.id] = [is |-> "failed", why |-> why]
      /\ \A i \in 1..Len(hist.fate) : i # c.id => hist'.fate[i] = hist.fate[i]
  BY <1>1, <1>4, FateKept
<1>6. Len(hist.fate) \in 1..Len(hist.fate)
  BY <1>1, SeqHas
<1>7. None # Applied /\ [is |-> "failed", why |-> why] # Applied
  BY NothingIs DEF Applied
<1>8. Decided' <=> Decided
  BY <1>1, <1>5, <1>6, <1>7 DEF Decided
<1>9. OnTheWay' \subseteq OnTheWay
  BY DEF OnTheWay
<1>10. \A d \in Dev : Kept(heads[d], heads'[d])
  BY <1>2, KeptItself
<1> QED
  BY <1>2, <1>4, <1>5, <1>8, <1>9, <1>10, KwinWorks DEF Moves

(* The configuration comes into force.                                     *)
LEMMA AppliesWorks ==
    ASSUME VInv, SInv, AInv, NEW c \in inbox, inbox' = inbox \ {c}, Applies(c),
           req' = req, st' = st, me' = me
    PROVE  AInv'
<1>1. /\ HeadsOK(heads) /\ DOMAIN hist = HistNames /\ Written(c)
      /\ IsSeq(hist.fate) /\ c.id \in 1..Len(hist.fate) /\ hist.fate[c.id] = None
  BY DEF SInv, Typed, Writes, VInv, Pending, Open, Shapes
<1>2. /\ heads' = Configured(c) /\ Possible(c)
      /\ hist'.before = hist.before /\ hist'.sent = hist.sent
      /\ hist'.alone = (hist.alone /\ Busy /\ c.id \in st.cfgs)
      /\ hist'.fate = [hist.fate EXCEPT ![c.id] = Applied]
  BY <1>1 DEF Applies, HistNames, Applied
<1>3. /\ HeadsOK(heads')
      /\ \A d \in Dev : heads'[d].at = heads[d].at /\ heads'[d].told = heads[d].told
                        /\ heads'[d].modes = heads[d].modes
  BY <1>1, <1>2, ConfiguredIs
<1>4. /\ Len(hist'.fate) = Len(hist.fate) /\ hist'.fate[c.id] = Applied
      /\ \A i \in 1..Len(hist.fate) : i # c.id => hist'.fate[i] = hist.fate[i]
  BY <1>1, <1>2, FateKept
<1>5. Known' = Known /\ There' = There /\ Known \subseteq There /\ There \subseteq Dev
  BY <1>2, <1>3, KnownKept DEF Known, There
<1>6. Distinct'
  BY <1>5 DEF AInv, Distinct
<1>7. CASE ~hist'.alone
  BY <1>2, <1>4, <1>6, <1>7, NotAlone
<1>8. CASE hist'.alone
  <2>1. hist.alone /\ Busy /\ c.id \in st.cfgs
    BY <1>2, <1>8
  <2>2. me.then = "verdict" /\ c.id = Len(hist.fate)
    BY <2>1 DEF VInv, Mine, Waiting
  <2>3. ~Decided /\ Decided' /\ AtWork
    BY <1>1, <1>4, <2>2, NothingIs DEF Decided, Applied, AtWork
  <2>4. Undone /\ Right(c)
    BY <2>1, <2>2, <2>3 DEF AInv, Working, OnTheWay
  <2>5. /\ \A d \in Known : Fits(heads'[d], heads[d], Head(me.todo), Connector[d])
        /\ Ranked(heads', Known, Head(me.todo))
    BY <1>2, <2>2, <2>4 DEF Right
  <2>6. ASSUME NEW d \in Known
        PROVE  Fits(heads'[d], hist.before[d], Head(me.todo), Connector[d])
    <3>1. Fits(heads'[d], heads[d], Head(me.todo), Connector[d])
      BY <2>5
    <3>2. Earlier \in {0, 1}
      BY <2>3 DEF AInv, Rounds
    <3>3. CASE Earlier = 0
      <4>1. Same(heads[d], hist.before[d])
        BY <2>4, <3>3 DEF Undone
      <4> QED
        BY <3>1, <4>1, FitsAgain
    <3>4. CASE Earlier = 1
      <4>1. Fits(heads[d], hist.before[d], First(me.plan), Connector[d])
        BY <2>4, <3>4 DEF Undone
      <4>2. Len(me.todo) = 1
        BY <2>3, <3>4 DEF AInv, Rounds
      <4>3. Head(me.todo) = me.plan /\ me.plan \in Plans
        BY <2>3, <4>2, LastTodo DEF AInv
      <4> DEFINE p == me.plan
      <4>4. p \in Plans /\ Fits(heads'[d], heads[d], p, Connector[d])
            /\ Fits(heads[d], hist.before[d], First(p), Connector[d])
        BY <3>1, <4>1, <4>3
      <4> HIDE DEF p
      <4>5. Fits(heads'[d], hist.before[d], p, Connector[d])
        BY <4>4, FitsTwice
      <4> QED
        BY <4>3, <4>5 DEF p
    <3> QED
      BY <3>2, <3>3, <3>4
  <2>7. InForce(Head(me.todo))'
    BY <1>2, <1>5, <2>5, <2>6 DEF InForce
  <2>8. \A x \in OnTheWay' : Right(x)'
    <3> SUFFICES ASSUME NEW x \in OnTheWay', x.id = Len(hist.fate) PROVE FALSE
      BY <1>4 DEF Right
    <3>1. CASE x \in inbox'
      BY <2>2, <3>1 DEF VInv, Pending
    <3>2. CASE x \notin inbox'
      <4>1. PICK i \in 1..Len(req) : req[i].do = "apply" /\ req[i].of = x
        BY <3>2 DEF OnTheWay
      <4> QED
        BY <2>2, <4>1 DEF VInv, Pending
    <3> QED
      BY <3>1, <3>2
  <2>9. Working'
    BY <2>3, <2>7, <2>8 DEF Working
  <2>10. Rounds' /\ Phases'
    BY <1>2, <1>4 DEF AInv, Rounds, Phases, AtWork, Earlier, Busy
  <2>11. Steady'
    BY <1>2, <1>3, <2>1 DEF AInv, Steady, AtWork
  <2>12. Settled' /\ Worked'
    BY <2>1, <2>2 DEF Settled, Worked, Busy
  <2> QED
    BY <1>6, <2>9, <2>10, <2>11, <2>12 DEF AInv
<1> QED
  BY <1>7, <1>8

LEMMA VerdictWorks == ASSUME ~Mute, VInv, SInv, AInv, Verdict PROVE AInv'
<1>1. PICK c \in inbox : inbox' = inbox \ {c} /\ (Applies(c) \/ Refuses(c))
  BY DEF Verdict
<1>2. req' = req /\ st' = st /\ me' = me
  BY DEF Verdict
<1> QED
  BY <1>1, <1>2, AppliesWorks, RefusesWorks

LEMMA ToldKeeps ==
    ASSUME HeadsOK(heads), NEW D, NEW what, heads' = [d \in Dev |->
               [heads[d] EXCEPT !.told = IF d \in D THEN what ELSE @]],
           what = "described" \/ \A d \in Dev : heads[d].told # "described"
    PROVE  \A d \in Dev : Kept(heads[d], heads'[d])
<1> SUFFICES ASSUME NEW d \in Dev PROVE Kept(heads[d], heads'[d])
  OBVIOUS
<1> DEFINE t == IF d \in D THEN what ELSE heads[d].told
           h == heads[d]
           g == [h EXCEPT !.told = t]
<1>1. heads'[d] = g /\ h \in HeadType
  BY DEF HeadsOK, HeadOK
<1>2. h.told = "described" => t = "described"
  OBVIOUS
<1> HIDE DEF t, h
<1>3. /\ g.at = h.at /\ g.on = h.on /\ g.prio = h.prio /\ g.place = h.place
      /\ g.modes = h.modes /\ g.mode = h.mode /\ g.told = t
  BY <1>1 DEF HeadType
<1> HIDE DEF g
<1> QED
  BY <1>1, <1>2, <1>3 DEF Kept, Same, h

LEMMA ServeWorks == ASSUME ~Mute, VInv, SInv, AInv, Serve PROVE AInv'
<1> DEFINE r == Head(req)
<1>1. req # << >> /\ req' = Tail(req) /\ st' = st /\ me' = me
      /\ (AnswerGlobals(r) \/ AnswerBindRegistry(r) \/ AnswerBindDevice(r)
          \/ AnswerSync(r) \/ TakeConfiguration(r))
  BY DEF Serve
<1>2. HeadsOK(heads) /\ IsSeq(wire) /\ DOMAIN hist = HistNames /\ IsSeq(req)
  BY DEF SInv, Typed, VInv, Shapes
<1>3. /\ 1 \in 1..Len(req) /\ r = req[1]
      /\ \A i \in 1..Len(req') : i + 1 \in 1..Len(req) /\ req'[i] = req[i + 1]
  BY <1>1, <1>2, TailHas
<1> HIDE DEF r
<1>4. inbox' = inbox \/ (r.do = "apply" /\ inbox' = inbox \cup {r.of})
  BY <1>1 DEF AnswerGlobals, AnswerBindRegistry, AnswerBindDevice, AnswerSync, TakeConfiguration
<1>5. OnTheWay' \subseteq OnTheWay
  <2> SUFFICES ASSUME NEW c \in OnTheWay' PROVE c \in OnTheWay
    OBVIOUS
  <2>1. CASE c \in inbox'
    BY <1>3, <1>4, <2>1 DEF OnTheWay
  <2>2. CASE c \notin inbox'
    <3>1. PICK i \in 1..Len(req') : req'[i].do = "apply" /\ req'[i].of = c
      BY <2>2 DEF OnTheWay
    <3> DEFINE j == i + 1
    <3>2. j \in 1..Len(req) /\ req[j].do = "apply" /\ req[j].of = c
      BY <1>3, <3>1
    <3> HIDE DEF j
    <3> QED
      BY <3>2 DEF OnTheWay
  <2> QED
    BY <2>1, <2>2
<1>6. ASSUME NEW q, Tells(q, heads'), wire' = wire \o q,
             \A d \in Dev : Kept(heads[d], heads'[d]),
             hist'.before = hist.before, hist'.sent = hist.sent, hist'.fate = hist.fate,
             hist'.alone = hist.alone
      PROVE  AInv'
  <2>1. Decided' <=> Decided
    BY <1>1, <1>6 DEF Decided
  <2> QED
    BY <1>1, <1>5, <1>6, <2>1, KwinWorks
<1>7. ASSUME NEW h, KwinHas(h)
      PROVE  /\ heads' = h /\ hist'.before = hist.before /\ hist'.sent = hist.sent
             /\ hist'.fate = hist.fate /\ hist'.alone = hist.alone
  BY <1>2, <1>7 DEF KwinHas, HistNames
<1>8. CASE AnswerGlobals(r)
  <2>1. \A d \in Dev : heads[d].told = "no"
    BY <1>3, <1>8 DEF SInv, Unasked, AnswerGlobals
  <2>2. PICK q : Tells(q, heads') /\ wire' = wire \o q
    BY <1>2, <1>8, <2>1, GlobalsTell
  <2>3. \A d \in Dev : Kept(heads[d], heads'[d])
    <3> DEFINE old == IF kwin.legacy THEN There ELSE {}
    <3>1. heads' = [d \in Dev |-> [heads[d] EXCEPT !.told = IF d \in old THEN "offered" ELSE @]]
      BY <1>8 DEF AnswerGlobals, KwinHas
    <3> HIDE DEF old
    <3> QED
      BY <1>2, <2>1, <3>1, ToldKeeps
  <2> QED
    BY <1>6, <1>7, <1>8, <2>2, <2>3 DEF AnswerGlobals
<1>9. CASE AnswerBindRegistry(r)
  <2>1. PICK q : Tells(q, heads') /\ wire' = wire \o q
    BY <1>2, <1>9, RegistryTells
  <2>2. heads' = [d \in Dev |-> [heads[d] EXCEPT !.told = IF d \in There THEN "described" ELSE @]]
    BY <1>9 DEF AnswerBindRegistry, Described, KwinHas
  <2>3. \A d \in Dev : Kept(heads[d], heads'[d])
    BY <1>2, <2>2, ToldKeeps
  <2> QED
    BY <1>6, <1>7, <1>9, <2>1, <2>3 DEF AnswerBindRegistry, Described
<1>10. CASE AnswerBindDevice(r)
  <2>1. r.of \in Dev /\ Met(heads[r.of])
    BY <1>3, <1>10 DEF SInv, OnFile, AnswerBindDevice
  <2>2. PICK q : Tells(q, heads') /\ wire' = wire \o q
    BY <1>2, <1>10, <2>1, DeviceTells
  <2> DEFINE D == {r.of} \cap There
  <2>3. heads' = [d \in Dev |-> [heads[d] EXCEPT !.told = IF d \in D THEN "described" ELSE @]]
    BY <1>10 DEF AnswerBindDevice, Described, KwinHas
  <2> HIDE DEF D
  <2>4. \A d \in Dev : Kept(heads[d], heads'[d])
    BY <1>2, <2>3, ToldKeeps
  <2> QED
    BY <1>6, <1>7, <1>10, <2>2, <2>4 DEF AnswerBindDevice, Described
<1>11. CASE AnswerSync(r)
  <2> DEFINE q == <<Event("synced", None, None)>>
  <2>1. Tells(q, heads) /\ wire' = wire \o q
    BY <1>2, <1>11, SyncTells
  <2> HIDE DEF q
  <2>2. heads' = heads /\ hist' = hist
    BY <1>11 DEF AnswerSync
  <2>3. \A d \in Dev : Kept(heads[d], heads'[d])
    BY <2>2, KeptItself
  <2> QED
    BY <1>6, <2>1, <2>2, <2>3
<1>12. CASE TakeConfiguration(r)
  <2> DEFINE q == << >>
  <2>1. heads' = heads /\ hist' = hist /\ wire' = wire
    BY <1>12 DEF TakeConfiguration
  <2>2. q \in Seq(Events) /\ Nobody(q) /\ wire \o q = wire
    <3>1. wire \in Seq(Events)
      BY DEF SInv, Typed
    <3> QED
      BY <3>1, NobodyNone
  <2> HIDE DEF q
  <2>3. Tells(q, heads)
    BY <1>2, <2>2, TellsNobody
  <2>4. \A d \in Dev : Kept(heads[d], heads'[d])
    BY <2>1, KeptItself
  <2> QED
    BY <1>6, <2>1, <2>2, <2>3, <2>4
<1> QED
  BY <1>1, <1>8, <1>9, <1>10, <1>11, <1>12

-----------------------------------------------------------------------------
(* The client's steps that neither send a configuration nor end an apply   *)
(* well.                                                                   *)
LEMMA RestWorks ==
    ASSUME AInv, heads' = heads, me'.then \notin {"refresh", "verdict"}, Phases', Worked'
    PROVE  AInv'
<1>1. ~AtWork' /\ me'.then # "refresh"
  BY DEF AtWork
<1>2. Distinct'
  BY DEF AInv, Distinct, There
<1> QED
  BY <1>1, <1>2 DEF AInv, Rounds, Steady, Settled, Working

LEMMA OtherAsked ==
    ASSUME IsSeq(req), NEW q, Tame(q), req' = req \o q, inbox' = inbox
    PROVE  OnTheWay' \subseteq OnTheWay
<1> SUFFICES ASSUME NEW i \in 1..Len(req'), req'[i].do = "apply"
             PROVE  i \in 1..Len(req) /\ req[i] = req'[i]
  BY DEF OnTheWay
<1>1. IsSeq(q) /\ \A k \in 1..Len(q) : q[k].do # "apply"
  BY DEF Tame
<1> QED
  BY <1>1, Joined

LEMMA SyncAsked ==
    ASSUME IsSeq(req), req' = Append(req, Sync) \/ req' = req, inbox' = inbox
    PROVE  OnTheWay' \subseteq OnTheWay
<1>1. CASE req' = Append(req, Sync)
  <2> DEFINE q == <<Sync>>
  <2>1. req' = req \o q /\ Tame(q)
    BY <1>1, Appended, TameSync
  <2> HIDE DEF q
  <2> QED
    BY <2>1, OtherAsked
<1>2. CASE req' = req
  BY <1>2 DEF OnTheWay
<1> QED
  BY <1>1, <1>2

LEMMA VerdictWaits ==
    ASSUME VInv, SInv, AInv, Sleep \/ Wake \/ Deadline
    PROVE  AInv'
<1>1. /\ DOMAIN me = MeNames /\ IsSeq(req) /\ HeadsOK(heads) /\ Mine
      /\ None \notin {"ok", "verdict", "refresh"}
  BY NothingIs DEF VInv, Shapes, SInv, Typed
<1>2. /\ heads' = heads /\ hist' = hist /\ inbox' = inbox
      /\ req' = Append(req, Sync) \/ req' = req
  BY DEF Sleep, Wake, Deadline
<1>3. /\ me.then = "verdict" /\ me'.then = "verdict" /\ me'.plan = me.plan /\ me'.todo = me.todo
      /\ me'.call = me.call /\ me'.at \in {"wait", "sleep"}
  <2>1. CASE Sleep
    BY <1>1, <2>1 DEF Sleep, Trip, MeNames
  <2>2. CASE Wake
    BY <1>1, <2>2 DEF Wake, RoundTrip, Mine, MeNames
  <2>3. CASE Deadline
    BY <1>1, <2>3 DEF Deadline, Trip, Mine, MeNames
  <2> QED
    BY <2>1, <2>2, <2>3
<1>4. OnTheWay' \subseteq OnTheWay
  BY <1>1, <1>2, SyncAsked
<1>5. \A d \in Dev : Kept(heads[d], heads'[d])
  BY <1>2, KeptItself
<1>6. Decided' <=> Decided
  BY <1>2, <1>3 DEF Decided
<1>7. Rounds' /\ Steady' /\ Working' /\ Distinct'
  BY <1>1, <1>2, <1>3, <1>4, <1>5, <1>6, WorkKept
<1>8. Phases' /\ Settled' /\ Worked'
  BY <1>1, <1>3 DEF AInv, Phases, Busy, Settled, Worked
<1> QED
  BY <1>7, <1>8 DEF AInv

(* What Over makes of a call.                                              *)
LEMMA OverIs ==
    ASSUME DOMAIN me = MeNames, NEW out, NEW why
    PROVE  LET m == Over(out, why) IN
           /\ m.at = "idle" /\ m.then = None /\ m.out = out /\ m.call = me.call /\ m.plan = me.plan
           /\ LET n == [m EXCEPT !.at = "closed"] IN
              n.at = "closed" /\ n.then = None /\ n.out = out /\ n.call = me.call
BY DEF Over, MeNames

LEMMA EndWorks ==
    ASSUME VInv, AInv, heads' = heads, me'.then = None, me'.at \in {"idle", "closed"},
           ~(Applying' /\ me'.at = "idle" /\ me'.out = "ok")
    PROVE  AInv'
<1>1. Phases'
  BY DEF Phases, Busy
<1>2. Worked'
  BY DEF Worked
<1> QED
  BY <1>1, <1>2, RestWorks, NothingIs

LEMMA TripWorks ==
    ASSUME VInv, AInv, NotKwin \/ GetBurst \/ Connected \/ Snapshot \/ Broken
    PROVE  AInv'
<1>1. /\ DOMAIN me = MeNames /\ Mine
      /\ None \notin {"globals", "burst", "snapshot", "ok", "verdict", "refresh"}
  BY NothingIs DEF VInv, Shapes
<1>2. heads' = heads
  BY DEF NotKwin, GetBurst, Connected, Snapshot, Broken
<1>3. CASE NotKwin
  <2>1. me' = [Over(IF st.manager THEN "missing" ELSE "none", None) EXCEPT !.at = "closed"]
    BY <1>3 DEF NotKwin
  <2>2. me'.at = "closed" /\ me'.then = None
    BY <1>1, <2>1, OverIs
  <2> QED
    BY <1>2, <2>2, EndWorks
<1>4. CASE GetBurst
  <2>1. me.then = "globals" /\ me' = RoundTrip(me, "burst")
    BY <1>4 DEF GetBurst, Trip
  <2>2. me.call # "apply"
    BY <1>1, <2>1 DEF AInv, Phases
  <2>3. me'.at = "wait" /\ me'.then = "burst" /\ me'.call = me.call
    BY <1>1, <2>1 DEF RoundTrip, MeNames
  <2>4. Phases' /\ Worked'
    BY <1>1, <2>2, <2>3 DEF Phases, Worked, Busy
  <2> QED
    BY <1>2, <2>3, <2>4, RestWorks
<1>5. CASE Connected
  <2>1. me' = Over("connected", None)
    BY <1>5 DEF Connected
  <2>2. me'.at = "idle" /\ me'.then = None /\ me'.out = "connected"
    BY <1>1, <2>1, OverIs
  <2> QED
    BY <1>2, <2>2, EndWorks
<1>6. CASE Snapshot
  <2>1. me.then = "snapshot" /\ me' = [Over("ok", None) EXCEPT !.snap = SnapshotOf(st)]
    BY <1>6 DEF Snapshot, Trip
  <2>2. me'.at = "idle" /\ me'.then = None /\ me'.call = me.call /\ me.call # "apply"
    BY <1>1, <2>1 DEF Mine, Over, MeNames
  <2> QED
    BY <1>2, <2>2, EndWorks DEF Applying
<1>7. CASE Broken
  <2>1. me' = [Over("lost", None) EXCEPT !.at = "closed"]
    BY <1>7 DEF Broken
  <2>2. me'.at = "closed" /\ me'.then = None
    BY <1>1, <2>1, OverIs
  <2> QED
    BY <1>2, <2>2, EndWorks
<1> QED
  BY <1>3, <1>4, <1>5, <1>6, <1>7

(* apply begins its second round, or a call begins.                        *)
LEMMA NotYet ==
    ASSUME IsSeq(wire), NoSync, wire' = wire, ~me'.synced
    PROVE  Settled'
<1>1. ASSUME NEW n \in 0..Len(wire) PROVE ~Ripe(n)'
  <2>1. Len(wire) \in Nat
    BY SeqHas
  <2>2. \A i \in 1..n : i \in 1..Len(wire)
    BY <2>1
  <2> QED
    BY <2>2 DEF Ripe, NoSync, Unsynced
<1> QED
  BY <1>1 DEF Settled

LEMMA FailsWork == ASSUME VInv, AInv, Went \/ TimedOut PROVE AInv'
<1>1. DOMAIN me = MeNames
  BY DEF VInv, Shapes
<1>2. heads' = heads /\ (me' = Over("gone", None) \/ me' = Over("timeout", None))
  BY DEF Went, TimedOut, ApplyReturns
<1>3. me'.at = "idle" /\ me'.then = None /\ me'.out \in {"gone", "timeout"}
  BY <1>1, <1>2, OverIs
<1> QED
  BY <1>2, <1>3, EndWorks

(* What an apply has done, whether it is the last.                         *)
LEMMA ReturnWorks ==
    ASSUME VInv, SInv, AInv, me.at = "wait", me.synced, AtWork, NEW why, ApplyReturns("ok", why),
           heads' = heads, wire' = wire, hist' = hist,
           hist.alone => InForce(Head(me.todo)),
           me.then = "refresh" /\ hist.alone => Undone
    PROVE  AInv'
<1>1. /\ DOMAIN me = MeNames /\ NoSync /\ IsSeq(wire)
      /\ None \notin {"ok", "verdict", "refresh"} /\ me.call = "apply"
      /\ hist.sent \in Nat /\ Len(hist.fate) \in Nat
  BY NothingIs, SeqHas DEF VInv, Shapes, SInv, OneSync, Writes, AtWork
<1>2. /\ me.plan \in Plans /\ Head(me.todo) \in {me.plan, First(me.plan)}
      /\ Len(me.todo) = 1 => Head(me.todo) = me.plan
      /\ Len(me.todo) \in {1, 2}
      /\ Len(me.todo) > 1 => Tail(me.todo) = <<me.plan>>
  BY LastTodo DEF AInv
<1>3. Distinct'
  BY DEF AInv, Distinct, There
<1>4. CASE Len(me.todo) > 1
  <2>1. me' = RoundTrip([me EXCEPT !.todo = Tail(@), !.late = FALSE], "refresh")
    BY <1>4 DEF ApplyReturns
  <2>2. /\ me'.at = "wait" /\ me'.then = "refresh" /\ ~me'.synced /\ me'.plan = me.plan
        /\ me'.todo = <<me.plan>> /\ me'.call = me.call
    BY <1>1, <1>2, <1>4, <2>1 DEF RoundTrip, MeNames
  <2>3. Earlier = 0
    <3>1. Earlier \in {0, 1} /\ (Earlier = 1 => Len(me.todo) = 1)
      BY DEF AInv, Rounds
    <3>2. Len(me.todo) # 1
      <4> DEFINE k == Len(me.todo)
      <4>1. k \in {1, 2} /\ k > 1
        BY <1>2, <1>4
      <4> HIDE DEF k
      <4>2. k # 1
        BY <4>1
      <4> QED
        BY <4>2 DEF k
    <3> QED
      BY <3>1, <3>2
  <2>4. Earlier' = IF me.then = "verdict" THEN 1 ELSE 0
    BY <1>1, <2>2, <2>3 DEF Earlier
  <2>5. Rounds'
    <3>1. Len(me'.todo) = 1
      BY <2>2
    <3> QED
      BY <1>2, <2>2, <2>4, <3>1 DEF Rounds
  <2>6. Phases' /\ Worked'
    BY <1>1, <2>2 DEF Phases, Worked, Busy
  <2>7. Settled'
    BY <1>1, <2>2, NotYet
  <2>8. Steady'
    BY DEF AInv, Steady
  <2>9. ~Decided'
    BY <2>2 DEF Decided
  <2>10. Known' = Known
    BY DEF Known, There
  <2>11. ASSUME hist.alone PROVE Undone'
    <3>1. CASE me.then = "verdict"
      <4>1. Earlier' = 1
        BY <2>4, <3>1
      <4>2. Head(me.todo) = First(me.plan)
        <5>1. me.todo = <<First(me.plan), me.plan>>
          <6>1. me.todo \in {<<me.plan>>, <<First(me.plan), me.plan>>}
            BY DEF AInv, Rounds
          <6> QED
            BY <1>4, <6>1
        <5> QED
          BY <5>1
      <4>3. \A d \in Known : Fits(heads[d], hist.before[d], First(me.plan), Connector[d])
        BY <2>11, <4>2 DEF InForce
      <4> QED
        BY <2>2, <2>10, <4>1, <4>3 DEF Undone
    <3>2. CASE me.then # "verdict"
      <4>1. Earlier' = 0 /\ me.then = "refresh"
        BY <2>4, <3>2 DEF AtWork
      <4> QED
        BY <2>2, <2>3, <2>10, <2>11, <4>1 DEF Undone
    <3> QED
      BY <3>1, <3>2
  <2>12. Working'
    BY <2>2, <2>9, <2>11 DEF Working
  <2> QED
    BY <1>3, <2>5, <2>6, <2>7, <2>8, <2>12 DEF AInv
<1>5. CASE ~(Len(me.todo) > 1)
  <2>1. me' = Over("ok", why) /\ Head(me.todo) = me.plan
    BY <1>2, <1>5 DEF ApplyReturns
  <2>2. me'.at = "idle" /\ me'.then = None /\ me'.plan = me.plan
    BY <1>1, <2>1, OverIs
  <2>3. Worked'
    <3> SUFFICES ASSUME hist.alone PROVE InForce(me.plan)'
      BY DEF Worked
    <3>1. InForce(me.plan)
      BY <2>1
    <3>2. Known' = Known
      BY DEF Known, There
    <3> QED
      BY <2>2, <3>1, <3>2 DEF InForce
  <2>4. Phases'
    BY <2>2 DEF Phases, Busy
  <2> QED
    BY <1>1, <2>2, <2>3, <2>4, RestWorks
<1> QED
  BY <1>4, <1>5

(* At the end of the refresh's round trip the State shows all the outputs  *)
(* KWin had described when the call began, as they are, and no other that  *)
(* is not there.                                                           *)
LEMMA NowSettled ==
    ASSUME VInv, SInv, AInv, me.then = "refresh", me.synced, hist.alone
    PROVE  LET D == ToSet(LiveHeads(st)) IN
           /\ \A d \in Known : View(st, d) = Full(heads[d])
           /\ D \subseteq There /\ Known \subseteq D
<1> DEFINE D == ToSet(LiveHeads(st))
<1>1. st \in States /\ HeadsOK(heads) /\ IsSeq(wire)
  BY DEF SInv, Typed, VInv, Shapes
<1>2. Len(wire) \in Nat /\ At(st, wire, 0) = st /\ Ripe(0)
  BY <1>1, TrajIs DEF Ripe
<1>3. \A d \in Dev : /\ d \in Known => View(st, d) = Full(heads[d])
                     /\ d \notin There => View(st, d) \in Hidden
  <2>1. 0 \in 0..Len(wire)
    BY <1>2
  <2> QED
    BY <1>2, <2>1 DEF AInv, Settled
<1>4. Known \subseteq There /\ There \subseteq Dev
  BY DEF Known, There
<1>5. ASSUME NEW d \in D PROVE d \in There
  <2>1. d \in Dev
    BY <1>1, LiveIs
  <2>2. /\ View(st, d).dev.done /\ HeadShown(st, d) = Shows(View(st, d))
        /\ Shows(View(st, d)).place = st.dev[d].place /\ View(st, d).dev = st.dev[d]
    <3>1. d \in ToSet(LiveHeads(st))
      BY DEF D
    <3> HIDE DEF D
    <3> QED
      BY <1>1, <2>1, <3>1, SnapshotIs, ViewTyped
  <2> SUFFICES ASSUME d \notin There PROVE FALSE
    OBVIOUS
  <2>3. View(st, d) \in Sane /\ Shows(View(st, d)) = Absent
    BY <1>3, <2>1 DEF Hidden
  <2>4. View(st, d).dev.place # None
    BY <2>2, <2>3 DEF Sane
  <2> QED
    BY <2>2, <2>3, <2>4 DEF Absent
<1>6. ASSUME NEW d \in Known PROVE d \in D
  <2>1. d \in Dev /\ HeadOK(heads[d]) /\ View(st, d) = Full(heads[d])
    BY <1>1, <1>3, <1>4 DEF HeadsOK
  <2> QED
    BY <1>1, <2>1, FullShown
<1> QED
  BY <1>3, <1>4, <1>5, <1>6

LEMMA NothingWorks == ASSUME VInv, SInv, AInv, NothingToApply PROVE AInv'
<1>1. /\ me.at = "wait" /\ me.synced /\ me.then = "refresh" /\ LiveHeads(st) = << >>
      /\ ApplyReturns("ok", None) /\ heads' = heads /\ wire' = wire /\ hist' = hist
  BY DEF NothingToApply, Trip
<1>2. AtWork /\ ~Decided
  BY <1>1 DEF AtWork, Decided
<1>3. hist.alone => Undone
  BY <1>2 DEF AInv, Working
<1>4. hist.alone => InForce(Head(me.todo))
  <2> SUFFICES ASSUME hist.alone PROVE InForce(Head(me.todo))
    OBVIOUS
  <2>1. Known \subseteq ToSet(LiveHeads(st))
    BY <1>1, NowSettled
  <2>2. ToSet(LiveHeads(st)) = {}
    BY <1>1, Nothing, ToSetIs
  <2> QED
    BY <2>1, <2>2 DEF InForce, Ranked
<1> QED
  BY <1>1, <1>2, <1>3, <1>4, ReturnWorks

(* KWin has answered.                                                      *)
LEMMA AnswerWorks == ASSUME VInv, SInv, AInv, Answered PROVE AInv'
<1> DEFINE out == IF st.result.is = "applied" THEN "ok" ELSE "failed"
           why == st.result.why
<1>1. /\ me.at = "wait" /\ me.synced /\ me.then = "verdict" /\ st.result # None
      /\ ApplyReturns(out, why) /\ heads' = heads /\ wire' = wire /\ hist' = hist
  BY DEF Answered, Trip
<1>2. DOMAIN me = MeNames /\ AtWork
  BY <1>1 DEF VInv, Shapes, AtWork
<1>3. hist.sent \in 0..Len(hist.fate) /\ hist.sent < Len(hist.fate) /\ Len(hist.fate) \in Nat
      /\ st.result = hist.fate[Len(hist.fate)]
  BY <1>1, SeqHas DEF VInv, Shapes, Mine, Waiting
<1> HIDE DEF why
<1>4. CASE st.result.is = "applied"
  <2>1. st.result = Applied
    <3>1. Len(hist.fate) \in 1..Len(hist.fate)
      BY <1>3
    <3>2. st.result \in {None, Applied} \cup Failures
      BY <1>3, <3>1 DEF VInv, Shapes
    <3>3. \A x \in Failures : x.is = "failed"
      BY DEF Failures
    <3> QED
      BY <1>1, <1>4, <3>2, <3>3
  <2>2. Decided
    BY <1>1, <1>3, <2>1 DEF Decided
  <2>3. hist.alone => InForce(Head(me.todo))
    BY <1>2, <2>2 DEF AInv, Working
  <2>4. ApplyReturns("ok", why)
    BY <1>1, <1>4
  <2> QED
    BY <1>1, <1>2, <2>3, <2>4, ReturnWorks
<1>5. CASE st.result.is # "applied"
  <2>1. me' = Over("failed", why)
    BY <1>1, <1>5 DEF ApplyReturns
  <2>2. me'.at = "idle" /\ me'.then = None /\ me'.out = "failed"
    BY <1>2, <2>1, OverIs
  <2> QED
    BY <1>1, <2>2, EndWorks
<1> QED
  BY <1>4, <1>5

(* A configuration is sent: it makes of the outputs what the plan wants.   *)
LEMMA SentRight ==
    ASSUME VInv, SInv, AInv, me.then = "refresh", me.synced, hist.alone,
           NEW c, Builds(c, st, Head(me.todo))
    PROVE  /\ \A d \in Known : Fits(Configured(c)[d], heads[d], Head(me.todo), Connector[d])
           /\ Ranked(Configured(c), Known, Head(me.todo))
<1> DEFINE p == Head(me.todo)
           D == ToSet(LiveHeads(st))
<1>1. st \in States /\ HeadsOK(heads) /\ AtWork
  BY DEF SInv, Typed, AtWork
<1>2. me.plan \in Plans /\ p \in {me.plan, First(me.plan)}
  BY <1>1, LastTodo DEF AInv
<1>3. (\A d \in Known : View(st, d) = Full(heads[d])) /\ D \subseteq There /\ Known \subseteq D
  BY NowSettled
<1>4. Known \subseteq There
  BY DEF Known
<1>5. Builds(c, st, p)
  OBVIOUS
<1>6. \A d, e \in D : Connector[d] = Connector[e] => d = e
  BY <1>3 DEF AInv, Distinct
<1>7. ASSUME NEW d \in Known PROVE Fits(Configured(c)[d], heads[d], p, Connector[d])
  <2>1. d \in There /\ View(st, d) = Full(heads[d])
    BY <1>3, <1>4
  <2> HIDE DEF p
  <2> QED
    BY <1>1, <1>2, <1>5, <2>1, WrittenFits
<1>8. Ranked(Configured(c), Known, p)
  <2> HIDE DEF p
  <2> QED
    BY <1>1, <1>3, <1>4, <1>5, <1>6, WrittenRanks
<1> QED
  BY <1>7, <1>8

LEMMA SubmitWorks == ASSUME VInv, SInv, AInv, Submit PROVE AInv'
<1> DEFINE id == Len(hist.fate) + 1
<1>1. PICK c : /\ req' = req \o <<[do |-> "apply", of |-> c], Sync>> /\ c.id = id
               /\ Builds(c, st, Head(me.todo))
  <2> DEFINE C == Configuration(st, Head(me.todo))
             c == [id |-> id, on |-> C.on, mode |-> C.mode, place |-> C.place, prio |-> C.prio]
  <2>1. req' = req \o <<[do |-> "apply", of |-> c], Sync>>
    BY DEF Submit
  <2>2. c.id = id /\ c.on = C.on /\ c.mode = C.mode /\ c.place = C.place /\ c.prio = C.prio
    OBVIOUS
  <2>3. Builds(c, st, Head(me.todo))
    BY <2>2 DEF Builds
  <2> HIDE DEF c
  <2> QED
    BY <2>1, <2>2, <2>3
<1>2. /\ me.at = "wait" /\ me.synced /\ me.then = "refresh"
      /\ hist' = [hist EXCEPT !.fate = Append(@, None)]
      /\ me' = RoundTrip(me, "verdict")
      /\ heads' = heads /\ inbox' = inbox
  BY DEF Submit, Trip
<1>3. /\ Pending /\ IsSeq(req) /\ IsSeq(hist.fate) /\ DOMAIN me = MeNames /\ DOMAIN hist = HistNames
      /\ hist.sent \in 0..Len(hist.fate) /\ AtWork /\ HeadsOK(heads)
  BY <1>2 DEF VInv, Shapes, AtWork, SInv, Typed
<1>4. Len(hist.fate) \in Nat /\ id \in Nat /\ Len(req) \in Nat
  BY <1>3, SeqHas
<1>5. Len(hist'.fate) = id /\ hist'.fate[id] = None
  <2>1. hist'.fate = hist.fate \o <<None>>
    BY <1>2, <1>3, Appended DEF HistNames
  <2>2. Len(hist.fate \o <<None>>) = Len(hist.fate) + 1
        /\ (hist.fate \o <<None>>)[Len(hist.fate) + 1] = None
    BY <1>3, Ends
  <2> QED
    BY <2>1, <2>2
<1>6. hist'.sent = hist.sent /\ hist'.before = hist.before /\ hist'.alone = hist.alone
  BY <1>2, <1>3 DEF HistNames
<1>7. /\ me'.at = "wait" /\ me'.then = "verdict" /\ me'.call = me.call
      /\ me'.plan = me.plan /\ me'.todo = me.todo
  BY <1>2, <1>3 DEF RoundTrip, MeNames
<1> HIDE DEF id
<1>8. Earlier' = Earlier
  BY <1>2, <1>3, <1>4, <1>5, <1>6, <1>7 DEF Earlier, id
<1>9. ~Decided'
  BY <1>5, <1>7, NothingIs DEF Decided
<1>10. \A d \in Dev : Kept(heads[d], heads'[d])
  BY <1>2, KeptItself
<1>11. Rounds'
  BY <1>3, <1>7, <1>8 DEF AInv, Rounds
<1>12. Steady'
  BY <1>2, <1>3, <1>6 DEF AInv, Steady
<1>13. Distinct'
  BY <1>2 DEF AInv, Distinct, There
<1>14. Phases' /\ Settled' /\ Worked'
  BY <1>7, NothingIs DEF Phases, Busy, Settled, Worked
<1>15. Working'
  <2> SUFFICES ASSUME hist.alone
               PROVE  Undone' /\ \A b \in OnTheWay' : Right(b)'
    BY <1>6, <1>9 DEF Working
  <2>1. Undone'
    <3>1. Undone
      BY <1>2, <1>3 DEF AInv, Working, Decided
    <3> QED
      BY <1>6, <1>7, <1>8, <1>10, <3>1, UndoneKept
  <2>2. Right(c)'
    <3>1. /\ \A d \in Known : Fits(Configured(c)[d], heads[d], Head(me.todo), Connector[d])
          /\ Ranked(Configured(c), Known, Head(me.todo))
      BY <1>1, <1>2, SentRight
    <3>2. Known' = Known /\ Configured(c)' = Configured(c)
      BY <1>2, <1>6 DEF Known, There, Configured
    <3> QED
      BY <1>2, <1>7, <3>1, <3>2 DEF Right
  <2>3. ASSUME NEW b, Open(b) PROVE Right(b)'
    BY <1>4, <1>5, <2>3 DEF Open, Right, id
  <2>4. ASSUME NEW b \in OnTheWay', b # c PROVE Open(b)
    <3> DEFINE t == <<[do |-> "apply", of |-> c], Sync>>
    <3>1. /\ IsSeq(t) /\ t[1] = [do |-> "apply", of |-> c] /\ t[2] = Sync
          /\ \A i \in 1..Len(t) : i = 1 \/ i = 2
      BY Pair
    <3>2. req' = req \o t
      BY <1>1
    <3> HIDE DEF t
    <3>3. CASE b \in inbox
      BY <1>3, <3>3 DEF Pending
    <3>4. CASE b \notin inbox
      <4>1. PICK i \in 1..Len(req') : req'[i].do = "apply" /\ b = req'[i].of
        BY <1>2, <2>4, <3>4 DEF OnTheWay
      <4>2. CASE i \in 1..Len(req)
        <5>1. req'[i] = req[i]
          BY <1>3, <3>1, <3>2, <4>2, Joined
        <5> QED
          BY <1>3, <4>1, <4>2, <5>1 DEF Pending
      <4>3. CASE i \notin 1..Len(req)
        <5>1. i - Len(req) \in 1..Len(t) /\ req'[i] = t[i - Len(req)]
          BY <1>3, <3>1, <3>2, <4>1, <4>3, Joined
        <5>2. req'[i] = [do |-> "apply", of |-> c] \/ req'[i] = Sync
          BY <3>1, <5>1
        <5>3. Sync.do # "apply"
          BY DEF Sync
        <5> QED
          BY <2>4, <4>1, <5>2, <5>3
      <4> QED
        BY <4>2, <4>3
    <3> QED
      BY <3>3, <3>4
  <2> QED
    BY <2>1, <2>2, <2>3, <2>4
<1> QED
  BY <1>11, <1>12, <1>13, <1>14, <1>15 DEF AInv

(* The client dispatches what has come.                                    *)
LEMMA DispatchWorks == ASSUME VInv, SInv, AInv, Dispatch PROVE AInv'
<1>1. /\ me.at = "wait" /\ me' = [me EXCEPT !.synced = Synced # {}]
      /\ heads' = heads /\ inbox' = inbox /\ hist' = hist
  BY DEF Dispatch
<1>2. PICK n \in DOMAIN wire :
          /\ IF Synced = {} THEN n = Len(wire) ELSE \A i \in Synced : n >= i
          /\ st' \in CaughtUpTo(n)
          /\ req' = req \o FlattenSeq([i \in 1..n |-> Binds(wire[i])])
          /\ wire' = SubSeq(wire, n + 1, Len(wire))
  BY DEF Dispatch
<1> DEFINE q == FlattenSeq([i \in 1..n |-> Binds(wire[i])])
<1>3. /\ wire \in Seq(Events) /\ IsSeq(wire) /\ IsSeq(req) /\ st \in States /\ DOMAIN me = MeNames
      /\ DOMAIN wire = 1..Len(wire) /\ Len(wire) \in Nat /\ n \in 0..Len(wire) /\ n \in Nat
      /\ n >= 1 /\ HeadsOK(heads)
  <2>1. wire \in Seq(Events) /\ IsSeq(wire) /\ IsSeq(req) /\ st \in States /\ DOMAIN me = MeNames
        /\ HeadsOK(heads)
    BY DEF SInv, Typed, VInv, Shapes
  <2> QED
    BY <2>1
<1>4. st' = At(st, wire, n)
  BY <1>2, <1>3, CaughtUpIs
<1>5. /\ IsSeq(wire') /\ Len(wire') = Len(wire) - n /\ Len(wire') \in Nat
      /\ \A i \in 1..Len(wire') : n + i \in 1..Len(wire) /\ wire'[i] = wire[n + i]
  <2>1. IsSeq(wire') /\ Len(wire') = Len(wire) - n
        /\ \A i \in 1..Len(wire') : n + i \in 1..Len(wire) /\ wire'[i] = wire[n + i]
    BY <1>2, <1>3, Rest
  <2> QED
    BY <1>3, <2>1
<1>6. /\ \A i \in 0..(Len(wire) - n) : At(st', wire', i) = At(st, wire, n + i)
      /\ After(st', wire') = After(st, wire)
  BY <1>2, <1>3, <1>4, AtDropped
<1>7. Tame(q)
  BY <1>3, BindsAre DEF Tame
<1>8. OnTheWay' \subseteq OnTheWay
  <2>1. req' = req \o q
    BY <1>2
  <2> HIDE DEF q
  <2> QED
    BY <1>1, <1>3, <1>7, <2>1, OtherAsked
<1>9. /\ me'.at = me.at /\ me'.then = me.then /\ me'.call = me.call /\ me'.plan = me.plan
      /\ me'.todo = me.todo /\ (me'.synced <=> Synced # {})
  BY <1>1, <1>3 DEF MeNames
<1>10. Synced # {} => \E i \in 1..n : wire[i].ev = "synced"
  <2> SUFFICES ASSUME NEW i \in Synced PROVE \E j \in 1..n : wire[j].ev = "synced"
    OBVIOUS
  <2>1. i \in 1..Len(wire) /\ wire[i].ev = "synced" /\ \A j \in Synced : n >= j
    BY <1>2, <1>3 DEF Synced
  <2>2. i \in 1..n
    BY <1>3, <2>1
  <2> QED
    BY <2>1, <2>2
<1>11. Known' = Known /\ There' = There
  BY <1>1 DEF Known, There
<1>12. Settled'
  <2> SUFFICES ASSUME me.then = "refresh", hist.alone, NEW k \in 0..Len(wire'), Ripe(k)',
                      NEW d \in Dev
               PROVE  /\ d \in Known => View(At(st', wire', k), d) = Full(heads[d])
                      /\ d \notin There => View(At(st', wire', k), d) \in Hidden
    BY <1>1, <1>9, <1>11 DEF Settled
  <2>1. n + k \in 0..Len(wire) /\ k \in 0..(Len(wire) - n) /\ k \in Nat
    BY <1>3, <1>5
  <2>2. Ripe(n + k)
    <3>1. CASE me'.synced
      <4>1. PICK i \in 1..n : wire[i].ev = "synced"
        BY <1>9, <1>10, <3>1
      <4>2. i \in 1..(n + k)
        BY <1>3, <2>1
      <4> QED
        BY <4>1, <4>2 DEF Ripe
    <3>2. CASE \E i \in 1..k : wire'[i].ev = "synced"
      <4>1. PICK i \in 1..k : wire'[i].ev = "synced"
        BY <3>2
      <4>2. i \in 1..Len(wire') /\ n + i \in 1..(n + k)
        BY <1>3, <1>5, <2>1
      <4>3. wire[n + i].ev = "synced"
        BY <1>5, <4>1, <4>2
      <4> QED
        BY <4>2, <4>3 DEF Ripe
    <3> QED
      BY <3>1, <3>2 DEF Ripe
  <2>3. /\ d \in Known => View(At(st, wire, n + k), d) = Full(heads[d])
        /\ d \notin There => View(At(st, wire, n + k), d) \in Hidden
    BY <2>1, <2>2 DEF AInv, Settled
  <2> QED
    BY <1>6, <2>1, <2>3
<1>13. Rounds' /\ Steady' /\ Working' /\ Distinct'
  <2>1. \A d \in Dev : Kept(heads[d], heads'[d])
    BY <1>1, KeptItself
  <2>2. Decided' <=> Decided
    BY <1>1, <1>9 DEF Decided
  <2> QED
    BY <1>1, <1>3, <1>8, <1>9, <2>1, <2>2, WorkKept
<1>14. Phases' /\ Worked'
  BY <1>1, <1>9 DEF AInv, Phases, Busy, Worked
<1> QED
  BY <1>12, <1>13, <1>14 DEF AInv

-----------------------------------------------------------------------------
(* The calls.                                                              *)
LEMMA CallApplyWorks == ASSUME VInv, SInv, AInv, CallApply PROVE AInv'
<1>1. me.at = "idle" /\ heads' = heads /\ wire' = wire /\ hist' = Begun
  BY DEF CallApply, MayCall
<1>2. /\ DOMAIN me = MeNames /\ DOMAIN hist = HistNames /\ NoSync /\ IsSeq(wire)
      /\ Len(hist.fate) \in Nat /\ me.then = None
  BY <1>1, NothingIs, SeqHas DEF VInv, Shapes, Mine, SInv, OneSync
<1>3. None \notin {"verdict", "refresh", "ok"}
  BY NothingIs
<1>4. PICK plan \in Plans : \E todo \in {<<plan>>, Applications(plan)} :
         LET mine == Calls("apply", plan, todo) IN
         \/ me' = [mine EXCEPT !.todo = << >>, !.out = "rejected"]
         \/ me' = RoundTrip(mine, "refresh")
  BY DEF CallApply
<1>5. PICK todo \in {<<plan>>, Applications(plan)} :
         LET mine == Calls("apply", plan, todo) IN
         \/ me' = [mine EXCEPT !.todo = << >>, !.out = "rejected"]
         \/ me' = RoundTrip(mine, "refresh")
  BY <1>4
<1> DEFINE c == Calls("apply", plan, todo)
<1>6. /\ DOMAIN c = MeNames /\ c.at = "idle" /\ c.then = None /\ c.call = "apply"
      /\ c.todo = todo /\ c.plan = plan
  BY <1>1, <1>2 DEF Calls, MeNames
<1>7. \/ me' = [c EXCEPT !.todo = << >>, !.out = "rejected"]
      \/ me' = RoundTrip(c, "refresh")
  BY <1>5
<1> HIDE DEF c
<1>8. CASE me' = [c EXCEPT !.todo = << >>, !.out = "rejected"]
  <2>1. me'.at = "idle" /\ me'.then = None /\ me'.out = "rejected"
    BY <1>6, <1>8 DEF MeNames
  <2> QED
    BY <1>1, <2>1, EndWorks
<1>9. CASE me' = RoundTrip(c, "refresh")
  <2>1. /\ me'.at = "wait" /\ me'.then = "refresh" /\ ~me'.synced /\ me'.todo = todo
        /\ me'.plan = plan /\ me'.call = "apply"
    BY <1>6, <1>9 DEF RoundTrip, MeNames
  <2>2. hist'.before = heads /\ hist'.fate = hist.fate /\ hist'.sent = Len(hist.fate)
    BY <1>1, <1>2 DEF Begun, HistNames
  <2>3. Earlier' = 0
    BY <1>2, <2>1, <2>2 DEF Earlier
  <2>4. Rounds'
    <3>1. todo \in {<<plan>>, <<First(plan), plan>>}
      BY DEF Applications, First
    <3> QED
      BY <2>1, <2>3, <3>1 DEF Rounds
  <2>5. Settled'
    BY <1>1, <1>2, <2>1, NotYet
  <2>6. Steady'
    BY <1>1, <2>2 DEF Steady
  <2>7. ~Decided' /\ me'.then # "verdict"
    BY <2>1 DEF Decided
  <2>8. Undone'
    BY <1>1, <2>2, <2>3 DEF Undone, Same
  <2>9. Working'
    BY <2>7, <2>8 DEF Working
  <2>10. Phases' /\ Worked'
    BY <1>3, <2>1 DEF Phases, Busy, Worked
  <2>11. Distinct'
    BY <1>1 DEF AInv, Distinct, There
  <2> QED
    BY <2>4, <2>5, <2>6, <2>9, <2>10, <2>11 DEF AInv
<1> QED
  BY <1>7, <1>8, <1>9

LEMMA CallWorks == ASSUME VInv, SInv, AInv, Call PROVE AInv'
<1>1. DOMAIN me = MeNames
  BY DEF VInv, Shapes
<1>2. None \notin {"globals", "snapshot"}
  BY NothingIs
<1>3. CASE Connect
  <2>1. me.at = "off" /\ me' = RoundTrip(me, "globals") /\ heads' = heads
    BY <1>3 DEF Connect
  <2>2. me'.at = "wait" /\ me'.then = "globals" /\ me'.call = "connect"
    BY <1>1, <2>1 DEF AInv, Phases, RoundTrip, MeNames
  <2>3. Phases' /\ Worked'
    BY <1>2, <2>2 DEF Phases, Busy, Worked
  <2> QED
    BY <2>1, <2>2, <2>3, RestWorks
<1>4. CASE CallSnapshot
  <2> DEFINE c == Calls("snapshot", None, << >>)
  <2>1. me' = RoundTrip(c, "snapshot") /\ heads' = heads
    BY <1>4 DEF CallSnapshot
  <2>2. DOMAIN c = MeNames /\ c.call = "snapshot"
    BY <1>1, CallsIs
  <2> HIDE DEF c
  <2>3. me'.at = "wait" /\ me'.then = "snapshot" /\ me'.call = "snapshot"
    BY <2>1, <2>2 DEF RoundTrip, MeNames
  <2>4. Phases' /\ Worked'
    BY <1>2, <2>3 DEF Phases, Busy, Worked
  <2> QED
    BY <2>1, <2>3, <2>4, RestWorks
<1>5. CASE CallApply
  BY <1>5, CallApplyWorks
<1> QED
  BY <1>3, <1>4, <1>5 DEF Call

-----------------------------------------------------------------------------
(* The invariant holds.                                                    *)
LEMMA AInit == ASSUME Init PROVE AInv
<1>1. /\ me.at = "off" /\ me.then = None /\ me.call = "connect"
      /\ \A d \in There, e \in Dev : Connector[d] = Connector[e] => d <= e
  BY DEF Init
<1>2. None \notin {"refresh", "verdict"}
  BY NothingIs
<1>3. ~AtWork
  BY <1>1, <1>2 DEF AtWork
<1>4. Distinct
  <2> SUFFICES ASSUME NEW d \in There, NEW e \in There, Connector[d] = Connector[e]
               PROVE  d = e
    BY DEF Distinct
  <2>1. d \in Dev /\ e \in Dev /\ Dev \subseteq Nat
    BY Names DEF There, Dev
  <2>2. d <= e /\ e <= d
    BY <1>1, <2>1
  <2> QED
    BY <2>1, <2>2
<1>5. Phases /\ Worked
  BY <1>1 DEF Phases, Busy, Worked
<1> QED
  BY <1>1, <1>2, <1>3, <1>4, <1>5 DEF AInv, Rounds, Steady, Settled, Working

LEMMA ANext == ASSUME ~Mute, VInv, SInv, AInv, [Next]_vars PROVE AInv'
<1>1. CASE UNCHANGED vars
  <2>1. Known' = Known /\ There' = There
    BY <1>1 DEF vars, Known, There
  <2>2. OnTheWay' = OnTheWay /\ Decided' = Decided /\ Earlier' = Earlier
    BY <1>1 DEF vars, OnTheWay, Decided, Earlier
  <2>3. \A d \in Dev : Kept(heads[d], heads'[d])
    BY <1>1, KeptItself DEF vars
  <2>4. HeadsOK(heads) /\ HeadsOK(heads')
    BY <1>1 DEF vars, SInv, Typed
  <2>5. Rounds' /\ Steady' /\ Working' /\ Distinct'
    BY <1>1, <2>2, <2>3, <2>4, WorkKept DEF vars
  <2>6. Phases' /\ Settled' /\ Worked'
    <3>1. Worked'
      BY <1>1, <2>3, WorkedKept DEF vars
    <3>2. Phases'
      BY <1>1 DEF vars, AInv, Phases, Busy
    <3>3. Settled'
      BY <1>1, <2>1 DEF vars, AInv, Settled, Ripe
    <3> QED
      BY <3>1, <3>2, <3>3
  <2> QED
    BY <2>5, <2>6 DEF AInv
<1>2. CASE Call
  BY <1>2, CallWorks
<1>3. CASE Client
  BY <1>3, DispatchWorks, TripWorks, VerdictWaits, NothingWorks, SubmitWorks, FailsWork,
     AnswerWorks DEF Client
<1>4. CASE Deadline
  BY <1>4, VerdictWaits
<1>5. CASE Serve
  BY <1>5, ServeWorks
<1>6. CASE Verdict
  BY <1>6, VerdictWorks
<1>7. CASE Outside
  BY <1>7, OutsideWorks
<1>8. CASE AllDone
  BY <1>1, <1>8 DEF AllDone
<1> QED
  BY <1>1, <1>2, <1>3, <1>4, <1>5, <1>6, <1>7, <1>8 DEF Next

(* An apply that returns Ok while nothing else changes the outputs has made*)
(* of every head KWin had described what the plan wants of it as it was    *)
(* when the call began, and given the priorities, whether the configuration*)
(* was the only one or the second of a restore.                            *)
THEOREM PlansAreApplied == ASSUME ~Mute PROVE Spec => []AppliedIsPlan
<1>1. Init => VInv /\ SInv /\ AInv
  BY VInit, SInit, AInit
<1>2. VInv /\ SInv /\ AInv /\ [Next]_vars => VInv' /\ SInv' /\ AInv'
  BY VNext, SNext, ANext
<1>3. VInv /\ SInv /\ AInv => AppliedIsPlan
  BY WorkedIs DEF AInv
<1> QED
  BY <1>1, <1>2, <1>3, PTL DEF Spec

(* The second configuration of a restore is sent only when the heads to be *)
(* enabled are on, so it turns others off with those to take over.         *)
THEOREM RestoresInOrder == ASSUME ~Mute PROVE Spec => []RestoreInOrder
<1>1. Init => VInv /\ SInv /\ AInv
  BY VInit, SInit, AInit
<1>2. VInv /\ SInv /\ AInv /\ [Next]_vars => VInv' /\ SInv' /\ AInv'
  BY VNext, SNext, ANext
<1>3. VInv /\ SInv /\ AInv => RestoreInOrder
  BY InOrder
<1> QED
  BY <1>1, <1>2, <1>3, PTL DEF Spec

-----------------------------------------------------------------------------
(* Type correctness.  That a head which is shown has a place is not so of  *)
(* any State: a device is done only after its geometry has come (Sound),   *)
(* wherever the reading of what KWin says stops.                           *)
Sound == \A n \in 0..Len(wire), d \in Dev : View(At(st, wire, n), d) \in Sane
Kwins == kwin \in [globals : SUBSET {"manager", "registry"}, legacy : BOOLEAN,
                   listening : BOOLEAN, bound : BOOLEAN, up : BOOLEAN]
Requests(q) ==
    \A i \in 1..Len(q) :
        q[i].do \in {"globals", "bind_registry", "bind_device", "sync", "apply"}
Caller(m) ==
    /\ m.at \in {"off", "wait", "sleep", "idle", "closed"}
    /\ Len(m.todo) \in 0..2 /\ m.calls \in 0..MaxCalls
    /\ \A d \in DOMAIN m.snap : d \in Dev /\ m.snap[d] \in SnapType

TInv == Sound /\ Kwins /\ Requests(req) /\ Caller(me) /\ changes \in 0..MaxChanges

(* KWin's steps.                                                           *)
LEMMA KwinTells ==
    ASSUME ~Mute, VInv, SInv, Outside \/ Verdict \/ Serve
    PROVE  st' = st /\ \E q : Tells(q, heads') /\ wire' = wire \o q
<1>1. HeadsOK(heads) /\ IsSeq(wire) /\ IsSeq(req) /\ wire \in Seq(Events)
  BY DEF SInv, Typed, VInv, Shapes
<1>2. CASE Outside
  <2>1. PICK q, h : Moves(q, h) /\ Change(h, q)
    BY <1>1, <1>2, OutsideMoves
  <2> QED
    BY <2>1 DEF Moves, Change
<1>3. CASE Verdict
  <2>1. PICK c \in inbox : inbox' = inbox \ {c} /\ (Applies(c) \/ Refuses(c))
    BY <1>3 DEF Verdict
  <2>2. st' = st /\ Written(c) /\ c.id \in Nat
    BY <1>3 DEF Verdict, SInv, Writes, VInv, Pending, Open
  <2>3. CASE Applies(c)
    <3>1. PICK q : Moves(q, heads') /\ wire' = wire \o q
      BY <1>1, <2>2, <2>3, AppliesMoves
    <3> QED
      BY <2>2, <3>1 DEF Moves
  <2>4. CASE Refuses(c)
    <3>1. PICK q : Moves(q, heads) /\ wire' = wire \o q /\ heads' = heads
      BY <1>1, <2>2, <2>4, RefusesMoves
    <3> QED
      BY <2>2, <3>1 DEF Moves
  <2> QED
    BY <2>1, <2>3, <2>4
<1>4. CASE Serve
  <2> DEFINE r == Head(req)
  <2>1. req # << >> /\ st' = st
        /\ (AnswerGlobals(r) \/ AnswerBindRegistry(r) \/ AnswerBindDevice(r)
            \/ AnswerSync(r) \/ TakeConfiguration(r))
    BY <1>4 DEF Serve
  <2>2. 1 \in 1..Len(req) /\ r = req[1]
    BY <1>1, <2>1, TailHas
  <2> HIDE DEF r
  <2>3. CASE AnswerGlobals(r)
    <3>1. \A d \in Dev : heads[d].told = "no"
      BY <2>2, <2>3 DEF SInv, Unasked, AnswerGlobals
    <3> QED
      BY <1>1, <2>1, <2>3, <3>1, GlobalsTell
  <2>4. CASE AnswerBindRegistry(r)
    BY <1>1, <2>1, <2>4, RegistryTells
  <2>5. CASE AnswerBindDevice(r)
    <3>1. r.of \in Dev /\ Met(heads[r.of])
      BY <2>2, <2>5 DEF SInv, OnFile, AnswerBindDevice
    <3> QED
      BY <1>1, <2>1, <2>5, <3>1, DeviceTells
  <2>6. CASE AnswerSync(r)
    <3>1. heads' = heads
      BY <2>6 DEF AnswerSync
    <3> QED
      BY <1>1, <2>1, <2>6, <3>1, SyncTells
  <2>7. CASE TakeConfiguration(r)
    <3> DEFINE q == << >>
    <3>1. heads' = heads /\ wire' = wire
      BY <2>7 DEF TakeConfiguration
    <3>2. q \in Seq(Events) /\ Nobody(q) /\ wire \o q = wire
      BY <1>1, NobodyNone
    <3> HIDE DEF q
    <3>3. Tells(q, heads)
      BY <1>1, <3>2, TellsNobody
    <3> QED
      BY <2>1, <3>1, <3>2, <3>3
  <2> QED
    BY <2>1, <2>3, <2>4, <2>5, <2>6, <2>7
<1> QED
  BY <1>2, <1>3, <1>4

LEMMA SoundTold ==
    ASSUME Typed, InStep, Sound, st' = st, NEW q, Tells(q, heads'), wire' = wire \o q
    PROVE  Sound'
<1> SUFFICES ASSUME NEW n \in 0..Len(wire'), NEW d \in Dev
             PROVE  View(At(st', wire', n), d) \in Sane
  BY DEF Sound
<1>1. /\ IsSeq(wire) /\ IsSeq(q) /\ q \in Seq(Events) /\ Len(wire) \in Nat /\ Len(q) \in Nat
      /\ Len(wire') = Len(wire) + Len(q) /\ After(st, wire) \in States
  BY AtTyped, SeqIs, SeqHas, Joined DEF Typed, Tells
<1>2. CASE n \in 0..Len(wire)
  <2>1. At(st', wire', n) = At(st, wire, n)
    BY <1>1, <1>2, AtJoined
  <2> QED
    BY <1>2, <2>1 DEF Sound
<1>3. CASE n \notin 0..Len(wire)
  <2> DEFINE k == n - Len(wire)
  <2>1. k \in 0..Len(q) /\ n = Len(wire) + k
    BY <1>1, <1>3
  <2>2. At(st', wire', n) = At(After(st, wire), q, k)
    BY <1>1, <2>1, AtJoined
  <2>3. View(At(After(st, wire), q, k), d) \in Between(heads[d], heads'[d])
    <3>1. View(After(st, wire), d) \in Held(heads[d])
      BY DEF InStep
    <3>2. Leads(d, q, Held(heads[d]), Between(heads[d], heads'[d]), Held(heads'[d]))
      BY DEF Tells, Leading
    <3> QED
      BY <1>1, <2>1, <3>1, <3>2 DEF Leads
  <2> QED
    BY <2>2, <2>3 DEF Between
<1> QED
  BY <1>2, <1>3

LEMMA TailFits ==
    ASSUME NEW s, IsSeq(s), s # << >>
    PROVE  Len(Tail(s)) = Len(s) - 1 /\ Len(s) \in Nat /\ Len(s) >= 1
<1> DEFINE S == {s[i] : i \in DOMAIN s}
<1>1. s \in Seq(S) /\ s # << >>
  BY DEF IsSeq
<1> HIDE DEF S
<1> QED
  BY <1>1

LEMMA RequestsMore ==
    ASSUME IsSeq(req), Requests(req), NEW q, IsSeq(q), Requests(q), req' = req \o q
    PROVE  Requests(req)'
<1>1. /\ \A i \in 1..Len(req) : req'[i] = req[i]
      /\ \A i \in 1..Len(req') : i \notin 1..Len(req) =>
             i - Len(req) \in 1..Len(q) /\ req'[i] = q[i - Len(req)]
  BY Joined
<1> QED
  BY <1>1 DEF Requests

LEMMA RequestsSync ==
    ASSUME IsSeq(req), Requests(req), req' = Append(req, Sync) \/ req' = req
    PROVE  Requests(req)'
<1>1. CASE req' = Append(req, Sync)
  <2> DEFINE q == <<Sync>>
  <2>1. req' = req \o q /\ IsSeq(q) /\ Requests(q)
    BY <1>1, Appended, OneLong DEF Requests, Sync
  <2> HIDE DEF q
  <2> QED
    BY <2>1, RequestsMore
<1>2. CASE req' = req
  BY <1>2
<1> QED
  BY <1>1, <1>2

LEMMA KwinTypes == ASSUME ~Mute, VInv, SInv, TInv, Outside \/ Verdict \/ Serve PROVE TInv'
<1>1. Sound'
  <2>1. st' = st /\ \E q : Tells(q, heads') /\ wire' = wire \o q
    BY KwinTells
  <2> QED
    BY <2>1, SoundTold DEF TInv, SInv
<1>2. Kwins'
  <2>1. CASE Serve
    BY <2>1 DEF Serve, AnswerGlobals, AnswerBindRegistry, AnswerBindDevice, AnswerSync,
                TakeConfiguration, TInv, Kwins
  <2>2. CASE Verdict
    BY <2>2 DEF Verdict, TInv, Kwins
  <2>3. CASE Outside
    BY <2>3 DEF Outside, Plug, Unplug, Rearrange, LoseMode, GainMode, Quit, Withdraw, Crash,
                TInv, Kwins
  <2> QED
    BY <2>1, <2>2, <2>3
<1>3. Requests(req)'
  <2>1. CASE Serve
    <3>1. req # << >> /\ req' = Tail(req) /\ IsSeq(req)
      BY <2>1 DEF Serve, VInv, Shapes
    <3>2. \A i \in 1..Len(req') : i + 1 \in 1..Len(req) /\ req'[i] = req[i + 1]
      BY <3>1, TailHas
    <3> QED
      BY <3>2 DEF TInv, Requests
  <2>2. CASE Outside \/ Verdict
    <3>1. req' = req
      BY <2>2 DEF Verdict, Outside, Plug, Unplug, Rearrange, LoseMode, GainMode, Quit,
                  Withdraw, Crash, Change
    <3> QED
      BY <3>1 DEF TInv, Requests
  <2> QED
    BY <2>1, <2>2
<1>4. me' = me /\ changes' \in 0..MaxChanges
  <2>1. CASE Serve \/ Verdict
    BY <2>1 DEF Serve, Verdict, TInv
  <2>2. CASE Outside
    <3>1. PICK q, h : Change(h, q)
      <4>1. HeadsOK(heads)
        BY DEF SInv, Typed
      <4> QED
        BY <2>2, <4>1, OutsideMoves
    <3> QED
      BY <3>1, Bounds DEF Change, TInv
  <2> QED
    BY <2>1, <2>2
<1> QED
  BY <1>1, <1>2, <1>3, <1>4 DEF TInv

(* The client's steps: those that dispatch nothing leave the views.        *)
LEMMA SoundSame ==
    ASSUME SInv, Sound, wire' = wire, st' \in States, \A d \in Dev : View(st', d) = View(st, d)
    PROVE  Sound'
<1> SUFFICES ASSUME NEW n \in 0..Len(wire), NEW d \in Dev
             PROVE  View(At(st', wire, n), d) \in Sane
  BY DEF Sound
<1>1. st \in States /\ wire \in Seq(Events) /\ View(st', d) = View(st, d)
  BY DEF SInv, Typed
<1>2. View(At(st', wire, n), d) = View(At(st, wire, n), d)
  BY <1>1, SameAfter
<1> QED
  BY <1>2 DEF Sound

LEMMA TripViews ==
    ASSUME VInv, SInv,
           \/ Connect \/ CallSnapshot \/ CallApply \/ NotKwin \/ GetBurst \/ Connected \/ Snapshot
           \/ NothingToApply \/ Submit \/ Went \/ Answered \/ TimedOut \/ Sleep \/ Wake \/ Broken
           \/ Deadline
    PROVE  wire' = wire /\ st' \in States /\ \A d \in Dev : View(st', d) = View(st, d)
<1>1. st \in States /\ Len(hist.fate) \in Nat
  BY SeqHas DEF SInv, Typed, VInv, Shapes
<1> DEFINE Alike2(t) == t \in States /\ \A d \in Dev : View(t, d) = View(st, d)
           id == Len(hist.fate) + 1
<1>a. id \in Nat
  BY <1>1
<1>2. Alike2(st) /\ Alike2([st EXCEPT !.alive = TRUE]) /\ Alike2(Destroyed)
      /\ Alike2([Destroyed EXCEPT !.result = None]) /\ Alike2(SlotEmptied(id))
  <2>1. Alike2(st)
    BY <1>1
  <2>2. LET t == [st EXCEPT !.alive = TRUE] IN
        t \in States /\ \A d \in Dev : View(t, d) = View(st, d)
    BY <1>1, SameShown
  <2>3. LET t == [st EXCEPT !.cfgs = {}] IN
        t \in States /\ \A d \in Dev : View(t, d) = View(st, d)
    BY <1>1, SameShown
  <2>4. LET t == [[st EXCEPT !.cfgs = {}] EXCEPT !.result = None] IN
        t \in States /\ \A d \in Dev : View(t, d) = View(st, d)
    BY <1>1, SameShown
  <2> HIDE DEF id
  <2>5. LET t == [st EXCEPT !.result = None, !.reason = None, !.cfgs = @ \cup {id}] IN
        t \in States /\ \A d \in Dev : View(t, d) = View(st, d)
    BY <1>1, <1>a, SameShown
  <2>6. Alike2([st EXCEPT !.alive = TRUE])
    BY <2>2
  <2>7. Alike2(Destroyed)
    BY <2>3 DEF Destroyed
  <2>8. Alike2([Destroyed EXCEPT !.result = None])
    BY <2>4 DEF Destroyed
  <2>9. Alike2(SlotEmptied(id))
    BY <2>5 DEF SlotEmptied
  <2> HIDE DEF Alike2
  <2> QED
    BY <2>1, <2>6, <2>7, <2>8, <2>9
<1> HIDE DEF Alike2
<1>3. CASE Connect \/ CallSnapshot \/ CallApply \/ NotKwin \/ Connected \/ Snapshot
           \/ NothingToApply \/ Sleep \/ Wake \/ Deadline
  <2>1. wire' = wire /\ st' = st
    BY <1>3 DEF Connect, CallSnapshot, CallApply, NotKwin, Connected, Snapshot, NothingToApply,
                Sleep, Wake, Deadline
  <2> QED
    BY <1>2, <2>1 DEF Alike2
<1>4. CASE GetBurst
  BY <1>2, <1>4 DEF Alike2, GetBurst
<1>5. CASE Submit
  BY <1>2, <1>5 DEF Alike2, Submit
<1>6. CASE Went \/ TimedOut \/ Broken
  BY <1>2, <1>6 DEF Alike2, Went, TimedOut, Broken
<1>7. CASE Answered
  BY <1>2, <1>7 DEF Alike2, Answered
<1> QED
  BY <1>3, <1>4, <1>5, <1>6, <1>7

(* A head that is shown has its place.                                     *)
LEMMA ShownTyped ==
    ASSUME SInv, Sound, NEW d \in DOMAIN SnapshotOf(st)
    PROVE  d \in Dev /\ SnapshotOf(st)[d] \in SnapType
<1>1. st \in States /\ wire \in Seq(Events) /\ IsSeq(wire)
  BY SeqIs DEF SInv, Typed
<1>2. d \in ToSet(LiveHeads(st)) /\ SnapshotOf(st)[d] = HeadShown(st, d)
  BY DEF SnapshotOf
<1>3. d \in Dev
  BY <1>1, <1>2, LiveIs
<1>4. View(st, d) \in Sane /\ View(st, d).dev = st.dev[d] /\ View(st, d).dev.done
  <2>1. Len(wire) \in Nat /\ At(st, wire, 0) = st
    BY <1>1, TrajIs
  <2>2. 0 \in 0..Len(wire)
    BY <2>1
  <2>3. View(At(st, wire, 0), d) \in Sane
    BY <1>3, <2>2 DEF Sound
  <2> QED
    BY <1>1, <1>2, <1>3, <2>1, <2>3, SnapshotIs, ViewTyped
<1>5. st.dev[d] \in Devices
  BY <1>1, <1>3 DEF States
<1>6. st.dev[d].on \in BOOLEAN /\ st.dev[d].place \in Place
  BY <1>4, <1>5 DEF Sane, Devices
<1>7. ModeShown(st, d) \in Kind \cup {Unsized, None}
  BY <1>5 DEF ModeShown, Devices
<1> QED
  BY <1>2, <1>3, <1>6, <1>7 DEF HeadShown, SnapType

LEMMA DispatchSound == ASSUME VInv, SInv, Sound, Dispatch PROVE Sound'
<1>1. PICK n \in DOMAIN wire :
          st' \in CaughtUpTo(n) /\ wire' = SubSeq(wire, n + 1, Len(wire))
  BY DEF Dispatch
<1>2. /\ wire \in Seq(Events) /\ IsSeq(wire) /\ st \in States
      /\ DOMAIN wire = 1..Len(wire) /\ Len(wire) \in Nat /\ n \in 0..Len(wire) /\ n \in Nat
  <2>1. wire \in Seq(Events) /\ IsSeq(wire) /\ st \in States
    BY DEF SInv, Typed, VInv, Shapes
  <2> QED
    BY <2>1
<1>3. st' = At(st, wire, n)
  BY <1>1, <1>2, CaughtUpIs
<1>4. Len(wire') = Len(wire) - n
  BY <1>1, <1>2, Rest
<1>5. /\ \A i \in 0..(Len(wire) - n) : At(st', wire', i) = At(st, wire, n + i)
      /\ After(st', wire') = After(st, wire)
  BY <1>1, <1>2, <1>3, AtDropped
<1> SUFFICES ASSUME NEW k \in 0..Len(wire'), NEW d \in Dev
             PROVE  View(At(st', wire', k), d) \in Sane
  BY DEF Sound
<1>6. n + k \in 0..Len(wire) /\ k \in 0..(Len(wire) - n)
  BY <1>2, <1>4
<1> QED
  BY <1>5, <1>6 DEF Sound

(* What becomes of the call.                                               *)
LEMMA OverTyped ==
    ASSUME DOMAIN me = MeNames, Caller(me), NEW out, NEW why
    PROVE  /\ Caller(Over(out, why)) /\ Caller([Over(out, why) EXCEPT !.at = "closed"])
           /\ DOMAIN Over(out, why) = MeNames
<1> DEFINE m == Over(out, why)
           n == [m EXCEPT !.at = "closed"]
<1>1. /\ m.at = "idle" /\ m.todo = << >> /\ m.calls = me.calls /\ m.snap = me.snap
      /\ n.at = "closed" /\ n.todo = << >> /\ n.calls = me.calls /\ n.snap = me.snap
      /\ DOMAIN m = MeNames
  BY DEF Over, MeNames
<1> HIDE DEF m, n
<1>2. Len(<< >>) \in 0..2
  BY Nothing
<1>3. Caller(m) /\ Caller(n)
  BY <1>1, <1>2 DEF Caller
<1> QED
  BY <1>1, <1>3 DEF m, n

LEMMA RoundTyped ==
    ASSUME NEW m, DOMAIN m = MeNames, Caller(m), NEW then
    PROVE  Caller(RoundTrip(m, then))
<1> DEFINE n == RoundTrip(m, then)
<1>1. n.at = "wait" /\ n.todo = m.todo /\ n.calls = m.calls /\ n.snap = m.snap
  BY DEF RoundTrip, MeNames
<1> HIDE DEF n
<1>2. Caller(n)
  BY <1>1 DEF Caller
<1> QED
  BY <1>2 DEF n

LEMMA ReturnTyped ==
    ASSUME VInv, SInv, TInv, AtWork, NEW out, NEW why, ApplyReturns(out, why)
    PROVE  Caller(me') /\ (req' = Append(req, Sync) \/ req' = req)
<1>1. DOMAIN me = MeNames /\ Caller(me) /\ IsSeq(me.todo) /\ Len(me.todo) > 0
  BY DEF VInv, Shapes, TInv, SInv, Writes, AtWork
<1>2. CASE out = "ok" /\ Len(me.todo) > 1
  <2> DEFINE m == [me EXCEPT !.todo = Tail(@), !.late = FALSE]
  <2>1. me' = RoundTrip(m, "refresh") /\ req' = Append(req, Sync)
    BY <1>2 DEF ApplyReturns
  <2>2. DOMAIN m = MeNames /\ m.at = me.at /\ m.todo = Tail(me.todo) /\ m.calls = me.calls
        /\ m.snap = me.snap
    BY <1>1 DEF MeNames
  <2>3. Len(Tail(me.todo)) \in 0..2
    <3>1. me.todo # << >>
      BY <1>1, Nothing
    <3>2. Len(Tail(me.todo)) = Len(me.todo) - 1 /\ Len(me.todo) \in Nat /\ Len(me.todo) >= 1
      BY <1>1, <3>1, TailFits
    <3>3. Len(me.todo) \in 0..2
      BY <1>1 DEF Caller
    <3> QED
      BY <3>2, <3>3
  <2> HIDE DEF m
  <2>4. Caller(m)
    BY <1>1, <2>2, <2>3 DEF Caller
  <2> QED
    BY <2>1, <2>2, <2>4, RoundTyped
<1>3. CASE ~(out = "ok" /\ Len(me.todo) > 1)
  <2>1. me' = Over(out, why) /\ req' = req
    BY <1>3 DEF ApplyReturns
  <2> QED
    BY <1>1, <2>1, OverTyped
<1> QED
  BY <1>2, <1>3

(* The client's steps leave KWin's globals, and what it is asked is among  *)
(* what it knows.                                                          *)
LEMMA ClientLeaves ==
    ASSUME Call \/ Client \/ Deadline
    PROVE  kwin' = kwin /\ changes' = changes
<1>1. CASE Call
  BY <1>1 DEF Call, Connect, CallSnapshot, CallApply
<1>2. CASE Dispatch \/ NotKwin \/ GetBurst \/ Connected \/ Snapshot \/ Sleep \/ Wake \/ Broken
           \/ Deadline
  BY <1>2 DEF Dispatch, NotKwin, GetBurst, Connected, Snapshot, Sleep, Wake, Broken, Deadline
<1>3. CASE NothingToApply \/ Submit \/ Went \/ Answered \/ TimedOut
  BY <1>3 DEF NothingToApply, Submit, Went, Answered, TimedOut
<1> QED
  BY <1>1, <1>2, <1>3 DEF Client

LEMMA DispatchTypes == ASSUME VInv, SInv, TInv, Dispatch PROVE TInv'
<1>1. Sound'
  BY DispatchSound DEF TInv
<1>2. PICK n \in DOMAIN wire : req' = req \o FlattenSeq([i \in 1..n |-> Binds(wire[i])])
  BY DEF Dispatch
<1>3. IsSeq(req) /\ DOMAIN wire = 1..Len(wire) /\ Len(wire) \in Nat /\ n \in 0..Len(wire)
  <2>1. IsSeq(req) /\ DOMAIN wire = 1..Len(wire) /\ Len(wire) \in Nat
    BY SeqHas DEF VInv, Shapes
  <2> QED
    BY <2>1, <1>2
<1> DEFINE q == FlattenSeq([i \in 1..n |-> Binds(wire[i])])
<1>4. IsSeq(q) /\ Requests(q)
  <2>1. \A p : p = q => /\ IsSeq(p)
                        /\ \A k \in 1..Len(p) : p[k].do \in {"bind_registry", "bind_device"}
    BY <1>3, BindsAre
  <2> HIDE DEF q
  <2> QED
    BY <2>1 DEF Requests
<1>5. req' = req \o q
  BY <1>2
<1> HIDE DEF q
<1>6. Requests(req)'
  BY <1>3, <1>4, <1>5, RequestsMore DEF TInv
<1>7. Caller(me)'
  <2> DEFINE m == me'
  <2>1. DOMAIN me = MeNames /\ Caller(me)
    BY DEF VInv, Shapes, TInv
  <2>2. m.at = me.at /\ m.todo = me.todo /\ m.calls = me.calls /\ m.snap = me.snap
    BY <2>1 DEF Dispatch, MeNames
  <2> QED
    BY <2>1, <2>2 DEF Caller
<1>8. kwin' = kwin /\ changes' = changes
  BY ClientLeaves DEF Client
<1> QED
  BY <1>1, <1>6, <1>7, <1>8 DEF TInv, Kwins

LEMMA CallTyped ==
    ASSUME DOMAIN me = MeNames, me.calls \in 0..MaxCalls, MayCall, NEW call, NEW plan,
           NEW todo, Len(todo) \in 0..2
    PROVE  DOMAIN Calls(call, plan, todo) = MeNames /\ Caller(Calls(call, plan, todo))
<1> DEFINE m == Calls(call, plan, todo)
<1>1. /\ DOMAIN m = MeNames /\ m.at = me.at /\ m.todo = todo /\ m.calls = me.calls + 1
      /\ m.snap = << >>
  BY DEF Calls, MeNames
<1>2. me.at = "idle" /\ me.calls + 1 \in 0..MaxCalls
  BY Bounds DEF MayCall
<1>3. DOMAIN << >> = {}
  OBVIOUS
<1> HIDE DEF m
<1>4. Caller(m)
  BY <1>1, <1>2, <1>3 DEF Caller
<1> QED
  BY <1>1, <1>4 DEF m

(* The caller and what it asks, whatever it does.                          *)
LEMMA TripTypes ==
    ASSUME VInv, SInv, TInv,
           \/ NotKwin \/ GetBurst \/ Connected \/ Snapshot \/ Sleep \/ Wake \/ Broken \/ Deadline
    PROVE  Caller(me') /\ (req' = Append(req, Sync) \/ req' = req)
<1>1. DOMAIN me = MeNames /\ Caller(me)
  BY DEF VInv, Shapes, TInv
<1>2. CASE NotKwin
  BY <1>1, <1>2, OverTyped DEF NotKwin
<1>3. CASE GetBurst \/ Wake
  BY <1>1, <1>3, RoundTyped DEF GetBurst, Wake
<1>4. CASE Connected
  BY <1>1, <1>4, OverTyped DEF Connected
<1>5. CASE Broken
  BY <1>1, <1>5, OverTyped DEF Broken
<1>6. CASE Sleep \/ Deadline
  <2> DEFINE m == me'
  <2>1. m.at \in {me.at, "sleep"} /\ m.todo = me.todo /\ m.calls = me.calls /\ m.snap = me.snap
    BY <1>1, <1>6 DEF Sleep, Deadline, MeNames
  <2>2. req' = req
    BY <1>6 DEF Sleep, Deadline
  <2> QED
    BY <1>1, <2>1, <2>2 DEF Caller
<1>7. CASE Snapshot
  <2> DEFINE o == Over("ok", None)
             m == [o EXCEPT !.snap = SnapshotOf(st)]
  <2>1. DOMAIN o = MeNames /\ Caller(o)
    BY <1>1, OverTyped
  <2> HIDE DEF o
  <2>2. m.at = o.at /\ m.todo = o.todo /\ m.calls = o.calls /\ m.snap = SnapshotOf(st)
    BY <2>1 DEF MeNames
  <2>3. me' = m /\ req' = req
    BY <1>7 DEF Snapshot, o
  <2> HIDE DEF m
  <2>4. \A d \in DOMAIN SnapshotOf(st) : d \in Dev /\ SnapshotOf(st)[d] \in SnapType
    BY ShownTyped DEF TInv
  <2>5. Caller(m)
    BY <2>1, <2>2, <2>4 DEF Caller
  <2> QED
    BY <2>3, <2>5
<1> QED
  BY <1>2, <1>3, <1>4, <1>5, <1>6, <1>7

LEMMA VerdictTypes ==
    ASSUME VInv, SInv, TInv, NothingToApply \/ Went \/ Answered \/ TimedOut
    PROVE  Caller(me') /\ (req' = Append(req, Sync) \/ req' = req)
<1>1. AtWork
  BY DEF AtWork, NothingToApply, Went, Answered, TimedOut, Trip
<1>2. \E out, why : ApplyReturns(out, why)
  BY DEF NothingToApply, Went, Answered, TimedOut
<1> QED
  BY <1>1, <1>2, ReturnTyped

LEMMA AskTypes ==
    ASSUME VInv, SInv, TInv, Connect \/ CallSnapshot \/ CallApply \/ Submit
    PROVE  Caller(me') /\ Requests(req)'
<1>1. /\ DOMAIN me = MeNames /\ Caller(me) /\ IsSeq(req) /\ Requests(req)
      /\ me.calls \in 0..MaxCalls
  BY DEF VInv, Shapes, TInv, Caller
<1>2. Len(<< >>) \in 0..2
  BY Nothing
<1>3. CASE Connect
  <2> DEFINE q == <<[do |-> "globals", of |-> None], Sync>>
  <2>1. Requests(q)
    BY Pair DEF Requests, Sync
  <2>2. req' = q /\ me' = RoundTrip(me, "globals")
    BY <1>3 DEF Connect
  <2> HIDE DEF q
  <2> QED
    BY <1>1, <2>1, <2>2, RoundTyped DEF Requests
<1>4. CASE CallSnapshot
  <2>1. MayCall /\ req' = Append(req, Sync)
        /\ me' = RoundTrip(Calls("snapshot", None, << >>), "snapshot")
    BY <1>4 DEF CallSnapshot
  <2> QED
    BY <1>1, <1>2, <2>1, CallTyped, RoundTyped, RequestsSync
<1>5. CASE CallApply
  <2>1. PICK plan \in Plans : \E todo \in {<<plan>>, Applications(plan)} :
            LET mine == Calls("apply", plan, todo) IN
            IF plan.native
            THEN me' = [mine EXCEPT !.todo = << >>, !.out = "rejected"] /\ req' = req
            ELSE me' = RoundTrip(mine, "refresh") /\ req' = Append(req, Sync)
    BY <1>5 DEF CallApply
  <2>2. PICK todo \in {<<plan>>, Applications(plan)} :
            LET mine == Calls("apply", plan, todo) IN
            IF plan.native
            THEN me' = [mine EXCEPT !.todo = << >>, !.out = "rejected"] /\ req' = req
            ELSE me' = RoundTrip(mine, "refresh") /\ req' = Append(req, Sync)
    BY <2>1
  <2>3. Len(todo) \in 0..2
    <3>1. \/ todo = <<plan>>
          \/ todo = <<[plan EXCEPT !.dis = {}], plan>>
      BY DEF Applications
    <3> QED
      BY <3>1, OneLong, Pair
  <2> DEFINE mine == Calls("apply", plan, todo)
             no == [mine EXCEPT !.todo = << >>, !.out = "rejected"]
  <2>4. DOMAIN mine = MeNames /\ Caller(mine)
    <3>1. MayCall
      BY <1>5 DEF CallApply
    <3> QED
      BY <1>1, <2>3, <3>1, CallTyped
  <2>5. \/ me' = no /\ req' = req
        \/ me' = RoundTrip(mine, "refresh") /\ req' = Append(req, Sync)
    BY <2>2
  <2>6. Caller(no)
    <3> HIDE DEF mine
    <3>1. no.at = mine.at /\ no.todo = << >> /\ no.calls = mine.calls /\ no.snap = mine.snap
      BY <2>4 DEF MeNames
    <3> HIDE DEF no
    <3> QED
      BY <1>2, <2>4, <3>1 DEF Caller
  <2> HIDE DEF mine, no
  <2> QED
    BY <1>1, <2>4, <2>5, <2>6, RoundTyped, RequestsSync
<1>6. CASE Submit
  <2>1. PICK x : req' = req \o <<[do |-> "apply", of |-> x], Sync>>
    BY <1>6 DEF Submit
  <2> DEFINE q == <<[do |-> "apply", of |-> x], Sync>>
  <2>2. IsSeq(q) /\ Requests(q)
    BY Pair DEF Requests, Sync
  <2>3. req' = req \o q /\ me' = RoundTrip(me, "verdict")
    BY <1>6, <2>1 DEF Submit
  <2> HIDE DEF q
  <2> QED
    BY <1>1, <2>2, <2>3, RoundTyped, RequestsMore
<1> QED
  BY <1>3, <1>4, <1>5, <1>6

LEMMA OthersType ==
    ASSUME VInv, SInv, TInv, Call \/ Client \/ Deadline, ~Dispatch
    PROVE  TInv'
<1>1. Sound'
  <2>1. wire' = wire /\ st' \in States /\ \A d \in Dev : View(st', d) = View(st, d)
    BY TripViews DEF Call, Client
  <2> QED
    BY <2>1, SoundSame DEF TInv
<1>2. kwin' = kwin /\ changes' = changes
  BY ClientLeaves
<1>3. Caller(me') /\ Requests(req)'
  <2>1. CASE Connect \/ CallSnapshot \/ CallApply \/ Submit
    BY <2>1, AskTypes
  <2>2. ASSUME Caller(me') /\ (req' = Append(req, Sync) \/ req' = req)
        PROVE  Caller(me') /\ Requests(req)'
    BY <2>2, RequestsSync DEF VInv, Shapes, TInv
  <2>3. CASE \/ NotKwin \/ GetBurst \/ Connected \/ Snapshot \/ Sleep \/ Wake \/ Broken \/ Deadline
    BY <2>2, <2>3, TripTypes
  <2>4. CASE NothingToApply \/ Went \/ Answered \/ TimedOut
    BY <2>2, <2>4, VerdictTypes
  <2> QED
    BY <2>1, <2>3, <2>4 DEF Call, Client
<1> QED
  BY <1>1, <1>2, <1>3 DEF TInv, Kwins

LEMMA TInit == ASSUME Init PROVE TInv
<1>1. /\ wire = << >> /\ req = << >> /\ st = Fresh /\ changes = 0 /\ me.at = "off"
      /\ me.todo = << >> /\ me.calls = 0 /\ me.snap = << >>
  BY DEF Init
<1>2. IsSeq(<< >>) /\ Len(<< >>) = 0 /\ DOMAIN << >> = {}
  BY Nothing
<1>3. Sound
  <2> SUFFICES ASSUME NEW n \in 0..Len(wire), NEW d \in Dev
               PROVE  View(At(st, wire, n), d) \in Sane
    BY DEF Sound
  <2>1. n = 0 /\ At(st, wire, 0) = Fresh
    BY <1>1, <1>2, TrajIs
  <2>2. View(Fresh, d) = Unseen(FALSE) /\ View(Fresh, d) \in Views
    BY FreshIs, ViewTyped
  <2>3. ~Unseen(FALSE).dev.done
    BY DEF Unseen, Blank
  <2> QED
    BY <2>1, <2>2, <2>3 DEF Sane
<1>4. Kwins
  BY Variants DEF Init, Kwins
<1>5. Requests(req) /\ Caller(me) /\ changes \in 0..MaxChanges
  BY <1>1, <1>2, Bounds DEF Requests, Caller
<1> QED
  BY <1>3, <1>4, <1>5 DEF TInv

LEMMA TNext == ASSUME ~Mute, VInv, SInv, TInv, [Next]_vars PROVE TInv'
<1>1. CASE UNCHANGED vars
  <2>1. /\ wire' = wire /\ st' = st /\ kwin' = kwin /\ req' = req /\ me' = me
        /\ changes' = changes
    BY <1>1 DEF vars
  <2>2. Sound' /\ Kwins' /\ Requests(req)' /\ Caller(me)'
    BY <2>1 DEF TInv, Sound, Kwins, Requests, Caller
  <2> QED
    BY <2>1, <2>2 DEF TInv
<1>2. CASE Call \/ Client \/ Deadline
  BY <1>2, DispatchTypes, OthersType
<1>3. CASE Serve \/ Verdict \/ Outside
  BY <1>3, KwinTypes
<1>4. CASE AllDone
  BY <1>1, <1>4 DEF AllDone
<1> QED
  BY <1>1, <1>2, <1>3, <1>4 DEF Next

LEMMA TypesAre == ASSUME VInv, SInv, AInv, TInv PROVE TypeOK
<1>1. heads \in [Dev -> HeadType]
  BY DEF SInv, Typed, HeadsOK, HeadOK
<1>2. IsSeq(req) /\ IsSeq(hist.fate) /\ DOMAIN req = 1..Len(req)
      /\ DOMAIN hist.fate = 1..Len(hist.fate) /\ Len(hist.fate) \in Nat
  BY SeqHas DEF VInv, Shapes
<1>3. \A c \in inbox : c.id \in DOMAIN hist.fate
  BY <1>2 DEF VInv, Pending, Open
<1>4. \A i \in DOMAIN req :
          req[i].do \in {"globals", "bind_registry", "bind_device", "sync", "apply"}
  BY <1>2 DEF TInv, Requests
<1>5. IF me.then = "verdict" THEN Len(hist.fate) >= 1 /\ st.cfgs = {Len(hist.fate)}
      ELSE st.cfgs = {}
  BY <1>2 DEF VInv, Shapes, Mine, Waiting
<1>6. st \in StateType
  <2>1. st \in States /\ st.cfgs \in SUBSET (1..Len(hist.fate))
    BY <1>2, <1>5 DEF SInv, Typed
  <2> QED
    BY <2>1 DEF States, Devices, StateType
<1>7. Cardinality(st.cfgs) = IF me.then = "verdict" THEN 1 ELSE 0
  BY <1>5, FS_Singleton, FS_EmptySet
<1>8. me.at = "wait" <=> me.then # None /\ me.at # "sleep"
  BY DEF VInv, Mine, AInv, Phases, Busy
<1>9. hist.fate \in Seq(Verdicts \cup {None})
  <2>1. \A i \in 1..Len(hist.fate) : hist.fate[i] \in Verdicts \cup {None}
    BY DEF VInv, Shapes, Applied, Failures, Verdicts
  <2>2. hist.fate = [i \in 1..Len(hist.fate) |-> hist.fate[i]]
    BY <1>2, SeqHas
  <2> DEFINE f == hist.fate
  <2>3. \A i \in 1..Len(f) : f[i] \in Verdicts \cup {None}
    BY <2>1
  <2>4. f = [i \in 1..Len(f) |-> f[i]] /\ Len(f) \in Nat
    BY <1>2, <2>2
  <2> HIDE DEF f
  <2>5. f \in Seq(Verdicts \cup {None})
    BY <2>3, <2>4
  <2> QED
    BY <2>5 DEF f
<1>10. /\ kwin \in [globals : SUBSET {"manager", "registry"}, legacy : BOOLEAN,
                    listening : BOOLEAN, bound : BOOLEAN, up : BOOLEAN]
       /\ me.at \in {"off", "wait", "sleep", "idle", "closed"}
       /\ Len(me.todo) \in 0..2
       /\ \A d \in DOMAIN me.snap : d \in Dev /\ me.snap[d] \in SnapType
       /\ me.calls \in 0..MaxCalls /\ changes \in 0..MaxChanges
  BY DEF TInv, Kwins, Caller
<1> QED
  BY <1>1, <1>3, <1>4, <1>6, <1>7, <1>8, <1>9, <1>10 DEF TypeOK

(* Every variable of a Plasma session keeps its type.  In particular: what *)
(* a snapshot shows of a head is whole, with a place, wherever the read of *)
(* KWin's events has stopped; there is one configuration not destroyed     *)
(* while a verdict is waited for, and none otherwise.                      *)
THEOREM SessionTyped == ASSUME ~Mute PROVE Spec => []TypeOK
<1>1. Init => VInv /\ SInv /\ AInv /\ TInv
  BY VInit, SInit, AInit, TInit
<1>2. VInv /\ SInv /\ AInv /\ TInv /\ [Next]_vars => VInv' /\ SInv' /\ AInv' /\ TInv'
  BY VNext, SNext, ANext, TNext
<1>3. VInv /\ SInv /\ AInv /\ TInv => TypeOK
  BY TypesAre
<1> QED
  BY <1>1, <1>2, <1>3, PTL DEF Spec
=============================================================================
