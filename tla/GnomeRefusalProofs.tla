-------------------------- MODULE GnomeRefusalProofs --------------------------
(***************************************************************************)
(* Proofs about GnomeSession, continued: what Mutter refuses an `up` for   *)
(* that nobody has disturbed (UpIsRefusedOnlyIf, UpFallsApartOnlyIf).      *)
(*                                                                         *)
(* Mutter's layouts are in order (Orderly): one primary, nothing on top of *)
(* another or touching nothing, the origin at the corner.  So what is seen *)
(* before the device is made has no two outputs on top of each other and   *)
(* none apart from the others, unless they mirror each other (Tidy,        *)
(* AllTouch), and that is what the plans of `up` are made of, with the head*)
(* to the right of it all (UpSpots, UpApart, UpTouch).  What Mutter has    *)
(* made of the layout since is one monitor a place if it was before        *)
(* (Ahead), and its primary is not the head (Second).  From these follows, *)
(* rule by rule, what can be against the configuration (UpAgainst).  After *)
(* a refusal nobody changes anything before the command is over            *)
(* (LeftRefused).                                                          *)
(***************************************************************************)
EXTENDS GnomeProofs

(* What Mutter refuses a layout for, rule by rule.                         *)
OneMain(parts) ==
    parts # {} => \E main \in parts : \A lc \in parts : lc.primary <=> lc = main
NoOverlap(state, config) ==
    \A a, b \in config : a # b => ~Overlap(Box(state, a), Box(state, b))
NoneApart(state, config) ==
    \A a \in config : \/ config = {a}
                      \/ \E b \in config : b # a /\ Adjacent(Box(state, a), Box(state, b))
Tidy(snap) ==
    \/ Mirrors(snap)
    \/ \A h, k \in ToSet(Shown(snap)) : h # k => ~Overlap(Around(snap, h), Around(snap, k))
AllTouch(snap) ==
    \/ Mirrors(snap)
    \/ \A h \in ToSet(Shown(snap)) :
          \/ ToSet(Shown(snap)) = {h}
          \/ \E k \in ToSet(Shown(snap)) :
                k # h /\ Adjacent(Around(snap, h), Around(snap, k))
Lonely(state) == \A lm \in state.logical : \E n : lm.monitors = {n}

Ahead(pre, state) ==
    (Mirrors(pre) \/ Lonely(state)) /\ (Headless(pre) \/ state.logical # {})
Second(pre, n, state) ==
    ~Headless(pre) /\ n \notin Names(pre.heads) => n \notin Primary(state)
Foresees ==
    Working => /\ Tidy(me.pre) /\ AllTouch(me.pre) /\ mutter.physical = me.pre.physical
               /\ hist.calm => /\ Ahead(me.pre, mutter)
                               /\ ForUp => Second(me.pre, me.conn, mutter)

(* What the objections are.                                                *)
LEMMA ObjectedIs ==
    ASSUME NEW state, NEW serial, NEW config, IsFiniteSet(config),
           \A lc \in config : lc.primary \in BOOLEAN
    PROVE  LET all == Objections(state, serial, config) IN
           /\ "empty" \in all <=> config = {}
           /\ "overlap" \in all <=> ~NoOverlap(state, config)
           /\ "apart" \in all <=> ~NoneApart(state, config)
           /\ "offset" \in all <=> ~AtOrigin(config)
           /\ "primary" \in all <=> ~OneMain(config)
<1> DEFINE all == Objections(state, serial, config)
           mains == {lc \in config : lc.primary}
           box == [lc \in config |-> Box(state, lc)]
           pairs == {p \in config \X config : p[1] # p[2]}
           alone(a) == \A b \in config \ {a} : ~Adjacent(box[a], box[b])
<1>1. /\ "empty" \in all <=> config = {}
      /\ "overlap" \in all <=> \E p \in pairs : Overlap(box[p[1]], box[p[2]])
      /\ "apart" \in all <=> pairs # {} /\ \E a \in config : alone(a)
      /\ "offset" \in all <=> ~AtOrigin(config)
      /\ "primary" \in all <=> config # {} /\ Cardinality(mains) # 1
  BY DEF Objections
<1> HIDE DEF all
<1>2. (\E p \in pairs : Overlap(box[p[1]], box[p[2]])) <=> ~NoOverlap(state, config)
  <2>1. ASSUME NEW p \in pairs, Overlap(box[p[1]], box[p[2]])
        PROVE  \E a, b \in config : a # b /\ Overlap(Box(state, a), Box(state, b))
    <3>1. /\ p[1] \in config /\ p[2] \in config /\ p[1] # p[2]
          /\ box[p[1]] = Box(state, p[1]) /\ box[p[2]] = Box(state, p[2])
      OBVIOUS
    <3> HIDE DEF box
    <3> QED
      BY <2>1, <3>1
  <2>2. ASSUME NEW a \in config, NEW b \in config, a # b, Overlap(Box(state, a), Box(state, b))
        PROVE  \E p \in pairs : Overlap(box[p[1]], box[p[2]])
    <3>1. /\ <<a, b>> \in pairs /\ <<a, b>>[1] = a /\ <<a, b>>[2] = b
          /\ box[a] = Box(state, a) /\ box[b] = Box(state, b)
      BY <2>2
    <3> HIDE DEF box, pairs
    <3> QED
      BY <2>2, <3>1
  <2> HIDE DEF box, pairs
  <2> QED
    BY <2>1, <2>2 DEF NoOverlap
<1>3. (config # {} /\ Cardinality(mains) # 1) <=> ~OneMain(config)
  <2>1. IsFiniteSet(mains)
    BY FS_Subset
  <2>2. Cardinality(mains) = 1 <=> \E x : mains = {x}
    BY <2>1, FS_Singleton
  <2>3. (\E x : mains = {x}) <=> \E x \in config : \A lc \in config : lc.primary <=> lc = x
    <3>1. ASSUME NEW x, mains = {x}
          PROVE  x \in config /\ \A lc \in config : lc.primary <=> lc = x
      BY <3>1
    <3>2. ASSUME NEW x \in config, \A lc \in config : lc.primary <=> lc = x
          PROVE  mains = {x}
      BY <3>2
    <3> QED
      BY <3>1, <3>2
  <2> QED
    BY <2>2, <2>3 DEF OneMain
<1>4. (pairs # {} /\ \E a \in config : alone(a)) <=> ~NoneApart(state, config)
  <2>1. ASSUME NEW a \in config, config # {a} PROVE pairs # {}
    <3>1. PICK b \in config : b # a
      BY <2>1
    <3>2. <<a, b>> \in config \X config /\ <<a, b>>[1] = a /\ <<a, b>>[2] = b
      BY <3>1
    <3> QED
      BY <3>1, <3>2
  <2>2. ASSUME NEW a \in config, pairs # {} PROVE config # {a}
    <3>1. PICK p \in config \X config : p[1] # p[2]
      BY <2>2
    <3> QED
      BY <3>1
  <2>3. ASSUME NEW a \in config
        PROVE  alone(a) <=> ~\E b \in config : b # a /\ Adjacent(Box(state, a), Box(state, b))
    <3>1. \A b \in config : box[b] = Box(state, b)
      OBVIOUS
    <3> HIDE DEF box
    <3> QED
      BY <3>1
  <2> HIDE DEF pairs, alone, box
  <2> QED
    BY <2>1, <2>2, <2>3 DEF NoneApart
<1> HIDE DEF pairs, alone, box, mains
<1> QED
  BY <1>1, <1>2, <1>3, <1>4 DEF all

LEMMA Unopposed2 ==
    ASSUME NEW state, NEW serial, NEW config, ConfigOK(state, config),
           Objections(state, serial, config) = {}
    PROVE  /\ NoOverlap(state, config) /\ NoneApart(state, config) /\ OneMain(config)
           /\ config # {}
<1>1. IsFiniteSet(config) /\ \A lc \in config : lc.primary \in BOOLEAN
  BY DEF ConfigOK, Part
<1> QED
  BY <1>1, ObjectedIs

-----------------------------------------------------------------------------
(* The rectangle in which a mode is shown.                                 *)
Frame(physical, x, y, scale, t, mode) ==
    [left |-> x, right |-> x + Scaled(Across(mode, t), ScaleIn(physical, scale)),
     top |-> y,
     bottom |-> y + Scaled(IF SwapsAxes(t) THEN mode.w ELSE mode.h, ScaleIn(physical, scale))]

LEMMA BoxIs ==
    ASSUME NEW state, NEW lc, NEW m, lc.monitors = {m}
    PROVE  Box(state, lc) = Frame(state.physical, lc.x, lc.y, lc.scale, lc.transform, m.mode)
<1>1. (CHOOSE k \in lc.monitors : TRUE) = m
  OBVIOUS
<1> QED
  BY <1>1 DEF Box, Wide, Rows, Physically, Frame

LEMMA AroundIs ==
    ASSUME NEW snap, NEW h
    PROVE  Around(snap, h) = Frame(snap.physical, h.position[1], h.position[2], h.scale,
                                   h.transform, h.mode)
<1> DEFINE lc == [x |-> h.position[1], y |-> h.position[2], scale |-> h.scale,
                  transform |-> h.transform, monitors |-> {h}]
<1>1. /\ lc.monitors = {h} /\ lc.x = h.position[1] /\ lc.y = h.position[2]
      /\ lc.scale = h.scale /\ lc.transform = h.transform
  OBVIOUS
<1>2. Around(snap, h) = Box(snap, lc)
  BY DEF Around
<1> HIDE DEF lc
<1>3. Box(snap, lc) = Frame(snap.physical, lc.x, lc.y, lc.scale, lc.transform, h.mode)
  BY <1>1, BoxIs
<1> QED
  BY <1>1, <1>2, <1>3

(* What has been moved alike overlaps, and touches, as before.             *)
LEMMA FrameMoved ==
    ASSUME NEW p, NEW x \in Int, NEW y \in Int, NEW s, NEW t, NEW mode,
           NEW q, NEW u \in Int, NEW v \in Int, NEW r, NEW w, NEW size, NEW dx \in Int,
           NEW dy \in Int,
           Scaled(Across(mode, t), ScaleIn(p, s)) \in Int,
           Scaled(IF SwapsAxes(t) THEN mode.w ELSE mode.h, ScaleIn(p, s)) \in Int,
           Scaled(Across(size, w), ScaleIn(q, r)) \in Int,
           Scaled(IF SwapsAxes(w) THEN size.w ELSE size.h, ScaleIn(q, r)) \in Int
    PROVE  LET one == Frame(p, x, y, s, t, mode)
               two == Frame(q, u, v, r, w, size)
               here == Frame(p, x - dx, y - dy, s, t, mode)
               there == Frame(q, u - dx, v - dy, r, w, size)
           IN /\ Overlap(here, there) <=> Overlap(one, two)
              /\ Adjacent(here, there) <=> Adjacent(one, two)
<1> DEFINE a == Scaled(Across(mode, t), ScaleIn(p, s))
           b == Scaled(IF SwapsAxes(t) THEN mode.w ELSE mode.h, ScaleIn(p, s))
           c == Scaled(Across(size, w), ScaleIn(q, r))
           d == Scaled(IF SwapsAxes(w) THEN size.w ELSE size.h, ScaleIn(q, r))
<1>1. a \in Int /\ b \in Int /\ c \in Int /\ d \in Int
  OBVIOUS
<1>2. \A i, j : Frame(p, i, j, s, t, mode) = [left |-> i, right |-> i + a, top |-> j, bottom |-> j + b]
  BY DEF Frame
<1>3. \A i, j : Frame(q, i, j, r, w, size) = [left |-> i, right |-> i + c, top |-> j, bottom |-> j + d]
  BY DEF Frame
<1> HIDE DEF a, b, c, d
<1>4. LET one == [left |-> x, right |-> x + a, top |-> y, bottom |-> y + b]
          two == [left |-> u, right |-> u + c, top |-> v, bottom |-> v + d]
          here == [left |-> x - dx, right |-> x - dx + a, top |-> y - dy, bottom |-> y - dy + b]
          there == [left |-> u - dx, right |-> u - dx + c, top |-> v - dy, bottom |-> v - dy + d]
      IN /\ ShareRows(here, there) <=> ShareRows(one, two)
         /\ ShareColumns(here, there) <=> ShareColumns(one, two)
         /\ here.right = there.left <=> one.right = two.left
         /\ there.right = here.left <=> two.right = one.left
         /\ here.bottom = there.top <=> one.bottom = two.top
         /\ there.bottom = here.top <=> two.bottom = one.top
  BY <1>1 DEF ShareRows, ShareColumns
<1>5. /\ ShareRows(Frame(p, x - dx, y - dy, s, t, mode), Frame(q, u - dx, v - dy, r, w, size))
            <=> ShareRows(Frame(p, x, y, s, t, mode), Frame(q, u, v, r, w, size))
      /\ ShareColumns(Frame(p, x - dx, y - dy, s, t, mode), Frame(q, u - dx, v - dy, r, w, size))
            <=> ShareColumns(Frame(p, x, y, s, t, mode), Frame(q, u, v, r, w, size))
  BY <1>2, <1>3, <1>4
<1>6. /\ Frame(p, x - dx, y - dy, s, t, mode).right = Frame(q, u - dx, v - dy, r, w, size).left
            <=> Frame(p, x, y, s, t, mode).right = Frame(q, u, v, r, w, size).left
      /\ Frame(q, u - dx, v - dy, r, w, size).right = Frame(p, x - dx, y - dy, s, t, mode).left
            <=> Frame(q, u, v, r, w, size).right = Frame(p, x, y, s, t, mode).left
      /\ Frame(p, x - dx, y - dy, s, t, mode).bottom = Frame(q, u - dx, v - dy, r, w, size).top
            <=> Frame(p, x, y, s, t, mode).bottom = Frame(q, u, v, r, w, size).top
      /\ Frame(q, u - dx, v - dy, r, w, size).bottom = Frame(p, x - dx, y - dy, s, t, mode).top
            <=> Frame(q, u, v, r, w, size).bottom = Frame(p, x, y, s, t, mode).top
  BY <1>2, <1>3, <1>4
<1> QED
  BY <1>5, <1>6 DEF Overlap, Adjacent

-----------------------------------------------------------------------------
(* The heads that are shown are those of the monitors that are lit.        *)
Sees(state, h) ==
    \E lm \in state.logical : \E i \in DOMAIN state.monitors :
        /\ state.monitors[i].name \in lm.monitors
        /\ h = [name |-> state.monitors[i].name, enabled |-> TRUE,
                mode |-> state.monitors[i].current, position |-> <<lm.x, lm.y>>,
                scale |-> lm.scale, transform |-> lm.transform,
                color |-> state.monitors[i].color]

LEMMA ShownAre ==
    ASSUME NEW state, MutterOK(state)
    PROVE  \A h : h \in ToSet(Shown(SnapshotOf(state))) <=> Sees(state, h)
<1> DEFINE mons == state.monitors
           snap == SnapshotOf(state)
<1>1. Sound(state) /\ LitIfLogical(state)
  BY MutterIs
<1>2. SnapOK(snap)
  BY <1>1, SnapshotIs
<1>3. ToSet(snap.heads) = {HeadOf(state, mons[i]) : i \in DOMAIN mons}
  BY DEF SnapshotOf, ToSet
<1>4. ASSUME NEW lm \in state.logical, NEW i \in DOMAIN mons, mons[i].name \in lm.monitors
      PROVE  /\ HeadOf(state, mons[i]) =
                    [name |-> mons[i].name, enabled |-> TRUE, mode |-> mons[i].current,
                     position |-> <<lm.x, lm.y>>, scale |-> lm.scale,
                     transform |-> lm.transform, color |-> mons[i].color]
             /\ mons[i].current # None /\ <<lm.x, lm.y>> # None
  <2>1. LogicalOf(state, mons[i].name) = lm /\ lm \in Logical /\ lm # None
    BY <1>1, <1>4, LogicalIs, StateHas, NoneIsNothing
  <2>2. <<lm.x, lm.y>> \in Int \X Int
    BY <2>1 DEF Logical
  <2>3. mons[i].current # None
    BY <1>1, <1>4 DEF LitIfLogical
  <2> QED
    BY <2>1, <2>2, <2>3, NoneIsNothing DEF HeadOf, Of
<1>5. ASSUME NEW i \in DOMAIN mons, HeadOf(state, mons[i]).enabled
      PROVE  \E lm \in state.logical : mons[i].name \in lm.monitors
  <2>1. LogicalOf(state, mons[i].name) # None
    BY <1>5 DEF HeadOf
  <2> QED
    BY <1>1, <2>1, LogicalHas
<1>6. \A h : h \in ToSet(Shown(snap)) <=>
                h \in ToSet(snap.heads) /\ h.enabled /\ h.mode # None /\ h.position # None
  BY <1>2, ShownSet
<1> HIDE DEF snap, mons
<1>7. ASSUME NEW h, h \in ToSet(Shown(snap)) PROVE Sees(state, h)
  <2>1. PICK i \in DOMAIN mons : h = HeadOf(state, mons[i])
    BY <1>3, <1>6, <1>7
  <2>2. PICK lm \in state.logical : mons[i].name \in lm.monitors
    BY <1>5, <1>6, <1>7, <2>1
  <2>3. h = [name |-> mons[i].name, enabled |-> TRUE, mode |-> mons[i].current,
             position |-> <<lm.x, lm.y>>, scale |-> lm.scale,
             transform |-> lm.transform, color |-> mons[i].color]
    BY <1>4, <2>1, <2>2
  <2> QED
    BY <2>2, <2>3 DEF Sees, mons
<1>8. ASSUME NEW h, Sees(state, h) PROVE h \in ToSet(Shown(snap))
  <2>1. PICK lm \in state.logical : \E i \in DOMAIN mons :
          /\ mons[i].name \in lm.monitors
          /\ h = [name |-> mons[i].name, enabled |-> TRUE, mode |-> mons[i].current,
                  position |-> <<lm.x, lm.y>>, scale |-> lm.scale,
                  transform |-> lm.transform, color |-> mons[i].color]
    BY <1>8 DEF Sees, mons
  <2>2. PICK i \in DOMAIN mons :
          /\ mons[i].name \in lm.monitors
          /\ h = [name |-> mons[i].name, enabled |-> TRUE, mode |-> mons[i].current,
                  position |-> <<lm.x, lm.y>>, scale |-> lm.scale,
                  transform |-> lm.transform, color |-> mons[i].color]
    BY <2>1
  <2>3. h = HeadOf(state, mons[i]) /\ mons[i].current # None /\ <<lm.x, lm.y>> # None
    BY <1>4, <2>2
  <2>4. h.enabled /\ h.mode = mons[i].current /\ h.position = <<lm.x, lm.y>>
    BY <2>2
  <2> QED
    BY <1>3, <1>6, <2>3, <2>4
<1> QED
  BY <1>7, <1>8 DEF snap

(* Carried out, what a configuration has beside or on top of each other is *)
(* seen so: monitors that share a logical one mirror each other, and every *)
(* other head is where it was put, and fits its part.                      *)
Fits(state, snap, g, lc) ==
    /\ \E m : lc.monitors = {m} /\ m.name = g.name
    /\ g.position = <<lc.x, lc.y>> /\ Around(snap, g) = Box(state, lc)

LEMMA PartsSeen ==
    ASSUME NEW state, Sound(state), NEW config, ConfigOK(state, config),
           ~Mirrors(SnapshotOf(Obeyed(state, config)))
    PROVE  LET snap == SnapshotOf(Obeyed(state, config)) IN
           /\ \A g \in ToSet(Shown(snap)) : \E lc \in config : Fits(state, snap, g, lc)
           /\ \A lc \in config : \E g \in ToSet(Shown(snap)) : Fits(state, snap, g, lc)
<1> DEFINE now == Obeyed(state, config)
           mons == state.monitors
           S == ToSet(Shown(SnapshotOf(now)))
<1>1. /\ MutterOK(now) /\ DOMAIN now.monitors = DOMAIN mons
      /\ \A i \in DOMAIN mons : now.monitors[i] = Obeying(config, mons[i])
      /\ now.logical = {Becomes(lc) : lc \in config}
  BY Obeys DEF Becomes
<1>2. now.physical = state.physical /\ SnapshotOf(now).physical = state.physical
  BY DEF Obeyed, SnapshotOf, Sound, StateShape
<1> HIDE DEF now
<1>3. \A h : h \in S <=> Sees(now, h)
  BY <1>1, ShownAre
<1>4. \A lc \in config : /\ Becomes(lc).x = lc.x /\ Becomes(lc).y = lc.y
                         /\ Becomes(lc).scale = lc.scale /\ Becomes(lc).transform = lc.transform
                         /\ Becomes(lc).monitors = {m.name : m \in lc.monitors}
  BY BecomesIs DEF ConfigOK
<1>5. ASSUME NEW h \in S
      PROVE  \E lc \in config : \E m \in lc.monitors :
                 /\ h.name = m.name /\ h.mode = m.mode /\ h.position = <<lc.x, lc.y>>
                 /\ h.scale = lc.scale /\ h.transform = lc.transform
  <2>1. PICK lm \in now.logical : \E i \in DOMAIN now.monitors :
          /\ now.monitors[i].name \in lm.monitors
          /\ h = [name |-> now.monitors[i].name, enabled |-> TRUE,
                  mode |-> now.monitors[i].current, position |-> <<lm.x, lm.y>>,
                  scale |-> lm.scale, transform |-> lm.transform,
                  color |-> now.monitors[i].color]
    BY <1>3 DEF Sees
  <2>2. PICK i \in DOMAIN mons :
          /\ now.monitors[i].name \in lm.monitors
          /\ h.name = now.monitors[i].name /\ h.mode = now.monitors[i].current
          /\ h.position = <<lm.x, lm.y>> /\ h.scale = lm.scale /\ h.transform = lm.transform
    BY <1>1, <2>1
  <2>3. PICK lc \in config : lm = Becomes(lc)
    BY <1>1
  <2>4. PICK m \in lc.monitors : m.name = now.monitors[i].name
    BY <1>4, <2>2, <2>3
  <2>5. now.monitors[i].name = mons[i].name
    BY <1>1, MonitorObeys
  <2>6. now.monitors[i].current = m.mode
    <3>1. Obeying(config, mons[i]) =
              [name |-> mons[i].name, modes |-> mons[i].modes, preferred |-> mons[i].preferred,
               current |-> m.mode,
               color |-> IF mons[i].color = None THEN None ELSE Or(m.color, "sdr")]
      BY <2>4, <2>5, ObeyingIs
    <3> QED
      BY <1>1, <3>1
  <2> QED
    BY <1>4, <2>2, <2>3, <2>4, <2>6
<1>6. ASSUME NEW lc \in config, NEW m \in lc.monitors
      PROVE  \E h \in S : h.name = m.name /\ h.position = <<lc.x, lc.y>>
  <2>1. Becomes(lc) \in now.logical /\ m.name \in Becomes(lc).monitors
    BY <1>1, <1>4
  <2>2. \E h \in S : h.name = m.name /\ h.position = <<Becomes(lc).x, Becomes(lc).y>>
    BY <1>1, <2>1, HeadLit
  <2> QED
    BY <1>4, <2>2
<1> DEFINE snap == SnapshotOf(now)
<1>7. ASSUME NEW g \in S
      PROVE  \E lc \in config : Fits(state, snap, g, lc)
  <2>1. PICK lc \in config : \E m \in lc.monitors :
                 /\ g.name = m.name /\ g.mode = m.mode /\ g.position = <<lc.x, lc.y>>
                 /\ g.scale = lc.scale /\ g.transform = lc.transform
    BY <1>5
  <2>2. PICK m \in lc.monitors :
                 /\ g.name = m.name /\ g.mode = m.mode /\ g.position = <<lc.x, lc.y>>
                 /\ g.scale = lc.scale /\ g.transform = lc.transform
    BY <2>1
  <2>3. ASSUME NEW o \in lc.monitors PROVE o = m
    <3>1. PICK f \in S : f.name = o.name /\ f.position = <<lc.x, lc.y>>
      BY <1>6
    <3>2. f = g
      BY <2>2, <3>1 DEF Mirrors, now
    <3> QED
      BY <2>2, <3>1, <3>2 DEF ConfigOK, Once1
  <2>4. lc.monitors = {m}
    BY <2>2, <2>3
  <2>5. Box(state, lc) = Frame(state.physical, lc.x, lc.y, lc.scale, lc.transform, m.mode)
    BY <2>4, BoxIs
  <2>6. Around(snap, g) = Frame(snap.physical, g.position[1], g.position[2], g.scale,
                                g.transform, g.mode)
    BY AroundIs
  <2>7. g.position[1] = lc.x /\ g.position[2] = lc.y
    BY <2>2
  <2>8. Around(snap, g) = Box(state, lc)
    BY <1>2, <2>2, <2>5, <2>6, <2>7
  <2> QED
    BY <2>2, <2>4, <2>8 DEF Fits
<1>8. ASSUME NEW lc \in config PROVE \E g \in S : Fits(state, snap, g, lc)
  <2>1. PICK m : m \in lc.monitors
    BY DEF ConfigOK, Part
  <2>2. PICK g \in S : g.name = m.name
    BY <1>6, <2>1
  <2>3. PICK k \in config : Fits(state, snap, g, k)
    BY <1>7
  <2>4. k = lc
    <3>1. PICK o : k.monitors = {o} /\ o.name = g.name
      BY <2>3 DEF Fits
    <3> QED
      BY <2>1, <2>2, <3>1 DEF ConfigOK, Once1
  <2> QED
    BY <2>3, <2>4
<1> QED
  BY <1>7, <1>8 DEF now

LEMMA TidyObeyed ==
    ASSUME NEW state, Sound(state), NEW config, ConfigOK(state, config),
           NoOverlap(state, config)
    PROVE  Tidy(SnapshotOf(Obeyed(state, config)))
<1> DEFINE snap == SnapshotOf(Obeyed(state, config))
           S == ToSet(Shown(snap))
<1> SUFFICES ASSUME ~Mirrors(snap), NEW h \in S, NEW k \in S, h # k
             PROVE  ~Overlap(Around(snap, h), Around(snap, k))
  BY DEF Tidy
<1>1. \A g \in S : \E lc \in config : Fits(state, snap, g, lc)
  BY PartsSeen
<1> HIDE DEF snap
<1>2. PICK a \in config : Fits(state, snap, h, a)
  BY <1>1
<1>3. PICK b \in config : Fits(state, snap, k, b)
  BY <1>1
<1>4. a # b
  BY <1>2, <1>3 DEF Mirrors, Fits
<1> QED
  BY <1>2, <1>3, <1>4 DEF NoOverlap, Fits

LEMMA JoinedObeyed ==
    ASSUME NEW state, Sound(state), NEW config, ConfigOK(state, config),
           NoneApart(state, config)
    PROVE  AllTouch(SnapshotOf(Obeyed(state, config)))
<1> DEFINE snap == SnapshotOf(Obeyed(state, config))
           S == ToSet(Shown(snap))
<1> SUFFICES ASSUME ~Mirrors(snap), NEW h \in S, S # {h}
             PROVE  \E k \in S : k # h /\ Adjacent(Around(snap, h), Around(snap, k))
  BY DEF AllTouch
<1>1. /\ \A g \in S : \E lc \in config : Fits(state, snap, g, lc)
      /\ \A lc \in config : \E g \in S : Fits(state, snap, g, lc)
  BY PartsSeen
<1> HIDE DEF snap
<1>2. PICK a \in config : Fits(state, snap, h, a)
  BY <1>1
<1>3. config # {a}
  <2>1. PICK g \in S : g # h
    OBVIOUS
  <2>2. PICK c \in config : Fits(state, snap, g, c)
    BY <1>1
  <2>3. c # a
    BY <1>2, <2>1, <2>2 DEF Mirrors, Fits
  <2> QED
    BY <2>3
<1>4. PICK b \in config : b # a /\ Adjacent(Box(state, a), Box(state, b))
  BY <1>3 DEF NoneApart
<1>5. PICK k \in S : Fits(state, snap, k, b)
  BY <1>1
<1>6. k # h
  BY <1>2, <1>4, <1>5 DEF Fits, ConfigOK, Once1
<1> QED
  BY <1>2, <1>4, <1>5, <1>6 DEF Fits

LEMMA OneMainObeyed ==
    ASSUME NEW state, Sound(state), NEW config, ConfigOK(state, config), OneMain(config)
    PROVE  OneMain(Obeyed(state, config).logical)
<1>1. Obeyed(state, config).logical = {Becomes(lc) : lc \in config}
  BY Obeys DEF Becomes
<1>2. \A lc \in config : Becomes(lc).primary = lc.primary
  BY BecomesIs DEF ConfigOK
<1>3. CASE config = {}
  BY <1>1, <1>3 DEF OneMain
<1>4. CASE config # {}
  <2>1. PICK main \in config : \A lc \in config : lc.primary <=> lc = main
    BY <1>4 DEF OneMain
  <2>2. \A lc \in config : Becomes(lc).primary <=> Becomes(lc) = Becomes(main)
    BY <1>2, <2>1
  <2> QED
    BY <1>1, <2>2 DEF OneMain
<1> QED
  BY <1>3, <1>4

-----------------------------------------------------------------------------
(* Of a row exactly one is the primary, as the monitors' names differ.     *)
RowOf(state) ==
    \A i \in DOMAIN state.monitors : \E lc \in InARow(state) : \E m :
        lc.monitors = {m} /\ m.name = state.monitors[i].name
RowMembers(state) ==
    \A lc \in InARow(state) : \E i \in DOMAIN state.monitors :
        /\ \E m : lc.monitors = {m} /\ m.name = state.monitors[i].name
        /\ lc.primary <=> state.monitors[i].name = Leads(state)

LEMMA SingleShows ==
    ASSUME NEW state, NEW mon, NEW x, NEW primary
    PROVE  LET s == Single(state, mon, x, primary) IN
           s.primary = primary /\ \E m : s.monitors = {m} /\ m.name = mon.name
<1> DEFINE mode == Or(mon.current, mon.preferred)
           was == LogicalOf(state, mon.name)
           scale == Or(Of(was, "scale"), PreferredScale(mode))
           turn == Or(Of(was, "transform"), 0)
           m == [name |-> mon.name, mode |-> mode, color |-> mon.color]
           s == Single(state, mon, x, primary)
<1>1. s = [x |-> x, y |-> 0, scale |-> scale, transform |-> turn, primary |-> primary,
           monitors |-> {m}]
  BY DEF Single
<1>2. m.name = mon.name
  OBVIOUS
<1> HIDE DEF s, m, scale, turn
<1>3. s.primary = primary /\ s.monitors = {m}
  BY <1>1
<1> QED
  BY <1>2, <1>3 DEF s

LEMMA RowHas ==
    ASSUME NEW state, Sound(state)
    PROVE  RowOf(state) /\ RowMembers(state)
<1> DEFINE mons == state.monitors
           n == Len(mons)
           Named1(lc, i) == \E m : lc.monitors = {m} /\ m.name = mons[i].name
           Fine(p, k) ==
               /\ \A i \in 1..k : \E lc \in p : Named1(lc, i)
               /\ \A lc \in p : \E i \in 1..k :
                     Named1(lc, i) /\ (lc.primary <=> mons[i].name = Leads(state))
<1>1. n \in Nat /\ DOMAIN mons = 1..n
  BY StateHas
<1>2. PICK F : /\ Rowed(state, F, n) /\ InARow(state) = F[n]
               /\ \A i \in 0..n : ConfigOK(state, F[i])
  BY RowSteps
<1> HIDE DEF n
<1>3. F[0] = {} /\ \A i \in 1..n : F[i] = F[i - 1] \cup {Adjoined(state, F[i - 1], mons[i])}
  <2>1. F = [i \in 0..n |-> IF i = 0 THEN {}
                            ELSE F[i - 1] \cup {Adjoined(state, F[i - 1], mons[i])}]
    BY <1>2 DEF Rowed
  <2>2. 0 \in 0..n /\ \A i \in 1..n : i \in 0..n /\ i # 0
    BY <1>1
  <2> QED
    BY <2>1, <2>2
<1>4. ASSUME NEW p, NEW i
      PROVE  LET s == Adjoined(state, p, mons[i]) IN
             Named1(s, i) /\ (s.primary <=> mons[i].name = Leads(state))
  <2> DEFINE main == mons[i].name = Leads(state)
             s == Adjoined(state, p, mons[i])
             edge == PlacedEdge(state, p)
  <2>1. main \in BOOLEAN /\ s = Single(state, mons[i], edge, main)
    BY DEF Adjoined
  <2> HIDE DEF main, s, edge
  <2>2. s.primary = main /\ \E m : s.monitors = {m} /\ m.name = mons[i].name
    BY <2>1, SingleShows
  <2>3. s.primary <=> main
    BY <2>1, <2>2
  <2> QED
    BY <2>2, <2>3 DEF main, s
<1> HIDE DEF Named1
<1> DEFINE Good == {i \in Nat : i <= n => Fine(F[i], i)}
<1>5. 0 \in Good
  BY <1>3
<1>6. ASSUME NEW k \in Good \cap Nat PROVE k + 1 \in Good
  <2> SUFFICES ASSUME k + 1 <= n PROVE Fine(F[k + 1], k + 1)
    OBVIOUS
  <2> DEFINE p == F[k]
             s == Adjoined(state, p, mons[k + 1])
  <2>1. k + 1 \in 1..n /\ k <= n /\ (k + 1) - 1 = k
    BY <1>1
  <2>2. Fine(p, k)
    BY <2>1
  <2>3. F[k + 1] = p \cup {s}
    BY <1>3, <2>1
  <2>4. Named1(s, k + 1) /\ (s.primary <=> mons[k + 1].name = Leads(state))
    BY <1>4
  <2> HIDE DEF p, s
  <2>5. \A i \in 1..(k + 1) : i \in 1..k \/ i = k + 1
    OBVIOUS
  <2>6. k + 1 \in 1..(k + 1) /\ \A i \in 1..k : i \in 1..(k + 1)
    OBVIOUS
  <2>7. \A i \in 1..(k + 1) : \E lc \in p \cup {s} : Named1(lc, i)
    BY <2>2, <2>4, <2>5
  <2>8. ASSUME NEW lc \in p \cup {s}
        PROVE  \E i \in 1..(k + 1) :
                  Named1(lc, i) /\ (lc.primary <=> mons[i].name = Leads(state))
    BY <2>2, <2>4, <2>6
  <2> QED
    BY <2>3, <2>7, <2>8
<1> HIDE DEF Good
<1>7. n \in Good
  BY <1>1, <1>5, <1>6, AllNat
<1>8. n <= n => Fine(F[n], n)
  BY <1>7 DEF Good
<1>9. n <= n /\ InARow(state) = F[n]
  BY <1>1, <1>2
<1> HIDE DEF Fine
<1>10. Fine(InARow(state), n)
  BY <1>8, <1>9
<1>11. \A i \in DOMAIN mons : \E lc \in InARow(state) : Named1(lc, i)
  BY <1>1, <1>10 DEF Fine
<1>12. \A lc \in InARow(state) : \E i \in DOMAIN mons :
          Named1(lc, i) /\ (lc.primary <=> mons[i].name = Leads(state))
  BY <1>1, <1>10 DEF Fine
<1>13. RowOf(state)
  BY <1>11 DEF RowOf, Named1
<1>14. RowMembers(state)
  BY <1>12 DEF RowMembers, Named1
<1> QED
  BY <1>13, <1>14

LEMMA NumbersAre ==
    ASSUME NEW state, Sound(state)
    PROVE  Names(state.monitors) \subseteq Int
<1>1. Output \subseteq Int
  BY Connectors, DesksAreStates DEF Output
<1>2. \A i \in DOMAIN state.monitors : state.monitors[i].name \in Output
  BY StateHas DEF Monitor
<1> QED
  BY <1>1, <1>2 DEF Names

-----------------------------------------------------------------------------
(* What is seen depends on nothing else.                                   *)
LEMMA SameSnapshot ==
    ASSUME NEW a, NEW b, a.monitors = b.monitors, a.logical = b.logical,
           a.physical = b.physical
    PROVE  SnapshotOf(a) = SnapshotOf(b)
BY DEF SnapshotOf, HeadOf, LogicalOf

-----------------------------------------------------------------------------
(* Mutter's layout never has overlaps but of mirrors, and has one primary. *)
InOrder(state) ==
    /\ Tidy(SnapshotOf(state)) /\ AllTouch(SnapshotOf(state))
    /\ OneMain(state.logical)
Orderly == InOrder(mutter)

LEMMA OrderObeyed ==
    ASSUME NEW state, Sound(state), NEW config, ConfigOK(state, config),
           NoOverlap(state, config), NoneApart(state, config), OneMain(config)
    PROVE  InOrder(Obeyed(state, config))
BY TidyObeyed, JoinedObeyed, OneMainObeyed DEF InOrder

LEMMA OrderSame ==
    ASSUME NEW state, InOrder(state), NEW now, now.logical = state.logical,
           now.monitors = state.monitors, now.physical = state.physical
    PROVE  InOrder(now)
BY SameSnapshot DEF InOrder

LEMMA InitOrder == Init => Orderly
<1> SUFFICES ASSUME NEW desk \in Desks PROVE InOrder(desk)
  BY DEF Init, Orderly
<1>1. MutterOK(desk) /\ (desk.logical = {} \/ Valid(desk, AsIs(desk)))
  BY DesksAreStates
<1>2. Sound(desk)
  BY <1>1, MutterIs
<1>3. CASE desk.logical = {}
  <2>1. \A h : h \notin ToSet(Shown(SnapshotOf(desk)))
    BY <1>1, <1>3, ShownAre DEF Sees
  <2> QED
    BY <1>3, <2>1 DEF InOrder, Tidy, AllTouch, OneMain
<1>4. CASE Valid(desk, AsIs(desk))
  <2> DEFINE now == Obeyed(desk, AsIs(desk))
  <2>1. ConfigOK(desk, AsIs(desk))
    BY <1>1, AsIsHas
  <2>2. /\ NoOverlap(desk, AsIs(desk)) /\ NoneApart(desk, AsIs(desk))
        /\ OneMain(AsIs(desk))
    BY <1>4, <2>1, Unopposed2 DEF Valid
  <2>3. InOrder(now)
    BY <1>2, <2>1, <2>2, OrderObeyed
  <2>4. now.logical = desk.logical /\ now.monitors = desk.monitors /\ now.physical = desk.physical
    BY <1>1, AsIsStays
  <2> HIDE DEF now
  <2> QED
    BY <2>3, <2>4, OrderSame
<1> QED
  BY <1>1, <1>3, <1>4

(* A monitor that is left dark is not seen.                                *)
LEMMA DarkUnseen ==
    ASSUME TInv, NEW c \in Conn, Darkly(c)
    PROVE  /\ ToSet(Shown(SnapshotOf(mutter'))) = ToSet(Shown(SnapshotOf(mutter)))
           /\ mutter'.logical = mutter.logical /\ mutter'.physical = mutter.physical
<1> DEFINE now == mutter'
<1>0. /\ devs[c] # None /\ c \notin Names(mutter.monitors)
      /\ now.monitors = Found(c).monitors /\ now.logical = mutter.logical
      /\ now.physical = mutter.physical /\ MutterOK(now)
  <2>1. /\ devs[c] # None /\ c \notin Names(mutter.monitors)
        /\ mutter' = [Found(c) EXCEPT !.serial = @ + 1]
    BY DEF Darkly
  <2>2. /\ MutterOK(Found(c)) /\ Found(c).logical = mutter.logical
        /\ MutterOK([Found(c) EXCEPT !.serial = @ + 1])
    BY <2>1, Appearing
  <2>3. Found(c).physical = mutter.physical
    BY DEF Found, TInv, MutterOK
  <2> QED
    BY <2>1, <2>2, <2>3 DEF MutterOK
<1> HIDE DEF now
<1> DEFINE n == Len(mutter.monitors)
<1>1. MutterOK(mutter) /\ Sound(mutter)
  BY MutterSound DEF TInv
<1>2. /\ DOMAIN now.monitors = 1..(n + 1)
      /\ n \in Nat /\ DOMAIN mutter.monitors = 1..n
      /\ \A i \in 1..n : now.monitors[i] = mutter.monitors[i]
      /\ now.monitors[n + 1] = NewMonitor(c)
  BY <1>0, FoundHas
<1>3. NewMonitor(c).name = c
  BY DEF NewMonitor
<1>4. \A lm \in mutter.logical : c \notin lm.monitors
  BY <1>0, <1>1 DEF Sound, LogicalsOK
<1>5. \A h : h \in ToSet(Shown(SnapshotOf(now))) <=> Sees(now, h)
  BY <1>0, ShownAre
<1>6. \A h : h \in ToSet(Shown(SnapshotOf(mutter))) <=> Sees(mutter, h)
  BY <1>1, ShownAre
<1> HIDE DEF n
<1>7. \A i \in 1..(n + 1) : i \in 1..n \/ i = n + 1
  BY <1>2
<1>8. \A i \in 1..n : i \in 1..(n + 1)
  BY <1>2
<1>9. ASSUME NEW h, Sees(now, h) PROVE Sees(mutter, h)
  <2>1. PICK lm \in now.logical : \E i \in DOMAIN now.monitors :
          /\ now.monitors[i].name \in lm.monitors
          /\ h = [name |-> now.monitors[i].name, enabled |-> TRUE,
                  mode |-> now.monitors[i].current, position |-> <<lm.x, lm.y>>,
                  scale |-> lm.scale, transform |-> lm.transform,
                  color |-> now.monitors[i].color]
    BY <1>9 DEF Sees
  <2>2. PICK i \in DOMAIN now.monitors :
          /\ now.monitors[i].name \in lm.monitors
          /\ h = [name |-> now.monitors[i].name, enabled |-> TRUE,
                  mode |-> now.monitors[i].current, position |-> <<lm.x, lm.y>>,
                  scale |-> lm.scale, transform |-> lm.transform,
                  color |-> now.monitors[i].color]
    BY <2>1
  <2>3. i \in 1..n
    BY <1>0, <1>2, <1>3, <1>4, <1>7, <2>2
  <2>4. now.monitors[i] = mutter.monitors[i] /\ i \in DOMAIN mutter.monitors /\ lm \in mutter.logical
    BY <1>0, <1>2, <2>3
  <2> QED
    BY <2>2, <2>4 DEF Sees
<1>10. ASSUME NEW h, Sees(mutter, h) PROVE Sees(now, h)
  <2>1. PICK lm \in mutter.logical : \E i \in DOMAIN mutter.monitors :
          /\ mutter.monitors[i].name \in lm.monitors
          /\ h = [name |-> mutter.monitors[i].name, enabled |-> TRUE,
                  mode |-> mutter.monitors[i].current, position |-> <<lm.x, lm.y>>,
                  scale |-> lm.scale, transform |-> lm.transform,
                  color |-> mutter.monitors[i].color]
    BY <1>10 DEF Sees
  <2>2. PICK i \in DOMAIN mutter.monitors :
          /\ mutter.monitors[i].name \in lm.monitors
          /\ h = [name |-> mutter.monitors[i].name, enabled |-> TRUE,
                  mode |-> mutter.monitors[i].current, position |-> <<lm.x, lm.y>>,
                  scale |-> lm.scale, transform |-> lm.transform,
                  color |-> mutter.monitors[i].color]
    BY <2>1
  <2>3. now.monitors[i] = mutter.monitors[i] /\ i \in DOMAIN now.monitors /\ lm \in now.logical
    BY <1>0, <1>2, <1>8, <2>2
  <2> QED
    BY <2>2, <2>3 DEF Sees
<1> QED
  BY <1>0, <1>5, <1>6, <1>9, <1>10 DEF now

LEMMA StepOrder == TInv /\ Orderly /\ [Next]_vars => Orderly'
<1> SUFFICES ASSUME TInv, Orderly, [Next]_vars PROVE Orderly'
  OBVIOUS
<1>1. CASE UNCHANGED mutter
  BY <1>1 DEF Orderly
<1>2. CASE \E c \in Conn : Darkly(c)
  <2>1. PICK c \in Conn : Darkly(c)
    BY <1>2
  <2>2. /\ ToSet(Shown(SnapshotOf(mutter'))) = ToSet(Shown(SnapshotOf(mutter)))
        /\ mutter'.logical = mutter.logical /\ mutter'.physical = mutter.physical
    BY <2>1, DarkUnseen
  <2>3. SnapshotOf(mutter').physical = SnapshotOf(mutter).physical
    BY <2>2 DEF SnapshotOf
  <2>4. Tidy(SnapshotOf(mutter'))
    BY <2>2, <2>3, AroundIs DEF Orderly, InOrder, Tidy, Mirrors
  <2>5. AllTouch(SnapshotOf(mutter'))
    BY <2>2, <2>3, AroundIs DEF Orderly, InOrder, AllTouch, Mirrors
  <2> QED
    BY <2>2, <2>4, <2>5 DEF Orderly, InOrder
<1>3. CASE \E state, config : Moves(state, config)
  <2>1. PICK state, config : Moves(state, config)
    BY <1>3
  <2>2. NoOverlap(state, config) /\ NoneApart(state, config) /\ OneMain(config)
    BY <2>1, Unopposed2 DEF Moves, Valid, NoOverlap, NoneApart, OneMain
  <2> QED
    BY <2>1, <2>2, OrderObeyed DEF Moves, Orderly
<1> QED
  BY <1>1, <1>2, <1>3, MutterMoves

-----------------------------------------------------------------------------
(* What the plans of `up` have in common, and the configuration made of    *)
(* one: what it enables and can be lit, all shifted alike.                 *)
UpPlan(plan, req, pre, n, off, at) ==
    /\ ToSet(plan.enables) = Keeping(pre, off) \cup {AsEnable(req, n, at)}
    /\ EnablesOK(plan.enables) /\ at \in Int \X Int
    /\ Names(Shown(pre)) \cup {n} \subseteq Named(plan)

LEMMA PlaceUp ==
    ASSUME NEW req, ScaleOK(req.scale), NEW pre, SnapOK(pre), NEW n, NEW plan,
           plan = PlacePlan(req, pre, n), plan # None
    PROVE  UpPlan(plan, req, pre, n, {}, AppendedAt(pre)) /\ plan.primary = None
<1>1. /\ ToSet(plan.enables) = Keeping(pre, {}) \cup {AsEnable(req, n, AppendedAt(pre))}
      /\ plan.primary = None
  BY PlaceIs
<1>2. EnablesOK(plan.enables)
  BY PlacePlanIs DEF Built
<1>3. AppendedAt(pre) \in Int \X Int
  BY RightEdgeIs DEF AppendedAt
<1>4. Names(Shown(pre)) \cup {n} \subseteq Named(plan)
  BY PlaceNames DEF Named
<1> QED
  BY <1>1, <1>2, <1>3, <1>4 DEF UpPlan

LEMMA LayoutUp ==
    ASSUME NEW req, ScaleOK(req.scale), NEW pre, SnapOK(pre), NEW n, NEW real, NEW plan,
           plan = LayoutPlan(req, pre, n, real), plan # None
    PROVE  /\ UpPlan(plan, req, pre, n, DisabledBy(req, real), Position(req, pre, real))
           /\ plan.primary = IF req.primary THEN n ELSE None
<1> DEFINE off == DisabledBy(req, real)
           at == Position(req, pre, real)
<1>1. /\ ToSet(plan.enables) = Keeping(pre, off) \cup {AsEnable(req, n, at)}
      /\ plan.primary = IF req.primary THEN n ELSE None
  BY LayoutIs
<1>2. EnablesOK(plan.enables)
  BY LayoutPlanIs DEF Built
<1>3. at \in Int \X Int
  BY RightEdgeIs DEF AppendedAt, Position
<1>4. Names(Shown(pre)) \cup {n} \subseteq Named(plan)
  BY LayoutNames
<1> HIDE DEF off, at
<1>5. UpPlan(plan, req, pre, n, off, at)
  BY <1>1, <1>2, <1>3, <1>4 DEF UpPlan
<1> QED
  BY <1>1, <1>5 DEF off, at

LEMMA NotEmpty ==
    ASSUME NEW plan, NEW state, Sound(state), EnablesOK(plan.enables),
           NEW e \in ToSet(plan.enables), Lightable(state, e)
    PROVE  ToMutterConfig(plan, state) # {}
<1> DEFINE enables == Lightables(plan, state)
           n == Len(enables)
           F == CHOOSE f : Placed(plan, state, f, n)
<1>1. IsSeq(enables) /\ n \in Nat
  BY LightablesAre
<1>2. ToSet(enables) = {k \in ToSet(plan.enables) : Lightable(state, k)}
  BY OnlySet DEF Lightables, EnablesOK
<1>3. Placed(plan, state, F, n)
  BY <1>1, PlacedIs
<1>4. ToMutterConfig(plan, state) = IF F[n] = {} THEN {} ELSE Anchored(F[n])
  BY DEF ToMutterConfig, Placed, Lightables
<1>5. n \in 1..n
  <2>1. DOMAIN enables = 1..n
    BY <1>1, SeqHas
  <2>2. e \in ToSet(enables)
    BY <1>2
  <2>3. DOMAIN enables # {}
    BY <2>2 DEF ToSet
  <2> HIDE DEF n
  <2> QED
    BY <1>1, <2>1, <2>3
<1> HIDE DEF F, n, enables
<1>6. F[n] = F[n - 1] \cup {Submitted(plan, state, F[n - 1], enables[n])}
  <2>1. F = [i \in 0..n |-> IF i = 0 THEN Untouched(plan, state)
                            ELSE F[i - 1] \cup {Submitted(plan, state, F[i - 1], enables[i])}]
    BY <1>3 DEF Placed, enables
  <2>2. n \in 0..n /\ n # 0
    BY <1>1, <1>5
  <2> QED
    BY <2>1, <2>2
<1>7. F[n] # {}
  BY <1>6
<1>8. Anchored(F[n]) # {}
  BY <1>7 DEF Anchored
<1> QED
  BY <1>4, <1>7, <1>8

(* Of each that can be lit: one monitor, the primary as asked or as it was.*)
LEMMA PutIs ==
    ASSUME NEW plan, NEW state, Sound(state), NEW e, EnableOK(e), Lightable(state, e)
    PROVE  LET lc == Put(plan, state, e)
               was == LogicalOf(state, e.name)
           IN /\ lc \in Part(state) /\ \E m : lc.monitors = {m} /\ m.name = e.name
              /\ lc.primary <=> IF plan.primary # None THEN plan.primary = e.name
                                ELSE was # None /\ was.primary
<1> DEFINE lc == Put(plan, state, e)
           was == LogicalOf(state, e.name)
           main == IF plan.primary # None THEN plan.primary = e.name
                   ELSE was # None /\ was.primary
<1>1. ConfigOK(state, {})
  BY FS_EmptySet DEF ConfigOK, Once1
<1>2. lc \in Part(state) /\ \E m : lc.monitors = {m} /\ m.name = e.name
  BY <1>1, SubmittedIs DEF Put
<1>3. lc.primary = main
  BY DEF Put, Submitted
<1> HIDE DEF lc, main
<1>4. lc.primary <=> main
  BY <1>3
<1> QED
  BY <1>2, <1>4 DEF lc, main

LEMMA UpLaid ==
    ASSUME NEW req, ScaleOK(req.scale), NEW pre, NEW n, NEW state, Familiarly(pre, n, state),
           NEW off, NEW at, NEW plan, UpPlan(plan, req, pre, n, off, at),
           ToMutterConfig(plan, state) # {}
    PROVE  LET lit == {e \in ToSet(plan.enables) : Lightable(state, e)} IN
           /\ ConfigOK(state, ToMutterConfig(plan, state))
           /\ AtOrigin(ToMutterConfig(plan, state))
           /\ \E dx \in Int, dy \in Int :
                 ToMutterConfig(plan, state) = {Shifted(Put(plan, state, e), dx, dy) : e \in lit}
<1> DEFINE lit == {e \in ToSet(plan.enables) : Lightable(state, e)}
           config == ToMutterConfig(plan, state)
<1>1. Sound(state) /\ SnapOK(pre)
  BY MutterIs DEF Familiarly
<1>2. EnablesOK(plan.enables)
  BY DEF UpPlan
<1>3. Untouched(plan, state) = {}
  BY AllNamed DEF UpPlan
<1>4. ASSUME NEW e \in ToSet(plan.enables) PROVE e.position # None
  <2>1. CASE e \in Keeping(pre, off)
    <3>1. PICK h \in ToSet(Shown(pre)) : e = AsEnabled(h)
      BY <2>1 DEF Keeping
    <3>2. h.position # None
      BY <1>1, ShownIs
    <3> QED
      BY <3>1, <3>2 DEF AsEnabled
  <2>2. CASE e = AsEnable(req, n, at)
    <3>1. e.position = at
      BY <2>2 DEF AsEnable
    <3> QED
      BY <3>1, NoneIsNothing DEF UpPlan
  <2> QED
    BY <2>1, <2>2 DEF UpPlan
<1>5. PICK dx \in Int, dy \in Int : config = {Shifted(lc, dx, dy) : lc \in Laid(plan, state)}
  BY <1>1, <1>2, <1>4, LaidIs
<1>6. Laid(plan, state) = {Put(plan, state, e) : e \in lit}
  BY <1>3 DEF Laid
<1>7. ConfigOK(state, config)
  BY <1>1, <1>2, ConfigIs
<1>8. AtOrigin(config)
  <2>1. \E placed : placed # {} /\ config = Anchored(placed) /\ ConfigOK(state, placed)
    BY <1>1, <1>2, ConfigIs DEF Extends
  <2> HIDE DEF config
  <2> QED
    BY <2>1, AnchoredOrigin
<1> HIDE DEF config, lit
<1>9. config = {Shifted(Put(plan, state, e), dx, dy) : e \in lit}
  BY <1>5, <1>6
<1> QED
  BY <1>7, <1>8, <1>9 DEF config, lit

-----------------------------------------------------------------------------
(* Whether a layout is physical stays as it is.                            *)
LEMMA PhysicalObeyed ==
    ASSUME NEW state, Sound(state), NEW config
    PROVE  Obeyed(state, config).physical = state.physical
BY DEF Obeyed, Sound, StateShape

LEMMA PhysicalStays ==
    ASSUME TInv, [Next]_vars
    PROVE  mutter'.physical = mutter.physical
<1>1. CASE \E c \in Conn : Darkly(c)
  BY <1>1, DarkUnseen
<1>2. CASE \E state, config : Moves(state, config)
  BY <1>2, PhysicalObeyed DEF Moves
<1> QED
  BY <1>1, <1>2, MutterMoves

LEMMA HeadlessIs ==
    ASSUME NEW snap, SnapOK(snap)
    PROVE  Headless(snap) <=> ToSet(Shown(snap)) = {}
<1>1. IsSeq(Shown(snap))
  BY ShownIs
<1>2. Shown(snap) = << >> => ToSet(Shown(snap)) = {}
  BY DEF ToSet
<1>3. ASSUME ToSet(Shown(snap)) = {} PROVE Shown(snap) = << >>
  <2>1. DOMAIN Shown(snap) = 1..Len(Shown(snap)) /\ Len(Shown(snap)) \in Nat
    BY <1>1, SeqHas
  <2>2. DOMAIN Shown(snap) = {}
    BY <1>3 DEF ToSet
  <2>3. Len(Shown(snap)) = 0
    BY <2>1, <2>2
  <2> QED
    BY <1>1, <2>3 DEF IsSeq
<1> QED
  BY <1>2, <1>3 DEF Headless

-----------------------------------------------------------------------------
(* While `up` works, and all is calm: monitors are lit one by one unless   *)
(* some mirrored each other before, some monitor is lit if one was, and    *)
(* the new head is not the primary if another may be.                      *)
LEMMA PrimaryHas ==
    ASSUME NEW state, NEW n
    PROVE  n \in Primary(state) <=> \E lm \in state.logical : lm.primary /\ n \in lm.monitors
BY DEF Primary

LEMMA MainObeyed ==
    ASSUME NEW state, Sound(state), NEW config, ConfigOK(state, config), config # {}
    PROVE  /\ Obeyed(state, config).logical # {}
           /\ \A n : n \in Primary(Obeyed(state, config)) =>
                        \E lc \in config : lc.primary /\ \E m \in lc.monitors : m.name = n
           /\ (\A lc \in config : \E m : lc.monitors = {m}) => Lonely(Obeyed(state, config))
<1> DEFINE now == Obeyed(state, config)
<1>1. now.logical = {Becomes(lc) : lc \in config}
  BY Obeys DEF Becomes
<1>2. \A lc \in config : /\ Becomes(lc).primary = lc.primary
                         /\ Becomes(lc).monitors = {m.name : m \in lc.monitors}
  BY BecomesIs DEF ConfigOK
<1> HIDE DEF now
<1>3. now.logical # {}
  BY <1>1
<1>4. ASSUME NEW n, n \in Primary(now)
      PROVE  \E lc \in config : lc.primary /\ \E m \in lc.monitors : m.name = n
  <2>1. PICK lm \in now.logical : lm.primary /\ n \in lm.monitors
    BY <1>4, PrimaryHas
  <2>2. PICK lc \in config : lm = Becomes(lc)
    BY <1>1
  <2> QED
    BY <1>2, <2>1, <2>2
<1>5. ASSUME \A lc \in config : \E m : lc.monitors = {m} PROVE Lonely(now)
  <2> SUFFICES ASSUME NEW lm \in now.logical PROVE \E n : lm.monitors = {n}
    BY DEF Lonely
  <2>1. PICK lc \in config : lm = Becomes(lc)
    BY <1>1
  <2>2. PICK m : lc.monitors = {m}
    BY <1>5
  <2>3. lm.monitors = {m.name}
    BY <1>2, <2>1, <2>2
  <2> QED
    BY <2>3
<1> QED
  BY <1>3, <1>4, <1>5 DEF now

LEMMA SeenAhead ==
    ASSUME NEW state, MutterOK(state)
    PROVE  Ahead(SnapshotOf(state), state)
<1> DEFINE pre == SnapshotOf(state)
           S == ToSet(Shown(pre))
<1>1. Sound(state) /\ SnapOK(pre)
  BY MutterIs, SnapshotIs
<1> HIDE DEF pre
<1>2. ASSUME ~Lonely(state) PROVE Mirrors(pre)
  <2>1. PICK lm \in state.logical : ~\E n : lm.monitors = {n}
    BY <1>2 DEF Lonely
  <2>2. lm.monitors # {}
    BY <1>1 DEF Sound, LogicalsOK
  <2>3. PICK a \in lm.monitors, b \in lm.monitors : a # b
    <3>1. PICK a \in lm.monitors : TRUE
      BY <2>2
    <3>2. lm.monitors # {a}
      BY <2>1
    <3> QED
      BY <3>1, <3>2
  <2>4. PICK h \in S : h.name = a /\ h.position = <<lm.x, lm.y>>
    BY HeadLit DEF pre
  <2>5. PICK k \in S : k.name = b /\ k.position = <<lm.x, lm.y>>
    BY HeadLit DEF pre
  <2> QED
    BY <2>3, <2>4, <2>5 DEF Mirrors
<1>3. ASSUME ~Headless(pre) PROVE state.logical # {}
  <2>1. PICK h : h \in S
    BY <1>1, <1>3, HeadlessIs
  <2>2. Sees(state, h)
    BY <2>1, ShownAre DEF pre
  <2> QED
    BY <2>2 DEF Sees
<1> QED
  BY <1>2, <1>3 DEF Ahead, pre

LEMMA LeadsIs ==
    ASSUME TInv, Orderly, NEW c \in Conn, devs[c] # None, c \notin Names(mutter.monitors),
           mutter.logical # {}
    PROVE  Leads(Found(c)) # c
<1> DEFINE mons == Found(c).monitors
           names == Names(mons) \cap Primary(Found(c))
<1>1. MutterOK(Found(c)) /\ Found(c).logical = mutter.logical /\ Sound(Found(c))
  BY Appearing, MutterIs
<1>2. PICK lm \in mutter.logical : lm.primary
  BY DEF Orderly, InOrder, OneMain
<1>3. lm.monitors # {} /\ lm.monitors \subseteq Names(mons)
  BY <1>1 DEF Sound, LogicalsOK
<1>4. lm.monitors \subseteq Primary(Found(c))
  BY <1>1, <1>2 DEF Primary
<1>5. names # {} /\ names \subseteq Int
  BY <1>1, <1>3, <1>4, NumbersAre
<1>6. IsFiniteSet(names)
  <2>1. IsFiniteSet(ToSet(mons))
    BY <1>1, StateHas, ToSetFinite
  <2> DEFINE f == [mon \in ToSet(mons) |-> mon.name]
  <2>2. IsFiniteSet({f[x] : x \in DOMAIN f})
    BY <2>1, ImageFinite
  <2>3. {f[x] : x \in DOMAIN f} = Names(mons)
    <3>1. \A x : x \in Names(mons) <=> \E h \in ToSet(mons) : h.name = x
      BY NamesAre
    <3> HIDE DEF mons
    <3>2. {f[x] : x \in DOMAIN f} = {h.name : h \in ToSet(mons)}
      OBVIOUS
    <3> QED
      BY <3>1, <3>2
  <2> QED
    BY <2>2, <2>3, FS_Subset
<1>7. Min(names) \in names
  <2> HIDE DEF names
  <2> QED
    BY <1>5, <1>6, MinIs
<1>8. Leads(Found(c)) \in Primary(Found(c))
  <2>1. Leads(Found(c)) = Min(names)
    BY <1>5 DEF Leads
  <2> QED
    BY <1>7, <2>1
<1>9. Primary(Found(c)) \subseteq Names(mutter.monitors)
  <2>1. Sound(mutter)
    BY MutterSound
  <2> QED
    BY <1>1, <2>1 DEF Primary, Sound, LogicalsOK
<1> QED
  BY <1>8, <1>9

LEMMA BesideAllIs ==
    ASSUME TInv, NEW c \in Conn, devs[c] # None, c \notin Names(mutter.monitors)
    PROVE  \E s : /\ Obeyed(Found(c), BesideAll(c)).logical = mutter.logical \cup {s}
                  /\ s.monitors = {c} /\ ~s.primary
<1> DEFINE now == Obeyed(Found(c), BesideAll(c))
           asis == AsIs(Found(c))
           lc == Single(Found(c), NewMonitor(c), PlacedEdge(Found(c), asis), FALSE)
           back(lm) == Carried(NewPlan, Found(c), lm)
<1>1. /\ MutterOK(Found(c)) /\ Found(c).logical = mutter.logical /\ Sound(Found(c))
      /\ ConfigOK(Found(c), BesideAll(c))
  BY Appearing, MutterIs
<1>2. /\ asis = {back(lm) : lm \in mutter.logical}
      /\ \A lm \in mutter.logical : Becomes(back(lm)) = lm
  BY <1>1, AsIsHas
<1>3. ~lc.primary /\ \E m : lc.monitors = {m} /\ m.name = NewMonitor(c).name
  <2> DEFINE edge == PlacedEdge(Found(c), asis)
             mon == NewMonitor(c)
             no == FALSE
  <2> HIDE DEF edge, mon, no, asis
  <2>1. /\ Single(Found(c), mon, edge, no).primary = no
        /\ \E m : Single(Found(c), mon, edge, no).monitors = {m} /\ m.name = mon.name
    BY SingleShows
  <2> QED
    BY <2>1 DEF edge, mon, no, asis
<1>4. NewMonitor(c).name = c
  BY DEF NewMonitor
<1>5. BesideAll(c) = asis \cup {lc}
  BY DEF BesideAll
<1>6. now.logical = {Becomes(k) : k \in BesideAll(c)}
  BY <1>1, Obeys DEF Becomes
<1> HIDE DEF now, asis, lc, back
<1>7. lc \in Part(Found(c))
  BY <1>1, <1>5 DEF ConfigOK
<1>8. /\ Becomes(lc).primary = lc.primary
      /\ Becomes(lc).monitors = {m.name : m \in lc.monitors}
  BY <1>7, BecomesIs
<1>9. Becomes(lc).monitors = {c} /\ ~Becomes(lc).primary
  BY <1>3, <1>4, <1>8
<1>10. now.logical = mutter.logical \cup {Becomes(lc)}
  <2>1. \A k \in now.logical : k \in mutter.logical \cup {Becomes(lc)}
    BY <1>2, <1>5, <1>6
  <2>2. \A k \in mutter.logical \cup {Becomes(lc)} : k \in now.logical
    BY <1>2, <1>5, <1>6
  <2> QED
    BY <2>1, <2>2
<1> QED
  BY <1>9, <1>10 DEF now

LEMMA AppearsAhead ==
    ASSUME TInv, Orderly, "calm" \in DOMAIN hist, NEW c \in Conn, HeadAppears(c), hist'.calm,
           NEW pre, Ahead(pre, mutter), Second(pre, c, mutter)
    PROVE  Ahead(pre, mutter') /\ Second(pre, c, mutter')
<1>1. /\ devs[c] # None /\ c \notin Names(mutter.monitors)
      /\ \/ mutter' = [Found(c) EXCEPT !.serial = @ + 1]
         \/ mutter' = Obeyed(Found(c), BesideAll(c))
         \/ mutter' = Obeyed(Found(c), InARow(Found(c)))
  BY AppearsAs
<1>2. /\ MutterOK(Found(c)) /\ Found(c).logical = mutter.logical /\ Sound(Found(c))
      /\ ConfigOK(Found(c), InARow(Found(c)))
  BY <1>1, Appearing, MutterIs
<1>3. CASE mutter' = [Found(c) EXCEPT !.serial = @ + 1]
  <2>1. mutter'.logical = mutter.logical
    BY <1>2, <1>3 DEF MutterOK
  <2>2. Primary(mutter') = Primary(mutter)
    BY <2>1 DEF Primary
  <2> QED
    BY <2>1, <2>2 DEF Ahead, Second, Lonely
<1>4. CASE mutter' = Obeyed(Found(c), BesideAll(c))
  <2>1. PICK s : /\ mutter'.logical = mutter.logical \cup {s}
                 /\ s.monitors = {c} /\ ~s.primary
    BY <1>1, <1>4, BesideAllIs
  <2>2. \A n : n \in Primary(mutter') <=> n \in Primary(mutter)
    BY <2>1, PrimaryHas
  <2>3. Lonely(mutter) => Lonely(mutter')
    BY <2>1 DEF Lonely
  <2> QED
    BY <2>1, <2>2, <2>3 DEF Ahead, Second
<1>5. CASE mutter' = Obeyed(Found(c), InARow(Found(c)))
  <2> DEFINE row == InARow(Found(c))
             mons == Found(c).monitors
  <2>1. RowOf(Found(c)) /\ RowMembers(Found(c))
    BY <1>2, RowHas
  <2>2. \A lc \in row : \E m : lc.monitors = {m}
    BY <2>1 DEF RowMembers
  <2>3. row # {}
    <3>1. /\ DOMAIN mons = 1..(Len(mutter.monitors) + 1) /\ Len(mutter.monitors) \in Nat
      BY <1>1, FoundHas
    <3>2. 1 \in DOMAIN mons
      BY <3>1
    <3> QED
      BY <2>1, <3>2 DEF RowOf
  <2>4. /\ mutter'.logical # {} /\ Lonely(mutter')
        /\ \A n : n \in Primary(mutter') =>
                     \E lc \in row : lc.primary /\ \E m \in lc.monitors : m.name = n
    <3> HIDE DEF row
    <3>1. ConfigOK(Found(c), row)
      BY <1>2 DEF row
    <3> DEFINE now == Obeyed(Found(c), row)
    <3>2. mutter' = now
      BY <1>5 DEF row
    <3>3. /\ now.logical # {}
          /\ \A n : n \in Primary(now) =>
                       \E lc \in row : lc.primary /\ \E m \in lc.monitors : m.name = n
          /\ (\A lc \in row : \E m : lc.monitors = {m}) => Lonely(now)
      BY <1>2, <2>3, <3>1, MainObeyed
    <3> HIDE DEF now
    <3> QED
      BY <2>2, <3>2, <3>3
  <2>5. ASSUME ~Headless(pre) PROVE c \notin Primary(mutter')
    <3>1. Leads(Found(c)) # c
      BY <1>1, <1>2, <2>5, LeadsIs DEF Ahead
    <3> SUFFICES ASSUME c \in Primary(mutter') PROVE FALSE
      OBVIOUS
    <3>2. PICK lc \in row : lc.primary /\ \E m \in lc.monitors : m.name = c
      BY <2>4
    <3>3. PICK i \in DOMAIN mons :
            /\ \E m : lc.monitors = {m} /\ m.name = mons[i].name
            /\ lc.primary <=> mons[i].name = Leads(Found(c))
      BY <2>1 DEF RowMembers
    <3> QED
      BY <3>1, <3>2, <3>3
  <2> QED
    BY <2>4, <2>5 DEF Ahead, Second
<1> QED
  BY <1>1, <1>3, <1>4, <1>5

(* The parts of that configuration.                                        *)
LEMMA UpParts ==
    ASSUME NEW req, ScaleOK(req.scale), NEW pre, NEW n, NEW state, Familiarly(pre, n, state),
           NEW off, NEW at, NEW plan, UpPlan(plan, req, pre, n, off, at),
           ToMutterConfig(plan, state) # {}
    PROVE  \A lc \in ToMutterConfig(plan, state) : \E e \in ToSet(plan.enables) :
              /\ Lightable(state, e) /\ \E m : lc.monitors = {m} /\ m.name = e.name
              /\ lc.primary <=> IF plan.primary # None THEN plan.primary = e.name
                                ELSE e.name \in Primary(state)
<1> DEFINE lit == {e \in ToSet(plan.enables) : Lightable(state, e)}
           config == ToMutterConfig(plan, state)
<1>1. Sound(state) /\ EnablesOK(plan.enables)
  BY MutterIs DEF Familiarly, UpPlan
<1>2. PICK dx \in Int, dy \in Int : config = {Shifted(Put(plan, state, e), dx, dy) : e \in lit}
  BY UpLaid
<1> HIDE DEF config
<1> SUFFICES ASSUME NEW lc \in config
             PROVE  \E e \in ToSet(plan.enables) :
                      /\ Lightable(state, e) /\ \E m : lc.monitors = {m} /\ m.name = e.name
                      /\ lc.primary <=> IF plan.primary # None THEN plan.primary = e.name
                                        ELSE e.name \in Primary(state)
  BY DEF config
<1>3. PICK e \in lit : lc = Shifted(Put(plan, state, e), dx, dy)
  BY <1>2
<1>4. EnableOK(e) /\ Lightable(state, e) /\ e \in ToSet(plan.enables)
  BY <1>1 DEF EnablesOK
<1> DEFINE put == Put(plan, state, e)
           was == LogicalOf(state, e.name)
<1>5. /\ put \in Part(state) /\ \E m : put.monitors = {m} /\ m.name = e.name
      /\ put.primary <=> IF plan.primary # None THEN plan.primary = e.name
                         ELSE was # None /\ was.primary
  <2> HIDE DEF lit
  <2> QED
    BY <1>1, <1>4, PutIs
<1>6. lc.monitors = put.monitors /\ lc.primary = put.primary
  BY <1>3 DEF Shifted
<1> HIDE DEF put, was
<1>7. (was # None /\ was.primary) <=> e.name \in Primary(state)
  <2>1. ASSUME was # None, was.primary PROVE e.name \in Primary(state)
    BY <1>1, <2>1, LogicalHas, PrimaryHas DEF was
  <2>2. ASSUME e.name \in Primary(state) PROVE was # None /\ was.primary
    <3>1. PICK lm \in state.logical : lm.primary /\ e.name \in lm.monitors
      BY <2>2, PrimaryHas
    <3>2. was = lm /\ lm # None
      BY <1>1, <3>1, LogicalIs, StateHas, NoneIsNothing DEF was
    <3> QED
      BY <3>1, <3>2
  <2> QED
    BY <2>1, <2>2
<1>8. \E m : lc.monitors = {m} /\ m.name = e.name
  BY <1>5, <1>6
<1>9. lc.primary <=> IF plan.primary # None THEN plan.primary = e.name
                     ELSE e.name \in Primary(state)
  BY <1>5, <1>6, <1>7
<1> QED
  BY <1>4, <1>8, <1>9

LEMMA PlaceAhead ==
    ASSUME NEW req, ScaleOK(req.scale), NEW pre, NEW n, NEW state, Familiarly(pre, n, state),
           NEW plan, plan = PlacePlan(req, pre, n), plan # None,
           ToMutterConfig(plan, state) # {}, Second(pre, n, state)
    PROVE  LET now == Obeyed(state, ToMutterConfig(plan, state)) IN
           Ahead(pre, now) /\ Second(pre, n, now)
<1> DEFINE config == ToMutterConfig(plan, state)
           now == Obeyed(state, config)
<1>1. Sound(state) /\ SnapOK(pre)
  BY MutterIs DEF Familiarly
<1>2. UpPlan(plan, req, pre, n, {}, AppendedAt(pre)) /\ plan.primary = None
  BY <1>1, PlaceUp
<1>3. ConfigOK(state, config)
  BY <1>2, UpLaid
<1>4. \A lc \in config : \E e \in ToSet(plan.enables) :
         /\ \E m : lc.monitors = {m} /\ m.name = e.name
         /\ lc.primary <=> e.name \in Primary(state)
  BY <1>2, UpParts
<1>5. \A lc \in config : \E m : lc.monitors = {m}
  BY <1>4
<1>6. /\ now.logical # {}
      /\ \A a : a \in Primary(now) =>
                   \E lc \in config : lc.primary /\ \E m \in lc.monitors : m.name = a
      /\ (\A lc \in config : \E m : lc.monitors = {m}) => Lonely(now)
  <2>1. config # {}
    OBVIOUS
  <2> HIDE DEF config
  <2> QED
    BY <1>1, <1>3, <2>1, MainObeyed
<1> HIDE DEF now, config
<1>7. ASSUME n \in Primary(now) PROVE n \in Primary(state)
  <2>1. PICK lc \in config : lc.primary /\ \E m \in lc.monitors : m.name = n
    BY <1>6, <1>7
  <2>2. PICK e \in ToSet(plan.enables) :
          /\ \E m : lc.monitors = {m} /\ m.name = e.name
          /\ lc.primary <=> e.name \in Primary(state)
    BY <1>4
  <2> QED
    BY <2>1, <2>2
<1> QED
  BY <1>5, <1>6, <1>7 DEF Ahead, Second, now, config

(* No other than the head of a device has the connector's name, if no      *)
(* output had it before.                                                   *)
LEMMA NewSecond ==
    ASSUME TInv, Strangers, Create, me' # Idle, me.sess
    PROVE  Second(me.pre, me'.conn, mutter)
<1>1. me.at = "create" /\ me'.conn = Min(Free)
  BY CreateAs
<1>2. Min(Free) \in Free
  <2>1. Free # {} /\ Free \subseteq Int /\ IsFiniteSet(Free)
    BY <1>1, Connectors, FS_Subset DEF TInv, MeOK, Free
  <2> QED
    BY <2>1, MinIs
<1>3. devs[me'.conn] = None
  BY <1>1, <1>2 DEF Free
<1>4. ASSUME me'.conn \notin Names(me.pre.heads) PROVE me'.conn \notin Names(mutter.monitors)
  BY <1>1, <1>3, <1>4 DEF Strangers
<1>5. Primary(mutter) \subseteq Names(mutter.monitors)
  BY MutterSound DEF Primary, Sound, LogicalsOK
<1> QED
  BY <1>4, <1>5 DEF Second

LEMMA StepForesees ==
    ASSUME TInv, Shapes, UnplugOnlyInDown, WInv, Strangers, Orderly, Foresees, [Next]_vars
    PROVE  Foresees'
<1> SUFFICES ASSUME Working'
             PROVE  /\ Tidy(me'.pre) /\ AllTouch(me'.pre) /\ mutter'.physical = me'.pre.physical
                    /\ hist'.calm => /\ Ahead(me'.pre, mutter')
                                     /\ ForUp' => Second(me'.pre, me'.conn, mutter')
  BY DEF Foresees
<1>0. mutter'.physical = mutter.physical
  BY PhysicalStays
<1>1. CASE RunUp
  <2>1. mutter' = mutter /\ me'.pre = SnapshotOf(mutter) /\ me'.at = "create"
    BY <1>1, RunUpAs DEF Working, ForUp
  <2>2. /\ MutterOK(mutter) /\ Tidy(SnapshotOf(mutter)) /\ AllTouch(SnapshotOf(mutter))
        /\ ~ForUp'
    BY <2>1 DEF TInv, Orderly, InOrder, ForUp
  <2>3. SnapshotOf(mutter).physical = mutter.physical
    BY DEF SnapshotOf
  <2>4. Ahead(SnapshotOf(mutter), mutter)
    BY <2>2, SeenAhead
  <2> QED
    BY <2>1, <2>2, <2>3, <2>4
<1>2. CASE Create
  <2>1. me' # Idle
    BY DEF Working, ForUp, Idle
  <2>2. UNCHANGED <<mutter, hist>> /\ me.at = "create" /\ me.sess /\ me'.pre = me.pre
    BY <1>2, <2>1, CreateAs
  <2>3. Working
    BY <2>2 DEF Working
  <2>4. Second(me.pre, me'.conn, mutter)
    BY <1>2, <2>1, <2>2, NewSecond
  <2> QED
    BY <2>2, <2>3, <2>4 DEF Foresees
<1>3. CASE ~RunUp /\ ~Create
  <2>0. /\ Working /\ me.at \notin Leaving /\ me'.pre = me.pre /\ me'.conn = me.conn
        /\ ForUp' <=> ForUp
    BY <1>3, WorksOn
  <2>1. Tidy(me.pre) /\ AllTouch(me.pre) /\ mutter.physical = me.pre.physical
    BY <2>0 DEF Foresees
  <2>2. ASSUME hist.calm
        PROVE  Ahead(me.pre, mutter) /\ (ForUp => Second(me.pre, me.conn, mutter))
    BY <2>0, <2>2 DEF Foresees
  <2> SUFFICES ASSUME hist'.calm
               PROVE  Ahead(me.pre, mutter') /\ (ForUp => Second(me.pre, me.conn, mutter'))
    BY <1>0, <2>0, <2>1
  <2>3. CASE UNCHANGED <<mutter, hist>>
    BY <2>2, <2>3
  <2>4. CASE Apply
    <3>1. /\ me.at = "apply" /\ Against = {} /\ mutter' = Obeyed(mutter, Asked)
          /\ hist' = hist
      BY <2>4, ApplyAs
    <3>2. me.phase = "place" /\ ForUp
      BY <2>4, ApplyAs DEF Working, ForUp
    <3>3. /\ me.plan = PlacePlan(me.req, me.pre, me.conn) /\ me.plan # None
          /\ ScaleOK(me.req.scale) /\ SnapOK(me.pre)
      BY <3>1, <3>2 DEF WInv, PlanIs, TInv, MeOK
    <3>4. Asked = ToMutterConfig(me.plan, mutter) /\ Asked # {}
      BY <3>1, Granting
    <3>5. Familiarly(me.pre, me.conn, mutter)
      BY <2>0, <3>1, <3>2, <3>3 DEF Familiarly, WInv, Remembers, Familiar, Ours, TInv
    <3>6. Second(me.pre, me.conn, mutter)
      BY <2>2, <3>1, <3>2
    <3> HIDE DEF Asked
    <3> QED
      BY <3>1, <3>3, <3>4, <3>5, <3>6, PlaceAhead
  <2>5. CASE \E c \in Conn : HeadAppears(c)
    <3>1. PICK c \in Conn : HeadAppears(c)
      BY <2>5
    <3>2. hist.calm /\ me.at = "await" /\ me.conn = c
      BY <3>1, AppearsCalmly DEF Shapes
    <3>3. Ahead(me.pre, mutter) /\ Second(me.pre, c, mutter)
      BY <2>2, <3>2 DEF ForUp
    <3> QED
      BY <3>1, <3>2, <3>3, AppearsAhead DEF Shapes
  <2>6. CASE \E c \in Conn : HeadGoes(c)
    <3>1. PICK c \in Conn : devs[c] # None /\ ~devs[c].plugged
      BY <2>6 DEF HeadGoes
    <3> QED
      BY <2>0, <3>1 DEF UnplugOnlyInDown
  <2>7. CASE UserChanges
    <3>1. hist' = [hist EXCEPT !.calm = FALSE, !.clean = FALSE]
      BY <2>7 DEF UserChanges
    <3> QED
      BY <3>1 DEF Shapes
  <2>8. CASE Refused
    <3>1. me'.at \in {"unplug", "failed"}
      BY <2>8 DEF Refused, TInv, MeOK, Fields
    <3> QED
      BY <3>1 DEF Working, ForUp
  <2>9. CASE RunDown
    <3>1. me.at = "idle"
      BY <2>9 DEF RunDown
    <3> QED
      BY <2>0, <3>1 DEF Working, ForUp
  <2> QED
    BY <1>3, <2>3, <2>4, <2>5, <2>6, <2>7, <2>8, <2>9
       DEF Next, vars, Await, PlanLayout, Refresh, Return, Unplug, Gone, Destroy, AllOver
<1> QED
  BY <1>1, <1>2, <1>3

LEMMA InitForesees == Init => Orderly /\ Foresees
<1>1. Init => Foresees
  BY DEF Init, Idle, Foresees, Working, ForUp
<1> QED
  BY <1>1, InitOrder

LEMMA AlwaysForesees ==
    Spec => [](TInv /\ IInv /\ InPlace /\ WInv /\ HInv /\ Orderly /\ Foresees)
<1> DEFINE Known == TInv /\ IInv /\ InPlace /\ WInv /\ HInv
<1>1. Orderly /\ Foresees /\ Known /\ [Next]_vars => (Orderly /\ Foresees)'
  BY StepOrder, StepForesees DEF IInv, HInv
<1> QED
  BY <1>1, InitForesees, AlwaysWorking, AlwaysHead, PTL DEF Spec

-----------------------------------------------------------------------------
(* Nothing that was shown reaches beyond where the head is appended.       *)
LEMMA AroundWithin ==
    ASSUME NEW pre, SnapOK(pre), Pictured(pre), NEW h \in ToSet(Shown(pre))
    PROVE  /\ Around(pre, h).right <= RightEdge(pre) /\ RightEdge(pre) \in Int
           /\ Scaled(Across(h.mode, h.transform), ScaleIn(pre.physical, h.scale)) \in Int
           /\ Scaled(IF SwapsAxes(h.transform) THEN h.mode.w ELSE h.mode.h,
                     ScaleIn(pre.physical, h.scale)) \in Int
           /\ h.position[1] \in Int /\ h.position[2] \in Int
           /\ \E k \in ToSet(Shown(pre)) : Around(pre, k).right = RightEdge(pre)
<1> DEFINE S == ToSet(Shown(pre))
           Edge(k) == k.position[1] + Scaled(Across(k.mode, k.transform),
                                             ScaleIn(pre.physical, Or(k.scale, 100)))
           E == {Edge(k) : k \in S}
           f == [k \in S |-> Edge(k)]
<1>1. RightEdge(pre) = RightOf(E)
  BY DEF RightEdge
<1>2. ASSUME NEW k \in S
      PROVE  /\ Edge(k) = k.position[1] + Scaled(Across(k.mode, k.transform),
                                                 ScaleIn(pre.physical, k.scale))
             /\ k.position[1] \in Int /\ k.position[2] \in Int
             /\ Scaled(Across(k.mode, k.transform), ScaleIn(pre.physical, k.scale)) \in Int
             /\ Scaled(IF SwapsAxes(k.transform) THEN k.mode.w ELSE k.mode.h,
                       ScaleIn(pre.physical, k.scale)) \in Int
  <2>1. k.mode \in Mode /\ k.position \in Int \X Int /\ k.scale \in Nat \ {0}
    BY ShownLively DEF Lively
  <2>2. Or(k.scale, 100) = k.scale
    BY <2>1, NoneIsNothing DEF Or
  <2>3. /\ Across(k.mode, k.transform) \in Int
        /\ (IF SwapsAxes(k.transform) THEN k.mode.w ELSE k.mode.h) \in Int
    BY <2>1 DEF Across, Mode
  <2>4. ScaleIn(pre.physical, k.scale) \in Nat \ {0}
    BY <2>1 DEF ScaleIn
  <2> DEFINE a == Across(k.mode, k.transform)
             b == IF SwapsAxes(k.transform) THEN k.mode.w ELSE k.mode.h
             s == ScaleIn(pre.physical, k.scale)
  <2>5. Edge(k) = k.position[1] + Scaled(a, s)
    BY <2>2
  <2> HIDE DEF a, b, s, Edge
  <2>6. Scaled(a, s) \in Int /\ Scaled(b, s) \in Int
    BY <2>3, <2>4, ScaledIs DEF a, b, s
  <2> QED
    BY <2>1, <2>5, <2>6 DEF a, b, s
<1>3. IsFiniteSet(E)
  <2>1. IsFiniteSet(S)
    BY ShownIs, ToSetFinite
  <2>2. IsFiniteSet({f[x] : x \in DOMAIN f})
    BY <2>1, ImageFinite
  <2>3. {f[x] : x \in DOMAIN f} = E
    OBVIOUS
  <2> QED
    BY <2>2, <2>3
<1>4. \A k \in S : Edge(k) \in Int
  <2> SUFFICES ASSUME NEW k \in S PROVE Edge(k) \in Int
    OBVIOUS
  <2> DEFINE w == Scaled(Across(k.mode, k.transform), ScaleIn(pre.physical, k.scale))
  <2>1. Edge(k) = k.position[1] + w /\ k.position[1] \in Int /\ w \in Int
    BY <1>2
  <2> HIDE DEF w, Edge
  <2> QED
    BY <2>1
<1>5. E \subseteq Int /\ Edge(h) \in E /\ E # {}
  BY <1>4
<1>6. ASSUME NEW k \in S PROVE Around(pre, k).right = Edge(k)
  <2> DEFINE wide == Scaled(Across(k.mode, k.transform), ScaleIn(pre.physical, k.scale))
  <2>1. Around(pre, k) = Frame(pre.physical, k.position[1], k.position[2], k.scale,
                               k.transform, k.mode)
    BY AroundIs
  <2>2. Around(pre, k).right = k.position[1] + wide
    BY <2>1 DEF Frame
  <2>3. Edge(k) = k.position[1] + wide
    BY <1>2
  <2> HIDE DEF Edge, wide
  <2> QED
    BY <2>2, <2>3
<1>7. RightEdge(pre) = Max(E) /\ Max(E) \in E /\ Max(E) >= Edge(h)
  <2>1. Max(E) \in E /\ \A y \in E : Max(E) >= y
    <3> HIDE DEF E
    <3> QED
      BY <1>3, <1>5, MaxIs
  <2> HIDE DEF Edge
  <2> QED
    BY <1>1, <1>5, <2>1 DEF RightOf
<1>8. Edge(h) <= RightEdge(pre) /\ RightEdge(pre) \in Int
  <2> DEFINE m == Max(E)
             g == Edge(h)
  <2>1. RightEdge(pre) = m /\ m \in Int /\ m >= g /\ g \in Int
    BY <1>5, <1>7
  <2> HIDE DEF m, g
  <2>2. g <= RightEdge(pre) /\ RightEdge(pre) \in Int
    BY <2>1
  <2> QED
    BY <2>2 DEF g
<1>9. \E k \in S : Around(pre, k).right = RightEdge(pre)
  <2>1. PICK k \in S : Max(E) = Edge(k)
    BY <1>7
  <2>2. Around(pre, k).right = Edge(k)
    BY <1>6
  <2> QED
    BY <1>7, <2>1, <2>2
<1>10. Around(pre, h).right = Edge(h)
  BY <1>6
<1> HIDE DEF Edge
<1> QED
  BY <1>2, <1>8, <1>9, <1>10

(* Where the parts of the configuration are: what stays, and the head.     *)
StaysAs(pre, state, plan, h, lc, dx, dy) ==
    /\ lc = Shifted(Put(plan, state, AsEnabled(h)), dx, dy)
    /\ \E m : lc.monitors = {m} /\ m.name = h.name
    /\ Box(state, lc) = Frame(pre.physical, h.position[1] - dx, h.position[2] - dy,
                              h.scale, h.transform, h.mode)
StaysAt(pre, state, plan, off, lc, dx, dy) ==
    \E h \in ToSet(Shown(pre)) :
        h.name \notin off /\ StaysAs(pre, state, plan, h, lc, dx, dy)
ComesAt(req, n, at, plan, state, lc, dx, dy) ==
    LET e == AsEnable(req, n, at) IN
    /\ Lightable(state, e) /\ lc = Shifted(Put(plan, state, e), dx, dy)
    /\ lc.x = at[1] - dx /\ \E m : lc.monitors = {m} /\ m.name = n

LEMMA UpSpots ==
    ASSUME NEW req, ScaleOK(req.scale), NEW pre, NEW n, n # None, NEW state,
           Familiarly(pre, n, state), NEW off, NEW at, NEW plan,
           UpPlan(plan, req, pre, n, off, at), ToMutterConfig(plan, state) # {},
           state.physical = pre.physical
    PROVE  LET config == ToMutterConfig(plan, state) IN
           \E dx \in Int, dy \in Int :
              /\ \A lc \in config : \/ StaysAt(pre, state, plan, off, lc, dx, dy)
                                    \/ ComesAt(req, n, at, plan, state, lc, dx, dy)
              /\ \A h \in ToSet(Shown(pre)) : h.name \notin off =>
                    \E lc \in config : StaysAs(pre, state, plan, h, lc, dx, dy)
<1> DEFINE lit == {e \in ToSet(plan.enables) : Lightable(state, e)}
           config == ToMutterConfig(plan, state)
<1>1. Sound(state) /\ SnapOK(pre) /\ Pictured(pre)
  BY MutterIs DEF Familiarly
<1>2. PICK dx \in Int, dy \in Int : config = {Shifted(Put(plan, state, e), dx, dy) : e \in lit}
  BY UpLaid
<1> HIDE DEF config
<1>3. ASSUME NEW h \in ToSet(Shown(pre))
      PROVE  /\ Lightable(state, AsEnabled(h))
             /\ StaysAs(pre, state, plan, h, Shifted(Put(plan, state, AsEnabled(h)), dx, dy), dx, dy)
  <2>1. HeadOK(h) /\ Lively(h) /\ Recalled(h, state)
    BY <1>1, ShownLively DEF Familiarly
  <2> DEFINE put == Put(plan, state, AsEnabled(h))
             m == [name |-> h.name, mode |-> h.mode,
                   color |-> Or(h.color, MonitorNamed(state, h.name).color)]
             lc == Shifted(put, dx, dy)
  <2>2. /\ Lightable(state, AsEnabled(h))
        /\ put = [x |-> h.position[1], y |-> h.position[2], scale |-> h.scale,
                  transform |-> h.transform, primary |-> put.primary, monitors |-> {m}]
    BY <1>1, <2>1, PutKept
  <2>3. m.mode = h.mode /\ m.name = h.name
    OBVIOUS
  <2> HIDE DEF put, m
  <2>4. /\ put.x = h.position[1] /\ put.y = h.position[2] /\ put.scale = h.scale
        /\ put.transform = h.transform /\ put.monitors = {m}
    BY <2>2
  <2>5. /\ lc.x = h.position[1] - dx /\ lc.y = h.position[2] - dy /\ lc.scale = h.scale
        /\ lc.transform = h.transform /\ lc.monitors = {m}
    BY <2>4 DEF Shifted
  <2> HIDE DEF lc
  <2>6. Box(state, lc) = Frame(state.physical, lc.x, lc.y, lc.scale, lc.transform, m.mode)
    BY <2>5, BoxIs
  <2>7. Box(state, lc) = Frame(pre.physical, h.position[1] - dx, h.position[2] - dy,
                               h.scale, h.transform, h.mode)
    BY <2>3, <2>5, <2>6
  <2> QED
    BY <2>2, <2>3, <2>5, <2>7 DEF StaysAs, put, lc
<1>4. ASSUME NEW lc \in config
      PROVE  \/ StaysAt(pre, state, plan, off, lc, dx, dy)
             \/ ComesAt(req, n, at, plan, state, lc, dx, dy)
  <2>1. PICK e \in lit : lc = Shifted(Put(plan, state, e), dx, dy)
    BY <1>2
  <2>2. CASE e \in Keeping(pre, off)
    <3>1. PICK h \in ToSet(Shown(pre)) : h.name \notin off /\ e = AsEnabled(h)
      BY <2>2 DEF Keeping
    <3> QED
      BY <1>3, <2>1, <3>1 DEF StaysAt
  <2>3. CASE e = AsEnable(req, n, at)
    <3> DEFINE put == Put(plan, state, AsEnable(req, n, at))
               m == [name |-> n, mode |-> ModeFor(MonitorNamed(state, n), RequestedMode(req.spec)),
                     color |-> IF req.spec.hdr THEN "hdr" ELSE "sdr"]
    <3>1. at \in Int \X Int
      BY DEF UpPlan
    <3>2. NewLies(req, n, at, plan, state)
      BY <3>1, PutNew
    <3>3. put.x = at[1] /\ put.monitors = {m}
      BY <3>2 DEF NewLies
    <3>4. m.name = n
      OBVIOUS
    <3> HIDE DEF put, m
    <3>5. lc = Shifted(put, dx, dy)
      BY <2>1, <2>3 DEF put
    <3>6. lc.x = at[1] - dx /\ lc.monitors = {m}
      BY <3>3, <3>5 DEF Shifted
    <3>7. Lightable(state, AsEnable(req, n, at))
      BY <2>3
    <3> QED
      BY <3>4, <3>5, <3>6, <3>7 DEF ComesAt, put
  <2> QED
    BY <2>2, <2>3 DEF UpPlan
<1>5. ASSUME NEW h \in ToSet(Shown(pre)), h.name \notin off
      PROVE  \E lc \in config : StaysAs(pre, state, plan, h, lc, dx, dy)
  <2> DEFINE lc == Shifted(Put(plan, state, AsEnabled(h)), dx, dy)
  <2>1. AsEnabled(h) \in lit
    BY <1>3, <1>5 DEF UpPlan, Keeping
  <2>2. lc \in config
    BY <1>2, <2>1
  <2>3. StaysAs(pre, state, plan, h, lc, dx, dy)
    BY <1>3
  <2> HIDE DEF lc
  <2> QED
    BY <2>2, <2>3
<1> QED
  BY <1>4, <1>5 DEF config

(* No two of them overlap unless monitors mirrored each other: what stays  *)
(* is where it was, or is moved alike, and the head is beyond all that was *)
(* shown, or alone.                                                        *)
LEMMA UpApart ==
    ASSUME NEW req, ScaleOK(req.scale), NEW pre, NEW n, n # None, NEW state,
           Familiarly(pre, n, state), NEW off, NEW at, NEW plan,
           UpPlan(plan, req, pre, n, off, at), ToMutterConfig(plan, state) # {},
           state.physical = pre.physical, Tidy(pre), ~Mirrors(pre),
           at = AppendedAt(pre) \/ \A h \in ToSet(Shown(pre)) : h.name \in off
    PROVE  NoOverlap(state, ToMutterConfig(plan, state))
<1> DEFINE config == ToMutterConfig(plan, state)
           S == ToSet(Shown(pre))
           Here(lc, dx, dy) == StaysAt(pre, state, plan, off, lc, dx, dy)
           There(lc, dx, dy) == ComesAt(req, n, at, plan, state, lc, dx, dy)
<1>1. SnapOK(pre) /\ Pictured(pre)
  BY DEF Familiarly
<1>2. PICK dx \in Int, dy \in Int : \A lc \in config : Here(lc, dx, dy) \/ There(lc, dx, dy)
  BY UpSpots
<1>3. ConfigOK(state, config)
  BY UpLaid
<1> HIDE DEF config, Here, There
<1> SUFFICES ASSUME NEW a \in config, NEW b \in config, a # b,
                    Overlap(Box(state, a), Box(state, b))
             PROVE  FALSE
  BY DEF NoOverlap, config
<1>4. ASSUME NEW lc, There(lc, dx, dy)
      PROVE  Box(state, lc).left = at[1] - dx
  BY <1>4 DEF There, ComesAt, Box
<1>5. ASSUME NEW lc, NEW h \in S,
             Box(state, lc) = Frame(pre.physical, h.position[1] - dx, h.position[2] - dy,
                                    h.scale, h.transform, h.mode)
      PROVE  Box(state, lc).right <= RightEdge(pre) - dx
  <2> DEFINE wide == Scaled(Across(h.mode, h.transform), ScaleIn(pre.physical, h.scale))
             x == h.position[1]
  <2>1. Box(state, lc).right = (x - dx) + wide
    BY <1>5 DEF Frame
  <2>2. Around(pre, h).right = x + wide
    BY AroundIs DEF Frame
  <2>3. /\ Around(pre, h).right <= RightEdge(pre) /\ RightEdge(pre) \in Int
        /\ wide \in Int /\ x \in Int
    BY <1>1, AroundWithin
  <2> HIDE DEF wide, x
  <2> QED
    BY <2>1, <2>2, <2>3
<1>6. ASSUME NEW lc, NEW k, There(lc, dx, dy), Here(k, dx, dy)
      PROVE  ~ShareColumns(Box(state, k), Box(state, lc)) /\ ~ShareColumns(Box(state, lc), Box(state, k))
  <2>1. PICK h \in S :
          /\ h.name \notin off
          /\ Box(state, k) = Frame(pre.physical, h.position[1] - dx, h.position[2] - dy,
                                   h.scale, h.transform, h.mode)
    BY <1>6 DEF Here, StaysAt, StaysAs
  <2>2. Box(state, k).right <= RightEdge(pre) - dx
    BY <1>5, <2>1
  <2>3. at = AppendedAt(pre)
    BY <2>1
  <2>4. at[1] = RightEdge(pre)
    BY <2>3 DEF AppendedAt
  <2>5. Box(state, lc).left = RightEdge(pre) - dx
    BY <1>4, <1>6, <2>4
  <2>6. RightEdge(pre) \in Int /\ Box(state, k).right \in Int
    <3> DEFINE wide == Scaled(Across(h.mode, h.transform), ScaleIn(pre.physical, h.scale))
               x == h.position[1]
    <3>1. Box(state, k).right = (x - dx) + wide
      BY <2>1 DEF Frame
    <3>2. RightEdge(pre) \in Int /\ wide \in Int /\ x \in Int
      BY <1>1, AroundWithin
    <3> HIDE DEF wide, x
    <3> QED
      BY <3>1, <3>2
  <2> QED
    BY <2>2, <2>5, <2>6 DEF ShareColumns
<1>7. CASE There(a, dx, dy) /\ There(b, dx, dy)
  BY <1>7 DEF There, ComesAt
<1>8. CASE There(a, dx, dy) /\ Here(b, dx, dy)
  BY <1>6, <1>8 DEF Overlap
<1>9. CASE Here(a, dx, dy) /\ There(b, dx, dy)
  BY <1>6, <1>9 DEF Overlap
<1>10. CASE Here(a, dx, dy) /\ Here(b, dx, dy)
  <2>1. PICK h \in S :
          /\ a = Shifted(Put(plan, state, AsEnabled(h)), dx, dy)
          /\ Box(state, a) = Frame(pre.physical, h.position[1] - dx, h.position[2] - dy,
                                   h.scale, h.transform, h.mode)
    BY <1>10 DEF Here, StaysAt, StaysAs
  <2>2. PICK k \in S :
          /\ b = Shifted(Put(plan, state, AsEnabled(k)), dx, dy)
          /\ Box(state, b) = Frame(pre.physical, k.position[1] - dx, k.position[2] - dy,
                                   k.scale, k.transform, k.mode)
    BY <1>10 DEF Here, StaysAt, StaysAs
  <2>3. h # k
    BY <2>1, <2>2
  <2>4. Overlap(Frame(pre.physical, h.position[1] - dx, h.position[2] - dy,
                      h.scale, h.transform, h.mode),
                Frame(pre.physical, k.position[1] - dx, k.position[2] - dy,
                      k.scale, k.transform, k.mode))
    BY <2>1, <2>2
  <2>5. Overlap(Frame(pre.physical, h.position[1], h.position[2],
                      h.scale, h.transform, h.mode),
                Frame(pre.physical, k.position[1], k.position[2],
                      k.scale, k.transform, k.mode))
    <3> DEFINE x == h.position[1]
               y == h.position[2]
               u == k.position[1]
               v == k.position[2]
               p == pre.physical
    <3>1. /\ x \in Int /\ y \in Int
          /\ Scaled(Across(h.mode, h.transform), ScaleIn(p, h.scale)) \in Int
          /\ Scaled(IF SwapsAxes(h.transform) THEN h.mode.w ELSE h.mode.h,
                    ScaleIn(p, h.scale)) \in Int
      BY <1>1, AroundWithin
    <3>2. /\ u \in Int /\ v \in Int
          /\ Scaled(Across(k.mode, k.transform), ScaleIn(p, k.scale)) \in Int
          /\ Scaled(IF SwapsAxes(k.transform) THEN k.mode.w ELSE k.mode.h,
                    ScaleIn(p, k.scale)) \in Int
      BY <1>1, AroundWithin
    <3>3. Overlap(Frame(p, x - dx, y - dy, h.scale, h.transform, h.mode),
                  Frame(p, u - dx, v - dy, k.scale, k.transform, k.mode))
      BY <2>4
    <3> HIDE DEF x, y, u, v, p
    <3>4. Overlap(Frame(p, x, y, h.scale, h.transform, h.mode),
                  Frame(p, u, v, k.scale, k.transform, k.mode))
      BY <3>1, <3>2, <3>3, FrameMoved
    <3> QED
      BY <3>4 DEF x, y, u, v, p
  <2>6. Overlap(Around(pre, h), Around(pre, k))
    BY <2>5, AroundIs
  <2> QED
    BY <2>3, <2>6 DEF Tidy
<1> QED
  BY <1>2, <1>7, <1>8, <1>9, <1>10

(* They fall apart only if the head is among them and touches nothing, or  *)
(* one that stays touches none of those that stay, where what goes held it.*)
SetBeside(pre, off, head) ==
    \A h \in ToSet(Shown(pre)) :
        h.name \notin off =>
            \/ \E k \in ToSet(Shown(pre)) : Around(pre, k).right > Around(pre, h).right
            \/ ~ShareRows(Around(pre, h), head)
HeldBy(pre, off) ==
    LET stay == {h \in ToSet(Shown(pre)) : h.name \notin off} IN
    \E h \in stay : /\ stay # {h}
                    /\ \A k \in stay \ {h} : ~Adjacent(Around(pre, h), Around(pre, k))

LEMMA StayNear ==
    ASSUME NEW pre, SnapOK(pre), Pictured(pre), NEW h \in ToSet(Shown(pre)),
           NEW k \in ToSet(Shown(pre)), NEW dx \in Int, NEW dy \in Int
    PROVE  Adjacent(Frame(pre.physical, h.position[1] - dx, h.position[2] - dy,
                          h.scale, h.transform, h.mode),
                    Frame(pre.physical, k.position[1] - dx, k.position[2] - dy,
                          k.scale, k.transform, k.mode))
              <=> Adjacent(Around(pre, h), Around(pre, k))
<1> DEFINE x == h.position[1]
           y == h.position[2]
           u == k.position[1]
           v == k.position[2]
           p == pre.physical
<1>1. /\ x \in Int /\ y \in Int
      /\ Scaled(Across(h.mode, h.transform), ScaleIn(p, h.scale)) \in Int
      /\ Scaled(IF SwapsAxes(h.transform) THEN h.mode.w ELSE h.mode.h,
                ScaleIn(p, h.scale)) \in Int
  BY AroundWithin
<1>2. /\ u \in Int /\ v \in Int
      /\ Scaled(Across(k.mode, k.transform), ScaleIn(p, k.scale)) \in Int
      /\ Scaled(IF SwapsAxes(k.transform) THEN k.mode.w ELSE k.mode.h,
                ScaleIn(p, k.scale)) \in Int
  BY AroundWithin
<1>3. /\ Around(pre, h) = Frame(p, x, y, h.scale, h.transform, h.mode)
      /\ Around(pre, k) = Frame(p, u, v, k.scale, k.transform, k.mode)
  BY AroundIs
<1> HIDE DEF x, y, u, v, p
<1>4. Adjacent(Frame(p, x - dx, y - dy, h.scale, h.transform, h.mode),
               Frame(p, u - dx, v - dy, k.scale, k.transform, k.mode))
         <=> Adjacent(Frame(p, x, y, h.scale, h.transform, h.mode),
                      Frame(p, u, v, k.scale, k.transform, k.mode))
  BY <1>1, <1>2, FrameMoved
<1> QED
  BY <1>3, <1>4 DEF x, y, u, v, p

LEMMA RowsIs ==
    ASSUME NEW state, Sound(state), NEW lc \in Part(state)
    PROVE  Rows(state, lc) \in Int
<1> DEFINE m == CHOOSE m \in lc.monitors : TRUE
           tall == IF SwapsAxes(lc.transform) THEN m.mode.w ELSE m.mode.h
<1>1. lc.monitors # {} /\ lc.monitors \subseteq Showing(state) /\ lc.scale \in Nat \ {0}
  BY DEF Part
<1>2. m \in Showing(state)
  BY <1>1
<1>3. m.mode \in Mode
  BY <1>2 DEF Showing
<1> HIDE DEF m
<1>4. tall \in Int
  BY <1>3 DEF Mode
<1>5. Physically(state, lc.scale) \in Nat \ {0}
  BY <1>1 DEF Physically, ScaleIn
<1>6. Rows(state, lc) = Scaled(tall, Physically(state, lc.scale))
  BY DEF Rows, m
<1> HIDE DEF tall
<1> QED
  BY <1>4, <1>5, <1>6, ScaledIs

(* Appended to what is furthest right, the head touches it if they share   *)
(* rows.                                                                   *)
LEMMA HeadTouches ==
    ASSUME NEW req, ScaleOK(req.scale), NEW pre, NEW n, n # None, NEW state,
           Familiarly(pre, n, state), NEW off, NEW at, at = AppendedAt(pre), NEW plan,
           UpPlan(plan, req, pre, n, off, at), NEW dx \in Int, NEW dy \in Int,
           NEW a, ComesAt(req, n, at, plan, state, a, dx, dy),
           NEW h \in ToSet(Shown(pre)), NEW b, StaysAs(pre, state, plan, h, b, dx, dy),
           \A k \in ToSet(Shown(pre)) : ~(Around(pre, k).right > Around(pre, h).right),
           ShareRows(Around(pre, h), Box(state, Put(plan, state, AsEnable(req, n, at))))
    PROVE  Adjacent(Box(state, b), Box(state, a)) /\ Adjacent(Box(state, a), Box(state, b))
<1> DEFINE e == AsEnable(req, n, at)
           put == Put(plan, state, e)
           wide == Scaled(Across(h.mode, h.transform), ScaleIn(pre.physical, h.scale))
           tall == Scaled(IF SwapsAxes(h.transform) THEN h.mode.w ELSE h.mode.h,
                          ScaleIn(pre.physical, h.scale))
           x == h.position[1]
           y == h.position[2]
           rows == Rows(state, put)
           edge == RightEdge(pre)
<1>1. Sound(state) /\ SnapOK(pre) /\ Pictured(pre) /\ EnableOK(e)
  BY MutterIs DEF Familiarly, UpPlan, EnablesOK
<1>2. /\ wide \in Int /\ tall \in Int /\ x \in Int /\ y \in Int /\ edge \in Int
      /\ Around(pre, h).right <= edge
      /\ \E k \in ToSet(Shown(pre)) : Around(pre, k).right = edge
  BY <1>1, AroundWithin
<1>3. Around(pre, h) = [left |-> x, right |-> x + wide, top |-> y, bottom |-> y + tall]
  BY AroundIs DEF Frame
<1>4. Box(state, b) = [left |-> x - dx, right |-> x - dx + wide,
                       top |-> y - dy, bottom |-> y - dy + tall]
  BY DEF StaysAs, Frame
<1>5. at[1] = edge /\ at[2] = 0 /\ at \in Int \X Int
  BY <1>2 DEF AppendedAt
<1>6. put.x = edge /\ put.y = 0
  <2>1. NewLies(req, n, at, plan, state)
    BY <1>5, PutNew
  <2> QED
    BY <1>5, <2>1 DEF NewLies
<1>7. rows \in Int
  <2> DEFINE was == LogicalOf(state, e.name)
  <2>1. Lightable(state, e)
    BY DEF ComesAt
  <2>2. put \in Part(state)
    <3> HIDE DEF e
    <3> QED
      BY <1>1, <2>1, PutIs
  <2> HIDE DEF put
  <2> QED
    BY <1>1, <2>2, RowsIs
<1>8. a = Shifted(put, dx, dy)
  BY DEF ComesAt
<1> HIDE DEF put, wide, tall, x, y, edge, e
<1>9. /\ a.x = edge - dx /\ a.y = 0 - dy /\ a.scale = put.scale
      /\ a.transform = put.transform /\ a.monitors = put.monitors
  BY <1>6, <1>8 DEF Shifted
<1>10. Rows(state, a) = rows
  BY <1>9 DEF Rows
<1>11. /\ Box(state, a).left = edge - dx /\ Box(state, a).top = 0 - dy
       /\ Box(state, a).bottom = (0 - dy) + rows
  BY <1>9, <1>10 DEF Box
<1>12. Box(state, put).top = 0 /\ Box(state, put).bottom = 0 + rows
  BY <1>6 DEF Box
<1> HIDE DEF rows
<1>13. ShareRows(Around(pre, h), Box(state, put))
  BY DEF put, e
<1>14. x + wide = edge
  <2>1. PICK k \in ToSet(Shown(pre)) : Around(pre, k).right = edge
    BY <1>2
  <2>2. ~(edge > Around(pre, h).right)
    BY <2>1
  <2>3. Around(pre, h).right = x + wide
    BY <1>3
  <2> QED
    BY <1>2, <2>2, <2>3
<1>15. Box(state, b).right = Box(state, a).left
  BY <1>2, <1>4, <1>11, <1>14
<1>16. ShareRows(Box(state, b), Box(state, a)) /\ ShareRows(Box(state, a), Box(state, b))
  <2>1. y < rows /\ 0 < y + tall
    BY <1>2, <1>3, <1>7, <1>12, <1>13 DEF ShareRows
  <2>2. /\ Box(state, b).top = y - dy /\ Box(state, b).bottom = y - dy + tall
    BY <1>4
  <2> QED
    BY <1>2, <1>7, <1>11, <2>1, <2>2 DEF ShareRows
<1> QED
  BY <1>15, <1>16 DEF Adjacent

LEMMA UpTouch ==
    ASSUME NEW req, ScaleOK(req.scale), NEW pre, NEW n, n # None, NEW state,
           Familiarly(pre, n, state), n \notin Names(pre.heads), NEW off, NEW at, NEW plan,
           UpPlan(plan, req, pre, n, off, at), state.physical = pre.physical,
           AllTouch(pre), ~Mirrors(pre),
           at = AppendedAt(pre) \/ \A h \in ToSet(Shown(pre)) : h.name \in off,
           ~NoneApart(state, ToMutterConfig(plan, state))
    PROVE  \/ /\ Lightable(state, AsEnable(req, n, at))
              /\ SetBeside(pre, off, Box(state, Put(plan, state, AsEnable(req, n, AppendedAt(pre)))))
           \/ off # {} /\ HeldBy(pre, off)
<1> DEFINE config == ToMutterConfig(plan, state)
           S == ToSet(Shown(pre))
           stay == {h \in S : h.name \notin off}
           head == Box(state, Put(plan, state, AsEnable(req, n, AppendedAt(pre))))
           Here(h, lc, dx, dy) == StaysAs(pre, state, plan, h, lc, dx, dy)
           There(lc, dx, dy) == ComesAt(req, n, at, plan, state, lc, dx, dy)
           Out(h) == \/ \E k \in S : Around(pre, k).right > Around(pre, h).right
                     \/ ~ShareRows(Around(pre, h), head)
<1>1. SnapOK(pre) /\ Pictured(pre)
  BY DEF Familiarly
<1>2. config # {}
  BY DEF NoneApart
<1>3. PICK dx \in Int, dy \in Int :
         /\ \A lc \in config : There(lc, dx, dy) \/ \E h \in stay : Here(h, lc, dx, dy)
         /\ \A h \in stay : \E lc \in config : Here(h, lc, dx, dy)
  BY <1>2, UpSpots DEF StaysAt
<1>4. PICK a \in config : /\ config # {a}
                          /\ \A b \in config : b # a => ~Adjacent(Box(state, a), Box(state, b))
  BY DEF NoneApart
<1> HIDE DEF config, head
<1>5. ASSUME NEW h \in S, NEW b, Here(h, b, dx, dy), NEW lc, There(lc, dx, dy)
      PROVE  b # lc
  <2>1. h \in ToSet(pre.heads)
    BY <1>1, ShownSet
  <2>2. h.name # n
    BY <2>1, NamesAre
  <2>3. PICK m : b.monitors = {m} /\ m.name = h.name
    BY <1>5 DEF StaysAs
  <2>4. PICK o : lc.monitors = {o} /\ o.name = n
    BY <1>5 DEF ComesAt
  <2> QED
    BY <2>2, <2>3, <2>4
<1>6. ASSUME NEW h \in stay, NEW b, Here(h, b, dx, dy), NEW lc, There(lc, dx, dy), ~Out(h)
      PROVE  Adjacent(Box(state, b), Box(state, lc)) /\ Adjacent(Box(state, lc), Box(state, b))
  <2>1. at = AppendedAt(pre)
    OBVIOUS
  <2>2. ShareRows(Around(pre, h), Box(state, Put(plan, state, AsEnable(req, n, at))))
    BY <1>6, <2>1 DEF head
  <2> QED
    BY <1>6, <2>1, <2>2, HeadTouches
<1>7. ASSUME NEW lc, There(lc, dx, dy) PROVE Lightable(state, AsEnable(req, n, at))
  BY <1>7 DEF ComesAt
<1>8. CASE There(a, dx, dy)
  <2>1. ASSUME NEW h \in stay PROVE Out(h)
    <3>1. PICK b \in config : Here(h, b, dx, dy)
      BY <1>3
    <3>2. b # a
      BY <1>5, <1>8, <3>1
    <3> QED
      BY <1>4, <1>6, <1>8, <3>1, <3>2
  <2>2. SetBeside(pre, off, head)
    BY <2>1 DEF SetBeside
  <2> QED
    BY <1>7, <1>8, <2>2 DEF head
<1>9. CASE \E h \in stay : Here(h, a, dx, dy)
  <2>1. PICK h \in stay : Here(h, a, dx, dy)
    BY <1>9
  <2>2. ASSUME NEW k \in stay \ {h}, Adjacent(Around(pre, h), Around(pre, k)) PROVE FALSE
    <3>1. PICK b \in config : Here(k, b, dx, dy)
      BY <1>3
    <3>2. Adjacent(Box(state, a), Box(state, b))
      <4>1. /\ Box(state, a) = Frame(pre.physical, h.position[1] - dx, h.position[2] - dy,
                                     h.scale, h.transform, h.mode)
            /\ Box(state, b) = Frame(pre.physical, k.position[1] - dx, k.position[2] - dy,
                                     k.scale, k.transform, k.mode)
        BY <2>1, <3>1 DEF StaysAs
      <4> QED
        BY <1>1, <2>2, <4>1, StayNear
    <3>3. a # b
      <4>1. h.position # k.position
        BY <2>2 DEF Mirrors
      <4>2. h.position \in Int \X Int /\ k.position \in Int \X Int
        BY <1>1, ShownLively DEF Lively
      <4>3. /\ Box(state, a).left = h.position[1] - dx /\ Box(state, a).top = h.position[2] - dy
            /\ Box(state, b).left = k.position[1] - dx /\ Box(state, b).top = k.position[2] - dy
        BY <2>1, <3>1 DEF StaysAs, Frame
      <4>4. h.position[1] # k.position[1] \/ h.position[2] # k.position[2]
        BY <4>1, <4>2
      <4>5. Box(state, a) # Box(state, b)
        BY <4>2, <4>3, <4>4
      <4> QED
        BY <4>5
    <3> QED
      BY <1>4, <3>1, <3>2, <3>3
  <2>3. CASE stay = {h}
    <3>1. PICK c \in config : c # a
      BY <1>4
    <3>2. There(c, dx, dy)
      <4>1. ~Here(h, c, dx, dy)
        BY <2>1, <3>1 DEF StaysAs
      <4> QED
        BY <1>3, <2>3, <4>1
    <3>3. ~Adjacent(Box(state, a), Box(state, c))
      BY <1>4, <3>1
    <3>4. Out(h)
      BY <1>6, <2>1, <3>2, <3>3
    <3>5. SetBeside(pre, off, head)
      BY <2>3, <3>4 DEF SetBeside
    <3> QED
      BY <1>7, <3>2, <3>5 DEF head
  <2>4. CASE stay # {h}
    <3>1. HeldBy(pre, off)
      BY <2>2, <2>4 DEF HeldBy
    <3>2. off # {}
      <4> SUFFICES ASSUME off = {} PROVE FALSE
        OBVIOUS
      <4>1. stay = S
        OBVIOUS
      <4>2. \E k \in S : k # h /\ Adjacent(Around(pre, h), Around(pre, k))
        BY <2>4, <4>1 DEF AllTouch
      <4> QED
        BY <2>2, <4>1, <4>2
    <3> QED
      BY <3>1, <3>2
  <2> QED
    BY <2>3, <2>4
<1> QED
  BY <1>3, <1>8, <1>9

(* Which of the parts is the primary.                                      *)
LEMMA UpLights ==
    ASSUME NEW req, ScaleOK(req.scale), NEW pre, NEW n, NEW state, Familiarly(pre, n, state),
           NEW off, NEW at, NEW plan, UpPlan(plan, req, pre, n, off, at),
           NEW e \in ToSet(plan.enables), Lightable(state, e)
    PROVE  \E lc \in ToMutterConfig(plan, state) : \E m \in lc.monitors : m.name = e.name
<1> DEFINE lit == {k \in ToSet(plan.enables) : Lightable(state, k)}
           config == ToMutterConfig(plan, state)
<1>1. Sound(state) /\ EnablesOK(plan.enables) /\ EnableOK(e)
  BY MutterIs DEF Familiarly, UpPlan, EnablesOK
<1>2. config # {}
  BY <1>1, NotEmpty
<1>3. PICK dx \in Int, dy \in Int : config = {Shifted(Put(plan, state, k), dx, dy) : k \in lit}
  BY <1>2, UpLaid
<1> HIDE DEF config
<1>4. \E m : Put(plan, state, e).monitors = {m} /\ m.name = e.name
  <2> DEFINE put == Put(plan, state, e)
             was == LogicalOf(state, e.name)
  <2>1. /\ put \in Part(state) /\ \E m : put.monitors = {m} /\ m.name = e.name
        /\ put.primary <=> IF plan.primary # None THEN plan.primary = e.name
                           ELSE was # None /\ was.primary
    BY <1>1, PutIs
  <2> HIDE DEF put
  <2> QED
    BY <2>1 DEF put
<1>5. Shifted(Put(plan, state, e), dx, dy) \in config
  BY <1>3
<1>6. Shifted(Put(plan, state, e), dx, dy).monitors = Put(plan, state, e).monitors
  BY DEF Shifted
<1>7. \E m \in Shifted(Put(plan, state, e), dx, dy).monitors : m.name = e.name
  BY <1>4, <1>6
<1> QED
  BY <1>5, <1>7 DEF config

LEMMA OneNamed ==
    ASSUME NEW state, NEW config, ConfigOK(state, config), NEW a,
           \A lc \in config : \E m : lc.monitors = {m} /\ (lc.primary <=> m.name = a),
           \E lc \in config : \E m \in lc.monitors : m.name = a
    PROVE  OneMain(config)
<1>1. PICK main \in config : \E m \in main.monitors : m.name = a
  OBVIOUS
<1>2. ASSUME NEW lc \in config PROVE lc.primary <=> lc = main
  <2>1. PICK m : lc.monitors = {m} /\ (lc.primary <=> m.name = a)
    OBVIOUS
  <2>2. PICK k \in main.monitors : k.name = a
    BY <1>1
  <2>3. ASSUME m.name = a PROVE lc = main
    BY <2>1, <2>2, <2>3 DEF ConfigOK, Once1
  <2>4. ASSUME lc = main PROVE m.name = a
    BY <2>1, <2>2, <2>4
  <2> QED
    BY <2>1, <2>3, <2>4
<1> QED
  BY <1>2 DEF OneMain

(* The only monitor of the only primary.                                   *)
LEMMA OnlyPrimary ==
    ASSUME NEW state, OneMain(state.logical), Lonely(state), state.logical # {}
    PROVE  \E p : Primary(state) = {p} /\ p \in LitNames(state)
<1>1. PICK main \in state.logical : \A lm \in state.logical : lm.primary <=> lm = main
  BY DEF OneMain
<1>2. PICK p : main.monitors = {p}
  BY DEF Lonely
<1>3. \A x : x \in Primary(state) <=> x = p
  BY <1>1, <1>2, PrimaryHas
<1>4. Primary(state) = {p}
  BY <1>3
<1> QED
  BY <1>2, <1>4 DEF LitNames

LEMMA UpMain ==
    ASSUME NEW req, ScaleOK(req.scale), NEW pre, NEW n, n # None, NEW state,
           Familiarly(pre, n, state), n \notin Names(pre.heads),
           NEW off, NEW at, NEW plan, UpPlan(plan, req, pre, n, off, at),
           plan.primary \in {n, None},
           OneMain(state.logical), Ahead(pre, state), Second(pre, n, state),
           ~Mirrors(pre), ~Headless(pre),
           plan.primary = n => Lightable(state, AsEnable(req, n, at)),
           plan.primary = None => ~(Primary(state) \subseteq off)
    PROVE  OneMain(ToMutterConfig(plan, state))
<1> DEFINE config == ToMutterConfig(plan, state)
<1>1. Sound(state) /\ SnapOK(pre) /\ Pictured(pre)
  BY MutterIs DEF Familiarly
<1> SUFFICES ASSUME config # {} PROVE OneMain(config)
  BY DEF OneMain
<1>2. ConfigOK(state, config)
  BY UpLaid
<1>3. \A lc \in config : \E e \in ToSet(plan.enables) :
         /\ \E m : lc.monitors = {m} /\ m.name = e.name
         /\ lc.primary <=> IF plan.primary # None THEN plan.primary = e.name
                           ELSE e.name \in Primary(state)
  BY UpParts
<1>4. \A e \in ToSet(plan.enables) : Lightable(state, e) =>
         \E lc \in config : \E m \in lc.monitors : m.name = e.name
  BY UpLights
<1> HIDE DEF config
<1>5. ASSUME NEW a,
             \A lc \in config : \E m : lc.monitors = {m} /\ (lc.primary <=> m.name = a),
             NEW e \in ToSet(plan.enables), Lightable(state, e), e.name = a
      PROVE  OneMain(config)
  <2>1. \E lc \in config : \E m \in lc.monitors : m.name = a
    BY <1>4, <1>5
  <2> QED
    BY <1>2, <1>5, <2>1, OneNamed
<1>6. CASE plan.primary = n
  <2>1. /\ AsEnable(req, n, at) \in ToSet(plan.enables)
        /\ Lightable(state, AsEnable(req, n, at)) /\ AsEnable(req, n, at).name = n
    BY <1>6 DEF UpPlan, AsEnable
  <2>2. ASSUME NEW lc \in config
        PROVE  \E m : lc.monitors = {m} /\ (lc.primary <=> m.name = n)
    BY <1>3, <1>6
  <2> QED
    BY <1>5, <2>1, <2>2
<1>7. CASE plan.primary = None
  <2>1. PICK p : Primary(state) = {p} /\ p \in LitNames(state)
    BY OnlyPrimary DEF Ahead
  <2>2. p # n /\ p \notin off
    BY <1>7, <2>1 DEF Second
  <2>3. p \in Names(Shown(pre))
    BY <2>1, <2>2 DEF Familiarly
  <2>4. PICK h \in ToSet(Shown(pre)) : h.name = p
    BY <2>3, NamesAre
  <2>5. AsEnabled(h) \in ToSet(plan.enables) /\ AsEnabled(h).name = p
    BY <2>2, <2>4 DEF UpPlan, Keeping, AsEnabled
  <2>6. Lightable(state, AsEnabled(h))
    <3>1. HeadOK(h) /\ Lively(h) /\ Recalled(h, state)
      BY <1>1, ShownLively DEF Familiarly
    <3> QED
      BY <1>1, <3>1, PutKept
  <2>7. ASSUME NEW lc \in config
        PROVE  \E m : lc.monitors = {m} /\ (lc.primary <=> m.name = p)
    BY <1>3, <1>7, <2>1
  <2> QED
    BY <1>5, <2>5, <2>6, <2>7
<1> QED
  BY <1>6, <1>7 DEF config

(* What Mutter has against it.                                             *)
LEMMA UpAgainst ==
    ASSUME NEW req, ScaleOK(req.scale), NEW pre, NEW n, n # None, NEW state,
           Familiarly(pre, n, state), n \notin Names(pre.heads),
           state.physical = pre.physical, Tidy(pre), OneMain(state.logical),
           Ahead(pre, state), Second(pre, n, state),
           NEW off, NEW at, NEW plan, UpPlan(plan, req, pre, n, off, at),
           plan.primary \in {n, None},
           at = AppendedAt(pre) \/ \A h \in ToSet(Shown(pre)) : h.name \in off,
           NEW serial
    PROVE  LET all == Objections(state, serial, ToMutterConfig(plan, state))
               offered == Lightable(state, AsEnable(req, n, at))
           IN /\ "empty" \in all => ~offered /\ \A h \in ToSet(Shown(pre)) : h.name \in off
              /\ "primary" \in all =>
                    \/ Mirrors(pre) \/ Headless(pre) \/ (plan.primary = n /\ ~offered)
                    \/ plan.primary = None /\ Primary(state) \subseteq off /\ off # {}
              /\ "overlap" \in all => Mirrors(pre)
              /\ "offset" \notin all
<1> DEFINE config == ToMutterConfig(plan, state)
           all == Objections(state, serial, config)
           offered == Lightable(state, AsEnable(req, n, at))
<1>1. Sound(state) /\ SnapOK(pre) /\ Pictured(pre) /\ EnablesOK(plan.enables)
  BY MutterIs DEF Familiarly, UpPlan
<1>2. ConfigOK(state, config)
  BY <1>1, ConfigIs
<1>3. IsFiniteSet(config) /\ \A lc \in config : lc.primary \in BOOLEAN
  BY <1>2 DEF ConfigOK, Part
<1>4. /\ "empty" \in all <=> config = {}
      /\ "overlap" \in all <=> ~NoOverlap(state, config)
      /\ "offset" \in all <=> ~AtOrigin(config)
      /\ "primary" \in all <=> ~OneMain(config)
  <2> HIDE DEF config
  <2> QED
    BY <1>3, ObjectedIs
<1>5. ASSUME config = {}
      PROVE  ~offered /\ \A h \in ToSet(Shown(pre)) : h.name \in off
  <2>1. \A e \in ToSet(plan.enables) : ~Lightable(state, e)
    BY <1>1, <1>5, NotEmpty
  <2>2. ~offered
    BY <2>1 DEF UpPlan
  <2>3. ASSUME NEW h \in ToSet(Shown(pre)), h.name \notin off PROVE FALSE
    <3>1. AsEnabled(h) \in ToSet(plan.enables)
      BY <2>3 DEF UpPlan, Keeping
    <3>2. HeadOK(h) /\ Lively(h) /\ Recalled(h, state)
      BY <1>1, ShownLively DEF Familiarly
    <3>3. Lightable(state, AsEnabled(h))
      BY <1>1, <3>2, PutKept
    <3> QED
      BY <2>1, <3>1, <3>3
  <2> QED
    BY <2>2, <2>3
<1>6. AtOrigin(config)
  <2>1. CASE config = {}
    BY <2>1 DEF AtOrigin
  <2>2. CASE config # {}
    BY <2>2, UpLaid
  <2> QED
    BY <2>1, <2>2
<1>7. ASSUME ~Mirrors(pre) PROVE NoOverlap(state, config)
  <2>1. CASE config = {}
    BY <2>1 DEF NoOverlap
  <2>2. CASE config # {}
    BY <1>7, <2>2, UpApart
  <2> QED
    BY <2>1, <2>2
<1>8. ASSUME ~OneMain(config), ~Mirrors(pre), ~Headless(pre)
      PROVE  \/ plan.primary = n /\ ~offered
             \/ plan.primary = None /\ Primary(state) \subseteq off /\ off # {}
  <2>1. PICK p : Primary(state) = {p}
    BY <1>8, OnlyPrimary DEF Ahead
  <2> SUFFICES ASSUME plan.primary = n => offered,
                      plan.primary = None => ~(Primary(state) \subseteq off)
               PROVE  FALSE
    BY <2>1
  <2>2. OneMain(config)
    BY <1>8, UpMain
  <2> QED
    BY <1>8, <2>2
<1> HIDE DEF config, all, offered
<1> QED
  BY <1>4, <1>5, <1>6, <1>7, <1>8 DEF config, all, offered

-----------------------------------------------------------------------------
(* What refuses an `up` that nobody has disturbed.                         *)
NoMode(req, n, state) == ModeFor(MonitorNamed(state, n), RequestedMode(req.spec)) = None
UpReasons(refusal, req, pre, n, real, state) ==
    /\ "empty" \in refusal => NoMode(req, n, state) /\ (req.disable \/ Headless(pre))
    /\ "primary" \in refusal =>
          \/ Mirrors(pre) \/ Headless(pre)
          \/ req.disable /\ ~req.primary /\ Primary(state) \subseteq ToSet(real)
          \/ NoMode(req, n, state) /\ req.primary
    /\ "overlap" \in refusal => Mirrors(pre)
    /\ "offset" \notin refusal

LEMMA UpReasonsAre ==
    UpRefusedOnlyIf <=>
        (me.refusal # {} /\ me.phase # "restore" /\ hist.calm =>
            UpReasons(me.refusal, me.req, me.pre, me.conn, Real, mutter))
BY DEF UpRefusedOnlyIf, UpReasons, Unoffered, NoMode, PrimaryGoes

(* What it is that is refused.                                             *)
UpOff == IF me.phase = "place" THEN {} ELSE DisabledBy(me.req, Real)
UpAt == IF me.phase = "place" THEN AppendedAt(me.pre) ELSE Position(me.req, me.pre, Real)
Refusing ==
    LET n == me.conn
        pre == me.pre
        req == me.req
        plan == me.plan
    IN /\ n # None /\ ScaleOK(req.scale) /\ SnapOK(pre)
       /\ Familiarly(pre, n, mutter) /\ n \notin Names(pre.heads)
       /\ mutter.physical = pre.physical /\ Tidy(pre) /\ AllTouch(pre)
       /\ Ahead(pre, mutter) /\ Second(pre, n, mutter) /\ OneMain(mutter.logical)
       /\ UpPlan(plan, req, pre, n, UpOff, UpAt)
       /\ plan.primary = IF me.phase = "layout" /\ req.primary THEN n ELSE None
       /\ UpAt = AppendedAt(pre) \/ \A h \in ToSet(Shown(pre)) : h.name \in UpOff
       /\ UpOff # {} => me.phase = "layout" /\ req.disable /\ UpOff = ToSet(Real)
       /\ ~Lightable(mutter, AsEnable(req, n, UpAt)) <=> NoMode(req, n, mutter)
       /\ Against = Objections(mutter, mutter.serial, ToMutterConfig(plan, mutter))

LEMMA RefusedIs ==
    ASSUME TInv, IInv, WInv, HInv, Orderly, Foresees, Refused, me.phase # "restore", hist.calm
    PROVE  Refusing
<1> DEFINE n == me.conn
           pre == me.pre
           req == me.req
           plan == me.plan
           off == UpOff
           at == UpAt
<1>1. me.at = "apply" /\ me.seen = mutter
  BY DEF Refused, IInv, SeenIsNow
<1>2. me.phase \in {"place", "layout"} /\ ForUp /\ Working
  BY <1>1 DEF TInv, MeOK, ForUp, Working
<1>3. /\ n # None /\ ScaleOK(req.scale) /\ SnapOK(pre) /\ plan # None /\ MutterOK(mutter)
  BY <1>1, <1>2, NoneIsNothing DEF TInv, MeOK
<1>4. Familiarly(pre, n, mutter)
  BY <1>2, <1>3 DEF Familiarly, WInv, Remembers, Familiar, Ours
<1>5. n \notin Names(pre.heads) /\ n \in Names(mutter.monitors)
  BY <1>1, <1>2 DEF HInv, HeadOurs
<1>6. /\ mutter.physical = pre.physical /\ Tidy(pre) /\ AllTouch(pre)
      /\ Ahead(pre, mutter) /\ Second(pre, n, mutter)
  BY <1>2 DEF Foresees
<1>7. OneMain(mutter.logical)
  BY DEF Orderly, InOrder
<1>8. UpPlan(plan, req, pre, n, off, at)
  <2>1. CASE me.phase = "place"
    <3>1. plan = PlacePlan(req, pre, n)
      BY <1>1, <2>1 DEF WInv, PlanIs
    <3>2. UpPlan(plan, req, pre, n, {}, AppendedAt(pre))
      <4> HIDE DEF plan, req, pre, n
      <4> QED
        BY <1>3, <3>1, PlaceUp
    <3> QED
      BY <2>1, <3>2 DEF UpOff, UpAt
  <2>2. CASE me.phase = "layout"
    <3>1. plan = LayoutPlan(req, pre, n, Real)
      BY <1>1, <2>2 DEF WInv, PlanIs
    <3>2. UpPlan(plan, req, pre, n, DisabledBy(req, Real), Position(req, pre, Real))
      <4> HIDE DEF plan, req, pre, n
      <4> QED
        BY <1>3, <3>1, LayoutUp
    <3> QED
      BY <2>2, <3>2 DEF UpOff, UpAt
  <2> QED
    BY <1>2, <2>1, <2>2
<1>9. plan.primary = IF me.phase = "layout" /\ req.primary THEN n ELSE None
  <2>1. CASE me.phase = "place"
    <3>1. plan = PlacePlan(req, pre, n)
      BY <1>1, <2>1 DEF WInv, PlanIs
    <3>2. plan.primary = None
      <4> HIDE DEF plan, req, pre, n
      <4> QED
        BY <1>3, <3>1, PlaceIs
    <3> QED
      BY <2>1, <3>2
  <2>2. CASE me.phase = "layout"
    <3>1. plan = LayoutPlan(req, pre, n, Real)
      BY <1>1, <2>2 DEF WInv, PlanIs
    <3>2. plan.primary = IF req.primary THEN n ELSE None
      <4> HIDE DEF plan, req, pre, n
      <4> QED
        BY <1>3, <3>1, LayoutIs
    <3> QED
      BY <2>2, <3>2
  <2> QED
    BY <1>2, <2>1, <2>2
<1>10. at = AppendedAt(pre) \/ \A h \in ToSet(Shown(pre)) : h.name \in off
  <2>1. ASSUME me.phase # "place", at # AppendedAt(pre), NEW h \in ToSet(Shown(pre))
        PROVE  h.name \in off
    <3>1. req.disable /\ EnabledNames(pre) \subseteq ToSet(Real)
      BY <2>1 DEF Position, UpAt
    <3>2. h.name \in EnabledNames(pre)
      BY <1>3, ShownSet DEF EnabledNames
    <3> QED
      BY <2>1, <3>1, <3>2 DEF DisabledBy, UpOff
  <2> QED
    BY <2>1 DEF UpAt
<1>11. off # {} => me.phase = "layout" /\ req.disable /\ off = ToSet(Real)
  BY <1>2 DEF DisabledBy, UpOff
<1> DEFINE offered == Lightable(mutter, AsEnable(req, n, at))
<1>12. ~offered <=> NoMode(req, n, mutter)
  <2>1. MonitorNamed(mutter, n) # None
    <3>1. IsSeq(mutter.monitors) /\ \A i \in DOMAIN mutter.monitors : mutter.monitors[i] \in Monitor
      BY MutterSound, StateHas
    <3>2. \E i \in DOMAIN mutter.monitors : MonitorNamed(mutter, n) = mutter.monitors[i]
      BY <1>5, <3>1, MonitorIs
    <3> QED
      BY <3>1, <3>2, NoneIsNothing
  <2> QED
    BY <2>1 DEF Lightable, NoMode, AsEnable
<1> HIDE DEF n, pre, req, plan, off, at
<1>13. Against = Objections(mutter, mutter.serial, ToMutterConfig(plan, mutter))
  BY <1>1 DEF Against, Asked, plan
<1> QED
  BY <1>3, <1>4, <1>5, <1>6, <1>7, <1>8, <1>9, <1>10, <1>11, <1>12, <1>13
     DEF Refusing, n, pre, req, plan, off, at

LEMMA UpRefusedAs ==
    ASSUME Refusing
    PROVE  UpReasons(Against, me.req, me.pre, me.conn, Real, mutter)
<1> DEFINE n == me.conn
           pre == me.pre
           req == me.req
           plan == me.plan
           off == UpOff
           at == UpAt
           offered == Lightable(mutter, AsEnable(req, n, at))
           all == Objections(mutter, mutter.serial, ToMutterConfig(plan, mutter))
<1>1. /\ n # None /\ ScaleOK(req.scale) /\ SnapOK(pre)
      /\ Familiarly(pre, n, mutter) /\ n \notin Names(pre.heads)
      /\ mutter.physical = pre.physical /\ Tidy(pre)
      /\ Ahead(pre, mutter) /\ Second(pre, n, mutter) /\ OneMain(mutter.logical)
      /\ UpPlan(plan, req, pre, n, off, at)
      /\ at = AppendedAt(pre) \/ \A h \in ToSet(Shown(pre)) : h.name \in off
  BY DEF Refusing
<1>2. /\ plan.primary = IF me.phase = "layout" /\ req.primary THEN n ELSE None
      /\ off # {} => me.phase = "layout" /\ req.disable /\ off = ToSet(Real)
      /\ ~offered <=> NoMode(req, n, mutter)
      /\ Against = all
  BY DEF Refusing
<1> HIDE DEF n, pre, req, plan, off, at, offered
<1>3. /\ "empty" \in all => ~offered /\ \A h \in ToSet(Shown(pre)) : h.name \in off
      /\ "primary" \in all =>
            \/ Mirrors(pre) \/ Headless(pre) \/ (plan.primary = n /\ ~offered)
            \/ plan.primary = None /\ Primary(mutter) \subseteq off /\ off # {}
      /\ "overlap" \in all => Mirrors(pre)
      /\ "offset" \notin all
  <2>1. plan.primary \in {n, None}
    BY <1>2
  <2> QED
    BY <1>1, <2>1, UpAgainst DEF offered
<1> HIDE DEF all
<1>4. ASSUME "empty" \in all PROVE req.disable \/ Headless(pre)
  <2>1. CASE ToSet(Shown(pre)) = {}
    BY <1>1, <2>1, HeadlessIs
  <2>2. CASE ToSet(Shown(pre)) # {}
    BY <1>2, <1>3, <1>4, <2>2
  <2> QED
    BY <2>1, <2>2
<1>5. UpReasons(all, req, pre, n, Real, mutter)
  BY <1>1, <1>2, <1>3, <1>4 DEF UpReasons
<1> QED
  BY <1>2, <1>5 DEF n, pre, req

(* A refusal ends an `up`, and `down` goes on with it.                     *)
Ended == me.refusal # {} => \/ me.at = "failed"
                            \/ me.at \in {"unplug", "gone", "destroy"} /\ me.phase = "restore"

LEMMA StepEnded ==
    ASSUME TInv, IInv, Ended, [Next]_vars
    PROVE  Ended'
<1> USE DEF Ended
<1>0. DOMAIN me = Fields
  BY DEF TInv, MeOK
<1>1. CASE UNCHANGED me
  BY <1>1
<1>2. CASE RunUp
  BY <1>2 DEF RunUp, Idle
<1>3. CASE Create
  <2>1. me.at = "create" /\ me'.at \in {"await", "idle"}
    BY <1>3, CreateAs DEF Create, Idle
  <2>2. me.refusal = {}
    BY <2>1 DEF Ended
  <2>3. CASE me' = Idle
    BY <2>3 DEF Idle
  <2>4. CASE me' # Idle
    <3>1. me' = [me EXCEPT !.at = "await", !.conn = Min(Free)]
      BY <1>3, <2>4, CreateAs
    <3> QED
      BY <1>0, <2>2, <3>1 DEF Fields
  <2> QED
    BY <2>3, <2>4
<1>4. CASE Await
  BY <1>0, <1>4 DEF Await, Applies, Fields
<1>5. CASE PlanLayout
  BY <1>0, <1>5 DEF PlanLayout, Applies, Fields
<1>6. CASE Refresh
  BY <1>0, <1>6 DEF Refresh, Fields
<1>7. CASE Apply
  BY <1>0, <1>7 DEF Apply, Fields
<1>8. CASE Refused
  BY <1>0, <1>8 DEF Refused, Fields
<1>9. CASE Return \/ Destroy
  BY <1>9 DEF Return, Destroy, Idle
<1>10. CASE RunDown
  BY <1>0, <1>10 DEF RunDown, Applies, Fields, IInv, IdleIsClean
<1>11. CASE Unplug \/ Gone
  BY <1>0, <1>11 DEF Unplug, Gone, Fields
<1>12. CASE \E c \in Conn : HeadAppears(c) \/ HeadGoes(c)
  BY <1>1, <1>12 DEF HeadAppears, HeadGoes
<1>13. CASE UserChanges \/ AllOver
  BY <1>1, <1>13 DEF UserChanges, AllOver, vars
<1> QED
  BY <1>1, <1>2, <1>3, <1>4, <1>5, <1>6, <1>7, <1>8, <1>9, <1>10, <1>11, <1>12, <1>13
     DEF Next, vars

(* Nobody changes anything between a refusal and the end of an `up` that   *)
(* is not disturbed.                                                       *)
LEMMA LeftRefused ==
    ASSUME TInv, IInv, Ended, [Next]_vars, ~Refused,
           me'.refusal # {}, me'.phase # "restore", hist'.calm
    PROVE  hist.calm /\ UNCHANGED <<mutter, me, recs>>
<1>0. DOMAIN me = Fields
  BY DEF TInv, MeOK
<1>1. me'.at = "failed"
  BY StepEnded DEF Ended
<1>2. CASE UNCHANGED <<mutter, me, recs, hist>>
  BY <1>2
<1>3. CASE \E c \in Conn : HeadAppears(c)
  <2>1. PICK c \in Conn : HeadAppears(c)
    BY <1>3
  <2>2. me.at = "await" /\ me' = me
    BY <2>1, AppearsCalmly, AppearsAs DEF IInv, Shapes
  <2> QED
    BY <1>1, <2>2
<1>4. CASE \E c \in Conn : HeadGoes(c)
  <2>1. PICK c \in Conn : devs[c] # None /\ ~devs[c].plugged /\ me' = me
    BY <1>4 DEF HeadGoes
  <2> QED
    BY <1>1, <2>1 DEF IInv, UnplugOnlyInDown, Leaving
<1>5. CASE UserChanges
  <2>1. hist' = [hist EXCEPT !.calm = FALSE, !.clean = FALSE]
    BY <1>5 DEF UserChanges
  <2> QED
    BY <2>1 DEF IInv, Shapes
<1>6. CASE RunUp \/ Create
  <2>1. me'.at \in {"create", "await", "idle"}
    BY <1>6, RunUpAs, CreateAs DEF Idle
  <2> QED
    BY <1>1, <2>1
<1>7. CASE Await \/ PlanLayout
  <2>1. me.at # "failed" /\ me.refusal = {} /\ me'.refusal = me.refusal
    BY <1>0, <1>7 DEF Await, PlanLayout, Applies, Fields, Ended
  <2> QED
    BY <2>1
<1>8. CASE Refresh
  <2>1. me'.at = "apply"
    BY <1>0, <1>8 DEF Refresh, Fields
  <2> QED
    BY <1>1, <2>1
<1>9. CASE Apply
  <2>1. me'.at \in {"layout", "check", "unplug"}
    BY <1>9, ApplyAs
  <2> QED
    BY <1>1, <2>1
<1>10. CASE Return \/ Destroy
  <2>1. me'.at = "idle"
    BY <1>10 DEF Return, Destroy, Idle
  <2> QED
    BY <1>1, <2>1
<1>11. CASE RunDown
  <2>1. me'.at \in {"unplug", "refresh"}
    BY <1>0, <1>11 DEF RunDown, Applies, Fields
  <2> QED
    BY <1>1, <2>1
<1>12. CASE Unplug \/ Gone
  <2>1. me'.at \in {"gone", "destroy"}
    BY <1>0, <1>12 DEF Unplug, Gone, Fields
  <2> QED
    BY <1>1, <2>1
<1> QED
  BY <1>2, <1>3, <1>4, <1>5, <1>6, <1>7, <1>8, <1>9, <1>10, <1>11, <1>12
     DEF Next, vars, AllOver

LEMMA StepUpRefused ==
    ASSUME TInv, IInv, WInv, HInv, Orderly, Foresees, Ended, UpRefusedOnlyIf, [Next]_vars
    PROVE  UpRefusedOnlyIf'
<1>1. SUFFICES ASSUME me'.refusal # {}, me'.phase # "restore", hist'.calm
               PROVE  UpReasons(me'.refusal, me'.req, me'.pre, me'.conn, Real', mutter')
  BY UpReasonsAre DEF UpRefusedOnlyIf, UpReasons, Unoffered, NoMode, PrimaryGoes
<1>2. CASE Refused
  <2>1. DOMAIN me = Fields /\ "calm" \in DOMAIN hist
    BY DEF TInv, MeOK, IInv, Shapes
  <2>2. /\ me' = [me EXCEPT !.at = IF me.phase = "restore" THEN "unplug" ELSE "failed",
                            !.seen = None, !.refusal = Against]
        /\ hist' = [hist EXCEPT !.obeyed = FALSE]
        /\ mutter' = mutter /\ recs' = recs
    BY <1>2 DEF Refused
  <2> HIDE DEF Against
  <2>3. /\ me'.refusal = Against /\ me'.req = me.req /\ me'.pre = me.pre
        /\ me'.conn = me.conn /\ me'.phase = me.phase
    BY <2>1, <2>2 DEF Fields
  <2>4. hist.calm
    BY <1>1, <2>1, <2>2
  <2>5. Real' = Real
    BY <2>2, <2>3 DEF Real, Owned
  <2>6. UpReasons(Against, me.req, me.pre, me.conn, Real, mutter)
    BY <1>1, <1>2, <2>3, <2>4, RefusedIs, UpRefusedAs
  <2> QED
    BY <2>2, <2>3, <2>5, <2>6
<1>3. CASE ~Refused
  <2>1. hist.calm /\ mutter' = mutter /\ me' = me /\ recs' = recs
    BY <1>1, <1>3, LeftRefused
  <2>2. UpReasons(me.refusal, me.req, me.pre, me.conn, Real, mutter)
    BY <1>1, <2>1, UpReasonsAre
  <2>3. Real' = Real
    BY <2>1 DEF Real, Owned
  <2> QED
    BY <2>1, <2>2, <2>3
<1> QED
  BY <1>2, <1>3

(* Mutter refuses an `up` whose session nobody else touches only for what  *)
(* the request or the desk is: a head without the mode asked for, the      *)
(* primary turned off with no other named, monitors that mirror each       *)
(* other, or a desk with no output on; never for the place of what plans   *)
(* make of a layout in order, whatever the layout, the request and the way *)
(* Mutter has received the head.                                           *)
THEOREM UpIsRefusedOnlyIf == Spec => []UpRefusedOnlyIf
<1>1. Init => Ended /\ UpRefusedOnlyIf
  BY DEF Init, Idle, Ended, UpRefusedOnlyIf
<1>2. TInv /\ IInv /\ Ended /\ [Next]_vars => Ended'
  BY StepEnded
<1>3. TInv /\ IInv /\ WInv /\ HInv /\ Orderly /\ Foresees /\ Ended /\ UpRefusedOnlyIf
      /\ [Next]_vars => UpRefusedOnlyIf'
  BY StepUpRefused
<1> QED
  BY <1>1, <1>2, <1>3, AlwaysForesees, PTL DEF Spec
-----------------------------------------------------------------------------
(* What makes an `up` that nobody has disturbed fall apart.                *)
ComingAs(plan, req, pre, n, state) ==
    Box(state, Submitted(plan, state, {}, AsEnable(req, n, AppendedAt(pre))))
OffAs(phase, req, real) == IF phase = "place" THEN {} ELSE DisabledBy(req, real)
ApartReasons(phase, plan, req, pre, n, real, state) ==
    \/ Mirrors(pre)
    \/ /\ ~NoMode(req, n, state)
       /\ SetBeside(pre, OffAs(phase, req, real), ComingAs(plan, req, pre, n, state))
    \/ phase = "layout" /\ req.disable /\ HeldBy(pre, OffAs(phase, req, real))

LEMMA ApartReasonsAre ==
    (Mirrors(me.pre) \/ NoneBeside \/ HeldByOthers)
        <=> ApartReasons(me.phase, me.plan, me.req, me.pre, me.conn, Real, mutter)
<1> DEFINE off == OffAs(me.phase, me.req, Real)
           S == ToSet(Shown(me.pre))
           stay == {h \in S : h.name \notin off}
<1>1. Staying = stay
  BY DEF Staying, OffAs
<1>2. Coming = ComingAs(me.plan, me.req, me.pre, me.conn, mutter)
  BY DEF Coming, ComingAs
<1> DEFINE head == Coming
<1>3. NoneBeside <=> ~NoMode(me.req, me.conn, mutter) /\ SetBeside(me.pre, off, head)
  <2>1. Unoffered <=> NoMode(me.req, me.conn, mutter)
    BY DEF Unoffered, NoMode
  <2>2. SetBeside(me.pre, off, head) <=>
            \A h \in stay : \/ \E k \in S : Around(me.pre, k).right > Around(me.pre, h).right
                            \/ ~ShareRows(Around(me.pre, h), head)
    BY DEF SetBeside
  <2> HIDE DEF off
  <2> QED
    BY <1>1, <2>1, <2>2 DEF NoneBeside
<1>4. HeldByOthers <=> me.phase = "layout" /\ me.req.disable /\ HeldBy(me.pre, off)
  BY <1>1 DEF HeldByOthers, HeldBy
<1> HIDE DEF off, head
<1> QED
  BY <1>2, <1>3, <1>4 DEF ApartReasons, off, head

LEMMA ApartAs ==
    ASSUME Refusing, "apart" \in Against, me.phase # "restore"
    PROVE  ApartReasons(me.phase, me.plan, me.req, me.pre, me.conn, Real, mutter)
<1> DEFINE n == me.conn
           pre == me.pre
           req == me.req
           plan == me.plan
           off == UpOff
           at == UpAt
           config == ToMutterConfig(plan, mutter)
<1>1. /\ n # None /\ ScaleOK(req.scale) /\ SnapOK(pre)
      /\ Familiarly(pre, n, mutter) /\ n \notin Names(pre.heads)
      /\ mutter.physical = pre.physical /\ AllTouch(pre)
      /\ UpPlan(plan, req, pre, n, off, at)
      /\ at = AppendedAt(pre) \/ \A h \in ToSet(Shown(pre)) : h.name \in off
  BY DEF Refusing
<1>2. /\ off # {} => me.phase = "layout" /\ req.disable
      /\ ~Lightable(mutter, AsEnable(req, n, at)) <=> NoMode(req, n, mutter)
      /\ Against = Objections(mutter, mutter.serial, config)
  BY DEF Refusing
<1>3. off = OffAs(me.phase, req, Real)
  BY DEF UpOff, OffAs
<1> HIDE DEF n, pre, req, plan, off, at
<1>4. Sound(mutter) /\ EnablesOK(plan.enables)
  BY <1>1, MutterIs DEF Familiarly, UpPlan
<1>5. IsFiniteSet(config) /\ \A lc \in config : lc.primary \in BOOLEAN
  <2>1. ConfigOK(mutter, config)
    BY <1>4, ConfigIs
  <2> QED
    BY <2>1 DEF ConfigOK, Part
<1>6. ~NoneApart(mutter, config)
  <2> HIDE DEF config
  <2>1. "apart" \in Objections(mutter, mutter.serial, config) <=> ~NoneApart(mutter, config)
    BY <1>5, ObjectedIs
  <2> QED
    BY <1>2, <2>1
<1>7. ASSUME ~Mirrors(pre)
      PROVE  \/ /\ Lightable(mutter, AsEnable(req, n, at))
                /\ SetBeside(pre, off, Box(mutter, Put(plan, mutter,
                                                   AsEnable(req, n, AppendedAt(pre)))))
             \/ off # {} /\ HeldBy(pre, off)
  BY <1>1, <1>6, <1>7, UpTouch
<1>8. Box(mutter, Put(plan, mutter, AsEnable(req, n, AppendedAt(pre))))
          = ComingAs(plan, req, pre, n, mutter)
  BY DEF Put, ComingAs
<1>9. ApartReasons(me.phase, plan, req, pre, n, Real, mutter)
  BY <1>2, <1>3, <1>7, <1>8 DEF ApartReasons
<1> QED
  BY <1>9 DEF n, pre, req, plan

LEMMA StepApart ==
    ASSUME TInv, IInv, WInv, HInv, Orderly, Foresees, Ended, ApartOnlyIf, [Next]_vars
    PROVE  ApartOnlyIf'
<1>1. SUFFICES ASSUME "apart" \in me'.refusal, me'.phase # "restore", hist'.calm
               PROVE  (Mirrors(me.pre) \/ NoneBeside \/ HeldByOthers)'
  BY DEF ApartOnlyIf
<1>2. CASE Refused
  <2>1. DOMAIN me = Fields /\ "calm" \in DOMAIN hist
    BY DEF TInv, MeOK, IInv, Shapes
  <2>2. /\ me' = [me EXCEPT !.at = IF me.phase = "restore" THEN "unplug" ELSE "failed",
                            !.seen = None, !.refusal = Against]
        /\ hist' = [hist EXCEPT !.obeyed = FALSE]
        /\ mutter' = mutter /\ recs' = recs
    BY <1>2 DEF Refused
  <2> HIDE DEF Against
  <2>3. /\ me'.refusal = Against /\ me'.req = me.req /\ me'.pre = me.pre
        /\ me'.conn = me.conn /\ me'.phase = me.phase /\ me'.plan = me.plan
    BY <2>1, <2>2 DEF Fields
  <2>4. hist.calm
    BY <1>1, <2>1, <2>2
  <2>5. Real' = Real
    BY <2>2, <2>3 DEF Real, Owned
  <2>6. ApartReasons(me.phase, me.plan, me.req, me.pre, me.conn, Real, mutter)
    BY <1>1, <1>2, <2>3, <2>4, RefusedIs, ApartAs
  <2>7. Mirrors(me.pre) \/ NoneBeside \/ HeldByOthers
    BY <2>6, ApartReasonsAre
  <2> QED
    BY <2>2, <2>3, <2>5, <2>7
       DEF NoneBeside, HeldByOthers, Staying, Coming, Unoffered
<1>3. CASE ~Refused
  <2>1. hist.calm /\ mutter' = mutter /\ me' = me /\ recs' = recs
    BY <1>1, <1>3, LeftRefused
  <2>2. Mirrors(me.pre) \/ NoneBeside \/ HeldByOthers
    BY <1>1, <2>1 DEF ApartOnlyIf
  <2>3. Real' = Real
    BY <2>1 DEF Real, Owned
  <2> QED
    BY <2>1, <2>2, <2>3 DEF NoneBeside, HeldByOthers, Staying, Coming, Unoffered
<1> QED
  BY <1>2, <1>3

(* Nor does it fall apart for the place of the head: appended at the right *)
(* edge, the head touches whatever of those furthest right stays and       *)
(* reaches its rows, and what stays is as close together as it was unless  *)
(* an output between goes, or monitors mirror each other.                  *)
THEOREM UpFallsApartOnlyIf == Spec => []ApartOnlyIf
<1>1. Init => Ended /\ ApartOnlyIf
  BY DEF Init, Idle, Ended, ApartOnlyIf
<1>2. TInv /\ IInv /\ Ended /\ [Next]_vars => Ended'
  BY StepEnded
<1>3. TInv /\ IInv /\ WInv /\ HInv /\ Orderly /\ Foresees /\ Ended /\ ApartOnlyIf
      /\ [Next]_vars => ApartOnlyIf'
  BY StepApart
<1> QED
  BY <1>1, <1>2, <1>3, AlwaysForesees, PTL DEF Spec
=============================================================================
