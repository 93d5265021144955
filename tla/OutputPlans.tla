----------------------------- MODULE OutputPlans -----------------------------
(***************************************************************************)
(* Snapshots of the outputs, the plans made of them, and the builder that  *)
(* refuses some (compositor.rs); the three plans of up and down            *)
(* (lifecycle.rs).  All of it is pure and common to the adapters.          *)
(*                                                                         *)
(* An output's name is a number; a scale is in percent; a transform is     *)
(* wl_output's number.  A snapshot is [heads, physical], a head            *)
(* [name, enabled, mode, position, scale, transform, color], an enable the *)
(* same without `enabled`.  The features of a plan are its primary; that   *)
(* an enable asks for HDR shows in its color.                              *)
(***************************************************************************)
EXTENDS Edid, Selections

(* unwrap_or, and_then on an Option's field, and a sequence's first that   *)
(* passes a test.                                                          *)
Or(x, y) == IF x = None THEN y ELSE x
Of(r, field) == IF r = None THEN None ELSE r[field]
FirstOf(seq, Test(_)) ==
    LET i == SelectInSeq(seq, Test) IN IF i = 0 THEN None ELSE seq[i]

Names(seq) == {seq[i].name : i \in DOMAIN seq}
HeadNamed(snap, n) == FirstOf(snap.heads, LAMBDA h : h.name = n)
EmptySnapshot == [heads |-> << >>, physical |-> FALSE]

-----------------------------------------------------------------------------
(* Where things are.  A quarter turn swaps a mode's axes; the layout's     *)
(* units are scaled pixels unless it is physical.                          *)
SwapsAxes(t) == t \in {1, 3, 5, 7}
Across(mode, t) == IF SwapsAxes(t) THEN mode.h ELSE mode.w
Scaled(px, percent) == (200 * px + percent) \div (2 * percent)
ScaleIn(physical, percent) == IF physical THEN 100 ELSE percent
RightOf(edges) == IF edges = {} THEN 0 ELSE Max(edges)

Shown(snap) ==
    Only(snap.heads, {h \in ToSet(snap.heads) :
                          h.enabled /\ h.mode # None /\ h.position # None})

(* Mutant: a quarter turn forgotten.                                       *)
RightEdgeUnturned(snap) ==
    LET Edge(h) == h.position[1] + Scaled(h.mode.w, ScaleIn(snap.physical, Or(h.scale, 100)))
    IN RightOf({Edge(h) : h \in ToSet(Shown(snap))})

(* Mutant: scaled also where the layout is in physical pixels.             *)
RightEdgeScaled(snap) ==
    LET Edge(h) == h.position[1] + Scaled(Across(h.mode, h.transform), Or(h.scale, 100))
    IN RightOf({Edge(h) : h \in ToSet(Shown(snap))})

RightEdge(snap) ==
    LET Edge(h) == h.position[1] + Scaled(Across(h.mode, h.transform),
                                          ScaleIn(snap.physical, Or(h.scale, 100)))
    IN RightOf({Edge(h) : h \in ToSet(Shown(snap))})

(* Mutant: positions left to the compositor.                               *)
AsEnabledAnywhere(h) == [name |-> h.name, mode |-> h.mode, position |-> None,
                         scale |-> h.scale, transform |-> h.transform, color |-> h.color]

AsEnabled(h) == [name |-> h.name, mode |-> h.mode, position |-> h.position,
                 scale |-> h.scale, transform |-> h.transform, color |-> h.color]

ActiveEnables(snap) == [i \in DOMAIN Shown(snap) |-> AsEnabled(Shown(snap)[i])]

-----------------------------------------------------------------------------
(* The builder; None is a PlanError.                                       *)
NewPlan == [enables |-> << >>, disables |-> {}, primary |-> None]

Nonsense(mode) == mode # None /\ (mode.w <= 0 \/ mode.h <= 0 \/ mode.mhz <= 0)

EnableAll(b, items) ==
    IF \/ b = None
       \/ Names(items) \cap (b.disables \cup Names(b.enables)) # {}
       \/ \E i, j \in DOMAIN items : i # j /\ items[i].name = items[j].name
       \/ \E i \in DOMAIN items : Nonsense(items[i].mode)
    THEN None ELSE [b EXCEPT !.enables = @ \o items]

DisableAll(b, names) ==
    IF b = None \/ names \cap Names(b.enables) # {} THEN None
    ELSE [b EXCEPT !.disables = @ \cup names]

SetPrimary(b, n) ==
    IF b = None \/ n \in b.disables THEN None ELSE [b EXCEPT !.primary = n]

-----------------------------------------------------------------------------
(* The plans of `up`, from the snapshot `pre` taken before the device was  *)
(* created; `req` is [spec, scale, primary, disable].                      *)
(* Mutant: the scale not passed on.                                        *)
AsEnableUnscaled(req, n, position) ==
    [name |-> n, mode |-> RequestedMode(req.spec), position |-> position,
     scale |-> None, transform |-> None,
     color |-> IF req.spec.hdr THEN "hdr" ELSE "sdr"]

AsEnable(req, n, position) ==
    [name |-> n, mode |-> RequestedMode(req.spec), position |-> position,
     scale |-> req.scale, transform |-> None,
     color |-> IF req.spec.hdr THEN "hdr" ELSE "sdr"]

AppendedAt(pre) == <<RightEdge(pre), 0>>

PlacePlan(req, pre, n) ==
    EnableAll(NewPlan, Append(ActiveEnables(pre), AsEnable(req, n, AppendedAt(pre))))

(* The enabled outputs, in the snapshot's order, that are no record's head.*)
RealOutputs(pre, owned) ==
    LET real == Only(pre.heads, {h \in ToSet(pre.heads) : h.enabled /\ h.name \notin owned})
    IN [i \in DOMAIN real |-> real[i].name]

EnabledNames(snap) == {h.name : h \in {k \in ToSet(snap.heads) : k.enabled}}

(* At the origin if no output is left beside the new one.                  *)
Position(req, pre, real) ==
    IF req.disable /\ EnabledNames(pre) \subseteq ToSet(real) THEN <<0, 0>>
    ELSE AppendedAt(pre)

DisabledBy(req, real) == IF req.disable THEN ToSet(real) ELSE {}
PreviousPrimary(req, real) == IF req.primary /\ real # << >> THEN real[1] ELSE None

LayoutPlan(req, pre, n, real) ==
    LET off == DisabledBy(req, real)
        active == ActiveEnables(pre)
        kept == Only(active, {e \in ToSet(active) : e.name \notin off})
        built == DisableAll(
                    EnableAll(NewPlan, Append(kept, AsEnable(req, n, Position(req, pre, real)))),
                    off)
    IN IF req.primary THEN SetPrimary(built, n) ELSE built

-----------------------------------------------------------------------------
(* The plan of `down`, from the records, oldest first, and a fresh         *)
(* snapshot `live` (None if there is none).  A record is                   *)
(* [conn, head, snap, disabled, primary].                                  *)
ToDisable(recs) == {r.head : r \in ToSet(recs)} \ {None}
ToReenable(recs) == UNION {r.disabled : r \in ToSet(recs)}
RecordedPrimary(recs) == Of(FirstOf(recs, LAMBDA r : r.primary # None), "primary")

NothingToRestore(recs) ==
    ToDisable(recs) = {} /\ ToReenable(recs) = {} /\ RecordedPrimary(recs) = None

(* As the oldest snapshot has it, or else as it is now; but for the color. *)
Reenable(n, saved, live) ==
    LET was == IF saved = None THEN None ELSE HeadNamed(saved, n)
        is == IF live = None THEN None ELSE HeadNamed(live, n)
        From(field) == Or(Of(was, field), Of(is, field))
    IN [name |-> n, mode |-> From("mode"), position |-> From("position"),
        scale |-> From("scale"), transform |-> From("transform"),
        color |-> Of(was, "color")]

(* Mutant: the newest snapshot.                                            *)
RestorePlanNewest(recs, live, order) ==
    LET saved == Of(recs[Len(recs)], "snap")
        built == DisableAll(
                    EnableAll(NewPlan, [i \in DOMAIN order |-> Reenable(order[i], saved, live)]),
                    ToDisable(recs))
        primary == RecordedPrimary(recs)
    IN IF primary = None THEN built ELSE SetPrimary(built, primary)

(* Mutant: the virtual heads stay on.                                      *)
RestorePlanBeside(recs, live, order) ==
    LET saved == Of(FirstOf(recs, LAMBDA r : r.snap # None), "snap")
        built == EnableAll(NewPlan, [i \in DOMAIN order |-> Reenable(order[i], saved, live)])
        primary == RecordedPrimary(recs)
    IN IF primary = None THEN built ELSE SetPrimary(built, primary)

(* The names to re-enable are a HashSet: `order` is any sequence of them.  *)
RestorePlan(recs, live, order) ==
    LET saved == Of(FirstOf(recs, LAMBDA r : r.snap # None), "snap")
        built == DisableAll(
                    EnableAll(NewPlan, [i \in DOMAIN order |-> Reenable(order[i], saved, live)]),
                    ToDisable(recs))
        primary == RecordedPrimary(recs)
    IN IF primary = None THEN built ELSE SetPrimary(built, primary)
=============================================================================
