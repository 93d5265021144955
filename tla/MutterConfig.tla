----------------------------- MODULE MutterConfig -----------------------------
(***************************************************************************)
(* The GNOME adapter (compositor/gnome.rs): the snapshot it makes of       *)
(* Mutter's state and the configuration it makes of a plan, and what       *)
(* Mutter's ApplyMonitorsConfig accepts (external).  All of it is pure;    *)
(* GnomeSession has the calls.                                             *)
(*                                                                         *)
(* Mutter's state is [serial, monitors, logical, physical]: the monitors   *)
(* in its order, each [name, modes, preferred, current, color], and the    *)
(* set of logical monitors, each                                           *)
(* [x, y, scale, transform, primary, monitors], `monitors` the names of    *)
(* those that show it.  In a configuration `monitors` are                  *)
(* [name, mode, color] instead.  A mode is its own id.                     *)
(***************************************************************************)
EXTENDS OutputPlans

MonitorNamed(state, n) == FirstOf(state.monitors, LAMBDA mon : mon.name = n)
LogicalOf(state, n) ==
    IF \E lm \in state.logical : n \in lm.monitors
    THEN CHOOSE lm \in state.logical : n \in lm.monitors
    ELSE None

-----------------------------------------------------------------------------
(* From<CurrentState> for OutputSnapshot.                                  *)
HeadOf(state, mon) ==
    LET lm == LogicalOf(state, mon.name)
    IN [name |-> mon.name, enabled |-> lm # None, mode |-> mon.current,
        position |-> IF lm = None THEN None ELSE <<lm.x, lm.y>>,
        scale |-> Of(lm, "scale"), transform |-> Of(lm, "transform"),
        color |-> mon.color]

SnapshotOf(state) ==
    [heads |-> [i \in DOMAIN state.monitors |-> HeadOf(state, state.monitors[i])],
     physical |-> state.physical]

-----------------------------------------------------------------------------
(* OutputPlan::to_mutter_config.                                           *)

(* A logical monitor no output of which the plan names is submitted as it  *)
(* is, colors too, but for the primary if the plan has one.                *)
Named(plan) == Names(plan.enables) \cup plan.disables

(* Mutant: without the colors.                                             *)
CarriedPale(plan, state, lm) ==
    LET lit == {n \in lm.monitors : Of(MonitorNamed(state, n), "current") # None}
    IN [lm EXCEPT !.primary = @ /\ plan.primary = None,
                  !.monitors = {[name |-> n, mode |-> MonitorNamed(state, n).current,
                                 color |-> None] : n \in lit}]

Carried(plan, state, lm) ==
    LET lit == {n \in lm.monitors : Of(MonitorNamed(state, n), "current") # None}
    IN [lm EXCEPT !.primary = @ /\ plan.primary = None,
                  !.monitors = {[name |-> n, mode |-> MonitorNamed(state, n).current,
                                 color |-> MonitorNamed(state, n).color] : n \in lit}]

Untouched(plan, state) ==
    {lc \in {Carried(plan, state, lm) :
                lm \in {k \in state.logical : k.monitors \cap Named(plan) = {}}} :
        lc.monitors # {}}

(* The mode wanted, or else the first of its size nearest in refresh.      *)
Apart(a, b) == IF a < b THEN b - a ELSE a - b
ModeFor(mon, want) ==
    LET like == Only(mon.modes, {k \in ToSet(mon.modes) : k.w = want.w /\ k.h = want.h})
        nearest == Min({Apart(like[i].mhz, want.mhz) : i \in DOMAIN like})
    IN CASE want = None /\ mon.preferred # None -> mon.preferred
         [] want = None -> FirstOf(mon.modes, LAMBDA k : TRUE)
         [] OTHER -> IF like = << >> THEN None
                     ELSE FirstOf(like, LAMBDA k : Apart(k.mhz, want.mhz) = nearest)

Physically(state, scale) == ScaleIn(state.physical, scale)
Wide(state, lc) ==
    Scaled(Across((CHOOSE m \in lc.monitors : TRUE).mode, lc.transform),
           Physically(state, lc.scale))
PlacedEdge(state, placed) == RightOf({lc.x + Wide(state, lc) : lc \in placed})

(* The scale Mutter proposes for a mode (external).                        *)
PreferredScale(mode) == IF mode.w > 3000 THEN 200 ELSE 100

(* The logical monitor for one enable, beside those placed before it.      *)
Submitted(plan, state, placed, e) ==
    LET mon == MonitorNamed(state, e.name)
        mode == ModeFor(mon, e.mode)
        was == LogicalOf(state, e.name)
        at == CASE e.position # None -> e.position
                [] e.position = None /\ was # None -> <<was.x, was.y>>
                [] OTHER -> <<PlacedEdge(state, placed), 0>>
    IN [x |-> at[1], y |-> at[2],
        scale |-> Or(Or(e.scale, Of(was, "scale")), PreferredScale(mode)),
        transform |-> Or(Or(e.transform, Of(was, "transform")), 0),
        primary |-> IF plan.primary # None THEN plan.primary = e.name
                    ELSE was # None /\ was.primary,
        monitors |-> {[name |-> e.name, mode |-> mode, color |-> Or(e.color, mon.color)]}]

(* An output that is not advertised, or has no such mode, is skipped.      *)
Lightable(state, e) ==
    /\ MonitorNamed(state, e.name) # None
    /\ ModeFor(MonitorNamed(state, e.name), e.mode) # None

Anchored(placed) ==
    LET dx == Min({lc.x : lc \in placed})
        dy == Min({lc.y : lc \in placed})
    IN {[lc EXCEPT !.x = @ - dx, !.y = @ - dy] : lc \in placed}

ToMutterConfig(plan, state) ==
    LET enables == Only(plan.enables, {e \in ToSet(plan.enables) : Lightable(state, e)})
        n == Len(enables)
        placed[i \in 0..n] ==
            IF i = 0 THEN Untouched(plan, state)
            ELSE placed[i - 1] \cup {Submitted(plan, state, placed[i - 1], enables[i])}
    IN IF placed[n] = {} THEN {} ELSE Anchored(placed[n])

-----------------------------------------------------------------------------
(* Mutter's check of a configuration (external).                           *)
Rows(state, lc) ==
    LET mode == (CHOOSE m \in lc.monitors : TRUE).mode
        tall == IF SwapsAxes(lc.transform) THEN mode.w ELSE mode.h
    IN Scaled(tall, Physically(state, lc.scale))

Box(state, lc) ==
    [left |-> lc.x, right |-> lc.x + Wide(state, lc),
     top |-> lc.y, bottom |-> lc.y + Rows(state, lc)]
ShareRows(a, b) == a.top < b.bottom /\ b.top < a.bottom
ShareColumns(a, b) == a.left < b.right /\ b.left < a.right
Overlap(a, b) == ShareRows(a, b) /\ ShareColumns(a, b)
Adjacent(a, b) ==
    \/ (a.right = b.left \/ b.right = a.left) /\ ShareRows(a, b)
    \/ (a.bottom = b.top \/ b.bottom = a.top) /\ ShareColumns(a, b)

(* What is furthest left and up is at the origin.                          *)
AtOrigin(layout) ==
    layout # {} => Min({lc.x : lc \in layout}) = 0 /\ Min({lc.y : lc \in layout}) = 0

(* What Mutter objects to: a state read before the latest change, no       *)
(* monitor at all, and the four rules of a layout.                         *)
Objections(state, serial, config) ==
    LET box == [lc \in config |-> Box(state, lc)]
        pairs == {p \in config \X config : p[1] # p[2]}
    IN {reason \in {"stale", "empty", "overlap", "apart", "offset", "primary"} :
          CASE reason = "stale" -> serial # state.serial
            [] reason = "empty" -> config = {}
            [] reason = "overlap" -> \E p \in pairs : Overlap(box[p[1]], box[p[2]])
            [] reason = "apart" ->
                  pairs # {} /\ \E a \in config : \A b \in config \ {a} :
                                    ~Adjacent(box[a], box[b])
            [] reason = "offset" -> ~AtOrigin(config)
            [] reason = "primary" ->
                  config # {} /\ Cardinality({lc \in config : lc.primary}) # 1}

(* Its state once it has carried the configuration out: monitors that are  *)
(* not in it are off, and a color not given is the default again.          *)
Monitors(config) == UNION {lc.monitors : lc \in config}
Lit(config) == {m.name : m \in Monitors(config)}
Shows(config, n) == CHOOSE m \in Monitors(config) : m.name = n

Obeying(config, mon) ==
    LET n == mon.name IN
    IF n \notin Lit(config) THEN [mon EXCEPT !.current = None]
    ELSE [mon EXCEPT !.current = Shows(config, n).mode,
                     !.color = IF @ = None THEN None
                               ELSE Or(Shows(config, n).color, "sdr")]

Obeyed(state, config) ==
    [state EXCEPT
        !.serial = @ + 1,
        !.monitors = [i \in DOMAIN @ |-> Obeying(config, @[i])],
        !.logical = {[lc EXCEPT !.monitors = {m.name : m \in @}] : lc \in config}]
=============================================================================
