----------------------------- MODULE GnomeSession -----------------------------
(***************************************************************************)
(* `up` and `down` in a GNOME session (lifecycle.rs, compositor/gnome.rs), *)
(* call by call on Mutter's DisplayConfig: what is read, the configuration *)
(* made of it and of a plan, and Mutter, which refuses one made of a state *)
(* that is no more and any layout that breaks its rules.  Meanwhile heads  *)
(* are plugged in, Mutter lays monitors out anew, and the user does.       *)
(*                                                                         *)
(* Commands come one after the other here.  Concurrent ones, kills, errors *)
(* of the kernel and the store, and waits that run out are in Lifecycle.   *)
(***************************************************************************)
EXTENDS MutterConfig, Requests

CONSTANTS
    Conn,           \* the connectors of vkms devices: numbers
    Desks,          \* the sessions there are to begin with: Mutter's states
    Attribute,      \* whether the kernel may have the `edid` attribute,
                    \* a subset of BOOLEAN
    Common,         \* command lines of `up` that may be given at any time
    Rare,           \* those only the first command has, after which no other
                    \* comes: what differs is the spec
    MaxCommands,    \* bounds the commands
    MaxChanges      \* bounds the user's changes of the layout

(* Mutter's monitors and logical monitors; an output is one of the desk or *)
(* a connector.                                                            *)
Mode == [w : Nat, h : Nat, mhz : Nat]
Color == {"sdr", "hdr", "native"}
Output == Conn \cup UNION {Names(desk.monitors) : desk \in Desks}
Monitor == [name : Output, modes : Seq(Mode), preferred : Mode,
            current : Mode \cup {None}, color : Color \cup {None}]
Logical == [x : Int, y : Int, scale : Nat \ {0}, transform : 0..7,
            primary : BOOLEAN, monitors : SUBSET Output]
HeadState == [name : Output, enabled : BOOLEAN, mode : Mode \cup {None},
              position : (Int \X Int) \cup {None}, scale : (Nat \ {0}) \cup {None},
              transform : (0..7) \cup {None}, color : Color \cup {None}]

(* A state Mutter may be in: no two monitors have one name, a monitor is   *)
(* in one of its modes exactly if a logical one has it, and is in one only.*)
MutterOK(state) ==
    /\ state \in [serial : Nat, monitors : Seq(Monitor), logical : SUBSET Logical,
                  physical : BOOLEAN]
    /\ IsFiniteSet(state.logical)
    /\ \A i \in DOMAIN state.monitors :
          LET mon == state.monitors[i] IN
          /\ mon.preferred \in ToSet(mon.modes)
          /\ mon.current \in ToSet(mon.modes) \cup {None}
          /\ mon.current # None <=> \E lm \in state.logical : mon.name \in lm.monitors
          /\ \A j \in DOMAIN state.monitors : state.monitors[j].name = mon.name => i = j
    /\ \A lm \in state.logical :
          /\ lm.monitors # {} /\ lm.monitors \subseteq Names(state.monitors)
          /\ \A k \in state.logical : k = lm \/ k.monitors \cap lm.monitors = {}

(* The layout as a configuration, and what Mutter does not object to       *)
(* (external).                                                             *)
AsIs(state) == Untouched(NewPlan, state)
Valid(state, config) == Objections(state, state.serial, config) = {}

(* What an `up` may be asked for, and the devices it makes.                *)
Specs == {Resolve(line).spec : line \in {l \in Common \cup Rare : Resolve(l) # None}}
Device == UNION {[plugged : BOOLEAN, edid : {Build(spec)}, spec : {spec}] :
                    spec \in {s \in Specs : Build(s) # None}}

ASSUME NoneIsNothing ==
    /\ None \notin Mode /\ None \notin Monitor /\ None \notin Logical /\ None \notin HeadState
    /\ None \notin Device /\ None \notin Conn /\ None \notin Color
    /\ None \notin Int /\ None \notin Int \X Int
ASSUME Connectors == Conn \subseteq Int /\ IsFiniteSet(Conn)
ASSUME DesksAreStates ==
    \A desk \in Desks : /\ MutterOK(desk) /\ Names(desk.monitors) \subseteq Int
                        /\ desk.logical = {} \/ Valid(desk, AsIs(desk))

(* clap's types of the options, a scale being in percent.                  *)
OptionsOK(options) ==
    /\ DOMAIN options = Options
    /\ \A o \in {"width", "height", "fps", "scale"} : options[o] \in Int \cup {None}
    /\ \A o \in {"primary", "disable", "hdr"} : options[o] \in BOOLEAN \cup {None}
ASSUME CommandLines ==
    \A line \in Common \cup Rare :
        /\ OptionsOK(line.options) /\ line.sess \in BOOLEAN
        /\ line.profile = None \/ OptionsOK(line.profile)
ASSUME Bounds == MaxCommands \in Nat /\ MaxChanges \in Nat /\ Attribute \subseteq BOOLEAN

VARIABLES
    mutter,     \* Mutter's state
    attribute,  \* whether the kernel has the attribute an EDID is written to
    devs,       \* devs[c]: the device with connector c, or None
    recs,       \* the instance records, oldest first
    me,         \* the command under way
    left,       \* how many commands and changes there may still be
    hist        \* history: see Begin

vars == <<mutter, attribute, devs, recs, me, left, hist>>

-----------------------------------------------------------------------------
(* The local variables of `up` and `down`: the request, whether it was     *)
(* made inside the session, so that connect_compositor finds Mutter, the   *)
(* snapshot before the device, its connector, the plan, the state it is    *)
(* applied to, which of the three plans it is, and what Mutter had against *)
(* it.                                                                     *)
Idle == [at |-> "idle", req |-> None, sess |-> FALSE, pre |-> EmptySnapshot,
         conn |-> None, plan |-> None, phase |-> None, seen |-> None,
         refusal |-> {}]

(* What the user sees of a layout: where each monitor is, and how.         *)
Looks(state) ==
    [logical |-> state.logical,
     shows |-> {<<mon.name, mon.current, mon.color>> :
                    mon \in {k \in ToSet(state.monitors) : k.current # None}}]

(* `before`: the layout when the first of the records was made; `clean`:   *)
(* since then only fauxput has changed it, and Mutter where `up` puts that *)
(* right; `calm`: the same since the command began; `obeyed`: Mutter has   *)
(* refused nothing since `before`.                                         *)
Begin(state) == [before |-> Looks(state), clean |-> TRUE, calm |-> TRUE, obeyed |-> TRUE]

Init ==
    /\ mutter \in Desks
    /\ attribute \in Attribute
    /\ devs = [c \in Conn |-> None]
    /\ recs = << >>
    /\ me = Idle
    /\ left = [commands |-> MaxCommands, changes |-> MaxChanges]
    /\ hist = Begin(mutter)

-----------------------------------------------------------------------------
(* up.                                                                     *)

Free == {c \in Conn : devs[c] = None}

RunUp ==
    /\ me.at = "idle" /\ left.commands > 0 /\ Free # {}
    /\ \E line \in IF left.commands = MaxCommands THEN Common \cup Rare ELSE Common :
         LET req == Resolve(line) IN
         /\ req # None
         /\ me' = [Idle EXCEPT !.at = "create", !.req = req, !.sess = line.sess,
                               !.pre = IF line.sess THEN SnapshotOf(mutter)
                                       ELSE EmptySnapshot]
         /\ left' = [left EXCEPT !.commands = IF line \in Rare THEN 0 ELSE @ - 1]
         /\ hist' = [IF recs = << >> THEN Begin(mutter) ELSE hist
                       EXCEPT !.calm = TRUE, !.clean = @ /\ line.sess]
    /\ UNCHANGED <<mutter, attribute, devs, recs>>

(* create_kernel_side.  A timing no EDID can express ends the command.     *)
Create ==
    /\ me.at = "create"
    /\ IF Build(me.req.spec) = None
       THEN me' = Idle /\ UNCHANGED <<devs, recs>>
       ELSE LET c == Min(Free) IN
            /\ devs' = [devs EXCEPT ![c] = [plugged |-> TRUE, edid |-> Build(me.req.spec),
                                            spec |-> me.req.spec]]
            /\ recs' = Append(recs, [conn |-> c, head |-> None, snap |-> me.pre,
                                     disabled |-> {}, primary |-> None])
            /\ me' = IF me.sess THEN [me EXCEPT !.at = "await", !.conn = c] ELSE Idle
    /\ UNCHANGED <<mutter, attribute, left, hist>>

(* A plan that the builder refuses is not applied.                         *)
Applies(plan, phase, otherwise) ==
    [me EXCEPT !.at = IF plan = None THEN otherwise ELSE "refresh",
               !.plan = plan, !.phase = phase]

(* The newest record of this connector.                                    *)
Mine == Max({i \in DOMAIN recs : recs[i].conn = me.conn})

(* place_new_head: a name that another output had is refused before the    *)
(* wait for the head.                                                      *)
Await ==
    /\ me.at = "await"
    /\ me.conn \in Names(me.pre.heads) \cup Names(mutter.monitors)
    /\ IF me.conn \in Names(me.pre.heads)
       THEN me' = [me EXCEPT !.at = "failed"] /\ UNCHANGED recs
       ELSE /\ recs' = [recs EXCEPT ![Mine].head = me.conn]
            /\ me' = Applies(PlacePlan(me.req, me.pre, me.conn), "place", "failed")
    /\ UNCHANGED <<mutter, attribute, devs, left, hist>>

Owned == {recs[i].head : i \in DOMAIN recs}
Real == RealOutputs(me.pre, Owned)

PlanLayout ==
    /\ me.at = "layout"
    /\ me' = Applies(LayoutPlan(me.req, me.pre, me.conn, Real), "layout", "failed")
    /\ UNCHANGED <<mutter, attribute, devs, recs, left, hist>>

-----------------------------------------------------------------------------
(* The adapter's apply: a read and a request.                              *)

(* Mutant: the serial number is that of the session's first state.         *)
RefreshUnread ==
    /\ me.at = "refresh"
    /\ me' = [me EXCEPT !.at = "apply", !.seen = [mutter EXCEPT !.serial = 0]]
    /\ UNCHANGED <<mutter, attribute, devs, recs, left, hist>>

Refresh ==
    /\ me.at = "refresh"
    /\ me' = [me EXCEPT !.at = "apply", !.seen = mutter]
    /\ UNCHANGED <<mutter, attribute, devs, recs, left, hist>>

Asked == ToMutterConfig(me.plan, me.seen)
Against == Objections(mutter, me.seen.serial, Asked)

(* What up and down do once the request has been granted.                  *)
Granted ==
    CASE me.phase = "place" -> "layout"
      [] me.phase = "layout" -> "check"
      [] me.phase = "restore" -> "unplug"

Apply ==
    /\ me.at = "apply" /\ Against = {}
    /\ mutter' = Obeyed(mutter, Asked)
    /\ recs' = IF me.phase = "layout"
               THEN [recs EXCEPT ![Mine].disabled = DisabledBy(me.req, Real),
                                 ![Mine].primary = PreviousPrimary(me.req, Real)]
               ELSE recs
    /\ me' = [me EXCEPT !.at = Granted, !.seen = None]
    /\ UNCHANGED <<attribute, devs, left, hist>>

(* A refusal is a warning; down goes on.                                   *)
Refused ==
    /\ me.at = "apply" /\ Against # {}
    /\ me' = [me EXCEPT !.at = IF me.phase = "restore" THEN "unplug" ELSE "failed",
                        !.seen = None, !.refusal = Against]
    /\ hist' = [hist EXCEPT !.obeyed = FALSE]
    /\ UNCHANGED <<mutter, attribute, devs, recs, left>>

(* check_hdr_attached.                                                     *)
HdrAttached ==
    me.req.spec.hdr =>
        Of(HeadNamed(SnapshotOf(mutter), me.conn), "color") = "hdr"

Return ==
    /\ me.at \in {"check", "failed"}
    /\ me' = Idle
    /\ UNCHANGED <<mutter, attribute, devs, recs, left, hist>>

-----------------------------------------------------------------------------
(* down.                                                                   *)

RunDown ==
    /\ me.at = "idle" /\ left.commands > 0 /\ recs # << >>
    /\ IF NothingToRestore(recs) THEN me' = [me EXCEPT !.at = "unplug"]
       ELSE \E order \in SetToSeqs(ToReenable(recs)) :
              me' = Applies(RestorePlan(recs, SnapshotOf(mutter), order), "restore", "unplug")
    /\ left' = [left EXCEPT !.commands = @ - 1]
    /\ hist' = [hist EXCEPT !.calm = TRUE]
    /\ UNCHANGED <<mutter, attribute, devs, recs>>

Handles == {recs[i].conn : i \in DOMAIN recs}

Unplug ==
    /\ me.at = "unplug"
    /\ devs' = [c \in Conn |-> IF c \in Handles THEN [devs[c] EXCEPT !.plugged = FALSE]
                               ELSE devs[c]]
    /\ me' = [me EXCEPT !.at = "gone"]
    /\ UNCHANGED <<mutter, attribute, recs, left, hist>>

Gone ==
    /\ me.at = "gone" /\ Handles \cap Names(mutter.monitors) = {}
    /\ me' = [me EXCEPT !.at = "destroy"]
    /\ UNCHANGED <<mutter, attribute, devs, recs, left, hist>>

(* Mutant: the records are not cleared.                                    *)
DestroyUncleared ==
    /\ me.at = "destroy"
    /\ devs' = [c \in Conn |-> IF c \in Handles THEN None ELSE devs[c]]
    /\ me' = Idle
    /\ UNCHANGED <<mutter, attribute, recs, left, hist>>

Destroy ==
    /\ me.at = "destroy"
    /\ devs' = [c \in Conn |-> IF c \in Handles THEN None ELSE devs[c]]
    /\ recs' = << >>
    /\ me' = Idle
    /\ UNCHANGED <<mutter, attribute, left, hist>>

-----------------------------------------------------------------------------
(* Mutter and the user (external).                                         *)

(* The monitor that is the primary.                                        *)
Primary(state) == UNION {lm.monitors : lm \in {k \in state.logical : k.primary}}

(* One logical monitor; and every monitor, lit or not, one beside the      *)
(* other.                                                                  *)
Single(state, mon, x, primary) ==
    LET was == LogicalOf(state, mon.name)
        mode == Or(mon.current, mon.preferred)
    IN [x |-> x, y |-> 0,
        scale |-> Or(Of(was, "scale"), PreferredScale(mode)),
        transform |-> Or(Of(was, "transform"), 0), primary |-> primary,
        monitors |-> {[name |-> mon.name, mode |-> mode, color |-> mon.color]}]

InARow(state) ==
    LET names == Names(state.monitors) \cap Primary(state)
        first == IF names = {} THEN state.monitors[1].name ELSE Min(names)
        n == Len(state.monitors)
        placed[i \in 0..n] ==
            IF i = 0 THEN {}
            ELSE LET mon == state.monitors[i] IN
                 placed[i - 1] \cup {Single(state, mon, PlacedEdge(state, placed[i - 1]),
                                            mon.name = first)}
    IN placed[n]

(* Without the attribute an EDID was not written, and the kernel offers    *)
(* modes of its own.                                                       *)
Standard == <<ModeInfo(1024, 768, 60004), ModeInfo(1920, 1080, 60000)>>
NewMonitor(c) ==
    LET modes == IF attribute THEN ModesOf(devs[c].edid) ELSE Standard
    IN [name |-> c, modes |-> modes, preferred |-> modes[1], current |-> None,
        color |-> "sdr"]

(* Mutter finds a new monitor: it leaves it dark, puts it beside the       *)
(* others, or lays them all out anew, those that were dark included.  It   *)
(* does nothing that it would object to.                                   *)
HeadAppears(c) ==
    /\ devs[c] # None /\ devs[c].plugged /\ c \notin Names(mutter.monitors)
    /\ LET found == [mutter EXCEPT !.monitors = Append(@, NewMonitor(c))]
           ours == me.at = "await" /\ me.conn = c
           dark == \E i \in DOMAIN mutter.monitors : mutter.monitors[i].current = None
           beside == AsIs(found) \cup
                        {Single(found, NewMonitor(c), PlacedEdge(found, AsIs(found)), FALSE)}
       IN \/ /\ mutter' = [found EXCEPT !.serial = @ + 1]
             /\ hist' = [hist EXCEPT !.calm = @ /\ ours]
          \/ /\ Valid(found, beside)
             /\ mutter' = Obeyed(found, beside)
             /\ hist' = [hist EXCEPT !.calm = @ /\ ours]
          \/ /\ Valid(found, InARow(found))
             /\ mutter' = Obeyed(found, InARow(found))
             /\ hist' = [hist EXCEPT !.calm = @ /\ ours /\ ~dark,
                                     !.clean = @ /\ ours /\ ~dark]
    /\ UNCHANGED <<attribute, devs, recs, me, left>>

(* It loses one: the others stay as they are if that is a layout, or are   *)
(* laid out anew; if there is no such layout they all go dark.             *)
HeadGoes(c) ==
    /\ devs[c] # None /\ ~devs[c].plugged /\ c \in Names(mutter.monitors)
    /\ LET rest == [mutter EXCEPT
                        !.monitors = Only(@, {mon \in ToSet(@) : mon.name # c}),
                        !.logical = {lm \in @ : c \notin lm.monitors}]
       IN mutter' = Obeyed(rest, CASE Valid(rest, AsIs(rest)) -> AsIs(rest)
                                   [] Valid(rest, InARow(rest)) -> InARow(rest)
                                   [] OTHER -> {})
    /\ UNCHANGED <<attribute, devs, recs, me, left, hist>>

(* The user makes another monitor the primary, changes a color, turns one  *)
(* off, or lays them all out in a row.                                     *)
Changed(state) ==
    LET now == AsIs(state) IN
    {{[lc EXCEPT !.primary = lc = main] : lc \in now} : main \in now}
    \cup {{[lc EXCEPT !.monitors = {[m EXCEPT !.color = IF @ = None THEN None ELSE color]
                                      : m \in @}] : lc \in now} : color \in {"sdr", "hdr"}}
    \cup {Anchored(now \ {lc}) : lc \in {k \in now : now # {k}}}
    \cup {InARow(state)}

UserChanges ==
    /\ left.changes > 0
    /\ \E config \in Changed(mutter) :
         /\ Valid(mutter, config) /\ config # AsIs(mutter)
         /\ mutter' = Obeyed(mutter, config)
    /\ left' = [left EXCEPT !.changes = @ - 1]
    /\ hist' = [hist EXCEPT !.calm = FALSE, !.clean = FALSE]
    /\ UNCHANGED <<attribute, devs, recs, me>>

AllOver == me.at = "idle" /\ left.commands = 0 /\ UNCHANGED vars

Next ==
    \/ RunUp \/ Create \/ Await \/ PlanLayout
    \/ Refresh \/ Apply \/ Refused \/ Return
    \/ RunDown \/ Unplug \/ Gone \/ Destroy
    \/ \E c \in Conn : HeadAppears(c) \/ HeadGoes(c)
    \/ UserChanges
    \/ AllOver

Spec == Init /\ [][Next]_vars

-----------------------------------------------------------------------------
(* Properties.                                                             *)

RecordOK(r) ==
    /\ r.conn \in Conn /\ r.head \in {r.conn, None}
    /\ r.disabled \subseteq Names(r.snap.heads)
    /\ r.primary \in Names(r.snap.heads) \cup {None}

(* Types, that Mutter's state is one it may be in, and that every record's *)
(* device is there.                                                        *)
TypeOK ==
    /\ MutterOK(mutter) /\ attribute \in BOOLEAN
    /\ devs \in [Conn -> Device \cup {None}]
    /\ \A i \in DOMAIN recs : RecordOK(recs[i]) /\ devs[recs[i].conn] # None
    /\ me.at \in {"idle", "create", "await", "layout", "refresh", "apply", "check",
                  "failed", "unplug", "gone", "destroy"}
    /\ me.phase \in {None, "place", "layout", "restore"} /\ me.conn \in Conn \cup {None}

(* A spec whose width libxcvt keeps and whose EDID the kernel was given.   *)
Exact == attribute /\ me.req.spec.width % 8 = 0

(* When `up` reports success and nobody else has touched the layout: the   *)
(* head is in the mode, colors and scale asked for, where `up` says, the   *)
(* primary if asked; if asked, no real output is on.  A position is        *)
(* shifted when other virtual heads stay and the real ones go.  Of a head  *)
(* that offers no such mode only that it is in no other size.              *)
HeadAsAsked ==
    me.at = "check" /\ hist.calm =>
        LET lm == LogicalOf(mutter, me.conn)
            mode == Of(MonitorNamed(mutter, me.conn), "current")
            want == RequestedMode(me.req.spec)
            alone == EnabledNames(me.pre) \subseteq ToSet(Real)
        IN /\ Exact =>
                /\ mode = want /\ HdrAttached
                /\ me.req.scale \in {None, lm.scale}
                /\ me.req.primary => lm.primary
                /\ me.req.disable => \A n \in ToSet(Real) : LogicalOf(mutter, n) = None
                /\ alone \/ ~me.req.disable =>
                     <<lm.x, lm.y>> = Position(me.req, me.pre, Real)
           /\ mode # None => mode.w = want.w /\ mode.h = want.h

(* When `up` reports success and nobody else has touched the layout: every *)
(* output that was on and is to stay on is in the mode, scale, transform   *)
(* and colors it was in, and where it was, also if Mutter has laid them    *)
(* all out anew for the head; all are shifted alike when some go.          *)
OthersKept ==
    me.at = "check" /\ hist.calm =>
        LET kept == {h \in ToSet(Shown(me.pre)) :
                        ~(me.req.disable /\ h.name \in ToSet(Real))}
            now(h) == HeadNamed(SnapshotOf(mutter), h.name)
            moved(h, i) == now(h).position[i] - h.position[i]
        IN /\ \A h \in kept : /\ now(h).enabled
                              /\ [now(h) EXCEPT !.position = h.position] = h
           /\ \A h, k \in kept, i \in {1, 2} : moved(h, i) = moved(k, i)
           /\ ~me.req.disable => \A h \in kept, i \in {1, 2} : moved(h, i) = 0

(* A configuration that Mutter carries out leaves every logical monitor    *)
(* that the plan does not name with its monitors, their modes and colors,  *)
(* its scale and transform, and the primary if the plan has none; they are *)
(* moved together or not at all ("so that re-applying a plan doesn't       *)
(* silently revert HDR-enabled monitors").                                 *)
OthersUntouched ==
    [][me.at = "apply" /\ Against = {} /\ me' # me =>
        LET unnamed == {lm \in mutter.logical : lm.monitors \cap Named(me.plan) = {}}
            now(lm) == LogicalOf(mutter', CHOOSE n \in lm.monitors : TRUE)
        IN /\ \A lm \in unnamed :
                 /\ now(lm).monitors = lm.monitors
                 /\ now(lm).scale = lm.scale /\ now(lm).transform = lm.transform
                 /\ now(lm).primary = (lm.primary /\ me.plan.primary = None)
                 /\ \A n \in lm.monitors : MonitorNamed(mutter', n) = MonitorNamed(mutter, n)
           /\ \A lm, k \in unnamed : /\ now(lm).x - lm.x = now(k).x - k.x
                                     /\ now(lm).y - lm.y = now(k).y - k.y]_vars

(* What keeps a new head out although nobody else has touched the layout:  *)
(* it has no such mode and was to be the only one or the primary; the      *)
(* primary is turned off and no other named; no output was on, so that     *)
(* none is the primary; monitors mirror each other, and are placed one by  *)
(* one; none of those furthest right that stay reaches the rows of the     *)
(* head, which is placed at the top; one that stays touched only outputs   *)
(* that go.                                                                *)
Unoffered == ModeFor(MonitorNamed(mutter, me.conn), RequestedMode(me.req.spec)) = None
PrimaryGoes == me.req.disable /\ ~me.req.primary /\ Primary(mutter) \subseteq ToSet(Real)
Headless(snap) == Shown(snap) = << >>
Mirrors(snap) == \E h, k \in ToSet(Shown(snap)) : h # k /\ h.position = k.position
Around(snap, h) ==
    Box(snap, [x |-> h.position[1], y |-> h.position[2], scale |-> h.scale,
               transform |-> h.transform, monitors |-> {h}])
Staying == {h \in ToSet(Shown(me.pre)) :
               me.phase = "place" \/ h.name \notin DisabledBy(me.req, Real)}
Coming == Box(mutter, Submitted(me.plan, mutter, {},
                                AsEnable(me.req, me.conn, AppendedAt(me.pre))))
NoneBeside ==
    /\ ~Unoffered
    /\ \A h \in Staying : \/ \E k \in ToSet(Shown(me.pre)) :
                                 Around(me.pre, k).right > Around(me.pre, h).right
                          \/ ~ShareRows(Around(me.pre, h), Coming)
HeldByOthers ==
    /\ me.phase = "layout" /\ me.req.disable
    /\ \E h \in Staying : /\ Staying # {h}
                          /\ \A k \in Staying \ {h} :
                                ~Adjacent(Around(me.pre, h), Around(me.pre, k))

(* A request is refused for a stale serial number, read by the adapter     *)
(* just before, only when others have changed the layout in between.       *)
StaleOnlyIfChanged == hist.calm => "stale" \notin me.refusal

(* Mutter refuses what `up` asks for as empty, without a primary or with   *)
(* one monitor on top of another only then, and never for an offset,       *)
UpRefusedOnlyIf ==
    me.refusal # {} /\ me.phase # "restore" /\ hist.calm =>
        /\ "empty" \in me.refusal => Unoffered /\ (me.req.disable \/ Headless(me.pre))
        /\ "primary" \in me.refusal =>
              \/ Mirrors(me.pre) \/ Headless(me.pre)
              \/ PrimaryGoes \/ (Unoffered /\ me.req.primary)
        /\ "overlap" \in me.refusal => Mirrors(me.pre)
        /\ "offset" \notin me.refusal

(* and as falling apart only if the head touches nothing, if monitors      *)
(* mirror each other, or if what held the layout together goes.            *)
ApartOnlyIf ==
    "apart" \in me.refusal /\ me.phase # "restore" /\ hist.calm =>
        Mirrors(me.pre) \/ NoneBeside \/ HeldByOthers

(* Mutter refuses what `down` asks for only if others have changed the     *)
(* layout, in it monitors mirrored each other or none was on, or the       *)
(* primary to be set is an output the plan does not enable (see            *)
(* PrimarySetBack).                                                        *)
RestoreRefusedOnlyIf ==
    me.refusal # {} /\ me.phase = "restore" /\ hist.calm /\ hist.clean =>
        \/ Mirrors(recs[1].snap) \/ Headless(recs[1].snap)
        \/ /\ me.refusal = {"primary"}
           /\ me.plan.primary \notin Names(me.plan.enables) \cup {None}

(* `down` gives the layout back: when all heads have gone, each monitor is *)
(* where and how it was before the first `up`, and so is the primary,      *)
(* unless an `up --primary` has recorded an output that was not primary    *)
(* (see LayoutGivenBack).  Not if others have changed the layout, an `up`  *)
(* came from outside the session, or Mutter has refused something.         *)
Unmarked(looks) == [looks EXCEPT !.logical = {[lm EXCEPT !.primary = FALSE] : lm \in @}]
LayoutRestored ==
    me.at = "destroy" /\ hist.clean /\ hist.obeyed =>
        /\ Unmarked(Looks(mutter)) = Unmarked(hist.before)
        /\ RecordedPrimary(recs) \in Primary(hist.before) \cup {None} =>
              Looks(mutter) = hist.before

(* The EDID of a device says what was computed: no field lost bits in its  *)
(* cast, and its range limits admit its own modes, that of HDR included.   *)
EdidFaithful == \A c \in Conn : devs[c] # None => Faithful(devs[c].edid, devs[c].spec)

(* Of the finding: after down's restore the recorded primary is primary.   *)
PrimarySetBack ==
    me.at = "unplug" /\ hist.calm /\ Of(me.plan, "primary") # None =>
        me.plan.primary \in Primary(mutter)

(* Of the finding: what `down` gives back is the layout before the first   *)
(* `up`, the primary with it ("sets primary back to the original primary": *)
(* restore_compositor; the torture test compares the same).                *)
LayoutGivenBack ==
    me.at = "destroy" /\ hist.clean /\ hist.obeyed => Looks(mutter) = hist.before
=============================================================================
