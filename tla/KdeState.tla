------------------------------ MODULE KdeState ------------------------------
(***************************************************************************)
(* What the Plasma adapter (compositor/kde.rs) makes of KWin's events and  *)
(* of an output plan: the State that its Dispatch handlers keep, the heads *)
(* it shows of it, and the configuration that apply builds from them.  All *)
(* of it is pure; KdeSession has the calls and the connection.             *)
(*                                                                         *)
(* A device is its protocol id; an output plugged in again is a new device *)
(* with the old connector's name.  A mode's id is its device and its kind, *)
(* the ModeInfo.  `place` stands for position, scale and transform, which  *)
(* are kept and compared alike.  Colours are left out.                     *)
(***************************************************************************)
EXTENDS Selections

CONSTANTS
    Connector,      \* Connector[d]: the name of device d
    Kind,           \* the modes there are: records [size, mhz]
    None            \* an Option's None

ASSUME Names ==
    /\ Connector \in Seq({Connector[d] : d \in DOMAIN Connector})
    /\ \A d \in DOMAIN Connector : Connector[d] # None

Dev == DOMAIN Connector

(* An event: what it says, the object it is about, an argument.            *)
Event(ev, of, val) == [ev |-> ev, of |-> of, val |-> val]

(* Device::default, ModeInfo::default and State::default.  `info` are the  *)
(* modes whose size and refresh have come; `cfgs` are the configurations   *)
(* that have not been destroyed.                                           *)
Blank == [named |-> FALSE, on |-> FALSE, mode |-> None, place |-> None, done |-> FALSE]
Unsized == [size |-> 0, mhz |-> 0]
Fresh == [manager |-> FALSE, alive |-> FALSE, registry |-> FALSE,
          devices |-> << >>, dev |-> [d \in Dev |-> Blank],
          modes |-> << >>, info |-> {},
          result |-> None, reason |-> None, cfgs |-> {}]

-----------------------------------------------------------------------------
(* The handlers.                                                           *)

Entered(seq, x) == IF Contains(seq, x) THEN seq ELSE Append(seq, x)
ModesOf(s, d) == Only(s.modes, {d} \X Kind)

(* A wrong variant of RemoveDevice: the modes stay.                        *)
KeepModes(s, d) ==
    [s EXCEPT !.devices = Only(@, Dev \ {d}), !.dev[d] = Blank]

RemoveDevice(s, d) ==
    [s EXCEPT !.devices = Only(@, Dev \ {d}),
              !.dev[d] = Blank,
              !.modes = Only(@, (Dev \ {d}) \X Kind),
              !.info = @ \ ({d} \X Kind)]

(* Of a global that goes only its number is forgotten, and that the        *)
(* manager is alive.  A global of Plasma before 6.7 is a device.           *)
RegistryEvent(s, e) ==
    CASE e.ev = "manager" -> [s EXCEPT !.manager = TRUE]
      [] e.ev = "manager_gone" -> [s EXCEPT !.alive = FALSE]
      [] e.ev = "registry" -> [s EXCEPT !.registry = TRUE]
      [] e.ev = "registry_gone" -> [s EXCEPT !.registry = FALSE]
      [] e.ev = "global" -> [s EXCEPT !.devices = Entered(@, e.of)]
      [] e.ev = "global_remove" -> RemoveDevice(s, e.of)

(* The requests a registry handler makes.                                  *)
Binds(e) ==
    CASE e.ev = "registry" -> <<[do |-> "bind_registry", of |-> None]>>
      [] e.ev = "global" -> <<[do |-> "bind_device", of |-> e.of]>>
      [] OTHER -> << >>

(* Events about a device that is not on file are ignored.                  *)
DeviceEvent(s, e) ==
    LET d == e.of IN
    IF ~Contains(s.devices, d) THEN s ELSE
    CASE e.ev = "name" -> [s EXCEPT !.dev[d].named = TRUE]
      [] e.ev = "enabled" -> [s EXCEPT !.dev[d].on = e.val]
      [] e.ev = "current_mode" -> [s EXCEPT !.dev[d].mode = e.val]
      [] e.ev = "geometry" -> [s EXCEPT !.dev[d].place = e.val]
      [] e.ev = "mode" ->
            [s EXCEPT !.modes = Entered(@, <<d, e.val>>),
                      !.dev[d].mode = IF @ = None THEN e.val ELSE @]
      [] e.ev = "done" -> [s EXCEPT !.dev[d].done = TRUE]
      [] OTHER -> s

(* The device's first other mode, if it loses the one it is in.            *)
Repointed(s, d, k) ==
    LET others == Only(s.modes, {d} \X (Kind \ {k})) IN
    IF others = << >> THEN None ELSE others[1][2]

RemoveMode(s, d, k) ==
    [s EXCEPT !.modes = Only(@, (Dev \X Kind) \ {<<d, k>>}),
              !.info = @ \ {<<d, k>>},
              !.dev[d].mode =
                  IF @ = k /\ Contains(s.modes, <<d, k>>) THEN Repointed(s, d, k) ELSE @]

ModeEvent(s, e) ==
    LET m == <<e.of, e.val>> IN
    CASE e.ev = "mode_removed" -> RemoveMode(s, e.of, e.val)
      [] e.ev = "size_refresh" /\ Contains(s.modes, m) -> [s EXCEPT !.info = @ \cup {m}]
      [] OTHER -> s

(* A destroyed configuration hears nothing any more.                       *)
ConfigurationEvent(s, e) ==
    IF e.of \notin s.cfgs THEN s ELSE
    CASE e.ev = "failure_reason" -> [s EXCEPT !.reason = e.val]
      [] e.ev = "applied" -> [s EXCEPT !.result = [is |-> "applied", why |-> None]]
      [] e.ev = "failed" ->
            [s EXCEPT !.result = [is |-> "failed", why |-> s.reason], !.reason = None]

(* Which handler an event goes to: that of its object's interface.         *)
Handled(s, e) ==
    CASE e.ev \in {"manager", "manager_gone", "registry", "registry_gone",
                  "global", "global_remove"} -> RegistryEvent(s, e)
      [] e.ev = "output" -> [s EXCEPT !.devices = Entered(@, e.of)]
      [] e.ev = "removed" -> RemoveDevice(s, e.of)
      [] e.ev \in {"mode_removed", "size_refresh"} -> ModeEvent(s, e)
      [] e.ev \in {"failure_reason", "applied", "failed"} -> ConfigurationEvent(s, e)
      [] e.ev = "synced" -> s
      [] OTHER -> DeviceEvent(s, e)

-----------------------------------------------------------------------------
(* The heads shown, in the order in which the devices came.                *)
LiveHeads(s) == Only(s.devices, {d \in Dev : s.dev[d].named /\ s.dev[d].done})

ModeShown(s, d) ==
    LET m == <<d, s.dev[d].mode>> IN
    IF ~Contains(s.modes, m) THEN None ELSE IF m \in s.info THEN m[2] ELSE Unsized

HeadShown(s, d) ==
    [on |-> s.dev[d].on, mode |-> ModeShown(s, d), place |-> s.dev[d].place]

SnapshotOf(s) == [d \in ToSet(LiveHeads(s)) |-> HeadShown(s, d)]

-----------------------------------------------------------------------------
(* apply.  A plan's `en` gives each name to be enabled a mode and a place, *)
(* None to leave them; `native` is a request for native-gamut SDR.         *)

Or(x, y) == IF x = None THEN y ELSE x

Target(h, n, plan) ==
    LET listed == n \in DOMAIN plan.en IN
    [on |-> n \notin plan.dis /\ (listed \/ h.on),
     mode |-> IF listed THEN Or(plan.en[n].mode, h.mode) ELSE h.mode,
     place |-> IF listed THEN Or(plan.en[n].place, h.place) ELSE h.place]

(* The mode wanted, or else the first of its size nearest in refresh.      *)
Apart(k, want) == IF k.mhz < want.mhz THEN want.mhz - k.mhz ELSE k.mhz - want.mhz

FindMode(s, d, want) ==
    LET k(i) == s.modes[i][2]
        like == {i \in DOMAIN s.modes : /\ s.modes[i] \in ({d} \X Kind) \cap s.info
                                        /\ k(i).size = want.size}
        near == {i \in like : \A j \in like : Apart(k(i), want) <= Apart(k(j), want)}
    IN IF like = {} THEN None
       ELSE k(CHOOSE i \in near : \A j \in near : i <= j)

(* A wrong variant of Priority: the others count from 1 on.                *)
FromOne(live, plan, i) ==
    IF Connector[live[i]] = plan.primary THEN 1
    ELSE Cardinality({j \in 1..i : Connector[live[j]] # plan.primary})

(* 1 for the primary, which nobody is if it is not there; then from 2 on,  *)
(* from 1 on if the plan has none.                                         *)
Priority(live, plan, i) ==
    IF Connector[live[i]] = plan.primary THEN 1
    ELSE Cardinality({j \in 1..i : Connector[live[j]] # plan.primary})
         + IF plan.primary = None THEN 0 ELSE 1

(* The properties the configuration writes: those that differ, and every   *)
(* head's priority.                                                        *)
Configuration(s, plan) ==
    LET live == LiveHeads(s)
        head(d) == HeadShown(s, d)
        want(d) == Target(head(d), Connector[d], plan)
        proxy(d) == FindMode(s, d, want(d).mode)
        D == ToSet(live)
        lit == {d \in D : want(d).on}
        moded == {d \in lit : /\ want(d).mode \notin {None, head(d).mode}
                              /\ proxy(d) # None}
        placed == {d \in lit : want(d).place \notin {None, head(d).place}}
    IN [on |-> [d \in {x \in D : want(x).on # head(x).on} |-> want(d).on],
        mode |-> [d \in moded |-> proxy(d)],
        place |-> [d \in placed |-> want(d).place],
        prio |-> [d \in D |-> Priority(live, plan, CHOOSE i \in DOMAIN live : live[i] = d)]]

(* restore: "Bring back real outputs before removing Plasma's current      *)
(* screen."                                                                *)
Applications(plan) ==
    IF DOMAIN plan.en # {} /\ plan.dis # {} THEN <<[plan EXCEPT !.dis = {}], plan>>
    ELSE <<plan>>
=============================================================================
