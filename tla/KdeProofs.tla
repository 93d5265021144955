----------------------------- MODULE KdeProofs ------------------------------
(***************************************************************************)
(* Proofs about KdeSession, for any outputs, modes and plans and any       *)
(* number of calls and changes.                                            *)
(*                                                                         *)
(* First the verdicts: what apply returns is KWin's answer to the          *)
(* configurations of the call itself (VInv).                               *)
(*                                                                         *)
(* Then, with the events that are under way the State shows of every       *)
(* output what KWin has told this client of it, and a snapshot is fresh.   *)
(* The argument in the order of the sections: sequences; the State after   *)
(* each of a sequence of events (At, After); the view of one output, and   *)
(* that an event changes only the view of the output it is about           *)
(* (ViewHandled); where a sequence of events leads a view (Leads), for     *)
(* everything KWin sends of an output and then of all of them (Tells); the *)
(* invariant (SInv); every action of KWin and of the client; the theorems. *)
(***************************************************************************)
EXTENDS KdeSession, SequenceProofs

-----------------------------------------------------------------------------
(* Events that are not about configurations, and requests that send none.  *)
Deciding == {"failure_reason", "applied", "failed"}
Quiet(s) == IsSeq(s) /\ \A i \in 1..Len(s) : s[i].ev \notin Deciding
Tame(s) == IsSeq(s) /\ \A i \in 1..Len(s) : s[i].do # "apply"

LEMMA QuietJoined ==
    ASSUME NEW s, NEW t, Quiet(s), Quiet(t)
    PROVE  Quiet(s \o t)
<1>1. IsSeq(s) /\ IsSeq(t)
  BY DEF Quiet
<1>2. ASSUME NEW i \in 1..Len(s \o t) PROVE (s \o t)[i].ev \notin Deciding
  <2>1. CASE i \in 1..Len(s)
    BY <1>1, <2>1, Joined DEF Quiet
  <2>2. CASE i \notin 1..Len(s)
    BY <1>1, <2>2, Joined DEF Quiet
  <2> QED
    BY <2>1, <2>2
<1> QED
  BY <1>1, <1>2, Joined DEF Quiet

LEMMA QuietFlat ==
    ASSUME NEW s, IsSeq(s), \A j \in 1..Len(s) : Quiet(s[j])
    PROVE  Quiet(FlattenSeq(s))
BY FlattenHas DEF Quiet

LEMMA TameFlat ==
    ASSUME NEW s, IsSeq(s), \A j \in 1..Len(s) : Tame(s[j])
    PROVE  Tame(FlattenSeq(s))
BY FlattenHas DEF Tame

LEMMA QuietOne ==
    ASSUME NEW ev, NEW of, NEW val, ev \notin Deciding
    PROVE  Quiet(<<Event(ev, of, val)>>)
BY OneLong DEF Quiet, Event

LEMMA QuietIf == ASSUME NEW c, NEW s, Quiet(s) PROVE Quiet(If(c, s))
BY Nothing DEF Quiet, If

LEMMA QuietNone == Quiet(<< >>)
BY Nothing DEF Quiet

-----------------------------------------------------------------------------
(* What KWin sends of its outputs.                                         *)
HeadNames == {"at", "told", "on", "prio", "place", "modes", "mode"}
Outputs ==
    /\ heads = [d \in Dev |-> heads[d]]
    /\ \A d \in Dev : DOMAIN heads[d] = HeadNames /\ IsSeq(heads[d].modes)

LEMMA DevsAre == Len(Connector) \in Nat /\ Dev = 1..Len(Connector)
BY Names DEF Dev

LEMMA PerDevice ==
    ASSUME NEW f, DOMAIN f = Dev, f = [d \in Dev |-> f[d]]
    PROVE  IsSeq(f) /\ Len(f) = Len(Connector)
BY DevsAre, FunIsSeq

LEMMA BurstIsQuiet == ASSUME Outputs, NEW d \in Dev PROVE Quiet(Burst(d))
<1> DEFINE h == heads[d]
           each == [i \in DOMAIN h.modes |-> NewMode(d, h.modes[i])]
           first == <<Event("name", d, None), Event("geometry", d, h.place)>>
           last == <<Event("enabled", d, h.on), Event("done", d, None)>>
<1>1. IsSeq(each) /\ Len(each) = Len(h.modes)
  <2>1. IsSeq(h.modes)
    BY DEF Outputs
  <2>2. Len(h.modes) \in Nat /\ DOMAIN h.modes = 1..Len(h.modes)
    BY <2>1, SeqHas
  <2>3. DOMAIN each = 1..Len(h.modes) /\ each = [i \in 1..Len(h.modes) |-> each[i]]
    BY <2>2
  <2> HIDE DEF each
  <2> QED
    BY <2>2, <2>3, FunIsSeq
<1>2. ASSUME NEW k PROVE Quiet(NewMode(d, k))
  <2>1. NewMode(d, k) = <<Event("mode", d, k)>> \o <<Event("size_refresh", d, k)>>
    BY DEF NewMode
  <2> QED
    BY <2>1, QuietOne, QuietJoined DEF Deciding
<1>3. Quiet(FlattenSeq(each))
  <2>1. DOMAIN each = 1..Len(each)
    BY <1>1, SeqHas
  <2>2. \A j \in 1..Len(each) : each[j] = NewMode(d, h.modes[j])
    BY <2>1
  <2> HIDE DEF each
  <2> QED
    BY <1>1, <1>2, <2>2, QuietFlat
<1>4. Quiet(first)
  <2>1. first = <<Event("name", d, None)>> \o <<Event("geometry", d, h.place)>>
    OBVIOUS
  <2> QED
    BY <2>1, QuietOne, QuietJoined DEF Deciding
<1>5. Quiet(last)
  <2>1. last = <<Event("enabled", d, h.on)>> \o <<Event("done", d, None)>>
    OBVIOUS
  <2> QED
    BY <2>1, QuietOne, QuietJoined DEF Deciding
<1>6. Quiet(Current(d, h.mode))
  BY QuietOne, QuietNone DEF Current, Deciding
<1>7. Burst(d) = ((first \o FlattenSeq(each)) \o Current(d, h.mode)) \o last
  BY DEF Burst
<1> HIDE DEF first, last, each, h
<1> QED
  BY <1>3, <1>4, <1>5, <1>6, <1>7, QuietJoined

LEMMA NewsIsQuiet == ASSUME NEW d, NEW h PROVE Quiet(News(d, h))
<1> DEFINE place == If(h.place # heads[d].place, <<Event("geometry", d, h.place)>>)
           mode == If(h.mode # heads[d].mode, Current(d, h.mode))
           on == If(h.on # heads[d].on, <<Event("enabled", d, h.on)>>)
           done == <<Event("done", d, None)>>
<1>1. Quiet(place) /\ Quiet(on) /\ Quiet(done)
  BY QuietOne, QuietIf DEF Deciding
<1>2. Quiet(mode)
  BY QuietOne, QuietIf, QuietNone DEF Deciding, Current
<1>3. News(d, h) = If(heads[d].told = "described" /\ Shown(h) # Shown(heads[d]),
                      ((place \o mode) \o on) \o done)
  BY DEF News
<1> HIDE DEF place, mode, on, done
<1> QED
  BY <1>1, <1>2, <1>3, QuietJoined, QuietIf

-----------------------------------------------------------------------------
(* The handlers.                                                           *)
StNames == {"manager", "alive", "registry", "devices", "dev", "modes", "info",
            "result", "reason", "cfgs"}

(* Only a configuration's events touch the slots of its result.            *)
LEMMA ElseHandled ==
    ASSUME NEW s, DOMAIN s = StNames, NEW e, e.ev \notin Deciding
    PROVE  LET t == Handled(s, e) IN
           DOMAIN t = StNames /\ t.result = s.result /\ t.reason = s.reason /\ t.cfgs = s.cfgs
<1> DEFINE Same(t) == DOMAIN t = StNames /\ t.result = s.result /\ t.reason = s.reason
                      /\ t.cfgs = s.cfgs
<1>0. Same(s)
  OBVIOUS
<1>1. ASSUME NEW d PROVE Same(RemoveDevice(s, d))
  BY DEF RemoveDevice, StNames
<1>2. CASE e.ev \in {"manager", "manager_gone", "registry", "registry_gone",
                     "global", "global_remove"}
  <2>1. Handled(s, e) = RegistryEvent(s, e)
    BY <1>2 DEF Handled
  <2>2. CASE e.ev = "manager"
    BY <2>1, <2>2 DEF RegistryEvent, StNames
  <2>3. CASE e.ev = "manager_gone"
    BY <2>1, <2>3 DEF RegistryEvent, StNames
  <2>4. CASE e.ev = "registry"
    BY <2>1, <2>4 DEF RegistryEvent, StNames
  <2>5. CASE e.ev = "registry_gone"
    BY <2>1, <2>5 DEF RegistryEvent, StNames
  <2>6. CASE e.ev = "global"
    BY <2>1, <2>6 DEF RegistryEvent, StNames
  <2>7. CASE e.ev = "global_remove"
    <3>1. RegistryEvent(s, e) = RemoveDevice(s, e.of)
      BY <2>7 DEF RegistryEvent
    <3> QED
      BY <1>1, <2>1, <3>1
  <2> QED
    BY <1>2, <2>2, <2>3, <2>4, <2>5, <2>6, <2>7
<1>3. CASE e.ev = "output"
  BY <1>3 DEF Handled, StNames
<1>4. CASE e.ev = "removed"
  <2>1. Handled(s, e) = RemoveDevice(s, e.of)
    BY <1>4 DEF Handled
  <2> QED
    BY <1>1, <2>1
<1>5. CASE e.ev \in {"mode_removed", "size_refresh"}
  <2>1. Handled(s, e) = ModeEvent(s, e)
    BY <1>5 DEF Handled
  <2>2. Same(RemoveMode(s, e.of, e.val))
    BY DEF RemoveMode, StNames
  <2>3. Same([s EXCEPT !.info = @ \cup {<<e.of, e.val>>}])
    BY DEF StNames
  <2>4. \/ ModeEvent(s, e) = RemoveMode(s, e.of, e.val)
        \/ ModeEvent(s, e) = [s EXCEPT !.info = @ \cup {<<e.of, e.val>>}]
        \/ ModeEvent(s, e) = s
    BY <1>5 DEF ModeEvent
  <2> HIDE DEF Same
  <2> QED
    BY <1>0, <2>1, <2>2, <2>3, <2>4 DEF Same
<1>6. CASE e.ev = "synced"
  BY <1>6 DEF Handled
<1>7. CASE e.ev \notin {"manager", "manager_gone", "registry", "registry_gone", "global",
                        "global_remove", "output", "removed", "mode_removed", "size_refresh",
                        "synced"}
  <2>1. Handled(s, e) = DeviceEvent(s, e)
    BY <1>7 DEF Handled, Deciding
  <2>2. CASE ~Contains(s.devices, e.of)
    BY <2>1, <2>2 DEF DeviceEvent
  <2>3. CASE Contains(s.devices, e.of)
    <3>1. CASE e.ev \in {"name", "enabled", "current_mode", "geometry"}
      BY <2>1, <2>3, <3>1 DEF DeviceEvent, StNames
    <3>2. CASE e.ev = "mode"
      BY <2>1, <2>3, <3>2 DEF DeviceEvent, StNames
    <3>3. CASE e.ev = "done"
      BY <2>1, <2>3, <3>3 DEF DeviceEvent, StNames
    <3>4. CASE e.ev \notin {"name", "enabled", "current_mode", "geometry", "mode", "done"}
      BY <2>1, <2>3, <3>4 DEF DeviceEvent
    <3> QED
      BY <3>1, <3>2, <3>3, <3>4
  <2> QED
    BY <2>2, <2>3
<1> QED
  BY <1>2, <1>3, <1>4, <1>5, <1>6, <1>7

(* And only those of a configuration that is not destroyed.                *)
LEMMA DecidingHandled ==
    ASSUME NEW s, DOMAIN s = StNames, NEW e, e.ev \in Deciding
    PROVE  LET t == Handled(s, e) IN
           /\ DOMAIN t = StNames /\ t.cfgs = s.cfgs
           /\ e.of \notin s.cfgs => t = s
           /\ e.of \in s.cfgs =>
                /\ e.ev = "failure_reason" => t.reason = e.val /\ t.result = s.result
                /\ e.ev = "applied" =>
                      t.result = [is |-> "applied", why |-> None] /\ t.reason = s.reason
                /\ e.ev = "failed" =>
                      t.result = [is |-> "failed", why |-> s.reason] /\ t.reason = None
<1>1. Handled(s, e) = ConfigurationEvent(s, e)
  BY DEF Handled, Deciding
<1>2. CASE e.of \notin s.cfgs
  BY <1>1, <1>2 DEF ConfigurationEvent
<1>3. CASE e.of \in s.cfgs /\ e.ev = "failure_reason"
  BY <1>1, <1>3 DEF ConfigurationEvent, StNames
<1>4. CASE e.of \in s.cfgs /\ e.ev = "applied"
  BY <1>1, <1>4 DEF ConfigurationEvent, StNames
<1>5. CASE e.of \in s.cfgs /\ e.ev = "failed"
  BY <1>1, <1>5 DEF ConfigurationEvent, StNames
<1> QED
  BY <1>2, <1>3, <1>4, <1>5 DEF Deciding

-----------------------------------------------------------------------------
(* The argument.  A configuration that KWin has not decided yet is at one  *)
(* place only, in a request or with KWin (Pending); what KWin says of a    *)
(* configuration is what has become of it, and is said once (Answers); so  *)
(* what the State has heard of the configuration at hand, the last one, is *)
(* part of that, and the rest is on its way (Waiting); and the earlier     *)
(* ones of the call have been applied (Mine).                              *)
MeNames == {"at", "then", "synced", "late", "calls", "call", "plan", "todo", "out",
            "why", "snap"}
HistNames == {"before", "alone", "seen", "fate", "sent"}

Applied == [is |-> "applied", why |-> None]
Failures == [is : {"failed"}, why : Nat \cup {None}]

Shapes ==
    /\ Outputs /\ IsSeq(wire) /\ IsSeq(req) /\ IsSeq(hist.fate)
    /\ DOMAIN st = StNames /\ DOMAIN me = MeNames /\ DOMAIN hist = HistNames
    /\ hist.sent \in 0..Len(hist.fate)
    /\ me.why \in Nat \cup {None}
    /\ \A i \in 1..Len(hist.fate) : hist.fate[i] \in {None, Applied} \cup Failures

Open(c) == c.id \in 1..Len(hist.fate) /\ hist.fate[c.id] = None
Pending ==
    /\ \A i \in 1..Len(req) : req[i].do = "apply" => Open(req[i].of)
    /\ \A i, j \in 1..Len(req) :
          req[i].do = "apply" /\ req[j].do = "apply" /\ req[i].of.id = req[j].of.id => i = j
    /\ \A i \in 1..Len(req), c \in inbox : req[i].do = "apply" => req[i].of.id # c.id
    /\ \A c \in inbox : Open(c)
    /\ \A b, c \in inbox : b.id = c.id => b = c

Final(e) == e.ev \in {"applied", "failed"}
Says(e, f) ==
    /\ e.of \in 1..Len(f) /\ f[e.of] # None
    /\ e.ev = "applied" => f[e.of] = Applied
    /\ e.ev = "failed" => f[e.of] = [is |-> "failed", why |-> f[e.of].why]
    /\ e.ev = "failure_reason" => e.val = f[e.of].why
Answers ==
    /\ \A i \in 1..Len(wire) : wire[i].ev \in Deciding => Says(wire[i], hist.fate)
    /\ \A i, j \in 1..Len(wire) :
          Final(wire[i]) /\ Final(wire[j]) /\ wire[i].of = wire[j].of => i = j

(* State s, when the first i events of w have been handled.                *)
Waiting(s, w, i, f) ==
    LET k == Len(f) IN
    /\ s.cfgs = {k}
    /\ s.result # None =>
          s.result = f[k] /\ \A j \in (i + 1)..Len(w) : Final(w[j]) => w[j].of # k
    /\ s.reason # None => f[k] # None /\ s.reason = f[k].why
    /\ \A j \in (i + 1)..Len(w) : w[j].ev = "failed" /\ w[j].of = k =>
          \/ s.reason = f[k].why
          \/ \E m \in (i + 1)..(j - 1) : w[m].ev = "failure_reason" /\ w[m].of = k

Mine ==
    /\ me.at = "off" => me.out = None
    /\ me.at \notin {"wait", "sleep"} => me.then = None
    /\ me.at = "sleep" => me.then = "verdict"
    /\ me.then = "snapshot" => me.call # "apply"
    /\ me.then # None => me.out = None
    /\ me.then = "verdict" =>
          hist.sent < Len(hist.fate) /\ Waiting(st, wire, 0, hist.fate)
    /\ me.then # "verdict" => st.cfgs = {}
    /\ me.then \in {"refresh", "verdict"} =>
          \A i \in 1..Len(hist.fate) :
              i > hist.sent /\ (me.then = "verdict" => i < Len(hist.fate)) =>
                  hist.fate[i] = Applied

VInv == Shapes /\ Pending /\ Answers /\ Mine /\ VerdictOurs

-----------------------------------------------------------------------------
(* One event handled.                                                      *)
LEMMA OneHandled ==
    ASSUME Shapes, Answers, NEW s, DOMAIN s = StNames, NEW i \in Nat, i < Len(wire),
           Waiting(s, wire, i, hist.fate)
    PROVE  LET t == Handled(s, wire[i + 1]) IN
           DOMAIN t = StNames /\ Waiting(t, wire, i + 1, hist.fate)
<1> DEFINE Heard(x) ==
             /\ x.cfgs = {Len(hist.fate)}
             /\ x.result # None =>
                   /\ x.result = hist.fate[Len(hist.fate)]
                   /\ \A j \in ((i + 1) + 1)..Len(wire) :
                          Final(wire[j]) => wire[j].of # Len(hist.fate)
             /\ x.reason # None =>
                   /\ hist.fate[Len(hist.fate)] # None
                   /\ x.reason = hist.fate[Len(hist.fate)].why
             /\ \A j \in ((i + 1) + 1)..Len(wire) :
                   wire[j].ev = "failed" /\ wire[j].of = Len(hist.fate) =>
                      \/ x.reason = hist.fate[Len(hist.fate)].why
                      \/ \E m \in ((i + 1) + 1)..(j - 1) :
                            wire[m].ev = "failure_reason" /\ wire[m].of = Len(hist.fate)
<1>a. \A x : Heard(x) => Waiting(x, wire, i + 1, hist.fate)
  BY DEF Waiting
<1> DEFINE e == wire[i + 1]
           t == Handled(s, e)
           k == Len(hist.fate)
           f == hist.fate
           L == Len(wire)
<1>0. L \in Nat /\ k \in Nat /\ i + 1 \in 1..L /\ i + 1 \in Nat
  BY SeqHas DEF Shapes
<1>1. \A j \in ((i + 1) + 1)..L : j \in (i + 1)..L /\ j \in 1..L /\ j # i + 1
  BY <1>0
<1>2. /\ s.cfgs = {k}
      /\ s.result # None => s.result = f[k] /\ \A j \in (i + 1)..L : Final(wire[j]) => wire[j].of # k
      /\ s.reason # None => f[k] # None /\ s.reason = f[k].why
      /\ \A j \in (i + 1)..L : wire[j].ev = "failed" /\ wire[j].of = k =>
            \/ s.reason = f[k].why
            \/ \E m \in (i + 1)..(j - 1) : wire[m].ev = "failure_reason" /\ wire[m].of = k
  BY DEF Waiting
<1>3. ASSUME e.ev \notin Deciding \/ e.of # k
      PROVE  DOMAIN t = StNames /\ Heard(t)
  <2>1. DOMAIN t = StNames /\ t.result = s.result /\ t.reason = s.reason /\ t.cfgs = s.cfgs
    BY <1>2, <1>3, ElseHandled, DecidingHandled
  <2>2. ASSUME NEW j \in ((i + 1) + 1)..L, wire[j].ev = "failed", wire[j].of = k,
               s.reason # f[k].why
        PROVE  \E m \in ((i + 1) + 1)..(j - 1) : wire[m].ev = "failure_reason" /\ wire[m].of = k
    <3>1. PICK m \in (i + 1)..(j - 1) : wire[m].ev = "failure_reason" /\ wire[m].of = k
      BY <1>1, <1>2, <2>2
    <3>2. m # i + 1
      BY <1>3, <3>1 DEF Deciding
    <3>3. m \in ((i + 1) + 1)..(j - 1)
      BY <1>0, <3>1, <3>2
    <3> QED
      BY <3>1, <3>3
  <2> HIDE DEF t
  <2> QED
    BY <1>0, <1>1, <1>2, <2>1, <2>2
<1>4. ASSUME e.ev \in Deciding, e.of = k
      PROVE  DOMAIN t = StNames /\ Heard(t)
  <2>1. Says(e, f)
    BY <1>0, <1>4 DEF Answers
  <2>2. /\ DOMAIN t = StNames /\ t.cfgs = s.cfgs
        /\ e.ev = "failure_reason" => t.reason = e.val /\ t.result = s.result
        /\ e.ev = "applied" => t.result = Applied /\ t.reason = s.reason
        /\ e.ev = "failed" => t.result = [is |-> "failed", why |-> s.reason] /\ t.reason = None
    BY <1>2, <1>4, DecidingHandled DEF Applied
  <2>3. Final(e) => \A j \in ((i + 1) + 1)..L : Final(wire[j]) => wire[j].of # k
    BY <1>0, <1>1, <1>4 DEF Answers
  <2>4. CASE e.ev = "failure_reason"
    <3>1. t.reason = f[k].why /\ t.result = s.result /\ f[k] # None
      BY <1>4, <2>1, <2>2, <2>4 DEF Says
    <3> HIDE DEF t
    <3> QED
      BY <1>0, <1>1, <1>2, <2>2, <3>1
  <2>5. CASE e.ev = "applied"
    <3>1. t.reason = s.reason /\ t.result = f[k]
      BY <1>4, <2>1, <2>2, <2>5 DEF Says
    <3>2. \A j \in ((i + 1) + 1)..L : ~(wire[j].ev = "failed" /\ wire[j].of = k)
      BY <2>3, <2>5 DEF Final
    <3> HIDE DEF t
    <3> QED
      BY <1>0, <1>1, <1>2, <2>2, <2>3, <2>5, <3>1, <3>2 DEF Final
  <2>6. CASE e.ev = "failed"
    <3>1. s.reason = f[k].why
      <4>1. ~ \E m \in (i + 1)..((i + 1) - 1) : TRUE
        BY <1>0
      <4>2. i + 1 \in (i + 1)..L
        BY <1>0
      <4> QED
        BY <1>2, <1>4, <2>6, <4>1, <4>2
    <3>2. t.result = f[k] /\ t.reason = None
      BY <1>4, <2>1, <2>2, <2>6, <3>1 DEF Says
    <3>3. \A j \in ((i + 1) + 1)..L : ~(wire[j].ev = "failed" /\ wire[j].of = k)
      BY <2>3, <2>6 DEF Final
    <3> HIDE DEF t
    <3> QED
      BY <1>0, <1>2, <2>2, <2>3, <2>6, <3>2, <3>3 DEF Final
  <2> QED
    BY <1>4, <2>4, <2>5, <2>6 DEF Deciding
<1> QED
  BY <1>3, <1>4, <1>a

(* All that is handled.                                                    *)
Stepped(S, e) == {Handled(s, e) : s \in S}

LEMMA Folds ==
    ASSUME NEW n \in Nat
    PROVE  \E g : /\ g = [i \in 0..n |-> IF i = 0 THEN {st}
                                         ELSE Stepped(g[i - 1], wire[i])]
                  /\ CaughtUpTo(n) = g[n]
<1> DEFINE Is(f, m) == f = [i \in 0..m |-> IF i = 0 THEN {st}
                                           ELSE Stepped(f[i - 1], wire[i])]
           Good == {m \in Nat : \E f : Is(f, m)}
<1>1. 0 \in Good
  <2> DEFINE g == [i \in 0..0 |-> {st}]
  <2>1. Is(g, 0)
    <3>1. \A i \in 0..0 : i = 0
      OBVIOUS
    <3>2. \A i \in 0..0 : g[i] = IF i = 0 THEN {st}
                                 ELSE Stepped(g[i - 1], wire[i])
      BY <3>1
    <3>3. DOMAIN g = 0..0 /\ g = [i \in 0..0 |-> g[i]]
      OBVIOUS
    <3> HIDE DEF g
    <3> QED
      BY <3>2, <3>3
  <2> HIDE DEF Is
  <2> QED
    BY <2>1
<1>2. ASSUME NEW m \in Good \cap Nat PROVE m + 1 \in Good
  <2>1. PICK f : Is(f, m)
    OBVIOUS
  <2> DEFINE g == [i \in 0..(m + 1) |-> IF i <= m THEN f[i]
                                        ELSE Stepped(f[m], wire[i])]
  <2>2. \A i \in 0..m : f[i] = IF i = 0 THEN {st}
                               ELSE Stepped(f[i - 1], wire[i])
    BY <2>1
  <2>3. ASSUME NEW i \in 0..(m + 1)
        PROVE  g[i] = IF i = 0 THEN {st} ELSE Stepped(g[i - 1], wire[i])
    <3>1. CASE i <= m
      <4>1. g[i] = f[i] /\ (i = 0 \/ g[i - 1] = f[i - 1])
        BY <3>1
      <4>2. f[i] = IF i = 0 THEN {st} ELSE Stepped(f[i - 1], wire[i])
        <5>1. i \in 0..m
          BY <3>1
        <5> QED
          BY <2>2, <5>1, Zenon
      <4> HIDE DEF g
      <4>3. CASE i = 0
        BY <4>1, <4>2, <4>3
      <4>4. CASE i # 0
        <5>1. g[i - 1] = f[i - 1]
          BY <4>1, <4>4
        <5> QED
          BY <4>1, <4>2, <4>4, <5>1
      <4> QED
        BY <4>3, <4>4
    <3>2. CASE i = m + 1
      <4>1. i # 0 /\ i - 1 = m /\ g[m] = f[m] /\ g[i] = Stepped(f[m], wire[i])
        BY <3>2
      <4> HIDE DEF g
      <4> QED
        BY <4>1
    <3> QED
      BY <3>1, <3>2
  <2>4. DOMAIN g = 0..(m + 1) /\ g = [i \in 0..(m + 1) |-> g[i]]
    OBVIOUS
  <2> HIDE DEF g
  <2>5. Is(g, m + 1)
    BY <2>3, <2>4
  <2> HIDE DEF Is
  <2> QED
    BY <2>5
<1> HIDE DEF Good
<1>3. n \in Good
  BY <1>1, <1>2, AllNat
<1>4. \E f : Is(f, n)
  BY <1>3 DEF Good
<1> DEFINE F == CHOOSE f : Is(f, n)
<1>5. Is(F, n)
  <2> HIDE DEF Is
  <2> QED
    BY <1>4
<1>6. CaughtUpTo(n) = F[n]
  BY DEF CaughtUpTo, Stepped
<1> HIDE DEF F
<1> QED
  BY <1>5, <1>6

LEMMA AllHandled ==
    ASSUME Shapes, Answers, NEW n \in 0..Len(wire), NEW s \in CaughtUpTo(n)
    PROVE  /\ DOMAIN s = StNames /\ s.cfgs = st.cfgs
           /\ Waiting(st, wire, 0, hist.fate) => Waiting(s, wire, n, hist.fate)
<1>0. Len(wire) \in Nat /\ n \in Nat
  BY SeqHas DEF Shapes
<1>1. PICK g : /\ g = [i \in 0..n |-> IF i = 0 THEN {st}
                                      ELSE Stepped(g[i - 1], wire[i])]
               /\ CaughtUpTo(n) = g[n]
  BY <1>0, Folds
<1>2. \A i \in 0..n : g[i] = IF i = 0 THEN {st} ELSE Stepped(g[i - 1], wire[i])
  BY <1>1
<1> DEFINE Kept(x, i) == /\ DOMAIN x = StNames /\ x.cfgs = st.cfgs
                         /\ Waiting(st, wire, 0, hist.fate) => Waiting(x, wire, i, hist.fate)
           Good == {i \in Nat : i <= n => \A x \in g[i] : Kept(x, i)}
<1>3. 0 \in Good
  <2>1. g[0] = {st}
    BY <1>0, <1>2
  <2>2. Kept(st, 0)
    BY DEF Shapes
  <2> HIDE DEF Kept
  <2> QED
    BY <2>1, <2>2
<1>4. ASSUME NEW i \in Good \cap Nat PROVE i + 1 \in Good
  <2> SUFFICES ASSUME i + 1 <= n, NEW y \in g[i + 1] PROVE Kept(y, i + 1)
    OBVIOUS
  <2>1. i + 1 \in 0..n /\ i + 1 # 0 /\ (i + 1) - 1 = i /\ i <= n /\ i < Len(wire)
    BY <1>0
  <2>2. PICK x \in g[i] : y = Handled(x, wire[i + 1])
    BY <1>2, <2>1 DEF Stepped
  <2>3. Kept(x, i)
    BY <2>1
  <2>4. DOMAIN y = StNames /\ y.cfgs = x.cfgs
    BY <2>2, <2>3, ElseHandled, DecidingHandled
  <2>5. Waiting(x, wire, i, hist.fate) => Waiting(y, wire, i + 1, hist.fate)
    BY <2>1, <2>2, <2>3, OneHandled
  <2> QED
    BY <2>3, <2>4, <2>5
<1> HIDE DEF Good
<1>5. n \in Good
  BY <1>0, <1>3, <1>4, AllNat
<1> QED
  BY <1>1, <1>5 DEF Good

-----------------------------------------------------------------------------
(* What every step does to a part of it.                                   *)
LEMMA NothingIs ==
    /\ None \notin {"globals", "burst", "snapshot", "refresh", "verdict"}
    /\ None \notin {"ok", "failed"}
    /\ Applied # None
    /\ None \notin Failures
    /\ \A n \in Nat \cup {None} : [is |-> "failed", why |-> n] \in Failures
BY NoneIsNothing DEF Applied, Failures

LEMMA SaysKept ==
    ASSUME NEW f, NEW g, Len(f) \in Nat, Len(g) \in Nat, Len(f) <= Len(g),
           \A i \in 1..Len(f) : f[i] # None => g[i] = f[i],
           NEW e, Says(e, f)
    PROVE  Says(e, g)
BY DEF Says

(* Requests that apply nothing are added.                                  *)
LEMMA PendingTame ==
    ASSUME Shapes, Pending, NEW t, Tame(t), req' = req \o t, inbox' = inbox,
           hist'.fate = hist.fate
    PROVE  IsSeq(req)' /\ Pending'
<1>1. IsSeq(req) /\ IsSeq(t) /\ Len(req) \in Nat
  BY SeqHas DEF Shapes, Tame
<1>2. IsSeq(req') /\ Len(req') \in Nat
  BY <1>1, Joined, SeqHas
<1>3. ASSUME NEW i \in 1..Len(req'), req'[i].do = "apply"
      PROVE  i \in 1..Len(req) /\ req'[i] = req[i]
  <2>1. CASE i \in 1..Len(req)
    BY <1>1, <2>1, Joined
  <2>2. CASE i \notin 1..Len(req)
    <3>1. i - Len(req) \in 1..Len(t) /\ req'[i] = t[i - Len(req)]
      BY <1>1, <2>2, Joined
    <3> QED
      BY <1>3, <3>1 DEF Tame
  <2> QED
    BY <2>1, <2>2
<1>4. \A c : Open(c)' <=> Open(c)
  BY DEF Open
<1> QED
  BY <1>2, <1>3, <1>4 DEF Pending

LEMMA TameSync == Tame(<<Sync>>) /\ Tame(<< >>)
BY OneLong, Nothing DEF Tame, Sync

LEMMA NoNews == ASSUME IsSeq(req) PROVE req \o << >> = req
<1>1. req \in Seq({req[i] : i \in DOMAIN req})
  BY DEF IsSeq
<1> HIDE DEF IsSeq
<1> QED
  BY <1>1

LEMMA FromNow ==
    ASSUME NEW s, NEW w, NEW f
    PROVE  Waiting(s, w, 0, f) <=>
              /\ s.cfgs = {Len(f)}
              /\ s.result # None => /\ s.result = f[Len(f)]
                                    /\ \A j \in 1..Len(w) : Final(w[j]) => w[j].of # Len(f)
              /\ s.reason # None => f[Len(f)] # None /\ s.reason = f[Len(f)].why
              /\ \A j \in 1..Len(w) : w[j].ev = "failed" /\ w[j].of = Len(f) =>
                    \/ s.reason = f[Len(f)].why
                    \/ \E m \in 1..(j - 1) : w[m].ev = "failure_reason" /\ w[m].of = Len(f)
<1>1. 0 + 1 = 1
  OBVIOUS
<1> QED
  BY <1>1 DEF Waiting

(* Events about other things are added.                                    *)
LEMMA QuietAdds ==
    ASSUME NEW w, NEW q, IsSeq(w), Quiet(q)
    PROVE  /\ IsSeq(w \o q) /\ Len(w) \in Nat /\ Len(w \o q) \in Nat /\ Len(w) <= Len(w \o q)
           /\ \A j \in 1..Len(w \o q) : (w \o q)[j].ev \in Deciding =>
                  j \in 1..Len(w) /\ (w \o q)[j] = w[j]
           /\ \A j \in 1..Len(w) : (w \o q)[j] = w[j]
<1>1. IsSeq(q) /\ IsSeq(w \o q) /\ Len(w) \in Nat /\ Len(w \o q) \in Nat
      /\ Len(w) <= Len(w \o q)
  BY Joined, SeqHas DEF Quiet
<1>2. ASSUME NEW j \in 1..Len(w \o q), (w \o q)[j].ev \in Deciding
      PROVE  j \in 1..Len(w) /\ (w \o q)[j] = w[j]
  <2>1. CASE j \in 1..Len(w)
    BY <1>1, <2>1, Joined
  <2>2. CASE j \notin 1..Len(w)
    <3>1. j - Len(w) \in 1..Len(q) /\ (w \o q)[j] = q[j - Len(w)]
      BY <1>1, <2>2, Joined
    <3> QED
      BY <1>2, <3>1 DEF Quiet
  <2> QED
    BY <2>1, <2>2
<1>3. \A m \in 1..Len(w) : (w \o q)[m] = w[m]
  BY <1>1, Joined
<1> QED
  BY <1>1, <1>2, <1>3

LEMMA WaitingQuiet ==
    ASSUME NEW s, NEW w, NEW q, NEW f, IsSeq(w), Quiet(q), Waiting(s, w, 0, f)
    PROVE  Waiting(s, w \o q, 0, f)
<1>1. Len(w) \in Nat
  BY QuietAdds
<1>2. \A j \in 1..Len(w \o q) : (w \o q)[j].ev \in Deciding =>
          j \in 1..Len(w) /\ (w \o q)[j] = w[j]
  BY QuietAdds
<1>3. \A m \in 1..Len(w) : (w \o q)[m] = w[m]
  BY QuietAdds
<1>4. ASSUME NEW j \in 1..Len(w \o q), (w \o q)[j].ev = "failed", (w \o q)[j].of = Len(f),
             s.reason # f[Len(f)].why
      PROVE  \E m \in 1..(j - 1) : (w \o q)[m].ev = "failure_reason" /\ (w \o q)[m].of = Len(f)
  <2>1. j \in 1..Len(w) /\ (w \o q)[j] = w[j]
    BY <1>2, <1>4 DEF Deciding
  <2>2. PICK m \in 1..(j - 1) : w[m].ev = "failure_reason" /\ w[m].of = Len(f)
    BY <1>4, <2>1 DEF Waiting
  <2>3. m \in 1..Len(w)
    BY <1>1, <2>1
  <2> QED
    BY <1>3, <2>2, <2>3
<1>5. \A j \in 1..Len(w \o q) : Final((w \o q)[j]) =>
          j \in 1..Len(w) /\ (w \o q)[j] = w[j]
  BY <1>2 DEF Final, Deciding
<1> QED
  BY <1>4, <1>5 DEF Waiting

LEMMA MoreNews ==
    ASSUME VInv, NEW q, Quiet(q), wire' = wire \o q, st' = st, me' = me, Outputs',
           DOMAIN hist' = HistNames, hist'.fate = hist.fate, hist'.sent = hist.sent,
           IsSeq(req)', Pending'
    PROVE  VInv'
<1>1. IsSeq(wire)
  BY DEF VInv, Shapes
<1>2. Shapes'
  <2>1. IsSeq(wire)'
    BY <1>1, QuietAdds
  <2> QED
    BY <2>1 DEF VInv, Shapes
<1>3. Answers'
  <2>1. \A j \in 1..Len(wire') : wire'[j].ev \in Deciding =>
            j \in 1..Len(wire) /\ wire'[j] = wire[j]
    BY <1>1, QuietAdds
  <2>2. \A j \in 1..Len(wire') : Final(wire'[j]) =>
            j \in 1..Len(wire) /\ wire'[j] = wire[j] /\ Final(wire[j])
    BY <2>1 DEF Final, Deciding
  <2> QED
    BY <2>1, <2>2 DEF VInv, Answers
<1>4. Mine'
  <2>1. Waiting(st, wire, 0, hist.fate) => Waiting(st', wire', 0, hist'.fate)
    BY <1>1, WaitingQuiet
  <2> QED
    BY <2>1 DEF VInv, Mine
<1>5. VerdictOurs'
  BY DEF VInv, VerdictOurs, Applying
<1> QED
  BY <1>2, <1>3, <1>4, <1>5, Pending' DEF VInv

(* What happens to KWin's outputs.                                         *)
LEMMA ChangeOurs ==
    ASSUME VInv, NEW h, NEW q, Quiet(q), Change(h, q), h = [d \in Dev |-> h[d]],
           \A d \in Dev : DOMAIN h[d] = HeadNames /\ IsSeq(h[d].modes)
    PROVE  VInv'
<1>1. heads' = h /\ wire' = wire \o q /\ st' = st /\ me' = me /\ req' = req /\ inbox' = inbox
      /\ hist' = [hist EXCEPT !.seen = Seen(h), !.alone = FALSE]
  BY DEF Change
<1>2. DOMAIN hist' = HistNames /\ hist'.fate = hist.fate /\ hist'.sent = hist.sent
  BY <1>1 DEF VInv, Shapes, HistNames
<1>3. Outputs'
  BY <1>1 DEF Outputs
<1>4. IsSeq(req)' /\ Pending'
  <2>1. \A c : Open(c)' <=> Open(c)
    BY <1>2 DEF Open
  <2>2. IsSeq(req')
    BY <1>1 DEF VInv, Shapes
  <2> QED
    BY <1>1, <2>1, <2>2 DEF VInv, Pending
<1> QED
  BY <1>1, <1>2, <1>3, <1>4, MoreNews

(* One output changes.                                                     *)
LEMMA OneHead ==
    ASSUME Outputs, NEW d \in Dev, NEW x, DOMAIN x = HeadNames, IsSeq(x.modes)
    PROVE  LET h == [heads EXCEPT ![d] = x] IN
           /\ h = [e \in Dev |-> h[e]]
           /\ \A e \in Dev : DOMAIN h[e] = HeadNames /\ IsSeq(h[e].modes)
<1>1. DOMAIN heads = Dev /\ \A e \in Dev : DOMAIN heads[e] = HeadNames /\ IsSeq(heads[e].modes)
  BY DEF Outputs
<1> DEFINE h == [heads EXCEPT ![d] = x]
<1>2. DOMAIN h = Dev /\ \A e \in Dev : h[e] = IF e = d THEN x ELSE heads[e]
  BY <1>1
<1>3. h = [e \in DOMAIN h |-> h[e]]
  OBVIOUS
<1> HIDE DEF h
<1>4. h = [e \in Dev |-> h[e]]
  BY <1>2, <1>3
<1>5. \A e \in Dev : DOMAIN h[e] = HeadNames /\ IsSeq(h[e].modes)
  BY <1>1, <1>2
<1> QED
  BY <1>4, <1>5 DEF h

LEMMA PlugOurs == ASSUME VInv, NEW d \in Dev, Plug(d) PROVE VInv'
<1> DEFINE told == IF kwin.bound THEN "described"
                   ELSE IF kwin.listening /\ kwin.legacy THEN "offered" ELSE "no"
           x == [[heads[d] EXCEPT !.at = "there"] EXCEPT !.told = told]
           q == CASE told = "described" -> <<Event("output", d, None)>> \o Burst(d)
                  [] told = "offered" -> <<Event("global", d, None)>>
                  [] OTHER -> << >>
<1>1. Outputs
  BY DEF VInv, Shapes
<1>2. DOMAIN x = HeadNames /\ IsSeq(x.modes)
  BY <1>1 DEF Outputs, HeadNames
<1>3. Quiet(q)
  <2>1. Quiet(Burst(d)) /\ Quiet(<<Event("output", d, None)>>)
        /\ Quiet(<<Event("global", d, None)>>)
    BY <1>1, BurstIsQuiet, QuietOne DEF Deciding
  <2>2. Quiet(<<Event("output", d, None)>> \o Burst(d))
    BY <2>1, QuietJoined
  <2>3. told = "described" \/ told = "offered" \/ told = "no"
    OBVIOUS
  <2> HIDE DEF told
  <2> QED
    BY <2>1, <2>2, <2>3, QuietNone
<1>4. Change([heads EXCEPT ![d] = x], q)
  <2>1. [heads EXCEPT ![d] = x] = [heads EXCEPT ![d].at = "there", ![d].told = told]
    BY <1>1 DEF Outputs, HeadNames
  <2> QED
    BY <2>1 DEF Plug
<1> HIDE DEF x, q, told
<1> QED
  BY <1>1, <1>2, <1>3, <1>4, OneHead, ChangeOurs

LEMMA UnplugOurs == ASSUME VInv, NEW d \in Dev, Unplug(d) PROVE VInv'
<1> DEFINE x == [heads[d] EXCEPT !.at = "gone"]
           q == If(heads[d].told # "no",
                   <<Event(IF kwin.legacy THEN "global_remove" ELSE "removed", d, None)>>)
<1>1. Outputs
  BY DEF VInv, Shapes
<1>2. DOMAIN x = HeadNames /\ IsSeq(x.modes)
  BY <1>1 DEF Outputs, HeadNames
<1>3. Quiet(q)
  BY QuietOne, QuietIf DEF Deciding
<1>4. Change([heads EXCEPT ![d] = x], q)
  BY DEF Unplug
<1> HIDE DEF x, q
<1> QED
  BY <1>1, <1>2, <1>3, <1>4, OneHead, ChangeOurs

LEMMA RearrangeOurs == ASSUME VInv, NEW d \in Dev, Rearrange(d) PROVE VInv'
<1>1. PICK on \in BOOLEAN, place \in Place, k \in ToSet(heads[d].modes) :
          LET h == [heads[d] EXCEPT !.on = on, !.place = place, !.mode = k] IN
          Change([heads EXCEPT ![d] = h], News(d, h))
  BY DEF Rearrange
<1> DEFINE x == [heads[d] EXCEPT !.on = on, !.place = place, !.mode = k]
<1>2. Outputs
  BY DEF VInv, Shapes
<1>3. DOMAIN x = HeadNames /\ IsSeq(x.modes)
  BY <1>2 DEF Outputs, HeadNames
<1>4. Change([heads EXCEPT ![d] = x], News(d, x))
  BY <1>1
<1> HIDE DEF x
<1> QED
  BY <1>2, <1>3, <1>4, OneHead, NewsIsQuiet, ChangeOurs

LEMMA LoseModeOurs == ASSUME VInv, NEW d \in Dev, LoseMode(d) PROVE VInv'
<1> DEFINE gone(k) == If(heads[d].told = "described", <<Event("mode_removed", d, k)>>)
           x(k, next) == [heads[d] EXCEPT !.modes = Only(@, Kind \ {k}),
                                          !.mode = IF @ = k THEN next ELSE @]
<1>1. PICK k, next : \E q \in {gone(k) \o News(d, x(k, next)), News(d, x(k, next)) \o gone(k)} :
          Change([heads EXCEPT ![d] = x(k, next)], q)
  BY DEF LoseMode
<1>2. Outputs
  BY DEF VInv, Shapes
<1>3. DOMAIN x(k, next) = HeadNames /\ IsSeq(x(k, next).modes)
  BY <1>2, OnlyIsSeq DEF Outputs, HeadNames
<1>4. Quiet(gone(k))
  BY QuietOne, QuietIf DEF Deciding
<1> HIDE DEF x, gone
<1>5. Quiet(gone(k) \o News(d, x(k, next))) /\ Quiet(News(d, x(k, next)) \o gone(k))
  BY <1>4, NewsIsQuiet, QuietJoined
<1>6. PICK q : Quiet(q) /\ Change([heads EXCEPT ![d] = x(k, next)], q)
  BY <1>1, <1>5
<1> QED
  BY <1>2, <1>3, <1>6, OneHead, ChangeOurs

LEMMA GainModeOurs == ASSUME VInv, NEW d \in Dev, GainMode(d) PROVE VInv'
<1> DEFINE x(k, now) == [heads[d] EXCEPT !.modes = Append(@, k), !.mode = now]
           q(k, now) == If(heads[d].told = "described",
                           NewMode(d, k) \o If(now = k, Current(d, k))
                           \o <<Event("done", d, None)>>)
<1>1. PICK k, now : Change([heads EXCEPT ![d] = x(k, now)], q(k, now))
  BY DEF GainMode
<1>2. Outputs
  BY DEF VInv, Shapes
<1>3. DOMAIN x(k, now) = HeadNames /\ IsSeq(x(k, now).modes)
  BY <1>2, Appended DEF Outputs, HeadNames
<1>4. Quiet(q(k, now))
  <2> DEFINE cur == If(now = k, Current(d, k))
             done == <<Event("done", d, None)>>
  <2>1. Quiet(NewMode(d, k))
    <3>1. NewMode(d, k) = <<Event("mode", d, k)>> \o <<Event("size_refresh", d, k)>>
      BY DEF NewMode
    <3> QED
      BY <3>1, QuietOne, QuietJoined DEF Deciding
  <2>2. Quiet(cur) /\ Quiet(done)
    BY QuietOne, QuietNone, QuietIf DEF Current, Deciding
  <2>3. q(k, now) = If(heads[d].told = "described", (NewMode(d, k) \o cur) \o done)
    OBVIOUS
  <2> HIDE DEF cur, done, q
  <2> QED
    BY <2>1, <2>2, <2>3, QuietJoined, QuietIf
<1> HIDE DEF x, q
<1> QED
  BY <1>1, <1>2, <1>3, <1>4, OneHead, ChangeOurs

LEMMA QuitOurs == ASSUME VInv, Quit PROVE VInv'
<1>1. heads = [d \in Dev |-> heads[d]]
      /\ \A d \in Dev : DOMAIN heads[d] = HeadNames /\ IsSeq(heads[d].modes)
  BY DEF VInv, Shapes, Outputs
<1>2. ASSUME NEW global, NEW news, news \notin Deciding, Withdraw(global, news)
      PROVE  VInv'
  <2>1. PICK q : Quiet(q) /\ Change(heads, q)
    BY <1>2, QuietOne, QuietIf DEF Withdraw
  <2> QED
    BY <1>1, <2>1, ChangeOurs
<1>3. CASE Crash
  <2>1. Change(heads, << >>)
    BY <1>3 DEF Crash
  <2> QED
    BY <1>1, <2>1, QuietNone, ChangeOurs
<1> QED
  BY <1>2, <1>3 DEF Quit, Deciding

LEMMA OutsideOurs == ASSUME VInv, Outside PROVE VInv'
<1>1. CASE \E d \in Dev : Plug(d)
  BY <1>1, PlugOurs
<1>2. CASE \E d \in There : Unplug(d)
  BY <1>2, UnplugOurs DEF There
<1>3. CASE \E d \in There : Rearrange(d)
  BY <1>3, RearrangeOurs DEF There
<1>4. CASE \E d \in There : LoseMode(d) \/ GainMode(d)
  BY <1>4, LoseModeOurs, GainModeOurs DEF There
<1>5. CASE Quit
  BY <1>5, QuitOurs
<1> QED
  BY <1>1, <1>2, <1>3, <1>4, <1>5 DEF Outside

-----------------------------------------------------------------------------
(* KWin answers.                                                           *)
LEMMA TailHas ==
    ASSUME NEW s, IsSeq(s), s # << >>
    PROVE  /\ IsSeq(Tail(s)) /\ Len(s) \in Nat /\ Len(Tail(s)) \in Nat
           /\ 1 \in 1..Len(s) /\ Head(s) = s[1]
           /\ \A i \in 1..Len(Tail(s)) : i + 1 \in 1..Len(s) /\ Tail(s)[i] = s[i + 1]
<1> DEFINE S == {s[i] : i \in DOMAIN s}
<1>1. s \in Seq(S)
  BY DEF IsSeq
<1> HIDE DEF S
<1>2. Tail(s) \in Seq(S)
  BY <1>1
<1>3. IsSeq(Tail(s))
  BY <1>2, SeqIs
<1> QED
  BY <1>1, <1>2, <1>3

Longer(w, v) == \E q : Quiet(q) /\ v = w \o q

LEMMA QuietMore ==
    ASSUME NEW w, NEW v, NEW a, IsSeq(w), Longer(w, v), Quiet(a)
    PROVE  Longer(w, v \o a)
<1>1. PICK q : Quiet(q) /\ v = w \o q
  BY DEF Longer
<1> DEFINE In(s) == {s[i] : i \in DOMAIN s}
           S == (In(w) \cup In(q)) \cup In(a)
<1>2. ASSUME NEW s, IsSeq(s), In(s) \subseteq S PROVE s \in Seq(S)
  <2>1. s \in [1..Len(s) -> S] /\ Len(s) \in Nat
    BY <1>2, SeqHas
  <2> HIDE DEF S
  <2> QED
    BY <2>1
<1>3. In(w) \subseteq S /\ In(q) \subseteq S /\ In(a) \subseteq S
  <2> HIDE DEF In
  <2> QED
    OBVIOUS
<1> HIDE DEF S, In
<1>4. w \in Seq(S) /\ q \in Seq(S) /\ a \in Seq(S)
  BY <1>1, <1>2, <1>3 DEF Quiet
<1>5. v \o a = w \o (q \o a)
  BY <1>1, <1>4
<1>6. Quiet(q \o a)
  BY <1>1, QuietJoined
<1> QED
  BY <1>5, <1>6 DEF Longer

LEMMA QuietFirst == ASSUME NEW w, NEW a, Quiet(a) PROVE Longer(w, w \o a)
BY DEF Longer

LEMMA AnswersTame ==
    ASSUME Shapes, Pending, req # << >>, req' = Tail(req), inbox' = inbox,
           hist'.fate = hist.fate
    PROVE  IsSeq(req)' /\ Pending'
<1>1. /\ IsSeq(Tail(req))
      /\ \A i \in 1..Len(req') : i + 1 \in 1..Len(req) /\ req'[i] = req[i + 1]
  BY TailHas DEF Shapes
<1>2. \A c : Open(c)' <=> Open(c)
  BY DEF Open
<1>3. \A i, j \in 1..Len(req') : i + 1 = j + 1 => i = j
  OBVIOUS
<1> QED
  BY <1>1, <1>2, <1>3 DEF Pending

LEMMA ServeOurs == ASSUME VInv, Serve PROVE VInv'
<1> DEFINE r == Head(req)
<1>1. Shapes /\ Pending /\ Outputs /\ IsSeq(req) /\ DOMAIN hist = HistNames
  BY DEF VInv, Shapes
<1>2. req # << >> /\ req' = Tail(req) /\ st' = st /\ me' = me
  BY DEF Serve
<1>3. ASSUME NEW h, KwinHas(h)
      PROVE  DOMAIN hist' = HistNames /\ hist'.fate = hist.fate /\ hist'.sent = hist.sent
             /\ heads' = h
  BY <1>1, <1>3 DEF KwinHas, HistNames
<1>4. \A d \in Dev : DOMAIN heads[d] = HeadNames /\ IsSeq(heads[d].modes)
  BY <1>1 DEF Outputs
<1>5. ASSUME NEW h, h = [d \in Dev |-> h[d]],
             \A d \in Dev : \E told : h[d] = [heads[d] EXCEPT !.told = told], KwinHas(h)
      PROVE  Outputs'
  <2>1. \A d \in Dev : DOMAIN h[d] = HeadNames /\ IsSeq(h[d].modes)
    BY <1>4, <1>5 DEF HeadNames
  <2> QED
    BY <1>3, <1>5, <2>1 DEF Outputs
<1>6. ASSUME NEW q, Quiet(q), wire' = wire \o q, inbox' = inbox, NEW h, KwinHas(h),
             h = [d \in Dev |-> h[d]],
             \A d \in Dev : \E told : h[d] = [heads[d] EXCEPT !.told = told]
      PROVE  VInv'
  <2>1. Outputs' /\ DOMAIN hist' = HistNames /\ hist'.fate = hist.fate /\ hist'.sent = hist.sent
    BY <1>3, <1>5, <1>6
  <2>2. IsSeq(req)' /\ Pending'
    BY <1>1, <1>2, <1>6, <2>1, AnswersTame
  <2> QED
    BY <1>2, <1>6, <2>1, <2>2, MoreNews
<1>7. ASSUME NEW D, Described(D)
      PROVE  \E h : /\ KwinHas(h) /\ h = [d \in Dev |-> h[d]]
                    /\ \A d \in Dev : \E told : h[d] = [heads[d] EXCEPT !.told = told]
  <2> DEFINE h == [d \in Dev |-> [heads[d] EXCEPT !.told = IF d \in D THEN "described" ELSE @]]
  <2>1. KwinHas(h)
    BY <1>7 DEF Described
  <2>2. \A d \in Dev : \E told : h[d] = [heads[d] EXCEPT !.told = told]
    OBVIOUS
  <2>3. h = [d \in Dev |-> h[d]]
    OBVIOUS
  <2> HIDE DEF h
  <2> QED
    BY <2>1, <2>2, <2>3
<1>8. CASE AnswerGlobals(r)
  <2> DEFINE old == IF kwin.legacy THEN There ELSE {}
             h == [d \in Dev |-> [heads[d] EXCEPT !.told = IF d \in old THEN "offered" ELSE @]]
             each == [d \in Dev |-> If(d \in old, <<Event("global", d, None)>>)]
             manager == If("manager" \in kwin.globals, <<Event("manager", None, None)>>)
             registry == If("registry" \in kwin.globals, <<Event("registry", None, None)>>)
  <2>1. KwinHas(h) /\ inbox' = inbox /\ wire' = ((wire \o manager) \o registry) \o FlattenSeq(each)
    BY <1>8 DEF AnswerGlobals
  <2>2. Quiet(manager) /\ Quiet(registry)
    BY QuietOne, QuietIf DEF Deciding
  <2>3. Quiet(FlattenSeq(each))
    <3>1. IsSeq(each) /\ Len(each) = Len(Connector) /\ Dev = 1..Len(Connector)
      <4>1. DOMAIN each = Dev /\ each = [d \in Dev |-> each[d]]
        OBVIOUS
      <4> HIDE DEF each
      <4> QED
        BY <4>1, PerDevice, DevsAre
    <3>2. \A d \in Dev : Quiet(each[d])
      BY QuietOne, QuietIf DEF Deciding
    <3> HIDE DEF each
    <3> QED
      BY <3>1, <3>2, QuietFlat
  <2>4. \A d \in Dev : \E told : h[d] = [heads[d] EXCEPT !.told = told]
    OBVIOUS
  <2>5. h = [d \in Dev |-> h[d]]
    OBVIOUS
  <2> HIDE DEF h, manager, registry, each
  <2>6. PICK q : Quiet(q) /\ wire' = wire \o q
    <3> DEFINE u == wire \o manager
               v == u \o registry
               w == v \o FlattenSeq(each)
    <3>1. wire' = w
      BY <2>1
    <3>2. IsSeq(wire)
      BY <1>1 DEF Shapes
    <3>3. Longer(wire, u)
      BY <2>2, QuietFirst
    <3> HIDE DEF u
    <3>4. Longer(wire, v)
      BY <2>2, <3>2, <3>3, QuietMore
    <3> HIDE DEF v
    <3>5. Longer(wire, w)
      BY <2>3, <3>2, <3>4, QuietMore
    <3> HIDE DEF w
    <3> QED
      BY <3>1, <3>5 DEF Longer
  <2> QED
    BY <1>6, <2>1, <2>4, <2>5, <2>6
<1>9. CASE AnswerBindRegistry(r)
  <2> DEFINE each == [d \in Dev |-> If(d \in There, <<Event("output", d, None)>> \o Burst(d))]
  <2>1. inbox' = inbox /\ wire' = wire \o FlattenSeq(each) /\ Described(There)
    BY <1>9 DEF AnswerBindRegistry
  <2>2. IsSeq(each) /\ Len(each) = Len(Connector) /\ Dev = 1..Len(Connector)
    <3>1. DOMAIN each = Dev /\ each = [d \in Dev |-> each[d]]
      OBVIOUS
    <3> HIDE DEF each
    <3> QED
      BY <3>1, PerDevice, DevsAre
  <2>3. \A d \in Dev : Quiet(each[d])
    <3> TAKE d \in Dev
    <3>1. Quiet(<<Event("output", d, None)>> \o Burst(d))
      BY <1>1, QuietOne, QuietJoined, BurstIsQuiet DEF Deciding
    <3> QED
      BY <3>1, QuietIf
  <2> HIDE DEF each
  <2>4. Quiet(FlattenSeq(each))
    BY <2>2, <2>3, QuietFlat
  <2> QED
    BY <1>6, <1>7, <2>1, <2>4
<1>10. CASE AnswerBindDevice(r)
  <2>1. inbox' = inbox /\ wire' = wire \o If(r.of \in There, Burst(r.of))
        /\ Described({r.of} \cap There)
    BY <1>10 DEF AnswerBindDevice
  <2>2. Quiet(If(r.of \in There, Burst(r.of)))
    <3>1. CASE r.of \in There
      BY <1>1, <3>1, BurstIsQuiet, QuietIf DEF There
    <3>2. CASE r.of \notin There
      BY <3>2, QuietNone DEF If
    <3> QED
      BY <3>1, <3>2
  <2> QED
    BY <1>6, <1>7, <2>1, <2>2
<1>11. CASE AnswerSync(r)
  <2>1. inbox' = inbox /\ heads' = heads /\ hist' = hist
        /\ wire' = wire \o <<Event("synced", None, None)>>
    BY <1>1, <1>11, Appended DEF AnswerSync, Shapes
  <2>2. Outputs'
    BY <1>1, <2>1 DEF Outputs
  <2>3. IsSeq(req)' /\ Pending'
    BY <1>1, <1>2, <2>1, AnswersTame
  <2>4. Quiet(<<Event("synced", None, None)>>)
    BY QuietOne DEF Deciding
  <2> QED
    BY <1>1, <1>2, <2>1, <2>2, <2>3, <2>4, MoreNews
<1>12. CASE TakeConfiguration(r)
  <2>1. r.do = "apply" /\ inbox' = inbox \cup {r.of} /\ heads' = heads /\ hist' = hist
        /\ wire' = wire
    BY <1>12 DEF TakeConfiguration
  <2>2. Outputs'
    BY <1>1, <2>1 DEF Outputs
  <2>3. /\ IsSeq(Tail(req)) /\ 1 \in 1..Len(req) /\ r = req[1]
        /\ \A i \in 1..Len(req') :
              i + 1 \in 1..Len(req) /\ req'[i] = req[i + 1] /\ i + 1 # 1
    BY <1>1, <1>2, TailHas
  <2>4. \A c : Open(c)' <=> Open(c)
    BY <2>1 DEF Open
  <2>5. Pending'
    <3>1. ASSUME NEW i \in 1..Len(req'), req'[i].do = "apply" PROVE Open(req[i].of)'
      <4>1. i + 1 \in 1..Len(req) /\ req'[i] = req[i + 1]
        BY <2>3
      <4>2. Open(req[i + 1].of)
        BY <1>1, <3>1, <4>1 DEF Pending
      <4> QED
        BY <2>4, <4>1, <4>2
    <3>2. \A i, j \in 1..Len(req') :
              req'[i].do = "apply" /\ req'[j].do = "apply" /\ req'[i].of.id = req'[j].of.id
              => i = j
      <4>1. \A i, j \in 1..Len(req') : i + 1 = j + 1 => i = j
        OBVIOUS
      <4> QED
        BY <1>1, <2>3, <4>1 DEF Pending
    <3>3. \A i \in 1..Len(req'), c \in inbox' :
              req'[i].do = "apply" => req'[i].of.id # c.id
      BY <1>1, <2>1, <2>3 DEF Pending
    <3>4. ASSUME NEW c \in inbox' PROVE Open(c)'
      <4>1. Open(c)
        BY <1>1, <2>1, <2>3 DEF Pending
      <4> QED
        BY <2>4, <4>1
    <3>5. \A b, c \in inbox' : b.id = c.id => b = c
      BY <1>1, <2>1, <2>3 DEF Pending
    <3> QED
      BY <3>1, <3>2, <3>3, <3>4, <3>5 DEF Pending
  <2>6. wire' = wire \o << >>
    <3>1. wire \in Seq({wire[i] : i \in DOMAIN wire})
      BY <1>1 DEF Shapes, IsSeq
    <3> HIDE DEF Shapes
    <3> QED
      BY <2>1, <3>1
  <2>7. IsSeq(req)'
    BY <1>2, <2>3
  <2> QED
    BY <1>1, <1>2, <2>1, <2>2, <2>5, <2>6, <2>7, QuietNone, MoreNews
<1> QED
  BY <1>8, <1>9, <1>10, <1>11, <1>12 DEF Serve

-----------------------------------------------------------------------------
(* KWin decides configuration c: what it says of it, in the end, is v.     *)
Decision(q, c, v) ==
    /\ IsSeq(q) /\ Len(q) > 0
    /\ \A i \in 1..Len(q) : Final(q[i]) => i = Len(q)
    /\ q[Len(q)].ev = v.is
    /\ \A i \in 1..Len(q) : q[i].ev \in Deciding => q[i].of = c.id
    /\ \A i \in 1..Len(q) : q[i].ev = "failure_reason" => q[i].val = v.why
    /\ v \in {Applied} \cup Failures
    /\ v.is = "failed" =>
          v.why = None \/ \E i \in 1..(Len(q) - 1) : q[i].ev = "failure_reason"

LEMMA DecidedOurs ==
    ASSUME VInv, NEW c \in inbox, inbox' = inbox \ {c}, req' = req, st' = st, me' = me,
           Outputs', DOMAIN hist' = HistNames, hist'.sent = hist.sent,
           NEW v, hist'.fate = [hist.fate EXCEPT ![c.id] = v],
           NEW q, Decision(q, c, v), wire' = wire \o q
    PROVE  VInv'
<1> DEFINE W == wire'
           n == Len(wire)
           f == hist.fate
           g == hist'.fate
           k == Len(hist.fate)
           id == c.id
<1>1. IsSeq(wire) /\ IsSeq(q) /\ n \in Nat /\ Len(q) \in Nat /\ IsSeq(f) /\ k \in Nat
  BY SeqHas DEF VInv, Shapes, Decision
<1>2. /\ IsSeq(W) /\ Len(W) = n + Len(q)
      /\ \A i \in 1..n : W[i] = wire[i]
      /\ \A i \in 1..Len(q) : W[n + i] = q[i]
      /\ \A i \in 1..Len(W) : i \notin 1..n => i - n \in 1..Len(q) /\ W[i] = q[i - n]
  BY <1>1, Joined
<1>3. id \in 1..k /\ f[id] = None
  BY DEF VInv, Pending, Open
<1>4. IsSeq(g) /\ Len(g) = k /\ \A i \in 1..k : g[i] = IF i = id THEN v ELSE f[i]
  <2>1. DOMAIN f = 1..k
    BY <1>1, SeqHas
  <2>2. DOMAIN g = 1..k /\ g = [i \in 1..k |-> g[i]]
    BY <2>1
  <2> QED
    BY <1>1, <1>3, <2>1, <2>2, FunIsSeq
<1>v. v = Applied \/ (v.is = "failed" /\ v = [is |-> "failed", why |-> v.why])
  BY DEF Decision, Failures
<1>5. v # None /\ Applied # None
  BY NothingIs DEF Decision
<1>6. \A i \in 1..n : wire[i].ev \in Deciding => wire[i].of # id /\ Says(wire[i], f)
  BY <1>3 DEF VInv, Answers, Says
<1>7. \A i \in 1..k : f[i] # None => g[i] = f[i] /\ i # id
  BY <1>3, <1>4
<1> HIDE DEF W, n, f, g, k, id
<1>8. Shapes'
  <2>1. \A i \in 1..k : g[i] \in {None, Applied} \cup Failures
    <3>1. \A i \in 1..k : f[i] \in {None, Applied} \cup Failures
      BY DEF VInv, Shapes, k, f
    <3>2. v \in {None, Applied} \cup Failures
      BY DEF Decision
    <3> QED
      BY <1>4, <3>1, <3>2
  <2>2. IsSeq(wire') /\ IsSeq(req') /\ IsSeq(hist'.fate) /\ Len(hist'.fate) = Len(hist.fate)
    BY <1>2, <1>4 DEF VInv, Shapes, W, g, k
  <2> QED
    BY <1>4, <2>1, <2>2 DEF VInv, Shapes, g, k
<1>9. Pending'
  <2>1. ASSUME NEW x, Open(x), x.id # id PROVE Open(x)'
    BY <1>4, <2>1 DEF Open, g, k, f
  <2>2. \A x \in inbox' : x \in inbox /\ x.id # id
    BY DEF VInv, Pending, id
  <2>3. \A i \in 1..Len(req) : req[i].do = "apply" => Open(req[i].of) /\ req[i].of.id # id
    BY DEF VInv, Pending, id
  <2>4. \A i \in 1..Len(req) : req[i].do = "apply" => Open(req[i].of)'
    BY <2>1, <2>3
  <2>5. \A x \in inbox' : Open(x)'
    BY <2>1, <2>2 DEF VInv, Pending
  <2> QED
    BY <2>2, <2>4, <2>5 DEF VInv, Pending
<1>10. Answers'
  <2>1. ASSUME NEW i \in 1..Len(W), W[i].ev \in Deciding PROVE Says(W[i], g)
    <3>1. CASE i \in 1..n
      <4>1. W[i] = wire[i] /\ Says(wire[i], f)
        BY <1>2, <1>6, <2>1, <3>1
      <4>2. Len(f) = k
        BY DEF f, k
      <4>3. Len(f) \in Nat /\ Len(g) \in Nat /\ Len(f) <= Len(g)
        BY <1>1, <1>4, <4>2
      <4>4. \A j \in 1..Len(f) : f[j] # None => g[j] = f[j]
        BY <1>7, <4>2
      <4>5. Says(wire[i], g)
        BY <4>1, <4>3, <4>4, SaysKept
      <4> QED
        BY <4>1, <4>5
    <3>2. CASE i \notin 1..n
      <4>1. i - n \in 1..Len(q) /\ W[i] = q[i - n]
        BY <1>2, <3>2
      <4>2. W[i].of = id /\ g[id] = v
        BY <1>3, <1>4, <2>1, <4>1 DEF Decision, id
      <4>3. Final(W[i]) => W[i].ev = v.is
        BY <4>1 DEF Decision
      <4>4. W[i].ev = "applied" => v = Applied
        <5>1. W[i].ev = "applied" => Final(W[i]) /\ W[i].ev # "failed"
          BY DEF Final
        <5>2. W[i].ev = "applied" => v.is # "failed"
          BY <4>3, <5>1
        <5> QED
          BY <1>v, <5>2
      <4>5. W[i].ev = "failed" => v = [is |-> "failed", why |-> v.why]
        BY <1>v, <4>3 DEF Final, Applied
      <4>6. W[i].ev = "failure_reason" => W[i].val = v.why
        BY <4>1 DEF Decision
      <4> QED
        BY <1>3, <1>4, <1>5, <4>2, <4>4, <4>5, <4>6 DEF Says
    <3> QED
      BY <3>1, <3>2
  <2>2. ASSUME NEW i \in 1..Len(W), NEW j \in 1..Len(W), Final(W[i]), Final(W[j]),
               W[i].of = W[j].of
        PROVE  i = j
    <3>1. ASSUME NEW l \in 1..Len(W), Final(W[l]), l \in 1..n PROVE W[l].of # id
      BY <1>2, <1>6, <3>1 DEF Final, Deciding
    <3>2. ASSUME NEW l \in 1..Len(W), Final(W[l]), l \notin 1..n
          PROVE  l = Len(W) /\ W[l].of = id
      <4>1. l - n \in 1..Len(q) /\ W[l] = q[l - n]
        BY <1>2, <3>2
      <4>2. l - n = Len(q) /\ W[l].of = id
        BY <3>2, <4>1 DEF Decision, id, Final, Deciding
      <4> QED
        BY <1>1, <1>2, <4>2
    <3>3. CASE i \in 1..n /\ j \in 1..n
      BY <1>2, <2>2, <3>3 DEF VInv, Answers, n
    <3> QED
      BY <2>2, <3>1, <3>2, <3>3
  <2> QED
    BY <2>1, <2>2 DEF Answers, W, g
<1>11. ASSUME Waiting(st, wire, 0, f) PROVE Waiting(st, W, 0, g)
  <2>1. /\ st.cfgs = {k}
        /\ st.result # None => st.result = f[k] /\ \A j \in 1..n : Final(wire[j]) => wire[j].of # k
        /\ st.reason # None => f[k] # None /\ st.reason = f[k].why
        /\ \A j \in 1..n : wire[j].ev = "failed" /\ wire[j].of = k =>
              \/ st.reason = f[k].why
              \/ \E m \in 1..(j - 1) : wire[m].ev = "failure_reason" /\ wire[m].of = k
    <3>1. Waiting(st, wire, 0, hist.fate)
      BY <1>11 DEF f
    <3> QED
      BY <3>1, FromNow DEF n, k, f
  <2> DEFINE Heard(l) ==
        /\ st.cfgs = {l}
        /\ st.result # None => st.result = g[l] /\ \A j \in 1..Len(W) : Final(W[j]) => W[j].of # l
        /\ st.reason # None => g[l] # None /\ st.reason = g[l].why
        /\ \A j \in 1..Len(W) : W[j].ev = "failed" /\ W[j].of = l =>
              \/ st.reason = g[l].why
              \/ \E m \in 1..(j - 1) : W[m].ev = "failure_reason" /\ W[m].of = l
  <2>2. Heard(k) => Waiting(st, W, 0, g)
    <3>1. Heard(Len(g)) => Waiting(st, W, 0, g)
      BY FromNow
    <3> HIDE DEF Heard
    <3> QED
      BY <1>4, <3>1
  <2>3. CASE id = k
    <3>1. st.result = None /\ st.reason = None /\ g[k] = v
      BY <1>3, <1>4, <2>1, <2>3
    <3>2. ASSUME NEW j \in 1..Len(W), W[j].ev = "failed", W[j].of = k
          PROVE  \/ st.reason = g[k].why
                 \/ \E m \in 1..(j - 1) : W[m].ev = "failure_reason" /\ W[m].of = k
      <4>1. j \notin 1..n
        BY <1>2, <1>6, <2>3, <3>2 DEF Deciding
      <4>2. j - n = Len(q) /\ v.is = "failed"
        <5>1. j - n \in 1..Len(q) /\ W[j] = q[j - n]
          BY <1>2, <4>1
        <5> QED
          BY <3>2, <5>1 DEF Decision, Final
      <4>3. CASE v.why = None
        BY <3>1, <4>3
      <4>4. ASSUME NEW i \in 1..(Len(q) - 1), q[i].ev = "failure_reason"
            PROVE  \E m \in 1..(j - 1) : W[m].ev = "failure_reason" /\ W[m].of = k
        <5>1. i \in 1..Len(q) /\ n + i \in 1..(j - 1)
          BY <1>1, <4>2
        <5>2. W[n + i] = q[i] /\ q[i].of = k
          BY <1>2, <2>3, <4>4, <5>1 DEF Decision, Deciding, id
        <5> QED
          BY <4>4, <5>1, <5>2
      <4> QED
        BY <4>2, <4>3, <4>4 DEF Decision
    <3> QED
      BY <2>1, <2>2, <3>1, <3>2
  <2>4. CASE id # k
    <3>1. g[k] = f[k]
      BY <1>3, <1>4, <2>4
    <3>2. ASSUME NEW j \in 1..Len(W), W[j].ev \in Deciding, W[j].of = k
          PROVE  j \in 1..n /\ W[j] = wire[j]
      <4>1. j \in 1..n
        BY <1>2, <2>4, <3>2 DEF Decision, id
      <4> QED
        BY <1>2, <4>1
    <3>3. \A j \in 1..Len(W) : Final(W[j]) /\ W[j].of = k =>
              j \in 1..n /\ Final(wire[j]) /\ wire[j].of = k
      BY <3>2 DEF Final, Deciding
    <3>4. ASSUME NEW j \in 1..Len(W), W[j].ev = "failed", W[j].of = k
          PROVE  \/ st.reason = g[k].why
                 \/ \E m \in 1..(j - 1) : W[m].ev = "failure_reason" /\ W[m].of = k
      <4>1. j \in 1..n /\ W[j] = wire[j]
        BY <3>2, <3>4 DEF Deciding
      <4>2. \A m \in 1..(j - 1) : W[m] = wire[m]
        BY <1>1, <1>2, <4>1
      <4> QED
        BY <2>1, <3>1, <3>4, <4>1, <4>2
    <3> QED
      BY <2>1, <2>2, <3>1, <3>3, <3>4
  <2> QED
    BY <2>3, <2>4
<1>12. \A i \in 1..k : f[i] = Applied => g[i] = Applied
  BY <1>5, <1>7
<1>13. Mine'
  <2>1. Waiting(st, wire, 0, hist.fate) => Waiting(st', wire', 0, hist'.fate)
    BY <1>11 DEF W, f, g
  <2> QED
    BY <1>4, <1>12, <2>1 DEF VInv, Mine, k, f, g
<1>14. VerdictOurs'
  <2> SUFFICES ASSUME Applying, me.out \in {"ok", "failed"}
               PROVE  /\ \A i \in 1..k : i > hist.sent /\ (me.out = "ok" \/ i < k) => g[i] = Applied
                      /\ me.out = "failed" =>
                            k > hist.sent /\ Last(g) = [is |-> "failed", why |-> me.why]
    <3>1. DOMAIN g = 1..k
      BY <1>4, SeqHas
    <3> QED
      BY <1>4, <3>1 DEF VerdictOurs, Applying, Applied, k, g
  <2>1. /\ \A i \in 1..k : i > hist.sent /\ (me.out = "ok" \/ i < k) => f[i] = Applied
        /\ me.out = "failed" => k > hist.sent /\ f[k] = [is |-> "failed", why |-> me.why]
    <3>1. DOMAIN f = 1..k
      BY <1>1, SeqHas DEF k, f
    <3> QED
      BY <3>1 DEF VInv, VerdictOurs, Applied, Last, k, f
  <2>2. me.out = "failed" => k \in 1..k /\ f[k] # None
    <3>1. hist.sent \in Nat /\ me.why \in Nat \cup {None}
      <4>1. hist.sent \in 0..k
        BY DEF VInv, Shapes, k
      <4>2. me.why \in Nat \cup {None}
        BY DEF VInv, Shapes
      <4> QED
        BY <1>1, <4>1, <4>2
    <3>2. [is |-> "failed", why |-> me.why] # None
      BY <3>1, NothingIs
    <3> QED
      BY <1>1, <2>1, <3>1, <3>2
  <2> QED
    BY <1>4, <1>7, <1>12, <2>1, <2>2 DEF Last
<1> QED
  BY <1>8, <1>9, <1>10, <1>13, <1>14 DEF VInv

LEMMA Associates ==
    ASSUME NEW a, NEW b, NEW c, IsSeq(a), IsSeq(b), IsSeq(c), NEW u, u = a \o b
    PROVE  u \o c = a \o (b \o c)
<1> DEFINE In(s) == {s[i] : i \in DOMAIN s}
           S == (In(a) \cup In(b)) \cup In(c)
<1>1. ASSUME NEW s, IsSeq(s), In(s) \subseteq S PROVE s \in Seq(S)
  <2>1. s \in [1..Len(s) -> S] /\ Len(s) \in Nat
    BY <1>1, SeqHas
  <2> HIDE DEF S
  <2> QED
    BY <2>1
<1>2. In(a) \subseteq S /\ In(b) \subseteq S /\ In(c) \subseteq S
  <2> HIDE DEF In
  <2> QED
    OBVIOUS
<1> HIDE DEF S, In
<1>3. a \in Seq(S) /\ b \in Seq(S) /\ c \in Seq(S)
  BY <1>1, <1>2
<1> QED
  BY <1>3

LEMMA Ends ==
    ASSUME NEW p, IsSeq(p), NEW e
    PROVE  /\ IsSeq(p \o <<e>>) /\ Len(p) \in Nat /\ Len(p \o <<e>>) = Len(p) + 1
           /\ \A i \in 1..Len(p) : (p \o <<e>>)[i] = p[i]
           /\ (p \o <<e>>)[Len(p) + 1] = e
           /\ \A i \in 1..Len(p \o <<e>>) : i \in 1..Len(p) \/ i = Len(p) + 1
<1>1. IsSeq(<<e>>) /\ Len(<<e>>) = 1 /\ <<e>>[1] = e /\ Len(p) \in Nat /\ 1 \in 1..Len(<<e>>)
  BY OneLong, SeqHas
<1>2. IsSeq(p \o <<e>>) /\ Len(p \o <<e>>) = Len(p) + 1
      /\ (\A i \in 1..Len(p) : (p \o <<e>>)[i] = p[i])
      /\ (p \o <<e>>)[Len(p) + 1] = e
  BY <1>1, Joined
<1> QED
  BY <1>1, <1>2

LEMMA AppliesOurs ==
    ASSUME VInv, NEW c \in inbox, inbox' = inbox \ {c}, req' = req, st' = st, me' = me, Applies(c)
    PROVE  VInv'
<1> DEFINE h == Configured(c)
           each == [d \in Dev |-> If(d \in There, News(d, h[d]))]
           F == FlattenSeq(each)
           e == Event("applied", c.id, None)
           q == F \o <<e>>
<1>1. Outputs /\ IsSeq(wire) /\ DOMAIN hist = HistNames
  BY DEF VInv, Shapes
<1>2. Quiet(F)
  <2>1. IsSeq(each) /\ Len(each) = Len(Connector) /\ Dev = 1..Len(Connector)
    <3>1. DOMAIN each = Dev /\ each = [d \in Dev |-> each[d]]
      OBVIOUS
    <3> HIDE DEF each
    <3> QED
      BY <3>1, PerDevice, DevsAre
  <2>2. \A d \in Dev : Quiet(each[d])
    <3> HIDE DEF h
    <3> QED
      BY NewsIsQuiet, QuietIf
  <2> HIDE DEF each
  <2> QED
    BY <2>1, <2>2, QuietFlat
<1>3. heads' = h /\ wire' = (wire \o F) \o <<e>>
  BY DEF Applies
<1>4. DOMAIN hist' = HistNames /\ hist'.sent = hist.sent
      /\ hist'.fate = [hist.fate EXCEPT ![c.id] = Applied]
  BY <1>1 DEF Applies, HistNames, Applied
<1>5. Outputs'
  <2>1. h = [d \in Dev |-> h[d]]
    BY DEF Configured
  <2>2. \A d \in Dev : DOMAIN h[d] = HeadNames /\ IsSeq(h[d].modes)
    BY <1>1 DEF Configured, Outputs, HeadNames
  <2> HIDE DEF h
  <2> QED
    BY <1>3, <2>1, <2>2 DEF Outputs
<1>6. e.ev = "applied" /\ e.of = c.id
  BY DEF Event
<1> HIDE DEF F, e
<1>7. wire' = wire \o q
  BY <1>1, <1>2, <1>3, OneLong, Associates DEF Quiet
<1>8. IsSeq(q) /\ Len(F) \in Nat /\ Len(q) = Len(F) + 1
      /\ (\A i \in 1..Len(F) : q[i] = F[i]) /\ q[Len(F) + 1] = e
      /\ (\A i \in 1..Len(q) : i \in 1..Len(F) \/ i = Len(F) + 1)
  BY <1>2, Ends DEF Quiet
<1> HIDE DEF q
<1>9. \A i \in 1..Len(q) : q[i].ev \in Deciding => i = Len(q)
  BY <1>2, <1>8 DEF Quiet
<1>10. Decision(q, c, Applied)
  BY <1>6, <1>8, <1>9 DEF Decision, Applied, Final, Deciding
<1> QED
  BY <1>4, <1>5, <1>7, <1>10, DecidedOurs

LEMMA RefusesOurs ==
    ASSUME VInv, NEW c \in inbox, inbox' = inbox \ {c}, req' = req, st' = st, me' = me, Refuses(c)
    PROVE  VInv'
<1>1. PICK why \in {None, c.id} :
          /\ hist' = [hist EXCEPT !.fate[c.id] = [is |-> "failed", why |-> why]]
          /\ wire' = (wire \o If(why # None, <<Event("failure_reason", c.id, why)>>))
                     \o <<Event("failed", c.id, None)>>
          /\ UNCHANGED heads
  BY DEF Refuses
<1> DEFINE r == Event("failure_reason", c.id, why)
           F == If(why # None, <<r>>)
           e == Event("failed", c.id, None)
           v == [is |-> "failed", why |-> why]
           q == F \o <<e>>
<1>2. Outputs /\ IsSeq(wire) /\ DOMAIN hist = HistNames
  BY DEF VInv, Shapes
<1>3. DOMAIN hist' = HistNames /\ hist'.sent = hist.sent
      /\ hist'.fate = [hist.fate EXCEPT ![c.id] = v]
  BY <1>1, <1>2 DEF HistNames
<1>4. Outputs'
  BY <1>1, <1>2 DEF Outputs
<1>5. e.ev = "failed" /\ e.of = c.id /\ r.ev = "failure_reason" /\ r.of = c.id /\ r.val = why
  BY DEF Event
<1>6. IsSeq(F) /\ Len(F) \in Nat /\ (\A i \in 1..Len(F) : F[i] = r)
      /\ (why = None \/ Len(F) = 1)
  <2>1. CASE why = None
    BY <2>1, Nothing DEF If
  <2>2. CASE why # None
    BY <2>2, OneLong DEF If
  <2> QED
    BY <2>1, <2>2
<1>7. v \in {Applied} \cup Failures /\ v.is = "failed" /\ v.why = why
  <2>1. c.id \in Nat
    BY DEF VInv, Pending, Open
  <2>2. why \in Nat \cup {None}
    BY <2>1
  <2> QED
    BY <2>2 DEF Failures
<1>8. wire' = (wire \o F) \o <<e>>
  BY <1>1
<1> HIDE DEF F, e, r
<1>9. wire' = wire \o q
  BY <1>2, <1>6, <1>8, OneLong, Associates
<1>10. IsSeq(q) /\ Len(q) = Len(F) + 1
      /\ (\A i \in 1..Len(F) : q[i] = F[i]) /\ q[Len(F) + 1] = e
      /\ (\A i \in 1..Len(q) : i \in 1..Len(F) \/ i = Len(F) + 1)
  BY <1>6, Ends
<1> HIDE DEF q, v
<1>11. Decision(q, c, v)
  <2>1. Len(q) - 1 = Len(F) /\ Len(q) > 0
    BY <1>6, <1>10
  <2>2. \A i \in 1..Len(q) : q[i] = r \/ (i = Len(q) /\ q[i] = e)
    BY <1>6, <1>10
  <2>3. \A i \in 1..Len(q) : Final(q[i]) => i = Len(q)
    BY <1>5, <2>2 DEF Final
  <2>4. v.why = None \/ \E i \in 1..(Len(q) - 1) : q[i].ev = "failure_reason"
    <3>1. CASE why # None
      <4>1. 1 \in 1..(Len(q) - 1) /\ q[1] = r
        BY <1>6, <1>10, <2>1, <3>1
      <4> QED
        BY <1>5, <4>1
    <3> QED
      BY <1>7, <3>1
  <2>5. q[Len(q)].ev = v.is
    BY <1>5, <1>7, <1>10
  <2>6. \A i \in 1..Len(q) : q[i].of = c.id /\ (q[i].ev = "failure_reason" => q[i].val = v.why)
    BY <1>5, <1>7, <2>2
  <2> QED
    BY <1>7, <1>10, <2>1, <2>3, <2>4, <2>5, <2>6 DEF Decision
<1> QED
  BY <1>3, <1>4, <1>9, <1>11, DecidedOurs

LEMMA VerdictKept == ASSUME VInv, Verdict PROVE VInv'
<1>1. PICK c \in inbox : inbox' = inbox \ {c} /\ (Applies(c) \/ Refuses(c))
  BY DEF Verdict
<1>2. req' = req /\ st' = st /\ me' = me
  BY DEF Verdict
<1> QED
  BY <1>1, <1>2, AppliesOurs, RefusesOurs

-----------------------------------------------------------------------------
(* The client.                                                             *)
LEMMA Rest ==
    ASSUME NEW s, IsSeq(s), NEW n \in 0..Len(s), NEW t, t = SubSeq(s, n + 1, Len(s))
    PROVE  /\ IsSeq(t) /\ Len(s) \in Nat /\ Len(t) = Len(s) - n
           /\ \A i \in 1..Len(t) : n + i \in 1..Len(s) /\ t[i] = s[n + i]
<1> DEFINE S == {s[i] : i \in DOMAIN s}
<1>1. s \in Seq(S)
  BY DEF IsSeq
<1> HIDE DEF S
<1>2. Len(s) \in Nat /\ n \in Nat /\ n <= Len(s)
  BY <1>1
<1>3. \A i \in (n + 1)..Len(s) : s[i] \in S
  BY <1>1, <1>2
<1>4. t = [i \in 1..(Len(s) - n) |-> s[n + i]]
  <2>1. t = [i \in 1..(Len(s) - (n + 1) + 1) |-> s[i + (n + 1) - 1]]
    OBVIOUS
  <2>2. Len(s) - (n + 1) + 1 = Len(s) - n
    BY <1>2
  <2>3. \A i \in 1..(Len(s) - n) : i + (n + 1) - 1 = n + i
    BY <1>2
  <2> QED
    BY <2>1, <2>2, <2>3
<1>5. Len(s) - n \in Nat /\ DOMAIN t = 1..(Len(s) - n) /\ t = [i \in 1..(Len(s) - n) |-> t[i]]
  BY <1>2, <1>4
<1>6. IsSeq(t) /\ Len(t) = Len(s) - n
  BY <1>5, FunIsSeq
<1>7. \A i \in 1..Len(t) : n + i \in 1..Len(s) /\ t[i] = s[n + i]
  BY <1>2, <1>4, <1>6
<1> QED
  BY <1>2, <1>6, <1>7

LEMMA WaitingRest ==
    ASSUME NEW s, NEW w, NEW f, IsSeq(w), NEW n \in 0..Len(w), Waiting(s, w, n, f),
           NEW t, t = SubSeq(w, n + 1, Len(w))
    PROVE  Waiting(s, t, 0, f)
<1> DEFINE k == Len(f)
<1>1. /\ Len(w) \in Nat /\ Len(t) = Len(w) - n /\ n \in Nat
      /\ \A i \in 1..Len(t) : n + i \in 1..Len(w) /\ t[i] = w[n + i]
  <2>1. Len(w) \in Nat
    BY SeqHas
  <2>2. n \in Nat
    BY <2>1
  <2> QED
    BY <2>1, <2>2, Rest
<1>2. /\ s.cfgs = {k}
      /\ s.result # None => s.result = f[k] /\ \A j \in (n + 1)..Len(w) : Final(w[j]) => w[j].of # k
      /\ s.reason # None => f[k] # None /\ s.reason = f[k].why
      /\ \A j \in (n + 1)..Len(w) : w[j].ev = "failed" /\ w[j].of = k =>
            \/ s.reason = f[k].why
            \/ \E m \in (n + 1)..(j - 1) : w[m].ev = "failure_reason" /\ w[m].of = k
  BY DEF Waiting
<1>3. \A i \in 1..Len(t) : n + i \in (n + 1)..Len(w) /\ t[i] = w[n + i]
  BY <1>1
<1>4. ASSUME NEW j \in 1..Len(t), t[j].ev = "failed", t[j].of = k
      PROVE  \/ s.reason = f[k].why
             \/ \E m \in 1..(j - 1) : t[m].ev = "failure_reason" /\ t[m].of = k
  <2>1. ASSUME NEW m \in (n + 1)..((n + j) - 1)
        PROVE  m - n \in 1..(j - 1) /\ t[m - n] = w[m]
    <3>1. m - n \in 1..(j - 1) /\ m - n \in 1..Len(t) /\ n + (m - n) = m
      BY <1>1
    <3> QED
      BY <1>3, <3>1
  <2>2. \/ s.reason = f[k].why
        \/ \E m \in (n + 1)..((n + j) - 1) : w[m].ev = "failure_reason" /\ w[m].of = k
    BY <1>2, <1>3, <1>4
  <2> QED
    BY <2>1, <2>2
<1>5. \A j \in 1..Len(t) : s.result # None /\ Final(t[j]) => t[j].of # k
  BY <1>2, <1>3
<1> QED
  BY <1>2, <1>4, <1>5, FromNow

LEMMA DispatchOurs == ASSUME VInv, Dispatch PROVE VInv'
<1>1. PICK n \in DOMAIN wire :
          /\ st' \in CaughtUpTo(n)
          /\ req' = req \o FlattenSeq([i \in 1..n |-> Binds(wire[i])])
          /\ wire' = SubSeq(wire, n + 1, Len(wire))
  BY DEF Dispatch
<1>2. heads' = heads /\ inbox' = inbox /\ hist' = hist
      /\ me' = [me EXCEPT !.synced = Synced # {}]
  BY DEF Dispatch
<1>3. Shapes /\ Answers /\ Pending /\ Mine /\ VerdictOurs /\ IsSeq(wire) /\ DOMAIN me = MeNames
  BY DEF VInv, Shapes
<1>4. n \in 0..Len(wire) /\ n \in Nat /\ Len(wire) \in Nat
  BY <1>3, SeqHas
<1>5. DOMAIN st' = StNames /\ st'.cfgs = st.cfgs
      /\ (Waiting(st, wire, 0, hist.fate) => Waiting(st', wire, n, hist.fate))
  BY <1>1, <1>3, <1>4, AllHandled
<1>6. /\ DOMAIN me' = MeNames /\ me'.at = me.at /\ me'.then = me.then /\ me'.call = me.call
      /\ me'.out = me.out /\ me'.why = me.why
  BY <1>2, <1>3 DEF MeNames
<1>7. /\ IsSeq(wire') /\ Len(wire') \in Nat
      /\ \A i \in 1..Len(wire') : n + i \in 1..Len(wire) /\ wire'[i] = wire[n + i]
  <2>1. IsSeq(wire') /\ (\A i \in 1..Len(wire') : n + i \in 1..Len(wire) /\ wire'[i] = wire[n + i])
    BY <1>1, <1>3, <1>4, Rest
  <2> QED
    BY <2>1, SeqHas
<1>8. Tame(FlattenSeq([i \in 1..n |-> Binds(wire[i])]))
  <2> DEFINE each == [i \in 1..n |-> Binds(wire[i])]
  <2>1. DOMAIN each = 1..n /\ each = [i \in 1..n |-> each[i]]
    OBVIOUS
  <2>2. \A i \in 1..n : Tame(each[i])
    <3>1. ASSUME NEW e PROVE Tame(Binds(e))
      <4>1. Tame(<<[do |-> "bind_registry", of |-> None]>>)
        BY OneLong DEF Tame
      <4>2. Tame(<<[do |-> "bind_device", of |-> e.of]>>)
        BY OneLong DEF Tame
      <4>3. Tame(<< >>)
        BY TameSync
      <4> HIDE DEF Tame
      <4>4. CASE e.ev = "registry"
        BY <4>1, <4>4 DEF Binds
      <4>5. CASE e.ev = "global"
        BY <4>2, <4>5 DEF Binds
      <4>6. CASE e.ev \notin {"registry", "global"}
        BY <4>3, <4>6 DEF Binds
      <4> QED
        BY <4>4, <4>5, <4>6
    <3> QED
      BY <3>1
  <2> HIDE DEF each
  <2>3. IsSeq(each) /\ Len(each) = n
    BY <1>4, <2>1, FunIsSeq
  <2>4. Tame(FlattenSeq(each))
    BY <2>2, <2>3, TameFlat
  <2> QED
    BY <2>4 DEF each
<1>9. IsSeq(req)' /\ Pending'
  BY <1>1, <1>2, <1>3, <1>8, PendingTame
<1>10. Shapes'
  <2>1. Outputs'
    BY <1>2, <1>3 DEF Shapes, Outputs
  <2> QED
    BY <1>2, <1>3, <1>5, <1>6, <1>7, <1>9, <2>1 DEF Shapes
<1>11. Answers'
  <2>1. \A i \in 1..Len(wire') : wire'[i].ev \in Deciding => Says(wire'[i], hist'.fate)
    BY <1>2, <1>3, <1>7 DEF Answers
  <2>2. ASSUME NEW i \in 1..Len(wire'), NEW j \in 1..Len(wire'), Final(wire'[i]), Final(wire'[j]),
               wire'[i].of = wire'[j].of
        PROVE  i = j
    <3>1. n + i = n + j
      BY <1>3, <1>7, <2>2 DEF Answers
    <3> QED
      BY <1>4, <1>7, <3>1
  <2> QED
    BY <2>1, <2>2 DEF Answers
<1>12. Mine'
  <2>1. Waiting(st, wire, 0, hist.fate) => Waiting(st', wire', 0, hist'.fate)
    BY <1>1, <1>2, <1>3, <1>4, <1>5, WaitingRest
  <2> QED
    BY <1>2, <1>3, <1>5, <1>6, <2>1 DEF Mine
<1>13. VerdictOurs'
  BY <1>2, <1>3, <1>6 DEF VerdictOurs, Applying
<1> QED
  BY <1>9, <1>10, <1>11, <1>12, <1>13 DEF VInv

(* What a step of the client leaves to show, if it sends no configuration. *)
LEMMA StepOurs ==
    ASSUME VInv, heads' = heads, inbox' = inbox, wire' = wire,
           DOMAIN hist' = HistNames, hist'.fate = hist.fate, hist'.sent \in 0..Len(hist.fate),
           req' = req \/ req' = Append(req, Sync),
           DOMAIN st' = StNames, DOMAIN me' = MeNames, me'.why \in Nat \cup {None},
           Mine', VerdictOurs'
    PROVE  VInv'
<1>1. IsSeq(req) /\ Shapes /\ Pending
  BY DEF VInv, Shapes
<1>2. \E t : Tame(t) /\ req' = req \o t
  BY <1>1, TameSync, NoNews, Appended
<1>3. IsSeq(req)' /\ Pending'
  BY <1>1, <1>2, PendingTame
<1>4. Shapes'
  <2>1. Outputs'
    BY <1>1 DEF Shapes, Outputs
  <2> QED
    BY <1>1, <1>3, <2>1 DEF Shapes
<1>5. Answers'
  BY DEF VInv, Answers
<1> QED
  BY <1>3, <1>4, <1>5 DEF VInv

LEMMA ReturnOurs ==
    ASSUME VInv, heads' = heads, inbox' = inbox, wire' = wire, hist' = hist,
           me.at = "wait", me.then \in {"refresh", "verdict"},
           DOMAIN st' = StNames, st'.cfgs = {},
           NEW out \in {"ok", "failed", "gone", "timeout"}, NEW why \in Nat \cup {None},
           ApplyReturns(out, why),
           out = "ok" => \A i \in 1..Len(hist.fate) : i > hist.sent => hist.fate[i] = Applied,
           out = "failed" =>
              /\ \A i \in 1..Len(hist.fate) :
                    i > hist.sent /\ i < Len(hist.fate) => hist.fate[i] = Applied
              /\ Len(hist.fate) > hist.sent
              /\ hist.fate[Len(hist.fate)] = [is |-> "failed", why |-> why]
    PROVE  VInv'
<1>1. DOMAIN me = MeNames /\ DOMAIN hist = HistNames /\ hist.sent \in 0..Len(hist.fate)
      /\ me.why \in Nat \cup {None} /\ IsSeq(hist.fate)
  BY DEF VInv, Shapes
<1>2. me.out = None /\ None \notin {"ok", "failed"} /\ None \notin {"snapshot", "refresh", "verdict"}
  <2>1. None \notin {"ok", "failed"} /\ None \notin {"snapshot", "refresh", "verdict"}
    BY NothingIs
  <2>2. me.then # None
    BY <2>1
  <2> QED
    BY <2>1, <2>2 DEF VInv, Mine
<1>3. CASE out = "ok" /\ Len(me.todo) > 1
  <2>1. me' = RoundTrip([me EXCEPT !.todo = Tail(@), !.late = FALSE], "refresh")
        /\ req' = Append(req, Sync)
    BY <1>3 DEF ApplyReturns
  <2>2. DOMAIN me' = MeNames /\ me'.at = "wait" /\ me'.then = "refresh" /\ me'.out = None
        /\ me'.why = me.why /\ me'.call = me.call
    BY <1>1, <1>2, <2>1 DEF RoundTrip, MeNames
  <2>3. Mine'
    BY <1>1, <1>3, <2>2 DEF Mine
  <2>4. VerdictOurs'
    BY <1>2, <2>2 DEF VerdictOurs
  <2> QED
    BY <1>1, <2>1, <2>2, <2>3, <2>4, StepOurs
<1>4. CASE ~(out = "ok" /\ Len(me.todo) > 1)
  <2>1. me' = Over(out, why) /\ req' = req
    BY <1>4 DEF ApplyReturns
  <2>2. DOMAIN me' = MeNames /\ me'.at = "idle" /\ me'.then = None /\ me'.out = out
        /\ me'.why = why /\ me'.call = me.call
    BY <1>1, <2>1 DEF Over, MeNames
  <2>3. Mine'
    BY <1>2, <2>2 DEF Mine
  <2>4. VerdictOurs'
    <3>1. DOMAIN hist.fate = 1..Len(hist.fate)
      BY <1>1, SeqHas
    <3> QED
      BY <2>2, <3>1 DEF VerdictOurs, Applied, Last
  <2> QED
    BY <1>1, <2>1, <2>2, <2>3, <2>4, StepOurs
<1> QED
  BY <1>3, <1>4

LEMMA StIs ==
    ASSUME Shapes
    PROVE  /\ DOMAIN Destroyed = StNames /\ Destroyed.cfgs = {}
           /\ LET t == [Destroyed EXCEPT !.result = None] IN
              DOMAIN t = StNames /\ t.cfgs = {}
BY DEF Shapes, StNames, Destroyed

LEMMA ApplyOurs ==
    ASSUME VInv, NothingToApply \/ Went \/ Answered \/ TimedOut
    PROVE  VInv'
<1>1. Shapes /\ Mine /\ IsSeq(hist.fate) /\ DOMAIN st = StNames
      /\ hist.sent \in 0..Len(hist.fate)
  BY NothingIs DEF VInv, Shapes
<1>2. DOMAIN Destroyed = StNames /\ Destroyed.cfgs = {}
  BY <1>1, StIs
<1>3. CASE NothingToApply
  <2>1. /\ me.at = "wait" /\ me.then = "refresh" /\ ApplyReturns("ok", None)
        /\ heads' = heads /\ inbox' = inbox /\ wire' = wire /\ hist' = hist /\ st' = st
    BY <1>3 DEF NothingToApply, Trip
  <2>2. st.cfgs = {} /\ \A i \in 1..Len(hist.fate) : i > hist.sent => hist.fate[i] = Applied
    BY <1>1, <2>1 DEF Mine
  <2> QED
    BY <1>1, <2>1, <2>2, ReturnOurs
<1>4. CASE Went
  <2>1. /\ me.at = "wait" /\ me.then = "verdict" /\ ApplyReturns("gone", None)
        /\ heads' = heads /\ inbox' = inbox /\ wire' = wire /\ hist' = hist /\ st' = Destroyed
    BY <1>4 DEF Went, Trip
  <2> QED
    BY <1>2, <2>1, ReturnOurs
<1>5. CASE TimedOut
  <2>1. /\ me.at = "wait" /\ me.then = "verdict" /\ ApplyReturns("timeout", None)
        /\ heads' = heads /\ inbox' = inbox /\ wire' = wire /\ hist' = hist /\ st' = Destroyed
    BY <1>5 DEF TimedOut, Trip
  <2> QED
    BY <1>2, <2>1, ReturnOurs
<1>6. CASE Answered
  <2> DEFINE out == IF st.result.is = "applied" THEN "ok" ELSE "failed"
             why == st.result.why
             k == Len(hist.fate)
  <2>1. /\ me.at = "wait" /\ me.then = "verdict" /\ ApplyReturns(out, why) /\ st.result # None
        /\ heads' = heads /\ inbox' = inbox /\ wire' = wire /\ hist' = hist
        /\ st' = [Destroyed EXCEPT !.result = None]
    BY <1>6 DEF Answered, Trip
  <2>2. /\ hist.sent < k /\ st.result = hist.fate[k]
        /\ \A i \in 1..k : i > hist.sent /\ i < k => hist.fate[i] = Applied
    <3>1. hist.sent < k /\ Waiting(st, wire, 0, hist.fate)
      BY <1>1, <2>1 DEF Mine
    <3>2. st.result = hist.fate[k]
      BY <2>1, <3>1, FromNow
    <3> QED
      BY <1>1, <2>1, <3>1, <3>2 DEF Mine
  <2>3. k \in Nat /\ k \in 1..k
    <3>1. k \in Nat
      BY <1>1, SeqHas
    <3> QED
      BY <1>1, <2>2, <3>1
  <2>4. st.result \in {Applied} \cup Failures
    BY <1>1, <2>1, <2>2, <2>3 DEF Shapes
  <2>5. \/ out = "ok" /\ st.result = Applied /\ why = None
        \/ out = "failed" /\ st.result = [is |-> "failed", why |-> why] /\ why \in Nat \cup {None}
    BY <2>4 DEF Applied, Failures
  <2>6. DOMAIN st' = StNames /\ st'.cfgs = {}
    BY <1>1, <2>1, StIs
  <2> HIDE DEF out, why, k
  <2>7. out = "ok" => \A i \in 1..k : i > hist.sent => hist.fate[i] = Applied
    <3>1. \A i \in 1..k : i < k \/ i = k
      BY <2>3
    <3> QED
      BY <2>2, <2>5, <3>1
  <2> QED
    BY <2>1, <2>2, <2>5, <2>6, <2>7, ReturnOurs DEF k
<1> QED
  BY <1>3, <1>4, <1>5, <1>6

(* The steps of the client that neither dispatch nor send nor return from  *)
(* apply.                                                                  *)
LEMMA TripsOurs ==
    ASSUME VInv,
           NotKwin \/ GetBurst \/ Connected \/ Snapshot \/ Sleep \/ Wake \/ Deadline \/ Broken
    PROVE  VInv'
<1>1. /\ Mine /\ VerdictOurs /\ DOMAIN st = StNames /\ DOMAIN me = MeNames
      /\ DOMAIN hist = HistNames /\ hist.sent \in 0..Len(hist.fate) /\ me.why \in Nat \cup {None}
  BY DEF VInv, Shapes
<1>2. None \notin {"globals", "burst", "snapshot", "refresh", "verdict"}
      /\ None \notin {"ok", "failed"}
  BY NothingIs
<1>3. CASE NotKwin
  <2>1. /\ me.then = "globals"
        /\ me' = [Over(IF st.manager THEN "missing" ELSE "none", None) EXCEPT !.at = "closed"]
        /\ heads' = heads /\ inbox' = inbox /\ wire' = wire /\ hist' = hist /\ req' = req
        /\ st' = st
    BY <1>3 DEF NotKwin, Trip
  <2>2. DOMAIN me' = MeNames /\ me'.at = "closed" /\ me'.then = None /\ me'.why = None
        /\ me'.out \in {"missing", "none"}
    BY <1>1, <2>1 DEF Over, MeNames
  <2>3. Mine'
    BY <1>1, <1>2, <2>1, <2>2 DEF Mine
  <2>4. VerdictOurs'
    BY <2>2 DEF VerdictOurs
  <2> QED
    BY <1>1, <2>1, <2>2, <2>3, <2>4, StepOurs
<1>4. CASE GetBurst
  <2>1. /\ me.then = "globals" /\ me' = RoundTrip(me, "burst") /\ st' = [st EXCEPT !.alive = TRUE]
        /\ heads' = heads /\ inbox' = inbox /\ wire' = wire /\ hist' = hist
        /\ req' = Append(req, Sync)
    BY <1>4 DEF GetBurst, Trip
  <2>2. DOMAIN me' = MeNames /\ me'.at = "wait" /\ me'.then = "burst" /\ me'.why = me.why
        /\ me'.out = me.out
    BY <1>1, <2>1 DEF RoundTrip, MeNames
  <2>3. DOMAIN st' = StNames /\ st'.cfgs = st.cfgs
    BY <1>1, <2>1 DEF StNames
  <2>4. me.out = None /\ st.cfgs = {}
    BY <1>1, <1>2, <2>1 DEF Mine
  <2>5. Mine'
    BY <2>2, <2>3, <2>4 DEF Mine
  <2>6. VerdictOurs'
    BY <1>2, <2>2, <2>4 DEF VerdictOurs
  <2> QED
    BY <1>1, <2>1, <2>2, <2>3, <2>5, <2>6, StepOurs
<1>5. CASE Connected
  <2>1. /\ me.then = "burst" /\ me' = Over("connected", None) /\ st' = st
        /\ heads' = heads /\ inbox' = inbox /\ wire' = wire /\ hist' = hist /\ req' = req
    BY <1>5 DEF Connected, Trip
  <2>2. DOMAIN me' = MeNames /\ me'.at = "idle" /\ me'.then = None /\ me'.why = None
        /\ me'.out = "connected"
    BY <1>1, <2>1 DEF Over, MeNames
  <2>3. Mine'
    BY <1>1, <1>2, <2>1, <2>2 DEF Mine
  <2>4. VerdictOurs'
    BY <2>2 DEF VerdictOurs
  <2> QED
    BY <1>1, <2>1, <2>2, <2>3, <2>4, StepOurs
<1>6. CASE Snapshot
  <2>1. /\ me.then = "snapshot" /\ me' = [Over("ok", None) EXCEPT !.snap = SnapshotOf(st)]
        /\ st' = st
        /\ heads' = heads /\ inbox' = inbox /\ wire' = wire /\ hist' = hist /\ req' = req
    BY <1>6 DEF Snapshot, Trip
  <2>2. DOMAIN me' = MeNames /\ me'.at = "idle" /\ me'.then = None /\ me'.why = None
        /\ me'.call = me.call
    BY <1>1, <2>1 DEF Over, MeNames
  <2>3. Mine'
    BY <1>1, <1>2, <2>1, <2>2 DEF Mine
  <2>4. VerdictOurs'
    BY <1>1, <2>1, <2>2 DEF VerdictOurs, Applying, Mine
  <2> QED
    BY <1>1, <2>1, <2>2, <2>3, <2>4, StepOurs
<1>7. CASE Sleep
  <2>1. /\ me.then = "verdict" /\ me' = [me EXCEPT !.at = "sleep"] /\ st' = st
        /\ heads' = heads /\ inbox' = inbox /\ wire' = wire /\ hist' = hist /\ req' = req
    BY <1>7 DEF Sleep, Trip
  <2>2. DOMAIN me' = MeNames /\ me'.at = "sleep" /\ me'.then = me.then /\ me'.why = me.why
        /\ me'.call = me.call /\ me'.out = me.out
    BY <1>1, <2>1 DEF MeNames
  <2>3. Mine'
    BY <1>1, <2>1, <2>2 DEF Mine
  <2>4. VerdictOurs'
    BY <1>1, <2>1, <2>2 DEF VerdictOurs, Applying
  <2> QED
    BY <1>1, <2>1, <2>2, <2>3, <2>4, StepOurs
<1>8. CASE Wake
  <2>1. /\ me.at = "sleep" /\ me' = RoundTrip(me, "verdict") /\ st' = st
        /\ heads' = heads /\ inbox' = inbox /\ wire' = wire /\ hist' = hist
        /\ req' = Append(req, Sync)
    BY <1>8 DEF Wake
  <2>2. me.then = "verdict"
    BY <1>1, <2>1 DEF Mine
  <2>3. DOMAIN me' = MeNames /\ me'.at = "wait" /\ me'.then = me.then /\ me'.why = me.why
        /\ me'.call = me.call /\ me'.out = me.out
    BY <1>1, <2>1, <2>2 DEF RoundTrip, MeNames
  <2>4. Mine'
    BY <1>1, <2>1, <2>2, <2>3 DEF Mine
  <2>5. VerdictOurs'
    BY <1>1, <2>1, <2>3 DEF VerdictOurs, Applying
  <2> QED
    BY <1>1, <2>1, <2>3, <2>4, <2>5, StepOurs
<1>9. CASE Deadline
  <2>1. /\ me' = [me EXCEPT !.late = TRUE] /\ st' = st
        /\ heads' = heads /\ inbox' = inbox /\ wire' = wire /\ hist' = hist /\ req' = req
    BY <1>9 DEF Deadline
  <2>2. DOMAIN me' = MeNames /\ me'.at = me.at /\ me'.then = me.then /\ me'.why = me.why
        /\ me'.call = me.call /\ me'.out = me.out
    BY <1>1, <2>1 DEF MeNames
  <2>3. Mine'
    BY <1>1, <2>1, <2>2 DEF Mine
  <2>4. VerdictOurs'
    BY <1>1, <2>1, <2>2 DEF VerdictOurs, Applying
  <2> QED
    BY <1>1, <2>1, <2>2, <2>3, <2>4, StepOurs
<1>10. CASE Broken
  <2>1. /\ st' = Destroyed /\ me' = [Over("lost", None) EXCEPT !.at = "closed"]
        /\ heads' = heads /\ inbox' = inbox /\ wire' = wire /\ hist' = hist /\ req' = req
    BY <1>10 DEF Broken
  <2>2. DOMAIN me' = MeNames /\ me'.at = "closed" /\ me'.then = None /\ me'.why = None
        /\ me'.out = "lost"
    BY <1>1, <2>1 DEF Over, MeNames
  <2>3. DOMAIN st' = StNames /\ st'.cfgs = {}
    BY <2>1, StIs DEF VInv
  <2>4. Mine'
    BY <1>1, <1>2, <2>2, <2>3 DEF Mine
  <2>5. VerdictOurs'
    BY <2>2 DEF VerdictOurs
  <2> QED
    BY <1>1, <2>1, <2>2, <2>3, <2>4, <2>5, StepOurs
<1> QED
  BY <1>3, <1>4, <1>5, <1>6, <1>7, <1>8, <1>9, <1>10

LEMMA Pair ==
    ASSUME NEW a, NEW b
    PROVE  /\ IsSeq(<<a, b>>) /\ Len(<<a, b>>) = 2 /\ <<a, b>>[1] = a /\ <<a, b>>[2] = b
           /\ \A i \in 1..Len(<<a, b>>) : i = 1 \/ i = 2
<1> DEFINE t == <<a, b>>
<1>1. t \in Seq({a, b}) /\ Len(t) = 2 /\ t[1] = a /\ t[2] = b
  OBVIOUS
<1> HIDE DEF t
<1>2. IsSeq(t) /\ \A i \in 1..Len(t) : i = 1 \/ i = 2
  BY <1>1, SeqIs
<1> QED
  BY <1>1, <1>2 DEF t

(* A configuration is sent.                                                *)
LEMMA SubmitOurs == ASSUME VInv, Submit PROVE VInv'
<1> DEFINE k == Len(hist.fate)
           id == k + 1
           g == hist'.fate
<1>1. PICK c : req' = req \o <<[do |-> "apply", of |-> c], Sync>> /\ c.id = id
  <2> DEFINE C == Configuration(st, Head(me.todo))
             c == [id |-> id, on |-> C.on, mode |-> C.mode, place |-> C.place, prio |-> C.prio]
  <2>1. req' = req \o <<[do |-> "apply", of |-> c], Sync>>
    BY DEF Submit
  <2>2. c.id = id
    OBVIOUS
  <2> HIDE DEF c
  <2> QED
    BY <2>1, <2>2
<1>2. /\ me.at = "wait" /\ me.then = "refresh" /\ st' = SlotEmptied(id)
      /\ hist' = [hist EXCEPT !.fate = Append(@, None)]
      /\ me' = RoundTrip(me, "verdict")
      /\ heads' = heads /\ inbox' = inbox /\ wire' = wire
  BY DEF Submit, Trip
<1>3. /\ Mine /\ Pending /\ Answers /\ Outputs /\ IsSeq(wire) /\ IsSeq(req) /\ IsSeq(hist.fate)
      /\ DOMAIN st = StNames /\ DOMAIN me = MeNames /\ DOMAIN hist = HistNames
      /\ hist.sent \in 0..k /\ me.why \in Nat \cup {None}
      /\ \A i \in 1..k : hist.fate[i] \in {None, Applied} \cup Failures
  BY DEF VInv, Shapes
<1>4. k \in Nat /\ id \in Nat /\ Len(req) \in Nat
  BY <1>3, SeqHas
<1>5. /\ IsSeq(g) /\ Len(g) = id /\ g[id] = None /\ \A i \in 1..k : g[i] = hist.fate[i]
  <2>1. g = hist.fate \o <<None>>
    BY <1>2, <1>3, Appended DEF HistNames
  <2>2. IsSeq(hist.fate \o <<None>>) /\ Len(hist.fate \o <<None>>) = k + 1
        /\ (\A i \in 1..k : (hist.fate \o <<None>>)[i] = hist.fate[i])
        /\ (hist.fate \o <<None>>)[k + 1] = None
    BY <1>3, Ends
  <2> HIDE DEF g, k
  <2> QED
    BY <2>1, <2>2
<1>6. DOMAIN hist' = HistNames /\ hist'.sent = hist.sent
  BY <1>2, <1>3 DEF HistNames
<1>7. DOMAIN st' = StNames /\ st'.result = None /\ st'.reason = None /\ st'.cfgs = {id}
  <2>1. st.cfgs = {}
    BY <1>2, <1>3 DEF Mine
  <2> QED
    BY <1>2, <1>3, <2>1 DEF SlotEmptied, StNames
<1>8. DOMAIN me' = MeNames /\ me'.at = "wait" /\ me'.then = "verdict" /\ me'.why = me.why
      /\ me'.call = me.call /\ me'.out = None
  <2>1. me.out = None
    BY <1>2, <1>3, NothingIs DEF Mine
  <2> QED
    BY <1>2, <1>3, <2>1 DEF RoundTrip, MeNames
<1> DEFINE t == <<[do |-> "apply", of |-> c], Sync>>
<1>9. /\ IsSeq(t) /\ Len(t) = 2 /\ t[1] = [do |-> "apply", of |-> c] /\ t[2] = Sync
      /\ \A i \in 1..Len(t) : i = 1 \/ i = 2
  BY Pair
<1> HIDE DEF t
<1>10. /\ IsSeq(req') /\ Len(req') = Len(req) + 2
       /\ \A i \in 1..Len(req) : req'[i] = req[i]
       /\ \A i \in 1..Len(req') : i \notin 1..Len(req) =>
              i - Len(req) \in 1..Len(t) /\ req'[i] = t[i - Len(req)]
  <2>1. req' = req \o t
    BY <1>1 DEF t
  <2> QED
    BY <1>3, <1>9, <2>1, Joined
<1> HIDE DEF k, id, g
<1>11. Shapes'
  <2>1. Outputs'
    BY <1>2, <1>3 DEF Outputs
  <2>2. hist'.sent \in 0..Len(hist'.fate)
    BY <1>3, <1>4, <1>5, <1>6 DEF id, g
  <2>3. \A i \in 1..Len(g) : g[i] \in {None, Applied} \cup Failures
    <3>1. \A i \in 1..Len(g) : i \in 1..k \/ i = id
      BY <1>4, <1>5 DEF id
    <3> QED
      BY <1>3, <1>5, <3>1
  <2>4. IsSeq(wire')
    BY <1>2, <1>3
  <2> QED
    BY <1>3, <1>5, <1>6, <1>7, <1>8, <1>10, <2>1, <2>2, <2>3, <2>4 DEF Shapes, g
<1>12. Pending'
  <2>1. ASSUME NEW x, Open(x) PROVE Open(x)' /\ x.id # id
    <3>1. x.id \in 1..k /\ hist.fate[x.id] = None
      BY <2>1 DEF Open, k
    <3>2. x.id \in 1..id /\ x.id # id
      BY <1>4, <3>1 DEF id
    <3> QED
      BY <1>5, <3>1, <3>2 DEF Open, g
  <2>2. Open(c)'
    <3>1. id \in 1..id
      BY <1>4 DEF id
    <3> QED
      BY <1>1, <1>5, <3>1 DEF Open, g
  <2>3. ASSUME NEW i \in 1..Len(req'), req'[i].do = "apply"
        PROVE  \/ i \in 1..Len(req) /\ req'[i] = req[i] /\ Open(req[i].of)
               \/ i = Len(req) + 1 /\ req'[i].of = c
    <3>1. CASE i \in 1..Len(req)
      <4>1. req'[i] = req[i]
        BY <1>10, <3>1
      <4> QED
        BY <1>3, <2>3, <3>1, <4>1 DEF Pending
    <3>2. CASE i \notin 1..Len(req)
      <4>1. i - Len(req) \in 1..Len(t) /\ req'[i] = t[i - Len(req)]
        BY <1>10, <3>2
      <4>2. i - Len(req) # 2
        BY <1>9, <2>3, <4>1 DEF Sync
      <4>3. i - Len(req) = 1
        BY <1>9, <4>1, <4>2
      <4> QED
        BY <1>4, <1>9, <4>1, <4>3
    <3> QED
      BY <3>1, <3>2
  <2>4. ASSUME NEW i \in 1..Len(req'), req'[i].do = "apply" PROVE Open(req[i].of)'
    <3>1. CASE i \in 1..Len(req) /\ req'[i] = req[i] /\ Open(req[i].of)
      BY <2>1, <3>1
    <3>2. CASE i = Len(req) + 1 /\ req'[i].of = c
      BY <2>2, <3>2
    <3> QED
      BY <2>3, <2>4, <3>1, <3>2
  <2>5. ASSUME NEW i \in 1..Len(req'), NEW j \in 1..Len(req'),
               req'[i].do = "apply", req'[j].do = "apply", req'[i].of.id = req'[j].of.id
        PROVE  i = j
    <3>1. \/ i \in 1..Len(req) /\ req'[i] = req[i] /\ req[i].of.id # id
          \/ i = Len(req) + 1 /\ req'[i].of.id = id
      BY <1>1, <2>1, <2>3, <2>5
    <3>2. \/ j \in 1..Len(req) /\ req'[j] = req[j] /\ req[j].of.id # id
          \/ j = Len(req) + 1 /\ req'[j].of.id = id
      BY <1>1, <2>1, <2>3, <2>5
    <3> QED
      BY <1>3, <2>5, <3>1, <3>2 DEF Pending
  <2>6. ASSUME NEW i \in 1..Len(req'), NEW x \in inbox', req'[i].do = "apply"
        PROVE  req'[i].of.id # x.id
    <3>1. x \in inbox /\ x.id # id
      BY <1>2, <1>3, <2>1 DEF Pending
    <3>2. \/ i \in 1..Len(req) /\ req'[i] = req[i]
          \/ req'[i].of.id = id
      BY <1>1, <2>3, <2>6
    <3> QED
      BY <1>3, <2>6, <3>1, <3>2 DEF Pending
  <2>7. ASSUME NEW x \in inbox' PROVE Open(x)'
    BY <1>2, <1>3, <2>1 DEF Pending
  <2>8. \A x, y \in inbox' : x.id = y.id => x = y
    BY <1>2, <1>3 DEF Pending
  <2> QED
    BY <2>4, <2>5, <2>6, <2>7, <2>8 DEF Pending
<1>13. ASSUME NEW i \in 1..Len(wire), wire[i].ev \in Deciding
       PROVE  Says(wire[i], g) /\ wire[i].of # id
  <2>1. Says(wire[i], hist.fate)
    BY <1>3, <1>13 DEF Answers
  <2>2. Len(hist.fate) \in Nat /\ Len(g) \in Nat /\ Len(hist.fate) <= Len(g)
    BY <1>4, <1>5 DEF k, id
  <2>3. \A j \in 1..Len(hist.fate) : hist.fate[j] # None => g[j] = hist.fate[j]
    BY <1>5 DEF k
  <2>4. Says(wire[i], g)
    BY <2>1, <2>2, <2>3, SaysKept
  <2>5. wire[i].of \in 1..k
    BY <2>1 DEF Says, k
  <2> QED
    BY <1>4, <2>4, <2>5 DEF id
<1>14. Answers'
  <2>1. \A i \in 1..Len(wire') : wire'[i].ev \in Deciding => Says(wire'[i], hist'.fate)
    BY <1>2, <1>13 DEF g
  <2> QED
    BY <1>2, <1>3, <2>1 DEF Answers
<1>15. Waiting(st', wire', 0, g)
  <2>1. \A j \in 1..Len(wire) : wire[j].ev = "failed" => wire[j].of # id
    BY <1>13 DEF Deciding
  <2> QED
    BY <1>2, <1>5, <1>7, <2>1, FromNow
<1>16. Mine'
  <2>1. hist'.sent < Len(hist'.fate)
    BY <1>3, <1>4, <1>5, <1>6 DEF id, g
  <2>2. \A i \in 1..Len(g) : i > hist'.sent /\ i < Len(g) => g[i] = Applied
    <3>1. \A i \in 1..Len(g) : i < Len(g) => i \in 1..k
      BY <1>4, <1>5 DEF id
    <3>2. \A i \in 1..k : i > hist.sent => hist.fate[i] = Applied
      BY <1>2, <1>3 DEF Mine, k
    <3> QED
      BY <1>5, <1>6, <3>1, <3>2
  <2> QED
    BY <1>8, <1>15, <2>1, <2>2 DEF Mine, g
<1>17. VerdictOurs'
  BY <1>8, NothingIs DEF VerdictOurs
<1> QED
  BY <1>11, <1>12, <1>14, <1>16, <1>17 DEF VInv

LEMMA ClientOurs == ASSUME VInv, Client PROVE VInv'
BY DispatchOurs, TripsOurs, ApplyOurs, SubmitOurs DEF Client

-----------------------------------------------------------------------------
(* The calls.  When one begins, no configuration is the call's yet.        *)
LEMMA BegunIs ==
    ASSUME VInv, hist' = Begun
    PROVE  DOMAIN hist' = HistNames /\ hist'.fate = hist.fate
           /\ hist'.sent = Len(hist.fate) /\ hist'.sent \in 0..Len(hist.fate)
<1>1. DOMAIN hist = HistNames /\ Len(hist.fate) \in Nat
  BY SeqHas DEF VInv, Shapes
<1> QED
  BY <1>1 DEF Begun, HistNames

LEMMA CallOurs == ASSUME VInv, CallSnapshot \/ CallApply PROVE VInv'
<1>1. /\ Mine /\ DOMAIN st = StNames /\ DOMAIN me = MeNames /\ IsSeq(hist.fate)
  BY DEF VInv, Shapes
<1>2. /\ None \notin {"globals", "burst", "snapshot", "refresh", "verdict"}
      /\ None \notin {"ok", "failed"}
  BY NothingIs
<1>3. /\ me.at = "idle" /\ hist' = Begun
      /\ heads' = heads /\ inbox' = inbox /\ wire' = wire /\ st' = st
  BY DEF CallSnapshot, CallApply, MayCall
<1>4. me.then = None /\ st.cfgs = {}
  BY <1>1, <1>2, <1>3 DEF Mine
<1>5. DOMAIN hist' = HistNames /\ hist'.fate = hist.fate
      /\ hist'.sent = Len(hist.fate) /\ hist'.sent \in 0..Len(hist.fate)
  BY <1>3, BegunIs
<1>6. ~ \E i \in 1..Len(hist'.fate) : i > hist'.sent
  <2>1. Len(hist.fate) \in Nat
    BY <1>1, SeqHas
  <2> QED
    BY <1>5, <2>1
<1>7. ASSUME NEW call, NEW plan, NEW todo
      PROVE  LET c == Calls(call, plan, todo) IN
             DOMAIN c = MeNames /\ c.at = me.at /\ c.then = me.then /\ c.out = None /\ c.why = None
             /\ c.call = call
  BY <1>1 DEF Calls, MeNames
<1>8. CASE CallSnapshot
  <2> DEFINE c == Calls("snapshot", None, << >>)
  <2>1. me' = RoundTrip(c, "snapshot") /\ req' = Append(req, Sync)
    BY <1>8 DEF CallSnapshot
  <2>2. DOMAIN c = MeNames /\ c.out = None /\ c.why = None /\ c.call = "snapshot"
    BY <1>7
  <2> HIDE DEF c
  <2>3. DOMAIN me' = MeNames /\ me'.at = "wait" /\ me'.then = "snapshot" /\ me'.out = None
        /\ me'.why = None /\ me'.call = "snapshot"
    BY <2>1, <2>2 DEF RoundTrip, MeNames
  <2>4. Mine'
    BY <1>3, <1>4, <2>3 DEF Mine
  <2>5. VerdictOurs'
    BY <1>2, <2>3 DEF VerdictOurs
  <2> QED
    BY <1>1, <1>3, <1>5, <2>1, <2>3, <2>4, <2>5, StepOurs
<1>9. CASE CallApply
  <2>1. PICK plan, todo :
            LET mine == Calls("apply", plan, todo) IN
            \/ me' = [mine EXCEPT !.todo = << >>, !.out = "rejected"] /\ req' = req
            \/ me' = RoundTrip(mine, "refresh") /\ req' = Append(req, Sync)
    BY <1>9 DEF CallApply
  <2> DEFINE c == Calls("apply", plan, todo)
  <2>2. \/ me' = [c EXCEPT !.todo = << >>, !.out = "rejected"] /\ req' = req
        \/ me' = RoundTrip(c, "refresh") /\ req' = Append(req, Sync)
    BY <2>1
  <2>3. DOMAIN c = MeNames /\ c.at = "idle" /\ c.then = None /\ c.out = None /\ c.why = None
    BY <1>3, <1>4, <1>7
  <2> HIDE DEF c
  <2>4. CASE me' = [c EXCEPT !.todo = << >>, !.out = "rejected"] /\ req' = req
    <3>1. DOMAIN me' = MeNames /\ me'.at = "idle" /\ me'.then = None /\ me'.out = "rejected"
          /\ me'.why = None
      BY <2>3, <2>4 DEF MeNames
    <3>2. Mine'
      BY <1>2, <1>3, <1>4, <3>1 DEF Mine
    <3>3. VerdictOurs'
      BY <3>1 DEF VerdictOurs
    <3> QED
      BY <1>1, <1>3, <1>5, <2>4, <3>1, <3>2, <3>3, StepOurs
  <2>5. CASE me' = RoundTrip(c, "refresh") /\ req' = Append(req, Sync)
    <3>1. DOMAIN me' = MeNames /\ me'.at = "wait" /\ me'.then = "refresh" /\ me'.out = None
          /\ me'.why = None
      BY <2>3, <2>5 DEF RoundTrip, MeNames
    <3>2. Mine'
      BY <1>3, <1>4, <1>6, <3>1 DEF Mine
    <3>3. VerdictOurs'
      BY <1>2, <3>1 DEF VerdictOurs
    <3> QED
      BY <1>1, <1>3, <1>5, <2>5, <3>1, <3>2, <3>3, StepOurs
  <2> QED
    BY <2>2, <2>4, <2>5
<1> QED
  BY <1>8, <1>9

LEMMA ConnectOurs == ASSUME VInv, Connect PROVE VInv'
<1> DEFINE t == <<[do |-> "globals", of |-> None], Sync>>
<1>1. /\ me.at = "off" /\ me' = RoundTrip(me, "globals") /\ hist' = Begun /\ req' = t
      /\ heads' = heads /\ inbox' = inbox /\ wire' = wire /\ st' = st
  BY DEF Connect
<1>2. /\ Shapes /\ Mine /\ Pending /\ Answers /\ DOMAIN me = MeNames /\ DOMAIN st = StNames
      /\ me.why \in Nat \cup {None}
  BY DEF VInv, Shapes
<1>3. None \notin {"globals", "burst", "snapshot", "refresh", "verdict"}
      /\ None \notin {"ok", "failed"}
  BY NothingIs
<1>4. me.then = None /\ st.cfgs = {}
  BY <1>1, <1>2, <1>3 DEF Mine
<1>5. DOMAIN hist' = HistNames /\ hist'.fate = hist.fate
      /\ hist'.sent = Len(hist.fate) /\ hist'.sent \in 0..Len(hist.fate)
  BY <1>1, BegunIs
<1>6. IsSeq(t) /\ \A i \in 1..Len(t) : t[i].do # "apply"
  <2>1. /\ IsSeq(t) /\ t[1] = [do |-> "globals", of |-> None] /\ t[2] = Sync
        /\ \A i \in 1..Len(t) : i = 1 \/ i = 2
    BY Pair
  <2> HIDE DEF t
  <2> QED
    BY <2>1 DEF Sync
<1> HIDE DEF t
<1>7. DOMAIN me' = MeNames /\ me'.at = "wait" /\ me'.then = "globals" /\ me'.out = me.out
      /\ me'.why = me.why /\ me'.call = me.call
  BY <1>1, <1>2 DEF RoundTrip, MeNames
<1>8. Shapes'
  <2>1. Outputs'
    BY <1>1, <1>2 DEF Shapes, Outputs
  <2> QED
    BY <1>1, <1>2, <1>5, <1>6, <1>7, <2>1 DEF Shapes
<1>9. Pending'
  <2>1. \A c : Open(c)' <=> Open(c)
    BY <1>5 DEF Open
  <2> QED
    BY <1>1, <1>2, <1>6, <2>1 DEF Pending
<1>10. Answers'
  BY <1>1, <1>2, <1>5 DEF Answers
<1>11. me'.out = None
  BY <1>1, <1>2, <1>7 DEF Mine
<1>12. ~ \E i \in 1..Len(hist'.fate) : i > hist'.sent
  <2>1. Len(hist.fate) \in Nat
    BY <1>2, SeqHas DEF Shapes
  <2> QED
    BY <1>5, <2>1
<1>13. Mine'
  BY <1>1, <1>3, <1>4, <1>7, <1>11, <1>12 DEF Mine
<1>14. VerdictOurs'
  BY <1>3, <1>11 DEF VerdictOurs
<1> QED
  BY <1>8, <1>9, <1>10, <1>13, <1>14 DEF VInv

-----------------------------------------------------------------------------
(* The invariant holds.                                                    *)
LEMMA VInit == ASSUME Init PROVE VInv
<1>1. Shapes
  <2>1. Outputs
    <3>1. heads \in [Dev -> Head0] /\ IsSeq(Offered)
      BY OfferedModes, SeqIs DEF Init
    <3> QED
      BY <3>1 DEF Outputs, Head0, HeadNames
  <2>2. IsSeq(wire) /\ IsSeq(req) /\ IsSeq(hist.fate) /\ Len(hist.fate) = 0 /\ hist.sent = 0
    BY Nothing DEF Init
  <2>3. DOMAIN st = StNames /\ DOMAIN me = MeNames /\ DOMAIN hist = HistNames /\ me.why = None
    BY DEF Init, Fresh, StNames, MeNames, HistNames
  <2> QED
    BY <2>1, <2>2, <2>3 DEF Shapes
<1>2. req = << >> /\ wire = << >> /\ inbox = {} /\ Len(<< >>) = 0
  BY Nothing DEF Init
<1>3. Pending /\ Answers
  BY <1>2 DEF Pending, Answers
<1>4. me.at = "off" /\ me.then = None /\ me.out = None /\ st.cfgs = {}
  BY DEF Init, Fresh
<1>5. Mine
  BY <1>4, NothingIs DEF Mine
<1>6. VerdictOurs
  BY <1>4, NothingIs DEF VerdictOurs
<1> QED
  BY <1>1, <1>3, <1>5, <1>6 DEF VInv

LEMMA VNext == ASSUME VInv, [Next]_vars PROVE VInv'
<1>1. CASE UNCHANGED vars
  <2>1. /\ heads' = heads /\ inbox' = inbox /\ req' = req /\ wire' = wire /\ st' = st
        /\ me' = me /\ hist' = hist
    BY <1>1 DEF vars
  <2>2. Outputs'
    BY <2>1 DEF VInv, Shapes, Outputs
  <2>3. Mine' /\ VerdictOurs'
    BY <2>1 DEF VInv, Mine, VerdictOurs, Applying
  <2>4. /\ DOMAIN st = StNames /\ DOMAIN me = MeNames /\ DOMAIN hist = HistNames
        /\ hist.sent \in 0..Len(hist.fate) /\ me.why \in Nat \cup {None}
    BY DEF VInv, Shapes
  <2> QED
    BY <2>1, <2>3, <2>4, StepOurs
<1>2. CASE Call
  BY <1>2, ConnectOurs, CallOurs DEF Call
<1>3. CASE Client
  BY <1>3, ClientOurs
<1>4. CASE Deadline
  BY <1>4, TripsOurs
<1>5. CASE Serve
  BY <1>5, ServeOurs
<1>6. CASE Verdict
  BY <1>6, VerdictKept
<1>7. CASE Outside
  BY <1>7, OutsideOurs
<1>8. CASE AllDone
  BY <1>1, <1>8 DEF AllDone
<1> QED
  BY <1>1, <1>2, <1>3, <1>4, <1>5, <1>6, <1>7, <1>8 DEF Next

(* What apply returns is KWin's answer to the configurations of the call   *)
(* itself, and a failure's reason the one given for the last of them,      *)
(* however late KWin answers, whatever was given up before, and whatever   *)
(* happens to its outputs in the meantime.                                 *)
THEOREM VerdictsAreOurs == Spec => []VerdictOurs
<1>1. Init => VInv
  BY VInit
<1>2. VInv /\ [Next]_vars => VInv'
  BY VNext
<1>3. VInv => VerdictOurs
  BY DEF VInv
<1> QED
  BY <1>1, <1>2, <1>3, PTL DEF Spec

-----------------------------------------------------------------------------
(* The modes of one device.                                                *)
Paired(d, ks) == [i \in DOMAIN ks |-> <<d, ks[i]>>]

LEMMA PairedIs ==
    ASSUME NEW d, NEW ks, IsSeq(ks)
    PROVE  /\ IsSeq(Paired(d, ks)) /\ Len(Paired(d, ks)) = Len(ks)
           /\ \A i \in 1..Len(ks) : Paired(d, ks)[i] = <<d, ks[i]>>
           /\ ToSet(Paired(d, ks)) = {d} \X ToSet(ks)
           /\ \A k : Paired(d, Append(ks, k)) = Append(Paired(d, ks), <<d, k>>)
<1> DEFINE n == Len(ks)
           p == Paired(d, ks)
<1>1. n \in Nat /\ DOMAIN ks = 1..n
  BY SeqHas
<1>2. DOMAIN p = 1..n /\ p = [i \in 1..n |-> p[i]] /\ \A i \in 1..n : p[i] = <<d, ks[i]>>
  BY <1>1 DEF Paired
<1> HIDE DEF p
<1>3. IsSeq(p) /\ Len(p) = n
  BY <1>1, <1>2, FunIsSeq
<1>4. ToSet(p) = {d} \X ToSet(ks)
  <2>1. \A x : x \in ToSet(p) <=> \E i \in 1..n : p[i] = x
    BY <1>3, ToSetIs
  <2>2. \A x : x \in ToSet(ks) <=> \E i \in 1..n : ks[i] = x
    BY ToSetIs
  <2>3. \A x : x \in ToSet(p) <=> \E i \in 1..n : x = <<d, ks[i]>>
    BY <1>2, <2>1
  <2>4. \A x : x \in {d} \X ToSet(ks) <=> \E k \in ToSet(ks) : x = <<d, k>>
    OBVIOUS
  <2>5. \A x : x \in ToSet(p) <=> x \in {d} \X ToSet(ks)
    BY <2>2, <2>3, <2>4
  <2> QED
    BY <2>5
<1>5. ASSUME NEW k PROVE Paired(d, Append(ks, k)) = Append(p, <<d, k>>)
  <2> DEFINE u == Append(p, <<d, k>>)
             a == Append(ks, k)
             v == Paired(d, a)
  <2>1. IsSeq(u) /\ Len(u) = n + 1 /\ u[n + 1] = <<d, k>> /\ \A i \in 1..n : u[i] = p[i]
    BY <1>3, Adds
  <2>2. IsSeq(a) /\ Len(a) = n + 1 /\ a[n + 1] = k /\ \A i \in 1..n : a[i] = ks[i]
    BY Adds
  <2> HIDE DEF u, a
  <2>3. DOMAIN a = 1..(n + 1)
    BY <2>2, SeqHas
  <2>4. DOMAIN v = 1..(n + 1) /\ v = [i \in 1..(n + 1) |-> v[i]]
        /\ \A i \in 1..(n + 1) : v[i] = <<d, a[i]>>
    BY <2>3 DEF Paired
  <2> HIDE DEF v
  <2>5. IsSeq(v) /\ Len(v) = n + 1
    BY <1>1, <2>4, FunIsSeq
  <2>6. \A i \in 1..(n + 1) : i \in 1..n \/ i = n + 1
    BY <1>1
  <2>7. \A i \in 1..(n + 1) : v[i] = u[i]
    BY <1>2, <2>1, <2>2, <2>4, <2>6
  <2>8. v = u
    BY <2>1, <2>5, <2>7, SameSeq
  <2> QED
    BY <2>8 DEF u, a, v
<1> QED
  BY <1>2, <1>3, <1>4, <1>5 DEF p

LEMMA OnlyPaired ==
    ASSUME NEW d, NEW ks, IsSeq(ks), NEW T
    PROVE  Only(Paired(d, ks), {d} \X T) = Paired(d, Only(ks, T))
<1> DEFINE E == ToSet(ks)
           G == {t \in Seq(E) : Only(Paired(d, t), {d} \X T) = Paired(d, Only(t, T))}
<1>1. << >> \in G
  <2>1. Paired(d, << >>) = << >>
    BY DEF Paired
  <2> QED
    BY <2>1, OnlyNothing
<1>2. ASSUME NEW t \in G \cap Seq(E), NEW x \in E PROVE Append(t, x) \in G
  <2>1. IsSeq(t) /\ IsSeq(Only(t, T)) /\ IsSeq(Paired(d, t))
    BY SeqIs, OnlyIsSeq, PairedIs
  <2>2. Paired(d, Append(t, x)) = Append(Paired(d, t), <<d, x>>)
    BY <2>1, PairedIs
  <2>3. <<d, x>> \in {d} \X T <=> x \in T
    OBVIOUS
  <2>4. Only(Paired(d, Append(t, x)), {d} \X T) =
            IF x \in T THEN Append(Paired(d, Only(t, T)), <<d, x>>) ELSE Paired(d, Only(t, T))
    BY <2>1, <2>2, <2>3, OnlyAdds
  <2>5. Only(Append(t, x), T) = IF x \in T THEN Append(Only(t, T), x) ELSE Only(t, T)
    BY <2>1, OnlyAdds
  <2>6. Paired(d, Append(Only(t, T), x)) = Append(Paired(d, Only(t, T)), <<d, x>>)
    BY <2>1, PairedIs
  <2>7. Only(Paired(d, Append(t, x)), {d} \X T) = Paired(d, Only(Append(t, x), T))
    BY <2>4, <2>5, <2>6
  <2> QED
    BY <2>7
<1> HIDE DEF G
<1>3. ks \in G
  BY <1>1, <1>2, AllSeq, InSeq
<1> QED
  BY <1>3 DEF G

-----------------------------------------------------------------------------
(* The States that events lead to: At(s, w, n) is what handling the first  *)
(* n events of w makes of s.                                               *)
Path(g, s, w, m) == /\ g[0] = s
                    /\ \A i \in 1..m : g[i] = Handled(g[i - 1], w[i])
Traj(g, s, w) == Path(g, s, w, Len(w))
At(s, w, n) == (CHOOSE g : Traj(g, s, w))[n]
After(s, w) == At(s, w, Len(w))

LEMMA TrajIs ==
    ASSUME NEW s, NEW w, IsSeq(w)
    PROVE  /\ Len(w) \in Nat /\ At(s, w, 0) = s
           /\ \A i \in 1..Len(w) : At(s, w, i) = Handled(At(s, w, i - 1), w[i])
<1> DEFINE Is(f, m) == f[0] = s /\ \A i \in 1..m : f[i] = Handled(f[i - 1], w[i])
           Good == {m \in Nat : \E f : Is(f, m)}
<1>1. 0 \in Good
  <2> DEFINE g == [i \in 0..0 |-> s]
  <2>1. Is(g, 0)
    OBVIOUS
  <2> HIDE DEF Is
  <2> QED
    BY <2>1
<1>2. ASSUME NEW m \in Good \cap Nat PROVE m + 1 \in Good
  <2>1. PICK f : Is(f, m)
    OBVIOUS
  <2> DEFINE g == [i \in 0..(m + 1) |-> IF i <= m THEN f[i] ELSE Handled(f[m], w[i])]
  <2>2. \A i \in 0..m : g[i] = f[i]
    OBVIOUS
  <2>3. g[m + 1] = Handled(f[m], w[m + 1])
    OBVIOUS
  <2> HIDE DEF g
  <2>4. Is(g, m + 1)
    <3>1. g[0] = s
      BY <2>1, <2>2
    <3>2. ASSUME NEW i \in 1..(m + 1) PROVE g[i] = Handled(g[i - 1], w[i])
      <4>1. CASE i \in 1..m
        <5>1. i \in 0..m /\ i - 1 \in 0..m
          BY <4>1
        <5> QED
          BY <2>1, <2>2, <4>1, <5>1
      <4>2. CASE i = m + 1
        <5>1. i - 1 = m /\ m \in 0..m
          BY <4>2
        <5> QED
          BY <2>2, <2>3, <4>2, <5>1
      <4> QED
        BY <4>1, <4>2
    <3> QED
      BY <3>1, <3>2
  <2> HIDE DEF Is
  <2> QED
    BY <2>4
<1> HIDE DEF Good
<1>3. Len(w) \in Good /\ Len(w) \in Nat
  BY <1>1, <1>2, AllNat, SeqHas
<1>4. \E f : Traj(f, s, w)
  BY <1>3 DEF Good, Traj, Path
<1> DEFINE F == CHOOSE f : Traj(f, s, w)
<1>5. Traj(F, s, w)
  BY <1>4
<1>6. \A n : At(s, w, n) = F[n]
  BY DEF At
<1> HIDE DEF F
<1> QED
  BY <1>3, <1>5, <1>6 DEF Traj, Path

LEMMA TrajStep ==
    ASSUME NEW s, NEW w, IsSeq(w), NEW j, NEW i \in 1..Len(w), j = i - 1
    PROVE  At(s, w, i) = Handled(At(s, w, j), w[i])
<1>1. At(s, w, i) = Handled(At(s, w, i - 1), w[i])
  BY TrajIs
<1> QED
  BY <1>1

(* There is only one way.                                                  *)
LEMMA TrajSame ==
    ASSUME NEW s, NEW w, IsSeq(w), NEW m \in 0..Len(w), NEW g, Path(g, s, w, m)
    PROVE  \A n \in 0..m : At(s, w, n) = g[n]
<1> DEFINE Good == {n \in Nat : n <= m => At(s, w, n) = g[n]}
<1>0. /\ g[0] = s /\ m \in Nat /\ Len(w) \in Nat /\ m <= Len(w)
      /\ \A i \in 1..m : g[i] = Handled(g[i - 1], w[i])
  BY SeqHas DEF Path
<1>1. 0 \in Good
  BY <1>0, TrajIs
<1>2. ASSUME NEW n \in Good \cap Nat PROVE n + 1 \in Good
  <2> SUFFICES ASSUME n + 1 <= m PROVE At(s, w, n + 1) = g[n + 1]
    OBVIOUS
  <2> DEFINE k == n + 1
  <2>1. n <= m /\ k \in 1..m /\ k \in 1..Len(w) /\ n = k - 1
    BY <1>0
  <2>2. At(s, w, n) = g[n]
    BY <2>1
  <2> HIDE DEF k
  <2>3. At(s, w, k) = Handled(At(s, w, n), w[k])
    BY <2>1, TrajStep
  <2>4. g[k] = Handled(g[n], w[k])
    BY <1>0, <2>1
  <2>5. At(s, w, k) = g[k]
    BY <2>2, <2>3, <2>4
  <2> QED
    BY <2>5 DEF k
<1> HIDE DEF Good
<1>3. \A n \in Nat : n \in Good
  BY <1>1, <1>2, AllNat
<1> QED
  BY <1>0, <1>3 DEF Good

LEMMA AtJoined ==
    ASSUME NEW s, NEW w, IsSeq(w), NEW q, IsSeq(q)
    PROVE  /\ \A n \in 0..Len(w) : At(s, w \o q, n) = At(s, w, n)
           /\ \A n \in 0..Len(q) : At(s, w \o q, Len(w) + n) = At(After(s, w), q, n)
           /\ After(s, w \o q) = After(After(s, w), q)
<1> DEFINE L == Len(w)
           M == Len(q)
           u == w \o q
<1>1. /\ L \in Nat /\ M \in Nat /\ IsSeq(u) /\ Len(u) = L + M
      /\ \A i \in 1..L : u[i] = w[i]
      /\ \A i \in 1..M : u[L + i] = q[i]
  BY Joined, SeqHas
<1> HIDE DEF u
<1>2. \A n \in 0..L : At(s, w, n) = At(s, u, n)
  <2> DEFINE g == [i \in 0..L |-> At(s, u, i)]
  <2>1. g[0] = s
    BY <1>1, TrajIs
  <2>2. \A i \in 1..L : g[i] = Handled(g[i - 1], w[i])
    <3>1. \A i \in 1..L : i \in 1..Len(u) /\ i - 1 \in 0..L /\ i \in 0..L
      BY <1>1
    <3> QED
      BY <1>1, <3>1, TrajIs
  <2>3. \A n \in 0..L : g[n] = At(s, u, n)
    OBVIOUS
  <2> HIDE DEF g
  <2>4. \A n \in 0..L : At(s, w, n) = g[n]
    <3>1. L \in 0..Len(w) /\ Path(g, s, w, L)
      BY <1>1, <2>1, <2>2 DEF Path
    <3> HIDE DEF L
    <3> QED
      BY <3>1, TrajSame
  <2> QED
    BY <2>3, <2>4
<1>3. At(s, u, L) = After(s, w)
  BY <1>1, <1>2 DEF After
<1>4. \A n \in 0..M : At(After(s, w), q, n) = At(s, u, L + n)
  <2> DEFINE g == [i \in 0..M |-> At(s, u, L + i)]
  <2>1. g[0] = After(s, w)
    BY <1>1, <1>3
  <2>2. \A i \in 1..M : g[i] = Handled(g[i - 1], q[i])
    <3>1. ASSUME NEW i \in 1..M PROVE g[i] = Handled(g[i - 1], q[i])
      <4>1. L + i \in 1..Len(u) /\ (L + i) - 1 = L + (i - 1) /\ i - 1 \in 0..M /\ i \in 0..M
        BY <1>1
      <4>2. At(s, u, L + i) = Handled(At(s, u, (L + i) - 1), u[L + i])
        <5> DEFINE k == L + i
                   j == (L + i) - 1
        <5>1. k \in 1..Len(u) /\ j = k - 1 /\ IsSeq(u)
          BY <1>1, <4>1
        <5> HIDE DEF k, j
        <5>2. At(s, u, k) = Handled(At(s, u, j), u[k])
          BY <5>1, TrajStep
        <5> QED
          BY <5>2 DEF k, j
      <4>3. u[L + i] = q[i]
        BY <1>1
      <4>4. g[i] = At(s, u, L + i) /\ g[i - 1] = At(s, u, L + (i - 1))
        BY <4>1
      <4> QED
        BY <4>1, <4>2, <4>3, <4>4
    <3> QED
      BY <3>1
  <2>3. \A n \in 0..M : g[n] = At(s, u, L + n)
    OBVIOUS
  <2> HIDE DEF g
  <2>4. \A n \in 0..M : At(After(s, w), q, n) = g[n]
    <3>1. M \in 0..Len(q) /\ Path(g, After(s, w), q, M)
      BY <1>1, <2>1, <2>2 DEF Path
    <3> HIDE DEF M
    <3> QED
      BY <3>1, TrajSame
  <2> QED
    BY <2>3, <2>4
<1>5. After(s, u) = After(After(s, w), q)
  <2>1. M \in 0..M
    BY <1>1
  <2>2. At(After(s, w), q, M) = At(s, u, L + M)
    BY <1>4, <2>1
  <2>3. After(s, u) = At(s, u, L + M) /\ After(After(s, w), q) = At(After(s, w), q, M)
    BY <1>1 DEF After
  <2> QED
    BY <2>2, <2>3
<1> QED
  BY <1>2, <1>4, <1>5 DEF u

(* What is left of it.                                                     *)
LEMMA Rests ==
    ASSUME NEW w, IsSeq(w), NEW n \in 0..Len(w)
    PROVE  LET r == SubSeq(w, n + 1, Len(w)) IN
           /\ IsSeq(r) /\ Len(r) = Len(w) - n
           /\ \A i \in 1..(Len(w) - n) : r[i] = w[n + i]
<1> DEFINE S == {w[i] : i \in DOMAIN w}
           r == SubSeq(w, n + 1, Len(w))
<1>1. w \in Seq(S) /\ Len(w) \in Nat
  BY SeqHas DEF IsSeq
<1> HIDE DEF S
<1>2. r \in Seq(S) /\ Len(r) = Len(w) - n /\ \A i \in 1..(Len(w) - n) : r[i] = w[n + i]
  BY <1>1
<1> QED
  BY <1>2, SeqIs

LEMMA AtDropped ==
    ASSUME NEW s, NEW w, IsSeq(w), NEW n \in 0..Len(w)
    PROVE  LET r == SubSeq(w, n + 1, Len(w)) IN
           /\ \A i \in 0..(Len(w) - n) : At(At(s, w, n), r, i) = At(s, w, n + i)
           /\ After(At(s, w, n), r) = After(s, w)
<1> DEFINE r == SubSeq(w, n + 1, Len(w))
           L == Len(w)
           g == [i \in 0..(L - n) |-> At(s, w, n + i)]
<1>1. L \in Nat /\ n \in Nat /\ L - n \in Nat /\ IsSeq(r) /\ Len(r) = L - n
      /\ \A i \in 1..(L - n) : r[i] = w[n + i]
  BY Rests, SeqHas
<1> HIDE DEF r
<1>2. \A i \in 0..(L - n) : g[i] = At(s, w, n + i)
  OBVIOUS
<1>3. g[0] = At(s, w, n)
  BY <1>1, <1>2
<1>4. \A i \in 1..(L - n) : g[i] = Handled(g[i - 1], r[i])
  <2>1. ASSUME NEW i \in 1..(L - n) PROVE g[i] = Handled(g[i - 1], r[i])
    <3>1. n + i \in 1..L /\ (n + i) - 1 = n + (i - 1) /\ i - 1 \in 0..(L - n) /\ i \in 0..(L - n)
      BY <1>1
    <3>2. At(s, w, n + i) = Handled(At(s, w, (n + i) - 1), w[n + i])
      <4> DEFINE k == n + i
                 j == (n + i) - 1
      <4>1. k \in 1..Len(w) /\ j = k - 1
        BY <3>1
      <4> HIDE DEF k, j
      <4>2. At(s, w, k) = Handled(At(s, w, j), w[k])
        BY <4>1, TrajStep
      <4> QED
        BY <4>2 DEF k, j
    <3> HIDE DEF g
    <3> QED
      BY <1>1, <1>2, <3>1, <3>2
  <2> QED
    BY <2>1
<1> HIDE DEF g
<1>5. \A i \in 0..(L - n) : At(At(s, w, n), r, i) = g[i]
  <2> DEFINE m == L - n
             t == At(s, w, n)
  <2>1. m \in 0..Len(r) /\ Path(g, t, r, m)
    BY <1>1, <1>3, <1>4 DEF Path
  <2> HIDE DEF m, t
  <2>2. \A i \in 0..m : At(t, r, i) = g[i]
    BY <1>1, <2>1, TrajSame
  <2> QED
    BY <2>2 DEF m, t
<1>6. After(At(s, w, n), r) = After(s, w)
  <2>1. L - n \in 0..(L - n) /\ n + (L - n) = L
    BY <1>1
  <2> QED
    BY <1>1, <1>2, <1>5, <2>1 DEF After
<1> QED
  BY <1>2, <1>5, <1>6 DEF r

(* CaughtUpTo says the same.                                               *)
LEMMA CaughtUpIs ==
    ASSUME IsSeq(wire), NEW n \in 0..Len(wire)
    PROVE  CaughtUpTo(n) = {At(st, wire, n)}
<1>0. Len(wire) \in Nat /\ n \in Nat /\ n <= Len(wire)
  BY SeqHas
<1>1. PICK g : /\ g = [i \in 0..n |-> IF i = 0 THEN {st} ELSE Stepped(g[i - 1], wire[i])]
               /\ CaughtUpTo(n) = g[n]
  BY <1>0, Folds
<1>2. \A i \in 0..n : g[i] = IF i = 0 THEN {st} ELSE Stepped(g[i - 1], wire[i])
  BY <1>1
<1> DEFINE Good == {i \in Nat : i <= n => g[i] = {At(st, wire, i)}}
<1>3. 0 \in Good
  BY <1>0, <1>2, TrajIs
<1>4. ASSUME NEW i \in Good \cap Nat PROVE i + 1 \in Good
  <2> SUFFICES ASSUME i + 1 <= n PROVE g[i + 1] = {At(st, wire, i + 1)}
    OBVIOUS
  <2>1. i <= n /\ i + 1 \in 0..n /\ i + 1 \in 1..Len(wire) /\ (i + 1) - 1 = i /\ i + 1 # 0
    BY <1>0
  <2>2. g[i + 1] = Stepped({At(st, wire, i)}, wire[i + 1])
    BY <1>2, <2>1
  <2>3. At(st, wire, i + 1) = Handled(At(st, wire, i), wire[i + 1])
    <3> DEFINE k == i + 1
    <3>1. k \in 1..Len(wire) /\ i = k - 1
      BY <2>1
    <3> HIDE DEF k
    <3>2. At(st, wire, k) = Handled(At(st, wire, i), wire[k])
      BY <3>1, TrajStep
    <3> QED
      BY <3>2 DEF k
  <2> QED
    BY <2>2, <2>3 DEF Stepped
<1> HIDE DEF Good
<1>5. n \in Good
  BY <1>0, <1>3, <1>4, AllNat
<1> QED
  BY <1>0, <1>1, <1>5 DEF Good

-----------------------------------------------------------------------------
(* The State's types, and the events'.                                     *)
Devices == [named : BOOLEAN, on : BOOLEAN, mode : Kind \cup {None},
            place : Place \cup {None}, done : BOOLEAN]
States == [manager : BOOLEAN, alive : BOOLEAN, registry : BOOLEAN, devices : Seq(Dev),
           dev : [Dev -> Devices], modes : Seq(Dev \X Kind), info : SUBSET (Dev \X Kind),
           result : Verdicts \cup {None}, reason : Nat \cup {None}, cfgs : SUBSET Nat]

GlobalEvents == {"manager", "manager_gone", "registry", "registry_gone", "synced"}
PlainEvents == {"global", "global_remove", "output", "removed", "name", "done"}
ModeEvents == {"current_mode", "mode", "size_refresh", "mode_removed"}
Events == [ev : GlobalEvents, of : {None}, val : {None}]
          \cup [ev : PlainEvents, of : Dev, val : {None}]
          \cup [ev : {"enabled"}, of : Dev, val : BOOLEAN]
          \cup [ev : {"geometry"}, of : Dev, val : Place]
          \cup [ev : ModeEvents, of : Dev, val : Kind]
          \cup [ev : {"failure_reason"}, of : Nat, val : Nat]
          \cup [ev : {"applied", "failed"}, of : Nat, val : {None}]

(* What the State has of a device, and what it makes of an event about it. *)
KindsOf(s, d) == [i \in DOMAIN ModesOf(s, d) |-> ModesOf(s, d)[i][2]]
View(s, d) == [here |-> d \in ToSet(s.devices), dev |-> s.dev[d], modes |-> KindsOf(s, d),
               info |-> {k \in Kind : <<d, k>> \in s.info}]
Views == [here : BOOLEAN, dev : Devices, modes : Seq(Kind), info : SUBSET Kind]
Unseen(here) == [here |-> here, dev |-> Blank, modes |-> << >>, info |-> {}]

About(e, d) == e.ev \notin GlobalEvents /\ e.ev \notin Deciding /\ e.of = d

LEMMA KindsAre ==
    ASSUME NEW s \in States, NEW d \in Dev
    PROVE  /\ IsSeq(s.modes) /\ KindsOf(s, d) \in Seq(Kind)
           /\ ModesOf(s, d) = Paired(d, KindsOf(s, d))
           /\ \A k \in Kind : k \in ToSet(KindsOf(s, d)) <=> <<d, k>> \in ToSet(s.modes)
<1> DEFINE m == ModesOf(s, d)
           ks == KindsOf(s, d)
           n == Len(m)
<1>1. s.modes \in Seq(Dev \X Kind)
  BY DEF States
<1>2. IsSeq(s.modes)
  BY <1>1, SeqIs
<1>3. IsSeq(m) /\ ToSet(m) = ToSet(s.modes) \cap ({d} \X Kind)
  BY <1>2, OnlySet DEF ModesOf
<1>4. ks = [i \in DOMAIN m |-> m[i][2]]
  BY DEF KindsOf
<1> HIDE DEF m, ks
<1>5. n \in Nat /\ DOMAIN m = 1..n
  BY <1>3, SeqHas
<1>6. \A i \in 1..n : m[i] \in {d} \X Kind
  BY <1>3, ToSetIs
<1>7. \A i \in 1..n : m[i][2] \in Kind /\ m[i] = <<d, m[i][2]>>
  BY <1>6
<1>8. ks \in [1..n -> Kind] /\ \A i \in 1..n : ks[i] = m[i][2]
  BY <1>4, <1>5, <1>7
<1>9. ks \in Seq(Kind) /\ Len(ks) = n
  BY <1>5, <1>8
<1>10. IsSeq(ks)
  BY <1>9, SeqIs
<1>11. m = Paired(d, ks)
  <2> DEFINE p == Paired(d, ks)
  <2>1. IsSeq(p) /\ Len(p) = n /\ \A i \in 1..n : p[i] = <<d, ks[i]>>
    BY <1>9, <1>10, PairedIs
  <2> HIDE DEF p
  <2>2. \A i \in 1..n : m[i] = p[i]
    BY <1>7, <1>8, <2>1
  <2> QED
    BY <1>3, <2>1, <2>2, SameSeq DEF p
<1>12. ASSUME NEW k \in Kind PROVE k \in ToSet(ks) <=> <<d, k>> \in ToSet(s.modes)
  <2>1. ToSet(m) = {d} \X ToSet(ks)
    BY <1>10, <1>11, PairedIs
  <2>2. <<d, k>> \in {d} \X ToSet(ks) <=> k \in ToSet(ks)
    OBVIOUS
  <2>3. <<d, k>> \in ToSet(m) <=> <<d, k>> \in ToSet(s.modes)
    BY <1>3
  <2> QED
    BY <2>1, <2>2, <2>3
<1> QED
  BY <1>2, <1>9, <1>11, <1>12 DEF m, ks

LEMMA KindsOfPaired ==
    ASSUME NEW s, NEW d, NEW ks, IsSeq(ks), ModesOf(s, d) = Paired(d, ks)
    PROVE  KindsOf(s, d) = ks
<1> DEFINE p == Paired(d, ks)
<1>1. KindsOf(s, d) = [i \in DOMAIN p |-> p[i][2]]
  BY DEF KindsOf
<1>2. IsSeq(p) /\ Len(p) = Len(ks) /\ \A i \in 1..Len(ks) : p[i] = <<d, ks[i]>>
  BY PairedIs
<1> HIDE DEF p
<1>3. DOMAIN p = 1..Len(ks) /\ ks = [i \in 1..Len(ks) |-> ks[i]]
  BY <1>2, SeqHas
<1>4. \A i \in 1..Len(ks) : p[i][2] = ks[i]
  BY <1>2
<1> QED
  BY <1>1, <1>3, <1>4

LEMMA ViewTyped ==
    ASSUME NEW s \in States, NEW d \in Dev
    PROVE  /\ View(s, d) \in Views
           /\ View(s, d).here <=> Contains(s.devices, d)
           /\ View(s, d).dev = s.dev[d] /\ View(s, d).modes = KindsOf(s, d)
           /\ \A k \in Kind : k \in View(s, d).info <=> <<d, k>> \in s.info
<1>1. KindsOf(s, d) \in Seq(Kind) /\ s.dev[d] \in Devices
  BY KindsAre DEF States
<1>2. s.devices \in Seq(Dev)
  BY DEF States
<1>3. IsSeq(s.devices)
  BY <1>2, SeqIs
<1>4. Contains(s.devices, d) <=> d \in ToSet(s.devices)
  BY <1>3, ToSetIs
<1>5. (d \in ToSet(s.devices)) \in BOOLEAN
  BY <1>3, ToSetIs
<1> QED
  BY <1>1, <1>4, <1>5 DEF View, Views

(* Two States that have the same of a device.                              *)
LEMMA SameView ==
    ASSUME NEW s \in States, NEW t \in States, NEW d \in Dev,
           d \in ToSet(s.devices) <=> d \in ToSet(t.devices), s.dev[d] = t.dev[d],
           ModesOf(s, d) = ModesOf(t, d),
           \A k \in Kind : <<d, k>> \in s.info <=> <<d, k>> \in t.info
    PROVE  View(s, d) = View(t, d)
<1>1. KindsOf(s, d) = KindsOf(t, d)
  BY DEF KindsOf
<1>2. {k \in Kind : <<d, k>> \in s.info} = {k \in Kind : <<d, k>> \in t.info}
  OBVIOUS
<1>3. (d \in ToSet(s.devices)) = (d \in ToSet(t.devices))
  OBVIOUS
<1> QED
  BY <1>1, <1>2, <1>3 DEF View

(* What the handlers make of a view.                                       *)
HeardMode(v, k) ==
    [v EXCEPT !.modes = Entered(@, k), !.dev.mode = IF @ = None THEN k ELSE @]
HeardModeRemoved(v, k) ==
    LET others == Only(v.modes, Kind \ {k}) IN
    [v EXCEPT !.modes = others, !.info = @ \ {k},
              !.dev.mode = IF @ = k /\ k \in ToSet(v.modes)
                           THEN IF others = << >> THEN None ELSE others[1] ELSE @]
Heard(v, e) ==
    CASE e.ev \in {"global", "output"} -> [v EXCEPT !.here = TRUE]
      [] e.ev \in {"global_remove", "removed"} -> Unseen(FALSE)
      [] e.ev = "mode_removed" -> HeardModeRemoved(v, e.val)
      [] e.ev = "size_refresh" ->
            IF e.val \in ToSet(v.modes) THEN [v EXCEPT !.info = @ \cup {e.val}] ELSE v
      [] e.ev = "name" -> IF v.here THEN [v EXCEPT !.dev.named = TRUE] ELSE v
      [] e.ev = "enabled" -> IF v.here THEN [v EXCEPT !.dev.on = e.val] ELSE v
      [] e.ev = "current_mode" -> IF v.here THEN [v EXCEPT !.dev.mode = e.val] ELSE v
      [] e.ev = "geometry" -> IF v.here THEN [v EXCEPT !.dev.place = e.val] ELSE v
      [] e.ev = "mode" -> IF v.here THEN HeardMode(v, e.val) ELSE v
      [] e.ev = "done" -> IF v.here THEN [v EXCEPT !.dev.done = TRUE] ELSE v

(* A device comes.                                                         *)
LEMMA EnteredHas ==
    ASSUME NEW S, NEW q \in Seq(S), NEW x \in S
    PROVE  Entered(q, x) \in Seq(S) /\ ToSet(Entered(q, x)) = ToSet(q) \cup {x}
<1>1. IsSeq(q)
  BY SeqIs
<1>2. Contains(q, x) <=> x \in ToSet(q)
  BY <1>1, ToSetIs
<1>3. CASE Contains(q, x)
  BY <1>2, <1>3 DEF Entered
<1>4. CASE ~Contains(q, x)
  <2>1. Entered(q, x) = Append(q, x)
    BY <1>4 DEF Entered
  <2>2. ToSet(Append(q, x)) = ToSet(q) \cup {x}
    BY <1>1, ToSetAdds
  <2> QED
    BY <2>1, <2>2
<1> QED
  BY <1>3, <1>4

LEMMA OnlySeq ==
    ASSUME NEW S, NEW q \in Seq(S), NEW T
    PROVE  Only(q, T) \in Seq(S) /\ ToSet(Only(q, T)) = ToSet(q) \cap T
<1>1. IsSeq(q) /\ IsSeq(Only(q, T)) /\ ToSet(Only(q, T)) = ToSet(q) \cap T
  BY SeqIs, OnlySet
<1>2. \A i \in 1..Len(q) : q[i] \in S
  OBVIOUS
<1>3. ToSet(q) \subseteq S
  BY <1>1, <1>2, ToSetIs
<1> DEFINE o == Only(q, T)
<1>4. IsSeq(o) /\ ToSet(o) \subseteq S
  BY <1>1, <1>3
<1> HIDE DEF o
<1>5. \A i \in 1..Len(o) : o[i] \in S
  BY <1>4, ToSetIs
<1>6. o = [i \in 1..Len(o) |-> o[i]] /\ Len(o) \in Nat
  BY <1>4, SeqHas
<1>7. o \in Seq(S)
  BY <1>5, <1>6
<1> QED
  BY <1>1, <1>7 DEF o

LEMMA HeardEnter ==
    ASSUME NEW s \in States, NEW c \in Dev, NEW d \in Dev
    PROVE  LET t == [s EXCEPT !.devices = Entered(@, c)] IN
           /\ t \in States
           /\ View(t, d) = IF c = d THEN [View(s, d) EXCEPT !.here = TRUE] ELSE View(s, d)
<1> DEFINE t == [s EXCEPT !.devices = Entered(@, c)]
<1>1. s.devices \in Seq(Dev)
  BY DEF States
<1>2. Entered(s.devices, c) \in Seq(Dev) /\ ToSet(Entered(s.devices, c)) = ToSet(s.devices) \cup {c}
  BY <1>1, EnteredHas
<1>3. t \in States /\ t.devices = Entered(s.devices, c) /\ t.dev = s.dev /\ t.modes = s.modes
      /\ t.info = s.info
  BY <1>2 DEF States
<1> HIDE DEF t
<1>4. ModesOf(t, d) = ModesOf(s, d)
  BY <1>3 DEF ModesOf
<1>5. CASE c # d
  <2>1. d \in ToSet(t.devices) <=> d \in ToSet(s.devices)
    BY <1>2, <1>3, <1>5
  <2> QED
    BY <1>3, <1>4, <1>5, <2>1, SameView DEF t
<1>6. CASE c = d
  <2>1. d \in ToSet(t.devices)
    BY <1>2, <1>3, <1>6
  <2>2. KindsOf(t, d) = KindsOf(s, d)
    BY <1>4 DEF KindsOf
  <2>3. View(t, d) = [here |-> TRUE, dev |-> s.dev[d], modes |-> KindsOf(s, d),
                      info |-> {k \in Kind : <<d, k>> \in s.info}]
    BY <1>3, <2>1, <2>2 DEF View
  <2> QED
    BY <1>3, <1>6, <2>3 DEF View, t
<1> QED
  BY <1>5, <1>6

(* It goes.                                                                *)
LEMMA HeardRemoved ==
    ASSUME NEW s \in States, NEW c \in Dev, NEW d \in Dev
    PROVE  LET t == RemoveDevice(s, c) IN
           /\ t \in States
           /\ View(t, d) = IF c = d THEN Unseen(FALSE) ELSE View(s, d)
<1> DEFINE t == RemoveDevice(s, c)
           left == Only(s.devices, Dev \ {c})
           rest == Only(s.modes, (Dev \ {c}) \X Kind)
<1>1. s.devices \in Seq(Dev) /\ s.modes \in Seq(Dev \X Kind) /\ Blank \in Devices
  BY DEF States, Blank, Devices
<1>2. left \in Seq(Dev) /\ ToSet(left) = ToSet(s.devices) \cap (Dev \ {c})
      /\ rest \in Seq(Dev \X Kind) /\ IsSeq(s.modes)
  BY <1>1, OnlySeq, SeqIs
<1>3. Only(rest, {d} \X Kind) = Only(s.modes, ((Dev \ {c}) \X Kind) \cap ({d} \X Kind))
  BY <1>2, OnlyOnly
<1> HIDE DEF left, rest
<1>4. /\ t \in States /\ t.devices = left /\ t.modes = rest
      /\ t.dev = [s.dev EXCEPT ![c] = Blank] /\ t.info = s.info \ ({c} \X Kind)
  BY <1>1, <1>2 DEF States, RemoveDevice, left, rest
<1> HIDE DEF t
<1>5. CASE c # d
  <2>1. d \in ToSet(t.devices) <=> d \in ToSet(s.devices)
    BY <1>2, <1>4, <1>5
  <2>2. ((Dev \ {c}) \X Kind) \cap ({d} \X Kind) = {d} \X Kind
    BY <1>5
  <2>3. ModesOf(t, d) = ModesOf(s, d)
    BY <1>3, <1>4, <2>2 DEF ModesOf
  <2>4. t.dev[d] = s.dev[d] /\ \A k \in Kind : <<d, k>> \in s.info <=> <<d, k>> \in t.info
    BY <1>4, <1>5 DEF States
  <2> QED
    BY <1>4, <1>5, <2>1, <2>3, <2>4, SameView DEF t
<1>6. CASE c = d
  <2>1. (d \in ToSet(t.devices)) = FALSE
    BY <1>2, <1>4, <1>6
  <2>2. ToSet(s.modes) \cap (((Dev \ {c}) \X Kind) \cap ({d} \X Kind)) = {}
    BY <1>6
  <2>3. Only(s.modes, ((Dev \ {c}) \X Kind) \cap ({d} \X Kind)) = << >>
    BY <1>2, <2>2, OnlyNone
  <2>4. ModesOf(t, d) = << >>
    BY <1>3, <1>4, <2>3 DEF ModesOf
  <2>5. KindsOf(t, d) = << >>
    BY <2>4 DEF KindsOf
  <2>6. t.dev[d] = Blank /\ {k \in Kind : <<d, k>> \in t.info} = {}
    BY <1>4, <1>6 DEF States
  <2> QED
    BY <1>4, <1>6, <2>1, <2>5, <2>6 DEF View, Unseen, t
<1> QED
  BY <1>5, <1>6

(* Something is said of it.                                                *)
LEMMA HeardOf ==
    ASSUME NEW s \in States, NEW c \in Dev, NEW d \in Dev, NEW x \in Devices
    PROVE  LET t == [s EXCEPT !.dev[c] = x] IN
           /\ t \in States
           /\ View(t, d) = IF c = d THEN [View(s, d) EXCEPT !.dev = x] ELSE View(s, d)
<1> DEFINE t == [s EXCEPT !.dev[c] = x]
<1>1. /\ t \in States /\ t.devices = s.devices /\ t.modes = s.modes /\ t.info = s.info
      /\ t.dev = [s.dev EXCEPT ![c] = x]
  BY DEF States
<1> HIDE DEF t
<1>2. ModesOf(t, d) = ModesOf(s, d)
  BY <1>1 DEF ModesOf
<1>3. KindsOf(t, d) = KindsOf(s, d)
  BY <1>2 DEF KindsOf
<1>4. t.dev[d] = IF c = d THEN x ELSE s.dev[d]
  BY <1>1 DEF States
<1> QED
  BY <1>1, <1>3, <1>4 DEF View, t

(* A mode comes; its size and refresh do.                                  *)
LEMMA HeardModes ==
    ASSUME NEW s \in States, NEW c \in Dev, NEW d \in Dev, NEW k \in Kind
    PROVE  LET t == [s EXCEPT !.modes = Entered(@, <<c, k>>)] IN
           /\ t \in States
           /\ View(t, d) = IF c = d THEN [View(s, d) EXCEPT !.modes = Entered(@, k)]
                           ELSE View(s, d)
<1> DEFINE t == [s EXCEPT !.modes = Entered(@, <<c, k>>)]
           ks == KindsOf(s, d)
<1>0. s.modes \in Seq(Dev \X Kind) /\ <<c, k>> \in Dev \X Kind /\ IsSeq(s.modes)
  BY SeqIs DEF States
<1>1. Entered(s.modes, <<c, k>>) \in Seq(Dev \X Kind)
  BY <1>0, EnteredHas
<1>2. /\ t \in States /\ t.devices = s.devices /\ t.modes = Entered(s.modes, <<c, k>>)
      /\ t.info = s.info /\ t.dev = s.dev
  BY <1>1 DEF States
<1> HIDE DEF t
<1>3. /\ ks \in Seq(Kind) /\ ModesOf(s, d) = Paired(d, ks)
      /\ k \in ToSet(ks) <=> <<d, k>> \in ToSet(s.modes)
  BY KindsAre
<1>4. IsSeq(ks)
  BY <1>3, SeqIs
<1> HIDE DEF ks
<1>5. Contains(s.modes, <<c, k>>) <=> <<c, k>> \in ToSet(s.modes)
  BY <1>0, ToSetIs
<1>6. CASE Contains(s.modes, <<c, k>>)
  <2>1. t.modes = s.modes
    BY <1>2, <1>6 DEF Entered
  <2>2. View(t, d) = View(s, d)
    <3>1. ModesOf(t, d) = ModesOf(s, d)
      BY <2>1 DEF ModesOf
    <3> QED
      BY <1>2, <3>1, SameView
  <2>3. c = d => Entered(ks, k) = ks
    <3>1. c = d => Contains(ks, k)
      BY <1>3, <1>4, <1>5, <1>6, ToSetIs
    <3> QED
      BY <3>1 DEF Entered
  <2>4. c = d => [View(s, d) EXCEPT !.modes = Entered(@, k)] = View(s, d)
    <3>1. View(s, d) \in Views /\ View(s, d).modes = ks
      BY ViewTyped DEF ks
    <3> QED
      BY <2>3, <3>1 DEF Views
  <2> QED
    BY <1>2, <2>2, <2>4 DEF t
<1>7. CASE ~Contains(s.modes, <<c, k>>)
  <2>1. t.modes = Append(s.modes, <<c, k>>)
    BY <1>2, <1>7 DEF Entered
  <2>2. Only(t.modes, {d} \X Kind) = IF <<c, k>> \in {d} \X Kind
                                     THEN Append(Only(s.modes, {d} \X Kind), <<c, k>>)
                                     ELSE Only(s.modes, {d} \X Kind)
    <3> DEFINE x == <<c, k>>
               S == {d} \X Kind
               q == s.modes
    <3>1. t.modes = Append(q, x) /\ IsSeq(q)
      BY <1>0, <2>1
    <3> HIDE DEF x, S, q
    <3>2. Only(Append(q, x), S) = IF x \in S THEN Append(Only(q, S), x) ELSE Only(q, S)
      BY <3>1, OnlyAdds
    <3> QED
      BY <3>1, <3>2 DEF x, S, q
  <2>3. <<c, k>> \in {d} \X Kind <=> c = d
    OBVIOUS
  <2>4. CASE c # d
    <3>1. ModesOf(t, d) = ModesOf(s, d)
      BY <2>2, <2>3, <2>4 DEF ModesOf
    <3>2. View(t, d) = View(s, d)
      BY <1>2, <3>1, SameView
    <3> QED
      BY <1>2, <2>4, <3>2 DEF t
  <2>5. CASE c = d
    <3>1. ModesOf(t, d) = Append(Paired(d, ks), <<d, k>>)
      BY <1>3, <2>2, <2>3, <2>5 DEF ModesOf
    <3>2. Paired(d, Append(ks, k)) = Append(Paired(d, ks), <<d, k>>)
      BY <1>4, PairedIs
    <3>3. IsSeq(Append(ks, k))
      BY <1>4, Adds
    <3>4. KindsOf(t, d) = Append(ks, k)
      BY <3>1, <3>2, <3>3, KindsOfPaired
    <3>5. Entered(ks, k) = Append(ks, k)
      <4>1. ~Contains(ks, k)
        BY <1>3, <1>4, <1>5, <1>7, <2>5, ToSetIs
      <4> QED
        BY <4>1 DEF Entered
    <3> DEFINE here == d \in ToSet(s.devices)
               info == {j \in Kind : <<d, j>> \in s.info}
    <3>6. View(t, d) = [here |-> here, dev |-> s.dev[d], modes |-> Entered(ks, k), info |-> info]
      BY <1>2, <3>4, <3>5 DEF View
    <3>7. View(s, d) = [here |-> here, dev |-> s.dev[d], modes |-> ks, info |-> info]
      BY DEF View, ks
    <3> HIDE DEF here, info
    <3>8. View(t, d) = [View(s, d) EXCEPT !.modes = Entered(@, k)]
      BY <3>6, <3>7
    <3> QED
      BY <1>2, <2>5, <3>8 DEF t
  <2> QED
    BY <2>4, <2>5
<1> QED
  BY <1>6, <1>7

LEMMA HeardInfo ==
    ASSUME NEW s \in States, NEW c \in Dev, NEW d \in Dev, NEW k \in Kind
    PROVE  LET t == [s EXCEPT !.info = @ \cup {<<c, k>>}] IN
           /\ t \in States
           /\ View(t, d) = IF c = d THEN [View(s, d) EXCEPT !.info = @ \cup {k}]
                           ELSE View(s, d)
<1> DEFINE t == [s EXCEPT !.info = @ \cup {<<c, k>>}]
<1>1. /\ t \in States /\ t.devices = s.devices /\ t.modes = s.modes
      /\ t.info = s.info \cup {<<c, k>>} /\ t.dev = s.dev
  BY DEF States
<1> HIDE DEF t
<1>2. ModesOf(t, d) = ModesOf(s, d)
  BY <1>1 DEF ModesOf
<1>3. CASE c # d
  <2>1. \A j \in Kind : <<d, j>> \in s.info <=> <<d, j>> \in t.info
    BY <1>1, <1>3
  <2>2. View(t, d) = View(s, d)
    BY <1>1, <1>2, <2>1, SameView
  <2> QED
    BY <1>1, <1>3, <2>2 DEF t
<1>4. CASE c = d
  <2>1. KindsOf(t, d) = KindsOf(s, d)
    BY <1>2 DEF KindsOf
  <2>2. {j \in Kind : <<d, j>> \in t.info} = {j \in Kind : <<d, j>> \in s.info} \cup {k}
    BY <1>1, <1>4
  <2> DEFINE here == d \in ToSet(s.devices)
             info == {j \in Kind : <<d, j>> \in s.info}
  <2>3. View(t, d) = [here |-> here, dev |-> s.dev[d], modes |-> KindsOf(s, d),
                      info |-> info \cup {k}]
    BY <1>1, <2>1, <2>2 DEF View
  <2>4. View(s, d) = [here |-> here, dev |-> s.dev[d], modes |-> KindsOf(s, d), info |-> info]
    BY DEF View
  <2> HIDE DEF here, info
  <2>5. View(t, d) = [View(s, d) EXCEPT !.info = @ \cup {k}]
    BY <2>3, <2>4
  <2> QED
    BY <1>1, <1>4, <2>5 DEF t
<1> QED
  BY <1>3, <1>4

(* A mode goes.                                                            *)
LEMMA Others ==
    ASSUME NEW s \in States, NEW d \in Dev, NEW k \in Kind
    PROVE  /\ Only(s.modes, {d} \X (Kind \ {k})) = Paired(d, Only(KindsOf(s, d), Kind \ {k}))
           /\ Only(KindsOf(s, d), Kind \ {k}) \in Seq(Kind)
           /\ Repointed(s, d, k) = LET others == Only(KindsOf(s, d), Kind \ {k}) IN
                                   IF others = << >> THEN None ELSE others[1]
<1> DEFINE ks == KindsOf(s, d)
           T == Kind \ {k}
           others == Only(ks, T)
           m == Only(s.modes, {d} \X T)
<1>1. ks \in Seq(Kind) /\ ModesOf(s, d) = Paired(d, ks) /\ IsSeq(s.modes)
  BY KindsAre
<1>2. IsSeq(ks)
  BY <1>1, SeqIs
<1> HIDE DEF ks
<1>3. others \in Seq(Kind)
  BY <1>1, OnlySeq
<1>4. m = Paired(d, others)
  <2>1. ({d} \X Kind) \cap ({d} \X T) = {d} \X T
    OBVIOUS
  <2>2. Only(Only(s.modes, {d} \X Kind), {d} \X T) = Only(s.modes, ({d} \X Kind) \cap ({d} \X T))
    BY <1>1, OnlyOnly
  <2>3. Only(Paired(d, ks), {d} \X T) = Paired(d, Only(ks, T))
    BY <1>2, OnlyPaired
  <2> QED
    BY <1>1, <2>1, <2>2, <2>3 DEF ModesOf
<1>5. Repointed(s, d, k) = IF m = << >> THEN None ELSE m[1][2]
  BY DEF Repointed
<1> HIDE DEF others, m
<1>6. IsSeq(others)
  BY <1>3, SeqIs
<1>7. IsSeq(m) /\ Len(m) = Len(others) /\ \A i \in 1..Len(others) : m[i] = <<d, others[i]>>
  BY <1>4, <1>6, PairedIs
<1>8. m = << >> <=> others = << >>
  BY <1>6, <1>7, EmptySeq, Nothing
<1>9. others # << >> => m[1][2] = others[1]
  <2>1. others # << >> => 1 \in 1..Len(others)
    BY <1>6, EmptySeq, SeqHas
  <2> QED
    BY <1>7, <2>1
<1> QED
  BY <1>3, <1>4, <1>5, <1>8, <1>9 DEF ks, others, m

LEMMA HeardModeGone ==
    ASSUME NEW s \in States, NEW c \in Dev, NEW d \in Dev, NEW k \in Kind
    PROVE  LET t == RemoveMode(s, c, k) IN
           /\ t \in States
           /\ View(t, d) = IF c = d THEN HeardModeRemoved(View(s, d), k) ELSE View(s, d)
<1> DEFINE t == RemoveMode(s, c, k)
           rest == Only(s.modes, (Dev \X Kind) \ {<<c, k>>})
           mode == IF s.dev[c].mode = k /\ Contains(s.modes, <<c, k>>)
                   THEN Repointed(s, c, k) ELSE s.dev[c].mode
           dev == [s.dev[c] EXCEPT !.mode = mode]
<1>1. s.modes \in Seq(Dev \X Kind) /\ IsSeq(s.modes) /\ s.dev \in [Dev -> Devices]
  BY SeqIs DEF States
<1>2. rest \in Seq(Dev \X Kind)
  BY <1>1, OnlySeq
<1>3. mode \in Kind \cup {None}
  <2>1. Repointed(s, c, k) \in Kind \cup {None}
    <3> DEFINE others == Only(KindsOf(s, c), Kind \ {k})
    <3>1. others \in Seq(Kind) /\ Repointed(s, c, k) = IF others = << >> THEN None ELSE others[1]
      BY Others
    <3> HIDE DEF others
    <3> QED
      BY <3>1
  <2>2. s.dev[c].mode \in Kind \cup {None}
    BY <1>1 DEF Devices
  <2> QED
    BY <2>1, <2>2
<1>4. dev \in Devices
  <2>1. s.dev[c] \in Devices
    BY <1>1
  <2> HIDE DEF mode
  <2> QED
    BY <1>3, <2>1 DEF Devices
<1>5. t = [s EXCEPT !.modes = rest, !.info = @ \ {<<c, k>>}, !.dev = [@ EXCEPT ![c] = dev]]
  <2>1. [s.dev EXCEPT ![c].mode = mode] = [s.dev EXCEPT ![c] = dev]
    <3> HIDE DEF mode
    <3> QED
      BY <1>1
  <2> QED
    BY <2>1 DEF RemoveMode
<1> HIDE DEF rest, mode, dev
<1>6. /\ t \in States /\ t.devices = s.devices /\ t.modes = rest
      /\ t.info = s.info \ {<<c, k>>} /\ t.dev = [s.dev EXCEPT ![c] = dev]
  <2> DEFINE devs == [s.dev EXCEPT ![c] = dev]
  <2>1. devs \in [Dev -> Devices]
    BY <1>1, <1>4
  <2>2. t = [s EXCEPT !.modes = rest, !.info = @ \ {<<c, k>>}, !.dev = devs]
    BY <1>5
  <2> HIDE DEF devs, t
  <2>3. t \in States /\ t.devices = s.devices /\ t.modes = rest
        /\ t.info = s.info \ {<<c, k>>} /\ t.dev = devs
    BY <1>2, <2>1, <2>2 DEF States
  <2> QED
    BY <2>3 DEF devs
<1> HIDE DEF t
<1>7. ModesOf(t, d) = Only(s.modes, ((Dev \X Kind) \ {<<c, k>>}) \cap ({d} \X Kind))
  BY <1>1, <1>6, OnlyOnly DEF ModesOf, rest
<1>8. CASE c # d
  <2>1. ((Dev \X Kind) \ {<<c, k>>}) \cap ({d} \X Kind) = {d} \X Kind
    BY <1>8
  <2>2. ModesOf(t, d) = ModesOf(s, d)
    BY <1>7, <2>1 DEF ModesOf
  <2>3. \A j \in Kind : <<d, j>> \in s.info <=> <<d, j>> \in t.info
    BY <1>6, <1>8
  <2>4. t.dev[d] = s.dev[d]
    BY <1>1, <1>6, <1>8
  <2>5. View(t, d) = View(s, d)
    BY <1>6, <2>2, <2>3, <2>4, SameView
  <2> QED
    BY <1>6, <1>8, <2>5 DEF t
<1>9. CASE c = d
  <2> DEFINE ks == KindsOf(s, d)
             others == Only(ks, Kind \ {k})
             here == d \in ToSet(s.devices)
             info == {j \in Kind : <<d, j>> \in s.info}
             now == IF s.dev[d].mode = k /\ k \in ToSet(ks)
                    THEN IF others = << >> THEN None ELSE others[1] ELSE s.dev[d].mode
  <2>1. ((Dev \X Kind) \ {<<c, k>>}) \cap ({d} \X Kind) = {d} \X (Kind \ {k})
    BY <1>9
  <2>2. /\ Only(s.modes, {d} \X (Kind \ {k})) = Paired(d, others)
        /\ others \in Seq(Kind)
        /\ Repointed(s, d, k) = IF others = << >> THEN None ELSE others[1]
    BY Others
  <2>3. Contains(s.modes, <<d, k>>) <=> k \in ToSet(ks)
    BY <1>1, KindsAre, ToSetIs
  <2> HIDE DEF others, ks
  <2>4. IsSeq(others)
    BY <2>2, SeqIs
  <2>5. KindsOf(t, d) = others
    BY <1>7, <2>1, <2>2, <2>4, KindsOfPaired
  <2>6. mode = now
    BY <1>9, <2>2, <2>3 DEF mode
  <2>7. t.dev[d] = [s.dev[d] EXCEPT !.mode = now]
    BY <1>1, <1>6, <1>9, <2>6 DEF dev
  <2>8. {j \in Kind : <<d, j>> \in t.info} = info \ {k}
    BY <1>6, <1>9
  <2> HIDE DEF now
  <2>9. View(t, d) = [here |-> here, dev |-> [s.dev[d] EXCEPT !.mode = now],
                      modes |-> others, info |-> info \ {k}]
    BY <1>6, <2>5, <2>7, <2>8 DEF View
  <2>10. View(s, d) = [here |-> here, dev |-> s.dev[d], modes |-> ks, info |-> info]
    BY DEF View, ks
  <2> HIDE DEF here, info
  <2>11. HeardModeRemoved(View(s, d), k) =
            [View(s, d) EXCEPT !.modes = others, !.info = @ \ {k}, !.dev.mode = now]
    BY <2>10 DEF HeardModeRemoved, others, now
  <2>12. View(t, d) = HeardModeRemoved(View(s, d), k)
    <3> DEFINE v == View(s, d)
    <3>1. v.dev = s.dev[d] /\ v.here = here /\ v.info = info
          /\ v = [here |-> here, dev |-> s.dev[d], modes |-> ks, info |-> info]
      BY <2>10
    <3>2. HeardModeRemoved(v, k) = [v EXCEPT !.modes = others, !.info = @ \ {k}, !.dev.mode = now]
      BY <2>11
    <3> HIDE DEF v
    <3> QED
      BY <2>9, <3>1, <3>2 DEF v
  <2> QED
    BY <1>6, <1>9, <2>12 DEF t
<1> QED
  BY <1>8, <1>9

(* What is not about a device leaves the views alone.                      *)
Alike(s, t) == s.devices = t.devices /\ s.dev = t.dev /\ s.modes = t.modes /\ s.info = t.info

LEMMA AlikeView ==
    ASSUME NEW s, NEW t, Alike(s, t), NEW d
    PROVE  View(s, d) = View(t, d)
<1>1. ModesOf(s, d) = ModesOf(t, d)
  BY DEF ModesOf, Alike
<1>2. KindsOf(s, d) = KindsOf(t, d)
  BY <1>1 DEF KindsOf
<1> QED
  BY <1>2 DEF View, Alike

LEMMA EventIs ==
    ASSUME NEW e \in Events
    PROVE  \/ e.ev \in GlobalEvents /\ e.of = None
           \/ e.ev \in PlainEvents /\ e.of \in Dev
           \/ e.ev = "enabled" /\ e.of \in Dev /\ e.val \in BOOLEAN
           \/ e.ev = "geometry" /\ e.of \in Dev /\ e.val \in Place
           \/ e.ev \in ModeEvents /\ e.of \in Dev /\ e.val \in Kind
           \/ e.ev = "failure_reason" /\ e.of \in Nat /\ e.val \in Nat
           \/ e.ev \in {"applied", "failed"} /\ e.of \in Nat
BY DEF Events

LEMMA GlobalHandled ==
    ASSUME NEW s \in States, NEW e \in Events, e.ev \in GlobalEvents
    PROVE  Handled(s, e) \in States /\ Alike(s, Handled(s, e))
<1>1. CASE e.ev = "manager"
  BY <1>1 DEF Handled, RegistryEvent, States, Alike
<1>2. CASE e.ev = "manager_gone"
  BY <1>2 DEF Handled, RegistryEvent, States, Alike
<1>3. CASE e.ev = "registry"
  BY <1>3 DEF Handled, RegistryEvent, States, Alike
<1>4. CASE e.ev = "registry_gone"
  BY <1>4 DEF Handled, RegistryEvent, States, Alike
<1>5. CASE e.ev = "synced"
  BY <1>5 DEF Handled, Alike
<1> QED
  BY <1>1, <1>2, <1>3, <1>4, <1>5 DEF GlobalEvents

LEMMA VerdictHandled ==
    ASSUME NEW s \in States, NEW e \in Events, e.ev \in Deciding
    PROVE  Handled(s, e) \in States /\ Alike(s, Handled(s, e))
<1>0. Handled(s, e) = ConfigurationEvent(s, e)
  BY DEF Handled, Deciding
<1>1. CASE e.of \notin s.cfgs
  BY <1>0, <1>1 DEF ConfigurationEvent, Alike
<1>2. CASE e.of \in s.cfgs /\ e.ev = "failure_reason"
  <2>1. e.val \in Nat
    BY <1>2, EventIs DEF GlobalEvents, PlainEvents, ModeEvents
  <2> QED
    BY <1>0, <1>2, <2>1 DEF ConfigurationEvent, States, Alike
<1>3. CASE e.of \in s.cfgs /\ e.ev = "applied"
  <2>1. [is |-> "applied", why |-> None] \in Verdicts
    BY DEF Verdicts
  <2> QED
    BY <1>0, <1>3, <2>1 DEF ConfigurationEvent, States, Alike
<1>4. CASE e.of \in s.cfgs /\ e.ev = "failed"
  <2>1. [is |-> "failed", why |-> s.reason] \in Verdicts
    BY DEF Verdicts, States
  <2> QED
    BY <1>0, <1>4, <2>1 DEF ConfigurationEvent, States, Alike
<1> QED
  BY <1>1, <1>2, <1>3, <1>4 DEF Deciding

(* The handlers, device by device.                                         *)
LEMMA ViewHandled ==
    ASSUME NEW s \in States, NEW e \in Events, NEW d \in Dev
    PROVE  /\ Handled(s, e) \in States
           /\ View(Handled(s, e), d) = IF About(e, d) THEN Heard(View(s, d), e) ELSE View(s, d)
<1> DEFINE t == Handled(s, e)
           c == e.of
           k == e.val
           v == View(s, d)
           Right == t \in States /\ View(t, d) = IF About(e, d) THEN Heard(v, e) ELSE v
<1>1. CASE e.ev \in GlobalEvents \cup Deciding
  <2>1. ~About(e, d)
    BY <1>1 DEF About
  <2>2. t \in States /\ Alike(s, t)
    BY <1>1, GlobalHandled, VerdictHandled
  <2>3. View(t, d) = View(s, d)
    BY <2>2, AlikeView
  <2> QED
    BY <2>1, <2>2, <2>3
<1>2. CASE e.ev \notin GlobalEvents \cup Deciding
  <2>0. About(e, d) <=> c = d
    BY <1>2 DEF About
  <2>1. CASE e.ev \in {"global", "output"}
    <3>1. c \in Dev
      BY <2>1, EventIs DEF GlobalEvents, ModeEvents
    <3>2. t = [s EXCEPT !.devices = Entered(@, c)]
      BY <2>1 DEF Handled, RegistryEvent
    <3>3. Heard(v, e) = [v EXCEPT !.here = TRUE]
      BY <2>1 DEF Heard
    <3> HIDE DEF t, c, v
    <3>4. t \in States /\ View(t, d) = IF c = d THEN [v EXCEPT !.here = TRUE] ELSE v
      BY <3>1, <3>2, HeardEnter DEF v
    <3> QED
      BY <2>0, <3>3, <3>4 DEF t, c, v
  <2>2. CASE e.ev \in {"global_remove", "removed"}
    <3>1. c \in Dev
      BY <2>2, EventIs DEF GlobalEvents, ModeEvents
    <3>2. t = RemoveDevice(s, c)
      BY <2>2 DEF Handled, RegistryEvent
    <3>3. Heard(v, e) = Unseen(FALSE)
      BY <2>2 DEF Heard
    <3> HIDE DEF t, c, v
    <3>4. t \in States /\ View(t, d) = IF c = d THEN Unseen(FALSE) ELSE v
      BY <3>1, <3>2, HeardRemoved DEF v
    <3> QED
      BY <2>0, <3>3, <3>4 DEF t, c, v
  <2>3. CASE e.ev = "mode_removed"
    <3>1. c \in Dev /\ k \in Kind
      BY <2>3, EventIs DEF GlobalEvents, PlainEvents
    <3>2. t = RemoveMode(s, c, k)
      BY <2>3 DEF Handled, ModeEvent
    <3>3. Heard(v, e) = HeardModeRemoved(v, k)
      BY <2>3 DEF Heard
    <3> HIDE DEF t, c, k, v
    <3>4. t \in States /\ View(t, d) = IF c = d THEN HeardModeRemoved(v, k) ELSE v
      BY <3>1, <3>2, HeardModeGone DEF v
    <3> QED
      BY <2>0, <3>3, <3>4 DEF t, c, k, v
  <2>4. CASE e.ev = "size_refresh"
    <3>1. c \in Dev /\ k \in Kind
      BY <2>4, EventIs DEF GlobalEvents, PlainEvents
    <3>2. t = IF Contains(s.modes, <<c, k>>) THEN [s EXCEPT !.info = @ \cup {<<c, k>>}] ELSE s
      BY <2>4 DEF Handled, ModeEvent
    <3>3. Heard(v, e) = IF k \in ToSet(v.modes) THEN [v EXCEPT !.info = @ \cup {k}] ELSE v
      BY <2>4 DEF Heard
    <3>4. /\ v.modes = KindsOf(s, d) /\ IsSeq(s.modes)
          /\ k \in ToSet(KindsOf(s, d)) <=> <<d, k>> \in ToSet(s.modes)
      BY <3>1, ViewTyped, KindsAre
    <3>5. Contains(s.modes, <<c, k>>) <=> <<c, k>> \in ToSet(s.modes)
      BY <3>4, ToSetIs
    <3> HIDE DEF t, c, k, v
    <3>6. CASE Contains(s.modes, <<c, k>>)
      <4>1. t \in States /\ View(t, d) = IF c = d THEN [v EXCEPT !.info = @ \cup {k}] ELSE v
        BY <3>1, <3>2, <3>6, HeardInfo DEF v
      <4>2. c = d => k \in ToSet(v.modes)
        BY <3>4, <3>5, <3>6
      <4> QED
        BY <2>0, <3>3, <4>1, <4>2 DEF t, c, k, v
    <3>7. CASE ~Contains(s.modes, <<c, k>>)
      <4>1. c = d => k \notin ToSet(v.modes)
        BY <3>4, <3>5, <3>7
      <4> QED
        BY <2>0, <3>2, <3>3, <3>7, <4>1 DEF t, c, k, v
    <3> QED
      BY <3>6, <3>7
  <2>5. CASE e.ev \in {"name", "enabled", "current_mode", "geometry", "mode", "done"}
    <3>1. c \in Dev
      BY <2>5, EventIs DEF GlobalEvents
    <3>2. t = DeviceEvent(s, e)
      BY <2>5 DEF Handled
    <3>3. s.dev \in [Dev -> Devices] /\ s.dev[c] \in Devices
      BY <3>1 DEF States
    <3>4. /\ v \in Views /\ v.dev = s.dev[d]
          /\ v.here <=> Contains(s.devices, d)
      BY ViewTyped
    <3>5. CASE ~Contains(s.devices, c)
      <4>1. t = s
        BY <3>2, <3>5 DEF DeviceEvent
      <4>2. c = d => Heard(v, e) = v
        <5>1. c = d => ~v.here
          BY <3>4, <3>5
        <5> QED
          BY <2>5, <5>1 DEF Heard
      <4> QED
        BY <2>0, <4>1, <4>2
    <3>6. CASE Contains(s.devices, c)
      <4>0. c = d => v.here
        BY <3>4, <3>6
      <4>1. CASE e.ev = "mode"
        <5> DEFINE x == [s.dev[c] EXCEPT !.mode = IF @ = None THEN k ELSE @]
                   u == [s EXCEPT !.modes = Entered(@, <<c, k>>)]
        <5>1. k \in Kind
          BY <4>1, EventIs DEF GlobalEvents, PlainEvents
        <5>2. u \in States /\ u.dev = s.dev
              /\ View(u, d) = IF c = d THEN [v EXCEPT !.modes = Entered(@, k)] ELSE v
          <6>1. u \in States /\ View(u, d) = IF c = d THEN [v EXCEPT !.modes = Entered(@, k)]
                                             ELSE v
            BY <3>1, <5>1, HeardModes
          <6>2. u.dev = s.dev
            BY DEF States
          <6> QED
            BY <6>1, <6>2
        <5>3. x \in Devices
          <6> DEFINE y == s.dev[c]
          <6> HIDE DEF y
          <6>1. y \in Devices
            BY <3>3 DEF y
          <6>2. [y EXCEPT !.mode = IF @ = None THEN k ELSE @] \in Devices
            BY <5>1, <6>1 DEF Devices
          <6> QED
            BY <6>2 DEF y
        <5>4. t = [u EXCEPT !.dev[c] = x]
          BY <3>2, <3>3, <3>6, <4>1 DEF DeviceEvent, States
        <5> HIDE DEF u
        <5>5. t \in States /\ View(t, d) = IF c = d THEN [View(u, d) EXCEPT !.dev = x] ELSE View(u, d)
          <6>1. u \in States
            BY <5>2
          <6> HIDE DEF x, t, c, v, k
          <6>2. [u EXCEPT !.dev[c] = x] \in States
                /\ View([u EXCEPT !.dev[c] = x], d) = IF c = d THEN [View(u, d) EXCEPT !.dev = x]
                                                      ELSE View(u, d)
            BY <3>1, <5>3, <6>1, HeardOf
          <6> QED
            BY <5>4, <6>2
        <5>6. c = d => [View(u, d) EXCEPT !.dev = x] = HeardMode(v, k)
          <6>1. c = d => x = [v.dev EXCEPT !.mode = IF @ = None THEN k ELSE @]
            BY <3>4
          <6> HIDE DEF x, v, c, k
          <6> QED
            BY <3>4, <5>2, <6>1 DEF HeardMode, Views
        <5>7. c = d => Heard(v, e) = HeardMode(v, k)
          BY <4>0, <4>1 DEF Heard
        <5> QED
          BY <2>0, <5>2, <5>5, <5>6, <5>7
      <4>2. CASE e.ev # "mode"
        <5>1. PICK x \in Devices : /\ t = [s EXCEPT !.dev[c] = x]
                                   /\ c = d => Heard(v, e) = [v EXCEPT !.dev = x]
          <6> DEFINE y == s.dev[c]
          <6>0. y \in Devices
            BY <3>3
          <6>1. c = d => v.dev = y
            BY <3>4
          <6> HIDE DEF y
          <6>2. CASE e.ev = "name"
            <7>1. [y EXCEPT !.named = TRUE] \in Devices
              BY <6>0 DEF Devices
            <7>2. t = [s EXCEPT !.dev[c] = [y EXCEPT !.named = TRUE]]
              BY <3>2, <3>6, <6>2 DEF DeviceEvent, y
            <7>3. c = d => Heard(v, e) = [v EXCEPT !.dev = [y EXCEPT !.named = TRUE]]
              BY <4>0, <6>1, <6>2 DEF Heard
            <7> QED
              BY <7>1, <7>2, <7>3
          <6>3. CASE e.ev = "enabled"
            <7>1. [y EXCEPT !.on = k] \in Devices
              <8>1. k \in BOOLEAN
                BY <6>3, EventIs DEF GlobalEvents, PlainEvents, ModeEvents
              <8> QED
                BY <6>0, <8>1 DEF Devices
            <7>2. t = [s EXCEPT !.dev[c] = [y EXCEPT !.on = k]]
              BY <3>2, <3>6, <6>3 DEF DeviceEvent, y
            <7>3. c = d => Heard(v, e) = [v EXCEPT !.dev = [y EXCEPT !.on = k]]
              BY <4>0, <6>1, <6>3 DEF Heard
            <7> QED
              BY <7>1, <7>2, <7>3
          <6>4. CASE e.ev = "current_mode"
            <7>1. [y EXCEPT !.mode = k] \in Devices
              <8>1. k \in Kind
                BY <6>4, EventIs DEF GlobalEvents, PlainEvents
              <8> QED
                BY <6>0, <8>1 DEF Devices
            <7>2. t = [s EXCEPT !.dev[c] = [y EXCEPT !.mode = k]]
              BY <3>2, <3>6, <6>4 DEF DeviceEvent, y
            <7>3. c = d => Heard(v, e) = [v EXCEPT !.dev = [y EXCEPT !.mode = k]]
              BY <4>0, <6>1, <6>4 DEF Heard
            <7> QED
              BY <7>1, <7>2, <7>3
          <6>5. CASE e.ev = "geometry"
            <7>1. [y EXCEPT !.place = k] \in Devices
              <8>1. k \in Place
                BY <6>5, EventIs DEF GlobalEvents, PlainEvents, ModeEvents
              <8> QED
                BY <6>0, <8>1 DEF Devices
            <7>2. t = [s EXCEPT !.dev[c] = [y EXCEPT !.place = k]]
              BY <3>2, <3>6, <6>5 DEF DeviceEvent, y
            <7>3. c = d => Heard(v, e) = [v EXCEPT !.dev = [y EXCEPT !.place = k]]
              BY <4>0, <6>1, <6>5 DEF Heard
            <7> QED
              BY <7>1, <7>2, <7>3
          <6>6. CASE e.ev = "done"
            <7>1. [y EXCEPT !.done = TRUE] \in Devices
              BY <6>0 DEF Devices
            <7>2. t = [s EXCEPT !.dev[c] = [y EXCEPT !.done = TRUE]]
              BY <3>2, <3>6, <6>6 DEF DeviceEvent, y
            <7>3. c = d => Heard(v, e) = [v EXCEPT !.dev = [y EXCEPT !.done = TRUE]]
              BY <4>0, <6>1, <6>6 DEF Heard
            <7> QED
              BY <7>1, <7>2, <7>3
          <6> QED
            BY <2>5, <4>2, <6>2, <6>3, <6>4, <6>5, <6>6
        <5> HIDE DEF t, c, v
        <5>2. t \in States /\ View(t, d) = IF c = d THEN [v EXCEPT !.dev = x] ELSE v
          BY <3>1, <5>1, HeardOf DEF v
        <5> QED
          BY <2>0, <5>1, <5>2 DEF t, c, v
      <4> QED
        BY <4>1, <4>2
    <3> QED
      BY <3>5, <3>6
  <2>6. e.ev \in {"global", "output", "global_remove", "removed", "mode_removed", "size_refresh",
                  "name", "enabled", "current_mode", "geometry", "mode", "done"}
    BY <1>2, EventIs DEF GlobalEvents, PlainEvents, ModeEvents, Deciding
  <2> HIDE DEF Right
  <2>7. Right
    BY <2>1, <2>2, <2>3, <2>4, <2>5, <2>6 DEF Right
  <2> QED
    BY <2>7 DEF Right
<1> QED
  BY <1>1, <1>2

-----------------------------------------------------------------------------
(* Where the events q lead the view of d: from P, staying in M, into Q.    *)
Leads(d, q, P, M, Q) ==
    \A s \in States : View(s, d) \in P =>
        /\ View(After(s, q), d) \in Q
        /\ \A n \in 0..Len(q) : View(At(s, q, n), d) \in M

LEMMA AtTyped ==
    ASSUME NEW s \in States, NEW q \in Seq(Events)
    PROVE  /\ IsSeq(q) /\ Len(q) \in Nat /\ Len(q) \in 0..Len(q)
           /\ \A n \in 0..Len(q) : At(s, q, n) \in States
           /\ After(s, q) \in States
<1>1. IsSeq(q) /\ Len(q) \in Nat
  BY SeqIs
<1> DEFINE Good == {n \in Nat : n <= Len(q) => At(s, q, n) \in States}
<1>2. 0 \in Good
  BY <1>1, TrajIs
<1>3. ASSUME NEW n \in Good \cap Nat PROVE n + 1 \in Good
  <2> SUFFICES ASSUME n + 1 <= Len(q) PROVE At(s, q, n + 1) \in States
    OBVIOUS
  <2> DEFINE k == n + 1
  <2>1. At(s, q, n) \in States /\ k \in 1..Len(q) /\ n = k - 1
    BY <1>1
  <2> HIDE DEF k
  <2>2. At(s, q, k) = Handled(At(s, q, n), q[k])
    BY <1>1, <2>1, TrajStep
  <2>3. q[k] \in Events
    BY <2>1
  <2>4. At(s, q, k) \in States
    <3> DEFINE t == At(s, q, n)
               e == q[k]
    <3>1. t \in States /\ e \in Events
      BY <2>1, <2>3
    <3> HIDE DEF t, e
    <3>2. CASE Dev # {}
      <4>1. PICK c : c \in Dev
        BY <3>2
      <4>2. Handled(t, e) \in States
        BY <3>1, <4>1, ViewHandled
      <4> QED
        BY <2>2, <4>2 DEF t, e
    <3>3. CASE Dev = {}
      <4>1. e.ev \in GlobalEvents \cup Deciding
        BY <3>1, <3>3, EventIs DEF Deciding
      <4>2. Handled(t, e) \in States
        BY <3>1, <4>1, GlobalHandled, VerdictHandled
      <4> QED
        BY <2>2, <4>2 DEF t, e
    <3> QED
      BY <3>2, <3>3
  <2> QED
    BY <2>4 DEF k
<1> HIDE DEF Good
<1>4. \A n \in Nat : n \in Good
  BY <1>2, <1>3, AllNat
<1>5. \A n \in 0..Len(q) : At(s, q, n) \in States
  BY <1>1, <1>4 DEF Good
<1>6. Len(q) \in 0..Len(q)
  BY <1>1
<1> QED
  BY <1>1, <1>5, <1>6 DEF After

LEMMA LeadsNone ==
    ASSUME NEW d, NEW P, NEW M, NEW Q, P \subseteq M, P \subseteq Q
    PROVE  Leads(d, << >>, P, M, Q)
<1>1. ASSUME NEW s PROVE At(s, << >>, 0) = s /\ After(s, << >>) = s
  BY Nothing, TrajIs DEF After
<1>2. \A n \in 0..0 : n = 0
  OBVIOUS
<1> QED
  BY <1>1, <1>2, Nothing DEF Leads

LEMMA LeadsOne ==
    ASSUME NEW d \in Dev, NEW e \in Events, NEW P, NEW M, NEW Q, P \subseteq M, Q \subseteq M,
           \A v \in P : (IF About(e, d) THEN Heard(v, e) ELSE v) \in Q
    PROVE  Leads(d, <<e>>, P, M, Q)
<1> DEFINE q == <<e>>
<1>1. IsSeq(q) /\ Len(q) = 1 /\ q[1] = e
  BY OneLong
<1> HIDE DEF q
<1> SUFFICES ASSUME NEW s \in States, View(s, d) \in P
             PROVE  /\ View(After(s, q), d) \in Q
                    /\ \A n \in 0..Len(q) : View(At(s, q, n), d) \in M
  BY DEF Leads, q
<1>2. At(s, q, 0) = s
  BY <1>1, TrajIs
<1>3. At(s, q, 1) = Handled(s, e)
  <2>1. 1 \in 1..Len(q) /\ 0 = 1 - 1
    BY <1>1
  <2>2. At(s, q, 1) = Handled(At(s, q, 0), q[1])
    BY <1>1, <2>1, TrajStep
  <2> QED
    BY <1>1, <1>2, <2>2
<1>4. View(Handled(s, e), d) \in Q
  <2>1. View(Handled(s, e), d) = IF About(e, d) THEN Heard(View(s, d), e) ELSE View(s, d)
    BY ViewHandled
  <2> QED
    BY <2>1
<1>5. \A n \in 0..1 : n = 0 \/ n = 1
  OBVIOUS
<1> QED
  BY <1>1, <1>2, <1>3, <1>4, <1>5 DEF After

LEMMA LeadsJoin ==
    ASSUME NEW d, NEW w \in Seq(Events), NEW q \in Seq(Events), NEW P, NEW M, NEW R, NEW Q,
           Leads(d, w, P, M, R), Leads(d, q, R, M, Q)
    PROVE  Leads(d, w \o q, P, M, Q)
<1> SUFFICES ASSUME NEW s \in States, View(s, d) \in P
             PROVE  /\ View(After(s, w \o q), d) \in Q
                    /\ \A n \in 0..Len(w \o q) : View(At(s, w \o q, n), d) \in M
  BY DEF Leads
<1>1. IsSeq(w) /\ IsSeq(q) /\ Len(w) \in Nat /\ Len(q) \in Nat /\ Len(w \o q) = Len(w) + Len(q)
  BY SeqIs
<1> DEFINE t == After(s, w)
<1>2. t \in States
  BY AtTyped
<1>3. View(t, d) \in R /\ \A n \in 0..Len(w) : View(At(s, w, n), d) \in M
  BY DEF Leads
<1>4. View(After(t, q), d) \in Q /\ \A n \in 0..Len(q) : View(At(t, q, n), d) \in M
  <2> HIDE DEF t
  <2> QED
    BY <1>2, <1>3 DEF Leads
<1>5. /\ \A n \in 0..Len(w) : At(s, w \o q, n) = At(s, w, n)
      /\ \A n \in 0..Len(q) : At(s, w \o q, Len(w) + n) = At(t, q, n)
      /\ After(s, w \o q) = After(t, q)
  BY <1>1, AtJoined
<1>6. ASSUME NEW n \in 0..Len(w \o q) PROVE View(At(s, w \o q, n), d) \in M
  <2>1. CASE n \in 0..Len(w)
    BY <1>3, <1>5, <2>1
  <2>2. CASE n \notin 0..Len(w)
    <3> DEFINE m == n - Len(w)
    <3>1. m \in 0..Len(q) /\ Len(w) + m = n
      BY <1>1, <2>2
    <3> HIDE DEF m, t
    <3>2. At(s, w \o q, n) = At(t, q, m)
      BY <1>5, <3>1
    <3> QED
      BY <1>4, <3>1, <3>2
  <2> QED
    BY <2>1, <2>2
<1> QED
  BY <1>4, <1>5, <1>6

LEMMA LeadsMore ==
    ASSUME NEW d, NEW q, NEW P, NEW M, NEW Q, Leads(d, q, P, M, Q),
           NEW P2, NEW M2, NEW Q2, P2 \subseteq P, M \subseteq M2, Q \subseteq Q2
    PROVE  Leads(d, q, P2, M2, Q2)
BY DEF Leads

LEMMA LeadsPast ==
    ASSUME NEW d \in Dev, NEW q \in Seq(Events), \A i \in 1..Len(q) : ~About(q[i], d), NEW P
    PROVE  Leads(d, q, P, P, P)
<1> SUFFICES ASSUME NEW s \in States, View(s, d) \in P
             PROVE  /\ View(After(s, q), d) \in P
                    /\ \A n \in 0..Len(q) : View(At(s, q, n), d) \in P
  BY DEF Leads
<1>1. IsSeq(q) /\ Len(q) \in Nat /\ \A n \in 0..Len(q) : At(s, q, n) \in States
  BY AtTyped
<1> DEFINE Good == {n \in Nat : n <= Len(q) => View(At(s, q, n), d) \in P}
<1>2. 0 \in Good
  BY <1>1, TrajIs
<1>3. ASSUME NEW n \in Good \cap Nat PROVE n + 1 \in Good
  <2> SUFFICES ASSUME n + 1 <= Len(q) PROVE View(At(s, q, n + 1), d) \in P
    OBVIOUS
  <2> DEFINE k == n + 1
  <2>1. View(At(s, q, n), d) \in P /\ k \in 1..Len(q) /\ n = k - 1 /\ n \in 0..Len(q)
    BY <1>1
  <2> HIDE DEF k
  <2>2. At(s, q, k) = Handled(At(s, q, n), q[k])
    BY <1>1, <2>1, TrajStep
  <2>3. q[k] \in Events /\ ~About(q[k], d) /\ At(s, q, n) \in States
    BY <1>1, <2>1
  <2>4. View(At(s, q, k), d) \in P
    BY <2>1, <2>2, <2>3, ViewHandled
  <2> QED
    BY <2>4 DEF k
<1> HIDE DEF Good
<1>4. \A n \in Nat : n \in Good
  BY <1>2, <1>3, AllNat
<1>5. \A n \in 0..Len(q) : View(At(s, q, n), d) \in P
  BY <1>1, <1>4 DEF Good
<1>6. Len(q) \in 0..Len(q)
  BY <1>1
<1> QED
  BY <1>5, <1>6 DEF After

(* Parts of a sequence of events.                                          *)
LEMMA FlattenSeqs ==
    ASSUME NEW E, NEW f \in Seq(Seq(E))
    PROVE  FlattenSeq(f) \in Seq(E)
<1>1. IsSeq(f) /\ Len(f) \in Nat /\ \A j \in 1..Len(f) : f[j] \in Seq(E)
  BY SeqIs
<1>2. \A j \in 1..Len(f) : IsSeq(f[j]) /\ \A i \in 1..Len(f[j]) : f[j][i] \in E
  BY <1>1, SeqIs
<1> DEFINE w == FlattenSeq(f)
<1>3. IsSeq(w) /\ \A i \in 1..Len(w) : \E j \in 1..Len(f) : \E k \in 1..Len(f[j]) : w[i] = f[j][k]
  BY <1>1, <1>2, FlattenHas
<1> HIDE DEF w
<1>4. \A i \in 1..Len(w) : w[i] \in E
  BY <1>2, <1>3
<1>5. w = [i \in 1..Len(w) |-> w[i]] /\ Len(w) \in Nat
  BY <1>3, SeqHas
<1>6. w \in Seq(E)
  BY <1>4, <1>5
<1> QED
  BY <1>6 DEF w

LEMMA LeadsFlat ==
    ASSUME NEW d \in Dev, NEW P, NEW f \in Seq(Seq(Events)),
           \A j \in 1..Len(f) : Leads(d, f[j], P, P, P)
    PROVE  Leads(d, FlattenSeq(f), P, P, P)
<1> DEFINE E == Seq(Events)
           Kept(g) == (\A j \in 1..Len(g) : Leads(d, g[j], P, P, P)) =>
                          Leads(d, FlattenSeq(g), P, P, P)
           G == {g \in Seq(E) : Kept(g)}
<1>1. << >> \in G
  <2>1. FlattenSeq(<< >>) = << >>
    BY DEF FlattenSeq
  <2>2. Leads(d, FlattenSeq(<< >>), P, P, P)
    BY <2>1, LeadsNone
  <2> QED
    BY <2>2
<1>2. ASSUME NEW g \in G \cap Seq(E), NEW x \in E PROVE Append(g, x) \in G
  <2> DEFINE u == Append(g, x)
  <2>1. IsSeq(g) /\ IsSeq(x) /\ u \in Seq(E) /\ Len(g) \in Nat /\ Len(u) = Len(g) + 1
        /\ u[Len(g) + 1] = x /\ \A i \in 1..Len(g) : u[i] = g[i]
    BY SeqIs, Adds
  <2>2. FlattenSeq(u) = FlattenSeq(g) \o x
    BY <2>1, FlattenAdds
  <2>3. FlattenSeq(g) \in E
    BY FlattenSeqs
  <2> HIDE DEF u
  <2>4. ASSUME \A j \in 1..Len(u) : Leads(d, u[j], P, P, P)
        PROVE  Leads(d, FlattenSeq(u), P, P, P)
    <3>1. \A j \in 1..Len(g) : j \in 1..Len(u)
      BY <2>1
    <3>2. Leads(d, FlattenSeq(g), P, P, P)
      <4>1. \A j \in 1..Len(g) : Leads(d, g[j], P, P, P)
        BY <2>1, <2>4, <3>1
      <4> QED
        BY <4>1
    <3>3. Leads(d, x, P, P, P)
      <4>1. Len(g) + 1 \in 1..Len(u)
        BY <2>1
      <4> QED
        BY <2>1, <2>4, <4>1
    <3> QED
      BY <2>2, <2>3, <3>2, <3>3, LeadsJoin
  <2> QED
    BY <2>1, <2>4 DEF u
<1>3. f \in Seq(E)
  OBVIOUS
<1> HIDE DEF G, E
<1>4. f \in G
  <2>1. IsSeq(f) /\ f \in Seq(E)
    BY <1>3, SeqIs
  <2> QED
    BY <1>1, <1>2, <2>1, AllSeq
<1> QED
  BY <1>4 DEF G

(* Only one of the parts is about the device.                              *)
LEMMA LeadsPart ==
    ASSUME NEW d \in Dev, NEW P, NEW M, NEW Q, P \subseteq M, Q \subseteq M,
           NEW f \in Seq(Seq(Events)), NEW j \in 1..Len(f), Leads(d, f[j], P, M, Q),
           \A i \in (1..Len(f)) \ {j} : \A k \in 1..Len(f[i]) : ~About(f[i][k], d)
    PROVE  Leads(d, FlattenSeq(f), P, M, Q)
<1> DEFINE E == Seq(Events)
           Past(x) == \A k \in 1..Len(x) : ~About(x[k], d)
           Kept(g, m) == /\ Leads(d, g[m], P, M, Q)
                         /\ \A i \in (1..Len(g)) \ {m} : Past(g[i])
                         => Leads(d, FlattenSeq(g), P, M, Q)
           G == {g \in Seq(E) : \A m \in 1..Len(g) : Kept(g, m)}
<1>1. << >> \in G
  <2>1. Len(<< >>) = 0 /\ << >> \in Seq(E)
    OBVIOUS
  <2>2. 1..0 = {}
    OBVIOUS
  <2> HIDE DEF Kept, E
  <2> QED
    BY <2>1, <2>2
<1>2. ASSUME NEW g \in G \cap Seq(E), NEW x \in E PROVE Append(g, x) \in G
  <2> DEFINE u == Append(g, x)
             n == Len(g)
  <2>1. IsSeq(g) /\ IsSeq(x) /\ u \in Seq(E) /\ n \in Nat /\ Len(u) = n + 1
        /\ u[n + 1] = x /\ \A i \in 1..n : u[i] = g[i]
    BY SeqIs, Adds
  <2>2. FlattenSeq(u) = FlattenSeq(g) \o x
    BY <2>1, FlattenAdds
  <2>3. FlattenSeq(g) \in E
    BY FlattenSeqs
  <2>4. \A i \in 1..n : i \in 1..(n + 1) /\ i # n + 1
    BY <2>1
  <2>5. n + 1 \in 1..(n + 1) /\ \A i \in 1..(n + 1) : i \in 1..n \/ i = n + 1
    BY <2>1
  <2> HIDE DEF u, n
  <2>6. ASSUME NEW m \in 1..(n + 1), Leads(d, u[m], P, M, Q),
               \A i \in (1..Len(u)) \ {m} : Past(u[i])
        PROVE  Leads(d, FlattenSeq(u), P, M, Q)
    <3> HIDE DEF Past
    <3>1. CASE m \in 1..n
      <4>1. Leads(d, g[m], P, M, Q) /\ \A i \in (1..n) \ {m} : Past(g[i])
        BY <2>1, <2>4, <2>6, <3>1
      <4>2. Leads(d, FlattenSeq(g), P, M, Q)
        BY <3>1, <4>1 DEF n
      <4>3. Past(x)
        BY <2>1, <2>4, <2>5, <2>6, <3>1
      <4>4. Leads(d, x, Q, Q, Q)
        BY <4>3, LeadsPast DEF Past
      <4>5. Leads(d, x, Q, M, Q)
        BY <4>4, LeadsMore
      <4> QED
        BY <2>2, <2>3, <4>2, <4>5, LeadsJoin
    <3>2. CASE m = n + 1
      <4>1. Leads(d, x, P, M, Q)
        BY <2>1, <2>6, <3>2
      <4>2. \A i \in 1..n : Past(g[i])
        BY <2>1, <2>4, <2>6, <3>2
      <4>3. \A i \in 1..n : Leads(d, g[i], P, P, P)
        <5>1. ASSUME NEW i \in 1..n PROVE Leads(d, g[i], P, P, P)
          <6>1. g[i] \in E /\ Past(g[i])
            BY <4>2 DEF n
          <6> QED
            BY <6>1, LeadsPast DEF Past
        <5> QED
          BY <5>1
      <4>4. Leads(d, FlattenSeq(g), P, P, P)
        BY <4>3, LeadsFlat DEF n
      <4>5. Leads(d, FlattenSeq(g), P, M, P)
        BY <4>4, LeadsMore
      <4> QED
        BY <2>2, <2>3, <4>1, <4>5, LeadsJoin
    <3> QED
      BY <2>5, <3>1, <3>2
  <2>7. \A m \in 1..Len(u) : Kept(u, m)
    BY <2>1, <2>6
  <2> HIDE DEF Kept
  <2> QED
    BY <2>1, <2>7 DEF u
<1>3. f \in Seq(E)
  OBVIOUS
<1> HIDE DEF G, E
<1>4. f \in G
  <2>1. IsSeq(f) /\ f \in Seq(E)
    BY <1>3, SeqIs
  <2> QED
    BY <1>1, <1>2, <2>1, AllSeq
<1>5. Kept(f, j)
  <2> HIDE DEF Kept
  <2> QED
    BY <1>4 DEF G
<1> QED
  BY <1>5

-----------------------------------------------------------------------------
(* What is shown of a view, and the view there is of an output once all    *)
(* that KWin has said of it has been handled.                              *)
Shows(v) ==
    IF v.here /\ v.dev.named /\ v.dev.done
    THEN [on |-> v.dev.on, place |-> v.dev.place,
          mode |-> IF v.dev.mode \notin ToSet(v.modes) THEN None
                   ELSE IF v.dev.mode \in v.info THEN v.dev.mode ELSE Unsized]
    ELSE Absent

(* A device that is done has its place.                                    *)
Sane == {v \in Views : v.dev.done => v.dev.place # None}
Hidden == {v \in Sane : Shows(v) = Absent}

Pieces(on, mode, place, ks, info, named, done) ==
    [here |-> TRUE, modes |-> ks, info |-> info,
     dev |-> [named |-> named, on |-> on, mode |-> mode, place |-> place, done |-> done]]
Listed(on, mode, place, ks) == Pieces(on, mode, place, ks, ToSet(ks), TRUE, TRUE)
Full(h) == Listed(h.on, h.mode, h.place, h.modes)

Held(h) == IF h.at = "there" /\ h.told = "described" THEN {Full(h)}
           ELSE IF h.at = "there" /\ h.told = "offered" THEN {Unseen(TRUE)}
           ELSE {Unseen(FALSE)}

HeadOK(h) == h \in HeadType /\ Once(h.modes) /\ h.mode \in ToSet(h.modes)

LEMMA KindsIn ==
    ASSUME NEW ks \in Seq(Kind)
    PROVE  IsSeq(ks) /\ ToSet(ks) \in SUBSET Kind
<1>1. IsSeq(ks)
  BY SeqIs
<1>2. \A i \in 1..Len(ks) : ks[i] \in Kind
  OBVIOUS
<1> QED
  BY <1>1, <1>2, ToSetIs

LEMMA ListedIs ==
    ASSUME NEW on \in BOOLEAN, NEW mode \in Kind \cup {None}, NEW place \in Place,
           NEW ks \in Seq(Kind)
    PROVE  /\ Listed(on, mode, place, ks) \in Sane
           /\ mode \in ToSet(ks) =>
                Shows(Listed(on, mode, place, ks)) = [on |-> on, mode |-> mode, place |-> place]
           /\ Shows(Listed(on, mode, place, ks)) # Absent
<1>1. ToSet(ks) \in SUBSET Kind
  BY KindsIn
<1>2. place # None
  BY NoneIsNothing
<1> DEFINE v == Listed(on, mode, place, ks)
<1>3. v \in Sane
  BY <1>1, <1>2 DEF Sane, Views, Devices, Listed, Pieces
<1>4. mode \in ToSet(ks) => Shows(v) = [on |-> on, mode |-> mode, place |-> place]
  BY DEF Shows, Listed, Pieces
<1>5. Shows(v).place = place
  BY DEF Shows, Listed, Pieces
<1>6. Shows(v) # Absent
  BY <1>2, <1>5 DEF Absent
<1> QED
  BY <1>3, <1>4, <1>6

LEMMA PiecesIn ==
    ASSUME NEW on \in BOOLEAN, NEW mode \in Kind \cup {None}, NEW place \in Place \cup {None},
           NEW ks \in Seq(Kind), NEW info \in SUBSET Kind, NEW named \in BOOLEAN
    PROVE  /\ Pieces(on, mode, place, ks, info, named, FALSE) \in Hidden
           /\ place \in Place => Pieces(on, mode, place, ks, info, named, TRUE) \in Sane
<1>1. Pieces(on, mode, place, ks, info, named, FALSE) \in Sane
  BY DEF Sane, Views, Devices, Pieces
<1>2. Shows(Pieces(on, mode, place, ks, info, named, FALSE)) = Absent
  BY DEF Shows, Pieces
<1>3. ASSUME place \in Place PROVE Pieces(on, mode, place, ks, info, named, TRUE) \in Sane
  BY <1>3, NoneIsNothing DEF Sane, Views, Devices, Pieces
<1> QED
  BY <1>1, <1>2, <1>3 DEF Hidden

LEMMA FullIs ==
    ASSUME NEW h, HeadOK(h)
    PROVE  /\ Full(h) \in Sane
           /\ Shows(Full(h)) = Shown(h) /\ Shown(h) # Absent
<1>1. h.on \in BOOLEAN /\ h.mode \in Kind /\ h.place \in Place /\ h.modes \in Seq(Kind)
      /\ h.mode \in ToSet(h.modes)
  BY DEF HeadOK, HeadType
<1> DEFINE v == Listed(h.on, h.mode, h.place, h.modes)
<1>2. v \in Sane /\ Shows(v) = [on |-> h.on, mode |-> h.mode, place |-> h.place] /\ Shows(v) # Absent
  BY <1>1, ListedIs
<1> QED
  BY <1>2 DEF Full, Shown

LEMMA UnseenIs ==
    ASSUME NEW b \in BOOLEAN
    PROVE  Unseen(b) \in Hidden
<1>1. << >> \in Seq(Kind)
  OBVIOUS
<1> QED
  BY <1>1 DEF Hidden, Sane, Views, Devices, Unseen, Blank, Shows

LEMMA HeldIs ==
    ASSUME NEW h, HeadOK(h)
    PROVE  Held(h) \subseteq Sane /\ \A v \in Held(h) : Shows(v) = Told(h)
<1>1. Full(h) \in Sane /\ Shows(Full(h)) = Shown(h)
  BY FullIs
<1>2. Unseen(TRUE) \in Hidden /\ Unseen(FALSE) \in Hidden
  BY UnseenIs
<1>3. Hidden \subseteq Sane /\ \A v \in Hidden : Shows(v) = Absent
  BY DEF Hidden
<1> QED
  BY <1>1, <1>2, <1>3 DEF Held, Told

-----------------------------------------------------------------------------
(* KWin describes an output to a client that has none of it yet.           *)
LEMMA EventsAre ==
    ASSUME NEW d \in Dev
    PROVE  /\ \A ev \in PlainEvents : Event(ev, d, None) \in Events
           /\ \A ev \in ModeEvents, k \in Kind : Event(ev, d, k) \in Events
           /\ \A place \in Place : Event("geometry", d, place) \in Events
           /\ \A on \in BOOLEAN : Event("enabled", d, on) \in Events
           /\ \A ev \in PlainEvents \cup ModeEvents \cup {"geometry", "enabled"} :
                 \A x, c : About(Event(ev, d, x), c) <=> c = d
<1>1. ASSUME NEW ev \in PlainEvents \cup ModeEvents \cup {"geometry", "enabled"}, NEW x, NEW c
      PROVE  About(Event(ev, d, x), c) <=> c = d
  BY DEF About, Event, PlainEvents, ModeEvents, GlobalEvents, Deciding
<1> QED
  BY <1>1 DEF Events, Event

LEMMA PairJoined == ASSUME NEW a, NEW b PROVE <<a, b>> = <<a>> \o <<b>>
<1> DEFINE t == <<a, b>>
           p == <<a>>
           q == <<b>>
           u == p \o q
<1>1. IsSeq(t) /\ Len(t) = 2 /\ t[1] = a /\ t[2] = b
  BY Pair
<1>2. IsSeq(p) /\ Len(p) = 1 /\ p[1] = a /\ IsSeq(q) /\ Len(q) = 1 /\ q[1] = b
  BY OneLong
<1> HIDE DEF t, p, q
<1>3. IsSeq(u) /\ Len(u) = 2 /\ u[1] = a /\ u[2] = b
  <2>1. /\ IsSeq(u) /\ Len(u) = Len(p) + Len(q)
        /\ \A i \in 1..Len(p) : u[i] = p[i]
        /\ \A i \in 1..Len(q) : u[Len(p) + i] = q[i]
    <3>1. IsSeq(p) /\ IsSeq(q)
      BY <1>2
    <3>2. IsSeq(u) /\ Len(u) = Len(p) + Len(q)
      BY <3>1, Joined
    <3>3. \A i \in 1..Len(p) : u[i] = p[i]
      BY <3>1, Joined
    <3>4. \A i \in 1..Len(q) : u[Len(p) + i] = q[i]
      BY <3>1, Joined
    <3> QED
      BY <3>2, <3>3, <3>4
  <2>2. 1 \in 1..1 /\ 1 + 1 = 2
    OBVIOUS
  <2> HIDE DEF u
  <2> QED
    BY <1>2, <2>1, <2>2
<1> HIDE DEF u
<1>4. \A i \in 1..2 : i = 1 \/ i = 2
  OBVIOUS
<1>5. t = u
  BY <1>1, <1>3, <1>4, SameSeq
<1> QED
  BY <1>5 DEF t, u, p, q

Yes == TRUE

(* What one event makes of it.                                             *)
LEMMA HeardName ==
    ASSUME NEW d, NEW on, NEW mode, NEW place, NEW ks, NEW info, NEW named, NEW done
    PROVE  Heard(Pieces(on, mode, place, ks, info, named, done), Event("name", d, None)) =
              Pieces(on, mode, place, ks, info, Yes, done)
BY DEF Heard, Event, Pieces, Yes

LEMMA HeardDone ==
    ASSUME NEW d, NEW on, NEW mode, NEW place, NEW ks, NEW info, NEW named, NEW done
    PROVE  Heard(Pieces(on, mode, place, ks, info, named, done), Event("done", d, None)) =
              Pieces(on, mode, place, ks, info, named, Yes)
BY DEF Heard, Event, Pieces, Yes

LEMMA HeardGeometry ==
    ASSUME NEW d, NEW on, NEW mode, NEW place, NEW ks, NEW info, NEW named, NEW done, NEW x
    PROVE  Heard(Pieces(on, mode, place, ks, info, named, done), Event("geometry", d, x)) =
              Pieces(on, mode, x, ks, info, named, done)
BY DEF Heard, Event, Pieces

LEMMA HeardEnabled ==
    ASSUME NEW d, NEW on, NEW mode, NEW place, NEW ks, NEW info, NEW named, NEW done, NEW x
    PROVE  Heard(Pieces(on, mode, place, ks, info, named, done), Event("enabled", d, x)) =
              Pieces(x, mode, place, ks, info, named, done)
BY DEF Heard, Event, Pieces

LEMMA HeardCurrent ==
    ASSUME NEW d, NEW on, NEW mode, NEW place, NEW ks, NEW info, NEW named, NEW done, NEW x
    PROVE  Heard(Pieces(on, mode, place, ks, info, named, done), Event("current_mode", d, x)) =
              Pieces(on, x, place, ks, info, named, done)
BY DEF Heard, Event, Pieces

LEMMA HeardNewMode ==
    ASSUME NEW d, NEW on, NEW mode, NEW place, NEW ks, NEW info, NEW named, NEW done, NEW x
    PROVE  Heard(Pieces(on, mode, place, ks, info, named, done), Event("mode", d, x)) =
              Pieces(on, IF mode = None THEN x ELSE mode, place, Entered(ks, x), info, named, done)
BY DEF Heard, HeardMode, Event, Pieces

LEMMA HeardSize ==
    ASSUME NEW d, NEW on, NEW mode, NEW place, NEW ks, NEW info, NEW named, NEW done, NEW x,
           x \in ToSet(ks)
    PROVE  Heard(Pieces(on, mode, place, ks, info, named, done), Event("size_refresh", d, x)) =
              Pieces(on, mode, place, ks, info \cup {x}, named, done)
<1> DEFINE more == info \cup {x}
<1>1. Heard(Pieces(on, mode, place, ks, info, named, done), Event("size_refresh", d, x)) =
         [here |-> TRUE, modes |-> ks, info |-> more,
          dev |-> [named |-> named, on |-> on, mode |-> mode, place |-> place, done |-> done]]
  BY DEF Heard, Event, Pieces
<1> QED
  BY <1>1 DEF Pieces

(* The modes, one after the other.                                         *)
Named(place, ks) == {Pieces(FALSE, m, place, ks, ToSet(ks), TRUE, FALSE) : m \in Kind \cup {None}}
ModesSent(d, ks) == FlattenSeq([i \in DOMAIN ks |-> NewMode(d, ks[i])])

LEMMA NewModeLeads ==
    ASSUME NEW d \in Dev, NEW place \in Place, NEW ks \in Seq(Kind), NEW k \in Kind,
           k \notin ToSet(ks)
    PROVE  /\ NewMode(d, k) \in Seq(Events)
           /\ Leads(d, NewMode(d, k), Named(place, ks), Hidden, Named(place, Append(ks, k)))
<1> DEFINE e == Event("mode", d, k)
           f == Event("size_refresh", d, k)
           us == Append(ks, k)
           R == {Pieces(FALSE, m, place, us, ToSet(ks), TRUE, FALSE) : m \in Kind \cup {None}}
<1>1. e \in Events /\ f \in Events /\ About(e, d) /\ About(f, d)
  BY EventsAre DEF ModeEvents
<1>2. IsSeq(ks) /\ us \in Seq(Kind) /\ ToSet(us) = ToSet(ks) \cup {k}
      /\ ToSet(ks) \in SUBSET Kind /\ ToSet(us) \in SUBSET Kind
  BY KindsIn, ToSetAdds
<1>3. Entered(ks, k) = us
  BY <1>2, ToSetIs DEF Entered
<1>4. Named(place, ks) \subseteq Hidden /\ Named(place, us) \subseteq Hidden /\ R \subseteq Hidden
  BY <1>2, PiecesIn DEF Named
<1>5. Leads(d, <<e>>, Named(place, ks), Hidden, R)
  <2>1. ASSUME NEW v \in Named(place, ks) PROVE Heard(v, e) \in R
    <3>1. PICK m \in Kind \cup {None} : v = Pieces(FALSE, m, place, ks, ToSet(ks), TRUE, FALSE)
      BY DEF Named
    <3> DEFINE n == IF m = None THEN k ELSE m
    <3>2. Heard(v, e) = Pieces(FALSE, n, place, Entered(ks, k), ToSet(ks), TRUE, FALSE)
      <4>1. Heard(Pieces(FALSE, m, place, ks, ToSet(ks), TRUE, FALSE), e) =
                Pieces(FALSE, n, place, Entered(ks, k), ToSet(ks), TRUE, FALSE)
        <5> DEFINE off == FALSE
                   yes == TRUE
                   info == ToSet(ks)
        <5> HIDE DEF off, yes, info
        <5>1. Heard(Pieces(off, m, place, ks, info, yes, off), Event("mode", d, k)) =
                Pieces(off, IF m = None THEN k ELSE m, place, Entered(ks, k), info, yes, off)
          BY HeardNewMode
        <5> QED
          BY <5>1 DEF off, yes, info
      <4> QED
        BY <3>1, <4>1
    <3>3. n \in Kind \cup {None}
      OBVIOUS
    <3> QED
      BY <1>3, <3>2, <3>3
  <2> HIDE DEF e, R
  <2> QED
    BY <1>1, <1>4, <2>1, LeadsOne
<1>6. Leads(d, <<f>>, R, Hidden, Named(place, us))
  <2>1. ASSUME NEW v \in R PROVE Heard(v, f) \in Named(place, us)
    <3>1. PICK m \in Kind \cup {None} : v = Pieces(FALSE, m, place, us, ToSet(ks), TRUE, FALSE)
      OBVIOUS
    <3>2. Heard(v, f) = Pieces(FALSE, m, place, us, ToSet(ks) \cup {k}, TRUE, FALSE)
      <4>1. k \in ToSet(us)
        BY <1>2
      <4>2. Heard(Pieces(FALSE, m, place, us, ToSet(ks), TRUE, FALSE), f) =
                Pieces(FALSE, m, place, us, ToSet(ks) \cup {k}, TRUE, FALSE)
        <5> DEFINE off == FALSE
                   yes == TRUE
                   info == ToSet(ks)
        <5> HIDE DEF off, yes, us, info
        <5>1. Heard(Pieces(off, m, place, us, info, yes, off), Event("size_refresh", d, k)) =
                Pieces(off, m, place, us, info \cup {k}, yes, off)
          BY <4>1, HeardSize
        <5> QED
          BY <5>1 DEF off, yes, info
      <4> QED
        BY <3>1, <4>2
    <3> HIDE DEF us
    <3> QED
      BY <1>2, <3>2 DEF Named
  <2> HIDE DEF f, R, us
  <2> QED
    BY <1>1, <1>4, <2>1, LeadsOne
<1>7. <<e>> \in Seq(Events) /\ <<f>> \in Seq(Events) /\ NewMode(d, k) = <<e>> \o <<f>>
      /\ NewMode(d, k) \in Seq(Events)
  <2>1. NewMode(d, k) = <<e, f>>
    BY DEF NewMode
  <2> HIDE DEF e, f
  <2>2. <<e>> \in Seq(Events) /\ <<f>> \in Seq(Events) /\ <<e, f>> \in Seq(Events)
    BY <1>1
  <2>3. <<e, f>> = <<e>> \o <<f>>
    BY PairJoined
  <2> QED
    BY <2>1, <2>2, <2>3
<1> HIDE DEF e, f, us, R
<1>8. Leads(d, <<e>> \o <<f>>, Named(place, ks), Hidden, Named(place, us))
  BY <1>5, <1>6, <1>7, LeadsJoin
<1> QED
  BY <1>7, <1>8 DEF us

LEMMA ModesSentAdds ==
    ASSUME NEW d \in Dev, NEW ks \in Seq(Kind), NEW k \in Kind
    PROVE  ModesSent(d, Append(ks, k)) = ModesSent(d, ks) \o NewMode(d, k)
<1> DEFINE each(s) == [i \in DOMAIN s |-> NewMode(d, s[i])]
           us == Append(ks, k)
           n == Len(ks)
<1>1. IsSeq(ks) /\ IsSeq(us) /\ n \in Nat /\ Len(us) = n + 1 /\ us[n + 1] = k
      /\ \A i \in 1..n : us[i] = ks[i]
  BY SeqIs, Adds
<1> HIDE DEF us
<1>2. DOMAIN ks = 1..n /\ DOMAIN us = 1..(n + 1)
  BY <1>1, SeqHas
<1>3. IsSeq(each(ks)) /\ Len(each(ks)) = n /\ \A i \in 1..n : each(ks)[i] = NewMode(d, ks[i])
  <2> DEFINE a == each(ks)
  <2>1. DOMAIN a = 1..n /\ a = [i \in 1..n |-> a[i]] /\ \A i \in 1..n : a[i] = NewMode(d, ks[i])
    BY <1>2
  <2> HIDE DEF a
  <2>2. IsSeq(a) /\ Len(a) = n
    BY <1>1, <2>1, FunIsSeq
  <2> QED
    BY <2>1, <2>2 DEF a
<1>4. IsSeq(each(us)) /\ Len(each(us)) = n + 1
      /\ \A i \in 1..(n + 1) : each(us)[i] = NewMode(d, us[i])
  <2> DEFINE a == each(us)
  <2>1. DOMAIN a = 1..(n + 1) /\ a = [i \in 1..(n + 1) |-> a[i]]
        /\ \A i \in 1..(n + 1) : a[i] = NewMode(d, us[i])
    BY <1>2
  <2> HIDE DEF a
  <2>2. IsSeq(a) /\ Len(a) = n + 1
    BY <1>1, <2>1, FunIsSeq
  <2> QED
    BY <2>1, <2>2 DEF a
<1> DEFINE a == each(ks)
           b == each(us)
           x == NewMode(d, k)
<1>5. IsSeq(x)
  BY EventsAre DEF NewMode, IsSeq
<1>6. ModesSent(d, us) = FlattenSeq(b) /\ ModesSent(d, ks) = FlattenSeq(a)
  BY DEF ModesSent
<1>7. \A i \in 1..n : b[i] = a[i]
  <2>1. \A i \in 1..n : i \in 1..(n + 1)
    BY <1>1
  <2> HIDE DEF each
  <2> QED
    BY <1>1, <1>3, <1>4, <2>1
<1>8. b[n + 1] = x
  <2>1. n + 1 \in 1..(n + 1)
    BY <1>1
  <2> HIDE DEF each
  <2> QED
    BY <1>1, <1>4, <2>1
<1>9. IsSeq(a) /\ IsSeq(b) /\ Len(a) = n /\ Len(b) = n + 1
  BY <1>3, <1>4
<1> HIDE DEF a, b, x, each
<1>10. b = Append(a, x)
  <2> DEFINE u == Append(a, x)
  <2>1. IsSeq(u) /\ Len(u) = n + 1 /\ u[n + 1] = x /\ \A i \in 1..n : u[i] = a[i]
    BY <1>9, Adds
  <2> HIDE DEF u
  <2>2. \A i \in 1..(n + 1) : i \in 1..n \/ i = n + 1
    BY <1>1
  <2>3. \A i \in 1..(n + 1) : b[i] = u[i]
    BY <1>7, <1>8, <2>1, <2>2
  <2>4. b = u
    BY <1>9, <2>1, <2>3, SameSeq
  <2> QED
    BY <2>4 DEF u
<1> QED
  BY <1>5, <1>6, <1>9, <1>10, FlattenAdds DEF us, x

LEMMA ModesLead ==
    ASSUME NEW d \in Dev, NEW place \in Place, NEW ks \in Seq(Kind), Once(ks)
    PROVE  /\ ModesSent(d, ks) \in Seq(Events)
           /\ Leads(d, ModesSent(d, ks), Named(place, << >>), Hidden, Named(place, ks))
<1> DEFINE Good(s) == Once(s) => /\ ModesSent(d, s) \in Seq(Events)
                                 /\ Leads(d, ModesSent(d, s), Named(place, << >>), Hidden,
                                          Named(place, s))
           G == {s \in Seq(Kind) : Good(s)}
<1>1. << >> \in G
  <2>1. ModesSent(d, << >>) = << >>
    BY DEF ModesSent, FlattenSeq
  <2>2. Named(place, << >>) \subseteq Hidden
    <3>1. << >> \in Seq(Kind)
      OBVIOUS
    <3>2. ToSet(<< >>) \in SUBSET Kind
      BY <3>1, KindsIn
    <3> QED
      BY <3>1, <3>2, PiecesIn DEF Named
  <2>3. Leads(d, << >>, Named(place, << >>), Hidden, Named(place, << >>))
    BY <2>2, LeadsNone
  <2>4. << >> \in Seq(Events) /\ << >> \in Seq(Kind)
    OBVIOUS
  <2> QED
    BY <2>1, <2>3, <2>4
<1>2. ASSUME NEW s \in G \cap Seq(Kind), NEW k \in Kind PROVE Append(s, k) \in G
  <2> DEFINE u == Append(s, k)
  <2>1. Good(s) /\ IsSeq(s) /\ u \in Seq(Kind)
    BY SeqIs
  <2>2. Once(u) => Once(s) /\ k \notin ToSet(s)
    BY <2>1, OnceAdds
  <2>3. ModesSent(d, u) = ModesSent(d, s) \o NewMode(d, k)
    BY ModesSentAdds
  <2> HIDE DEF u
  <2>4. ASSUME Once(u)
        PROVE  /\ ModesSent(d, u) \in Seq(Events)
               /\ Leads(d, ModesSent(d, u), Named(place, << >>), Hidden, Named(place, u))
    <3>1. /\ ModesSent(d, s) \in Seq(Events)
          /\ Leads(d, ModesSent(d, s), Named(place, << >>), Hidden, Named(place, s))
      BY <2>1, <2>2, <2>4
    <3>2. /\ NewMode(d, k) \in Seq(Events)
          /\ Leads(d, NewMode(d, k), Named(place, s), Hidden, Named(place, u))
      BY <2>2, <2>4, NewModeLeads DEF u
    <3>3. Leads(d, ModesSent(d, s) \o NewMode(d, k), Named(place, << >>), Hidden, Named(place, u))
      BY <3>1, <3>2, LeadsJoin
    <3>4. ModesSent(d, s) \o NewMode(d, k) \in Seq(Events)
      BY <3>1, <3>2
    <3> QED
      BY <2>3, <3>3, <3>4
  <2> QED
    BY <2>1, <2>4 DEF u
<1> HIDE DEF G
<1>3. ks \in G
  <2>1. \A s \in Seq(Kind) : s \in G
    BY <1>1, <1>2, AllSeq
  <2> QED
    BY <2>1
<1> QED
  BY <1>3 DEF G

(* One event, from one view to the next.                                   *)
LEMMA LeadsTo ==
    ASSUME NEW d \in Dev, NEW e \in Events, About(e, d), NEW v, NEW u, Heard(v, e) = u,
           NEW M, v \in M, u \in M
    PROVE  Leads(d, <<e>>, {v}, M, {u})
BY LeadsOne

LEMMA BurstIs ==
    ASSUME NEW d
    PROVE  Burst(d) = LET h == heads[d] IN
              (((<<Event("name", d, None)>> \o <<Event("geometry", d, h.place)>>)
                \o ModesSent(d, h.modes)) \o Current(d, h.mode))
              \o (<<Event("enabled", d, h.on)>> \o <<Event("done", d, None)>>)
<1> DEFINE h == heads[d]
           a == Event("name", d, None)
           b == Event("geometry", d, h.place)
           e == Event("enabled", d, h.on)
           f == Event("done", d, None)
<1>1. <<a, b>> = <<a>> \o <<b>> /\ <<e, f>> = <<e>> \o <<f>>
  BY PairJoined
<1>2. Burst(d) = ((<<a, b>> \o ModesSent(d, h.modes)) \o Current(d, h.mode)) \o <<e, f>>
  BY DEF Burst, ModesSent
<1> QED
  BY <1>1, <1>2

LEMMA BurstParts ==
    ASSUME NEW d \in Dev, HeadOK(heads[d]), ~Mute
    PROVE  LET h == heads[d] IN
           /\ <<Event("name", d, None)>> \in Seq(Events)
           /\ <<Event("geometry", d, h.place)>> \in Seq(Events)
           /\ ModesSent(d, h.modes) \in Seq(Events)
           /\ Current(d, h.mode) = <<Event("current_mode", d, h.mode)>>
           /\ Current(d, h.mode) \in Seq(Events)
           /\ <<Event("enabled", d, h.on)>> \in Seq(Events)
           /\ <<Event("done", d, None)>> \in Seq(Events)
           /\ Burst(d) \in Seq(Events)
<1> DEFINE h == heads[d]
<1>1. h.on \in BOOLEAN /\ h.mode \in Kind /\ h.place \in Place /\ h.modes \in Seq(Kind)
      /\ Once(h.modes)
  BY DEF HeadOK, HeadType
<1>2. ModesSent(d, h.modes) \in Seq(Events)
  BY <1>1, ModesLead
<1>3. Current(d, h.mode) = <<Event("current_mode", d, h.mode)>>
  BY DEF Current
<1>4. /\ Event("name", d, None) \in Events /\ Event("done", d, None) \in Events
      /\ Event("geometry", d, h.place) \in Events /\ Event("enabled", d, h.on) \in Events
      /\ Event("current_mode", d, h.mode) \in Events
  BY <1>1, EventsAre DEF PlainEvents, ModeEvents
<1> HIDE DEF h
<1>5. \A e \in Events : <<e>> \in Seq(Events)
  OBVIOUS
<1>6. /\ <<Event("name", d, None)>> \in Seq(Events) /\ <<Event("done", d, None)>> \in Seq(Events)
      /\ <<Event("geometry", d, h.place)>> \in Seq(Events)
      /\ <<Event("enabled", d, h.on)>> \in Seq(Events)
      /\ <<Event("current_mode", d, h.mode)>> \in Seq(Events)
  BY <1>4, <1>5
<1>7. \A p, q \in Seq(Events) : p \o q \in Seq(Events)
  OBVIOUS
<1>8. Burst(d) \in Seq(Events)
  <2>1. Burst(d) = (((<<Event("name", d, None)>> \o <<Event("geometry", d, h.place)>>)
                     \o ModesSent(d, h.modes)) \o Current(d, h.mode))
                   \o (<<Event("enabled", d, h.on)>> \o <<Event("done", d, None)>>)
    BY BurstIs DEF h
  <2> DEFINE a == <<Event("name", d, None)>>
             b == <<Event("geometry", d, h.place)>>
             c == ModesSent(d, h.modes)
             k == Current(d, h.mode)
             e == <<Event("enabled", d, h.on)>>
             f == <<Event("done", d, None)>>
  <2>2. a \in Seq(Events) /\ b \in Seq(Events) /\ c \in Seq(Events) /\ k \in Seq(Events)
        /\ e \in Seq(Events) /\ f \in Seq(Events)
    BY <1>2, <1>3, <1>6 DEF h
  <2> HIDE DEF a, b, c, k, e, f
  <2>3. (((a \o b) \o c) \o k) \o (e \o f) \in Seq(Events)
    BY <1>7, <2>2
  <2> QED
    BY <2>1, <2>3 DEF a, b, c, k, e, f
<1> QED
  BY <1>2, <1>3, <1>6, <1>8 DEF h

LEMMA BurstLeads ==
    ASSUME NEW d \in Dev, HeadOK(heads[d]), ~Mute
    PROVE  Leads(d, Burst(d), {Unseen(TRUE)}, Hidden \cup {Full(heads[d])}, {Full(heads[d])})
<1> DEFINE h == heads[d]
           a == Event("name", d, None)
           b == Event("geometry", d, h.place)
           c == ModesSent(d, h.modes)
           k == Event("current_mode", d, h.mode)
           e == Event("enabled", d, h.on)
           f == Event("done", d, None)
           off == FALSE
           M == Hidden \cup {Full(h)}
           info == ToSet(h.modes)
           v0 == Unseen(TRUE)
           v1 == Pieces(off, None, None, << >>, {}, Yes, off)
           v2 == Pieces(off, None, h.place, << >>, {}, Yes, off)
           v3 == Pieces(off, h.mode, h.place, h.modes, info, Yes, off)
           v4 == Pieces(h.on, h.mode, h.place, h.modes, info, Yes, off)
           v5 == Pieces(h.on, h.mode, h.place, h.modes, info, Yes, Yes)
<1>1. h.on \in BOOLEAN /\ h.mode \in Kind /\ h.place \in Place /\ h.modes \in Seq(Kind)
      /\ Once(h.modes) /\ info \in SUBSET Kind
  BY KindsIn DEF HeadOK, HeadType
<1>2. /\ <<a>> \in Seq(Events) /\ <<b>> \in Seq(Events) /\ c \in Seq(Events)
      /\ Current(d, h.mode) = <<k>> /\ <<k>> \in Seq(Events)
      /\ <<e>> \in Seq(Events) /\ <<f>> \in Seq(Events)
  BY BurstParts
<1>3. /\ a \in Events /\ b \in Events /\ k \in Events /\ e \in Events /\ f \in Events
      /\ About(a, d) /\ About(b, d) /\ About(k, d) /\ About(e, d) /\ About(f, d)
  BY <1>1, EventsAre DEF PlainEvents, ModeEvents
<1>4. v0 = Pieces(off, None, None, << >>, {}, off, off)
  BY DEF Unseen, Pieces, Blank
<1>5. v1 \in M /\ v2 \in M /\ v3 \in M /\ v4 \in M /\ v0 \in M /\ v5 \in M /\ v5 = Full(h)
  <2>1. v0 \in Hidden
    BY UnseenIs
  <2>2. << >> \in Seq(Kind) /\ {} \in SUBSET Kind
    OBVIOUS
  <2>3. v1 \in Hidden /\ v2 \in Hidden
    BY <1>1, <2>2, PiecesIn DEF Yes
  <2>4. v3 \in Hidden /\ v4 \in Hidden
    BY <1>1, PiecesIn DEF Yes
  <2>5. v5 = Full(h)
    BY DEF Full, Listed, Yes
  <2> HIDE DEF v0, v1, v2, v3, v4, v5
  <2> QED
    BY <2>1, <2>3, <2>4, <2>5
<1>6. Heard(v0, a) = v1
  <2> DEFINE ks == << >>
             no == {}
  <2> HIDE DEF off, v0, ks, no
  <2>1. Heard(Pieces(off, None, None, ks, no, off, off), Event("name", d, None)) =
            Pieces(off, None, None, ks, no, Yes, off)
    BY HeardName
  <2> QED
    BY <1>4, <2>1 DEF ks, no
<1>7. Heard(v1, b) = v2
  <2> HIDE DEF off, h
  <2> QED
    BY HeardGeometry
<1>8. Heard(v3, e) = v4
  <2> HIDE DEF off, h, info
  <2> QED
    BY HeardEnabled
<1>9. Heard(v4, f) = v5
  <2> HIDE DEF off, h, info
  <2> QED
    BY HeardDone
<1>10. v2 \in Named(h.place, << >>)
  <2>1. ToSet(<< >>) = {}
    BY DEF ToSet
  <2> QED
    BY <2>1 DEF Named, Yes
<1>11. \A v \in Named(h.place, h.modes) : Heard(v, k) = v3
  <2> SUFFICES ASSUME NEW v \in Named(h.place, h.modes) PROVE Heard(v, k) = v3
    OBVIOUS
  <2>1. PICK m \in Kind \cup {None} : v = Pieces(off, m, h.place, h.modes, info, Yes, off)
    BY DEF Named, Yes
  <2> HIDE DEF off, h, info
  <2> QED
    BY <2>1, HeardCurrent
<1>12. Named(h.place, h.modes) \subseteq Hidden
  BY <1>1, PiecesIn DEF Named
<1>13. Leads(d, c, Named(h.place, << >>), Hidden, Named(h.place, h.modes))
  BY <1>1, ModesLead
<1>14. Burst(d) = (((<<a>> \o <<b>>) \o c) \o <<k>>) \o (<<e>> \o <<f>>)
  BY <1>2, BurstIs
<1> HIDE DEF a, b, c, k, e, f, v0, v1, v2, v3, v4, v5, h, off, info
<1>15. Leads(d, <<a>>, {v0}, M, {v1}) /\ Leads(d, <<b>>, {v1}, M, {v2})
       /\ Leads(d, <<e>>, {v3}, M, {v4}) /\ Leads(d, <<f>>, {v4}, M, {v5})
  BY <1>3, <1>5, <1>6, <1>7, <1>8, <1>9, LeadsTo
<1>16. Leads(d, <<k>>, Named(h.place, h.modes), M, {v3})
  BY <1>3, <1>5, <1>11, <1>12, LeadsOne
<1>17. Leads(d, c, {v2}, M, Named(h.place, h.modes))
  BY <1>10, <1>13, LeadsMore
<1> HIDE DEF M
<1> DEFINE A == <<a>>
           B == <<b>>
           K == <<k>>
           E == <<e>>
           F == <<f>>
<1>18. Leads(d, A, {v0}, M, {v1}) /\ Leads(d, B, {v1}, M, {v2})
       /\ Leads(d, E, {v3}, M, {v4}) /\ Leads(d, F, {v4}, M, {v5})
       /\ Leads(d, K, Named(h.place, h.modes), M, {v3})
       /\ A \in Seq(Events) /\ B \in Seq(Events) /\ K \in Seq(Events)
       /\ E \in Seq(Events) /\ F \in Seq(Events)
       /\ Burst(d) = (((A \o B) \o c) \o K) \o (E \o F)
  BY <1>2, <1>14, <1>15, <1>16
<1> HIDE DEF A, B, K, E, F
<1>19. \A p, q \in Seq(Events) : p \o q \in Seq(Events)
  OBVIOUS
<1>20. A \o B \in Seq(Events) /\ (A \o B) \o c \in Seq(Events)
       /\ ((A \o B) \o c) \o K \in Seq(Events) /\ E \o F \in Seq(Events)
  BY <1>2, <1>18, <1>19
<1>21. Leads(d, A \o B, {v0}, M, {v2})
  BY <1>18, LeadsJoin
<1>22. Leads(d, E \o F, {v3}, M, {v5})
  BY <1>18, LeadsJoin
<1> DEFINE p1 == A \o B
           p2 == p1 \o c
           p3 == p2 \o K
           p4 == E \o F
<1>23. p1 \in Seq(Events) /\ p2 \in Seq(Events) /\ p3 \in Seq(Events) /\ p4 \in Seq(Events)
  BY <1>20
<1>24. Leads(d, p1, {v0}, M, {v2}) /\ Leads(d, p4, {v3}, M, {v5})
  BY <1>21, <1>22
<1> HIDE DEF p1
<1>25. Leads(d, p2, {v0}, M, Named(h.place, h.modes))
  BY <1>2, <1>17, <1>23, <1>24, LeadsJoin
<1> HIDE DEF p2
<1>26. Leads(d, p3, {v0}, M, {v3})
  BY <1>18, <1>23, <1>25, LeadsJoin
<1> HIDE DEF p3, p4
<1>27. Leads(d, p3 \o p4, {v0}, M, {v5})
  BY <1>23, <1>24, <1>26, LeadsJoin
<1>28. Burst(d) = p3 \o p4
  BY <1>18 DEF p1, p2, p3, p4
<1> QED
  BY <1>5, <1>27, <1>28 DEF v0, M, h

(* It describes it again.                                                  *)
LEMMA BurstAgain ==
    ASSUME NEW d \in Dev, HeadOK(heads[d]), ~Mute
    PROVE  Leads(d, Burst(d), {Full(heads[d])}, {Full(heads[d])}, {Full(heads[d])})
<1> DEFINE h == heads[d]
           ks == h.modes
           info == ToSet(ks)
           v == Pieces(h.on, h.mode, h.place, ks, info, Yes, Yes)
           Stays(q) == q \in Seq(Events) /\ Leads(d, q, {v}, {v}, {v})
<1>0. v = Full(h)
  BY DEF Full, Listed, Yes
<1>1. h.on \in BOOLEAN /\ h.mode \in Kind /\ h.place \in Place /\ ks \in Seq(Kind)
      /\ IsSeq(ks) /\ info \in SUBSET Kind
  BY KindsIn DEF HeadOK, HeadType
<1>2. ASSUME NEW e \in Events, About(e, d), Heard(v, e) = v PROVE Stays(<<e>>)
  <2>1. <<e>> \in Seq(Events)
    OBVIOUS
  <2> HIDE DEF v
  <2> QED
    BY <1>2, <2>1, LeadsTo
<1>3. ASSUME NEW p, NEW q, Stays(p), Stays(q) PROVE Stays(p \o q)
  <2> HIDE DEF v
  <2>1. p \o q \in Seq(Events)
    BY <1>3
  <2> QED
    BY <1>3, <2>1, LeadsJoin
<1>4. /\ \A ev \in PlainEvents : Event(ev, d, None) \in Events
      /\ \A ev \in ModeEvents, k \in Kind : Event(ev, d, k) \in Events
      /\ Event("geometry", d, h.place) \in Events
      /\ Event("enabled", d, h.on) \in Events
      /\ \A ev \in PlainEvents \cup ModeEvents \cup {"geometry", "enabled"} :
                 \A x : About(Event(ev, d, x), d)
  <2> HIDE DEF h
  <2> QED
    BY <1>1, EventsAre
<1> HIDE DEF Stays
<1>5. Stays(<<Event("name", d, None)>>)
  <2>1. Heard(v, Event("name", d, None)) = v
    <3> HIDE DEF h, ks, info
    <3> QED
      BY HeardName
  <2>2. Event("name", d, None) \in Events /\ About(Event("name", d, None), d)
    BY <1>4 DEF PlainEvents
  <2> HIDE DEF v
  <2> QED
    BY <1>2, <2>1, <2>2
<1>6. Stays(<<Event("geometry", d, h.place)>>)
  <2>1. Heard(v, Event("geometry", d, h.place)) = v
    <3> HIDE DEF h, ks, info
    <3> QED
      BY HeardGeometry
  <2>2. Event("geometry", d, h.place) \in Events /\ About(Event("geometry", d, h.place), d)
    BY <1>4
  <2> HIDE DEF v
  <2> QED
    BY <1>2, <2>1, <2>2
<1>7. Stays(<<Event("enabled", d, h.on)>>)
  <2>1. Heard(v, Event("enabled", d, h.on)) = v
    <3> HIDE DEF h, ks, info
    <3> QED
      BY HeardEnabled
  <2>2. Event("enabled", d, h.on) \in Events /\ About(Event("enabled", d, h.on), d)
    BY <1>4
  <2> HIDE DEF v
  <2> QED
    BY <1>2, <2>1, <2>2
<1>8. Stays(<<Event("done", d, None)>>)
  <2>1. Heard(v, Event("done", d, None)) = v
    <3> HIDE DEF h, ks, info
    <3> QED
      BY HeardDone
  <2>2. Event("done", d, None) \in Events /\ About(Event("done", d, None), d)
    BY <1>4 DEF PlainEvents
  <2> HIDE DEF v
  <2> QED
    BY <1>2, <2>1, <2>2
<1>9. Stays(<<Event("current_mode", d, h.mode)>>)
  <2>1. Heard(v, Event("current_mode", d, h.mode)) = v
    <3> HIDE DEF h, ks, info
    <3> QED
      BY HeardCurrent
  <2>2. Event("current_mode", d, h.mode) \in Events /\ About(Event("current_mode", d, h.mode), d)
    BY <1>1, <1>4 DEF ModeEvents
  <2> HIDE DEF v
  <2> QED
    BY <1>2, <2>1, <2>2
<1>10. ASSUME NEW k \in Kind, k \in ToSet(ks) PROVE Stays(NewMode(d, k))
  <2>1. Heard(v, Event("mode", d, k)) = v
    <3>1. Entered(ks, k) = ks
      BY <1>1, <1>10, ToSetIs DEF Entered
    <3>2. h.mode # None
      BY <1>1, NoneIsNothing
    <3> HIDE DEF h, ks, info
    <3>3. Heard(v, Event("mode", d, k)) =
            Pieces(h.on, IF h.mode = None THEN k ELSE h.mode, h.place, Entered(ks, k), info, Yes, Yes)
      BY HeardNewMode
    <3> QED
      BY <3>1, <3>2, <3>3
  <2>2. Heard(v, Event("size_refresh", d, k)) = v
    <3>1. info \cup {k} = info
      BY <1>10
    <3> HIDE DEF h, ks, info
    <3>2. Heard(v, Event("size_refresh", d, k)) =
            Pieces(h.on, h.mode, h.place, ks, info \cup {k}, Yes, Yes)
      BY <1>10, HeardSize
    <3> QED
      BY <3>1, <3>2
  <2>3. Stays(<<Event("mode", d, k)>>) /\ Stays(<<Event("size_refresh", d, k)>>)
    <3>1. /\ Event("mode", d, k) \in Events /\ About(Event("mode", d, k), d)
          /\ Event("size_refresh", d, k) \in Events /\ About(Event("size_refresh", d, k), d)
      BY <1>4 DEF ModeEvents
    <3> HIDE DEF v
    <3> QED
      BY <1>2, <2>1, <2>2, <3>1
  <2>4. NewMode(d, k) = <<Event("mode", d, k)>> \o <<Event("size_refresh", d, k)>>
    BY PairJoined DEF NewMode
  <2> QED
    BY <1>3, <2>3, <2>4
<1>11. Stays(ModesSent(d, ks))
  <2> DEFINE each == [i \in DOMAIN ks |-> NewMode(d, ks[i])]
  <2>1. \A i \in 1..Len(ks) : ks[i] \in Kind /\ ks[i] \in ToSet(ks)
    BY <1>1, ToSetIs
  <2>2. DOMAIN ks = 1..Len(ks) /\ Len(ks) \in Nat
    BY <1>1, SeqHas
  <2> HIDE DEF ks, h, v
  <2>3. \A i \in 1..Len(ks) : Stays(NewMode(d, ks[i]))
    BY <1>10, <2>1
  <2>4. each \in [1..Len(ks) -> Seq(Events)]
        /\ \A i \in 1..Len(ks) : Leads(d, each[i], {v}, {v}, {v})
    BY <2>2, <2>3 DEF Stays
  <2>5. ModesSent(d, ks) = FlattenSeq(each)
    BY DEF ModesSent
  <2> HIDE DEF each
  <2>6. each \in Seq(Seq(Events)) /\ Len(each) = Len(ks)
    BY <2>2, <2>4
  <2>7. FlattenSeq(each) \in Seq(Events)
    BY <2>6, FlattenSeqs
  <2>8. Leads(d, FlattenSeq(each), {v}, {v}, {v})
    BY <2>4, <2>6, LeadsFlat
  <2> QED
    BY <2>5, <2>7, <2>8 DEF Stays
<1>12. Current(d, h.mode) = <<Event("current_mode", d, h.mode)>>
  BY DEF Current
<1>13. Burst(d) = (((<<Event("name", d, None)>> \o <<Event("geometry", d, h.place)>>)
                    \o ModesSent(d, ks)) \o <<Event("current_mode", d, h.mode)>>)
                  \o (<<Event("enabled", d, h.on)>> \o <<Event("done", d, None)>>)
  BY <1>12, BurstIs
<1> HIDE DEF v, h, ks
<1>14. Stays(Burst(d))
  BY <1>3, <1>5, <1>6, <1>7, <1>8, <1>9, <1>11, <1>13
<1> QED
  BY <1>0, <1>14 DEF Stays, h

-----------------------------------------------------------------------------
(* What may show of an output while KWin tells that h is now g: what did,  *)
(* what will, or, if it has changed, anything a device that is done shows; *)
(* the view of one that has been described and has not changed is the same.*)
Unmoved(h, g) == h.at = "there" /\ h.told = "described" /\ Held(g) = Held(h)
Between(h, g) ==
    {v \in Sane : /\ \/ Shows(v) \in {Told(h), Told(g)}
                     \/ Absent \notin {Told(h), Told(g)} /\ Told(h) # Told(g)
                  /\ Unmoved(h, g) => v \in Held(h)}

LEMMA StepIf ==
    ASSUME NEW d \in Dev, NEW e \in Events, About(e, d), NEW v, NEW u, Heard(v, e) = u,
           NEW x, x = <<e>> \/ (x = << >> /\ v = u), NEW M, v \in M, u \in M
    PROVE  x \in Seq(Events) /\ Leads(d, x, {v}, M, {u})
<1>1. CASE x = <<e>>
  <2>1. <<e>> \in Seq(Events)
    OBVIOUS
  <2> QED
    BY <1>1, <2>1, LeadsTo
<1>2. CASE x = << >> /\ v = u
  <2>1. << >> \in Seq(Events)
    OBVIOUS
  <2>2. Leads(d, << >>, {v}, M, {u})
    <3>1. {v} \subseteq M /\ {v} \subseteq {u}
      BY <1>2
    <3> QED
      BY <3>1, LeadsNone
  <2> QED
    BY <1>2, <2>1, <2>2
<1> QED
  BY <1>1, <1>2

(* The parts of the news: place, mode, power, done.  The mode on file may  *)
(* be another than it was if a new one is told.                            *)
LEMMA NewsParts ==
    ASSUME NEW d \in Dev, ~Mute, NEW g, heads[d].told = "described", Shown(g) # Shown(heads[d]),
           NEW ks \in Seq(Kind), NEW mode \in Kind,
           mode = heads[d].mode \/ g.mode # heads[d].mode,
           heads[d].on \in BOOLEAN, heads[d].place \in Place,
           g.on \in BOOLEAN, g.place \in Place, g.mode \in Kind
    PROVE  /\ News(d, g) \in Seq(Events)
           /\ Leads(d, News(d, g), {Listed(heads[d].on, mode, heads[d].place, ks)}, Sane,
                    {Listed(g.on, g.mode, g.place, ks)})
<1> DEFINE h == heads[d]
           b == Event("geometry", d, g.place)
           k == Event("current_mode", d, g.mode)
           e == Event("enabled", d, g.on)
           f == Event("done", d, None)
           cb == g.place # h.place
           ck == g.mode # h.mode
           ce == g.on # h.on
           info == ToSet(ks)
           v0 == Pieces(h.on, mode, h.place, ks, info, Yes, Yes)
           v1 == Pieces(h.on, mode, g.place, ks, info, Yes, Yes)
           v2 == Pieces(h.on, g.mode, g.place, ks, info, Yes, Yes)
           v3 == Pieces(g.on, g.mode, g.place, ks, info, Yes, Yes)
<1>1. /\ b \in Events /\ k \in Events /\ e \in Events /\ f \in Events
      /\ About(b, d) /\ About(k, d) /\ About(e, d) /\ About(f, d)
  BY EventsAre DEF PlainEvents, ModeEvents
<1>2. v0 \in Sane /\ v1 \in Sane /\ v2 \in Sane /\ v3 \in Sane
  <2>1. /\ Listed(h.on, mode, h.place, ks) \in Sane /\ Listed(h.on, mode, g.place, ks) \in Sane
        /\ Listed(h.on, g.mode, g.place, ks) \in Sane /\ Listed(g.on, g.mode, g.place, ks) \in Sane
    BY ListedIs
  <2> QED
    BY <2>1 DEF Listed, Yes
<1>3. Heard(v0, b) = v1
  <2> HIDE DEF h, info
  <2> QED
    BY HeardGeometry
<1>4. Heard(v1, k) = v2
  <2> HIDE DEF h, info
  <2> QED
    BY HeardCurrent
<1>5. Heard(v2, e) = v3
  <2> HIDE DEF h, info
  <2> QED
    BY HeardEnabled
<1>6. Heard(v3, f) = v3
  <2> HIDE DEF h, info
  <2> QED
    BY HeardDone
<1>7. /\ If(cb, <<b>>) = <<b>> \/ (If(cb, <<b>>) = << >> /\ v0 = v1)
      /\ If(ck, <<k>>) = <<k>> \/ (If(ck, <<k>>) = << >> /\ v1 = v2)
      /\ If(ce, <<e>>) = <<e>> \/ (If(ce, <<e>>) = << >> /\ v2 = v3)
  BY DEF If
<1>8. If(ck, Current(d, g.mode)) = If(ck, <<k>>)
  BY DEF Current
<1>9. News(d, g) = ((If(cb, <<b>>) \o If(ck, <<k>>)) \o If(ce, <<e>>)) \o <<f>>
  BY <1>8 DEF News, If
<1> HIDE DEF v0, v1, v2, v3, b, k, e, f, cb, ck, ce
<1> DEFINE geo == If(cb, <<b>>)
           cur == If(ck, <<k>>)
           ena == If(ce, <<e>>)
           last == <<f>>
<1>10. geo \in Seq(Events) /\ Leads(d, geo, {v0}, Sane, {v1})
  <2>1. geo = <<b>> \/ (geo = << >> /\ v0 = v1)
    BY <1>7
  <2>2. b \in Events /\ About(b, d) /\ v0 \in Sane /\ v1 \in Sane /\ Heard(v0, b) = v1
    BY <1>1, <1>2, <1>3
  <2> HIDE DEF geo, cur, ena, last
  <2>3. geo \in Seq(Events)
    <3>1. <<b>> \in Seq(Events)
      BY <2>2
    <3>2. << >> \in Seq(Events)
      OBVIOUS
    <3>3. geo = <<b>> \/ geo = << >>
      BY <2>1
    <3> QED
      BY <3>1, <3>2, <3>3
  <2>4. Leads(d, geo, {v0}, Sane, {v1})
    BY <2>1, <2>2, StepIf
  <2> QED
    BY <2>3, <2>4
<1>11. cur \in Seq(Events) /\ Leads(d, cur, {v1}, Sane, {v2})
  <2>1. cur = <<k>> \/ (cur = << >> /\ v1 = v2)
    BY <1>7
  <2> HIDE DEF cur
  <2> QED
    BY <1>1, <1>2, <1>4, <2>1, StepIf
<1>12. ena \in Seq(Events) /\ Leads(d, ena, {v2}, Sane, {v3})
  <2>1. ena = <<e>> \/ (ena = << >> /\ v2 = v3)
    BY <1>7
  <2> HIDE DEF ena
  <2> QED
    BY <1>1, <1>2, <1>5, <2>1, StepIf
<1>13. last \in Seq(Events) /\ Leads(d, last, {v3}, Sane, {v3})
  <2>1. last \in Seq(Events)
    BY <1>1
  <2> QED
    BY <1>1, <1>2, <1>6, <2>1, LeadsTo
<1>14. News(d, g) = ((geo \o cur) \o ena) \o last
  BY <1>9
<1> HIDE DEF geo, cur, ena, last
<1>15. \A p, q \in Seq(Events) : p \o q \in Seq(Events)
  OBVIOUS
<1> DEFINE p1 == geo \o cur
           p2 == p1 \o ena
           p3 == p2 \o last
<1>16. p1 \in Seq(Events) /\ Leads(d, p1, {v0}, Sane, {v2})
  BY <1>10, <1>11, <1>15, LeadsJoin
<1> HIDE DEF p1
<1>17. p2 \in Seq(Events) /\ Leads(d, p2, {v0}, Sane, {v3})
  BY <1>12, <1>15, <1>16, LeadsJoin
<1> HIDE DEF p2
<1>18. p3 \in Seq(Events) /\ Leads(d, p3, {v0}, Sane, {v3})
  BY <1>13, <1>15, <1>17, LeadsJoin
<1>19. News(d, g) = p3
  BY <1>14 DEF p1, p2
<1> HIDE DEF p3
<1>20. v0 = Listed(h.on, mode, h.place, ks) /\ v3 = Listed(g.on, g.mode, g.place, ks)
  BY DEF v0, v3, Listed, Yes
<1> QED
  BY <1>18, <1>19, <1>20

LEMMA NoNewsIs ==
    ASSUME NEW d, NEW g, heads[d].told # "described" \/ Shown(g) = Shown(heads[d])
    PROVE  News(d, g) = << >>
BY DEF News, If

LEMMA BetweenIs ==
    ASSUME NEW h, NEW g, HeadOK(h), HeadOK(g)
    PROVE  /\ Held(h) \subseteq Between(h, g) /\ Held(g) \subseteq Between(h, g)
           /\ Between(h, g) \subseteq Sane
           /\ h.at = "there" /\ h.told = "described" /\ g.at = "there" /\ g.told = "described"
              /\ Shown(h) # Shown(g) => Between(h, g) = Sane
           /\ \A v \in Hidden : Absent \in {Told(h), Told(g)} => v \in Between(h, g)
<1>1. /\ Held(h) \subseteq Sane /\ \A v \in Held(h) : Shows(v) = Told(h)
      /\ Held(g) \subseteq Sane /\ \A v \in Held(g) : Shows(v) = Told(g)
  BY HeldIs
<1>2. Shown(h) # Absent /\ Shown(g) # Absent
  BY FullIs
<1>3. Shown(h) # Shown(g) \/ Absent \in {Told(h), Told(g)} => ~Unmoved(h, g)
  <2>1. Unmoved(h, g) => Told(h) # Absent /\ \A v \in Held(h) : Shows(v) = Told(g)
    BY <1>1, <1>2 DEF Unmoved, Told
  <2>2. Unmoved(h, g) => Told(h) = Shown(h) /\ Full(h) \in Held(h)
    BY DEF Unmoved, Told, Held
  <2>3. Told(g) \in {Absent, Shown(g)}
    BY DEF Told
  <2> QED
    BY <1>1, <2>1, <2>2, <2>3
<1>4. Unmoved(h, g) => Held(g) = Held(h)
  BY DEF Unmoved
<1> QED
  BY <1>1, <1>2, <1>3, <1>4 DEF Between, Told, Hidden

LEMMA HeadIs ==
    ASSUME NEW h, HeadOK(h)
    PROVE  /\ h.on \in BOOLEAN /\ h.mode \in Kind /\ h.place \in Place /\ h.modes \in Seq(Kind)
           /\ IsSeq(h.modes) /\ ToSet(h.modes) \in SUBSET Kind /\ h.mode \in ToSet(h.modes)
           /\ Once(h.modes)
<1>1. h.on \in BOOLEAN /\ h.mode \in Kind /\ h.place \in Place /\ h.modes \in Seq(Kind)
  BY DEF HeadOK, HeadType
<1> QED
  BY <1>1, KindsIn DEF HeadOK

(* An output is rearranged, by the user or by a configuration.             *)
LEMMA NewsLeads ==
    ASSUME NEW d \in Dev, ~Mute, HeadOK(heads[d]), NEW g, HeadOK(g), heads[d].at = "there",
           g.at = "there", g.told = heads[d].told, g.modes = heads[d].modes
    PROVE  /\ News(d, g) \in Seq(Events)
           /\ Leads(d, News(d, g), Held(heads[d]), Between(heads[d], g), Held(g))
<1> DEFINE h == heads[d]
<1>1. h.on \in BOOLEAN /\ h.mode \in Kind /\ h.place \in Place /\ h.modes \in Seq(Kind)
      /\ g.on \in BOOLEAN /\ g.mode \in Kind /\ g.place \in Place
  BY HeadIs
<1>2. CASE h.told = "described" /\ Shown(g) # Shown(h)
  <2>1. /\ News(d, g) \in Seq(Events)
        /\ Leads(d, News(d, g), {Listed(h.on, h.mode, h.place, h.modes)}, Sane,
                 {Listed(g.on, g.mode, g.place, h.modes)})
    BY <1>1, <1>2, NewsParts
  <2>2. Held(h) = {Listed(h.on, h.mode, h.place, h.modes)}
        /\ Held(g) = {Listed(g.on, g.mode, g.place, h.modes)}
    BY <1>2 DEF Held, Full
  <2>3. Between(h, g) = Sane
    BY <1>2, BetweenIs
  <2> QED
    BY <2>1, <2>2, <2>3
<1>3. CASE ~(h.told = "described" /\ Shown(g) # Shown(h))
  <2>1. News(d, g) = << >>
    BY <1>3, NoNewsIs
  <2>2. Held(h) \subseteq Between(h, g)
    BY BetweenIs
  <2>3. Held(h) \subseteq Held(g)
    <3>1. CASE h.told = "described"
      BY <1>3, <3>1 DEF Held, Full, Shown
    <3>2. CASE h.told # "described"
      BY <3>2 DEF Held
    <3> QED
      BY <3>1, <3>2
  <2>4. << >> \in Seq(Events)
    OBVIOUS
  <2>5. Leads(d, << >>, Held(h), Between(h, g), Held(g))
    <3> HIDE DEF h
    <3> QED
      BY <2>2, <2>3, LeadsNone
  <2> QED
    BY <2>1, <2>4, <2>5
<1> QED
  BY <1>2, <1>3

LEMMA FirstIn == ASSUME NEW S, NEW s \in Seq(S), s # << >> PROVE s[1] \in S
<1>1. IsSeq(s) /\ Len(s) \in Nat
  BY SeqIs
<1>2. Len(s) # 0
  BY <1>1, EmptySeq
<1>3. 1 \in 1..Len(s)
  BY <1>1, <1>2
<1> QED
  BY <1>3

(* An output loses a mode.  The client then takes the first mode left for  *)
(* its current one, until it is told.                                      *)
LEMMA SameViews ==
    ASSUME NEW v \in Views, NEW u \in Views, v.here = TRUE, u.here = TRUE, v.modes = u.modes,
           v.info = u.info, v.dev = u.dev
    PROVE  v = u
BY DEF Views

LEMMA HeardLost ==
    ASSUME NEW d, NEW on \in BOOLEAN, NEW place \in Place, NEW ks \in Seq(Kind),
           NEW k \in Kind, NEW mode \in Kind,
           NEW left, left = Only(ks, Kind \ {k}), left # << >>,
           NEW then, then = IF mode = k /\ k \in ToSet(ks) THEN left[1] ELSE mode
    PROVE  Heard(Listed(on, mode, place, ks), Event("mode_removed", d, k)) =
              Listed(on, then, place, left)
<1>1. ToSet(left) = ToSet(ks) \ {k}
  <2>1. ToSet(left) = ToSet(ks) \cap (Kind \ {k})
    BY OnlySeq
  <2> QED
    BY <2>1, KindsIn
<1> DEFINE info == ToSet(ks)
           v == Pieces(on, mode, place, ks, info, Yes, Yes)
           dev == [v.dev EXCEPT !.mode = then]
           rest == info \ {k}
<1>2. Heard(v, Event("mode_removed", d, k)) = HeardModeRemoved(v, k)
  BY DEF Heard, Event
<1>3. v.modes = ks /\ v.info = info /\ v.dev.mode = mode
  BY DEF Pieces
<1> HIDE DEF v
<1>4. HeardModeRemoved(v, k) =
        [v EXCEPT !.modes = left, !.info = @ \ {k},
                  !.dev.mode = IF @ = k /\ k \in info THEN left[1] ELSE @]
  BY <1>3 DEF HeardModeRemoved
<1>5. HeardModeRemoved(v, k) = [v EXCEPT !.modes = left, !.info = rest, !.dev = dev]
  BY <1>3, <1>4
<1> HIDE DEF rest
<1>6. dev = [named |-> Yes, on |-> on, mode |-> then, place |-> place, done |-> Yes]
  BY DEF v, Pieces
<1> HIDE DEF dev, info
<1>7. [v EXCEPT !.modes = left, !.info = rest, !.dev = dev] =
         Pieces(on, then, place, left, rest, Yes, Yes)
  <2> DEFINE u == [v EXCEPT !.modes = left, !.info = rest, !.dev = dev]
             w == Pieces(on, then, place, left, rest, Yes, Yes)
  <2>1. left \in Seq(Kind) /\ info \in SUBSET Kind /\ rest \in SUBSET Kind
    BY OnlySeq, KindsIn DEF info, rest
  <2>2. then \in Kind
    <3>1. left[1] \in Kind
      BY <2>1, FirstIn
    <3> QED
      BY <3>1
  <2>3. Yes \in BOOLEAN /\ place # None
    BY NoneIsNothing DEF Yes
  <2>4. v \in Views /\ w \in Views
    <3>1. \A m \in Kind, s \in Seq(Kind), i \in SUBSET Kind : Pieces(on, m, place, s, i, Yes, Yes) \in Views
      BY <2>3 DEF Pieces, Views, Devices
    <3> QED
      BY <2>1, <2>2, <3>1 DEF v
  <2>5. w.dev = dev /\ w.here = TRUE /\ w.modes = left /\ w.info = rest
    BY <1>6 DEF Pieces
  <2>6. v.here = TRUE
    BY DEF v, Pieces
  <2>7. dev \in Devices
    BY <2>4, <2>5 DEF Views
  <2> HIDE DEF w
  <2>8. u \in Views /\ u.here = v.here /\ u.modes = left /\ u.info = rest /\ u.dev = dev
    BY <2>1, <2>4, <2>7 DEF Views
  <2> HIDE DEF u
  <2>9. u = w
    BY <2>4, <2>5, <2>6, <2>8, SameViews
  <2> QED
    BY <2>9 DEF u, w
<1>8. Heard(v, Event("mode_removed", d, k)) = Pieces(on, then, place, left, rest, Yes, Yes)
  BY <1>2, <1>5, <1>7
<1> QED
  BY <1>1, <1>8 DEF Listed, v, info, rest, Yes

Lost(h, k, next) == [h EXCEPT !.modes = Only(@, Kind \ {k}), !.mode = IF @ = k THEN next ELSE @]

(* g is h after it.                                                        *)
Loses(h, g, k, next) ==
    /\ HeadOK(g) /\ g.at = h.at /\ g.told = h.told /\ g.on = h.on /\ g.place = h.place
    /\ g.modes = Only(h.modes, Kind \ {k}) /\ g.modes # << >> /\ g.modes \in Seq(Kind)
    /\ h.mode = k => g.mode = next
    /\ h.mode # k => g.mode = h.mode

LEMMA LostIs ==
    ASSUME NEW h, HeadOK(h), NEW k \in ToSet(h.modes), NEW next \in ToSet(h.modes), next # k
    PROVE  Loses(h, Lost(h, k, next), k, next)
<1> DEFINE left == Only(h.modes, Kind \ {k})
           mode == IF h.mode = k THEN next ELSE h.mode
           g == Lost(h, k, next)
<1>1. h \in HeadType /\ h.modes \in Seq(Kind) /\ ToSet(h.modes) \in SUBSET Kind
      /\ h.mode \in ToSet(h.modes) /\ Once(h.modes) /\ h.mode \in Kind /\ IsSeq(h.modes)
  BY HeadIs DEF HeadOK
<1>2. left \in Seq(Kind) /\ ToSet(left) = ToSet(h.modes) \cap (Kind \ {k})
  BY <1>1, OnlySeq
<1>3. Once(left)
  BY <1>1, OnlyOnce
<1>4. mode \in ToSet(left) /\ mode \in Kind
  BY <1>1, <1>2
<1>5. left # << >>
  <2>1. ToSet(<< >>) = {}
    BY DEF ToSet
  <2> HIDE DEF left, mode
  <2> QED
    BY <1>4, <2>1
<1> HIDE DEF left, mode
<1>6. g = [h EXCEPT !.modes = left, !.mode = mode]
  BY DEF Lost, left, mode
<1>7. g \in HeadType /\ g.modes = left /\ g.mode = mode /\ g.at = h.at /\ g.told = h.told
      /\ g.on = h.on /\ g.place = h.place
  BY <1>1, <1>2, <1>4, <1>6 DEF HeadType
<1> HIDE DEF g
<1>8. HeadOK(g)
  BY <1>3, <1>4, <1>7 DEF HeadOK
<1> QED
  BY <1>2, <1>5, <1>7, <1>8 DEF Loses, left, mode, g

LEMMA LoseLeads ==
    ASSUME NEW d \in Dev, ~Mute, HeadOK(heads[d]), heads[d].at = "there",
           NEW k \in ToSet(heads[d].modes), NEW next \in ToSet(heads[d].modes), next # k,
           NEW g, Loses(heads[d], g, k, next),
           NEW gone, heads[d].told = "described" => gone = <<Event("mode_removed", d, k)>>,
           heads[d].told # "described" => gone = << >>,
           NEW news, news = gone \o News(d, g) \/ news = News(d, g) \o gone
    PROVE  /\ news \in Seq(Events)
           /\ Leads(d, news, Held(heads[d]), Between(heads[d], g), Held(g))
<1> DEFINE h == heads[d]
           left == g.modes
<1>1. /\ HeadOK(g) /\ g.at = h.at /\ g.told = h.told /\ g.on = h.on /\ g.place = h.place
      /\ left = Only(h.modes, Kind \ {k}) /\ left # << >> /\ left \in Seq(Kind)
      /\ h.mode = k => g.mode = next
      /\ h.mode # k => g.mode = h.mode
  BY DEF Loses
<1>2. h.on \in BOOLEAN /\ h.mode \in Kind /\ h.place \in Place /\ h.modes \in Seq(Kind)
      /\ g.on \in BOOLEAN /\ g.mode \in Kind /\ g.place \in Place /\ k \in Kind
      /\ h.mode \in ToSet(h.modes)
  BY <1>1, HeadIs
<1>3. CASE h.told = "described"
  <2> DEFINE e == Event("mode_removed", d, k)
             first == IF h.mode = k THEN left[1] ELSE h.mode
             B == Between(h, g)
  <2>1. e \in Events /\ About(e, d) /\ gone = <<e>> /\ <<e>> \in Seq(Events)
    <3>1. e \in Events /\ About(e, d)
      BY <1>2, EventsAre DEF ModeEvents
    <3> HIDE DEF e
    <3>2. <<e>> \in Seq(Events)
      BY <3>1
    <3>3. gone = <<e>>
      BY <1>3 DEF e
    <3> QED
      BY <3>1, <3>2, <3>3
  <2>2. first \in Kind
    BY <1>1, <1>2, FirstIn
  <2>3. Heard(Listed(h.on, h.mode, h.place, h.modes), e) = Listed(h.on, first, h.place, left)
    <3> DEFINE on == h.on
               mode == h.mode
               place == h.place
               ks == h.modes
    <3>1. k \in Kind /\ on \in BOOLEAN /\ place \in Place /\ ks \in Seq(Kind) /\ mode \in Kind /\ left = Only(ks, Kind \ {k}) /\ left # << >>
      BY <1>1, <1>2
    <3>2. k \in ToSet(ks)
      OBVIOUS
    <3>3. first = IF mode = k /\ k \in ToSet(ks) THEN left[1] ELSE mode
      OBVIOUS
    <3> HIDE DEF on, mode, place, ks, left, first
    <3>4. Heard(Listed(on, mode, place, ks), Event("mode_removed", d, k)) =
              Listed(on, first, place, left)
      BY <3>1, <3>3, HeardLost
    <3> QED
      BY <3>4 DEF on, mode, place, ks
  <2>4. Held(h) = {Listed(h.on, h.mode, h.place, h.modes)}
        /\ Held(g) = {Listed(g.on, g.mode, g.place, left)}
    BY <1>1, <1>3 DEF Held, Full
  <2>5. B \subseteq Sane /\ Held(h) \subseteq B /\ Held(g) \subseteq B
        /\ (h.mode = k => B = Sane)
    <3>1. h.mode = k => Shown(h) # Shown(g)
      BY <1>1 DEF Shown
    <3> QED
      BY <1>1, <1>3, <3>1, BetweenIs
  <2>6. CASE h.mode = k
    <3>1. Shown(h) # Shown(g) /\ g.mode # h.mode
      BY <1>1, <2>6 DEF Shown
    <3>2. /\ News(d, g) \in Seq(Events)
          /\ Leads(d, News(d, g), {Listed(h.on, first, h.place, left)}, Sane,
                   {Listed(g.on, g.mode, g.place, left)})
      BY <1>1, <1>2, <1>3, <2>2, <3>1, NewsParts
    <3>3. Leads(d, News(d, g), {Listed(h.on, h.mode, h.place, h.modes)}, Sane,
                {Listed(g.on, g.mode, g.place, h.modes)})
      BY <1>1, <1>2, <1>3, <3>1, NewsParts
    <3>4. Heard(Listed(g.on, g.mode, g.place, h.modes), e) = Listed(g.on, g.mode, g.place, left)
      <4> DEFINE on == g.on
                 mode == g.mode
                 place == g.place
                 ks == h.modes
      <4>1. k \in Kind /\ on \in BOOLEAN /\ place \in Place /\ ks \in Seq(Kind) /\ mode \in Kind /\ left = Only(ks, Kind \ {k}) /\ left # << >>
        BY <1>1, <1>2
      <4>2. mode = IF mode = k /\ k \in ToSet(ks) THEN left[1] ELSE mode
        BY <1>1, <2>6
      <4> HIDE DEF on, mode, place, ks, left
      <4>3. Heard(Listed(on, mode, place, ks), Event("mode_removed", d, k)) =
              Listed(on, mode, place, left)
        BY <4>1, <4>2, HeardLost
      <4> QED
        BY <4>3 DEF on, mode, place, ks
    <3>5. /\ Listed(h.on, h.mode, h.place, h.modes) \in Sane
          /\ Listed(h.on, first, h.place, left) \in Sane
          /\ Listed(g.on, g.mode, g.place, h.modes) \in Sane
          /\ Listed(g.on, g.mode, g.place, left) \in Sane
      BY <1>1, <1>2, <2>2, ListedIs
    <3> DEFINE a == Listed(h.on, h.mode, h.place, h.modes)
               b == Listed(h.on, first, h.place, left)
               c == Listed(g.on, g.mode, g.place, h.modes)
               z == Listed(g.on, g.mode, g.place, left)
    <3>6. a \in Sane /\ b \in Sane /\ c \in Sane /\ z \in Sane /\ Heard(a, e) = b
          /\ Heard(c, e) = z /\ Leads(d, News(d, g), {b}, Sane, {z})
          /\ Leads(d, News(d, g), {a}, Sane, {c}) /\ Held(h) = {a} /\ Held(g) = {z}
      BY <2>3, <2>4, <3>2, <3>3, <3>4, <3>5
    <3> HIDE DEF a, b, c, z, e, first, h, B, left
    <3>7. Leads(d, <<e>>, {a}, Sane, {b}) /\ Leads(d, <<e>>, {c}, Sane, {z})
      BY <2>1, <3>6, LeadsTo
    <3> DEFINE p == <<e>>
               q == News(d, g)
    <3>8. p \in Seq(Events) /\ q \in Seq(Events) /\ gone = p
      BY <2>1, <3>2
    <3> HIDE DEF q
    <3>9. p \o q \in Seq(Events) /\ q \o p \in Seq(Events)
      BY <3>8
    <3>10. Leads(d, p, {a}, Sane, {b}) /\ Leads(d, p, {c}, Sane, {z})
           /\ Leads(d, q, {b}, Sane, {z}) /\ Leads(d, q, {a}, Sane, {c})
      BY <3>6, <3>7 DEF q
    <3> HIDE DEF p
    <3>11. Leads(d, p \o q, {a}, Sane, {z}) /\ Leads(d, q \o p, {a}, Sane, {z})
      BY <3>8, <3>10, LeadsJoin
    <3>12. news = p \o q \/ news = q \o p
      BY <3>8 DEF q
    <3>13. news \in Seq(Events) /\ Leads(d, news, Held(h), B, Held(g))
      BY <2>5, <2>6, <3>6, <3>9, <3>11, <3>12
    <3> QED
      BY <1>1, <3>13 DEF h, B
  <2>7. CASE h.mode # k
    <3>1. News(d, g) = << >>
      <4>1. Shown(g) = Shown(h)
        BY <1>1, <2>7 DEF Shown
      <4> QED
        BY <4>1, NoNewsIs
    <3>2. news = <<e>>
      <4> HIDE DEF e
      <4>1. <<e>> \o << >> = <<e>> /\ << >> \o <<e>> = <<e>>
        BY <2>1
      <4> QED
        BY <2>1, <3>1, <4>1
    <3>3. first = g.mode /\ Listed(h.on, first, h.place, left) = Listed(g.on, g.mode, g.place, left)
      BY <1>1, <2>7
    <3> DEFINE a == Listed(h.on, h.mode, h.place, h.modes)
               z == Listed(g.on, g.mode, g.place, left)
    <3>4. Heard(a, e) = z /\ Held(h) = {a} /\ Held(g) = {z}
      BY <2>3, <2>4, <3>3
    <3> HIDE DEF a, z, e, h, left
    <3>5. a \in B /\ z \in B
      BY <2>5, <3>4
    <3> HIDE DEF B
    <3>6. Leads(d, <<e>>, {a}, B, {z})
      BY <2>1, <3>4, <3>5, LeadsTo
    <3> QED
      BY <1>1, <2>1, <3>2, <3>4, <3>6 DEF h, B
  <2> QED
    BY <2>6, <2>7
<1>4. CASE h.told # "described"
  <2>1. gone = << >> /\ News(d, g) = << >>
    BY <1>4, NoNewsIs
  <2>2. news = << >> /\ << >> \in Seq(Events)
    BY <2>1
  <2>3. Held(h) = Held(g)
    BY <1>1, <1>4 DEF Held
  <2>4. Held(h) \subseteq Between(h, g)
    BY <1>1, BetweenIs
  <2> HIDE DEF h
  <2>5. Leads(d, << >>, Held(h), Between(h, g), Held(g))
    BY <2>3, <2>4, LeadsNone
  <2> QED
    BY <1>1, <2>2, <2>5 DEF h
<1> QED
  BY <1>3, <1>4

(* An output gains a mode, which may be its current one at once.           *)
Gains(h, g, k) ==
    /\ HeadOK(g) /\ g.at = h.at /\ g.told = h.told /\ g.on = h.on /\ g.place = h.place
    /\ g.modes = Append(h.modes, k) /\ g.mode \in {h.mode, k} /\ k \notin ToSet(h.modes)
    /\ k \in Kind

Gained(h, k, now) == [h EXCEPT !.modes = Append(@, k), !.mode = now]

LEMMA GainedIs ==
    ASSUME NEW h, HeadOK(h), NEW k \in Kind, k \notin ToSet(h.modes),
           NEW now, now = h.mode \/ now = k
    PROVE  Gains(h, Gained(h, k, now), k)
<1> DEFINE more == Append(h.modes, k)
           g == Gained(h, k, now)
<1>1. h \in HeadType /\ h.modes \in Seq(Kind) /\ h.mode \in ToSet(h.modes) /\ Once(h.modes)
      /\ h.mode \in Kind /\ IsSeq(h.modes)
  BY HeadIs DEF HeadOK
<1>2. more \in Seq(Kind) /\ ToSet(more) = ToSet(h.modes) \cup {k} /\ Once(more)
  <2>1. more \in Seq(Kind)
    BY <1>1
  <2> QED
    BY <1>1, <2>1, ToSetAdds, OnceAdds
<1>3. now \in ToSet(more) /\ now \in Kind
  BY <1>1, <1>2
<1> HIDE DEF more
<1>4. g = [h EXCEPT !.modes = more, !.mode = now]
  BY DEF Gained, more
<1>5. g \in HeadType /\ g.modes = more /\ g.mode = now /\ g.at = h.at /\ g.told = h.told
      /\ g.on = h.on /\ g.place = h.place
  BY <1>1, <1>2, <1>3, <1>4 DEF HeadType
<1> HIDE DEF g
<1>6. HeadOK(g)
  BY <1>2, <1>3, <1>5 DEF HeadOK
<1> QED
  BY <1>5, <1>6 DEF Gains, more, g

LEMMA GainLeads ==
    ASSUME NEW d \in Dev, ~Mute, HeadOK(heads[d]), heads[d].at = "there",
           NEW k \in Kind, NEW g, Gains(heads[d], g, k), heads[d].told = "described",
           NEW cur, cur = Event("current_mode", d, k),
           NEW told, (g.mode = k /\ told = <<cur>>) \/ (g.mode # k /\ told = << >>)
    PROVE  LET news == (NewMode(d, k) \o told) \o <<Event("done", d, None)>> IN
           /\ news \in Seq(Events)
           /\ Leads(d, news, Held(heads[d]), Between(heads[d], g), Held(g))
<1> DEFINE h == heads[d]
           ks == h.modes
           us == g.modes
           e == Event("mode", d, k)
           f == Event("size_refresh", d, k)
           z == Event("done", d, None)
           info == ToSet(ks)
           more == ToSet(us)
           v0 == Pieces(h.on, h.mode, h.place, ks, info, Yes, Yes)
           v1 == Pieces(h.on, h.mode, h.place, us, info, Yes, Yes)
           v2 == Pieces(h.on, h.mode, h.place, us, more, Yes, Yes)
           v3 == Pieces(h.on, g.mode, h.place, us, more, Yes, Yes)
           M == Between(h, g)
<1>1. h.on \in BOOLEAN /\ h.mode \in Kind /\ h.place \in Place /\ ks \in Seq(Kind) /\ IsSeq(ks)
      /\ us \in Seq(Kind) /\ g.mode \in Kind /\ h.mode \in info /\ h.mode \in more /\ g.mode \in more
      /\ info \in SUBSET Kind /\ more \in SUBSET Kind /\ us = Append(ks, k) /\ k \notin info
      /\ HeadOK(g) /\ g.at = h.at /\ g.told = h.told /\ g.on = h.on /\ g.place = h.place
      /\ (g.mode = h.mode \/ g.mode = k)
  <2>1. HeadOK(g) /\ us = Append(ks, k) /\ k \notin info /\ g.mode \in {h.mode, k}
        /\ g.at = h.at /\ g.told = h.told /\ g.on = h.on /\ g.place = h.place
    BY DEF Gains
  <2>2. /\ h.on \in BOOLEAN /\ h.mode \in Kind /\ h.place \in Place /\ ks \in Seq(Kind)
        /\ IsSeq(ks) /\ info \in SUBSET Kind /\ h.mode \in info
    BY HeadIs
  <2>3. us \in Seq(Kind) /\ more \in SUBSET Kind /\ g.mode \in more /\ g.mode \in Kind
    BY <2>1, HeadIs
  <2>4. more = info \cup {k}
    BY <2>1, <2>2, ToSetAdds
  <2> QED
    BY <2>1, <2>2, <2>3, <2>4
<1>2. more = info \cup {k} /\ k \in more
  BY <1>1, ToSetAdds
<1>3. /\ e \in Events /\ f \in Events /\ z \in Events /\ cur \in Events
      /\ About(e, d) /\ About(f, d) /\ About(z, d) /\ About(cur, d)
  BY EventsAre DEF PlainEvents, ModeEvents
<1>4. Heard(v0, e) = v1
  <2>1. Entered(ks, k) = us /\ h.mode # None
    BY <1>1, ToSetIs, NoneIsNothing DEF Entered
  <2> HIDE DEF h, ks, us, info
  <2>2. Heard(v0, e) =
          Pieces(h.on, IF h.mode = None THEN k ELSE h.mode, h.place, Entered(ks, k), info, Yes, Yes)
    BY HeardNewMode
  <2> QED
    BY <2>1, <2>2
<1>5. Heard(v1, f) = v2
  <2> HIDE DEF h, us, info, more
  <2>1. k \in ToSet(us)
    BY <1>2 DEF more
  <2>2. Heard(v1, f) = Pieces(h.on, h.mode, h.place, us, info \cup {k}, Yes, Yes)
    BY <2>1, HeardSize
  <2> QED
    BY <1>2, <2>2
<1>6. g.mode = k => Heard(v2, cur) = v3
  <2> SUFFICES ASSUME g.mode = k PROVE Heard(v2, cur) = v3
    OBVIOUS
  <2> HIDE DEF h, us, more
  <2>1. Heard(v2, Event("current_mode", d, k)) = Pieces(h.on, k, h.place, us, more, Yes, Yes)
    BY HeardCurrent
  <2> QED
    BY <2>1
<1>7. Heard(v3, z) = v3
  <2> HIDE DEF h, us, more
  <2> QED
    BY HeardDone
<1>8. v0 = Full(h) /\ v3 = Full(g) /\ Held(h) = {v0} /\ Held(g) = {v3}
  <2>1. v0 = Full(h)
    BY DEF Full, Listed, Yes
  <2>2. v3 = Full(g)
    BY <1>1 DEF Full, Listed, Yes
  <2> HIDE DEF v0, v3
  <2> QED
    BY <1>1, <2>1, <2>2 DEF Held
<1>9. v0 \in M /\ v1 \in M /\ v2 \in M /\ v3 \in M
  <2>1. v0 \in M /\ v3 \in M
    BY <1>1, <1>8, BetweenIs
  <2>2. v1 \in Sane /\ v2 \in Sane
    <3>1. Yes = TRUE /\ Yes \in BOOLEAN
      BY DEF Yes
    <3> HIDE DEF h, us, info, more
    <3>2. \A named \in BOOLEAN :
              /\ Pieces(h.on, h.mode, h.place, us, info, named, TRUE) \in Sane
              /\ Pieces(h.on, h.mode, h.place, us, more, named, TRUE) \in Sane
      BY <1>1, PiecesIn
    <3> QED
      BY <3>1, <3>2 DEF Yes
  <2>3. Shows(v1) = Shown(h) /\ Shows(v2) = Shown(h)
    <3>1. h.mode \in ToSet(us)
      BY <1>1
    <3> HIDE DEF h, us, info, more
    <3>2. Shows(v1) = [on |-> h.on, place |-> h.place, mode |-> h.mode]
      BY <1>1, <3>1 DEF Shows, Pieces, Yes
    <3>3. Shows(v2) = [on |-> h.on, place |-> h.place, mode |-> h.mode]
      BY <1>1, <3>1 DEF Shows, Pieces, Yes
    <3> QED
      BY <3>2, <3>3 DEF Shown
  <2>4. Told(h) = Shown(h)
    BY DEF Told
  <2>5. ~Unmoved(h, g)
    <3>1. Held(g) = {Full(g)} /\ Held(h) = {Full(h)}
      BY <1>1 DEF Held
    <3>2. Full(g).modes = g.modes /\ Full(h).modes = h.modes
      BY DEF Full, Listed, Pieces
    <3>3. g.modes # h.modes
      BY <1>1, <1>2 DEF info, more
    <3> QED
      BY <3>1, <3>2, <3>3 DEF Unmoved
  <2> HIDE DEF v0, v1, v2, v3
  <2> QED
    BY <2>1, <2>2, <2>3, <2>4, <2>5 DEF Between
<1>10. told = <<cur>> \/ (told = << >> /\ v2 = v3)
  <2>1. g.mode # k => v2 = v3
    BY <1>1
  <2> QED
    BY <2>1
<1>11. NewMode(d, k) = <<e>> \o <<f>>
  BY PairJoined DEF NewMode
<1> DEFINE E == <<e>>
           F == <<f>>
           Z == <<z>>
<1>12. E \in Seq(Events) /\ F \in Seq(Events) /\ Z \in Seq(Events)
  <2> HIDE DEF e, f, z
  <2> QED
    BY <1>3
<1> HIDE DEF e, f, z, v0, v1, v2, v3, M, h, us, info, more, ks
<1>13. told \in Seq(Events) /\ Leads(d, told, {v2}, M, {v3})
  <2>1. CASE told = <<cur>> /\ g.mode = k
    <3>1. told \in Seq(Events)
      BY <1>3, <2>1
    <3>2. Leads(d, <<cur>>, {v2}, M, {v3})
      BY <1>3, <1>6, <1>9, <2>1, LeadsTo
    <3> QED
      BY <2>1, <3>1, <3>2
  <2>2. CASE told = << >> /\ v2 = v3
    <3>1. told \in Seq(Events)
      BY <2>2
    <3>2. {v2} \subseteq M /\ {v2} \subseteq {v3}
      BY <1>9, <2>2
    <3>3. Leads(d, << >>, {v2}, M, {v3})
      BY <3>2, LeadsNone
    <3> QED
      BY <2>2, <3>1, <3>3
  <2> QED
    BY <1>10, <2>1, <2>2
<1>14. Leads(d, E, {v0}, M, {v1})
  BY <1>3, <1>4, <1>9, LeadsTo
<1>15. Leads(d, F, {v1}, M, {v2})
  BY <1>3, <1>5, <1>9, LeadsTo
<1>16. Leads(d, Z, {v3}, M, {v3})
  BY <1>3, <1>7, <1>9, LeadsTo
<1> HIDE DEF E, F, Z
<1>17. \A p, q \in Seq(Events) : p \o q \in Seq(Events)
  OBVIOUS
<1> DEFINE p1 == E \o F
           p2 == p1 \o told
           p3 == p2 \o Z
<1>18. p1 \in Seq(Events)
  BY <1>12, <1>17
<1>19. Leads(d, p1, {v0}, M, {v2})
  BY <1>12, <1>14, <1>15, LeadsJoin
<1> HIDE DEF p1
<1>20. p2 \in Seq(Events)
  BY <1>13, <1>17, <1>18
<1>21. Leads(d, p2, {v0}, M, {v3})
  BY <1>13, <1>18, <1>19, LeadsJoin
<1> HIDE DEF p2
<1>22. p3 \in Seq(Events)
  BY <1>12, <1>17, <1>20
<1>23. Leads(d, p3, {v0}, M, {v3})
  BY <1>12, <1>16, <1>20, <1>21, LeadsJoin
<1>24. p3 = (NewMode(d, k) \o told) \o <<Event("done", d, None)>>
  BY <1>11 DEF p1, p2, E, F, Z, z
<1> HIDE DEF p3
<1>25. Leads(d, p3, Held(h), M, Held(g))
  BY <1>8, <1>23
<1> QED
  BY <1>22, <1>24, <1>25 DEF M, h

(* An output goes: "so subsequent snapshots don't surface stale state".    *)
LEMMA GoneLeads ==
    ASSUME NEW d \in Dev, HeadOK(heads[d]), NEW ev \in {"global_remove", "removed"},
           NEW g, HeadOK(g), g.at = "gone"
    PROVE  /\ <<Event(ev, d, None)>> \in Seq(Events)
           /\ Leads(d, <<Event(ev, d, None)>>, Held(heads[d]), Between(heads[d], g), Held(g))
<1> DEFINE h == heads[d]
           e == Event(ev, d, None)
<1>1. e \in Events /\ About(e, d)
  BY EventsAre DEF PlainEvents
<1>2. \A v : Heard(v, e) = Unseen(FALSE)
  BY DEF Heard, Event
<1>3. Held(g) = {Unseen(FALSE)}
  BY DEF Held
<1>4. Held(h) \subseteq Between(h, g) /\ Held(g) \subseteq Between(h, g)
  BY BetweenIs
<1> HIDE DEF e, h
<1>5. <<e>> \in Seq(Events)
  BY <1>1
<1>6. \A v \in Held(h) : Heard(v, e) \in Held(g)
  BY <1>2, <1>3
<1>7. Leads(d, <<e>>, Held(h), Between(h, g), Held(g))
  BY <1>1, <1>4, <1>6, LeadsOne
<1> QED
  BY <1>5, <1>7 DEF e, h

(* It comes: the device is on file, then described.                        *)
LEMMA HeardHere ==
    ASSUME NEW d \in Dev, NEW ev \in {"global", "output"}, NEW b \in BOOLEAN
    PROVE  Heard(Unseen(b), Event(ev, d, None)) = Unseen(TRUE)
BY DEF Heard, Event, Unseen

LEMMA HereAgain ==
    ASSUME NEW d \in Dev, NEW ev \in {"global", "output"}, NEW h, HeadOK(h)
    PROVE  Heard(Full(h), Event(ev, d, None)) = Full(h)
<1> DEFINE v == Full(h)
<1>1. v \in Views /\ v.here = TRUE
  BY FullIs DEF Sane, Full, Listed, Pieces
<1>2. Heard(v, Event(ev, d, None)) = [v EXCEPT !.here = TRUE]
  BY DEF Heard, Event
<1> HIDE DEF v
<1>3. [v EXCEPT !.here = TRUE] = v
  BY <1>1 DEF Views
<1> QED
  BY <1>2, <1>3 DEF v

-----------------------------------------------------------------------------
(* Which device events are about.                                          *)
Own(d, q) == IsSeq(q) /\ \A i \in 1..Len(q) : \A c \in Dev : About(q[i], c) => c = d
Nobody(q) == IsSeq(q) /\ \A i \in 1..Len(q) : \A c \in Dev : ~About(q[i], c)

LEMMA OwnJoined ==
    ASSUME NEW d, NEW s, NEW t, Own(d, s), Own(d, t)
    PROVE  Own(d, s \o t)
<1>1. IsSeq(s) /\ IsSeq(t)
  BY DEF Own
<1>2. ASSUME NEW i \in 1..Len(s \o t), NEW c \in Dev, About((s \o t)[i], c) PROVE c = d
  <2>1. CASE i \in 1..Len(s)
    BY <1>1, <1>2, <2>1, Joined DEF Own
  <2>2. CASE i \notin 1..Len(s)
    BY <1>1, <1>2, <2>2, Joined DEF Own
  <2> QED
    BY <2>1, <2>2
<1> QED
  BY <1>1, <1>2, Joined DEF Own

LEMMA OwnFlat ==
    ASSUME NEW d, NEW s, IsSeq(s), \A j \in 1..Len(s) : Own(d, s[j])
    PROVE  Own(d, FlattenSeq(s))
BY FlattenHas DEF Own

LEMMA OwnOne ==
    ASSUME NEW d, NEW ev, NEW val
    PROVE  Own(d, <<Event(ev, d, val)>>)
BY OneLong DEF Own, Event, About

LEMMA OwnNone == ASSUME NEW d PROVE Own(d, << >>)
BY Nothing DEF Own

LEMMA OwnIf == ASSUME NEW d, NEW c, NEW s, Own(d, s) PROVE Own(d, If(c, s))
BY Nothing DEF Own, If

LEMMA OwnNewMode == ASSUME NEW d, NEW k PROVE Own(d, NewMode(d, k))
<1>1. NewMode(d, k) = <<Event("mode", d, k)>> \o <<Event("size_refresh", d, k)>>
  BY PairJoined DEF NewMode
<1> QED
  BY <1>1, OwnOne, OwnJoined

LEMMA OwnCurrent == ASSUME NEW d, NEW k PROVE Own(d, Current(d, k))
BY OwnOne, OwnNone DEF Current

LEMMA OwnBurst == ASSUME NEW d \in Dev, HeadOK(heads[d]) PROVE Own(d, Burst(d))
<1> DEFINE h == heads[d]
           each == [i \in DOMAIN h.modes |-> NewMode(d, h.modes[i])]
<1>1. IsSeq(h.modes)
  BY HeadIs
<1>2. IsSeq(each) /\ Len(each) = Len(h.modes) /\ \A j \in 1..Len(each) : Own(d, each[j])
  <2>1. Len(h.modes) \in Nat /\ DOMAIN h.modes = 1..Len(h.modes)
    BY <1>1, SeqHas
  <2>2. DOMAIN each = 1..Len(h.modes) /\ each = [i \in 1..Len(h.modes) |-> each[i]]
        /\ \A j \in 1..Len(h.modes) : each[j] = NewMode(d, h.modes[j])
    BY <2>1
  <2> HIDE DEF each
  <2> QED
    BY <2>1, <2>2, FunIsSeq, OwnNewMode
<1>3. Own(d, ModesSent(d, h.modes))
  <2>1. ModesSent(d, h.modes) = FlattenSeq(each)
    BY DEF ModesSent
  <2> HIDE DEF each
  <2> QED
    BY <1>2, <2>1, OwnFlat
<1>4. Burst(d) = (((<<Event("name", d, None)>> \o <<Event("geometry", d, h.place)>>)
                    \o ModesSent(d, h.modes)) \o Current(d, h.mode))
                  \o (<<Event("enabled", d, h.on)>> \o <<Event("done", d, None)>>)
  BY BurstIs
<1> HIDE DEF h
<1>5. Own(d, <<Event("name", d, None)>> \o <<Event("geometry", d, h.place)>>)
      /\ Own(d, <<Event("enabled", d, h.on)>> \o <<Event("done", d, None)>>)
  BY OwnOne, OwnJoined
<1> QED
  BY <1>3, <1>4, <1>5, OwnCurrent, OwnJoined

LEMMA OwnNews == ASSUME NEW d, NEW g PROVE Own(d, News(d, g))
<1> DEFINE place == If(g.place # heads[d].place, <<Event("geometry", d, g.place)>>)
           mode == If(g.mode # heads[d].mode, Current(d, g.mode))
           on == If(g.on # heads[d].on, <<Event("enabled", d, g.on)>>)
           done == <<Event("done", d, None)>>
<1>1. Own(d, place) /\ Own(d, on) /\ Own(d, done)
  BY OwnOne, OwnIf
<1>2. Own(d, mode)
  BY OwnCurrent, OwnIf
<1>3. News(d, g) = If(heads[d].told = "described" /\ Shown(g) # Shown(heads[d]),
                      ((place \o mode) \o on) \o done)
  BY DEF News
<1> HIDE DEF place, mode, on, done
<1> QED
  BY <1>1, <1>2, <1>3, OwnJoined, OwnIf

LEMMA NobodyJoined ==
    ASSUME NEW s, NEW t, Nobody(s), Nobody(t)
    PROVE  Nobody(s \o t)
<1>1. IsSeq(s) /\ IsSeq(t)
  BY DEF Nobody
<1>2. ASSUME NEW i \in 1..Len(s \o t), NEW c \in Dev PROVE ~About((s \o t)[i], c)
  <2>1. CASE i \in 1..Len(s)
    BY <1>1, <2>1, Joined DEF Nobody
  <2>2. CASE i \notin 1..Len(s)
    BY <1>1, <2>2, Joined DEF Nobody
  <2> QED
    BY <2>1, <2>2
<1> QED
  BY <1>1, <1>2, Joined DEF Nobody

LEMMA NobodyOne ==
    ASSUME NEW ev \in GlobalEvents \cup Deciding, NEW of, NEW val
    PROVE  Nobody(<<Event(ev, of, val)>>)
BY OneLong DEF Nobody, Event, About

LEMMA NobodyIf == ASSUME NEW c, NEW s, Nobody(s) PROVE Nobody(If(c, s))
BY Nothing DEF Nobody, If

LEMMA NobodyNone == Nobody(<< >>)
BY Nothing DEF Nobody

-----------------------------------------------------------------------------
(* q tells the client that heads are now h.                                *)
HeadsOK(h) == h = [d \in Dev |-> h[d]] /\ \A d \in Dev : HeadOK(h[d])
Leading(d, q, h) == Leads(d, q, Held(heads[d]), Between(heads[d], h[d]), Held(h[d]))
Tells(q, h) == q \in Seq(Events) /\ HeadsOK(h) /\ \A d \in Dev : Leading(d, q, h)

LEMMA TellsNobody ==
    ASSUME HeadsOK(heads), NEW q \in Seq(Events), Nobody(q)
    PROVE  Tells(q, heads)
<1> SUFFICES ASSUME NEW d \in Dev PROVE Leading(d, q, heads)
  BY DEF Tells
<1> DEFINE P == Held(heads[d])
           M == Between(heads[d], heads[d])
<1>1. HeadOK(heads[d])
  BY DEF HeadsOK
<1>2. P \subseteq M
  BY <1>1, BetweenIs
<1>3. \A i \in 1..Len(q) : ~About(q[i], d)
  BY DEF Nobody
<1> HIDE DEF P, M
<1>4. Leads(d, q, P, P, P)
  BY <1>3, LeadsPast
<1>5. Leads(d, q, P, M, P)
  BY <1>2, <1>4, LeadsMore
<1> QED
  BY <1>5 DEF Leading, P, M

LEMMA TellsMore ==
    ASSUME HeadsOK(heads), NEW q, NEW h, Tells(q, h), NEW p \in Seq(Events), Nobody(p)
    PROVE  Tells(p \o q, h) /\ Tells(q \o p, h)
<1>1. q \in Seq(Events) /\ HeadsOK(h) /\ \A d \in Dev : Leading(d, q, h)
  BY DEF Tells
<1>2. p \o q \in Seq(Events) /\ q \o p \in Seq(Events)
  BY <1>1
<1>3. ASSUME NEW d \in Dev PROVE Leading(d, p \o q, h) /\ Leading(d, q \o p, h)
  <2> DEFINE P == Held(heads[d])
             M == Between(heads[d], h[d])
             Q == Held(h[d])
  <2>1. HeadOK(heads[d]) /\ HeadOK(h[d])
    BY <1>1 DEF HeadsOK
  <2>2. P \subseteq M /\ Q \subseteq M
    BY <2>1, BetweenIs
  <2>3. Leads(d, q, P, M, Q)
    BY <1>1 DEF Leading
  <2>4. \A i \in 1..Len(p) : ~About(p[i], d)
    BY DEF Nobody
  <2> HIDE DEF P, M, Q
  <2>5. Leads(d, p, P, P, P) /\ Leads(d, p, Q, Q, Q)
    BY <2>4, LeadsPast
  <2>6. Leads(d, p, P, M, P) /\ Leads(d, p, Q, M, Q)
    BY <2>2, <2>5, LeadsMore
  <2>7. Leads(d, p \o q, P, M, Q)
    BY <1>1, <2>3, <2>6, LeadsJoin
  <2>8. Leads(d, q \o p, P, M, Q)
    BY <1>1, <2>3, <2>6, LeadsJoin
  <2> QED
    BY <2>7, <2>8 DEF Leading, P, M, Q
<1> QED
  BY <1>1, <1>2, <1>3 DEF Tells

(* What is told of one output alone.                                       *)
LEMMA TellsOne ==
    ASSUME HeadsOK(heads), NEW d \in Dev, NEW g, HeadOK(g), NEW q \in Seq(Events), Own(d, q),
           NEW h, h = [heads EXCEPT ![d] = g],
           Leads(d, q, Held(heads[d]), Between(heads[d], g), Held(g))
    PROVE  Tells(q, h)
<1>1. h[d] = g /\ (\A c \in Dev : c # d => h[c] = heads[c]) /\ h = [c \in Dev |-> h[c]]
  BY DEF HeadsOK
<1>2. HeadsOK(h)
  BY <1>1 DEF HeadsOK
<1>3. ASSUME NEW c \in Dev PROVE Leading(c, q, h)
  <2>1. CASE c = d
    BY <1>1, <2>1 DEF Leading
  <2>2. CASE c # d
    <3> DEFINE P == Held(heads[c])
               M == Between(heads[c], heads[c])
    <3>1. HeadOK(heads[c])
      BY DEF HeadsOK
    <3>2. P \subseteq M
      BY <3>1, BetweenIs
    <3>3. \A i \in 1..Len(q) : ~About(q[i], c)
      BY <2>2 DEF Own
    <3> HIDE DEF P, M
    <3>4. Leads(c, q, P, P, P)
      BY <3>3, LeadsPast
    <3>5. Leads(c, q, P, M, P)
      BY <3>2, <3>4, LeadsMore
    <3> QED
      BY <1>1, <2>2, <3>5 DEF Leading, P, M
  <2> QED
    BY <2>1, <2>2
<1> QED
  BY <1>2, <1>3 DEF Tells

(* What is told of each in turn.                                           *)
LEMMA TellsEach ==
    ASSUME HeadsOK(heads), NEW h, HeadsOK(h), NEW f, f = [d \in Dev |-> f[d]],
           \A d \in Dev : f[d] \in Seq(Events) /\ Own(d, f[d]) /\ Leading(d, f[d], h)
    PROVE  Tells(FlattenSeq(f), h)
<1>1. Len(Connector) \in Nat /\ Dev = 1..Len(Connector)
  BY DevsAre
<1>2. IsSeq(f) /\ Len(f) = Len(Connector)
  BY PerDevice
<1>3. f \in Seq(Seq(Events)) /\ 1..Len(f) = Dev
  BY <1>1, <1>2
<1>4. FlattenSeq(f) \in Seq(Events)
  BY <1>3, FlattenSeqs
<1>5. ASSUME NEW d \in Dev PROVE Leading(d, FlattenSeq(f), h)
  <2> DEFINE P == Held(heads[d])
             M == Between(heads[d], h[d])
             Q == Held(h[d])
  <2>1. HeadOK(heads[d]) /\ HeadOK(h[d])
    BY DEF HeadsOK
  <2>2. P \subseteq M /\ Q \subseteq M
    BY <2>1, BetweenIs
  <2>3. Leads(d, f[d], P, M, Q)
    BY DEF Leading
  <2>4. \A i \in (1..Len(f)) \ {d} : \A k \in 1..Len(f[i]) : ~About(f[i][k], d)
    BY <1>3 DEF Own
  <2> HIDE DEF P, M, Q
  <2>5. d \in 1..Len(f)
    BY <1>3
  <2>6. Leads(d, FlattenSeq(f), P, M, Q)
    BY <1>3, <2>2, <2>3, <2>4, <2>5, LeadsPart
  <2> QED
    BY <2>6 DEF Leading, P, M, Q
<1> QED
  BY <1>4, <1>5 DEF Tells

-----------------------------------------------------------------------------
(* Events that neither offer a device nor answer a sync.                   *)
Plain(q) == IsSeq(q) /\ \A i \in 1..Len(q) : q[i].ev \notin {"global", "synced"}

LEMMA PlainJoined ==
    ASSUME NEW s, NEW t, Plain(s), Plain(t)
    PROVE  Plain(s \o t)
<1>1. IsSeq(s) /\ IsSeq(t)
  BY DEF Plain
<1>2. ASSUME NEW i \in 1..Len(s \o t) PROVE (s \o t)[i].ev \notin {"global", "synced"}
  <2>1. CASE i \in 1..Len(s)
    BY <1>1, <2>1, Joined DEF Plain
  <2>2. CASE i \notin 1..Len(s)
    BY <1>1, <2>2, Joined DEF Plain
  <2> QED
    BY <2>1, <2>2
<1> QED
  BY <1>1, <1>2, Joined DEF Plain

LEMMA PlainFlat ==
    ASSUME NEW s, IsSeq(s), \A j \in 1..Len(s) : Plain(s[j])
    PROVE  Plain(FlattenSeq(s))
BY FlattenHas DEF Plain

LEMMA PlainOne ==
    ASSUME NEW ev, ev \notin {"global", "synced"}, NEW of, NEW val
    PROVE  Plain(<<Event(ev, of, val)>>)
BY OneLong DEF Plain, Event

LEMMA PlainNone == Plain(<< >>)
BY Nothing DEF Plain

LEMMA PlainIf == ASSUME NEW c, NEW s, Plain(s) PROVE Plain(If(c, s))
BY PlainNone DEF If

LEMMA PlainNewMode == ASSUME NEW d, NEW k PROVE Plain(NewMode(d, k))
<1>1. NewMode(d, k) = <<Event("mode", d, k)>> \o <<Event("size_refresh", d, k)>>
  BY PairJoined DEF NewMode
<1> QED
  BY <1>1, PlainOne, PlainJoined

LEMMA PlainCurrent == ASSUME NEW d, NEW k PROVE Plain(Current(d, k))
BY PlainOne, PlainNone DEF Current

LEMMA PlainBurst == ASSUME NEW d \in Dev, HeadOK(heads[d]) PROVE Plain(Burst(d))
<1> DEFINE h == heads[d]
           each == [i \in DOMAIN h.modes |-> NewMode(d, h.modes[i])]
<1>1. IsSeq(h.modes)
  BY HeadIs
<1>2. IsSeq(each) /\ \A j \in 1..Len(each) : Plain(each[j])
  <2>1. Len(h.modes) \in Nat /\ DOMAIN h.modes = 1..Len(h.modes)
    BY <1>1, SeqHas
  <2>2. DOMAIN each = 1..Len(h.modes) /\ each = [i \in 1..Len(h.modes) |-> each[i]]
        /\ \A j \in 1..Len(h.modes) : each[j] = NewMode(d, h.modes[j])
    BY <2>1
  <2> HIDE DEF each
  <2> QED
    BY <2>1, <2>2, FunIsSeq, PlainNewMode
<1>3. Plain(ModesSent(d, h.modes))
  <2>1. ModesSent(d, h.modes) = FlattenSeq(each)
    BY DEF ModesSent
  <2> HIDE DEF each
  <2> QED
    BY <1>2, <2>1, PlainFlat
<1>4. Burst(d) = (((<<Event("name", d, None)>> \o <<Event("geometry", d, h.place)>>)
                    \o ModesSent(d, h.modes)) \o Current(d, h.mode))
                  \o (<<Event("enabled", d, h.on)>> \o <<Event("done", d, None)>>)
  BY BurstIs
<1> HIDE DEF h
<1>5. Plain(<<Event("name", d, None)>> \o <<Event("geometry", d, h.place)>>)
      /\ Plain(<<Event("enabled", d, h.on)>> \o <<Event("done", d, None)>>)
  BY PlainOne, PlainJoined
<1> QED
  BY <1>3, <1>4, <1>5, PlainCurrent, PlainJoined

LEMMA PlainNews == ASSUME NEW d, NEW g PROVE Plain(News(d, g))
<1> DEFINE place == If(g.place # heads[d].place, <<Event("geometry", d, g.place)>>)
           mode == If(g.mode # heads[d].mode, Current(d, g.mode))
           on == If(g.on # heads[d].on, <<Event("enabled", d, g.on)>>)
           done == <<Event("done", d, None)>>
<1>1. Plain(place) /\ Plain(on) /\ Plain(done)
  BY PlainOne, PlainIf
<1>2. Plain(mode)
  BY PlainCurrent, PlainIf
<1>3. News(d, g) = If(heads[d].told = "described" /\ Shown(g) # Shown(heads[d]),
                      ((place \o mode) \o on) \o done)
  BY DEF News
<1> HIDE DEF place, mode, on, done
<1> QED
  BY <1>1, <1>2, <1>3, PlainJoined, PlainIf

-----------------------------------------------------------------------------
(* An output is described to a client that has none of it, or all of it.   *)
Redescribed(h, g) ==
    /\ HeadOK(g) /\ g.at = "there" /\ g.told = "described"
    /\ g.on = h.on /\ g.place = h.place /\ g.mode = h.mode /\ g.modes = h.modes

LEMMA SameFull == ASSUME NEW h, NEW g, Redescribed(h, g) PROVE Held(g) = {Full(h)}
BY DEF Redescribed, Held, Full

LEMMA ComesLeads ==
    ASSUME NEW d \in Dev, ~Mute, HeadOK(heads[d]), NEW g, Redescribed(heads[d], g)
    PROVE  /\ <<Event("output", d, None)>> \o Burst(d) \in Seq(Events)
           /\ Leads(d, <<Event("output", d, None)>> \o Burst(d), Held(heads[d]),
                    Between(heads[d], g), Held(g))
<1> DEFINE h == heads[d]
           e == Event("output", d, None)
           M == Between(h, g)
           E == <<e>>
           b == Burst(d)
<1>1. e \in Events /\ About(e, d)
  BY EventsAre DEF PlainEvents
<1>2. b \in Seq(Events)
  BY BurstParts
<1>3. E \in Seq(Events)
  <2> HIDE DEF e
  <2> QED
    BY <1>1
<1>4. \A p, q \in Seq(Events) : p \o q \in Seq(Events)
  OBVIOUS
<1>5. Held(g) = {Full(h)} /\ HeadOK(g)
  BY SameFull DEF Redescribed
<1>6. Held(h) \subseteq M /\ Held(g) \subseteq M
  BY <1>5, BetweenIs
<1>7. CASE h.at = "there" /\ h.told = "described"
  <2>1. Held(h) = {Full(h)}
    BY <1>7 DEF Held
  <2>2. Heard(Full(h), e) = Full(h)
    <3> HIDE DEF h
    <3> QED
      BY HereAgain DEF h
  <2>3. Leads(d, b, {Full(h)}, {Full(h)}, {Full(h)})
    BY BurstAgain
  <2> HIDE DEF e, h, E, M, b
  <2>4. Leads(d, E, {Full(h)}, M, {Full(h)})
    <3>1. Full(h) \in M
      BY <1>6, <2>1
    <3> QED
      BY <1>1, <2>2, <3>1, LeadsTo DEF E
  <2>5. Leads(d, b, {Full(h)}, M, {Full(h)})
    <3>1. {Full(h)} \subseteq M
      BY <1>6, <2>1
    <3> QED
      BY <2>3, <3>1, LeadsMore
  <2>6. Leads(d, E \o b, {Full(h)}, M, {Full(h)})
    BY <1>2, <1>3, <2>4, <2>5, LeadsJoin
  <2>7. E \o b \in Seq(Events)
    BY <1>2, <1>3, <1>4
  <2> QED
    BY <1>5, <2>1, <2>6, <2>7 DEF E, e, h, M, b
<1>8. CASE ~(h.at = "there" /\ h.told = "described")
  <2>1. Held(h) \in {{Unseen(TRUE)}, {Unseen(FALSE)}}
    BY <1>8 DEF Held
  <2>2. Heard(Unseen(TRUE), e) = Unseen(TRUE) /\ Heard(Unseen(FALSE), e) = Unseen(TRUE)
    BY HeardHere
  <2>3. Leads(d, b, {Unseen(TRUE)}, Hidden \cup {Full(h)}, {Full(h)})
    BY BurstLeads
  <2>4. Hidden \cup {Full(h)} \subseteq M
    <3>1. Told(h) = Absent
      BY <1>8 DEF Told
    <3>2. \A v \in Hidden : v \in M
      <4> HIDE DEF h
      <4> QED
        BY <1>5, <3>1, BetweenIs DEF h
    <3> QED
      BY <1>5, <1>6, <3>2
  <2>5. Unseen(TRUE) \in Hidden
    BY UnseenIs
  <2> HIDE DEF e, h, E, M, b
  <2>6. Leads(d, E, Held(h), M, {Unseen(TRUE)})
    <3>0. ASSUME NEW v \in Held(h) PROVE Heard(v, e) = Unseen(TRUE)
      <4> DEFINE a == Unseen(TRUE)
                 b2 == Unseen(FALSE)
      <4>1. v = a \/ v = b2
        BY <2>1
      <4>2. Heard(a, e) = a /\ Heard(b2, e) = a
        BY <2>2
      <4> HIDE DEF a, b2
      <4>3. Heard(v, e) = a
        BY <4>1, <4>2
      <4> QED
        BY <4>3 DEF a
    <3>1. \A v \in Held(h) : (IF About(e, d) THEN Heard(v, e) ELSE v) \in {Unseen(TRUE)}
      BY <1>1, <3>0
    <3>2. {Unseen(TRUE)} \subseteq M
      BY <2>4, <2>5
    <3> QED
      BY <1>1, <1>6, <3>1, <3>2, LeadsOne DEF E
  <2>7. Leads(d, b, {Unseen(TRUE)}, M, {Full(h)})
    BY <2>3, <2>4, LeadsMore
  <2>8. Leads(d, E \o b, Held(h), M, {Full(h)})
    BY <1>2, <1>3, <2>6, <2>7, LeadsJoin
  <2>9. E \o b \in Seq(Events)
    BY <1>2, <1>3, <1>4
  <2> QED
    BY <1>5, <2>8, <2>9 DEF E, e, h, M, b
<1> QED
  BY <1>7, <1>8

(* One of Plasma before 6.7 is described to the client once it is on file. *)
LEMMA BoundLeads ==
    ASSUME NEW d \in Dev, ~Mute, HeadOK(heads[d]), heads[d].at = "there", heads[d].told # "no",
           NEW g, Redescribed(heads[d], g)
    PROVE  /\ Burst(d) \in Seq(Events)
           /\ Leads(d, Burst(d), Held(heads[d]), Between(heads[d], g), Held(g))
<1> DEFINE h == heads[d]
           M == Between(h, g)
           b == Burst(d)
<1>1. b \in Seq(Events)
  BY BurstParts
<1>2. Held(g) = {Full(h)} /\ HeadOK(g)
  BY SameFull DEF Redescribed
<1>3. Held(h) \subseteq M /\ Held(g) \subseteq M
  BY <1>2, BetweenIs
<1>4. CASE h.told = "described"
  <2>1. Held(h) = {Full(h)}
    BY <1>4 DEF Held
  <2>2. Leads(d, b, {Full(h)}, {Full(h)}, {Full(h)})
    BY BurstAgain
  <2> HIDE DEF h, M, b
  <2>3. Leads(d, b, {Full(h)}, M, {Full(h)})
    <3>1. {Full(h)} \subseteq M
      BY <1>3, <2>1
    <3> QED
      BY <2>2, <3>1, LeadsMore
  <2> QED
    BY <1>1, <1>2, <2>1, <2>3 DEF h, M, b
<1>5. CASE h.told # "described"
  <2>1. h.told = "offered"
    BY <1>5 DEF HeadOK, HeadType
  <2>2. Held(h) = {Unseen(TRUE)}
    BY <2>1 DEF Held
  <2>3. Leads(d, b, {Unseen(TRUE)}, Hidden \cup {Full(h)}, {Full(h)})
    BY BurstLeads
  <2>4. Hidden \cup {Full(h)} \subseteq M
    <3>1. Told(h) = Absent
      BY <1>5 DEF Told
    <3>2. \A v \in Hidden : v \in M
      <4> HIDE DEF h
      <4> QED
        BY <1>2, <3>1, BetweenIs DEF h
    <3> QED
      BY <1>2, <1>3, <3>2
  <2> HIDE DEF h, M, b
  <2>5. Leads(d, b, {Unseen(TRUE)}, M, {Full(h)})
    BY <2>3, <2>4, LeadsMore
  <2> QED
    BY <1>1, <1>2, <2>2, <2>5 DEF h, M, b
<1> QED
  BY <1>4, <1>5

(* It is offered.                                                          *)
LEMMA OfferLeads ==
    ASSUME NEW d \in Dev, HeadOK(heads[d]), heads[d].at # "there" \/ heads[d].told = "no",
           NEW g, HeadOK(g), g.at = "there", g.told = "offered"
    PROVE  /\ <<Event("global", d, None)>> \in Seq(Events)
           /\ Leads(d, <<Event("global", d, None)>>, Held(heads[d]), Between(heads[d], g), Held(g))
<1> DEFINE h == heads[d]
           e == Event("global", d, None)
           M == Between(h, g)
<1>1. e \in Events /\ About(e, d)
  BY EventsAre DEF PlainEvents
<1>2. Held(h) = {Unseen(FALSE)} /\ Held(g) = {Unseen(TRUE)}
  BY DEF Held
<1>3. Heard(Unseen(FALSE), e) = Unseen(TRUE)
  BY HeardHere
<1>4. Held(h) \subseteq M /\ Held(g) \subseteq M
  BY BetweenIs
<1> HIDE DEF e, h, M
<1>5. <<e>> \in Seq(Events)
  BY <1>1
<1>6. Leads(d, <<e>>, {Unseen(FALSE)}, M, {Unseen(TRUE)})
  <2>1. Unseen(FALSE) \in M /\ Unseen(TRUE) \in M
    BY <1>2, <1>4
  <2> QED
    BY <1>1, <1>3, <2>1, LeadsTo
<1> QED
  BY <1>2, <1>5, <1>6 DEF e, h, M

(* Nothing is said of it.                                                  *)
LEMMA SilentLeads ==
    ASSUME NEW d \in Dev, HeadOK(heads[d]), NEW g, HeadOK(g), Held(g) = Held(heads[d])
    PROVE  /\ << >> \in Seq(Events)
           /\ Leads(d, << >>, Held(heads[d]), Between(heads[d], g), Held(g))
<1>1. Held(heads[d]) \subseteq Between(heads[d], g)
  BY BetweenIs
<1>2. << >> \in Seq(Events)
  OBVIOUS
<1> QED
  BY <1>1, <1>2, LeadsNone

-----------------------------------------------------------------------------
(* KWin has told of the output, or it has gone.                            *)
Met(h) == h.at # "new" /\ (h.at = "there" => h.told # "no")

(* Whoever was told of stays so, and who is offered is told of.            *)
Meets(q, h) ==
    /\ \A d \in Dev : Met(heads[d]) => Met(h[d])
    /\ \A i \in 1..Len(q) : q[i].ev = "global" => Met(h[q[i].of])

Unsynced(q) == \A i \in 1..Len(q) : q[i].ev # "synced"

(* A client that has asked for nothing is told nothing.                    *)
Waits(h) ==
    ~kwin.listening /\ ~kwin.bound =>
        \A d \in Dev : heads[d].told = "no" => h[d].told = "no"

Moves(q, h) == Tells(q, h) /\ Meets(q, h) /\ Unsynced(q) /\ Waits(h)

LEMMA MovesPlain ==
    ASSUME NEW q, NEW h, Tells(q, h), Plain(q),
           \A d \in Dev : h[d].told = heads[d].told /\ h[d].at \in {heads[d].at, "gone"}
    PROVE  Moves(q, h)
<1>1. \A d \in Dev : Met(heads[d]) => Met(h[d])
  BY DEF Met
<1> QED
  BY <1>1 DEF Moves, Meets, Unsynced, Waits, Plain

LEMMA MovesOne ==
    ASSUME HeadsOK(heads), NEW d \in Dev, NEW g, HeadOK(g), NEW q \in Seq(Events), Own(d, q),
           Plain(q), g.told = heads[d].told, g.at \in {heads[d].at, "gone"},
           NEW h, h = [heads EXCEPT ![d] = g],
           Leads(d, q, Held(heads[d]), Between(heads[d], g), Held(g))
    PROVE  Moves(q, h)
<1>1. Tells(q, h)
  BY TellsOne
<1>2. h[d] = g /\ \A c \in Dev : c # d => h[c] = heads[c]
  BY DEF HeadsOK
<1>3. \A c \in Dev : h[c].told = heads[c].told /\ h[c].at \in {heads[c].at, "gone"}
  BY <1>2
<1> QED
  BY <1>1, <1>3, MovesPlain

LEMMA RearrangeMoves ==
    ASSUME ~Mute, HeadsOK(heads), NEW d \in There, Rearrange(d)
    PROVE  \E q, h : Moves(q, h) /\ Change(h, q) /\ UNCHANGED kwin
<1>1. PICK on \in BOOLEAN, place \in Place, k \in ToSet(heads[d].modes) :
          LET h == [heads[d] EXCEPT !.on = on, !.place = place, !.mode = k] IN
          Change([heads EXCEPT ![d] = h], News(d, h))
  BY DEF Rearrange
<1> DEFINE g == [heads[d] EXCEPT !.on = on, !.place = place, !.mode = k]
           h == [heads EXCEPT ![d] = g]
           q == News(d, g)
<1>2. d \in Dev /\ HeadOK(heads[d]) /\ heads[d].at = "there"
  BY DEF There, HeadsOK
<1>3. heads[d] \in HeadType /\ ToSet(heads[d].modes) \in SUBSET Kind /\ Once(heads[d].modes)
  BY <1>2, HeadIs DEF HeadOK
<1>4. g \in HeadType /\ g.modes = heads[d].modes /\ g.mode = k /\ g.at = "there"
      /\ g.told = heads[d].told
  BY <1>2, <1>3 DEF HeadType
<1> HIDE DEF g
<1>5. HeadOK(g)
  BY <1>3, <1>4 DEF HeadOK
<1>6. q \in Seq(Events) /\ Leads(d, q, Held(heads[d]), Between(heads[d], g), Held(g))
  BY <1>2, <1>4, <1>5, NewsLeads
<1>7. Own(d, q) /\ Plain(q)
  BY OwnNews, PlainNews
<1> HIDE DEF q, h
<1>8. g.told = heads[d].told /\ g.at \in {heads[d].at, "gone"} /\ h = [heads EXCEPT ![d] = g]
  BY <1>2, <1>4 DEF h
<1>9. Moves(q, h)
  BY <1>2, <1>5, <1>6, <1>7, <1>8, MovesOne
<1>10. Change(h, q) /\ UNCHANGED kwin
  BY <1>1 DEF h, q, g, Rearrange
<1> QED
  BY <1>9, <1>10

LEMMA LoseMoves ==
    ASSUME ~Mute, HeadsOK(heads), NEW d \in There, LoseMode(d)
    PROVE  \E q, h : Moves(q, h) /\ Change(h, q) /\ UNCHANGED kwin
<1> DEFINE gone(k) == If(heads[d].told = "described", <<Event("mode_removed", d, k)>>)
           x(k, next) == Lost(heads[d], k, next)
<1>1. PICK k \in ToSet(heads[d].modes) : \E next \in ToSet(heads[d].modes) \ {k} :
          \E q \in {gone(k) \o News(d, x(k, next)), News(d, x(k, next)) \o gone(k)} :
             Change([heads EXCEPT ![d] = x(k, next)], q)
  BY DEF LoseMode, Lost
<1>2. PICK next \in ToSet(heads[d].modes) \ {k} :
          \E q \in {gone(k) \o News(d, x(k, next)), News(d, x(k, next)) \o gone(k)} :
             Change([heads EXCEPT ![d] = x(k, next)], q)
  BY <1>1
<1> DEFINE g == x(k, next)
           left == gone(k)
<1>3. PICK q : (q = left \o News(d, g) \/ q = News(d, g) \o left)
               /\ Change([heads EXCEPT ![d] = g], q)
  BY <1>2
<1>4. d \in Dev /\ HeadOK(heads[d]) /\ heads[d].at = "there"
  BY DEF There, HeadsOK
<1>5. Loses(heads[d], g, k, next)
  BY <1>4, LostIs
<1>6. /\ heads[d].told = "described" => left = <<Event("mode_removed", d, k)>>
      /\ heads[d].told # "described" => left = << >>
  BY DEF If
<1>7. Own(d, left) /\ Plain(left)
  BY OwnOne, OwnIf, PlainOne, PlainIf
<1> HIDE DEF g, left
<1>8. q \in Seq(Events) /\ Leads(d, q, Held(heads[d]), Between(heads[d], g), Held(g))
  BY <1>2, <1>3, <1>4, <1>5, <1>6, LoseLeads
<1>9. Own(d, q) /\ Plain(q)
  BY <1>3, <1>7, OwnNews, PlainNews, OwnJoined, PlainJoined
<1>10. HeadOK(g) /\ g.told = heads[d].told /\ g.at \in {heads[d].at, "gone"}
  BY <1>5 DEF Loses
<1> DEFINE h == [heads EXCEPT ![d] = g]
<1>11. h = [heads EXCEPT ![d] = g] /\ Change(h, q)
  BY <1>3
<1> HIDE DEF h
<1>12. Moves(q, h)
  BY <1>4, <1>8, <1>9, <1>10, <1>11, MovesOne
<1>13. UNCHANGED kwin
  BY DEF LoseMode
<1> QED
  BY <1>11, <1>12, <1>13

LEMMA GainMoves ==
    ASSUME ~Mute, HeadsOK(heads), NEW d \in There, GainMode(d)
    PROVE  \E q, h : Moves(q, h) /\ Change(h, q) /\ UNCHANGED kwin
<1>0. PICK k \in Kind \ ToSet(heads[d].modes) : \E now \in {heads[d].mode, k} :
          LET h == [heads[d] EXCEPT !.modes = Append(@, k), !.mode = now] IN
          Change([heads EXCEPT ![d] = h],
                 If(heads[d].told = "described",
                    NewMode(d, k) \o If(now = k, Current(d, k)) \o <<Event("done", d, None)>>))
  BY DEF GainMode
<1>1. PICK now \in {heads[d].mode, k} :
          LET h == [heads[d] EXCEPT !.modes = Append(@, k), !.mode = now] IN
          Change([heads EXCEPT ![d] = h],
                 If(heads[d].told = "described",
                    NewMode(d, k) \o If(now = k, Current(d, k)) \o <<Event("done", d, None)>>))
  BY <1>0
<1> DEFINE g == Gained(heads[d], k, now)
           cur == Event("current_mode", d, k)
           told == If(now = k, <<cur>>)
           more == (NewMode(d, k) \o told) \o <<Event("done", d, None)>>
           q == If(heads[d].told = "described", more)
           h == [heads EXCEPT ![d] = g]
<1>2. d \in Dev /\ HeadOK(heads[d]) /\ heads[d].at = "there"
  BY DEF There, HeadsOK
<1>3. Gains(heads[d], g, k)
  BY <1>2, GainedIs
<1>4. g.mode = now
  BY <1>2 DEF Gained, HeadOK, HeadType
<1>5. (g.mode = k /\ told = <<cur>>) \/ (g.mode # k /\ told = << >>)
  BY <1>4 DEF If
<1>6. Own(d, NewMode(d, k)) /\ Own(d, told) /\ Own(d, <<Event("done", d, None)>>)
      /\ Plain(NewMode(d, k)) /\ Plain(told) /\ Plain(<<Event("done", d, None)>>)
  BY OwnNewMode, OwnOne, OwnIf, PlainNewMode, PlainOne, PlainIf
<1>7. Own(d, q) /\ Plain(q)
  <2> HIDE DEF told
  <2>1. Own(d, more) /\ Plain(more)
    BY <1>6, OwnJoined, PlainJoined
  <2> HIDE DEF more
  <2> QED
    BY <2>1, OwnIf, PlainIf
<1>8. Change(h, q) /\ UNCHANGED kwin
  <2>1. Current(d, k) = <<cur>>
    BY DEF Current
  <2> QED
    BY <1>1, <2>1 DEF Gained, GainMode
<1>9. q \in Seq(Events) /\ Leads(d, q, Held(heads[d]), Between(heads[d], g), Held(g))
  <2>1. CASE heads[d].told = "described"
    <3> HIDE DEF g, told
    <3>1. more \in Seq(Events) /\ Leads(d, more, Held(heads[d]), Between(heads[d], g), Held(g))
      BY <1>2, <1>3, <1>5, <2>1, GainLeads
    <3>2. q = more
      BY <2>1 DEF If
    <3> QED
      BY <3>1, <3>2
  <2>2. CASE heads[d].told # "described"
    <3>1. q = << >>
      BY <2>2 DEF If
    <3> HIDE DEF g, q
    <3>2. HeadOK(g) /\ Held(g) = Held(heads[d])
      BY <1>3, <2>2 DEF Gains, Held
    <3> QED
      BY <1>2, <3>1, <3>2, SilentLeads
  <2> QED
    BY <2>1, <2>2
<1>10. HeadOK(g) /\ g.told = heads[d].told /\ g.at \in {heads[d].at, "gone"}
  BY <1>3 DEF Gains
<1>11. h = [heads EXCEPT ![d] = g]
  OBVIOUS
<1> HIDE DEF g, q, h
<1>12. Moves(q, h)
  BY <1>2, <1>7, <1>9, <1>10, <1>11, MovesOne
<1> QED
  BY <1>8, <1>12

LEMMA UnplugMoves ==
    ASSUME ~Mute, HeadsOK(heads), NEW d \in There, Unplug(d)
    PROVE  \E q, h : Moves(q, h) /\ Change(h, q) /\ UNCHANGED kwin
<1> DEFINE g == [heads[d] EXCEPT !.at = "gone"]
           ev == IF kwin.legacy THEN "global_remove" ELSE "removed"
           q == If(heads[d].told # "no", <<Event(ev, d, None)>>)
           h == [heads EXCEPT ![d] = g]
<1>1. d \in Dev /\ HeadOK(heads[d]) /\ heads[d].at = "there"
  BY DEF There, HeadsOK
<1>2. HeadOK(g) /\ g.at = "gone" /\ g.told = heads[d].told
  BY <1>1 DEF HeadOK, HeadType
<1>3. h = [heads EXCEPT ![d] = g]
  <2> HIDE DEF g
  <2> QED
    OBVIOUS
<1>4. Change(h, q) /\ UNCHANGED kwin
  <2>1. h = [heads EXCEPT ![d].at = "gone"]
    OBVIOUS
  <2> QED
    BY <2>1 DEF Unplug
<1>5. ev \in {"global_remove", "removed"}
  OBVIOUS
<1> HIDE DEF g, ev
<1>6. Own(d, q) /\ Plain(q)
  BY <1>5, OwnOne, OwnIf, PlainOne, PlainIf
<1>7. q \in Seq(Events) /\ Leads(d, q, Held(heads[d]), Between(heads[d], g), Held(g))
  <2>1. CASE heads[d].told = "no"
    <3>1. q = << >>
      BY <2>1 DEF If
    <3>2. Held(g) = Held(heads[d])
      BY <1>2, <2>1 DEF Held
    <3> QED
      BY <1>1, <1>2, <3>1, <3>2, SilentLeads
  <2>2. CASE heads[d].told # "no"
    <3>1. q = <<Event(ev, d, None)>>
      BY <2>2 DEF If
    <3> QED
      BY <1>1, <1>2, <1>5, <3>1, GoneLeads
  <2> QED
    BY <2>1, <2>2
<1> HIDE DEF q, h
<1>8. Moves(q, h)
  BY <1>1, <1>2, <1>3, <1>6, <1>7, MovesOne
<1> QED
  BY <1>4, <1>8

LEMMA PlugMoves ==
    ASSUME ~Mute, HeadsOK(heads), NEW d \in Dev, Plug(d)
    PROVE  \E q, h : Moves(q, h) /\ Change(h, q) /\ UNCHANGED kwin
<1> DEFINE told == IF kwin.bound THEN "described"
                   ELSE IF kwin.listening /\ kwin.legacy THEN "offered" ELSE "no"
           g == [[heads[d] EXCEPT !.at = "there"] EXCEPT !.told = told]
           out == <<Event("output", d, None)>>
           glob == <<Event("global", d, None)>>
           q == CASE told = "described" -> out \o Burst(d)
                  [] told = "offered" -> glob
                  [] OTHER -> << >>
           h == [heads EXCEPT ![d] = g]
<1>1. HeadOK(heads[d]) /\ heads[d].at = "new" /\ heads = [c \in Dev |-> heads[c]]
  BY DEF HeadsOK, Plug
<1>2. told \in {"described", "offered", "no"} /\ (~kwin.listening /\ ~kwin.bound => told = "no")
  OBVIOUS
<1>3. h = [heads EXCEPT ![d].at = "there", ![d].told = told]
  BY <1>1 DEF HeadOK, HeadType
<1>4. Change(h, q) /\ UNCHANGED kwin
  BY <1>3 DEF Plug
<1> HIDE DEF told
<1>5. HeadOK(g) /\ g.at = "there" /\ g.told = told /\ g.on = heads[d].on
      /\ g.place = heads[d].place /\ g.mode = heads[d].mode /\ g.modes = heads[d].modes
  BY <1>1, <1>2 DEF HeadOK, HeadType
<1>6. h = [heads EXCEPT ![d] = g]
  OBVIOUS
<1> HIDE DEF g, h
<1>7. h[d] = g /\ \A c \in Dev : c # d => h[c] = heads[c]
  BY <1>1, <1>6
<1>8. /\ told = "described" => q = out \o Burst(d)
      /\ told = "offered" => q = glob
      /\ told = "no" => q = << >>
  BY <1>2
<1> HIDE DEF q
<1>9. /\ Own(d, out) /\ Own(d, glob) /\ Own(d, Burst(d)) /\ Plain(out) /\ Plain(Burst(d))
  BY <1>1, OwnOne, OwnBurst, PlainOne, PlainBurst
<1>10. Own(d, q)
  BY <1>2, <1>8, <1>9, OwnJoined, OwnNone
<1>11. Plain(q) \/ (told = "offered" /\ IsSeq(q) /\ Len(q) = 1 /\ q[1] = Event("global", d, None))
  <2>1. CASE told = "offered"
    BY <1>8, <2>1, OneLong
  <2>2. CASE told # "offered"
    BY <1>2, <1>8, <1>9, <2>2, PlainJoined, PlainNone
  <2> QED
    BY <2>1, <2>2
<1>12. q \in Seq(Events) /\ Leads(d, q, Held(heads[d]), Between(heads[d], g), Held(g))
  <2>1. CASE told = "described"
    <3>1. Redescribed(heads[d], g)
      BY <1>5, <2>1 DEF Redescribed
    <3> QED
      BY <1>1, <1>8, <2>1, <3>1, ComesLeads
  <2>2. CASE told = "offered"
    BY <1>1, <1>5, <1>8, <2>2, OfferLeads
  <2>3. CASE told = "no"
    <3>1. Held(g) = Held(heads[d])
      BY <1>1, <1>5, <2>3 DEF Held
    <3> QED
      BY <1>1, <1>5, <1>8, <2>3, <3>1, SilentLeads
  <2> QED
    BY <1>2, <2>1, <2>2, <2>3
<1>13. Tells(q, h)
  BY <1>5, <1>6, <1>10, <1>12, TellsOne
<1>14. Meets(q, h)
  <2>1. \A c \in Dev : Met(heads[c]) => Met(h[c])
    BY <1>1, <1>7 DEF Met
  <2>2. \A i \in 1..Len(q) : q[i].ev = "global" => Met(h[q[i].of])
    <3>1. CASE Plain(q)
      BY <3>1 DEF Plain
    <3>2. CASE told = "offered" /\ IsSeq(q) /\ Len(q) = 1 /\ q[1] = Event("global", d, None)
      <4>1. Met(h[d])
        BY <1>5, <1>7, <3>2 DEF Met
      <4>2. \A i \in 1..1 : i = 1
        OBVIOUS
      <4> QED
        BY <3>2, <4>1, <4>2 DEF Event
    <3> QED
      BY <1>11, <3>1, <3>2
  <2> QED
    BY <2>1, <2>2 DEF Meets
<1>15. Unsynced(q)
  <2>1. CASE Plain(q)
    BY <2>1 DEF Plain, Unsynced
  <2>2. CASE IsSeq(q) /\ Len(q) = 1 /\ q[1] = Event("global", d, None)
    <3>1. \A i \in 1..1 : i = 1
      OBVIOUS
    <3> QED
      BY <2>2, <3>1 DEF Event, Unsynced
  <2> QED
    BY <1>11, <2>1, <2>2
<1>16. Waits(h)
  BY <1>2, <1>5, <1>7 DEF Waits
<1>17. Moves(q, h)
  BY <1>13, <1>14, <1>15, <1>16 DEF Moves
<1> QED
  BY <1>4, <1>17

LEMMA StillMoves ==
    ASSUME HeadsOK(heads), NEW q \in Seq(Events), Nobody(q), Plain(q)
    PROVE  Moves(q, heads)
BY TellsNobody, MovesPlain

LEMMA QuitMoves ==
    ASSUME ~Mute, HeadsOK(heads), Quit
    PROVE  \E q, h : Moves(q, h) /\ Change(h, q)
                     /\ kwin'.listening = kwin.listening /\ kwin'.bound = kwin.bound
<1>1. ASSUME NEW global, NEW news \in {"manager_gone", "registry_gone"}, Withdraw(global, news)
      PROVE  \E q, h : Moves(q, h) /\ Change(h, q)
                       /\ kwin'.listening = kwin.listening /\ kwin'.bound = kwin.bound
  <2> DEFINE e == Event(news, None, None)
             q == If(kwin.listening, <<e>>)
  <2>1. e \in Events
    BY DEF Event, Events, GlobalEvents
  <2>2. Nobody(q) /\ Plain(q)
    BY NobodyOne, NobodyIf, PlainOne, PlainIf DEF GlobalEvents
  <2>3. q \in Seq(Events)
    <3> HIDE DEF e
    <3>1. <<e>> \in Seq(Events)
      BY <2>1
    <3>2. << >> \in Seq(Events)
      OBVIOUS
    <3> QED
      BY <3>1, <3>2 DEF If
  <2>4. Change(heads, q) /\ kwin'.listening = kwin.listening /\ kwin'.bound = kwin.bound
    BY <1>1 DEF Withdraw
  <2> HIDE DEF q
  <2>5. Moves(q, heads)
    BY <2>2, <2>3, StillMoves
  <2> QED
    BY <2>4, <2>5
<1>2. CASE Crash
  <2>1. Change(heads, << >>) /\ kwin'.listening = kwin.listening /\ kwin'.bound = kwin.bound
    BY <1>2 DEF Crash
  <2>2. << >> \in Seq(Events)
    OBVIOUS
  <2>3. Moves(<< >>, heads)
    BY <2>2, NobodyNone, PlainNone, StillMoves
  <2> QED
    BY <2>1, <2>3
<1> QED
  BY <1>1, <1>2 DEF Quit

LEMMA OutsideMoves ==
    ASSUME ~Mute, HeadsOK(heads), Outside
    PROVE  \E q, h : Moves(q, h) /\ Change(h, q)
                     /\ kwin'.listening = kwin.listening /\ kwin'.bound = kwin.bound
<1> DEFINE Goal == \E q, h : Moves(q, h) /\ Change(h, q)
                     /\ kwin'.listening = kwin.listening /\ kwin'.bound = kwin.bound
<1>1. ASSUME NEW q, NEW h, Moves(q, h), Change(h, q), UNCHANGED kwin PROVE Goal
  BY <1>1
<1> HIDE DEF Goal
<1>2. ASSUME NEW d \in Dev, Plug(d) PROVE Goal
  BY <1>1, <1>2, PlugMoves
<1>3. ASSUME NEW d \in There, Unplug(d) PROVE Goal
  BY <1>1, <1>3, UnplugMoves
<1>4. ASSUME NEW d \in There, Rearrange(d) PROVE Goal
  BY <1>1, <1>4, RearrangeMoves
<1>5. ASSUME NEW d \in There, LoseMode(d) PROVE Goal
  BY <1>1, <1>5, LoseMoves
<1>6. ASSUME NEW d \in There, GainMode(d) PROVE Goal
  BY <1>1, <1>6, GainMoves
<1>7. ASSUME Quit PROVE Goal
  BY <1>7, QuitMoves DEF Goal
<1>8. Goal
  <2>1. \/ \E d \in Dev : Plug(d)
        \/ \E d \in There : Unplug(d) \/ Rearrange(d) \/ LoseMode(d) \/ GainMode(d)
        \/ Quit
    BY DEF Outside
  <2>2. ASSUME \E d \in Dev : Plug(d) PROVE Goal
    BY <1>2, <2>2
  <2>3. ASSUME \E d \in There : Unplug(d) \/ Rearrange(d) \/ LoseMode(d) \/ GainMode(d)
        PROVE  Goal
    BY <1>3, <1>4, <1>5, <1>6, <2>3
  <2> QED
    BY <1>7, <2>1, <2>2, <2>3
<1> QED
  BY <1>8 DEF Goal

-----------------------------------------------------------------------------
(* What a configuration may write.                                         *)
Written(c) ==
    /\ \A d \in DOMAIN c.on : c.on[d] \in BOOLEAN
    /\ \A d \in DOMAIN c.place : c.place[d] \in Place
    /\ \A d \in DOMAIN c.prio : c.prio[d] \in Nat

LEMMA ConfiguredIs ==
    ASSUME HeadsOK(heads), NEW c, Written(c), Possible(c)
    PROVE  LET h == Configured(c) IN
           /\ HeadsOK(h)
           /\ \A d \in Dev \ There : h[d] = heads[d]
           /\ \A d \in Dev : h[d].at = heads[d].at /\ h[d].told = heads[d].told
                             /\ h[d].modes = heads[d].modes
<1> DEFINE value(f, d, was) == IF d \in DOMAIN f THEN f[d] ELSE was
           h == Configured(c)
<1>1. h = [d \in Dev |-> h[d]]
  BY DEF Configured
<1>2. ASSUME NEW d \in Dev \ There PROVE h[d] = heads[d]
  BY <1>2 DEF Configured
<1>3. ASSUME NEW d \in There
      PROVE  HeadOK(h[d]) /\ h[d].at = heads[d].at /\ h[d].told = heads[d].told
             /\ h[d].modes = heads[d].modes
  <2> DEFINE on == value(c.on, d, heads[d].on)
             mode == value(c.mode, d, heads[d].mode)
             place == value(c.place, d, heads[d].place)
             prio == value(c.prio, d, 0)
             g == [heads[d] EXCEPT !.on = on, !.mode = mode, !.place = place, !.prio = prio]
  <2>1. d \in Dev /\ HeadOK(heads[d])
    BY DEF There, HeadsOK
  <2>2. heads[d] \in HeadType /\ Once(heads[d].modes) /\ IsSeq(heads[d].modes)
        /\ ToSet(heads[d].modes) \in SUBSET Kind
    BY <2>1, HeadIs DEF HeadOK
  <2>3. h[d] = g
    BY <2>1 DEF Configured
  <2>4. on \in BOOLEAN /\ place \in Place /\ prio \in Nat
    BY <2>2 DEF Written, HeadType
  <2>5. mode \in ToSet(heads[d].modes)
    <3>1. Contains(heads[d].modes, h[d].mode)
      BY DEF Possible
    <3>2. h[d].mode = mode
      BY <2>2, <2>3 DEF HeadType
    <3> QED
      BY <2>2, <3>1, <3>2, ToSetIs
  <2>6. mode \in Kind
    BY <2>2, <2>5
  <2> HIDE DEF on, mode, place, prio
  <2>7. g \in HeadType /\ g.mode = mode /\ g.modes = heads[d].modes /\ g.at = heads[d].at
        /\ g.told = heads[d].told
    BY <2>2, <2>4, <2>6 DEF HeadType
  <2> HIDE DEF g
  <2>8. HeadOK(g)
    BY <2>2, <2>5, <2>7 DEF HeadOK
  <2> QED
    BY <2>3, <2>7, <2>8
<1> HIDE DEF h
<1>4. \A d \in Dev : HeadOK(h[d])
  BY <1>2, <1>3 DEF HeadsOK
<1>5. \A d \in Dev : h[d].at = heads[d].at /\ h[d].told = heads[d].told
                     /\ h[d].modes = heads[d].modes
  BY <1>2, <1>3
<1> QED
  BY <1>1, <1>2, <1>4, <1>5 DEF HeadsOK, h

LEMMA AppliesMoves ==
    ASSUME ~Mute, HeadsOK(heads), IsSeq(wire), NEW c, Written(c), c.id \in Nat, Applies(c)
    PROVE  \E q : Moves(q, heads') /\ wire' = wire \o q
<1> DEFINE h == Configured(c)
           f == [d \in Dev |-> If(d \in There, News(d, h[d]))]
           F == FlattenSeq(f)
           e == Event("applied", c.id, None)
           E == <<e>>
           q == F \o E
<1>1. heads' = h /\ wire' = (wire \o F) \o E /\ Possible(c)
  BY DEF Applies
<1>2. /\ HeadsOK(h)
      /\ \A d \in Dev \ There : h[d] = heads[d]
      /\ \A d \in Dev : h[d].at = heads[d].at /\ h[d].told = heads[d].told
                        /\ h[d].modes = heads[d].modes
  BY <1>1, ConfiguredIs
<1> HIDE DEF h
<1>3. f = [d \in Dev |-> f[d]]
  OBVIOUS
<1>4. ASSUME NEW d \in Dev
      PROVE  f[d] \in Seq(Events) /\ Own(d, f[d]) /\ Plain(f[d]) /\ Leading(d, f[d], h)
  <2>1. HeadOK(heads[d]) /\ HeadOK(h[d])
    BY <1>2 DEF HeadsOK
  <2>2. f[d] = If(d \in There, News(d, h[d]))
    OBVIOUS
  <2> HIDE DEF f
  <2>3. Own(d, f[d]) /\ Plain(f[d])
    BY <2>2, OwnNews, PlainNews, OwnIf, PlainIf
  <2>4. CASE d \in There
    <3>1. f[d] = News(d, h[d]) /\ heads[d].at = "there"
      BY <2>2, <2>4 DEF If, There
    <3>2. h[d].at = "there" /\ h[d].told = heads[d].told /\ h[d].modes = heads[d].modes
      BY <1>2, <3>1
    <3>3. News(d, h[d]) \in Seq(Events)
          /\ Leads(d, News(d, h[d]), Held(heads[d]), Between(heads[d], h[d]), Held(h[d]))
      BY <2>1, <3>1, <3>2, NewsLeads
    <3> QED
      BY <2>3, <3>1, <3>3 DEF Leading
  <2>5. CASE d \notin There
    <3>1. f[d] = << >> /\ h[d] = heads[d]
      BY <1>2, <2>2, <2>5 DEF If
    <3>2. << >> \in Seq(Events)
          /\ Leads(d, << >>, Held(heads[d]), Between(heads[d], h[d]), Held(h[d]))
      BY <2>1, <3>1, SilentLeads
    <3> QED
      BY <2>3, <3>1, <3>2 DEF Leading
  <2> QED
    BY <2>4, <2>5
<1>5. IsSeq(f) /\ \A j \in 1..Len(f) : Plain(f[j])
  <2> HIDE DEF f
  <2> QED
    BY <1>3, <1>4, PerDevice, DevsAre
<1> HIDE DEF f
<1>6. Tells(F, h)
  BY <1>2, <1>3, <1>4, TellsEach
<1>7. Plain(F)
  BY <1>5, PlainFlat
<1>8. e \in Events
  BY DEF Event, Events
<1>9. Nobody(E) /\ Plain(E) /\ IsSeq(E)
  BY NobodyOne, PlainOne, OneLong DEF Deciding
<1> HIDE DEF e
<1>10. E \in Seq(Events)
  BY <1>8
<1> HIDE DEF E, F
<1>11. Tells(q, h) /\ Plain(q)
  BY <1>6, <1>7, <1>9, <1>10, TellsMore, PlainJoined
<1>12. wire' = wire \o q
  BY <1>1, <1>7, <1>9, Associates DEF Plain
<1> HIDE DEF q
<1>13. Moves(q, h)
  BY <1>2, <1>11, MovesPlain
<1> QED
  BY <1>1, <1>12, <1>13

LEMMA RefusesMoves ==
    ASSUME ~Mute, HeadsOK(heads), IsSeq(wire), NEW c, c.id \in Nat, Refuses(c)
    PROVE  \E q : Moves(q, heads) /\ wire' = wire \o q /\ UNCHANGED heads /\ hist'.seen = hist.seen
<1>1. PICK why \in {None, c.id} :
          /\ hist' = [hist EXCEPT !.fate[c.id] = [is |-> "failed", why |-> why]]
          /\ wire' = (wire \o If(why # None, <<Event("failure_reason", c.id, why)>>))
                     \o <<Event("failed", c.id, None)>>
          /\ UNCHANGED heads
  BY DEF Refuses
<1> DEFINE r == Event("failure_reason", c.id, why)
           R == <<r>>
           F == If(why # None, R)
           e == Event("failed", c.id, None)
           E == <<e>>
           q == F \o E
<1>2. hist'.seen = hist.seen
  BY <1>1
<1>3. e \in Events /\ (why # None => r \in Events)
  BY DEF Event, Events
<1>4. Nobody(R) /\ Plain(R) /\ Nobody(E) /\ Plain(E) /\ IsSeq(E)
  BY NobodyOne, PlainOne, OneLong DEF Deciding
<1>5. wire' = (wire \o F) \o E
  BY <1>1
<1>6. E \in Seq(Events) /\ (why # None => R \in Seq(Events))
  <2> HIDE DEF e, r
  <2> QED
    BY <1>3
<1> HIDE DEF R, E
<1>7. F \in Seq(Events)
  <2>1. << >> \in Seq(Events)
    OBVIOUS
  <2> QED
    BY <1>6, <2>1 DEF If
<1>8. Nobody(F) /\ Plain(F)
  BY <1>4, NobodyIf, PlainIf
<1> HIDE DEF F
<1>9. wire' = wire \o q
  BY <1>4, <1>5, <1>8, Associates DEF Plain
<1>10. q \in Seq(Events)
  BY <1>6, <1>7
<1>11. Nobody(q) /\ Plain(q)
  BY <1>4, <1>8, NobodyJoined, PlainJoined
<1> HIDE DEF q
<1> QED
  BY <1>1, <1>2, <1>9, <1>10, <1>11, StillMoves

-----------------------------------------------------------------------------
(* KWin's answers.                                                         *)
ToldNow(h, D, what) ==
    h = [d \in Dev |-> [heads[d] EXCEPT !.told = IF d \in D THEN what ELSE @]]

LEMMA ToldIs ==
    ASSUME HeadsOK(heads), NEW D, NEW what \in {"offered", "described"},
           NEW h, ToldNow(h, D, what)
    PROVE  /\ HeadsOK(h)
           /\ \A d \in Dev \ D : h[d] = heads[d]
           /\ \A d \in Dev \cap D :
                 /\ h[d].told = what /\ h[d].at = heads[d].at /\ h[d].on = heads[d].on
                 /\ h[d].place = heads[d].place /\ h[d].mode = heads[d].mode
                 /\ h[d].modes = heads[d].modes
           /\ \A d \in Dev : Met(heads[d]) => Met(h[d])
<1>1. ASSUME NEW d \in Dev
      PROVE  /\ HeadOK(h[d])
             /\ d \notin D => h[d] = heads[d]
             /\ d \in D => /\ h[d].told = what /\ h[d].at = heads[d].at /\ h[d].on = heads[d].on
                           /\ h[d].place = heads[d].place /\ h[d].mode = heads[d].mode
                           /\ h[d].modes = heads[d].modes
  <2>1. HeadOK(heads[d])
    BY DEF HeadsOK
  <2>2. h[d] = [heads[d] EXCEPT !.told = IF d \in D THEN what ELSE @]
    BY DEF ToldNow
  <2> QED
    BY <2>1, <2>2 DEF HeadOK, HeadType
<1>2. h = [d \in Dev |-> h[d]]
  BY DEF ToldNow
<1>3. HeadsOK(h)
  BY <1>1, <1>2 DEF HeadsOK
<1>4. \A d \in Dev : Met(heads[d]) => Met(h[d])
  BY <1>1 DEF Met
<1> QED
  BY <1>1, <1>3, <1>4

LEMMA GlobalsTell ==
    ASSUME ~Mute, HeadsOK(heads), IsSeq(wire), \A d \in Dev : heads[d].told = "no",
           NEW r, AnswerGlobals(r)
    PROVE  \E q : /\ Tells(q, heads') /\ Meets(q, heads') /\ Unsynced(q) /\ wire' = wire \o q
<1> DEFINE old == IF kwin.legacy THEN There ELSE {}
           one == Event("manager", None, None)
           two == Event("registry", None, None)
           a == If("manager" \in kwin.globals, <<one>>)
           b == If("registry" \in kwin.globals, <<two>>)
           f == [d \in Dev |-> If(d \in old, <<Event("global", d, None)>>)]
           F == FlattenSeq(f)
           p == a \o b
           q == p \o F
           h == [d \in Dev |-> [heads[d] EXCEPT !.told = IF d \in old THEN "offered" ELSE @]]
<1>1. heads' = h /\ wire' = ((wire \o a) \o b) \o F
  BY DEF AnswerGlobals, KwinHas
<1>3. old \subseteq There
  OBVIOUS
<1> HIDE DEF old
<1>4. f = [d \in Dev |-> f[d]]
  OBVIOUS
<1>18. ToldNow(h, old, "offered")
  BY DEF ToldNow
<1> HIDE DEF h
<1>5. /\ HeadsOK(h)
      /\ \A d \in Dev \ old : h[d] = heads[d]
      /\ \A d \in Dev \cap old : h[d].told = "offered" /\ h[d].at = heads[d].at
      /\ \A d \in Dev : Met(heads[d]) => Met(h[d])
  <2> HIDE DEF f, F, p, q, a, b, one, two
  <2>1. /\ HeadsOK(h)
        /\ \A d \in Dev \ old : h[d] = heads[d]
        /\ \A d \in Dev \cap old :
              /\ h[d].told = "offered" /\ h[d].at = heads[d].at /\ h[d].on = heads[d].on
              /\ h[d].place = heads[d].place /\ h[d].mode = heads[d].mode
              /\ h[d].modes = heads[d].modes
        /\ \A d \in Dev : Met(heads[d]) => Met(h[d])
    BY <1>18, ToldIs
  <2> QED
    BY <2>1
<1>6. ASSUME NEW d \in Dev
      PROVE  /\ f[d] \in Seq(Events) /\ Own(d, f[d]) /\ Leading(d, f[d], h)
             /\ \A i \in 1..Len(f[d]) : f[d][i].ev # "synced" /\ f[d][i].of = d /\ d \in old
  <2>1. HeadOK(heads[d]) /\ HeadOK(h[d])
    BY <1>5 DEF HeadsOK
  <2>2. f[d] = If(d \in old, <<Event("global", d, None)>>)
    OBVIOUS
  <2> HIDE DEF f
  <2>3. Own(d, f[d])
    BY <2>2, OwnOne, OwnIf
  <2>4. CASE d \in old
    <3>1. f[d] = <<Event("global", d, None)>> /\ h[d].at = "there" /\ h[d].told = "offered"
          /\ heads[d].told = "no"
      BY <1>3, <1>5, <2>2, <2>4 DEF If, There
    <3>2. /\ <<Event("global", d, None)>> \in Seq(Events)
          /\ Leads(d, <<Event("global", d, None)>>, Held(heads[d]), Between(heads[d], h[d]),
                   Held(h[d]))
      BY <2>1, <3>1, OfferLeads
    <3>3. \A i \in 1..Len(f[d]) : f[d][i].ev # "synced" /\ f[d][i].of = d
      BY <3>1, OneLong DEF Event
    <3> QED
      BY <2>3, <2>4, <3>1, <3>2, <3>3 DEF Leading
  <2>5. CASE d \notin old
    <3>1. f[d] = << >> /\ h[d] = heads[d]
      BY <1>5, <2>2, <2>5 DEF If
    <3>2. << >> \in Seq(Events)
          /\ Leads(d, << >>, Held(heads[d]), Between(heads[d], h[d]), Held(h[d]))
      BY <2>1, <3>1, SilentLeads
    <3>3. \A i \in 1..Len(f[d]) : FALSE
      BY <3>1, Nothing
    <3> QED
      BY <2>3, <3>1, <3>2, <3>3 DEF Leading
  <2> QED
    BY <2>4, <2>5
<1>7. Dev = 1..Len(f) /\ IsSeq(f) /\ \A j \in 1..Len(f) : IsSeq(f[j])
  <2> HIDE DEF f
  <2>1. IsSeq(f) /\ Len(f) = Len(Connector)
    BY <1>4, PerDevice
  <2> QED
    BY <1>6, <2>1, DevsAre, SeqIs
<1> HIDE DEF f
<1>8. Tells(F, h)
  BY <1>4, <1>5, <1>6, TellsEach
<1>9. one \in Events /\ two \in Events
  BY DEF Event, Events, GlobalEvents
<1>10. Nobody(<<one>>) /\ Nobody(<<two>>) /\ Plain(<<one>>) /\ Plain(<<two>>)
  BY NobodyOne, PlainOne DEF GlobalEvents
<1> HIDE DEF one, two
<1>11. a \in Seq(Events) /\ b \in Seq(Events)
  <2>1. <<one>> \in Seq(Events) /\ <<two>> \in Seq(Events) /\ << >> \in Seq(Events)
    BY <1>9
  <2> QED
    BY <2>1 DEF If
<1>12. Nobody(a) /\ Nobody(b) /\ Plain(a) /\ Plain(b)
  BY <1>10, NobodyIf, PlainIf
<1> HIDE DEF a, b
<1>13. p \in Seq(Events) /\ Nobody(p) /\ Plain(p)
  BY <1>11, <1>12, NobodyJoined, PlainJoined
<1>14. IsSeq(F) /\ \A i \in 1..Len(F) : F[i].ev # "synced" /\ Met(h[F[i].of])
  <2>1. \A x \in old : Met(h[x])
    BY <1>3, <1>5 DEF Met, There
  <2>2. IsSeq(F) /\ \A i \in 1..Len(F) : \E j \in 1..Len(f) : \E k \in 1..Len(f[j]) : F[i] = f[j][k]
    BY <1>7, FlattenHas
  <2> HIDE DEF F
  <2>3. ASSUME NEW i \in 1..Len(F) PROVE F[i].ev # "synced" /\ Met(h[F[i].of])
    <3>1. PICK j \in 1..Len(f) : \E k \in 1..Len(f[j]) : F[i] = f[j][k]
      BY <2>2
    <3>2. PICK k \in 1..Len(f[j]) : F[i] = f[j][k]
      BY <3>1
    <3>3. j \in Dev
      BY <1>7
    <3>4. f[j][k].ev # "synced" /\ f[j][k].of = j /\ j \in old
      BY <1>6, <3>3
    <3> QED
      BY <2>1, <3>2, <3>4
  <2> QED
    BY <2>2, <2>3
<1>15. wire' = wire \o q
  <2> HIDE DEF F
  <2>1. IsSeq(a) /\ IsSeq(b) /\ IsSeq(p)
    BY <1>12, <1>13 DEF Plain
  <2>2. (wire \o a) \o b = wire \o p
    BY <2>1, Associates
  <2>3. wire' = (wire \o p) \o F
    BY <1>1, <2>2
  <2> HIDE DEF p
  <2> QED
    BY <1>14, <2>1, <2>3, Associates
<1> HIDE DEF F, p
<1>16. Tells(q, h)
  BY <1>8, <1>13, TellsMore
<1>17. \A i \in 1..Len(q) : q[i].ev # "synced" /\ (q[i].ev = "global" => Met(h[q[i].of]))
  <2>1. IsSeq(p) /\ IsSeq(F)
    BY <1>13, <1>14 DEF Plain
  <2> SUFFICES ASSUME NEW i \in 1..Len(q)
               PROVE  q[i].ev # "synced" /\ (q[i].ev = "global" => Met(h[q[i].of]))
    OBVIOUS
  <2>2. CASE i \in 1..Len(p)
    BY <1>13, <2>1, <2>2, Joined DEF Plain
  <2>3. CASE i \notin 1..Len(p)
    <3>1. q[i] = F[i - Len(p)] /\ i - Len(p) \in 1..Len(F)
      BY <2>1, <2>3, Joined
    <3> QED
      BY <1>14, <3>1
  <2> QED
    BY <2>2, <2>3
<1> HIDE DEF q
<1> QED
  BY <1>1, <1>5, <1>15, <1>16, <1>17 DEF Meets, Unsynced

LEMMA RegistryTells ==
    ASSUME ~Mute, HeadsOK(heads), IsSeq(wire), NEW r, AnswerBindRegistry(r)
    PROVE  \E q : /\ Tells(q, heads') /\ Meets(q, heads') /\ Unsynced(q) /\ wire' = wire \o q
<1> DEFINE out(d) == <<Event("output", d, None)>>
           f == [d \in Dev |-> If(d \in There, out(d) \o Burst(d))]
           F == FlattenSeq(f)
           h == [d \in Dev |-> [heads[d] EXCEPT !.told = IF d \in There THEN "described" ELSE @]]
<1>1. heads' = h /\ wire' = wire \o F
  BY DEF AnswerBindRegistry, Described, KwinHas
<1>2. f = [d \in Dev |-> f[d]] /\ ToldNow(h, There, "described")
  BY DEF ToldNow
<1> HIDE DEF h
<1>3. /\ HeadsOK(h)
      /\ \A d \in Dev \ There : h[d] = heads[d]
      /\ \A d \in Dev \cap There :
            /\ h[d].told = "described" /\ h[d].at = heads[d].at /\ h[d].on = heads[d].on
            /\ h[d].place = heads[d].place /\ h[d].mode = heads[d].mode
            /\ h[d].modes = heads[d].modes
      /\ \A d \in Dev : Met(heads[d]) => Met(h[d])
  BY <1>2, ToldIs
<1>4. ASSUME NEW d \in Dev
      PROVE  f[d] \in Seq(Events) /\ Own(d, f[d]) /\ Plain(f[d]) /\ Leading(d, f[d], h)
  <2>1. HeadOK(heads[d]) /\ HeadOK(h[d])
    BY <1>3 DEF HeadsOK
  <2>2. f[d] = If(d \in There, out(d) \o Burst(d))
    OBVIOUS
  <2> HIDE DEF f
  <2>3. Own(d, f[d]) /\ Plain(f[d])
    <3>1. Own(d, out(d)) /\ Own(d, Burst(d)) /\ Plain(out(d)) /\ Plain(Burst(d))
      BY <2>1, OwnOne, OwnBurst, PlainOne, PlainBurst
    <3> HIDE DEF out
    <3> QED
      BY <2>2, <3>1, OwnJoined, PlainJoined, OwnIf, PlainIf
  <2>4. CASE d \in There
    <3>1. f[d] = out(d) \o Burst(d)
      BY <2>2, <2>4 DEF If
    <3>2. Redescribed(heads[d], h[d])
      BY <1>3, <2>1, <2>4 DEF Redescribed, There
    <3>3. out(d) \o Burst(d) \in Seq(Events)
          /\ Leads(d, out(d) \o Burst(d), Held(heads[d]), Between(heads[d], h[d]), Held(h[d]))
      BY <2>1, <3>2, ComesLeads
    <3> QED
      BY <2>3, <3>1, <3>3 DEF Leading
  <2>5. CASE d \notin There
    <3>1. f[d] = << >> /\ h[d] = heads[d]
      BY <1>3, <2>2, <2>5 DEF If
    <3>2. << >> \in Seq(Events)
          /\ Leads(d, << >>, Held(heads[d]), Between(heads[d], h[d]), Held(h[d]))
      BY <2>1, <3>1, SilentLeads
    <3> QED
      BY <2>3, <3>1, <3>2 DEF Leading
  <2> QED
    BY <2>4, <2>5
<1>5. IsSeq(f) /\ \A j \in 1..Len(f) : Plain(f[j])
  <2> HIDE DEF f
  <2> QED
    BY <1>2, <1>4, PerDevice, DevsAre
<1> HIDE DEF f
<1>6. Tells(F, h) /\ Plain(F)
  BY <1>2, <1>3, <1>4, <1>5, TellsEach, PlainFlat
<1> HIDE DEF F
<1>7. Meets(F, h) /\ Unsynced(F)
  BY <1>3, <1>6 DEF Meets, Unsynced, Plain
<1> QED
  BY <1>1, <1>6, <1>7

LEMMA DeviceTells ==
    ASSUME ~Mute, HeadsOK(heads), IsSeq(wire), NEW r, r.of \in Dev, Met(heads[r.of]),
           AnswerBindDevice(r)
    PROVE  \E q : /\ Tells(q, heads') /\ Meets(q, heads') /\ Unsynced(q) /\ wire' = wire \o q
<1> DEFINE d == r.of
           D == {d} \cap There
           q == If(d \in There, Burst(d))
           h == [c \in Dev |-> [heads[c] EXCEPT !.told = IF c \in D THEN "described" ELSE @]]
<1>1. heads' = h /\ wire' = wire \o q
  BY DEF AnswerBindDevice, Described, KwinHas
<1>2. ToldNow(h, D, "described")
  BY DEF ToldNow
<1> HIDE DEF h
<1>3. /\ HeadsOK(h)
      /\ \A c \in Dev \ D : h[c] = heads[c]
      /\ \A c \in Dev \cap D :
            /\ h[c].told = "described" /\ h[c].at = heads[c].at /\ h[c].on = heads[c].on
            /\ h[c].place = heads[c].place /\ h[c].mode = heads[c].mode
            /\ h[c].modes = heads[c].modes
      /\ \A c \in Dev : Met(heads[c]) => Met(h[c])
  <2> HIDE DEF D
  <2> QED
    BY <1>2, ToldIs
<1>4. HeadOK(heads[d]) /\ HeadOK(h[d])
  BY <1>3 DEF HeadsOK
<1>5. CASE d \in There
  <2>1. q = Burst(d) /\ heads[d].at = "there" /\ heads[d].told # "no"
    BY <1>5 DEF If, There, Met
  <2>2. Redescribed(heads[d], h[d])
    BY <1>3, <1>4, <1>5, <2>1 DEF Redescribed
  <2>3. h = [heads EXCEPT ![d] = h[d]]
    <3>1. heads = [c \in Dev |-> heads[c]] /\ h = [c \in Dev |-> h[c]]
      BY <1>3 DEF HeadsOK
    <3>2. \A c \in Dev : c # d => h[c] = heads[c]
      BY <1>3
    <3> HIDE DEF d, D
    <3> QED
      BY <3>1, <3>2
  <2> HIDE DEF d, q, D
  <2>4. d \in Dev
    BY DEF d
  <2>5. q \in Seq(Events) /\ Leads(d, q, Held(heads[d]), Between(heads[d], h[d]), Held(h[d]))
    BY <1>4, <2>1, <2>2, <2>4, BoundLeads
  <2>6. Own(d, q) /\ Plain(q)
    BY <1>4, <2>1, <2>4, OwnBurst, PlainBurst
  <2>7. Tells(q, h)
    <3> DEFINE g == h[d]
    <3>1. h = [heads EXCEPT ![d] = g] /\ HeadOK(g)
          /\ Leads(d, q, Held(heads[d]), Between(heads[d], g), Held(g))
      BY <1>4, <2>3, <2>5
    <3> HIDE DEF g
    <3> QED
      BY <2>4, <2>5, <2>6, <3>1, TellsOne
  <2>8. Meets(q, h) /\ Unsynced(q)
    BY <1>3, <2>6 DEF Meets, Unsynced, Plain
  <2> QED
    BY <1>1, <2>7, <2>8
<1>6. CASE d \notin There
  <2>1. q = << >>
    BY <1>6 DEF If
  <2>2. h = heads
    <3>1. heads = [c \in Dev |-> heads[c]] /\ h = [c \in Dev |-> h[c]]
      BY <1>3 DEF HeadsOK
    <3>2. \A c \in Dev : h[c] = heads[c]
      BY <1>3, <1>6
    <3> HIDE DEF d, D
    <3> QED
      BY <3>1, <3>2
  <2>3. << >> \in Seq(Events)
    OBVIOUS
  <2>4. Moves(q, heads)
    BY <2>1, <2>3, NobodyNone, PlainNone, StillMoves
  <2> QED
    BY <1>1, <2>2, <2>4 DEF Moves
<1> QED
  BY <1>5, <1>6

LEMMA SyncTells ==
    ASSUME ~Mute, HeadsOK(heads), IsSeq(wire), NEW r, AnswerSync(r)
    PROVE  LET q == <<Event("synced", None, None)>> IN
           /\ Tells(q, heads) /\ Meets(q, heads) /\ wire' = wire \o q
<1> DEFINE e == Event("synced", None, None)
           q == <<e>>
<1>1. e \in Events /\ e.ev = "synced"
  BY DEF Event, Events, GlobalEvents
<1>2. wire' = wire \o q
  <2>1. wire' = Append(wire, e)
    BY DEF AnswerSync
  <2> HIDE DEF e
  <2>2. wire \in Seq({wire[i] : i \in DOMAIN wire} \cup {e})
    <3>1. Len(wire) \in Nat /\ wire \in [1..Len(wire) -> {wire[i] : i \in DOMAIN wire} \cup {e}]
      BY SeqHas
    <3> QED
      BY <3>1
  <2> QED
    BY <2>1, <2>2
<1>3. Nobody(q)
  BY NobodyOne DEF GlobalEvents
<1> HIDE DEF e
<1>4. q \in Seq(Events)
  BY <1>1
<1>5. Tells(q, heads)
  BY <1>3, <1>4, TellsNobody
<1>6. Meets(q, heads)
  BY <1>1, OneLong DEF Meets
<1> QED
  BY <1>2, <1>5, <1>6 DEF q, e

-----------------------------------------------------------------------------
(* The invariant.                                                          *)
Typed == HeadsOK(heads) /\ st \in States /\ wire \in Seq(Events)

(* With what is under way the State has of each output what KWin has told. *)
InStep == \A d \in Dev : View(After(st, wire), d) \in Held(heads[d])

(* KWin tells nothing before the client has asked for the globals, once.   *)
Unasked ==
    /\ \A i \in 1..Len(req) : req[i].do = "globals" => i = 1
    /\ me.at = "off" => req = << >>
    /\ me.at = "off" \/ (\E i \in 1..Len(req) : req[i].do = "globals") =>
          ~kwin.listening /\ ~kwin.bound /\ \A d \in Dev : heads[d].told = "no"

(* The client binds what it is told of.                                    *)
OnWire == \A i \in 1..Len(wire) : wire[i].ev = "global" => Met(heads[wire[i].of])
OnFile == \A i \in 1..Len(req) : req[i].do = "bind_device" =>
              req[i].of \in Dev /\ Met(heads[req[i].of])

(* Configurations and plans.                                               *)
Plan(p) == \A n \in DOMAIN p.en : p.en[n].place \in Place \cup {None}
Writes ==
    /\ \A i \in 1..Len(req) : req[i].do = "apply" => Written(req[i].of)
    /\ \A c \in inbox : Written(c)
    /\ IsSeq(me.todo) /\ \A i \in 1..Len(me.todo) : Plan(me.todo[i])
    /\ me.then \in {"refresh", "verdict"} => Len(me.todo) > 0 /\ me.call = "apply"

(* There is one sync at a time, and none between the round trips.          *)
NoSync == Unsynced(wire) /\ \A i \in 1..Len(req) : req[i].do # "sync"
OneSync ==
    /\ \A i, j \in 1..Len(req) : req[i].do = "sync" /\ req[j].do = "sync" => i = j
    /\ ~Unsynced(wire) => \A i \in 1..Len(req) : req[i].do # "sync"
    /\ me.at \in {"off", "idle", "sleep"} \/ (me.at = "wait" /\ me.synced) => NoSync

(* A snapshot under way: what it would show, wherever its round trip ends, *)
(* KWin has told of since it began.                                        *)
Ripe(n) == me.synced \/ \E i \in 1..n : wire[i].ev = "synced"
Witnessed(S, x) == x \in S \/ \E a, b \in S \ {Absent} : a # b
Noting ==
    me.then = "snapshot" => \A d \in Dev :
        /\ IsFiniteSet(hist.seen[d])
        /\ Told(heads[d]) \in hist.seen[d]
        /\ \A n \in 0..Len(wire) : Ripe(n) =>
              Witnessed(hist.seen[d], Shows(View(At(st, wire, n), d)))

SInv == /\ Typed /\ InStep /\ Unasked /\ OnWire /\ OnFile /\ Writes /\ OneSync /\ Noting
        /\ SnapshotFresh

-----------------------------------------------------------------------------
(* KWin says q, and has told then of heads'.                               *)
LEMMA WitnessedMore ==
    ASSUME NEW S, NEW T, S \subseteq T, NEW x, Witnessed(S, x)
    PROVE  Witnessed(T, x)
BY DEF Witnessed

LEMMA ToldKept ==
    ASSUME Typed, InStep, OnWire, NEW q, Tells(q, heads'), Meets(q, heads'), wire' = wire \o q,
           st' = st
    PROVE  Typed' /\ InStep' /\ OnWire'
<1>1. q \in Seq(Events) /\ wire \in Seq(Events) /\ st \in States /\ HeadsOK(heads')
      /\ \A d \in Dev : Leading(d, q, heads')
  BY DEF Typed, Tells
<1>2. wire' \in Seq(Events) /\ IsSeq(wire) /\ IsSeq(q) /\ After(st, wire) \in States
  <2>1. wire \o q \in Seq(Events)
    BY <1>1
  <2> QED
    BY <1>1, <2>1, AtTyped
<1>3. Typed'
  BY <1>1, <1>2 DEF Typed
<1>4. ASSUME NEW d \in Dev PROVE View(After(st', wire'), d) \in Held(heads'[d])
  <2>1. After(st', wire') = After(After(st, wire), q)
    BY <1>2, AtJoined
  <2>2. View(After(st, wire), d) \in Held(heads[d])
    BY DEF InStep
  <2>3. Leads(d, q, Held(heads[d]), Between(heads[d], heads'[d]), Held(heads'[d]))
    BY <1>1 DEF Leading
  <2> QED
    BY <1>2, <2>1, <2>2, <2>3 DEF Leads
<1>5. OnWire'
  <2> SUFFICES ASSUME NEW i \in 1..Len(wire'), wire'[i].ev = "global"
               PROVE  Met(heads'[wire'[i].of])
    BY DEF OnWire
  <2>1. CASE i \in 1..Len(wire)
    <3>1. wire'[i] = wire[i] /\ wire[i] \in Events
      BY <1>1, <1>2, <2>1, Joined
    <3>2. Met(heads[wire[i].of]) /\ wire[i].of \in Dev
      BY <2>1, <3>1 DEF OnWire, Events, GlobalEvents, PlainEvents, ModeEvents
    <3> QED
      BY <3>1, <3>2 DEF Meets
  <2>2. CASE i \notin 1..Len(wire)
    BY <1>2, <2>2, Joined DEF Meets
  <2> QED
    BY <2>1, <2>2
<1> QED
  BY <1>3, <1>4, <1>5 DEF InStep

LEMMA NotedKept ==
    ASSUME Typed, InStep, Noting, NEW q, Tells(q, heads'), wire' = wire \o q, st' = st, me' = me,
           me.then = "snapshot" =>
               \A d \in Dev : hist'.seen[d] = hist.seen[d] \cup {Told(heads'[d])}
    PROVE  Noting'
<1> SUFFICES ASSUME me.then = "snapshot", NEW d \in Dev
             PROVE  /\ IsFiniteSet(hist'.seen[d])
                    /\ Told(heads'[d]) \in hist'.seen[d]
                    /\ \A n \in 0..Len(wire') : Ripe(n)' =>
                          Witnessed(hist'.seen[d], Shows(View(At(st', wire', n), d)))
  BY DEF Noting
<1> DEFINE S == hist.seen[d]
           T == hist'.seen[d]
<1>1. T = S \cup {Told(heads'[d])} /\ IsFiniteSet(S) /\ Told(heads[d]) \in S
  BY DEF Noting
<1>2. IsFiniteSet(T)
  <2> HIDE DEF T, S
  <2> QED
    BY <1>1, FS_AddElement
<1>3. /\ IsSeq(wire) /\ IsSeq(q) /\ q \in Seq(Events) /\ Len(wire) \in Nat /\ Len(q) \in Nat
      /\ Len(wire') = Len(wire) + Len(q) /\ After(st, wire) \in States
  BY AtTyped, SeqIs, SeqHas, Joined DEF Typed, Tells
<1>4. ASSUME NEW n \in 0..Len(wire'), Ripe(n)'
      PROVE  Witnessed(T, Shows(View(At(st', wire', n), d)))
  <2>1. CASE n \in 0..Len(wire) /\ Ripe(n)
    <3>1. At(st', wire', n) = At(st, wire, n)
      BY <1>3, <2>1, AtJoined
    <3>2. Witnessed(S, Shows(View(At(st, wire, n), d)))
      BY <2>1 DEF Noting
    <3> HIDE DEF S, T
    <3> QED
      BY <1>1, <3>1, <3>2, WitnessedMore
  <2>2. CASE n \notin 0..Len(wire)
    <3> DEFINE k == n - Len(wire)
               v == View(At(After(st, wire), q, k), d)
    <3>1. k \in 0..Len(q) /\ n = Len(wire) + k
      BY <1>3, <2>2
    <3>2. At(st', wire', n) = At(After(st, wire), q, k)
      BY <1>3, <3>1, AtJoined
    <3>3. v \in Between(heads[d], heads'[d])
      <4>1. View(After(st, wire), d) \in Held(heads[d])
        BY DEF InStep
      <4>2. Leads(d, q, Held(heads[d]), Between(heads[d], heads'[d]), Held(heads'[d]))
        BY DEF Tells, Leading
      <4> QED
        BY <1>3, <3>1, <4>1, <4>2 DEF Leads
    <3> HIDE DEF v, k, S, T
    <3>4. Shows(v) \in T \/ (Absent \notin {Told(heads[d]), Told(heads'[d])}
                             /\ Told(heads[d]) # Told(heads'[d]))
      BY <1>1, <3>3 DEF Between
    <3>5. Told(heads[d]) \in T /\ Told(heads'[d]) \in T
      BY <1>1
    <3>6. Witnessed(T, Shows(v))
      BY <3>4, <3>5 DEF Witnessed
    <3> QED
      BY <3>2, <3>6 DEF v
  <2>3. n \in 0..Len(wire) => Ripe(n)
    <3> SUFFICES ASSUME n \in 0..Len(wire) PROVE Ripe(n)
      OBVIOUS
    <3>1. \A i \in 1..n : wire'[i] = wire[i]
      BY <1>3, Joined
    <3> QED
      BY <1>4, <3>1 DEF Ripe
  <2> QED
    BY <2>1, <2>2, <2>3
<1> QED
  BY <1>1, <1>2, <1>4

(* It says so between two requests.                                        *)
LEMMA MovesKept ==
    ASSUME VInv, SInv, NEW q, Moves(q, heads'), wire' = wire \o q, st' = st, me' = me, req' = req,
           inbox' \subseteq inbox, kwin'.listening = kwin.listening, kwin'.bound = kwin.bound,
           hist'.seen = Seen(heads') \/ (heads' = heads /\ hist'.seen = hist.seen)
    PROVE  SInv'
<1>1. Tells(q, heads') /\ Meets(q, heads') /\ Unsynced(q) /\ Waits(heads')
  BY DEF Moves
<1>2. Typed' /\ InStep' /\ OnWire'
  BY <1>1, ToldKept DEF SInv
<1>3. me.then = "snapshot" => \A d \in Dev : hist'.seen[d] = hist.seen[d] \cup {Told(heads'[d])}
  <2>1. CASE hist'.seen = Seen(heads')
    BY <2>1 DEF Seen
  <2>2. CASE heads' = heads /\ hist'.seen = hist.seen
    BY <2>2 DEF SInv, Noting
  <2> QED
    BY <2>1, <2>2
<1>4. Noting'
  BY <1>1, <1>3, NotedKept DEF SInv
<1>5. Unasked'
  BY <1>1 DEF SInv, Unasked, Waits
<1>6. OnFile'
  BY <1>1 DEF SInv, OnFile, Meets
<1>7. Writes'
  BY DEF SInv, Writes
<1>8. Unsynced(wire)' <=> Unsynced(wire)
  <2>1. IsSeq(wire) /\ IsSeq(q)
    BY <1>1, SeqIs DEF SInv, Typed, Tells
  <2>2. Len(wire') = Len(wire) + Len(q) /\ Len(wire) \in Nat /\ Len(q) \in Nat
    BY <2>1, Joined, SeqHas
  <2>3. \A i \in 1..Len(wire) : i \in 1..Len(wire') /\ wire'[i] = wire[i]
    BY <2>1, <2>2, Joined
  <2>4. \A i \in 1..Len(wire') : i \notin 1..Len(wire) => wire'[i].ev # "synced"
    BY <1>1, <2>1, Joined DEF Unsynced
  <2> QED
    BY <2>3, <2>4 DEF Unsynced
<1>9. OneSync'
  BY <1>8 DEF SInv, OneSync, NoSync
<1>10. SnapshotFresh'
  <2>1. me.out = "ok" => me.then # "snapshot"
    BY NoneIsNothing DEF VInv, Mine
  <2>2. me.out = "ok" => hist'.seen = hist.seen
    BY <2>1 DEF Seen
  <2> QED
    BY <2>2 DEF SInv, SnapshotFresh, InSnapshot
<1> QED
  BY <1>2, <1>4, <1>5, <1>6, <1>7, <1>9, <1>10 DEF SInv

LEMMA OutsideKept == ASSUME ~Mute, VInv, SInv, Outside PROVE SInv'
<1>1. HeadsOK(heads)
  BY DEF SInv, Typed
<1>2. PICK q, h : Moves(q, h) /\ Change(h, q)
                  /\ kwin'.listening = kwin.listening /\ kwin'.bound = kwin.bound
  BY <1>1, OutsideMoves
<1>3. /\ heads' = h /\ wire' = wire \o q /\ st' = st /\ me' = me /\ req' = req /\ inbox' = inbox
      /\ hist' = [hist EXCEPT !.seen = Seen(h), !.alone = FALSE]
  BY <1>2 DEF Change
<1>4. hist'.seen = Seen(h)
  BY <1>3 DEF VInv, Shapes, HistNames
<1> QED
  BY <1>2, <1>3, <1>4, MovesKept

LEMMA VerdictSteps == ASSUME ~Mute, VInv, SInv, Verdict PROVE SInv'
<1>1. PICK c \in inbox : inbox' = inbox \ {c} /\ (Applies(c) \/ Refuses(c))
  BY DEF Verdict
<1>2. req' = req /\ st' = st /\ me' = me /\ kwin' = kwin
  BY DEF Verdict
<1>3. HeadsOK(heads) /\ IsSeq(wire) /\ Written(c) /\ c.id \in Nat /\ DOMAIN hist = HistNames
  BY DEF SInv, Typed, Writes, VInv, Pending, Open, Shapes
<1>4. CASE Applies(c)
  <2>1. PICK q : Moves(q, heads') /\ wire' = wire \o q
    BY <1>3, <1>4, AppliesMoves
  <2>2. hist'.seen = Seen(heads')
    BY <1>3, <1>4 DEF Applies, HistNames
  <2> QED
    BY <1>1, <1>2, <2>1, <2>2, MovesKept
<1>5. CASE Refuses(c)
  <2>1. PICK q : Moves(q, heads) /\ wire' = wire \o q /\ heads' = heads /\ hist'.seen = hist.seen
    BY <1>3, <1>5, RefusesMoves
  <2> QED
    BY <1>1, <1>2, <2>1, MovesKept
<1> QED
  BY <1>1, <1>4, <1>5

-----------------------------------------------------------------------------
(* It says so in answer to a request.                                      *)
LEMMA UnsyncedMore ==
    ASSUME NEW w, NEW q, IsSeq(w), IsSeq(q), Unsynced(q)
    PROVE  Unsynced(w \o q) <=> Unsynced(w)
<1>1. Len(w \o q) = Len(w) + Len(q) /\ Len(w) \in Nat /\ Len(q) \in Nat
  BY Joined, SeqHas
<1>2. \A i \in 1..Len(w) : i \in 1..Len(w \o q) /\ (w \o q)[i] = w[i]
  BY <1>1, Joined
<1>3. \A i \in 1..Len(w \o q) : i \notin 1..Len(w) => (w \o q)[i].ev # "synced"
  BY Joined DEF Unsynced
<1> QED
  BY <1>2, <1>3 DEF Unsynced

LEMMA SeenKept ==
    ASSUME VInv, SInv, me' = me, hist'.seen = Seen(heads')
    PROVE  /\ SnapshotFresh'
           /\ me.then = "snapshot" =>
                \A d \in Dev : hist'.seen[d] = hist.seen[d] \cup {Told(heads'[d])}
<1>1. me.then = "snapshot" => \A d \in Dev : hist'.seen[d] = hist.seen[d] \cup {Told(heads'[d])}
  BY DEF Seen
<1>2. SnapshotFresh'
  <2>1. me.out = "ok" => me.then # "snapshot"
    BY NoneIsNothing DEF VInv, Mine
  <2>2. me.out = "ok" => hist'.seen = hist.seen
    BY <2>1 DEF Seen
  <2> QED
    BY <2>2 DEF SInv, SnapshotFresh, InSnapshot
<1> QED
  BY <1>1, <1>2

LEMMA UnheardKept ==
    ASSUME VInv, SInv, me' = me, heads' = heads, hist'.seen = hist.seen
    PROVE  /\ SnapshotFresh'
           /\ me.then = "snapshot" =>
                \A d \in Dev : hist'.seen[d] = hist.seen[d] \cup {Told(heads'[d])}
BY DEF SInv, SnapshotFresh, InSnapshot, Noting

(* What is common to all answers.                                          *)
LEMMA Served ==
    ASSUME VInv, SInv, Serve, \A d \in Dev : Met(heads[d]) => Met(heads'[d])
    PROVE  /\ Unasked' /\ OnFile'
           /\ inbox' = inbox \/ (Head(req).do = "apply" /\ inbox' = inbox \cup {Head(req).of})
              => Writes'
           /\ Unsynced(wire)' = Unsynced(wire) => OneSync'
           /\ Head(req).do = "sync" => OneSync'
<1>1. req # << >> /\ req' = Tail(req) /\ st' = st /\ me' = me
  BY DEF Serve
<1>2. IsSeq(req)
  BY DEF VInv, Shapes
<1>3. /\ 1 \in 1..Len(req) /\ Head(req) = req[1]
      /\ \A i \in 1..Len(req') : i + 1 \in 1..Len(req) /\ req'[i] = req[i + 1]
  BY <1>1, <1>2, TailHas
<1>4. \A i \in 1..Len(req') : i + 1 # 1 /\ \A j \in 1..Len(req') : i + 1 = j + 1 => i = j
  OBVIOUS
<1>5. Unasked'
  <2>1. me.at # "off"
    BY <1>1 DEF SInv, Unasked
  <2>2. \A i \in 1..Len(req') : req'[i].do # "globals"
    BY <1>3, <1>4 DEF SInv, Unasked
  <2> QED
    BY <1>1, <2>1, <2>2 DEF Unasked
<1>6. OnFile'
  BY <1>3 DEF SInv, OnFile
<1>7. ASSUME inbox' = inbox \/ (Head(req).do = "apply" /\ inbox' = inbox \cup {Head(req).of})
      PROVE  Writes'
  <2>1. \A c \in inbox' : Written(c)
    BY <1>3, <1>7 DEF SInv, Writes
  <2>2. \A i \in 1..Len(req') : req'[i].do = "apply" => Written(req'[i].of)
    BY <1>3 DEF SInv, Writes
  <2> QED
    BY <1>1, <2>1, <2>2 DEF SInv, Writes
<1>8. ASSUME Unsynced(wire)' = Unsynced(wire) PROVE OneSync'
  <2>1. /\ \A i, j \in 1..Len(req') : req'[i].do = "sync" /\ req'[j].do = "sync" => i = j
    BY <1>3, <1>4 DEF SInv, OneSync
  <2>2. (\A i \in 1..Len(req) : req[i].do # "sync") => \A i \in 1..Len(req') : req'[i].do # "sync"
    BY <1>3
  <2> QED
    BY <1>1, <1>8, <2>1, <2>2 DEF SInv, OneSync, NoSync
<1>9. ASSUME Head(req).do = "sync" PROVE OneSync'
  <2>1. \A i \in 1..Len(req') : req'[i].do # "sync"
    BY <1>3, <1>4, <1>9 DEF SInv, OneSync
  <2>2. ~(me.at \in {"off", "idle", "sleep"} \/ (me.at = "wait" /\ me.synced))
    BY <1>3, <1>9 DEF SInv, OneSync, NoSync
  <2> QED
    BY <1>1, <2>1, <2>2 DEF OneSync
<1> QED
  BY <1>5, <1>6, <1>7, <1>8, <1>9

LEMMA ServeSteps == ASSUME ~Mute, VInv, SInv, Serve PROVE SInv'
<1> DEFINE r == Head(req)
<1>1. req # << >> /\ req' = Tail(req) /\ st' = st /\ me' = me
      /\ (AnswerGlobals(r) \/ AnswerBindRegistry(r) \/ AnswerBindDevice(r)
          \/ AnswerSync(r) \/ TakeConfiguration(r))
  BY DEF Serve
<1>2. HeadsOK(heads) /\ IsSeq(wire) /\ DOMAIN hist = HistNames /\ IsSeq(req)
  BY DEF SInv, Typed, VInv, Shapes
<1>3. 1 \in 1..Len(req) /\ r = req[1]
  BY <1>1, <1>2, TailHas
<1> HIDE DEF r
<1>4. ASSUME NEW q, Tells(q, heads'), Meets(q, heads'), Unsynced(q), wire' = wire \o q,
             inbox' = inbox, hist'.seen = Seen(heads')
      PROVE  SInv'
  <2>1. Typed' /\ InStep' /\ OnWire'
    BY <1>1, <1>4, ToldKept DEF SInv
  <2>2. SnapshotFresh'
        /\ (me.then = "snapshot" =>
                \A d \in Dev : hist'.seen[d] = hist.seen[d] \cup {Told(heads'[d])})
    BY <1>1, <1>4, SeenKept
  <2>3. Noting'
    BY <1>1, <1>4, <2>2, NotedKept DEF SInv
  <2>4. IsSeq(q)
    BY <1>4, SeqIs DEF Tells
  <2>5. Unsynced(wire') <=> Unsynced(wire)
    BY <1>2, <1>4, <2>4, UnsyncedMore
  <2>6. Unsynced(wire)' = Unsynced(wire)
    <3>1. Unsynced(wire') \in BOOLEAN /\ Unsynced(wire) \in BOOLEAN
      BY DEF Unsynced
    <3> QED
      BY <2>5, <3>1
  <2>7. Unasked' /\ OnFile' /\ Writes' /\ OneSync'
    BY <1>4, <2>6, Served DEF Meets
  <2> QED
    BY <2>1, <2>2, <2>3, <2>7 DEF SInv
<1>5. ASSUME NEW h, KwinHas(h) PROVE heads' = h /\ hist'.seen = Seen(heads')
  BY <1>2, <1>5 DEF KwinHas, HistNames
<1>6. CASE AnswerGlobals(r)
  <2>1. \A d \in Dev : heads[d].told = "no"
    BY <1>3, <1>6 DEF SInv, Unasked, AnswerGlobals
  <2>2. PICK q : Tells(q, heads') /\ Meets(q, heads') /\ Unsynced(q) /\ wire' = wire \o q
    BY <1>2, <1>6, <2>1, GlobalsTell
  <2>3. hist'.seen = Seen(heads') /\ inbox' = inbox
    BY <1>5, <1>6 DEF AnswerGlobals
  <2> QED
    BY <1>4, <2>2, <2>3
<1>7. CASE AnswerBindRegistry(r)
  <2>1. PICK q : Tells(q, heads') /\ Meets(q, heads') /\ Unsynced(q) /\ wire' = wire \o q
    BY <1>2, <1>7, RegistryTells
  <2>2. hist'.seen = Seen(heads') /\ inbox' = inbox
    BY <1>5, <1>7 DEF AnswerBindRegistry, Described
  <2> QED
    BY <1>4, <2>1, <2>2
<1>8. CASE AnswerBindDevice(r)
  <2>1. r.of \in Dev /\ Met(heads[r.of])
    BY <1>3, <1>8 DEF SInv, OnFile, AnswerBindDevice
  <2>2. PICK q : Tells(q, heads') /\ Meets(q, heads') /\ Unsynced(q) /\ wire' = wire \o q
    BY <1>2, <1>8, <2>1, DeviceTells
  <2>3. hist'.seen = Seen(heads') /\ inbox' = inbox
    BY <1>5, <1>8 DEF AnswerBindDevice, Described
  <2> QED
    BY <1>4, <2>2, <2>3
<1>9. CASE AnswerSync(r)
  <2> DEFINE q == <<Event("synced", None, None)>>
  <2>1. Tells(q, heads) /\ Meets(q, heads) /\ wire' = wire \o q
    BY <1>2, <1>9, SyncTells
  <2> HIDE DEF q
  <2>2. heads' = heads /\ hist' = hist /\ inbox' = inbox /\ r.do = "sync"
    BY <1>9 DEF AnswerSync
  <2>3. Typed' /\ InStep' /\ OnWire'
    BY <1>1, <2>1, <2>2, ToldKept DEF SInv
  <2>4. SnapshotFresh'
        /\ (me.then = "snapshot" =>
                \A d \in Dev : hist'.seen[d] = hist.seen[d] \cup {Told(heads'[d])})
    BY <1>1, <2>2, UnheardKept
  <2>5. Noting'
    BY <1>1, <2>1, <2>2, <2>4, NotedKept DEF SInv
  <2>6. Unasked' /\ OnFile' /\ Writes' /\ OneSync'
    BY <2>2, Served DEF r
  <2> QED
    BY <2>3, <2>4, <2>5, <2>6 DEF SInv
<1>10. CASE TakeConfiguration(r)
  <2>1. heads' = heads /\ hist' = hist /\ wire' = wire /\ r.do = "apply"
        /\ inbox' = inbox \cup {r.of}
    BY <1>10 DEF TakeConfiguration
  <2>2. Typed' /\ InStep' /\ OnWire' /\ Noting' /\ SnapshotFresh'
    BY <1>1, <2>1 DEF SInv, Typed, InStep, OnWire, Noting, SnapshotFresh, InSnapshot, Ripe
  <2>3. Unasked' /\ OnFile' /\ Writes' /\ OneSync'
    BY <2>1, Served DEF r
  <2> QED
    BY <2>2, <2>3 DEF SInv
<1> QED
  BY <1>1, <1>6, <1>7, <1>8, <1>9, <1>10

-----------------------------------------------------------------------------
(* The client.  Of a State that shows the same, the same comes.            *)
LEMMA SameAfter ==
    ASSUME NEW s \in States, NEW t \in States, NEW w \in Seq(Events), NEW d \in Dev,
           View(s, d) = View(t, d)
    PROVE  \A n \in 0..Len(w) : View(At(s, w, n), d) = View(At(t, w, n), d)
<1>1. /\ IsSeq(w) /\ Len(w) \in Nat
      /\ \A n \in 0..Len(w) : At(s, w, n) \in States /\ At(t, w, n) \in States
  BY AtTyped
<1> DEFINE Good == {n \in Nat : n <= Len(w) => View(At(s, w, n), d) = View(At(t, w, n), d)}
<1>2. 0 \in Good
  BY <1>1, TrajIs
<1>3. ASSUME NEW n \in Good \cap Nat PROVE n + 1 \in Good
  <2> SUFFICES ASSUME n + 1 <= Len(w)
               PROVE  View(At(s, w, n + 1), d) = View(At(t, w, n + 1), d)
    OBVIOUS
  <2> DEFINE k == n + 1
             x == At(s, w, n)
             y == At(t, w, n)
  <2>1. k \in 1..Len(w) /\ n = k - 1 /\ n \in 0..Len(w) /\ w[k] \in Events
    BY <1>1
  <2>2. View(x, d) = View(y, d) /\ x \in States /\ y \in States
    BY <1>1, <2>1
  <2> HIDE DEF k
  <2>3. At(s, w, k) = Handled(x, w[k]) /\ At(t, w, k) = Handled(y, w[k])
    BY <1>1, <2>1, TrajStep
  <2> HIDE DEF x, y
  <2>4. View(Handled(x, w[k]), d) = View(Handled(y, w[k]), d)
    BY <2>1, <2>2, ViewHandled
  <2> QED
    BY <2>3, <2>4 DEF k
<1> HIDE DEF Good
<1>4. \A n \in Nat : n \in Good
  BY <1>2, <1>3, AllNat
<1> QED
  BY <1>1, <1>4 DEF Good

(* What the client may ask of KWin, and when it must not be waiting.       *)
Asks(q) ==
    /\ IsSeq(q)
    /\ \A i \in 1..Len(q) : q[i].do \in {"apply", "sync"}
    /\ \A i \in 1..Len(q) : q[i].do = "apply" => Written(q[i].of)
    /\ \A i, j \in 1..Len(q) : q[i].do = "sync" /\ q[j].do = "sync" => i = j
Resting(m) == m.at \in {"off", "idle", "sleep"} \/ (m.at = "wait" /\ m.synced)
Planned(m) ==
    /\ IsSeq(m.todo) /\ \A i \in 1..Len(m.todo) : Plan(m.todo[i])
    /\ m.then \in {"refresh", "verdict"} => Len(m.todo) > 0 /\ m.call = "apply"

LEMMA AsksNothing == Asks(<< >>)
BY Nothing DEF Asks

LEMMA AsksSync == Asks(<<Sync>>)
BY OneLong DEF Asks, Sync

(* A step of the client that dispatches nothing.                           *)
LEMMA TripKept ==
    ASSUME VInv, SInv, wire' = wire, heads' = heads, kwin' = kwin, inbox' = inbox,
           st' \in States, \A d \in Dev : View(st', d) = View(st, d),
           me.at # "off", me'.at # "off", Planned(me'),
           NEW q, Asks(q), req' = req \o q,
           \A i \in 1..Len(q) : q[i].do = "sync" => NoSync /\ ~Resting(me'),
           Resting(me') => NoSync
    PROVE  Typed' /\ InStep' /\ Unasked' /\ OnWire' /\ OnFile' /\ Writes' /\ OneSync'
<1>1. Typed'
  BY DEF SInv, Typed
<1>2. InStep'
  <2> SUFFICES ASSUME NEW d \in Dev PROVE View(After(st', wire'), d) \in Held(heads'[d])
    BY DEF InStep
  <2>1. st \in States /\ st' \in States /\ wire \in Seq(Events) /\ View(st', d) = View(st, d)
    BY DEF SInv, Typed
  <2>2. Len(wire) \in 0..Len(wire)
    BY <2>1, AtTyped
  <2>3. View(At(st', wire, Len(wire)), d) = View(At(st, wire, Len(wire)), d)
    BY <2>1, <2>2, SameAfter
  <2>4. View(After(st, wire), d) \in Held(heads[d])
    BY DEF SInv, InStep
  <2> QED
    BY <2>3, <2>4 DEF After
<1>3. OnWire'
  BY DEF SInv, OnWire
<1>4. /\ IsSeq(req) /\ IsSeq(q) /\ Len(req) \in Nat /\ Len(q) \in Nat
      /\ Len(req') = Len(req) + Len(q)
      /\ \A i \in 1..Len(req) : req'[i] = req[i]
      /\ \A i \in 1..Len(req') : i \notin 1..Len(req) =>
            i - Len(req) \in 1..Len(q) /\ req'[i] = q[i - Len(req)]
  <2>1. IsSeq(req) /\ IsSeq(q)
    BY DEF VInv, Shapes, Asks
  <2> QED
    BY <2>1, Joined, SeqHas
<1>5. \A i \in 1..Len(req') : req'[i].do \notin {"apply", "sync"} =>
          i \in 1..Len(req) /\ req'[i] = req[i]
  BY <1>4 DEF Asks
<1>6. Unasked'
  <2>1. \A i \in 1..Len(req') : req'[i].do = "globals" =>
          i \in 1..Len(req) /\ req[i].do = "globals"
    BY <1>5
  <2>2. \A i \in 1..Len(req') : req'[i].do = "globals" => i = 1
    BY <2>1 DEF SInv, Unasked
  <2>3. (\E i \in 1..Len(req') : req'[i].do = "globals") =>
          ~kwin.listening /\ ~kwin.bound /\ \A d \in Dev : heads[d].told = "no"
    BY <2>1 DEF SInv, Unasked
  <2> QED
    BY <2>2, <2>3 DEF Unasked
<1>7. OnFile'
  BY <1>5 DEF SInv, OnFile
<1>8. Writes'
  <2>1. \A i \in 1..Len(req') : req'[i].do = "apply" => Written(req'[i].of)
    BY <1>4 DEF SInv, Writes, Asks
  <2> QED
    BY <2>1 DEF SInv, Writes, Planned
<1>9. OneSync'
  <2>1. CASE \A i \in 1..Len(q) : q[i].do # "sync"
    <3>1. \A i \in 1..Len(req') : req'[i].do = "sync" => i \in 1..Len(req) /\ req[i].do = "sync"
      BY <1>4, <2>1
    <3>2. NoSync => NoSync'
      BY <3>1 DEF NoSync, Unsynced
    <3> QED
      BY <3>1, <3>2 DEF SInv, OneSync, Unsynced, Resting
  <2>2. CASE \E i \in 1..Len(q) : q[i].do = "sync"
    <3>1. NoSync /\ ~Resting(me')
      BY <2>2
    <3>2. \A i \in 1..Len(req') : req'[i].do = "sync" =>
              i - Len(req) \in 1..Len(q) /\ q[i - Len(req)].do = "sync"
      BY <1>4, <3>1 DEF NoSync
    <3>3. \A i, j \in 1..Len(req') : req'[i].do = "sync" /\ req'[j].do = "sync" => i = j
      <4> SUFFICES ASSUME NEW i \in 1..Len(req'), NEW j \in 1..Len(req'),
                          req'[i].do = "sync", req'[j].do = "sync"
                   PROVE  i = j
        OBVIOUS
      <4>1. i - Len(req) = j - Len(req)
        BY <3>2 DEF Asks
      <4> QED
        BY <1>4, <4>1
    <3>4. Unsynced(wire')
      BY <3>1 DEF NoSync
    <3> QED
      BY <3>1, <3>3, <3>4 DEF OneSync, Resting
  <2> QED
    BY <2>1, <2>2
<1> QED
  BY <1>1, <1>2, <1>3, <1>6, <1>7, <1>8, <1>9

-----------------------------------------------------------------------------
(* It takes no snapshot.                                                   *)
LEMMA StepKept ==
    ASSUME VInv, SInv, wire' = wire, heads' = heads, kwin' = kwin, inbox' = inbox,
           st' \in States, \A d \in Dev : View(st', d) = View(st, d),
           me.at # "off", me'.at # "off", Planned(me'),
           NEW q, Asks(q), req' = req \o q,
           \A i \in 1..Len(q) : q[i].do = "sync" => NoSync /\ ~Resting(me'),
           Resting(me') => NoSync,
           me'.then # "snapshot", me'.out = "ok" => me'.call # "snapshot"
    PROVE  SInv'
<1>1. Typed' /\ InStep' /\ Unasked' /\ OnWire' /\ OnFile' /\ Writes' /\ OneSync'
  BY TripKept
<1>2. Noting' /\ SnapshotFresh'
  BY DEF Noting, SnapshotFresh
<1> QED
  BY <1>1, <1>2 DEF SInv

(* It asks for nothing, or only for an answer.                             *)
LEMMA SilentKept ==
    ASSUME VInv, SInv, wire' = wire, heads' = heads, kwin' = kwin, inbox' = inbox,
           st' \in States, \A d \in Dev : View(st', d) = View(st, d),
           me.at # "off", me'.at # "off", Planned(me'),
           req' = req, Resting(me') => NoSync,
           me'.then # "snapshot", me'.out = "ok" => me'.call # "snapshot"
    PROVE  SInv'
<1>1. IsSeq(req)
  BY DEF VInv, Shapes
<1>2. Asks(<< >>) /\ req \o << >> = req /\ Len(<< >>) = 0
  BY <1>1, AsksNothing, NoNews, Nothing
<1> DEFINE q == << >>
<1>3. Asks(q) /\ req' = req \o q /\ \A i \in 1..Len(q) : q[i].do = "sync" => NoSync /\ ~Resting(me')
  BY <1>2
<1> HIDE DEF q
<1> QED
  BY <1>3, StepKept

LEMMA SyncKept ==
    ASSUME VInv, SInv, wire' = wire, heads' = heads, kwin' = kwin, inbox' = inbox,
           st' \in States, \A d \in Dev : View(st', d) = View(st, d),
           me.at # "off", Planned(me'), req' = Append(req, Sync),
           me'.at = "wait", ~me'.synced, NoSync,
           me'.then # "snapshot", me'.out = "ok" => me'.call # "snapshot"
    PROVE  SInv'
<1> DEFINE q == <<Sync>>
<1>1. Asks(q)
  BY AsksSync
<1>2. req' = req \o q
  BY Appended DEF VInv, Shapes
<1>3. ~Resting(me')
  BY DEF Resting
<1> HIDE DEF q
<1> QED
  BY <1>1, <1>2, <1>3, StepKept

(* The State is the same but for what no view shows.                       *)
LEMMA SameShown ==
    ASSUME NEW s \in States
    PROVE  /\ LET t == [s EXCEPT !.alive = TRUE] IN
              t \in States /\ \A d \in Dev : View(t, d) = View(s, d)
           /\ LET t == [s EXCEPT !.cfgs = {}] IN
              t \in States /\ \A d \in Dev : View(t, d) = View(s, d)
           /\ LET t == [[s EXCEPT !.cfgs = {}] EXCEPT !.result = None] IN
              t \in States /\ \A d \in Dev : View(t, d) = View(s, d)
           /\ \A id \in Nat :
              LET t == [s EXCEPT !.result = None, !.reason = None, !.cfgs = @ \cup {id}] IN
              t \in States /\ \A d \in Dev : View(t, d) = View(s, d)
<1>1. LET t == [s EXCEPT !.alive = TRUE] IN t \in States /\ Alike(t, s)
  BY DEF States, Alike
<1>2. LET t == [s EXCEPT !.cfgs = {}] IN t \in States /\ Alike(t, s)
  BY DEF States, Alike
<1>3. LET t == [[s EXCEPT !.cfgs = {}] EXCEPT !.result = None] IN t \in States /\ Alike(t, s)
  BY DEF States, Alike
<1>4. ASSUME NEW id \in Nat
      PROVE  LET t == [s EXCEPT !.result = None, !.reason = None, !.cfgs = @ \cup {id}] IN
             t \in States /\ Alike(t, s)
  BY DEF States, Alike
<1>5. \A t : Alike(t, s) => \A d \in Dev : View(t, d) = View(s, d)
  BY AlikeView
<1>6. LET t == [s EXCEPT !.alive = TRUE] IN
      t \in States /\ \A d \in Dev : View(t, d) = View(s, d)
  BY <1>1, <1>5
<1>7. LET t == [s EXCEPT !.cfgs = {}] IN
      t \in States /\ \A d \in Dev : View(t, d) = View(s, d)
  BY <1>2, <1>5
<1>8. LET t == [[s EXCEPT !.cfgs = {}] EXCEPT !.result = None] IN
      t \in States /\ \A d \in Dev : View(t, d) = View(s, d)
  BY <1>3, <1>5
<1>9. ASSUME NEW id \in Nat
      PROVE  LET t == [s EXCEPT !.result = None, !.reason = None, !.cfgs = @ \cup {id}] IN
             t \in States /\ \A d \in Dev : View(t, d) = View(s, d)
  BY <1>4, <1>5
<1> QED
  BY <1>6, <1>7, <1>8, <1>9

(* apply returns.                                                          *)
LEMMA ReturnKept ==
    ASSUME VInv, SInv, wire' = wire, heads' = heads, kwin' = kwin, inbox' = inbox,
           st' \in States, \A d \in Dev : View(st', d) = View(st, d),
           me.at = "wait", me.synced, me.then \in {"refresh", "verdict"},
           NEW out, NEW why, ApplyReturns(out, why)
    PROVE  SInv'
<1>1. /\ DOMAIN me = MeNames /\ IsSeq(me.todo) /\ Len(me.todo) \in Nat /\ me.todo # << >>
      /\ me.call = "apply" /\ \A i \in 1..Len(me.todo) : Plan(me.todo[i])
  <2>1. DOMAIN me = MeNames /\ IsSeq(me.todo) /\ Len(me.todo) > 0 /\ me.call = "apply"
        /\ \A i \in 1..Len(me.todo) : Plan(me.todo[i])
    BY DEF VInv, Shapes, SInv, Writes
  <2>2. me.todo # << >>
    BY <2>1, Nothing
  <2> QED
    BY <2>1, <2>2, SeqHas
<1>2. NoSync
  BY DEF SInv, OneSync
<1>3. CASE out = "ok" /\ Len(me.todo) > 1
  <2>1. me' = RoundTrip([me EXCEPT !.todo = Tail(@), !.late = FALSE], "refresh")
        /\ req' = Append(req, Sync)
    BY <1>3 DEF ApplyReturns
  <2>2. /\ me'.at = "wait" /\ me'.then = "refresh" /\ ~me'.synced /\ me'.call = "apply"
        /\ me'.todo = Tail(me.todo)
    BY <1>1, <2>1 DEF RoundTrip, MeNames
  <2>3. IsSeq(Tail(me.todo)) /\ Len(Tail(me.todo)) > 0
        /\ \A i \in 1..Len(Tail(me.todo)) : Plan(Tail(me.todo)[i])
    <3>1. IsSeq(Tail(me.todo))
          /\ \A i \in 1..Len(Tail(me.todo)) : Plan(Tail(me.todo)[i])
      BY <1>1, TailHas
    <3>2. Len(Tail(me.todo)) = Len(me.todo) - 1
      <4> DEFINE s == me.todo
                 S == {s[i] : i \in DOMAIN s}
      <4>1. s \in Seq(S) /\ s # << >>
        BY <1>1 DEF IsSeq
      <4> HIDE DEF S, s
      <4>2. Len(Tail(s)) = Len(s) - 1
        BY <4>1
      <4> QED
        BY <4>2 DEF s
    <3> QED
      BY <1>1, <1>3, <3>1, <3>2
  <2>4. Planned(me')
    BY <2>2, <2>3 DEF Planned
  <2> QED
    BY <1>2, <2>1, <2>2, <2>4, SyncKept
<1>4. CASE ~(out = "ok" /\ Len(me.todo) > 1)
  <2>1. me' = Over(out, why) /\ req' = req
    BY <1>4 DEF ApplyReturns
  <2>2. me'.at = "idle" /\ me'.then = None /\ me'.call = "apply" /\ me'.todo = << >>
    BY <1>1, <2>1 DEF Over, MeNames
  <2>3. Planned(me') /\ me'.then # "snapshot"
    BY <2>2, Nothing, NothingIs DEF Planned
  <2> QED
    BY <1>2, <2>1, <2>2, <2>3, SilentKept
<1> QED
  BY <1>3, <1>4

LEMMA ApplySteps ==
    ASSUME VInv, SInv, NothingToApply \/ Went \/ Answered \/ TimedOut
    PROVE  SInv'
<1>1. st \in States
  BY DEF SInv, Typed
<1>2. /\ \A d \in Dev : View(st, d) = View(st, d)
      /\ Destroyed \in States /\ \A d \in Dev : View(Destroyed, d) = View(st, d)
      /\ LET t == [Destroyed EXCEPT !.result = None] IN
         t \in States /\ \A d \in Dev : View(t, d) = View(st, d)
  BY <1>1, SameShown DEF Destroyed
<1>3. CASE NothingToApply
  <2>1. /\ me.at = "wait" /\ me.synced /\ me.then = "refresh" /\ ApplyReturns("ok", None)
        /\ heads' = heads /\ kwin' = kwin /\ inbox' = inbox /\ wire' = wire /\ st' = st
    BY <1>3 DEF NothingToApply, Trip
  <2> QED
    BY <1>1, <2>1, ReturnKept
<1>4. CASE Went
  <2>1. /\ me.at = "wait" /\ me.synced /\ me.then = "verdict" /\ ApplyReturns("gone", None)
        /\ heads' = heads /\ kwin' = kwin /\ inbox' = inbox /\ wire' = wire /\ st' = Destroyed
    BY <1>4 DEF Went, Trip
  <2> QED
    BY <1>2, <2>1, ReturnKept
<1>5. CASE TimedOut
  <2>1. /\ me.at = "wait" /\ me.synced /\ me.then = "verdict" /\ ApplyReturns("timeout", None)
        /\ heads' = heads /\ kwin' = kwin /\ inbox' = inbox /\ wire' = wire /\ st' = Destroyed
    BY <1>5 DEF TimedOut, Trip
  <2> QED
    BY <1>2, <2>1, ReturnKept
<1>6. CASE Answered
  <2>1. PICK out, why :
           /\ me.at = "wait" /\ me.synced /\ me.then = "verdict" /\ ApplyReturns(out, why)
           /\ heads' = heads /\ kwin' = kwin /\ inbox' = inbox /\ wire' = wire
           /\ st' = [Destroyed EXCEPT !.result = None]
    BY <1>6 DEF Answered, Trip
  <2> QED
    BY <1>2, <2>1, ReturnKept
<1> QED
  BY <1>3, <1>4, <1>5, <1>6

LEMMA PlannedNow == ASSUME SInv PROVE Planned(me)
BY DEF SInv, Writes, Planned

(* The steps that neither dispatch nor send a configuration nor show       *)
(* anything.                                                               *)
LEMMA TripSteps ==
    ASSUME VInv, SInv, NotKwin \/ GetBurst \/ Connected \/ Sleep \/ Wake \/ Deadline \/ Broken
    PROVE  SInv'
<1>1. /\ Mine /\ DOMAIN me = MeNames /\ st \in States /\ Planned(me)
      /\ \A d \in Dev : View(st, d) = View(st, d)
  BY PlannedNow DEF VInv, Shapes, SInv, Typed
<1>2. None \notin {"globals", "burst", "snapshot", "refresh", "verdict"}
      /\ None \notin {"ok", "failed"}
  BY NothingIs
<1>3. Resting(me) => NoSync
  BY DEF SInv, OneSync, Resting
<1>4. CASE NotKwin
  <2>1. /\ me.at = "wait" /\ st' = st /\ req' = req
        /\ me' = [Over(IF st.manager THEN "missing" ELSE "none", None) EXCEPT !.at = "closed"]
        /\ heads' = heads /\ kwin' = kwin /\ inbox' = inbox /\ wire' = wire
    BY <1>4 DEF NotKwin, Trip
  <2>2. me'.at = "closed" /\ me'.then = None /\ me'.out \in {"missing", "none"}
        /\ me'.todo = << >>
    BY <1>1, <2>1 DEF Over, MeNames
  <2>3. Planned(me') /\ ~Resting(me') /\ me'.then # "snapshot"
    BY <1>2, <2>2, Nothing DEF Planned, Resting
  <2> QED
    BY <1>1, <2>1, <2>2, <2>3, SilentKept
<1>5. CASE GetBurst
  <2>1. /\ me.at = "wait" /\ me.synced /\ me.then = "globals"
        /\ me' = RoundTrip(me, "burst") /\ st' = [st EXCEPT !.alive = TRUE]
        /\ heads' = heads /\ kwin' = kwin /\ inbox' = inbox /\ wire' = wire
        /\ req' = Append(req, Sync)
    BY <1>5 DEF GetBurst, Trip
  <2>2. /\ me'.at = "wait" /\ me'.then = "burst" /\ ~me'.synced /\ me'.out = me.out
        /\ me'.todo = me.todo
    BY <1>1, <2>1 DEF RoundTrip, MeNames
  <2>3. me'.out # "ok"
    BY <1>1, <1>2, <2>1, <2>2 DEF Mine
  <2>4. Planned(me')
    BY <1>1, <2>2 DEF Planned
  <2>5. st' \in States /\ \A d \in Dev : View(st', d) = View(st, d)
    BY <1>1, <2>1, SameShown
  <2>6. NoSync
    BY <1>3, <2>1 DEF Resting
  <2> QED
    BY <2>1, <2>2, <2>3, <2>4, <2>5, <2>6, SyncKept
<1>6. CASE Connected
  <2>1. /\ me.at = "wait" /\ me.synced /\ me' = Over("connected", None) /\ st' = st /\ req' = req
        /\ heads' = heads /\ kwin' = kwin /\ inbox' = inbox /\ wire' = wire
    BY <1>6 DEF Connected, Trip
  <2>2. me'.at = "idle" /\ me'.then = None /\ me'.out = "connected" /\ me'.todo = << >>
    BY <1>1, <2>1 DEF Over, MeNames
  <2>3. Planned(me') /\ NoSync /\ me'.then # "snapshot"
    BY <1>2, <1>3, <2>1, <2>2, Nothing DEF Planned, Resting
  <2> QED
    BY <1>1, <2>1, <2>2, <2>3, SilentKept
<1>7. CASE Sleep
  <2>1. /\ me.at = "wait" /\ me.synced /\ me.then = "verdict" /\ me' = [me EXCEPT !.at = "sleep"]
        /\ st' = st /\ req' = req
        /\ heads' = heads /\ kwin' = kwin /\ inbox' = inbox /\ wire' = wire
    BY <1>7 DEF Sleep, Trip
  <2>2. me'.at = "sleep" /\ me'.then = me.then /\ me'.out = me.out /\ me'.todo = me.todo
        /\ me'.call = me.call
    BY <1>1, <2>1 DEF MeNames
  <2>3. Planned(me') /\ NoSync /\ me'.out # "ok"
    BY <1>1, <1>2, <1>3, <2>1, <2>2 DEF Planned, Resting, Mine
  <2> QED
    BY <1>1, <2>1, <2>2, <2>3, SilentKept
<1>8. CASE Wake
  <2>1. /\ me.at = "sleep" /\ me' = RoundTrip(me, "verdict") /\ st' = st
        /\ heads' = heads /\ kwin' = kwin /\ inbox' = inbox /\ wire' = wire
        /\ req' = Append(req, Sync)
    BY <1>8 DEF Wake
  <2>2. me.then = "verdict"
    BY <1>1, <2>1 DEF Mine
  <2>3. /\ me'.at = "wait" /\ me'.then = me.then /\ ~me'.synced /\ me'.out = me.out
        /\ me'.todo = me.todo /\ me'.call = me.call
    BY <1>1, <2>1, <2>2 DEF RoundTrip, MeNames
  <2>4. Planned(me') /\ NoSync /\ me'.out # "ok"
    BY <1>1, <1>2, <1>3, <2>1, <2>2, <2>3 DEF Planned, Resting, Mine
  <2> QED
    BY <1>1, <2>1, <2>2, <2>3, <2>4, SyncKept
<1>9. CASE Deadline
  <2>1. /\ me' = [me EXCEPT !.late = TRUE] /\ st' = st /\ req' = req
        /\ me.at = "sleep" \/ (me.at = "wait" /\ me.synced /\ me.then = "verdict")
        /\ heads' = heads /\ kwin' = kwin /\ inbox' = inbox /\ wire' = wire
    BY <1>9 DEF Deadline, Trip
  <2>2. me.then = "verdict"
    BY <1>1, <2>1 DEF Mine
  <2>3. me'.at = me.at /\ me'.then = me.then /\ me'.out = me.out /\ me'.todo = me.todo
        /\ me'.call = me.call
    BY <1>1, <2>1 DEF MeNames
  <2>4. Planned(me') /\ NoSync /\ me'.out # "ok"
    BY <1>1, <1>2, <1>3, <2>1, <2>2, <2>3 DEF Planned, Resting, Mine
  <2> QED
    BY <1>1, <2>1, <2>2, <2>3, <2>4, SilentKept
<1>10. CASE Broken
  <2>1. /\ me.at = "wait" /\ st' = Destroyed /\ me' = [Over("lost", None) EXCEPT !.at = "closed"]
        /\ heads' = heads /\ kwin' = kwin /\ inbox' = inbox /\ wire' = wire /\ req' = req
    BY <1>10 DEF Broken
  <2>2. me'.at = "closed" /\ me'.then = None /\ me'.out = "lost" /\ me'.todo = << >>
    BY <1>1, <2>1 DEF Over, MeNames
  <2>3. st' \in States /\ \A d \in Dev : View(st', d) = View(st, d)
    BY <1>1, <2>1, SameShown DEF Destroyed
  <2>4. Planned(me') /\ ~Resting(me') /\ me'.then # "snapshot"
    BY <1>2, <2>2, Nothing DEF Planned, Resting
  <2> QED
    BY <2>1, <2>2, <2>3, <2>4, SilentKept
<1> QED
  BY <1>4, <1>5, <1>6, <1>7, <1>8, <1>9, <1>10

-----------------------------------------------------------------------------
(* What a configuration writes.                                            *)
LEMMA PriorityIs ==
    ASSUME NEW live, NEW plan, NEW i \in Nat
    PROVE  Priority(live, plan, i) \in Nat
<1> DEFINE S == {j \in 1..i : Connector[live[j]] # plan.primary}
<1>1. IsFiniteSet(1..i) /\ S \subseteq 1..i
  BY FS_Interval
<1>2. Cardinality(S) \in Nat
  <2> HIDE DEF S
  <2> QED
    BY <1>1, FS_Subset, FS_CardinalityType
<1>3. Priority(live, plan, i) \in {1, Cardinality(S), Cardinality(S) + 1}
  <2>1. Priority(live, plan, i) = IF Connector[live[i]] = plan.primary THEN 1
                                  ELSE Cardinality(S) + IF plan.primary = None THEN 0 ELSE 1
    BY DEF Priority
  <2> HIDE DEF S
  <2> QED
    BY <1>2, <2>1
<1> HIDE DEF S
<1> QED
  BY <1>2, <1>3

LEMMA LiveIs ==
    ASSUME NEW s \in States
    PROVE  LET live == LiveHeads(s) IN
           /\ IsSeq(live) /\ live \in Seq(Dev)
           /\ ToSet(live) = {d \in Dev : d \in ToSet(s.devices) /\ s.dev[d].named /\ s.dev[d].done}
           /\ \A d : Contains(live, d) <=> d \in ToSet(live)
           /\ \A d \in ToSet(live) : \E i \in 1..Len(live) : live[i] = d
           /\ DOMAIN live = 1..Len(live) /\ Len(live) \in Nat
<1> DEFINE live == LiveHeads(s)
           T == {d \in Dev : s.dev[d].named /\ s.dev[d].done}
<1>1. s.devices \in Seq(Dev) /\ live = Only(s.devices, T)
  BY DEF States, LiveHeads
<1>2. ToSet(s.devices) \subseteq Dev
  <2>1. \A x \in ToSet(s.devices) : \E i \in 1..Len(s.devices) : s.devices[i] = x
    BY <1>1, SeqIs, ToSetIs
  <2> QED
    BY <1>1, <2>1
<1> HIDE DEF live
<1>3. live \in Seq(Dev) /\ ToSet(live) = ToSet(s.devices) \cap T
  BY <1>1, OnlySeq
<1>4. IsSeq(live)
  BY <1>3, SeqIs
<1>5. ToSet(live) = {d \in Dev : d \in ToSet(s.devices) /\ s.dev[d].named /\ s.dev[d].done}
  BY <1>2, <1>3
<1>6. /\ \A d : Contains(live, d) <=> d \in ToSet(live)
      /\ \A d \in ToSet(live) : \E i \in 1..Len(live) : live[i] = d
  BY <1>4, ToSetIs
<1>7. DOMAIN live = 1..Len(live) /\ Len(live) \in Nat
  BY <1>4, SeqHas
<1> QED
  BY <1>3, <1>4, <1>5, <1>6, <1>7 DEF live

LEMMA ConfigurationIs ==
    ASSUME NEW s \in States, NEW plan, Plan(plan)
    PROVE  LET c == Configuration(s, plan) IN
           /\ \A d \in DOMAIN c.on : c.on[d] \in BOOLEAN
           /\ \A d \in DOMAIN c.place : c.place[d] \in Place
           /\ \A d \in DOMAIN c.prio : c.prio[d] \in Nat
<1> DEFINE live == LiveHeads(s)
           D == ToSet(live)
           want(d) == Target(HeadShown(s, d), Connector[d], plan)
           c == Configuration(s, plan)
<1>1. D \subseteq Dev /\ (\A d \in D : \E i \in 1..Len(live) : live[i] = d)
      /\ DOMAIN live = 1..Len(live) /\ Len(live) \in Nat
  BY LiveIs
<1>2. \A d \in DOMAIN c.on : c.on[d] \in BOOLEAN
  BY DEF Configuration, Target
<1>3. ASSUME NEW d \in DOMAIN c.place PROVE c.place[d] \in Place
  <2>1. d \in D /\ want(d).place # None /\ c.place[d] = want(d).place
    BY <1>3 DEF Configuration
  <2>2. HeadShown(s, d).place \in Place \cup {None}
    <3>1. d \in Dev
      BY <1>1, <2>1
    <3> QED
      BY <3>1 DEF HeadShown, States, Devices
  <2>3. want(d).place \in Place \cup {None}
    BY <2>2 DEF Target, Or, Plan
  <2> QED
    BY <2>1, <2>3
<1>4. ASSUME NEW d \in DOMAIN c.prio PROVE c.prio[d] \in Nat
  <2> DEFINE i == CHOOSE i \in DOMAIN live : live[i] = d
  <2>1. d \in D /\ c.prio[d] = Priority(live, plan, i)
    BY <1>4 DEF Configuration
  <2>2. i \in DOMAIN live
    <3> HIDE DEF live
    <3> QED
      BY <1>1, <2>1
  <2> HIDE DEF i, live
  <2>3. i \in Nat
    BY <1>1, <2>2
  <2> QED
    BY <2>1, <2>3, PriorityIs
<1> QED
  BY <1>2, <1>3, <1>4

LEMMA SubmitSteps == ASSUME VInv, SInv, Submit PROVE SInv'
<1> DEFINE id == Len(hist.fate) + 1
           C == Configuration(st, Head(me.todo))
           c == [id |-> id, on |-> C.on, mode |-> C.mode, place |-> C.place, prio |-> C.prio]
           q == <<[do |-> "apply", of |-> c], Sync>>
<1>1. /\ me.at = "wait" /\ me.synced /\ me.then = "refresh" /\ st' = SlotEmptied(id)
      /\ me' = RoundTrip(me, "verdict")
      /\ heads' = heads /\ kwin' = kwin /\ inbox' = inbox /\ wire' = wire
      /\ req' = req \o q
  BY DEF Submit, Trip
<1>2. Mine /\ DOMAIN me = MeNames /\ st \in States /\ Planned(me) /\ Len(hist.fate) \in Nat
  BY PlannedNow, SeqHas DEF VInv, Shapes, SInv, Typed
<1>3. Plan(Head(me.todo))
  <2>1. IsSeq(me.todo) /\ Len(me.todo) > 0 /\ \A i \in 1..Len(me.todo) : Plan(me.todo[i])
    BY <1>1, <1>2 DEF Planned
  <2>2. me.todo # << >>
    BY <2>1, Nothing
  <2>3. 1 \in 1..Len(me.todo) /\ Head(me.todo) = me.todo[1]
    BY <2>1, <2>2, TailHas
  <2> QED
    BY <2>1, <2>3
<1>4. Written(c)
  <2>1. /\ \A d \in DOMAIN C.on : C.on[d] \in BOOLEAN
        /\ \A d \in DOMAIN C.place : C.place[d] \in Place
        /\ \A d \in DOMAIN C.prio : C.prio[d] \in Nat
    BY <1>2, <1>3, ConfigurationIs
  <2>2. c.on = C.on /\ c.place = C.place /\ c.prio = C.prio
    OBVIOUS
  <2> HIDE DEF C, c
  <2> QED
    BY <2>1, <2>2 DEF Written
<1> HIDE DEF c, C
<1>5. /\ IsSeq(q) /\ q[1] = [do |-> "apply", of |-> c] /\ q[2] = Sync
      /\ \A i \in 1..Len(q) : i = 1 \/ i = 2
  BY Pair
<1> HIDE DEF q
<1>6. Asks(q)
  BY <1>4, <1>5 DEF Asks, Sync
<1>7. st' \in States /\ \A d \in Dev : View(st', d) = View(st, d)
  <2>1. id \in Nat
    BY <1>2
  <2> QED
    BY <1>1, <1>2, <2>1, SameShown DEF SlotEmptied
<1>8. /\ me'.at = "wait" /\ me'.then = "verdict" /\ ~me'.synced /\ me'.out = me.out
      /\ me'.todo = me.todo /\ me'.call = me.call
  BY <1>1, <1>2 DEF RoundTrip, MeNames
<1>9. Planned(me')
  BY <1>1, <1>2, <1>8 DEF Planned
<1>10. me'.out # "ok" /\ NoSync
  BY <1>1, <1>2, <1>8, NothingIs DEF Mine, SInv, OneSync
<1>11. ~Resting(me')
  BY <1>8 DEF Resting
<1> QED
  BY <1>1, <1>6, <1>7, <1>8, <1>9, <1>10, <1>11, StepKept

-----------------------------------------------------------------------------
(* A snapshot shows of an output what its view does.                       *)
LEMMA SnapshotIs ==
    ASSUME NEW s \in States, NEW d \in Dev
    PROVE  /\ d \in DOMAIN SnapshotOf(s) => SnapshotOf(s)[d] = Shows(View(s, d))
           /\ d \notin DOMAIN SnapshotOf(s) => Shows(View(s, d)) = Absent
           /\ d \in ToSet(LiveHeads(s)) =>
                 HeadShown(s, d) = Shows(View(s, d)) /\ Shows(View(s, d)).place = s.dev[d].place
           /\ d \in ToSet(LiveHeads(s)) <=>
                 View(s, d).here /\ View(s, d).dev.named /\ View(s, d).dev.done
<1> DEFINE v == View(s, d)
           m == s.dev[d].mode
<1>1. /\ v \in Views
      /\ v.here <=> Contains(s.devices, d)
      /\ v.dev = s.dev[d] /\ v.modes = KindsOf(s, d)
      /\ \A k \in Kind : k \in v.info <=> <<d, k>> \in s.info
  BY ViewTyped
<1>2. /\ IsSeq(s.modes) /\ KindsOf(s, d) \in Seq(Kind)
      /\ \A k \in Kind : k \in ToSet(KindsOf(s, d)) <=> <<d, k>> \in ToSet(s.modes)
  BY KindsAre
<1>3. s.devices \in Seq(Dev) /\ s.modes \in Seq(Dev \X Kind) /\ m \in Kind \cup {None}
  BY DEF States, Devices
<1>4. v.here <=> d \in ToSet(s.devices)
  <2>1. IsSeq(s.devices)
    BY <1>3, SeqIs
  <2> QED
    BY <1>1, <2>1, ToSetIs
<1>5. d \in ToSet(LiveHeads(s)) <=> v.here /\ v.dev.named /\ v.dev.done
  <2>1. d \in ToSet(LiveHeads(s)) <=> d \in ToSet(s.devices) /\ s.dev[d].named /\ s.dev[d].done
    BY LiveIs
  <2> QED
    BY <1>1, <1>4, <2>1
<1>6. Contains(s.modes, <<d, m>>) <=> m \in ToSet(v.modes)
  <2>1. Contains(s.modes, <<d, m>>) <=> <<d, m>> \in ToSet(s.modes)
    BY <1>2, ToSetIs
  <2>2. CASE m \in Kind
    BY <1>1, <1>2, <2>1, <2>2
  <2>3. CASE m = None
    <3>1. None \notin ToSet(KindsOf(s, d))
      BY <1>2, KindsIn, NoneIsNothing
    <3>2. <<d, None>> \notin ToSet(s.modes)
      <4>1. \A x \in ToSet(s.modes) : \E i \in 1..Len(s.modes) : s.modes[i] = x
        BY <1>2, ToSetIs
      <4>2. \A x \in ToSet(s.modes) : x \in Dev \X Kind
        BY <1>3, <4>1
      <4> QED
        BY <4>2, NoneIsNothing
    <3> QED
      BY <1>1, <2>1, <2>3, <3>1, <3>2
  <2> QED
    BY <1>3, <2>2, <2>3
<1>7. ModeShown(s, d) = IF m \notin ToSet(v.modes) THEN None
                        ELSE IF m \in v.info THEN m ELSE Unsized
  <2>1. CASE m \notin ToSet(v.modes)
    BY <1>6, <2>1 DEF ModeShown
  <2>2. CASE m \in ToSet(v.modes)
    <3>1. m \in Kind
      BY <1>1, <1>2, <2>2, KindsIn
    <3>2. m \in v.info <=> <<d, m>> \in s.info
      BY <1>1, <3>1
    <3> QED
      BY <1>6, <2>2, <3>2 DEF ModeShown
  <2> QED
    BY <2>1, <2>2
<1> HIDE DEF v
<1>8. d \in ToSet(LiveHeads(s)) => HeadShown(s, d) = Shows(v) /\ Shows(v).place = s.dev[d].place
  <2> SUFFICES ASSUME d \in ToSet(LiveHeads(s))
               PROVE  HeadShown(s, d) = Shows(v) /\ Shows(v).place = s.dev[d].place
    OBVIOUS
  <2>1. v.here /\ v.dev.named /\ v.dev.done
    BY <1>5
  <2> QED
    BY <1>1, <1>7, <2>1 DEF HeadShown, Shows
<1>9. d \notin ToSet(LiveHeads(s)) => Shows(v) = Absent
  BY <1>5 DEF Shows
<1>10. DOMAIN SnapshotOf(s) = ToSet(LiveHeads(s))
  BY DEF SnapshotOf
<1>11. d \in ToSet(LiveHeads(s)) => SnapshotOf(s)[d] = HeadShown(s, d)
  BY DEF SnapshotOf
<1> QED
  BY <1>5, <1>8, <1>9, <1>10, <1>11 DEF v

LEMMA TwoIn ==
    ASSUME NEW S, IsFiniteSet(S), NEW a \in S, NEW b \in S, a # b
    PROVE  Cardinality(S) > 1
<1>1. {a, b} \subseteq S /\ IsFiniteSet({a}) /\ Cardinality({a}) = 1
  BY FS_Singleton
<1> DEFINE A == {a}
           T == A \cup {b}
<1>2. T \subseteq S /\ b \notin A
  OBVIOUS
<1>3. IsFiniteSet(A) /\ Cardinality(A) = 1
  BY <1>1
<1> HIDE DEF A
<1>4. Cardinality(T) = 2
  BY <1>2, <1>3, FS_AddElement
<1> HIDE DEF T
<1>5. Cardinality(T) <= Cardinality(S)
  BY <1>2, FS_Subset
<1>6. Cardinality(S) \in Nat
  BY FS_CardinalityType
<1> QED
  BY <1>4, <1>5, <1>6

LEMMA SnapshotSteps == ASSUME VInv, SInv, Snapshot PROVE SInv'
<1>1. /\ me.at = "wait" /\ me.synced /\ me.then = "snapshot"
      /\ me' = [Over("ok", None) EXCEPT !.snap = SnapshotOf(st)]
      /\ heads' = heads /\ kwin' = kwin /\ inbox' = inbox /\ wire' = wire
      /\ st' = st /\ req' = req /\ hist' = hist
  BY DEF Snapshot, Trip
<1>2. DOMAIN me = MeNames /\ st \in States /\ IsSeq(req) /\ NoSync /\ IsSeq(wire)
  BY <1>1 DEF VInv, Shapes, SInv, Typed, OneSync
<1>3. me'.at = "idle" /\ me'.then = None /\ me'.todo = << >> /\ me'.snap = SnapshotOf(st)
  BY <1>1, <1>2 DEF Over, MeNames
<1>4. Planned(me') /\ me'.then # "snapshot"
  BY <1>3, Nothing, NothingIs DEF Planned
<1>5. Typed' /\ InStep' /\ Unasked' /\ OnWire' /\ OnFile' /\ Writes' /\ OneSync'
  <2> DEFINE q == << >>
  <2>1. Asks(q) /\ req' = req \o q /\ Len(q) = 0
    BY <1>1, <1>2, AsksNothing, NoNews, Nothing
  <2>2. \A i \in 1..Len(q) : q[i].do = "sync" => NoSync /\ ~Resting(me')
    BY <2>1
  <2> HIDE DEF q
  <2> QED
    BY <1>1, <1>2, <1>3, <1>4, <2>1, <2>2, TripKept
<1>6. SnapshotFresh'
  <2> SUFFICES ASSUME NEW d \in Dev
               PROVE  InSnapshot(d)' \in hist.seen[d] \/ Cardinality(hist.seen[d] \ {Absent}) > 1
    BY <1>1 DEF SnapshotFresh
  <2> DEFINE S == hist.seen[d]
             x == Shows(View(st, d))
  <2>1. InSnapshot(d)' = x
    BY <1>2, <1>3, SnapshotIs DEF InSnapshot
  <2>2. IsFiniteSet(S) /\ Witnessed(S, x)
    <3>1. IsFiniteSet(S)
          /\ \A n \in 0..Len(wire) : Ripe(n) => Witnessed(S, Shows(View(At(st, wire, n), d)))
      BY <1>1 DEF SInv, Noting
    <3>2. 0 \in 0..Len(wire) /\ At(st, wire, 0) = st
      BY <1>2, TrajIs
    <3>3. Ripe(0)
      BY <1>1 DEF Ripe
    <3> QED
      BY <3>1, <3>2, <3>3
  <2> HIDE DEF S, x
  <2>3. IsFiniteSet(S \ {Absent})
    BY <2>2, FS_Difference
  <2>4. x \in S \/ Cardinality(S \ {Absent}) > 1
    <3> DEFINE T == S \ {Absent}
    <3>1. x \in S \/ \E a, b \in T : a # b
      BY <2>2 DEF Witnessed
    <3> HIDE DEF T
    <3>2. x \in S \/ Cardinality(T) > 1
      BY <2>3, <3>1, TwoIn DEF T
    <3> QED
      BY <3>2 DEF T
  <2> QED
    BY <2>1, <2>4 DEF S
<1>7. Noting'
  BY <1>4 DEF Noting
<1> QED
  BY <1>5, <1>6, <1>7 DEF SInv

-----------------------------------------------------------------------------
(* The calls.                                                              *)
LEMMA CallsIs ==
    ASSUME DOMAIN me = MeNames, NEW call, NEW plan, NEW todo
    PROVE  LET c == Calls(call, plan, todo) IN
           /\ DOMAIN c = MeNames /\ c.at = me.at /\ c.then = me.then /\ c.synced = me.synced
           /\ c.call = call /\ c.todo = todo /\ c.out = None
BY DEF Calls, MeNames

LEMMA CallSnapshotSteps == ASSUME VInv, SInv, CallSnapshot PROVE SInv'
<1> DEFINE c == Calls("snapshot", None, << >>)
<1>1. /\ me.at = "idle" /\ me' = RoundTrip(c, "snapshot") /\ req' = Append(req, Sync)
      /\ hist' = Begun /\ st' = st
      /\ heads' = heads /\ kwin' = kwin /\ inbox' = inbox /\ wire' = wire
  BY DEF CallSnapshot, MayCall
<1>2. DOMAIN me = MeNames /\ DOMAIN hist = HistNames /\ st \in States /\ IsSeq(req) /\ NoSync
  BY <1>1 DEF VInv, Shapes, SInv, Typed, OneSync
<1>3. DOMAIN c = MeNames /\ c.todo = << >> /\ c.out = None
  BY <1>2, CallsIs
<1> HIDE DEF c
<1>4. me'.at = "wait" /\ me'.then = "snapshot" /\ ~me'.synced /\ me'.todo = << >> /\ me'.out = None
  BY <1>1, <1>3 DEF RoundTrip, MeNames
<1>5. Planned(me') /\ ~Resting(me')
  BY <1>4, Nothing DEF Planned, Resting
<1>6. Typed' /\ InStep' /\ Unasked' /\ OnWire' /\ OnFile' /\ Writes' /\ OneSync'
  <2> DEFINE q == <<Sync>>
  <2>1. Asks(q) /\ req' = req \o q
    BY <1>1, <1>2, AsksSync, Appended
  <2> HIDE DEF q
  <2> QED
    BY <1>1, <1>2, <1>4, <1>5, <2>1, TripKept
<1>7. Noting'
  <2>1. hist'.seen = [d \in Dev |-> {Told(heads[d])}]
    BY <1>1, <1>2 DEF Begun, HistNames
  <2>2. \A d \in Dev : IsFiniteSet(hist'.seen[d]) /\ Told(heads'[d]) \in hist'.seen[d]
    BY <1>1, <2>1, FS_Singleton
  <2>3. ASSUME NEW n \in 0..Len(wire) PROVE ~Ripe(n)'
    <3>1. Len(wire) \in Nat
      BY SeqHas DEF VInv, Shapes
    <3>2. \A i \in 1..n : i \in 1..Len(wire)
      BY <3>1
    <3> QED
      BY <1>1, <1>2, <1>4, <3>2 DEF Ripe, NoSync, Unsynced
  <2> QED
    BY <1>1, <2>2, <2>3 DEF Noting
<1>8. SnapshotFresh'
  BY <1>4, NothingIs DEF SnapshotFresh
<1> QED
  BY <1>6, <1>7, <1>8 DEF SInv

(* The plans of a call are the caller's, or two made of it.                *)
LEMMA TodoIs ==
    ASSUME NEW plan \in Plans, NEW todo \in {<<plan>>, Applications(plan)}
    PROVE  IsSeq(todo) /\ Len(todo) > 0 /\ \A i \in 1..Len(todo) : Plan(todo[i])
<1> DEFINE p == [plan EXCEPT !.dis = {}]
<1>1. Plan(plan) /\ Plan(p)
  <2>1. DOMAIN plan = {"en", "dis", "primary", "native"}
        /\ \A n \in DOMAIN plan.en : plan.en[n].place \in Place \cup {None}
    BY PlansAre
  <2>2. p.en = plan.en
    BY <2>1
  <2> HIDE DEF p
  <2> QED
    BY <2>1, <2>2 DEF Plan
<1>2. todo = <<plan>> \/ todo = <<p, plan>>
  BY DEF Applications
<1> HIDE DEF p
<1>3. CASE todo = <<plan>>
  <2>1. IsSeq(todo) /\ Len(todo) = 1 /\ todo[1] = plan
    BY <1>3, OneLong
  <2> QED
    BY <1>1, <2>1
<1>4. CASE todo = <<p, plan>>
  <2>1. IsSeq(todo) /\ Len(todo) = 2 /\ todo[1] = p /\ todo[2] = plan
        /\ \A i \in 1..Len(todo) : i = 1 \/ i = 2
    BY <1>4, Pair
  <2> QED
    BY <1>1, <2>1
<1> QED
  BY <1>2, <1>3, <1>4

LEMMA CallApplySteps == ASSUME VInv, SInv, CallApply PROVE SInv'
<1>1. /\ me.at = "idle" /\ st' = st
      /\ heads' = heads /\ kwin' = kwin /\ inbox' = inbox /\ wire' = wire
  BY DEF CallApply, MayCall
<1>2. /\ DOMAIN me = MeNames /\ st \in States /\ NoSync /\ me.then = None
      /\ \A d \in Dev : View(st, d) = View(st, d)
  BY <1>1, NothingIs DEF VInv, Shapes, Mine, SInv, Typed, OneSync
<1>3. None \notin {"globals", "burst", "snapshot", "refresh", "verdict", "ok", "failed"}
  BY NothingIs
<1>4. PICK plan \in Plans : \E todo \in {<<plan>>, Applications(plan)} :
         LET mine == Calls("apply", plan, todo) IN
         \/ me' = [mine EXCEPT !.todo = << >>, !.out = "rejected"] /\ req' = req
         \/ me' = RoundTrip(mine, "refresh") /\ req' = Append(req, Sync)
  BY DEF CallApply
<1>9. PICK todo \in {<<plan>>, Applications(plan)} :
         LET mine == Calls("apply", plan, todo) IN
         \/ me' = [mine EXCEPT !.todo = << >>, !.out = "rejected"] /\ req' = req
         \/ me' = RoundTrip(mine, "refresh") /\ req' = Append(req, Sync)
  BY <1>4
<1> DEFINE c == Calls("apply", plan, todo)
<1>5. DOMAIN c = MeNames /\ c.at = "idle" /\ c.then = None /\ c.call = "apply" /\ c.todo = todo
      /\ c.out = None
  BY <1>1, <1>2, CallsIs
<1>6. \/ me' = [c EXCEPT !.todo = << >>, !.out = "rejected"] /\ req' = req
      \/ me' = RoundTrip(c, "refresh") /\ req' = Append(req, Sync)
  BY <1>9
<1> HIDE DEF c
<1>7. CASE me' = [c EXCEPT !.todo = << >>, !.out = "rejected"] /\ req' = req
  <2>1. me'.at = "idle" /\ me'.then = None /\ me'.todo = << >> /\ me'.out = "rejected"
    BY <1>5, <1>7 DEF MeNames
  <2>2. Planned(me') /\ me'.then # "snapshot"
    BY <1>3, <2>1, Nothing DEF Planned
  <2> QED
    BY <1>1, <1>2, <1>7, <2>1, <2>2, SilentKept
<1>8. CASE me' = RoundTrip(c, "refresh") /\ req' = Append(req, Sync)
  <2>1. /\ me'.at = "wait" /\ me'.then = "refresh" /\ ~me'.synced /\ me'.todo = todo
        /\ me'.out = None /\ me'.call = "apply"
    BY <1>5, <1>8 DEF RoundTrip, MeNames
  <2>2. Planned(me')
    BY <2>1, TodoIs DEF Planned
  <2>3. me'.out # "ok"
    BY <1>3, <2>1
  <2> QED
    BY <1>1, <1>2, <1>8, <2>1, <2>2, <2>3, SyncKept
<1> QED
  BY <1>6, <1>7, <1>8

LEMMA ConnectSteps == ASSUME VInv, SInv, Connect PROVE SInv'
<1> DEFINE t == <<[do |-> "globals", of |-> None], Sync>>
<1>1. /\ me.at = "off" /\ me' = RoundTrip(me, "globals") /\ req' = t /\ st' = st
      /\ heads' = heads /\ kwin' = kwin /\ inbox' = inbox /\ wire' = wire
  BY DEF Connect
<1>2. /\ t[1].do = "globals" /\ t[2].do = "sync" /\ \A i \in 1..Len(t) : i = 1 \/ i = 2
  <2>1. /\ t[1] = [do |-> "globals", of |-> None] /\ t[2] = Sync
        /\ \A i \in 1..Len(t) : i = 1 \/ i = 2
    BY Pair
  <2> HIDE DEF t
  <2> QED
    BY <2>1 DEF Sync
<1> HIDE DEF t
<1>3. DOMAIN me = MeNames /\ NoSync /\ Planned(me) /\ me.out = None
  BY <1>1, PlannedNow DEF VInv, Shapes, Mine, SInv, OneSync
<1>4. me'.at = "wait" /\ me'.then = "globals" /\ ~me'.synced /\ me'.todo = me.todo /\ me'.out = None
  BY <1>1, <1>3 DEF RoundTrip, MeNames
<1>5. Typed' /\ InStep' /\ OnWire'
  BY <1>1 DEF SInv, Typed, InStep, OnWire
<1>6. Unasked'
  BY <1>1, <1>2, <1>4 DEF SInv, Unasked
<1>7. OnFile'
  BY <1>1, <1>2 DEF OnFile
<1>8. Writes'
  BY <1>1, <1>2, <1>3, <1>4 DEF SInv, Writes, Planned
<1>9. OneSync'
  BY <1>1, <1>2, <1>3, <1>4 DEF OneSync, NoSync, Unsynced
<1>10. Noting' /\ SnapshotFresh'
  BY <1>4, NothingIs DEF Noting, SnapshotFresh
<1> QED
  BY <1>5, <1>6, <1>7, <1>8, <1>9, <1>10 DEF SInv

-----------------------------------------------------------------------------
(* The client dispatches what has come, and binds what it hears of.        *)
LEMMA BindsAre ==
    ASSUME SInv, NEW n \in 0..Len(wire),
           NEW q, q = FlattenSeq([i \in 1..n |-> Binds(wire[i])])
    PROVE  /\ IsSeq(q)
           /\ \A k \in 1..Len(q) :
                 /\ q[k].do \in {"bind_registry", "bind_device"}
                 /\ q[k].do = "bind_device" => q[k].of \in Dev /\ Met(heads[q[k].of])
<1> DEFINE each == [i \in 1..n |-> Binds(wire[i])]
           Good(r) == /\ r.do \in {"bind_registry", "bind_device"}
                      /\ r.do = "bind_device" => r.of \in Dev /\ Met(heads[r.of])
<1>1. wire \in Seq(Events) /\ Len(wire) \in Nat /\ n \in Nat
      /\ \A i \in 1..n : i \in 1..Len(wire)
  <2>1. wire \in Seq(Events)
    BY DEF SInv, Typed
  <2> QED
    BY <2>1
<1>2. ASSUME NEW i \in 1..n
      PROVE  IsSeq(Binds(wire[i])) /\ \A k \in 1..Len(Binds(wire[i])) : Good(Binds(wire[i])[k])
  <2> DEFINE e == wire[i]
             b == Binds(e)
  <2>1. e \in Events /\ (e.ev = "global" => Met(heads[e.of]))
    BY <1>1 DEF SInv, OnWire
  <2>2. e.ev = "global" => e.of \in Dev
    BY <2>1, EventIs DEF GlobalEvents, PlainEvents, ModeEvents
  <2> HIDE DEF e
  <2>3. CASE e.ev = "registry"
    <3>1. b = <<[do |-> "bind_registry", of |-> None]>>
      BY <2>3 DEF Binds
    <3> QED
      BY <3>1, OneLong DEF e
  <2>4. CASE e.ev = "global"
    <3>1. b = <<[do |-> "bind_device", of |-> e.of]>>
      BY <2>4 DEF Binds
    <3>2. Good([do |-> "bind_device", of |-> e.of])
      BY <2>1, <2>2, <2>4
    <3> HIDE DEF Good
    <3> QED
      BY <3>1, <3>2, OneLong DEF e
  <2>5. CASE e.ev \notin {"registry", "global"}
    <3>1. b = << >>
      BY <2>5 DEF Binds
    <3> QED
      BY <3>1, Nothing DEF e
  <2> QED
    BY <2>3, <2>4, <2>5 DEF e
<1> HIDE DEF Good
<1>3. DOMAIN each = 1..n /\ each = [i \in 1..n |-> each[i]]
      /\ \A i \in 1..n : each[i] = Binds(wire[i])
  OBVIOUS
<1> HIDE DEF each
<1>4. IsSeq(each) /\ Len(each) = n
  BY <1>1, <1>3, FunIsSeq
<1>5. IsSeq(FlattenSeq(each))
      /\ \A k \in 1..Len(FlattenSeq(each)) :
            \E i \in 1..Len(each) : \E j \in 1..Len(each[i]) : FlattenSeq(each)[k] = each[i][j]
  <2>1. \A i \in 1..Len(each) : IsSeq(each[i])
    BY <1>2, <1>3, <1>4
  <2> QED
    BY <1>4, <2>1, FlattenHas
<1>6. \A k \in 1..Len(FlattenSeq(each)) : Good(FlattenSeq(each)[k])
  BY <1>2, <1>3, <1>4, <1>5
<1> QED
  BY <1>5, <1>6 DEF each, Good

LEMMA DispatchSteps == ASSUME VInv, SInv, Dispatch PROVE SInv'
<1>1. /\ me.at = "wait" /\ me' = [me EXCEPT !.synced = Synced # {}]
      /\ heads' = heads /\ kwin' = kwin /\ inbox' = inbox /\ hist' = hist
  BY DEF Dispatch
<1>2. PICK n \in DOMAIN wire :
          /\ IF Synced = {} THEN n = Len(wire) ELSE \A i \in Synced : n >= i
          /\ st' \in CaughtUpTo(n)
          /\ req' = req \o FlattenSeq([i \in 1..n |-> Binds(wire[i])])
          /\ wire' = SubSeq(wire, n + 1, Len(wire))
  BY DEF Dispatch
<1> DEFINE q == FlattenSeq([i \in 1..n |-> Binds(wire[i])])
<1>3. /\ wire \in Seq(Events) /\ IsSeq(wire) /\ IsSeq(req) /\ st \in States /\ DOMAIN me = MeNames
      /\ DOMAIN wire = 1..Len(wire) /\ Len(wire) \in Nat /\ n \in 0..Len(wire) /\ n \in Nat
      /\ n >= 1
  <2>1. wire \in Seq(Events) /\ IsSeq(wire) /\ IsSeq(req) /\ st \in States /\ DOMAIN me = MeNames
    BY DEF SInv, Typed, VInv, Shapes
  <2> QED
    BY <2>1
<1>4. st' = At(st, wire, n) /\ st' \in States
  <2>1. CaughtUpTo(n) = {At(st, wire, n)}
    BY <1>3, CaughtUpIs
  <2>2. At(st, wire, n) \in States
    BY <1>3, AtTyped
  <2> QED
    BY <1>2, <2>1, <2>2
<1>5. /\ IsSeq(wire') /\ Len(wire') = Len(wire) - n /\ Len(wire') \in Nat
      /\ \A i \in 1..Len(wire') : n + i \in 1..Len(wire) /\ wire'[i] = wire[n + i]
  <2>1. IsSeq(wire') /\ Len(wire') = Len(wire) - n
        /\ \A i \in 1..Len(wire') : n + i \in 1..Len(wire) /\ wire'[i] = wire[n + i]
    BY <1>2, <1>3, Rest
  <2> QED
    BY <1>3, <2>1
<1>6. wire' \in Seq(Events)
  BY <1>2, <1>3
<1>7. /\ \A i \in 0..(Len(wire) - n) : At(st', wire', i) = At(st, wire, n + i)
      /\ After(st', wire') = After(st, wire)
  BY <1>2, <1>3, <1>4, AtDropped
<1>8. /\ IsSeq(q)
      /\ \A k \in 1..Len(q) :
            /\ q[k].do \in {"bind_registry", "bind_device"}
            /\ q[k].do = "bind_device" => q[k].of \in Dev /\ Met(heads[q[k].of])
  BY <1>3, BindsAre
<1>9. req' = req \o q
  BY <1>2
<1> HIDE DEF q
<1>10. /\ Len(req) \in Nat
       /\ \A i \in 1..Len(req) : i \in 1..Len(req') /\ req'[i] = req[i]
       /\ \A i \in 1..Len(req') : i \notin 1..Len(req) =>
              /\ req'[i].do \in {"bind_registry", "bind_device"}
              /\ req'[i].do = "bind_device" => req'[i].of \in Dev /\ Met(heads[req'[i].of])
  <2>1. /\ Len(req) \in Nat /\ Len(req') = Len(req) + Len(q) /\ Len(q) \in Nat
        /\ \A i \in 1..Len(req) : req'[i] = req[i]
        /\ \A i \in 1..Len(req') : i \notin 1..Len(req) =>
              i - Len(req) \in 1..Len(q) /\ req'[i] = q[i - Len(req)]
    BY <1>3, <1>8, <1>9, Joined, SeqHas
  <2> QED
    BY <1>8, <2>1
<1>11. \A i \in 1..Len(req') : req'[i].do \notin {"bind_registry", "bind_device"} =>
           i \in 1..Len(req) /\ req'[i] = req[i]
  BY <1>10
<1>12. /\ me'.at = me.at /\ me'.then = me.then /\ me'.call = me.call /\ me'.out = me.out
       /\ me'.todo = me.todo /\ me'.snap = me.snap /\ (me'.synced <=> Synced # {})
  BY <1>1, <1>3 DEF MeNames
<1>13. Typed'
  BY <1>1, <1>4, <1>6 DEF SInv, Typed
<1>14. InStep'
  BY <1>1, <1>7 DEF SInv, InStep
<1>15. Unasked'
  BY <1>1, <1>11, <1>12 DEF SInv, Unasked
<1>16. OnWire'
  BY <1>1, <1>5 DEF SInv, OnWire
<1>17. OnFile'
  BY <1>1, <1>10 DEF SInv, OnFile
<1>18. Writes'
  BY <1>1, <1>11, <1>12 DEF SInv, Writes
<1>19. Synced # {} => Unsynced(wire') /\ ~Unsynced(wire) /\ \E i \in 1..n : wire[i].ev = "synced"
  <2> SUFFICES ASSUME NEW i \in Synced
               PROVE  Unsynced(wire') /\ ~Unsynced(wire) /\ \E j \in 1..n : wire[j].ev = "synced"
    OBVIOUS
  <2>1. i \in 1..Len(wire) /\ wire[i].ev = "synced" /\ \A j \in Synced : n >= j
    BY <1>2, <1>3 DEF Synced
  <2>2. Unsynced(wire')
    <3> SUFFICES ASSUME NEW j \in 1..Len(wire'), wire'[j].ev = "synced" PROVE FALSE
      BY DEF Unsynced
    <3>1. n + j \in Synced
      BY <1>3, <1>5 DEF Synced
    <3>2. n >= n + j /\ j >= 1 /\ j \in Nat
      BY <1>5, <2>1, <3>1
    <3> QED
      BY <1>3, <3>2
  <2>3. i \in 1..n
    BY <1>3, <2>1
  <2> QED
    BY <2>1, <2>2, <2>3 DEF Unsynced
<1>20. OneSync'
  <2>1. \A i \in 1..Len(req') : req'[i].do = "sync" => i \in 1..Len(req) /\ req[i].do = "sync"
    BY <1>11
  <2>2. \A i, j \in 1..Len(req') : req'[i].do = "sync" /\ req'[j].do = "sync" => i = j
    BY <2>1 DEF SInv, OneSync
  <2>3. Unsynced(wire) => Unsynced(wire')
    BY <1>5 DEF Unsynced
  <2>4. ~Unsynced(wire') => \A i \in 1..Len(req') : req'[i].do # "sync"
    BY <2>1, <2>3 DEF SInv, OneSync
  <2>5. me'.synced => Unsynced(wire') /\ \A i \in 1..Len(req') : req'[i].do # "sync"
    BY <1>12, <1>19, <2>1 DEF SInv, OneSync
  <2> QED
    BY <1>1, <1>12, <2>2, <2>4, <2>5 DEF OneSync, NoSync
<1>21. Noting'
  <2> SUFFICES ASSUME me.then = "snapshot", NEW d \in Dev, NEW k \in 0..Len(wire'), Ripe(k)'
               PROVE  Witnessed(hist.seen[d], Shows(View(At(st', wire', k), d)))
    BY <1>1, <1>12 DEF SInv, Noting
  <2>1. n + k \in 0..Len(wire) /\ k \in 0..(Len(wire) - n) /\ k \in Nat
    BY <1>3, <1>5
  <2>2. Ripe(n + k)
    <3>1. CASE me'.synced
      <4>1. PICK i \in 1..n : wire[i].ev = "synced"
        BY <1>12, <1>19, <3>1
      <4>2. i \in 1..(n + k)
        BY <1>3, <2>1
      <4> QED
        BY <4>1, <4>2 DEF Ripe
    <3>2. CASE \E i \in 1..k : wire'[i].ev = "synced"
      <4>1. PICK i \in 1..k : wire'[i].ev = "synced"
        BY <3>2
      <4>2. i \in 1..Len(wire') /\ n + i \in 1..(n + k)
        BY <1>3, <1>5, <2>1
      <4>3. wire[n + i].ev = "synced"
        BY <1>5, <4>1, <4>2
      <4> QED
        BY <4>2, <4>3 DEF Ripe
    <3> QED
      BY <3>1, <3>2 DEF Ripe
  <2>3. Witnessed(hist.seen[d], Shows(View(At(st, wire, n + k), d)))
    BY <2>1, <2>2 DEF SInv, Noting
  <2> QED
    BY <1>7, <2>1, <2>3
<1>22. SnapshotFresh'
  BY <1>1, <1>12 DEF SInv, SnapshotFresh, InSnapshot
<1> QED
  BY <1>13, <1>14, <1>15, <1>16, <1>17, <1>18, <1>20, <1>21, <1>22 DEF SInv

-----------------------------------------------------------------------------
(* The invariant holds.                                                    *)
LEMMA FreshIs ==
    /\ Fresh \in States
    /\ \A d \in Dev : View(Fresh, d) = Unseen(FALSE)
<1>1. Fresh \in States
  BY DEF Fresh, States, Devices, Blank
<1>2. ASSUME NEW d \in Dev PROVE View(Fresh, d) = Unseen(FALSE)
  <2>1. Fresh.devices = << >> /\ Fresh.dev[d] = Blank /\ Fresh.modes = << >> /\ Fresh.info = {}
    BY DEF Fresh
  <2>2. KindsOf(Fresh, d) = << >>
    <3>1. ModesOf(Fresh, d) = << >>
      BY <2>1, OnlyNothing DEF ModesOf
    <3>2. IsSeq(<< >>) /\ Len(Paired(d, << >>)) = 0 /\ IsSeq(Paired(d, << >>))
      BY Nothing, PairedIs
    <3>3. Paired(d, << >>) = << >>
      BY <3>2, EmptySeq
    <3> QED
      BY <3>1, <3>2, <3>3, KindsOfPaired
  <2>3. d \notin ToSet(Fresh.devices)
    <3>1. IsSeq(<< >>) /\ Len(<< >>) = 0
      BY Nothing
    <3> QED
      BY <2>1, <3>1, ToSetIs
  <2>4. (d \in ToSet(Fresh.devices)) = FALSE
    BY <2>3
  <2>5. {k \in Kind : <<d, k>> \in Fresh.info} = {}
    BY <2>1
  <2> QED
    BY <2>1, <2>2, <2>4, <2>5 DEF View, Unseen
<1> QED
  BY <1>1, <1>2

LEMMA HeadsAtFirst ==
    ASSUME ~Mute, Init
    PROVE  HeadsOK(heads) /\ \A d \in Dev : heads[d].told = "no"
<1>1. heads \in [Dev -> Head0]
  BY DEF Init
<1>2. (CHOOSE p \in Place : TRUE) \in Place
  BY SomePlace
<1>3. /\ Offered \in Seq(Kind) /\ Once(Offered) /\ Head(Offered) \in Kind
      /\ Head(Offered) \in ToSet(Offered)
  <2>1. Offered \in Seq(Kind) /\ IsSeq(Offered) /\ Offered # << >>
        /\ DOMAIN Offered = 1..Len(Offered)
    BY OfferedModes, SeqIs
  <2>2. 1 \in 1..Len(Offered) /\ Head(Offered) = Offered[1]
    BY <2>1, TailHas
  <2>3. Offered[1] \in Kind
    BY <2>1, <2>2
  <2>4. Offered[1] \in ToSet(Offered)
    BY <2>1, <2>2, ToSetIs
  <2> QED
    BY <2>1, <2>2, <2>3, <2>4, OfferedModes DEF Once
<1>4. ASSUME NEW d \in Dev PROVE HeadOK(heads[d]) /\ heads[d].told = "no"
  <2> DEFINE h == heads[d]
  <2>1. h \in Head0
    BY <1>1
  <2> HIDE DEF h
  <2>2. /\ h.at \in {"new", "there"} /\ h.told = "no" /\ h.on \in BOOLEAN /\ h.prio = 0
        /\ h.place \in Place /\ h.modes = Offered /\ h.mode = Head(Offered)
        /\ h = [at |-> h.at, told |-> h.told, on |-> h.on, prio |-> h.prio,
                place |-> h.place, modes |-> h.modes, mode |-> h.mode]
    BY <1>2, <2>1 DEF Head0
  <2>3. h \in HeadType
    BY <1>3, <2>2 DEF HeadType
  <2> QED
    BY <1>3, <2>2, <2>3 DEF HeadOK, h
<1>5. heads = [d \in Dev |-> heads[d]]
  BY <1>1
<1> QED
  BY <1>4, <1>5 DEF HeadsOK

LEMMA SInit == ASSUME ~Mute, Init PROVE SInv
<1>1. HeadsOK(heads) /\ \A d \in Dev : heads[d].told = "no"
  BY HeadsAtFirst
<1>2. /\ wire = << >> /\ req = << >> /\ inbox = {} /\ st = Fresh
      /\ me.at = "off" /\ me.then = None /\ me.todo = << >> /\ me.out = None
      /\ ~kwin.listening /\ ~kwin.bound
  BY DEF Init
<1>3. IsSeq(<< >>) /\ Len(<< >>) = 0
  BY Nothing
<1>4. Typed
  BY <1>1, <1>2, FreshIs DEF Typed
<1>5. InStep
  <2> SUFFICES ASSUME NEW d \in Dev PROVE View(After(st, wire), d) \in Held(heads[d])
    BY DEF InStep
  <2>1. After(st, wire) = Fresh
    BY <1>2, <1>3, TrajIs DEF After
  <2>2. Held(heads[d]) = {Unseen(FALSE)}
    BY <1>1 DEF Held
  <2> QED
    BY <2>1, <2>2, FreshIs
<1>6. Unasked /\ OnWire /\ OnFile
  BY <1>1, <1>2, <1>3 DEF Unasked, OnWire, OnFile
<1>7. Writes /\ OneSync
  BY <1>2, <1>3, NothingIs DEF Writes, OneSync, NoSync, Unsynced
<1>8. Noting /\ SnapshotFresh
  BY <1>2, NothingIs DEF Noting, SnapshotFresh
<1> QED
  BY <1>4, <1>5, <1>6, <1>7, <1>8 DEF SInv

LEMMA SNext == ASSUME ~Mute, VInv, SInv, [Next]_vars PROVE SInv'
<1>1. CASE UNCHANGED vars
  BY <1>1 DEF vars, SInv, Typed, InStep, Unasked, OnWire, OnFile, Writes, OneSync, NoSync,
              Unsynced, Noting, Ripe, SnapshotFresh, InSnapshot
<1>2. CASE Call
  BY <1>2, ConnectSteps, CallSnapshotSteps, CallApplySteps DEF Call
<1>3. CASE Client
  BY <1>3, DispatchSteps, TripSteps, SnapshotSteps, ApplySteps, SubmitSteps DEF Client
<1>4. CASE Deadline
  BY <1>4, TripSteps
<1>5. CASE Serve
  BY <1>5, ServeSteps
<1>6. CASE Verdict
  BY <1>6, VerdictSteps
<1>7. CASE Outside
  BY <1>7, OutsideKept
<1>8. CASE AllDone
  BY <1>1, <1>8 DEF AllDone
<1> QED
  BY <1>1, <1>2, <1>3, <1>4, <1>5, <1>6, <1>7, <1>8 DEF Next

LEMMA InStepShows ==
    ASSUME SInv
    PROVE  CaughtUp
<1> DEFINE s == After(st, wire)
<1>1. wire \in Seq(Events) /\ st \in States /\ HeadsOK(heads)
  BY DEF SInv, Typed
<1>2. IsSeq(wire) /\ Len(wire) \in 0..Len(wire) /\ s \in States
  BY <1>1, AtTyped
<1>3. CaughtUpTo(Len(wire)) = {s}
  BY <1>2, CaughtUpIs DEF After
<1>4. ASSUME NEW d \in Dev
      PROVE  IF d \in There /\ heads[d].told = "described"
             THEN /\ Contains(LiveHeads(s), d)
                  /\ HeadShown(s, d) = Shown(heads[d])
                  /\ [i \in DOMAIN ModesOf(s, d) |-> ModesOf(s, d)[i][2]] = heads[d].modes
             ELSE ~Contains(LiveHeads(s), d) /\ ModesOf(s, d) = << >>
  <2> DEFINE v == View(s, d)
             h == heads[d]
  <2>1. v \in Held(h)
    BY DEF SInv, InStep
  <2>2. HeadOK(h)
    BY <1>1 DEF HeadsOK
  <2>3. v.modes = KindsOf(s, d) /\ ModesOf(s, d) = Paired(d, KindsOf(s, d))
    BY <1>2, ViewTyped, KindsAre
  <2>4. /\ Contains(LiveHeads(s), d) <=> d \in ToSet(LiveHeads(s))
        /\ d \in ToSet(LiveHeads(s)) <=> v.here /\ v.dev.named /\ v.dev.done
        /\ d \in ToSet(LiveHeads(s)) => HeadShown(s, d) = Shows(v)
    <3> HIDE DEF s
    <3>1. Contains(LiveHeads(s), d) <=> d \in ToSet(LiveHeads(s))
      BY <1>2, LiveIs
    <3>2. d \in ToSet(LiveHeads(s)) <=> v.here /\ v.dev.named /\ v.dev.done
      BY <1>2, SnapshotIs
    <3>3. d \in ToSet(LiveHeads(s)) => HeadShown(s, d) = Shows(v)
      BY <1>2, SnapshotIs
    <3> QED
      BY <3>1, <3>2, <3>3
  <2> HIDE DEF v, s
  <2>5. CASE d \in There /\ h.told = "described"
    <3>1. v = Full(h)
      BY <2>1, <2>5 DEF Held, There
    <3>2. v.here /\ v.dev.named /\ v.dev.done /\ v.modes = h.modes
      BY <3>1 DEF Full, Listed, Pieces
    <3>3. Shows(v) = Shown(h)
      BY <2>2, <3>1, FullIs
    <3>4. Contains(LiveHeads(s), d) /\ HeadShown(s, d) = Shown(h)
      BY <2>4, <3>2, <3>3
    <3>5. [i \in DOMAIN ModesOf(s, d) |-> ModesOf(s, d)[i][2]] = h.modes
      BY <2>3, <3>2 DEF KindsOf
    <3> QED
      BY <2>5, <3>4, <3>5
  <2>6. CASE ~(d \in There /\ h.told = "described")
    <3>1. \E b \in BOOLEAN : v = Unseen(b)
      BY <2>1, <2>6 DEF Held, There
    <3>2. ~v.dev.done /\ v.modes = << >>
      BY <3>1 DEF Unseen, Blank
    <3>3. ModesOf(s, d) = << >>
      <4>1. IsSeq(<< >>) /\ Len(<< >>) = 0
        BY Nothing
      <4>2. Paired(d, << >>) = << >>
        BY <4>1, PairedIs, EmptySeq
      <4> QED
        BY <2>3, <3>2, <4>2
    <3> QED
      BY <2>4, <2>6, <3>2, <3>3
  <2> QED
    BY <2>5, <2>6
<1> HIDE DEF s
<1> QED
  BY <1>3, <1>4 DEF CaughtUp

(* The handlers lose nothing and keep nothing: with the events under way   *)
(* the State is KWin's again, head by head and mode by mode, after whatever*)
(* has come and gone, unless KWin never sends current_mode.                *)
THEOREM HandlersCatchUp == ASSUME ~Mute PROVE Spec => []CaughtUp
<1>1. Init => VInv /\ SInv
  BY VInit, SInit
<1>2. VInv /\ SInv /\ [Next]_vars => VInv' /\ SInv'
  BY VNext, SNext
<1>3. VInv /\ SInv => CaughtUp
  BY InStepShows
<1> QED
  BY <1>1, <1>2, <1>3, PTL DEF Spec

(* A snapshot has every head as KWin had told of it at some time since the *)
(* call, wherever the read that ends its round trip has stopped.           *)
THEOREM SnapshotsAreFresh == ASSUME ~Mute PROVE Spec => []SnapshotFresh
<1>1. Init => VInv /\ SInv
  BY VInit, SInit
<1>2. VInv /\ SInv /\ [Next]_vars => VInv' /\ SInv'
  BY VNext, SNext
<1>3. VInv /\ SInv => SnapshotFresh
  BY DEF SInv
<1> QED
  BY <1>1, <1>2, <1>3, PTL DEF Spec
=============================================================================
