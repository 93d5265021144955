----------------------------- MODULE KdeSession -----------------------------
(***************************************************************************)
(* The Plasma adapter's session with KWin: its calls (connect, snapshot,   *)
(* apply, restore in compositor/kde.rs) as round trips over a Wayland      *)
(* connection (compositor/wayland.rs), while outputs come, go and change   *)
(* and KWin decides late or never.                                         *)
(*                                                                         *)
(* KWin itself is external: it sends each connection a description of an   *)
(* output when it is bound, then what changes, each time ended by `done`.  *)
(***************************************************************************)
EXTENDS KdeState

CONSTANTS
    Place,          \* where heads may be
    Offered,        \* the modes of a device that is plugged in
    Plans,          \* the plans the caller may have
    MaxCalls,       \* how often the caller calls
    MaxChanges,     \* how much happens to KWin's outputs
    Happens,        \* what may: "come", "go", "rearrange", "modes", "quit"
    Legacy,         \* is it Plasma before 6.7: {TRUE}, {FALSE} or either
    Mute            \* KWin never sends current_mode

ASSUME NoneIsNothing ==
    /\ None \notin Place /\ None \notin Kind
    /\ None \notin {"globals", "burst", "snapshot", "refresh", "verdict", "ok", "failed"}
    /\ None \notin [is : {"applied", "failed"}, why : Nat \cup {None}]
ASSUME OfferedModes ==
    /\ Offered \in Seq(Kind) /\ Offered # << >>
    /\ \A i, j \in DOMAIN Offered : Offered[i] = Offered[j] => i = j
ASSUME Rates == \A k \in Kind : k.mhz \in Nat
ASSUME SomePlace == Place # {}
ASSUME PlansAre ==          \* what OutputPlan's builder accepts
    \A p \in Plans :
        /\ DOMAIN p = {"en", "dis", "primary", "native"}
        /\ p.dis \cap DOMAIN p.en = {}
        /\ \A n \in DOMAIN p.en :
              p.en[n].mode \in Kind \cup {None} /\ p.en[n].place \in Place \cup {None}
ASSUME Bounds == MaxCalls \in Nat /\ MaxChanges \in Nat
ASSUME Variants == Legacy \subseteq BOOLEAN /\ Mute \in BOOLEAN

VARIABLES
    heads,      \* KWin's outputs, and what it has told this client of each
    kwin,       \* the globals KWin has, what this client has bound, is it up
    inbox,      \* configurations KWin has not decided
    req,        \* requests on their way to KWin
    wire,       \* events on their way to the client
    st,         \* the adapter's State
    me,         \* the call under way, or the last one
    changes,    \* how often the outputs have changed
    hist        \* history: see Begun, KwinHas and Verdict

vars == <<heads, kwin, inbox, req, wire, st, me, changes, hist>>

Busy == me.at \in {"wait", "sleep"}
There == {d \in Dev : heads[d].at = "there"}

-----------------------------------------------------------------------------
(* What KWin sends.                                                        *)

Shown(h) == [on |-> h.on, mode |-> h.mode, place |-> h.place]
Absent == [on |-> FALSE, mode |-> None, place |-> None]

(* A head as KWin has described it to this client.                         *)
Told(h) == IF h.at = "there" /\ h.told = "described" THEN Shown(h) ELSE Absent

Current(d, k) == IF Mute THEN << >> ELSE <<Event("current_mode", d, k)>>
NewMode(d, k) == <<Event("mode", d, k), Event("size_refresh", d, k)>>

Burst(d) ==
    LET h == heads[d] IN
    <<Event("name", d, None), Event("geometry", d, h.place)>>
    \o FlattenSeq([i \in DOMAIN h.modes |-> NewMode(d, h.modes[i])])
    \o Current(d, h.mode)
    \o <<Event("enabled", d, h.on), Event("done", d, None)>>

(* How KWin tells the client that d, as it was, is now h.                  *)
News(d, h) ==
    If(heads[d].told = "described" /\ Shown(h) # Shown(heads[d]),
       If(h.place # heads[d].place, <<Event("geometry", d, h.place)>>)
       \o If(h.mode # heads[d].mode, Current(d, h.mode))
       \o If(h.on # heads[d].on, <<Event("enabled", d, h.on)>>)
       \o <<Event("done", d, None)>>)

-----------------------------------------------------------------------------
(* `seen` collects, while a snapshot is taken, what KWin tells of each head.*)
Seen(h) ==
    IF me.then = "snapshot" THEN [d \in Dev |-> hist.seen[d] \cup {Told(h[d])}]
    ELSE hist.seen

KwinHas(h) ==
    /\ heads' = h
    /\ hist' = [hist EXCEPT !.seen = Seen(h)]

(* KWin's answer to the next request.                                      *)
AnswerGlobals(r) ==
    LET old == IF kwin.legacy THEN There ELSE {} IN
    /\ r.do = "globals"
    /\ kwin' = [kwin EXCEPT !.listening = TRUE]
    /\ wire' = wire
          \o If("manager" \in kwin.globals, <<Event("manager", None, None)>>)
          \o If("registry" \in kwin.globals, <<Event("registry", None, None)>>)
          \o FlattenSeq([d \in Dev |-> If(d \in old, <<Event("global", d, None)>>)])
    /\ KwinHas([d \in Dev |-> [heads[d] EXCEPT
          !.told = IF d \in old THEN "offered" ELSE @]])
    /\ UNCHANGED inbox

Described(D) ==
    KwinHas([d \in Dev |-> [heads[d] EXCEPT !.told = IF d \in D THEN "described" ELSE @]])

AnswerBindRegistry(r) ==
    /\ r.do = "bind_registry"
    /\ kwin' = [kwin EXCEPT !.bound = TRUE]
    /\ wire' = wire \o FlattenSeq([d \in Dev |->
                    If(d \in There, <<Event("output", d, None)>> \o Burst(d))])
    /\ Described(There)
    /\ UNCHANGED inbox

AnswerBindDevice(r) ==
    /\ r.do = "bind_device"
    /\ wire' = wire \o If(r.of \in There, Burst(r.of))
    /\ Described({r.of} \cap There)
    /\ UNCHANGED <<kwin, inbox>>

AnswerSync(r) ==
    /\ r.do = "sync"
    /\ wire' = Append(wire, Event("synced", None, None))
    /\ UNCHANGED <<heads, hist, kwin, inbox>>

TakeConfiguration(r) ==
    /\ r.do = "apply"
    /\ inbox' = inbox \cup {r.of}
    /\ UNCHANGED <<heads, hist, kwin, wire>>

Serve ==
    /\ kwin.up /\ req # << >>
    /\ req' = Tail(req)
    /\ LET r == Head(req) IN
          \/ AnswerGlobals(r) \/ AnswerBindRegistry(r) \/ AnswerBindDevice(r)
          \/ AnswerSync(r) \/ TakeConfiguration(r)
    /\ UNCHANGED <<st, me, changes>>

(* A configuration comes into force: what it does not write stays, but for *)
(* the priority, which falls to 0.                                         *)
Configured(c) ==
    LET value(f, d, was) == IF d \in DOMAIN f THEN f[d] ELSE was IN
    [d \in Dev |->
        IF d \notin There THEN heads[d]
        ELSE [heads[d] EXCEPT !.on = value(c.on, d, @), !.mode = value(c.mode, d, @),
                              !.place = value(c.place, d, @), !.prio = value(c.prio, d, 0)]]

Possible(c) ==
    /\ \E d \in There : Configured(c)[d].on
    /\ \A d \in There : Contains(heads[d].modes, Configured(c)[d].mode)

Applies(c) ==
    LET h == Configured(c) IN
    /\ Possible(c)
    /\ heads' = h
    /\ hist' = [hist EXCEPT
          !.seen = Seen(h),
          !.alone = @ /\ Busy /\ c.id \in st.cfgs,
          !.fate[c.id] = [is |-> "applied", why |-> None]]
    /\ wire' = wire \o FlattenSeq([d \in Dev |-> If(d \in There, News(d, h[d]))])
                    \o <<Event("applied", c.id, None)>>

Refuses(c) ==
    \E why \in {None, c.id} :
        /\ hist' = [hist EXCEPT !.fate[c.id] = [is |-> "failed", why |-> why]]
        /\ wire' = wire \o If(why # None, <<Event("failure_reason", c.id, why)>>)
                        \o <<Event("failed", c.id, None)>>
        /\ UNCHANGED heads

(* KWin decides when it likes, also when nobody waits any more.  Like all  *)
(* that it does it comes after the requests KWin has: what comes between   *)
(* two of them is dispatched with their answers too (see Dispatch).        *)
Verdict ==
    /\ kwin.up /\ req = << >>
    /\ \E c \in inbox :
          /\ inbox' = inbox \ {c}
          /\ Applies(c) \/ Refuses(c)
    /\ UNCHANGED <<kwin, req, st, me, changes>>

-----------------------------------------------------------------------------
(* What happens to KWin and its outputs, as long as there is a call to see *)
(* it.                                                                     *)
Finished == me.at = "closed" \/ (me.at = "idle" /\ me.calls = MaxCalls)

Change(h, news) ==
    /\ kwin.up /\ req = << >> /\ ~Finished
    /\ changes < MaxChanges
    /\ changes' = changes + 1
    /\ heads' = h
    /\ hist' = [hist EXCEPT !.seen = Seen(h), !.alone = FALSE]
    /\ wire' = wire \o news
    /\ UNCHANGED <<inbox, req, st, me>>

Unused(d) == \A e \in There : Connector[e] # Connector[d]

Plug(d) ==
    /\ heads[d].at = "new" /\ Unused(d)
    /\ LET told == IF kwin.bound THEN "described"
                   ELSE IF kwin.listening /\ kwin.legacy THEN "offered" ELSE "no"
       IN Change([heads EXCEPT ![d].at = "there", ![d].told = told],
                 CASE told = "described" -> <<Event("output", d, None)>> \o Burst(d)
                   [] told = "offered" -> <<Event("global", d, None)>>
                   [] OTHER -> << >>)
    /\ UNCHANGED kwin

Unplug(d) ==
    /\ Change([heads EXCEPT ![d].at = "gone"],
              If(heads[d].told # "no",
                 <<Event(IF kwin.legacy THEN "global_remove" ELSE "removed", d, None)>>))
    /\ UNCHANGED kwin

(* The user rearranges the outputs.                                        *)
Rearrange(d) ==
    /\ \E on \in BOOLEAN, place \in Place, k \in ToSet(heads[d].modes) :
          LET h == [heads[d] EXCEPT !.on = on, !.place = place, !.mode = k] IN
          /\ Shown(h) # Shown(heads[d])
          /\ Change([heads EXCEPT ![d] = h], News(d, h))
    /\ UNCHANGED kwin

(* An output loses a mode, and takes another if it was in it; what is said *)
(* first is KWin's choice.                                                 *)
LoseMode(d) ==
    /\ \E k \in ToSet(heads[d].modes) : \E next \in ToSet(heads[d].modes) \ {k} :
          LET h == [heads[d] EXCEPT !.modes = Only(@, Kind \ {k}),
                                    !.mode = IF @ = k THEN next ELSE @]
              gone == If(heads[d].told = "described", <<Event("mode_removed", d, k)>>)
          IN \E news \in {gone \o News(d, h), News(d, h) \o gone} :
                Change([heads EXCEPT ![d] = h], news)
    /\ UNCHANGED kwin

GainMode(d) ==
    /\ \E k \in Kind \ ToSet(heads[d].modes) :
          \E now \in {heads[d].mode, k} :
             LET h == [heads[d] EXCEPT !.modes = Append(@, k), !.mode = now] IN
             Change([heads EXCEPT ![d] = h],
                    If(heads[d].told = "described",
                       NewMode(d, k) \o If(now = k, Current(d, k))
                       \o <<Event("done", d, None)>>))
    /\ UNCHANGED kwin

(* KWin withdraws a global, on its way out, and is gone.                   *)
Withdraw(global, news) ==
    /\ global \in kwin.globals
    /\ kwin' = [kwin EXCEPT !.globals = @ \ {global}]
    /\ Change(heads, If(kwin.listening, <<Event(news, None, None)>>))

Crash ==
    /\ kwin' = [kwin EXCEPT !.up = FALSE]
    /\ Change(heads, << >>)

Quit ==
    \/ Withdraw("manager", "manager_gone")
    \/ Withdraw("registry", "registry_gone")
    \/ Crash

Outside ==
    \/ "come" \in Happens /\ \E d \in Dev : Plug(d)
    \/ "go" \in Happens /\ \E d \in There : Unplug(d)
    \/ "rearrange" \in Happens /\ \E d \in There : Rearrange(d)
    \/ "modes" \in Happens /\ \E d \in There : LoseMode(d) \/ GainMode(d)
    \/ "quit" \in Happens /\ Quit

-----------------------------------------------------------------------------
(* The client.  A call is a row of round trips, `then` says what for.      *)

RoundTrip(call, then) == [call EXCEPT !.at = "wait", !.then = then, !.synced = FALSE]
Sync == [do |-> "sync", of |-> None]

Over(out, why) ==
    [me EXCEPT !.at = "idle", !.then = None, !.synced = FALSE, !.late = FALSE,
               !.todo = << >>, !.out = out, !.why = why]

(* A call begins.  hist: the outputs then, whether nothing but the call has*)
(* changed them since, and how many configurations had been sent.          *)
Begun == [hist EXCEPT !.before = heads, !.alone = TRUE, !.sent = Len(hist.fate),
                      !.seen = [d \in Dev |-> {Told(heads[d])}]]

Connect ==
    /\ me.at = "off"
    /\ me' = RoundTrip(me, "globals")
    /\ req' = <<[do |-> "globals", of |-> None], Sync>>
    /\ hist' = Begun
    /\ UNCHANGED <<heads, kwin, inbox, wire, st, changes>>

(* What the State is, one value, once the next n events are dispatched.    *)
CaughtUpTo(n) ==
    LET after[i \in 0..n] ==
            IF i = 0 THEN {st} ELSE {Handled(s, wire[i]) : s \in after[i - 1]}
    IN after[n]

(* The client blocks until there are events and dispatches all that it has *)
(* read.  Where its read ends matters only once the sync's answer is in it:*)
(* a round trip may then take in a part, down to one event, of what KWin   *)
(* has said since.                                                         *)
Synced == {i \in DOMAIN wire : wire[i].ev = "synced"}

Dispatch ==
    /\ me.at = "wait" /\ ~me.synced
    /\ wire # << >>
    /\ \E n \in DOMAIN wire :
          /\ IF Synced = {} THEN n = Len(wire) ELSE \A i \in Synced : n >= i
          /\ st' \in CaughtUpTo(n)
          /\ req' = req \o FlattenSeq([i \in 1..n |-> Binds(wire[i])])
          /\ wire' = SubSeq(wire, n + 1, Len(wire))
    /\ me' = [me EXCEPT !.synced = Synced # {}]
    /\ UNCHANGED <<heads, kwin, inbox, changes, hist>>

Trip(then) == me.at = "wait" /\ me.synced /\ me.then = then

(* connect, after "kde: registry".  The manager is alive, whatever came    *)
(* of it in the meantime.                                                  *)
NotKwin ==
    /\ Trip("globals")
    /\ ~st.manager \/ (~st.registry /\ st.devices = << >>)
    /\ me' = [Over(IF st.manager THEN "missing" ELSE "none", None) EXCEPT !.at = "closed"]
    /\ UNCHANGED <<heads, kwin, inbox, req, wire, st, changes, hist>>

GetBurst ==
    /\ Trip("globals")
    /\ st.manager /\ (st.registry \/ st.devices # << >>)
    /\ st' = [st EXCEPT !.alive = TRUE]
    /\ me' = RoundTrip(me, "burst")
    /\ req' = Append(req, Sync)
    /\ UNCHANGED <<heads, kwin, inbox, wire, changes, hist>>

Connected ==
    /\ Trip("burst")
    /\ me' = Over("connected", None)
    /\ UNCHANGED <<heads, kwin, inbox, req, wire, st, changes, hist>>

Calls(call, plan, todo) ==
    [me EXCEPT !.calls = @ + 1, !.call = call, !.plan = plan, !.todo = todo,
               !.snap = << >>, !.out = None, !.why = None]

MayCall == me.at = "idle" /\ me.calls < MaxCalls

(* A wrong variant of CallSnapshot: what has come is shown at once.        *)
ShowAtOnce ==
    /\ MayCall
    /\ me' = [Calls("snapshot", None, << >>) EXCEPT !.snap = SnapshotOf(st), !.out = "ok"]
    /\ hist' = Begun
    /\ UNCHANGED <<heads, kwin, inbox, req, wire, st, changes>>

CallSnapshot ==
    /\ MayCall
    /\ me' = RoundTrip(Calls("snapshot", None, << >>), "snapshot")
    /\ req' = Append(req, Sync)
    /\ hist' = Begun
    /\ UNCHANGED <<heads, kwin, inbox, wire, st, changes>>

Snapshot ==
    /\ Trip("snapshot")
    /\ me' = [Over("ok", None) EXCEPT !.snap = SnapshotOf(st)]
    /\ UNCHANGED <<heads, kwin, inbox, req, wire, st, changes, hist>>

(* apply, and restore, which is one apply or two.  Native-gamut SDR is     *)
(* turned down at once, anything else begins with "kde: apply refresh".    *)
CallApply ==
    /\ MayCall
    /\ \E plan \in Plans : \E todo \in {<<plan>>, Applications(plan)} :
          LET mine == Calls("apply", plan, todo) IN
          IF plan.native
          THEN /\ me' = [mine EXCEPT !.todo = << >>, !.out = "rejected"]
               /\ UNCHANGED req
          ELSE /\ me' = RoundTrip(mine, "refresh")
               /\ req' = Append(req, Sync)
    /\ hist' = Begun
    /\ UNCHANGED <<heads, kwin, inbox, wire, st, changes>>

(* A wrong variant of ApplyReturns: restore does not look at the result.   *)
GoOnAnyway(out, why) ==
    IF Len(me.todo) > 1
    THEN /\ me' = RoundTrip([me EXCEPT !.todo = Tail(@), !.late = FALSE], "refresh")
         /\ req' = Append(req, Sync)
    ELSE /\ me' = Over(out, why)
         /\ UNCHANGED req

(* apply returns: its configuration is destroyed; after an Ok, restore     *)
(* goes on to its second plan.                                             *)
ApplyReturns(out, why) ==
    IF out = "ok" /\ Len(me.todo) > 1
    THEN /\ me' = RoundTrip([me EXCEPT !.todo = Tail(@), !.late = FALSE], "refresh")
         /\ req' = Append(req, Sync)
    ELSE /\ me' = Over(out, why)
         /\ UNCHANGED req

(* submit: nothing to write, or the slot for the result is emptied and the *)
(* configuration sent.                                                     *)
NothingToApply ==
    /\ Trip("refresh")
    /\ LiveHeads(st) = << >>
    /\ ApplyReturns("ok", None)
    /\ UNCHANGED <<heads, kwin, inbox, wire, st, changes, hist>>

(* A wrong variant of SlotEmptied: an old reason stays.                    *)
ReasonKept(id) == [st EXCEPT !.result = None, !.cfgs = @ \cup {id}]

SlotEmptied(id) ==
    [st EXCEPT !.result = None, !.reason = None, !.cfgs = @ \cup {id}]

Submit ==
    /\ Trip("refresh")
    /\ LiveHeads(st) # << >>
    /\ LET id == Len(hist.fate) + 1
           c == Configuration(st, Head(me.todo))
       IN /\ st' = SlotEmptied(id)
          /\ req' = req \o <<[do |-> "apply",
                              of |-> [id |-> id, on |-> c.on, mode |-> c.mode,
                                      place |-> c.place, prio |-> c.prio]], Sync>>
          /\ hist' = [hist EXCEPT !.fate = Append(@, None)]
    /\ me' = RoundTrip(me, "verdict")
    /\ UNCHANGED <<heads, kwin, inbox, wire, changes>>

(* A wrong variant of Destroyed: the configuration is left alone.          *)
LeftAlone == st

Destroyed == [st EXCEPT !.cfgs = {}]

(* The loop of poll_until, after a round trip: the manager has gone, or    *)
(* there is a result, or the deadline has passed, or wait for events.      *)
Went ==
    /\ Trip("verdict") /\ ~st.alive
    /\ st' = Destroyed
    /\ ApplyReturns("gone", None)
    /\ UNCHANGED <<heads, kwin, inbox, wire, changes, hist>>

Answered ==
    /\ Trip("verdict") /\ st.alive /\ st.result # None
    /\ st' = [Destroyed EXCEPT !.result = None]
    /\ ApplyReturns(IF st.result.is = "applied" THEN "ok" ELSE "failed", st.result.why)
    /\ UNCHANGED <<heads, kwin, inbox, wire, changes, hist>>

TimedOut ==
    /\ Trip("verdict") /\ st.alive /\ st.result = None
    /\ me.late
    /\ st' = Destroyed
    /\ ApplyReturns("timeout", None)
    /\ UNCHANGED <<heads, kwin, inbox, wire, changes, hist>>

Sleep ==
    /\ Trip("verdict") /\ st.alive /\ st.result = None
    /\ ~me.late
    /\ me' = [me EXCEPT !.at = "sleep"]
    /\ UNCHANGED <<heads, kwin, inbox, req, wire, st, changes, hist>>

(* A wrong variant of Wake: poll(2) without the time remaining.            *)
WakeForEvents ==
    /\ me.at = "sleep"
    /\ wire # << >> \/ ~kwin.up
    /\ me' = RoundTrip(me, "verdict")
    /\ req' = Append(req, Sync)
    /\ UNCHANGED <<heads, kwin, inbox, wire, st, changes, hist>>

(* poll(2) returns: there are events, or KWin has closed, or it is late.   *)
Wake ==
    /\ me.at = "sleep"
    /\ wire # << >> \/ ~kwin.up \/ me.late
    /\ me' = RoundTrip(me, "verdict")
    /\ req' = Append(req, Sync)
    /\ UNCHANGED <<heads, kwin, inbox, wire, st, changes, hist>>

(* APPLY_TIMEOUT has passed, in poll(2) or by the time it is looked at.    *)
Deadline ==
    /\ me.at = "sleep" \/ (Trip("verdict") /\ st.result = None)
    /\ ~me.late
    /\ me' = [me EXCEPT !.late = TRUE]
    /\ UNCHANGED <<heads, kwin, inbox, req, wire, st, changes, hist>>

(* A round trip over a connection that KWin has closed.                    *)
Broken ==
    /\ me.at = "wait" /\ ~kwin.up
    /\ st' = Destroyed
    /\ me' = [Over("lost", None) EXCEPT !.at = "closed"]
    /\ UNCHANGED <<heads, kwin, inbox, req, wire, changes, hist>>

Client ==
    \/ Dispatch \/ NotKwin \/ GetBurst \/ Connected \/ Snapshot
    \/ NothingToApply \/ Submit \/ Went \/ Answered \/ TimedOut \/ Sleep
    \/ Wake \/ Broken

-----------------------------------------------------------------------------
Head0 == [at : {"new", "there"}, told : {"no"}, on : BOOLEAN, prio : {0},
          place : {CHOOSE p \in Place : TRUE}, modes : {Offered},
          mode : {IF Mute THEN Last(Offered) ELSE Head(Offered)}]

Init ==
    /\ heads \in [Dev -> Head0]
    /\ \E d \in There : heads[d].on
    /\ \A d \in Dev \ There : heads[d].on
    /\ \A d \in There, e \in Dev : Connector[d] = Connector[e] => d <= e
    /\ \E legacy \in Legacy :
          kwin = [globals |-> IF legacy THEN {"manager"} ELSE {"manager", "registry"},
                  legacy |-> legacy, listening |-> FALSE, bound |-> FALSE, up |-> TRUE]
    /\ inbox = {}
    /\ req = << >>
    /\ wire = << >>
    /\ st = Fresh
    /\ me = [at |-> "off", then |-> None, synced |-> FALSE, late |-> FALSE,
             calls |-> 0, call |-> "connect", plan |-> None, todo |-> << >>, out |-> None,
             why |-> None, snap |-> << >>]
    /\ changes = 0
    /\ hist = [before |-> heads, alone |-> TRUE, seen |-> [d \in Dev |-> {}],
               fate |-> << >>, sent |-> 0]

Call == Connect \/ CallSnapshot \/ CallApply

(* The caller makes no more calls, or has lost the session.                *)
AllDone ==
    /\ Finished
    /\ UNCHANGED vars

Next == Call \/ Client \/ Deadline \/ Serve \/ Verdict \/ Outside \/ AllDone

(* The client runs, time passes, KWin answers requests in their order; it  *)
(* need not ever decide a configuration.                                   *)
Spec == Init /\ [][Next]_vars
Fairness == WF_vars(Client \/ Deadline \/ Serve)
FairSpec == Spec /\ Fairness

-----------------------------------------------------------------------------
HeadType ==
    [at : {"new", "there", "gone"}, told : {"no", "offered", "described"},
     on : BOOLEAN, prio : Nat, place : Place, modes : Seq(Kind), mode : Kind]

Verdicts == [is : {"applied", "failed"}, why : Nat \cup {None}]

StateType ==
    [manager : BOOLEAN, alive : BOOLEAN, registry : BOOLEAN, devices : Seq(Dev),
     dev : [Dev -> [named : BOOLEAN, on : BOOLEAN, mode : Kind \cup {None},
                    place : Place \cup {None}, done : BOOLEAN]],
     modes : Seq(Dev \X Kind), info : SUBSET (Dev \X Kind),
     result : Verdicts \cup {None}, reason : Nat \cup {None}, cfgs : SUBSET (1..Len(hist.fate))]

(* A head that is shown has always a place.                                *)
SnapType == [on : BOOLEAN, mode : Kind \cup {Unsized, None}, place : Place]

TypeOK ==
    /\ heads \in [Dev -> HeadType]
    /\ kwin \in [globals : SUBSET {"manager", "registry"}, legacy : BOOLEAN,
                 listening : BOOLEAN, bound : BOOLEAN, up : BOOLEAN]
    /\ \A c \in inbox : c.id \in DOMAIN hist.fate
    /\ \A i \in DOMAIN req : req[i].do \in {"globals", "bind_registry", "bind_device", "sync", "apply"}
    /\ st \in StateType
    /\ me.at \in {"off", "wait", "sleep", "idle", "closed"}
    /\ me.at = "wait" <=> me.then # None /\ me.at # "sleep"
    /\ Cardinality(st.cfgs) = IF me.then = "verdict" THEN 1 ELSE 0
    /\ Len(me.todo) \in 0..2
    /\ \A d \in DOMAIN me.snap : d \in Dev /\ me.snap[d] \in SnapType
    /\ me.calls \in 0..MaxCalls
    /\ changes \in 0..MaxChanges
    /\ hist.fate \in Seq(Verdicts \cup {None})

(* The handlers lose nothing and keep nothing: whatever has come and gone, *)
(* with the events that are under way the State is KWin's again, head by   *)
(* head and mode by mode, and what is unplugged has left no trace ("so     *)
(* subsequent snapshots don't surface stale state").                       *)
CaughtUp ==
    \A s \in CaughtUpTo(Len(wire)), d \in Dev :
        IF d \in There /\ heads[d].told = "described"
        THEN /\ Contains(LiveHeads(s), d)
             /\ HeadShown(s, d) = Shown(heads[d])
             /\ [i \in DOMAIN ModesOf(s, d) |-> ModesOf(s, d)[i][2]] = heads[d].modes
        ELSE ~Contains(LiveHeads(s), d) /\ ModesOf(s, d) = << >>

InSnapshot(d) == IF d \in DOMAIN me.snap THEN me.snap[d] ELSE Absent

(* "Force a fresh roundtrip so the snapshot reflects KWin's current state":*)
(* a snapshot has every head as KWin had told of it at some time since the *)
(* call; a head that came to be within the call is in it whole or not at   *)
(* all.  (A head that changed within the call may be in it half-changed.)  *)
SnapshotFresh ==
    me.call = "snapshot" /\ me.out = "ok" =>
        \A d \in Dev :
            \/ InSnapshot(d) \in hist.seen[d]
            \/ Cardinality(hist.seen[d] \ {Absent}) > 1

Applying == me.call = "apply"

(* What apply returns is KWin's answer to the configurations it has sent   *)
(* itself, and a failure's reason the one given for the last of them:      *)
(* never those of one that was given up before, which KWin may yet answer. *)
VerdictOurs ==
    Applying /\ me.out \in {"ok", "failed"} =>
        /\ \A i \in DOMAIN hist.fate :
              i > hist.sent /\ (me.out = "ok" \/ i < Len(hist.fate)) =>
                  hist.fate[i] = [is |-> "applied", why |-> None]
        /\ me.out = "failed" =>
              /\ Len(hist.fate) > hist.sent
              /\ Last(hist.fate) = [is |-> "failed", why |-> me.why]

(* An apply that returns Ok while nothing else changes the outputs has made*)
(* of every head KWin had described before what the plan wants: disabled   *)
(* wins, an enabled head is on, in the nearest mode it offers and in its   *)
(* place, an unmentioned head is as it was; and the plan's primary, if it  *)
(* is there, alone has the first priority ("priority resets to 0 unless    *)
(* re-asserted on every apply").                                           *)
AppliedIsPlan ==
    Applying /\ me.at = "idle" /\ me.out = "ok" /\ hist.alone =>
        LET plan == me.plan
            known == {d \in There : hist.before[d].told = "described"}
        IN \A d \in known :
            LET n == Connector[d]
                was == hist.before[d]
                is == heads[d]
                want == IF n \in DOMAIN plan.en THEN plan.en[n].mode ELSE None
                like == {k \in ToSet(is.modes) : want # None /\ k.size = want.size}
            IN
            /\ is.on <=> n \notin plan.dis /\ (n \in DOMAIN plan.en \/ was.on)
            /\ n \in DOMAIN plan.en =>
                  /\ is.place = Or(plan.en[n].place, was.place)
                  /\ like = {} => is.mode = was.mode
                  /\ like # {} => is.mode \in like /\ \A k \in like :
                        Apart(is.mode, want) <= Apart(k, want)
            /\ n \notin DOMAIN plan.en => is.place = was.place /\ is.mode = was.mode
            /\ is.prio > 0
            /\ plan.primary # None => (is.prio = 1 <=> n = plan.primary)
            /\ \A e \in known \ {d} : is.prio # heads[e].prio

(* "Bring back real outputs before removing Plasma's current screen": the  *)
(* second configuration of a restore turns heads off only once the heads   *)
(* to be enabled are on, unless something else turns them off again.       *)
RestoreInOrder ==
    Applying /\ Busy /\ hist.alone /\ Len(hist.fate) = hist.sent + 2 =>
        \A d \in There :
            /\ Connector[d] \in DOMAIN me.plan.en
            /\ hist.before[d].told = "described"
            => heads[d].on

(* Every call returns if KWin answers requests in their order, whatever it *)
(* does with the configuration: "polls will wait forever ... timeout".     *)
CallsReturn == Busy ~> ~Busy
=============================================================================
