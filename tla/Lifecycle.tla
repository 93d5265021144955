----------------------------- MODULE Lifecycle -----------------------------
(***************************************************************************)
(* `fauxput up`, `down` and `reset` (lifecycle.rs): processes that share   *)
(* the kernel's vkms devices, the records in active.json and the           *)
(* compositor's outputs, and that may fail or die at any point.            *)
(*                                                                         *)
(* The store's operations are single steps here, which StateStore's        *)
(* refinement of InstanceLog justifies.  The backend's create is split     *)
(* where another process can get in between: choosing the name, making the *)
(* directory, committing the device.  The compositor applies a plan in one *)
(* step and notices devices in its own time.                               *)
(***************************************************************************)
EXTENDS ActiveState, FiniteSets

CONSTANTS
    Proc,           \* invocations; each runs one command (bounds their number)
    Slot,           \* the N of fauxput-N: an initial segment of the naturals
    Conn,           \* connector names the kernel gives vkms devices
    Real,           \* the other outputs of the session
    None,           \* no slot, no head
    Commands,       \* the command lines of a scenario, a subset of Command
    MaxRunning,     \* how many invocations run at a time
    Faults,         \* what may go wrong, a subset of Fault
    Desktop         \* "kde" or "gnome"

Fault ==
    { "crash",      \* the process is killed
      "compositor", \* a compositor request fails and has no effect
      "late",       \* it takes effect, and is reported as failed (a timeout)
      "slow",       \* the compositor lets an eight-second wait run out
      "hang",       \* from now on it does and answers nothing
      "kernel",     \* a configfs read, write or rmdir fails
      "store" }     \* a state-file operation fails

(* `sess`: run inside the graphical session, so that connect_compositor    *)
(* finds an adapter.  `disable` and `primary` are options of `up`.         *)
Command ==
    [op : {"up"}, sess : BOOLEAN, disable : BOOLEAN, primary : BOOLEAN]
    \cup [op : {"down", "reset"}, sess : BOOLEAN,
          disable : {FALSE}, primary : {FALSE}]

ASSUME SlotsAreNat == Slot \subseteq Nat /\ IsFiniteSet(Slot)
ASSUME NamesDiffer ==
    Real \cap Conn = {} /\ None \notin Real \cup Conn \cup Slot \cup Proc
ASSUME Scenario == Commands \subseteq Command /\ Faults \subseteq Fault

Name == Real \cup Conn

VARIABLES
    dev,        \* dev[s]: the directory fauxput-s under the configfs root
    log,        \* the instance records, oldest first
    readable,   \* FALSE while active.json cannot be parsed
    comp,       \* the compositor: heads advertised, heads on, the primary,
                \* the real outputs that are at the user's mode and place,
                \* and whether it hangs
    pr,         \* pr[p]: what invocation p is doing, and its local variables
    base,       \* history: the outputs the user had on before fauxput ran
    met         \* history: the faults that have happened so far, a restore
                \* that failed ("unrestored"), a record without a snapshot
                \* of the session ("blind"), a snapshot of `up` that shows
                \* a head whose device is gone ("ghost"), an `up` that was
                \* given a name in use ("taken")

vars == <<dev, log, readable, comp, pr, base, met>>

-----------------------------------------------------------------------------
(* The faults that properties make allowances for are remembered.          *)
Noted == {"crash", "late", "store"}

Meets(fault) == fault \in Faults /\ met' = met \cup ({fault} \cap Noted)

-----------------------------------------------------------------------------
(* The kernel.  `dir`: the directory is there; `on`: enabled is 1 and the  *)
(* DRM device exists, with connector `conn`; `plug`: its status is         *)
(* connected; `by`: who made it, `left`: who has last failed to remove it, *)
(* or to see it when all that is listed was to go (history).               *)
NoDevice == [dir |-> FALSE, on |-> FALSE, plug |-> FALSE, conn |-> None,
             by |-> None, left |-> None]
Skeleton(p) == [NoDevice EXCEPT !.dir = TRUE, !.by = p]

FreeSlots == {s \in Slot : ~dev[s].dir}
Listed == {s \in Slot : dev[s].dir}
UsedConns == {dev[s].conn : s \in Slot}

(* next_free_name: the lowest index without a directory.                   *)
NextFree == CHOOSE s \in FreeSlots : \A t \in FreeSlots : s <= t

(* connector_names: none for a device that is absent or not enabled.       *)
Connectors(s) == IF dev[s].on THEN {dev[s].conn} ELSE {}

(* remove(name) on the directory, whoever's it is.  When its last rmdir    *)
(* fails the writes before it may have failed as well: the device is off,  *)
(* or on and unplugged, or as it was.                                      *)
Removed(s) == [dev EXCEPT ![s] = NoDevice]
Husks(s) == {Skeleton(dev[s].by), [dev[s] EXCEPT !.plug = FALSE], dev[s]}

Removes(p, s) ==
    \/ dev' = Removed(s) /\ UNCHANGED met
    \/ /\ dev[s].dir
       /\ Meets("kernel")
       /\ \E husk \in Husks(s) :
             dev' = [dev EXCEPT ![s] = [husk EXCEPT !.left = p]]

(* list(): a directory that cannot be read is listed as empty, an entry    *)
(* that cannot be read is left out, and neither is an error.               *)
ListedAs(S) ==
    \/ S = Listed /\ UNCHANGED met
    \/ S \subseteq Listed /\ S # Listed /\ Meets("kernel")

-----------------------------------------------------------------------------
(* The compositor.                                                         *)

(* A snapshot: the heads, those that are on, and the real outputs whose    *)
(* mode and position it shows as the user had them.  KWin reports them for *)
(* an output that is off, Mutter does not.                                 *)
Snapshot ==
    [heads |-> comp.heads, on |-> comp.on,
     geo |-> IF Desktop = "kde" THEN comp.kept ELSE comp.kept \cap comp.on]
NoSnapshot == [heads |-> {}, on |-> {}, geo |-> {}]

(* The outputs a snapshot has a mode and a position of.                    *)
Placed(snap) == IF Desktop = "kde" THEN snap.heads ELSE snap.on

(* An OutputPlan: the outputs to enable, those to disable and the primary  *)
(* (or None).  Of the outputs enabled, those in `put` get the mode and     *)
(* position of a snapshot, which for those in `geo` are the user's.        *)
OnAfter(plan) == (comp.on \ plan.dis) \cup (plan.en \cap comp.heads)

(* The compositor never turns its last head off.  The configuration made   *)
(* for Mutter has a primary, as it must, only if the plan enables the one  *)
(* it names, or names none and leaves the present one on (MutterConfig).   *)
Acceptable(plan) ==
    /\ OnAfter(plan) # {}
    /\ Desktop = "gnome" =>
          IF plan.prim = None THEN comp.prim \in OnAfter(plan)
          ELSE plan.prim \in plan.en \cap comp.heads

(* The primary stays where it is unless the plan names one that is on, or  *)
(* it has been turned off.                                                 *)
PrimariesAfter(plan) ==
    IF plan.prim \in OnAfter(plan) THEN {plan.prim}
    ELSE IF comp.prim \in OnAfter(plan) THEN {comp.prim}
    ELSE OnAfter(plan)

(* An output that was off and is enabled without a mode or position comes  *)
(* back where Mutter puts it; KWin remembers.                              *)
KeptAfter(plan) ==
    {r \in Real :
        IF r \in plan.en \cap comp.heads
        THEN \/ r \in plan.geo
             \/ r \in comp.kept \ plan.put /\ (r \in comp.on \/ Desktop = "kde")
        ELSE r \in comp.kept}

(* The adapter's apply takes effect.                                       *)
Effective(plan) ==
    /\ Acceptable(plan)
    /\ \E m \in PrimariesAfter(plan) :
          comp' = [comp EXCEPT !.on = OnAfter(plan), !.prim = m,
                               !.kept = KeptAfter(plan)]

(* How apply can end.                                                      *)
Accepted(plan) == Effective(plan) /\ UNCHANGED met
Refused(plan) ==
    /\ UNCHANGED comp
    /\ \/ ~Acceptable(plan) /\ UNCHANGED met
       \/ Meets("compositor")
Late(plan) == Effective(plan) /\ Meets("late")

(* A live connector of a vkms device; the head it makes may be on at once. *)
Live(c) == \E s \in Slot : dev[s].on /\ dev[s].plug /\ dev[s].conn = c

Appear(c) ==
    /\ ~comp.hung
    /\ Live(c)
    /\ c \notin comp.heads
    /\ \E lit \in BOOLEAN :
          comp' = [comp EXCEPT !.heads = @ \cup {c},
                               !.on = IF lit THEN @ \cup {c} ELSE @,
                               !.prim = IF lit /\ @ = None THEN c ELSE @]
    /\ UNCHANGED <<dev, log, readable, pr, base, met>>

Vanish(c) ==
    /\ ~comp.hung
    /\ c \in comp.heads \cap Conn
    /\ ~Live(c)
    /\ \E m \in IF comp.prim = c
                THEN IF comp.on = {c} THEN {None} ELSE comp.on \ {c}
                ELSE {comp.prim} :
          comp' = [comp EXCEPT !.heads = @ \ {c}, !.on = @ \ {c}, !.prim = m]
    /\ UNCHANGED <<dev, log, readable, pr, base, met>>

-----------------------------------------------------------------------------
(* The invocations.  Of an invocation's local variables `slot`, `head` and *)
(* `pre` are Up's, `real` the outputs attach_compositor takes for real,    *)
(* `dis` and `prev` the LayoutChanges; `st` is the state down and reset    *)
(* loaded, `handles` the devices to disconnect, `names` the connectors     *)
(* waited for, `todo` the devices left to destroy.  `out` is what run      *)
(* returned; `pushed`, `restored` and `missed`, the devices that the first *)
(* listing of reset has left out, are history.                             *)
Fresh == [pc |-> "new", cmd |-> None, slot |-> None, pre |-> NoSnapshot,
          head |-> None, real |-> {}, dis |-> {}, prev |-> None,
          st |-> EmptyState, handles |-> {}, names |-> {}, todo |-> << >>,
          out |-> None,
          pushed |-> FALSE, restored |-> FALSE, missed |-> {}]

At(p, pc) == pr[p].pc = pc
Over == {"new", "exit", "dead"}
Running == {p \in Proc : pr[p].pc \notin Over}

(* Where the compositor is asked: by connect, snapshot, apply and restore. *)
Asking == {"snapshot", "await", "enable", "layout", "restore", "restore2", "gone"}

(* p's locals become l and it goes on at pc.                               *)
Goes(p, pc, l) == pr' = [pr EXCEPT ![p] = [l EXCEPT !.pc = pc]]

(* run returns: what no property looks at is forgotten.                    *)
Exits(p, result) ==
    Goes(p, "exit", [Fresh EXCEPT !.out = result, !.pushed = pr[p].pushed])

InitialCommand(p, cmd) ==
    Goes(p, IF cmd.op # "up" THEN "load" ELSE IF cmd.sess THEN "snapshot" ELSE "pick",
         [Fresh EXCEPT !.cmd = cmd])

(* One that a hanging compositor meets at once waits in connect_compositor,*)
(* before it has touched anything: it does not start.                      *)
Start(p) ==
    /\ At(p, "new")
    /\ Cardinality(Running) < MaxRunning
    /\ \E cmd \in Commands : (cmd.sess => ~comp.hung) /\ InitialCommand(p, cmd)
    /\ UNCHANGED <<dev, log, readable, comp, base, met>>

(* The compositor does not give a snapshot: the first one of `up`, or one  *)
(* of wait_for_outputs.  Only attach_compositor's errors are warnings.     *)
SnapshotFails(p) ==
    /\ pr[p].pc \in {"snapshot", "await", "gone"}
    /\ ~comp.hung
    /\ Meets("compositor")
    /\ Exits(p, IF At(p, "await") THEN "ok" ELSE "err")
    /\ UNCHANGED <<dev, log, readable, comp, base>>

(* It hangs, which nobody notices but by asking it: a call of an adapter   *)
(* then never returns.                                                     *)
Hang ==
    /\ "hang" \in Faults
    /\ ~comp.hung
    /\ \E p \in Proc : pr[p].pc \in Asking
    /\ comp' = [comp EXCEPT !.hung = TRUE]
    /\ UNCHANGED <<dev, log, readable, pr, base, met>>

-----------------------------------------------------------------------------
(* up: create_kernel_side.                                                 *)

Ghosts == {c \in comp.heads \cap Conn : \A s \in Slot : c \notin Connectors(s)}

UpSnapshot(p) ==
    /\ At(p, "snapshot")
    /\ ~comp.hung
    /\ Goes(p, "pick", [pr[p] EXCEPT !.pre = Snapshot])
    /\ met' = IF Ghosts = {} THEN met ELSE met \cup {"ghost"}
    /\ UNCHANGED <<dev, log, readable, comp, base>>

(* Slot bounds the number of devices.  An index that the listing leaves    *)
(* out is taken for a free one.                                            *)
Pick(p) ==
    /\ At(p, "pick")
    /\ \/ /\ FreeSlots # {}
          /\ Goes(p, "mkdir", [pr[p] EXCEPT !.slot = NextFree])
          /\ UNCHANGED met
       \/ /\ "kernel" \in Faults
          /\ \E s \in Listed :
                /\ \A t \in FreeSlots : s < t
                /\ Goes(p, "mkdir", [pr[p] EXCEPT !.slot = s])
          /\ met' = met \cup {"taken"}
    /\ UNCHANGED <<dev, log, readable, comp, base>>

(* The first step of the build; somebody else may have taken the name.     *)
Mkdir(p) ==
    /\ At(p, "mkdir")
    /\ IF dev[pr[p].slot].dir
       THEN Goes(p, "rollback", pr[p]) /\ UNCHANGED dev
       ELSE /\ Goes(p, "commit", pr[p])
            /\ dev' = [dev EXCEPT ![pr[p].slot] = Skeleton(p)]
    /\ UNCHANGED <<log, readable, comp, base, met>>

(* The rest of the build, up to the connected connector.                   *)
Commit(p) ==
    /\ At(p, "commit")
    /\ dev[pr[p].slot].by = p
    /\ \E c \in Conn \ UsedConns :
          dev' = [dev EXCEPT ![pr[p].slot] =
                    [dir |-> TRUE, on |-> TRUE, plug |-> TRUE, conn |-> c,
                     by |-> p, left |-> None]]
    /\ Goes(p, "push", pr[p])
    /\ UNCHANGED <<log, readable, comp, base, met>>

(* A mkdir or a write fails, or the directory has been taken away.         *)
CommitFails(p) ==
    /\ \/ At(p, "commit") /\ dev[pr[p].slot].by # p /\ UNCHANGED met
       \/ pr[p].pc \in {"mkdir", "commit"} /\ Meets("kernel")
    /\ Goes(p, "rollback", pr[p])
    /\ UNCHANGED <<dev, log, readable, comp, base>>

(* create's inspect_err: remove(&name), its own errors ignored.            *)
Rollback(p) ==
    /\ At(p, "rollback")
    /\ Removes(p, pr[p].slot)
    /\ Exits(p, "err")
    /\ UNCHANGED <<log, readable, comp, base>>

InstanceRecord(p) ==
    [id |-> pr[p].slot, by |-> p, head |-> None, snap |-> pr[p].pre,
     dis |-> {}, prev |-> None]

(* push_instance; if it fails the new device stays, without a record.      *)
Push(p) ==
    /\ At(p, "push")
    /\ readable
    /\ log' = Pushed(log, InstanceRecord(p))
    /\ IF pr[p].cmd.sess
       THEN Goes(p, "claim", [pr[p] EXCEPT !.pushed = TRUE]) /\ UNCHANGED met
       ELSE /\ Goes(p, "exit", [Fresh EXCEPT !.out = "ok", !.pushed = TRUE])
            /\ met' = met \cup {"blind"}
    /\ UNCHANGED <<dev, readable, comp, base>>

PushFails(p) ==
    /\ At(p, "push")
    /\ \/ ~readable /\ UNCHANGED met
       \/ Meets("store")
    /\ Exits(p, "err")
    /\ UNCHANGED <<dev, log, readable, comp, base>>

-----------------------------------------------------------------------------
(* up: attach_compositor.  Its errors are warnings, `up` returns Ok.       *)

(* place_new_head: the device's connectors, none of them known before.     *)
Claim(p) ==
    /\ At(p, "claim")
    /\ LET expected == Connectors(pr[p].slot) IN
       IF expected \cap pr[p].pre.heads # {} THEN Exits(p, "ok")
       ELSE Goes(p, "await", [pr[p] EXCEPT !.names = expected])
    /\ UNCHANGED <<dev, log, readable, comp, base, met>>

(* A wrong variant of AwaitHead: any head that was not there before.       *)
AwaitAnyHead(p) ==
    /\ At(p, "await")
    /\ \E h \in comp.heads :
          Goes(p, "name", [pr[p] EXCEPT !.head = h, !.names = {}])
    /\ UNCHANGED <<dev, log, readable, comp, base, met>>

(* wait_for_outputs, until exactly one of them is a head.                  *)
AwaitHead(p) ==
    /\ At(p, "await")
    /\ ~comp.hung
    /\ \E h \in comp.heads :
          /\ pr[p].names \cap comp.heads = {h}
          /\ Goes(p, "name", [pr[p] EXCEPT !.head = h, !.names = {}])
    /\ UNCHANGED <<dev, log, readable, comp, base, met>>

(* The deadline is looked at only after a snapshot without the head.  With *)
(* no connector to wait for nothing else can happen.                       *)
AwaitTimeout(p) ==
    /\ At(p, "await")
    /\ ~comp.hung
    /\ pr[p].names \cap comp.heads = {}
    /\ IF pr[p].names = {} THEN UNCHANGED met ELSE Meets("slow")
    /\ Exits(p, "ok")
    /\ UNCHANGED <<dev, log, readable, comp, base>>

(* update_instance; nothing is saved when the record is gone.              *)
Updates(id, rec) ==
    /\ readable
    /\ log' = Replaced(log, id, rec)

Found(id) == log[Newest(log, id)]

NameHead(p) ==
    /\ At(p, "name")
    /\ Updates(pr[p].slot, [Found(pr[p].slot) EXCEPT !.head = pr[p].head])
    /\ Goes(p, "enable", pr[p])
    /\ UNCHANGED <<dev, readable, comp, base, met>>

(* A wrong variant: every head of the snapshot, on or not.                 *)
EnableAllPlan(p) ==
    [en |-> pr[p].pre.heads \cup {pr[p].head}, dis |-> {}, prim |-> None,
     put |-> pr[p].pre.heads, geo |-> pr[p].pre.geo]

(* The first apply: everything that was on, and the new head.              *)
EnablePlan(p) ==
    [en |-> pr[p].pre.on \cup {pr[p].head}, dis |-> {}, prim |-> None,
     put |-> pr[p].pre.on, geo |-> pr[p].pre.geo \cap pr[p].pre.on]

EnableHead(p) ==
    /\ At(p, "enable")
    /\ ~comp.hung
    /\ Accepted(EnablePlan(p))
    /\ Goes(p, "owned", pr[p])
    /\ UNCHANGED <<dev, log, readable, base>>

RecordedHeads(st) == {st[i].head : i \in 1..Len(st)} \ {None}

(* A wrong variant of Owned: every output that was on counts as real.      *)
OwnedNone(p) ==
    /\ At(p, "owned")
    /\ readable
    /\ Goes(p, "layout", [pr[p] EXCEPT !.real = pr[p].pre.on])
    /\ UNCHANGED <<dev, log, readable, comp, base, met>>

(* The outputs that were on and are not, by the records, fauxput's.        *)
Owned(p) ==
    /\ At(p, "owned")
    /\ readable
    /\ Goes(p, "layout",
            [pr[p] EXCEPT !.real = pr[p].pre.on \ RecordedHeads(log)])
    /\ UNCHANGED <<dev, log, readable, comp, base, met>>

(* A wrong variant: the option is not looked at.                           *)
DisabledAlways(p) == pr[p].real

Disabled(p) == IF pr[p].cmd.disable THEN pr[p].real ELSE {}

LayoutPlan(p) ==
    [en |-> (pr[p].pre.on \ Disabled(p)) \cup {pr[p].head}, dis |-> Disabled(p),
     prim |-> IF pr[p].cmd.primary THEN pr[p].head ELSE None,
     put |-> pr[p].pre.on, geo |-> pr[p].pre.geo \cap pr[p].pre.on]

(* apply_layout.  The previous primary is the first of the real outputs,   *)
(* whichever the compositor lists first.                                   *)
Layout(p) ==
    /\ At(p, "layout")
    /\ ~comp.hung
    /\ Accepted(LayoutPlan(p))
    /\ \E first \in IF pr[p].cmd.primary /\ pr[p].real # {} THEN pr[p].real
                    ELSE {None} :
          Goes(p, "record", [pr[p] EXCEPT !.dis = Disabled(p), !.prev = first])
    /\ UNCHANGED <<dev, log, readable, base>>

Record(p) ==
    /\ At(p, "record")
    /\ Updates(pr[p].slot, [Found(pr[p].slot) EXCEPT !.dis = pr[p].dis,
                                                     !.prev = pr[p].prev])
    /\ Exits(p, "ok")
    /\ UNCHANGED <<dev, readable, comp, base, met>>

(* An error on the way: a refused plan, or one that takes effect late.     *)
ApplyFails(p) ==
    /\ ~comp.hung
    /\ \/ At(p, "enable") /\ (Refused(EnablePlan(p)) \/ Late(EnablePlan(p)))
       \/ At(p, "layout") /\ (Refused(LayoutPlan(p)) \/ Late(LayoutPlan(p)))
    /\ Exits(p, "ok")
    /\ UNCHANGED <<dev, log, readable, base>>

(* ... connector_names or a store operation that fails.                    *)
AttachFails(p) ==
    /\ \/ At(p, "claim") /\ Meets("kernel")
       \/ pr[p].pc \in {"name", "owned", "record"} /\ Meets("store")
       \/ pr[p].pc \in {"name", "owned", "record"} /\ ~readable /\ UNCHANGED met
    /\ Exits(p, "ok")
    /\ UNCHANGED <<dev, log, readable, comp, base>>

-----------------------------------------------------------------------------
(* down and reset.                                                         *)

AfterLoad(p, st) == IF st # EmptyState /\ pr[p].cmd.sess THEN "restore" ELSE "plugs"

(* load outside the lock.                                                  *)
Load(p) ==
    /\ At(p, "load")
    /\ readable
    /\ Goes(p, AfterLoad(p, log),
            [pr[p] EXCEPT !.st = log, !.restored = log = EmptyState])
    /\ UNCHANGED <<dev, log, readable, comp, base, met>>

(* "Default-on-load lets reset proceed even when the state file is missing *)
(* or unreadable".                                                         *)
LoadFails(p) ==
    /\ At(p, "load")
    /\ \/ ~readable /\ UNCHANGED met
       \/ Meets("store")
    /\ IF pr[p].cmd.op = "reset" THEN Goes(p, "plugs", pr[p]) ELSE Exits(p, "err")
    /\ UNCHANGED <<dev, log, readable, comp, base>>

(* restore_compositor's plan for the records st.                           *)
Reenabled(st) == UNION {st[i].dis : i \in 1..Len(st)}

FirstPrimary(st) ==
    LET with == {i \in 1..Len(st) : st[i].prev # None} IN
    IF with = {} THEN None
    ELSE st[CHOOSE i \in with : \A j \in with : i <= j].prev

(* A wrong variant of RestorePlan: the snapshot of the newest record.      *)
NewestSnapshotPlan(st) ==
    LET snap == st[Len(st)].snap IN
    [en |-> Reenabled(st), dis |-> RecordedHeads(st), prim |-> FirstPrimary(st),
     put |-> Placed(snap), geo |-> snap.geo]

(* The snapshot is the oldest record's: every record has one.              *)
RestorePlan(st) ==
    [en |-> Reenabled(st), dis |-> RecordedHeads(st), prim |-> FirstPrimary(st),
     put |-> Placed(st[1].snap), geo |-> st[1].snap.geo]

(* The builder rejects a plan that enables, or makes primary, what it      *)
(* disables.                                                               *)
Consistent(plan) == plan.en \cap plan.dis = {} /\ plan.prim \notin plan.dis

NothingToRestore(st) ==
    RecordedHeads(st) = {} /\ Reenabled(st) = {} /\ FirstPrimary(st) = None

(* Plasma's restore applies the plan without its disables first.           *)
TwoPhases(plan) == Desktop = "kde" /\ plan.en # {} /\ plan.dis # {}
EnablesOf(plan) == [plan EXCEPT !.dis = {}]

RestoreStep(p) ==
    LET plan == RestorePlan(pr[p].st) IN
    IF At(p, "restore") /\ TwoPhases(plan) THEN EnablesOf(plan) ELSE plan

AfterRestore(p) ==
    IF At(p, "restore") /\ TwoPhases(RestorePlan(pr[p].st)) THEN "restore2" ELSE "plugs"

(* restore_compositor; its errors are warnings.                            *)
Restore(p) ==
    /\ pr[p].pc \in {"restore", "restore2"}
    /\ ~NothingToRestore(pr[p].st)
    /\ ~comp.hung
    /\ Consistent(RestorePlan(pr[p].st))
    /\ Accepted(RestoreStep(p))
    /\ Goes(p, AfterRestore(p), [pr[p] EXCEPT !.restored = AfterRestore(p) = "plugs"])
    /\ UNCHANGED <<dev, log, readable, base>>

RestoreFails(p) ==
    /\ pr[p].pc \in {"restore", "restore2"}
    /\ ~NothingToRestore(pr[p].st)
    /\ ~comp.hung
    /\ \/ ~Consistent(RestorePlan(pr[p].st)) /\ UNCHANGED <<comp, met>>
       \/ /\ Consistent(RestorePlan(pr[p].st))
          /\ (Refused(RestoreStep(p)) \/ Late(RestoreStep(p)))
    /\ Goes(p, "plugs", pr[p])
    /\ UNCHANGED <<dev, log, readable, base>>

RestoreNothing(p) ==
    /\ At(p, "restore")
    /\ NothingToRestore(pr[p].st)
    /\ Goes(p, "plugs", [pr[p] EXCEPT !.restored = TRUE])
    /\ UNCHANGED <<dev, log, readable, comp, base, met>>

-----------------------------------------------------------------------------
(* disconnect_outputs, for the records' devices (down) or for every device *)
(* listed under the configfs root (reset).                                 *)
RecordedSlots(st) == {st[i].id : i \in 1..Len(st)}

Handles(p, S) ==
    IF pr[p].cmd.op = "reset" THEN ListedAs(S)
    ELSE S = RecordedSlots(pr[p].st) /\ UNCHANGED met

(* Newest first.                                                           *)
NewestFirst(st) == [i \in 1..Len(st) |-> st[Len(st) + 1 - i].id]

(* connector_names of each handle ...                                      *)
Plugs(p) ==
    /\ At(p, "plugs")
    /\ \E S \in SUBSET Slot :
          /\ Handles(p, S)
          /\ Goes(p, "unplug",
                  [pr[p] EXCEPT !.handles = S,
                                !.names = UNION {Connectors(s) : s \in S},
                                !.todo = NewestFirst(pr[p].st),
                                !.missed = IF pr[p].cmd.op = "reset" THEN Listed \ S
                                           ELSE {}])
    /\ UNCHANGED <<dev, log, readable, comp, base>>

Disconnected(S) ==
    [s \in Slot |-> IF s \in S THEN [dev[s] EXCEPT !.plug = FALSE] ELSE dev[s]]

(* A wrong variant of Unplug: the unplug is not waited for.                *)
UnplugOnly(p) ==
    /\ At(p, "unplug")
    /\ dev' = Disconnected(pr[p].handles)
    /\ Goes(p, "destroy", [pr[p] EXCEPT !.handles = {}, !.names = {}])
    /\ UNCHANGED <<log, readable, comp, base, met>>

(* ... then disconnect each; without a compositor or a name go on at once  *)
Unplug(p) ==
    /\ At(p, "unplug")
    /\ dev' = Disconnected(pr[p].handles)
    /\ LET l == [pr[p] EXCEPT !.handles = {}] IN
       IF l.cmd.sess /\ l.names # {} THEN Goes(p, "gone", l)
       ELSE Goes(p, "destroy", [l EXCEPT !.names = {}])
    /\ UNCHANGED <<log, readable, comp, base, met>>

(* ... or wait until none of the names is a head.                          *)
Gone(p) ==
    /\ At(p, "gone")
    /\ ~comp.hung
    /\ pr[p].names \cap comp.heads = {}
    /\ Goes(p, "destroy", [pr[p] EXCEPT !.names = {}])
    /\ UNCHANGED <<dev, log, readable, comp, base, met>>

(* A wrong variant of GoneTimeout: the error is dropped, the state wiped.  *)
GoneTimeoutIgnored(p) ==
    /\ At(p, "gone")
    /\ pr[p].names \cap comp.heads # {}
    /\ Meets("slow")
    /\ Goes(p, "clear", pr[p])
    /\ UNCHANGED <<dev, log, readable, comp, base>>

(* A wrong variant: the wait has no deadline.                              *)
GoneNoDeadline(p) == At(p, "gone") /\ FALSE

(* "devices kept for retry"                                                *)
GoneTimeout(p) ==
    /\ At(p, "gone")
    /\ ~comp.hung
    /\ pr[p].names \cap comp.heads # {}
    /\ Meets("slow")
    /\ Exits(p, "err")
    /\ UNCHANGED <<dev, log, readable, comp, base>>

(* An error of connector_names or disconnect ends the command; devices     *)
(* before the one it meets have been disconnected.                         *)
DisconnectFails(p) ==
    /\ \/ At(p, "plugs") /\ UNCHANGED dev
       \/ /\ At(p, "unplug")
          /\ \E S \in SUBSET pr[p].handles :
                S # pr[p].handles /\ dev' = Disconnected(S)
    /\ Meets("kernel")
    /\ Exits(p, "err")
    /\ UNCHANGED <<log, readable, comp, base>>

(* destroy each device; one that fails is not counted, and no error.       *)
Destroy(p) ==
    /\ pr[p].pc \in {"destroy", "sweep"}
    /\ pr[p].todo # << >>
    /\ Removes(p, Head(pr[p].todo))
    /\ Goes(p, pr[p].pc, [pr[p] EXCEPT !.todo = Tail(@)])
    /\ UNCHANGED <<log, readable, comp, base>>

(* Directory listings have no order.                                       *)
Listings(S) == {f \in [1..Cardinality(S) -> S] : \A i, j \in DOMAIN f : f[i] = f[j] => i = j}

(* A wrong variant of Swept: reset trusts the records.                     *)
SweptNothing(p) ==
    /\ At(p, "destroy")
    /\ pr[p].todo = << >>
    /\ Goes(p, "clear", pr[p])
    /\ UNCHANGED <<dev, log, readable, comp, base, met>>

(* reset lists the devices again and destroys what it is shown.            *)
Swept(p) ==
    /\ At(p, "destroy")
    /\ pr[p].todo = << >>
    /\ IF pr[p].cmd.op = "reset"
       THEN \E S \in SUBSET Listed :
              /\ ListedAs(S)
              /\ \E order \in Listings(S) :
                    Goes(p, "sweep", [pr[p] EXCEPT !.todo = order])
              /\ dev' = [s \in Slot |-> IF s \in Listed \ S
                                       THEN [dev[s] EXCEPT !.left = p] ELSE dev[s]]
       ELSE Goes(p, "clear", pr[p]) /\ UNCHANGED <<dev, met>>
    /\ UNCHANGED <<log, readable, comp, base>>

SweepOver(p) ==
    /\ At(p, "sweep")
    /\ pr[p].todo = << >>
    /\ Goes(p, "clear", pr[p])
    /\ UNCHANGED <<dev, log, readable, comp, base, met>>

(* clear: whatever the file holds by now.                                  *)
Clear(p) ==
    /\ At(p, "clear")
    /\ log' = EmptyState
    /\ readable' = TRUE
    /\ Exits(p, "ok")
    /\ met' = IF pr[p].restored THEN met ELSE met \cup {"unrestored"}
    /\ UNCHANGED <<dev, comp, base>>

ClearFails(p) ==
    /\ At(p, "clear")
    /\ Meets("store")
    /\ Exits(p, "err")
    /\ UNCHANGED <<dev, log, readable, comp, base>>

-----------------------------------------------------------------------------
Crash(p) ==
    /\ p \in Running
    /\ Meets("crash")
    /\ Goes(p, "dead", [Fresh EXCEPT !.pushed = pr[p].pushed])
    /\ UNCHANGED <<dev, log, readable, comp, base>>

(* The session before fauxput first runs: some outputs on, one of them     *)
(* primary; the file may be one that this version cannot read.             *)
Init ==
    /\ dev = [s \in Slot |-> NoDevice]
    /\ log = EmptyState
    /\ readable \in IF "store" \in Faults THEN BOOLEAN ELSE {TRUE}
    /\ \E lit \in SUBSET Real : \E m \in lit :
          /\ comp = [heads |-> Real, on |-> lit, prim |-> m, kept |-> Real,
                     hung |-> FALSE]
          /\ base = [on |-> lit]
    /\ pr = [p \in Proc |-> Fresh]
    /\ met = {}

Up(p) ==
    \/ UpSnapshot(p) \/ Pick(p) \/ Mkdir(p) \/ Commit(p)
    \/ CommitFails(p) \/ Rollback(p) \/ Push(p) \/ PushFails(p) \/ Claim(p)
    \/ AwaitHead(p) \/ AwaitTimeout(p) \/ NameHead(p) \/ EnableHead(p)
    \/ Owned(p) \/ Layout(p) \/ Record(p) \/ ApplyFails(p) \/ AttachFails(p)

DownOrReset(p) ==
    \/ Load(p) \/ LoadFails(p) \/ Restore(p) \/ RestoreFails(p)
    \/ RestoreNothing(p) \/ Plugs(p) \/ Unplug(p) \/ Gone(p) \/ GoneTimeout(p)
    \/ DisconnectFails(p) \/ Destroy(p) \/ Swept(p) \/ SweepOver(p)
    \/ Clear(p) \/ ClearFails(p)

Compositor == (\E c \in Conn : Appear(c) \/ Vanish(c)) \/ Hang

(* Every invocation is over, or waits for a compositor that hangs.         *)
AllOver ==
    /\ \A p \in Proc : \/ pr[p].pc \in {"exit", "dead"}
                       \/ comp.hung /\ pr[p].pc \in Asking \cup {"new"}
    /\ UNCHANGED vars

Next ==
    \/ \E p \in Proc :
          Start(p) \/ Up(p) \/ DownOrReset(p) \/ SnapshotFails(p) \/ Crash(p)
    \/ Compositor
    \/ AllOver

Spec == Init /\ [][Next]_vars

(* A process that has started keeps running while the compositor, if it is *)
(* asked, does not hang; nothing makes the compositor notice a device, let *)
(* go of it, or break off a wait by an error.                              *)
FairSpec == Spec /\ \A p \in Proc : WF_vars(Up(p) \/ DownOrReset(p))

-----------------------------------------------------------------------------
(* Types.  A head that fauxput calls its own is never a real output.       *)
SnapshotType == [heads : SUBSET Name, on : SUBSET Name, geo : SUBSET Real]

RecordType ==
    [id : Slot, by : Proc, head : Conn \cup {None}, snap : SnapshotType,
     dis : SUBSET Name, prev : Name \cup {None}]

Steps ==
    {"load", "snapshot", "pick", "mkdir", "commit", "rollback", "push", "claim",
     "await", "name", "enable", "owned", "layout", "record", "restore", "restore2",
     "plugs", "unplug", "gone", "destroy", "sweep", "clear"}

LocalsType ==
    [pc : Over \cup Steps,
     cmd : Commands \cup {None}, slot : Slot \cup {None}, pre : SnapshotType,
     head : Conn \cup {None}, real : SUBSET Name, dis : SUBSET Name,
     prev : Name \cup {None}, st : Seq(RecordType), handles : SUBSET Slot,
     names : SUBSET Conn, todo : Seq(Slot), out : {None, "ok", "err"},
     pushed : BOOLEAN, restored : BOOLEAN, missed : SUBSET Slot]

DeviceType ==
    [dir : BOOLEAN, on : BOOLEAN, plug : BOOLEAN, conn : Conn \cup {None},
     by : Proc \cup {None}, left : Proc \cup {None}]

CompositorType ==
    [heads : SUBSET Name, on : SUBSET Name, prim : Name \cup {None},
     kept : SUBSET Real, hung : BOOLEAN]

TypeOK ==
    /\ dev \in [Slot -> DeviceType]
    /\ log \in Seq(RecordType)
    /\ readable \in BOOLEAN
    /\ comp \in CompositorType
    /\ pr \in [Proc -> LocalsType]
    /\ base \in [on : SUBSET Real]
    /\ met \subseteq Faults \cup {"unrestored", "blind", "ghost", "taken"}

-----------------------------------------------------------------------------
(* What holds for any number of concurrent invocations and any fault.      *)

(* No `up`, `down` or `reset` turns on a real output that the user had     *)
(* off, however stale the snapshots and records its plans are made from.   *)
OnlyUserOutputs == comp.on \cap Real \subseteq base.on

(* Restoring never darkens the desk: a real output goes off only in the    *)
(* layout step of an `up --disable-real-outputs`, never in a rollback, a   *)
(* down or a reset, whoever else is changing the records meanwhile.        *)
RealOffOnlyByRequest ==
    [][~(comp.on \cap Real \subseteq comp'.on) =>
        \E p \in Proc : At(p, "layout") /\ pr[p].cmd.disable /\ pr'[p] # pr[p]]_vars

(* Every command ends, also if no head ever comes or goes, or it is at a   *)
(* call that a hanging compositor does not answer: the deadlines of        *)
(* wait_for_outputs are looked at between two snapshots ("Snapshot calls   *)
(* can block"), and none of the calls has one.                             *)
CommandsEnd ==
    \A p \in Proc : pr[p].pc \notin Over ~>
        pr[p].pc \in Over \/ (comp.hung /\ pr[p].pc \in Asking)

-----------------------------------------------------------------------------
(* What holds when the invocations run one after the other, whatever       *)
(* failures and crashes come between.                                      *)

Tearing(p) == pr[p].pc \in {"plugs", "unplug", "gone", "destroy", "sweep", "clear"}

(* "Persist the record before we return so a crash anywhere downstream     *)
(* still leaves `down`/`reset` enough to find the kernel-side instance":   *)
(* a live device without a record is one whose `up` never got to push it,  *)
(* or which a down or reset could not remove, or not see, before it        *)
(* cleared the records.                                                    *)
LiveDevicesFound ==
    \A s \in Slot :
        dev[s].on /\ s \notin RecordedSlots(log) =>
            ~pr[dev[s].by].pushed \/ dev[s].left # None

(* "Keep devices alive until the compositor has consumed their hot-unplug  *)
(* events": inside the session, down and reset destroy no device whose     *)
(* connector the compositor still shows, but for those that the listing to *)
(* disconnect them by has left out.                                        *)
UnplugConsumed ==
    [][\A p \in Proc, s \in Slot :
        /\ pr[p].pc \in {"destroy", "sweep"} /\ pr[p].cmd.sess
        /\ s \notin pr[p].missed
        /\ pr'[p] # pr[p] /\ dev[s].on /\ ~dev'[s].on
        => dev[s].conn \notin comp.heads]_vars

(* A reset that gets as far as clearing the records has left no directory, *)
(* whichever earlier run was killed where or failed to remove it, but      *)
(* those it could not remove itself, or its second listing has left out.   *)
ResetCleans ==
    \A p \in Proc :
        At(p, "clear") /\ pr[p].cmd.op = "reset" =>
            \A s \in Listed : dev[s].left = p

(* The records always add up to a plan the builder accepts, so that a      *)
(* restore is never given up for a head both enabled and disabled.  Not if *)
(* devices and records have come apart, after a kill or an error of the    *)
(* store, an `up` that was given a name in use (its rollback removes the   *)
(* device), or one that has turned off a head whose device was gone, for   *)
(* the connector then becomes a later device's.                            *)
RestorePlanValid ==
    \A p \in Proc :
        pr[p].pc \in {"restore", "restore2"}
            /\ met \cap {"crash", "store", "ghost", "taken"} = {} =>
            Consistent(RestorePlan(pr[p].st))

(* When down or reset has restored the layout, every output the user had   *)
(* on is on again; and at the user's mode and place if every `up` so far   *)
(* ran inside the session.  Not after a run was killed or a store          *)
(* operation failed between a plan and its record, after a plan that took  *)
(* effect but was reported as failed, or once a restore has failed and its *)
(* records have been cleared.                                              *)
DownRestores ==
    \A p \in Proc :
        Tearing(p) /\ pr[p].restored
            /\ met \cap {"crash", "late", "store", "unrestored"} = {} =>
            /\ base.on \subseteq comp.on
            /\ "blind" \notin met => base.on \subseteq comp.kept

-----------------------------------------------------------------------------
(* What the repository says, and the code does not keep: each is checked   *)
(* by a run that finds it violated.                                        *)

(* "On partial failure mid-commit, the log is replayed in reverse" (the    *)
(* backend): a failed create undoes what it has itself made.               *)
RollbackSparesOthers ==
    [][\A p \in Proc, s \in Slot :
        At(p, "rollback") /\ pr'[p] # pr[p] /\ dev'[s] # dev[s] => dev[s].by = p]_vars

(* "so concurrent fauxput invocations don't drop each other's writes" (the *)
(* store): down and reset drop the records they have acted on.             *)
RecordsActedOn ==
    [][\A p \in Proc :
        At(p, "clear") /\ log' # log =>
            \A i \in 1..Len(log) :
                \E j \in 1..Len(pr[p].st) : pr[p].st[j].by = log[i].by]_vars

(* "Everything `down`/`reset` needs to roll back a single `up`" (the       *)
(* record): the records name every output of the user's that is off.       *)
RecordsSuffice ==
    \A p \in Proc :
        At(p, "restore") => base.on \ comp.on \subseteq Reenabled(pr[p].st)
=============================================================================
