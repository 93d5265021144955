---------------------------- MODULE ConfigfsVkms ----------------------------
(***************************************************************************)
(* The configfs-vkms backend (backend/configfs_vkms.rs), one system call   *)
(* at a time: create walks the schema and logs what it makes, undoes the   *)
(* log when a call fails and then removes the instance; destroy walks the  *)
(* tree; disconnect unplugs.  Calls follow one another, any of them may    *)
(* fail half-way or be killed; what concurrent invocations do to each      *)
(* other is Lifecycle's subject.                                           *)
(***************************************************************************)
EXTENDS Integers, Sequences, FiniteSets

CONSTANTS
    Slot,           \* the N of fauxput-N: an initial segment of the naturals
    None,           \* no slot, no call, no result
    MaxCalls,       \* how many backend calls are made
    MaxFaults       \* how many system calls fail

ASSUME SlotsAreNat == Slot \subseteq Nat /\ IsFiniteSet(Slot)
ASSUME NoneIsNothing == None \notin Slot /\ None \notin {"create", "destroy", "disconnect", "ok", "err"}
ASSUME Bounds == MaxCalls \in Nat /\ MaxFaults \in Nat

VARIABLES
    tree,       \* tree[s]: what is under <root>/fauxput-s
    env,        \* the kernel: has it the EDID attributes, has it those for HDR
                \* (and is HDR asked for), is it strict; is the desktop Plasma
    act,        \* the call under way and its local variables
    before,     \* history: tree when the call began
    calls,      \* how many calls have begun
    faults      \* how many system calls have failed

vars == <<tree, env, act, before, calls, faults>>

-----------------------------------------------------------------------------
(* The kernel.                                                             *)

(* The topology symlinks, by the component that holds one.                 *)
LinkTarget == [plane |-> "crtc", encoder |-> "crtc", connector |-> "encoder"]
Linked == DOMAIN LinkTarget
Node == {"inst", "plane", "crtc", "encoder", "connector"}
Attr == {"primary", "edid", "edid_enabled", "type", "colorspaces"}
Holder(a) == IF a = "primary" THEN "plane" ELSE "connector"

(* A directory that is not there; a new connector is connected.            *)
Gone == [nodes |-> {}, links |-> {}, attrs |-> {}, enabled |-> FALSE,
         status |-> "connected"]

Listed == {s \in Slot : tree[s].nodes # {}}
Complete(t) == t.nodes = Node /\ t.links = Linked

(* System calls.                                                           *)
Mkdir(n) == [do |-> "mkdir", of |-> n]
Symlink(n) == [do |-> "symlink", of |-> n]
Unlink(n) == [do |-> "unlink", of |-> n]
Rmdir(n) == [do |-> "rmdir", of |-> n]
Set(a) == [do |-> "set", of |-> a]
Status(v) == [do |-> "status", of |-> v]
Enabled(v) == [do |-> "enabled", of |-> v]

(* Whether configfs and vkms let t change so.  A strict kernel does not    *)
(* let the topology of an enabled device be taken apart.                   *)
MayRmdir(t, n) ==
    /\ n \in t.nodes
    /\ IF n = "inst" THEN t.nodes = {"inst"} ELSE n \notin t.links
    /\ \A l \in t.links : LinkTarget[l] # n
    /\ env.strict => ~t.enabled

May(t, c) ==
    \/ c.do = "mkdir" /\ c.of \notin t.nodes
        /\ (c.of # "inst" => "inst" \in t.nodes /\ ~t.enabled)
    \/ c.do = "symlink" /\ {c.of, LinkTarget[c.of]} \subseteq t.nodes
        /\ c.of \notin t.links /\ ~t.enabled
    \/ c.do = "unlink" /\ c.of \in t.links /\ (env.strict => ~t.enabled)
    \/ c.do = "rmdir" /\ MayRmdir(t, c.of)
    \/ c.do = "set" /\ Holder(c.of) \in t.nodes
    \/ c.do = "status" /\ "connector" \in t.nodes
    \/ c.do = "enabled" /\ "inst" \in t.nodes /\ (c.of = "on" => Complete(t))

(* What it is then.  A device goes with its directory.                     *)
Of(c, do) == IF c.do = do THEN {c.of} ELSE {}

After(t, c) ==
    IF c.do = "rmdir" /\ c.of = "inst" THEN Gone
    ELSE [nodes |-> (t.nodes \cup Of(c, "mkdir")) \ Of(c, "rmdir"),
          links |-> (t.links \cup Of(c, "symlink")) \ Of(c, "unlink"),
          attrs |-> t.attrs \cup Of(c, "set"),
          enabled |-> IF c.do = "enabled" THEN c.of = "on" ELSE t.enabled,
          status |-> IF c.do = "status" THEN c.of ELSE t.status]

(* A system call on the instance at hand succeeds.                         *)
Perform(c) ==
    /\ May(tree[act.slot], c)
    /\ tree' = [tree EXCEPT ![act.slot] = After(@, c)]
    /\ UNCHANGED faults

(* ... or has no effect: the kernel refuses it, or it fails.               *)
Refused(c) ==
    /\ \/ ~May(tree[act.slot], c) /\ UNCHANGED faults
       \/ faults < MaxFaults /\ faults' = faults + 1
    /\ UNCHANGED tree

(* "VKMS sends a hotplug event even when the status is unchanged."         *)
Events(c) == IF c.do = "status" /\ tree[act.slot].enabled THEN 1 ELSE 0

-----------------------------------------------------------------------------
(* The call under way: `todo` is the position in its script, `log` the ops *)
(* of create.  The rest is history: `hurt` counts what went wrong, `missed`*)
(* is set when remove leaves a connector plugged, `blind` when create saw  *)
(* no directory for an error, `events` counts the hotplug events sent.     *)
Idle == [at |-> "idle", call |-> None, slot |-> None, todo |-> 1,
         log |-> << >>, out |-> None, hurt |-> 0, missed |-> FALSE,
         blind |-> FALSE, events |-> 0]

Begins(call) ==
    /\ act.at = "idle"
    /\ calls < MaxCalls
    /\ calls' = calls + 1
    /\ before' = tree
    /\ act' = call
    /\ UNCHANGED <<tree, env>>

(* What the caller sees; the locals of the call go away.                   *)
Returned(a, result) == [a EXCEPT !.at = "idle", !.todo = 1, !.log = << >>, !.out = result]

(* What has failed since.                                                  *)
Hurt == act.hurt + (faults' - faults)

(* next_free_name: the indices in use, sorted, ...                         *)
Sortings(S) ==
    {f \in [1..Cardinality(S) -> S] :
        /\ \A i, j \in 1..Cardinality(S) : i < j => f[i] < f[j]
        /\ \A s \in S : \E i \in 1..Cardinality(S) : f[i] = s}

(* A wrong variant of NextFree: the number of directories.                 *)
NextCount(used) == Len(used)

(* ... and how many there are before the first that is not at its place.   *)
NextFree(used) ==
    CHOOSE k \in 0..Len(used) :
        /\ \A i \in 1..k : used[i] = i - 1
        /\ k = Len(used) \/ used[k + 1] # k

(* create.  A directory listing that fails counts as an empty one.  Slot   *)
(* bounds the number of devices.                                           *)
CallCreate ==
    \E blind \in BOOLEAN :
        /\ IF blind THEN faults < MaxFaults /\ faults' = faults + 1
           ELSE UNCHANGED faults
        /\ \E used \in Sortings(IF blind THEN {} ELSE Listed) :
              /\ NextFree(used) \in Slot
              /\ Begins([Idle EXCEPT !.call = "create", !.at = "build",
                            !.slot = NextFree(used),
                            !.blind = blind, !.hurt = IF blind THEN 1 ELSE 0])

(* commit: the calls it makes ...                                          *)
CommitScript ==
    << Mkdir("inst"), Mkdir("plane"), Set("primary"), Mkdir("crtc"),
       Mkdir("encoder"), Mkdir("connector"), Set("edid"), Set("edid_enabled"),
       Set("type"), Set("colorspaces"),
       Status(IF env.kde THEN "connected" ELSE "disconnected"),
       Symlink("plane"), Symlink("encoder"), Symlink("connector"),
       Enabled("on"), Status("connected") >>

(* A wrong variant of Skipped: the last call is made on the wrong desktop. *)
SkippedElsewhere(i) ==
    \/ i \in {7, 8} /\ ~env.edid
    \/ i \in {9, 10} /\ ~env.hdr
    \/ i = 16 /\ ~env.kde

(* ... but for the attributes the kernel does not have, and on Plasma the  *)
(* last one.                                                               *)
Skipped(i) ==
    \/ i \in {7, 8} /\ ~env.edid
    \/ i \in {9, 10} /\ ~env.hdr
    \/ i = 16 /\ env.kde

CommitStep == CommitScript[act.todo]

(* A wrong variant of Logged: every call is logged.                        *)
LoggedAll(c) == Append(act.log, c)

Logged(c) == IF c.do \in {"mkdir", "symlink"} THEN Append(act.log, c) ELSE act.log

Built(a) ==
    act' = IF act.todo = Len(CommitScript) THEN Returned(a, "ok")
           ELSE [a EXCEPT !.todo = @ + 1]

Build ==
    /\ act.at = "build"
    /\ IF Skipped(act.todo) THEN Built(act) /\ UNCHANGED <<tree, faults>>
       ELSE /\ Perform(CommitStep)
            /\ Built([act EXCEPT !.log = Logged(CommitStep),
                                 !.events = @ + Events(CommitStep)])
    /\ UNCHANGED <<env, before, calls>>

BuildFails ==
    /\ act.at = "build"
    /\ ~Skipped(act.todo)
    /\ Refused(CommitStep)
    /\ act' = [act EXCEPT !.at = "undo", !.hurt = Hurt]
    /\ UNCHANGED <<env, before, calls>>

(* edid::build rejects the spec before anything is made.                   *)
SpecRejected ==
    /\ act.at = "build"
    /\ act.todo = 1
    /\ act' = [act EXCEPT !.at = "undo", !.hurt = @ + 1]
    /\ UNCHANGED <<tree, env, before, calls, faults>>

(* The log in reverse, errors ignored.                                     *)
UndoOf(op) == IF op.do = "mkdir" THEN Rmdir(op.of) ELSE Unlink(op.of)

Undo ==
    /\ act.at = "undo"
    /\ act.log # << >>
    /\ LET c == UndoOf(act.log[Len(act.log)]) IN Perform(c) \/ Refused(c)
    /\ act' = [act EXCEPT !.log = SubSeq(@, 1, Len(@) - 1), !.hurt = Hurt]
    /\ UNCHANGED <<env, before, calls>>

(* A wrong variant of UndoOver: the log is all that is undone.             *)
UndoOnly ==
    /\ act.at = "undo"
    /\ act.log = << >>
    /\ act' = Returned(act, "err")
    /\ UNCHANGED <<tree, env, before, calls, faults>>

(* create's inspect_err: remove(&name) on top of it.                       *)
UndoOver ==
    /\ act.at = "undo"
    /\ act.log = << >>
    /\ act' = [act EXCEPT !.at = "remove", !.todo = 1]
    /\ UNCHANGED <<tree, env, before, calls, faults>>

-----------------------------------------------------------------------------
(* remove, in the order its comment gives.  Only the error of the last     *)
(* call counts, and that only for destroy.                                 *)
CallDestroy ==
    /\ \E s \in Slot :
          Begins([Idle EXCEPT !.call = "destroy", !.at = "remove", !.slot = s])
    /\ UNCHANGED faults

(* A wrong variant of RemoveScript: the encoder's link is forgotten.       *)
ForgetLink ==
    << Status("disconnected"), Enabled("off"), Unlink("plane"), Unlink("connector"),
       Rmdir("connector"), Rmdir("encoder"), Rmdir("crtc"), Rmdir("plane"),
       Rmdir("inst") >>

(* A wrong variant: the device is disabled before it is unplugged.         *)
DisableFirst ==
    << Enabled("off"), Status("disconnected"),
       Unlink("plane"), Unlink("encoder"), Unlink("connector"), Rmdir("connector"),
       Rmdir("encoder"), Rmdir("crtc"), Rmdir("plane"), Rmdir("inst") >>

RemoveScript ==
    << Status("disconnected"), Enabled("off"),
       Unlink("plane"), Unlink("encoder"), Unlink("connector"),
       Rmdir("connector"), Rmdir("encoder"), Rmdir("crtc"), Rmdir("plane"),
       Rmdir("inst") >>

RemoveStep == RemoveScript[act.todo]
Result(result) == IF act.call = "create" THEN "err" ELSE result

RemoveNothing ==
    /\ act.at = "remove"
    /\ act.todo = 1
    /\ tree[act.slot].nodes = {}
    /\ act' = Returned(act, Result("ok"))
    /\ UNCHANGED <<tree, env, before, calls, faults>>

(* A wrong variant of Unplugged: the status is not read.                   *)
NeverUnplugged(t) == FALSE

(* The connector is there, and its status reads disconnected.              *)
Unplugged(t) == "connector" \in t.nodes /\ t.status = "disconnected"

(* The status is written unless it reads disconnected.                     *)
RemoveUnplugs ==
    /\ act.at = "remove"
    /\ act.todo = 1
    /\ tree[act.slot].nodes # {}
    /\ LET t == tree[act.slot] IN
       \/ /\ Unplugged(t)
          /\ act' = [act EXCEPT !.todo = 2]
          /\ UNCHANGED <<tree, faults>>
       \/ /\ Unplugged(t) /\ faults < MaxFaults
          /\ faults' = faults + 1
          /\ act' = [act EXCEPT !.todo = 2, !.hurt = Hurt, !.events = @ + Events(RemoveStep)]
          /\ UNCHANGED tree
       \/ /\ ~Unplugged(t)
          /\ Perform(RemoveStep)
          /\ act' = [act EXCEPT !.todo = 2, !.events = @ + Events(RemoveStep)]
       \/ /\ ~Unplugged(t)
          /\ Refused(RemoveStep)
          /\ act' = [act EXCEPT !.todo = 2, !.hurt = Hurt, !.missed = TRUE]
    /\ UNCHANGED <<env, before, calls>>

RemoveGoesOn ==
    /\ act.at = "remove"
    /\ act.todo \in 2..(Len(RemoveScript) - 1)
    /\ Perform(RemoveStep) \/ Refused(RemoveStep)
    /\ act' = [act EXCEPT !.todo = @ + 1, !.hurt = Hurt]
    /\ UNCHANGED <<env, before, calls>>

RemoveEnds ==
    /\ act.at = "remove"
    /\ act.todo = Len(RemoveScript)
    /\ \/ Perform(RemoveStep) /\ act' = Returned(act, Result("ok"))
       \/ Refused(RemoveStep) /\ act' = Returned([act EXCEPT !.hurt = Hurt], "err")
    /\ UNCHANGED <<env, before, calls>>

-----------------------------------------------------------------------------
(* disconnect: the status is written whatever it was.                      *)
CallDisconnect ==
    /\ \E s \in Slot :
          Begins([Idle EXCEPT !.call = "disconnect", !.at = "disconnect", !.slot = s])
    /\ UNCHANGED faults

Disconnect ==
    /\ act.at = "disconnect"
    /\ \/ /\ "connector" \notin tree[act.slot].nodes
          /\ act' = Returned(act, "ok")
          /\ UNCHANGED <<tree, faults>>
       \/ /\ Perform(Status("disconnected"))
          /\ act' = Returned(act, "ok")
       \/ /\ "inst" \in tree[act.slot].nodes /\ faults < MaxFaults
          /\ faults' = faults + 1
          /\ act' = Returned([act EXCEPT !.hurt = @ + 1], "err")
          /\ UNCHANGED tree
    /\ UNCHANGED <<env, before, calls>>

-----------------------------------------------------------------------------
Kill ==
    /\ act.at # "idle"
    /\ act' = Idle
    /\ UNCHANGED <<tree, env, before, calls, faults>>

(* Directories may be left from a run killed early.                        *)
Init ==
    /\ tree \in [Slot -> {Gone, [Gone EXCEPT !.nodes = {"inst"}]}]
    /\ env \in [edid : BOOLEAN, hdr : BOOLEAN, kde : BOOLEAN, strict : BOOLEAN]
    /\ act = Idle
    /\ before = tree
    /\ calls = 0
    /\ faults = 0

(* Every call has been made and is over.                                   *)
AllDone == act.at = "idle" /\ calls = MaxCalls /\ UNCHANGED vars

Next ==
    \/ CallCreate \/ Build \/ BuildFails \/ SpecRejected \/ Undo \/ UndoOver
    \/ CallDestroy \/ RemoveNothing \/ RemoveUnplugs \/ RemoveGoesOn \/ RemoveEnds
    \/ CallDisconnect \/ Disconnect
    \/ Kill
    \/ AllDone

Spec == Init /\ [][Next]_vars

-----------------------------------------------------------------------------
Instance ==
    [nodes : SUBSET Node, links : SUBSET Linked, attrs : SUBSET Attr,
     enabled : BOOLEAN, status : {"connected", "disconnected"}]

Op == [do : {"mkdir"}, of : Node] \cup [do : {"symlink"}, of : Linked]

Locals ==
    [at : {"idle", "build", "undo", "remove", "disconnect"},
     call : {None, "create", "destroy", "disconnect"}, slot : Slot \cup {None},
     todo : 1..16, log : Seq(Op),
     out : {None, "ok", "err"}, hurt : Nat, missed : BOOLEAN, blind : BOOLEAN,
     events : Nat]

TypeOK ==
    /\ tree \in [Slot -> Instance]
    /\ env \in [edid : BOOLEAN, hdr : BOOLEAN, kde : BOOLEAN, strict : BOOLEAN]
    /\ act \in Locals
    /\ before \in [Slot -> Instance]
    /\ calls \in 0..MaxCalls
    /\ faults \in 0..MaxFaults

Over(call) == act.at = "idle" /\ act.call = call
OthersKept == \A s \in Slot \ {act.slot} : tree[s] = before[s]

(* create takes the lowest index without a directory, however many were    *)
(* left behind and in whatever state (if the listing can be read).         *)
LowestName ==
    act.call = "create" /\ ~act.blind =>
        /\ before[act.slot].nodes = {}
        /\ \A s \in Slot : s < act.slot => before[s].nodes # {}

(* A create in which nothing goes wrong succeeds, and one that returns Ok  *)
(* has made a live, connected device with the features it reports, out of  *)
(* a free name, and has sent the compositor the hotplug event that GNOME   *)
(* needs and no other.                                                     *)
CreateComplete ==
    Over("create") =>
        /\ act.hurt = 0 => act.out = "ok"
        /\ act.out = "ok" =>
            LET t == tree[act.slot] IN
            /\ before[act.slot] = Gone /\ OthersKept
            /\ Complete(t) /\ t.enabled /\ t.status = "connected"
            /\ env.edid => {"edid", "edid_enabled"} \subseteq t.attrs
            /\ env.hdr => {"type", "colorspaces"} \subseteq t.attrs
            /\ act.events = IF env.kde THEN 0 ELSE 1

(* "On partial failure mid-commit, the log is replayed in reverse for      *)
(* atomicity": a create that fails at any one point, and nowhere in its    *)
(* clean-up, leaves every instance as it was.                              *)
CreateRollsBack ==
    Over("create") /\ act.out = "err" /\ act.hurt <= 1 /\ ~act.blind => tree = before

(* destroy clears what any earlier call has left, whole or half-made, and  *)
(* fails only if something fails in it; its Ok means the instance is gone. *)
RemoveClears ==
    Over("destroy") =>
        /\ act.out = "ok" <=> tree[act.slot] = Gone
        /\ act.hurt = 0 => act.out = "ok"
        /\ OthersKept

(* "Without (1) and (2), this looks like 'the GPU disappeared' to the      *)
(* compositor": a device goes only after its connector was unplugged,      *)
(* unless the write that should have done so failed; in an undo never.     *)
GracefulRemoval ==
    [][\A s \in Slot :
        tree[s].enabled /\ tree[s].status = "connected" /\ ~tree'[s].enabled =>
            act.at = "remove" /\ act.missed]_vars

(* "VKMS sends a hotplug event even when the status is unchanged": remove  *)
(* sends none for a connector that is unplugged already, so that a down    *)
(* that has waited for the unplug does not send a second one.              *)
QuietRemoval ==
    [][act.at = "remove" /\ act'.events > act.events /\ faults' = faults =>
        tree'[act.slot].status # tree[act.slot].status]_vars
=============================================================================
