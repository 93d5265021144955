------------------------- MODULE ConfigfsVkmsProofs -------------------------
(***************************************************************************)
(* Proofs about ConfigfsVkms, for any set of names and any number of calls *)
(* and failures.  That a device is unplugged before it goes depends on how *)
(* far each call has got: what is known of the device at every point of    *)
(* the scripts of commit and remove is in Positions.  What a call comes to *)
(* depends on what it has made or left, call by call: that is in JInv.     *)
(***************************************************************************)
EXTENDS ConfigfsVkms, FiniteSetTheorems, WellFoundedInduction, TLAPS

-----------------------------------------------------------------------------
(* next_free_name.                                                         *)

LEMMA SmallestExists ==
    ASSUME NEW S, S \subseteq Nat, S # {}
    PROVE  \E s \in S : \A t \in S : s <= t
<1>1. PICK s \in S : \A t \in S : ~(<<t, s>> \in OpToRel(<, Nat))
  BY NatLessThanWellFounded, WFMin
<1>2. \A t \in S : ~(t < s)
  BY <1>1 DEF OpToRel
<1> QED
  BY <1>2

(* The count of take_while exists for every sequence.                      *)
LEMMA NextFreeExists ==
    ASSUME NEW n \in Nat, NEW used \in [1..n -> Nat]
    PROVE  /\ NextFree(used) \in 0..n
           /\ \A i \in 1..NextFree(used) : used[i] = i - 1
           /\ NextFree(used) = n \/ used[NextFree(used) + 1] # NextFree(used)
<1> DEFINE Stops == {k \in 0..n : k = n \/ used[k + 1] # k}
<1>1. n \in Stops
  OBVIOUS
<1>2. PICK k \in Stops : \A j \in Stops : k <= j
  <2>1. Stops \subseteq Nat /\ Stops # {}
    BY <1>1
  <2> HIDE DEF Stops
  <2> QED
    BY <2>1, SmallestExists
<1>3. ASSUME NEW i \in 1..k PROVE used[i] = i - 1
  <2>1. i - 1 \in 0..n /\ ~(k <= i - 1) /\ (i - 1) + 1 = i
    BY <1>2
  <2>2. i - 1 \notin Stops
    BY <1>2, <2>1
  <2> QED
    BY <2>1, <2>2
<1>4. Len(used) = n
  OBVIOUS
<1> QED
  BY <1>2, <1>3, <1>4 DEF NextFree

(* For every finite set of indices in use it is the least that is free.    *)
LEMMA NextFreeIsLeast ==
    ASSUME NEW S, S \subseteq Nat, IsFiniteSet(S), NEW used \in Sortings(S)
    PROVE  /\ NextFree(used) \in Nat
           /\ NextFree(used) \notin S
           /\ \A j \in Nat : j < NextFree(used) => j \in S
<1> DEFINE n == Cardinality(S)
           k == NextFree(used)
<1>1. n \in Nat
  BY FS_CardinalityType
<1>2. /\ used \in [1..n -> S]
      /\ \A i, j \in 1..n : i < j => used[i] < used[j]
      /\ \A s \in S : \E i \in 1..n : used[i] = s
  BY DEF Sortings
<1>3. used \in [1..n -> Nat]
  BY <1>2
<1> HIDE DEF n
<1>4. /\ k \in 0..n
      /\ \A i \in 1..k : used[i] = i - 1
      /\ k = n \/ used[k + 1] # k
  BY <1>1, <1>3, NextFreeExists
<1> HIDE DEF k
<1>5. ASSUME NEW j \in Nat, j < k PROVE j \in S
  <2>1. j + 1 \in 1..k /\ j + 1 \in 1..n
    BY <1>1, <1>4, <1>5
  <2>2. used[j + 1] = j
    BY <1>4, <2>1
  <2> QED
    BY <1>2, <2>1, <2>2
<1>6. ASSUME k \in S PROVE FALSE
  <2>1. PICK i \in 1..n : used[i] = k
    BY <1>2, <1>6
  <2>2. ~(i <= k)
    BY <1>1, <1>4, <2>1
  <2>3. i # k + 1
    BY <1>1, <1>4, <2>1
  <2>4. k + 1 \in 1..n /\ k + 1 < i
    BY <1>1, <1>4, <2>1, <2>2, <2>3
  <2>5. used[k + 1] \in Nat /\ used[k + 1] < k
    BY <1>2, <1>3, <2>1, <2>4
  <2>6. k \in 1..n /\ used[k] = k - 1
    BY <1>1, <1>4, <2>4, <2>5
  <2>7. used[k] < used[k + 1]
    BY <1>2, <2>4, <2>6
  <2> QED
    BY <1>1, <1>4, <2>5, <2>6, <2>7
<1> QED
  BY <1>1, <1>4, <1>5, <1>6 DEF k

-----------------------------------------------------------------------------
(* The inductive invariant.                                                *)

Environment == [edid : BOOLEAN, hdr : BOOLEAN, kde : BOOLEAN, strict : BOOLEAN]

CallSound ==
    /\ act \in Locals
    /\ act.at # "idle" \/ act.call = "create" => act.slot \in Slot
    /\ act.at = "remove" => act.todo \in 1..10

(* What is known of the instance at hand: not enabled before commit gets   *)
(* there, and unplugged when it does but on Plasma; unplugged, if not      *)
(* enabled, while there is anything to undo; unplugged by remove, unless   *)
(* that has failed.                                                        *)
Unplugs(t) == t.enabled => t.status = "disconnected"

Positions ==
    LET t == tree[act.slot] IN
    /\ act.at = "build" =>
        /\ act.todo = 1 => act.log = << >>
        /\ act.todo \in 2..15 => ~t.enabled
        /\ act.todo \in 12..16 /\ ~env.kde => t.status = "disconnected"
    /\ act.at = "undo" /\ act.log # << >> => Unplugs(t)
    /\ act.at = "remove" /\ act.todo > 1 /\ ~act.missed => Unplugs(t)

(* A device has its directory.                                             *)
Sound == {t \in Instance : t.enabled => "inst" \in t.nodes}

StoreSound ==
    /\ tree \in [Slot -> Sound]
    /\ before \in [Slot -> Sound]
    /\ env \in Environment
    /\ calls \in 0..MaxCalls
    /\ faults \in 0..MaxFaults

IInv == StoreSound /\ CallSound /\ Positions /\ LowestName

-----------------------------------------------------------------------------
(* The scripts.                                                            *)
Call ==
    [do : {"mkdir", "rmdir"}, of : Node] \cup [do : {"symlink", "unlink"}, of : Linked]
    \cup [do : {"set"}, of : Attr] \cup [do : {"enabled"}, of : {"on", "off"}]
    \cup [do : {"status"}, of : {"connected", "disconnected"}]

LEMMA LinkedNodes == Linked = {"plane", "encoder", "connector"}
  BY DEF Linked, LinkTarget

LEMMA CommitCalls ==
    ASSUME NEW i \in 1..16
    PROVE  /\ CommitScript[i] \in Call
           /\ CommitScript[i].do = "enabled" <=> i = 15
           /\ CommitScript[i].do = "status" <=> i \in {11, 16}
           /\ CommitScript[i].do \in {"mkdir", "symlink"} => CommitScript[i] \in Op
           /\ CommitScript[i].do \notin {"rmdir", "unlink"}
           /\ i = 11 /\ ~env.kde => CommitScript[i].of = "disconnected"
           /\ i = 15 => CommitScript[i].of = "on"
  BY LinkedNodes DEF CommitScript, Call, Op, Node, Attr, Mkdir, Set, Status,
         Symlink, Enabled

LEMMA RemoveCalls ==
    ASSUME NEW i \in 1..10
    PROVE  /\ RemoveScript[i] \in Call
           /\ RemoveScript[i].do = "status" <=> i = 1
           /\ i = 1 => RemoveScript[i].of = "disconnected"
           /\ RemoveScript[i].do = "enabled" => RemoveScript[i].of = "off"
           /\ RemoveScript[i].do \notin {"mkdir", "symlink", "set"}
  BY LinkedNodes DEF RemoveScript, Call, Node, Unlink, Rmdir, Status, Enabled

LEMMA UndoCalls ==
    ASSUME NEW op \in Op
    PROVE  UndoOf(op) \in Call /\ UndoOf(op).do \in {"rmdir", "unlink"}
  BY DEF Op, UndoOf, Call, Rmdir, Unlink

LEMMA GoneSound == Gone \in Sound
  BY DEF Gone, Instance, Sound

(* What a system call makes of an instance.                                *)
LEMMA AfterSound ==
    ASSUME NEW t \in Sound, NEW c \in Call, May(t, c)
    PROVE  /\ After(t, c) \in Sound
           /\ c.do # "enabled" => (After(t, c).enabled => t.enabled)
           /\ c.do \notin {"enabled", "rmdir"} => (t.enabled => After(t, c).enabled)
           /\ c.do = "enabled" => (After(t, c).enabled <=> c.of = "on")
           /\ c.do \notin {"status", "rmdir"} => After(t, c).status = t.status
           /\ c.do = "status" => After(t, c).status = c.of
           /\ c.do = "rmdir" => After(t, c) = Gone \/ After(t, c).status = t.status
<1>1. /\ c.do \in {"mkdir", "rmdir"} => c.of \in Node
      /\ c.do \in {"symlink", "unlink"} => c.of \in Linked
      /\ c.do = "set" => c.of \in Attr
      /\ c.do = "enabled" => c.of \in {"on", "off"}
      /\ c.do = "status" => c.of \in {"connected", "disconnected"}
  BY DEF Call
<1>2. /\ Of(c, "mkdir") \subseteq Node /\ Of(c, "symlink") \subseteq Linked
      /\ Of(c, "set") \subseteq Attr
  BY <1>1 DEF Of
<1>3. CASE c.do = "rmdir" /\ c.of = "inst"
  BY <1>3, GoneSound DEF After, Gone
<1>4. CASE ~(c.do = "rmdir" /\ c.of = "inst")
  <2>1. t \in Instance
    BY DEF Sound
  <2>2. After(t, c) \in Instance
    BY <1>1, <1>2, <1>4, <2>1 DEF After, Instance
  <2>3. "inst" \notin Of(c, "rmdir")
    BY <1>4 DEF Of
  <2>4. c.do = "enabled" => "inst" \in t.nodes
    BY DEF May
  <2>5. After(t, c).enabled => "inst" \in After(t, c).nodes
    BY <1>4, <2>1, <2>3, <2>4 DEF After, Instance, Sound
  <2> QED
    BY <1>4, <2>1, <2>2, <2>5 DEF After, Instance, Sound
<1> QED
  BY <1>3, <1>4

-----------------------------------------------------------------------------
(* The steps.                                                              *)
LEMMA Performs ==
    ASSUME IInv, act.slot \in Slot, NEW c \in Call, Perform(c)
    PROVE  /\ tree' \in [Slot -> Sound]
           /\ tree'[act.slot] = After(tree[act.slot], c)
           /\ \A s \in Slot : s # act.slot => tree'[s] = tree[s]
           /\ tree[act.slot] \in Sound /\ May(tree[act.slot], c)
           /\ faults' = faults
<1>1. tree[act.slot] \in Sound /\ May(tree[act.slot], c)
  BY DEF IInv, StoreSound, Perform
<1>2. After(tree[act.slot], c) \in Sound
  BY <1>1, AfterSound
<1> QED
  BY <1>1, <1>2 DEF IInv, StoreSound, Perform

LEMMA Refuses ==
    ASSUME IInv, NEW c, Refused(c)
    PROVE  tree' = tree /\ faults' \in 0..MaxFaults /\ Hurt \in Nat
  BY Bounds DEF IInv, StoreSound, CallSound, Locals, Refused, Hurt

LEMMA LowestKept ==
    ASSUME IInv, before' = before, act'.slot = act.slot, act'.blind <=> act.blind,
           act'.call = act.call
    PROVE  LowestName'
  BY DEF IInv, LowestName

LEMMA FaultsTyped == IInv => faults \in 0..MaxFaults /\ (faults < MaxFaults => faults + 1 \in 0..MaxFaults)
  BY Bounds DEF IInv, StoreSound

LEMMA IdleTyped == Idle \in Locals
  BY DEF Idle, Locals

(* A call begins.                                                          *)
LEMMA BeginsInv ==
    ASSUME IInv, NEW s \in Slot, NEW l \in Locals, Begins(l), faults' \in 0..MaxFaults,
           l.slot = s, l.todo = 1, l.log = << >>,
           l.call = "create" /\ ~l.blind =>
               /\ tree[s].nodes = {}
               /\ \A r \in Slot : r < s => tree[r].nodes # {}
    PROVE  IInv'
<1>1. StoreSound'
  BY Bounds DEF IInv, StoreSound, Begins
<1>2. CallSound'
  BY DEF Begins, CallSound
<1>3. Positions'
  BY DEF Begins, Positions
<1>4. LowestName'
  BY DEF Begins, LowestName
<1> QED
  BY <1>1, <1>2, <1>3, <1>4 DEF IInv

LEMMA CreateInv == ASSUME IInv, CallCreate PROVE IInv'
<1>0. PICK blind \in BOOLEAN : \E used \in Sortings(IF blind THEN {} ELSE Listed) :
        /\ IF blind THEN faults < MaxFaults /\ faults' = faults + 1 ELSE UNCHANGED faults
        /\ NextFree(used) \in Slot
        /\ Begins([Idle EXCEPT !.call = "create", !.at = "build", !.slot = NextFree(used),
                              !.blind = blind, !.hurt = IF blind THEN 1 ELSE 0])
  BY DEF CallCreate
<1>1. PICK used \in Sortings(IF blind THEN {} ELSE Listed) :
        /\ IF blind THEN faults < MaxFaults /\ faults' = faults + 1 ELSE UNCHANGED faults
        /\ NextFree(used) \in Slot
        /\ Begins([Idle EXCEPT !.call = "create", !.at = "build", !.slot = NextFree(used),
                              !.blind = blind, !.hurt = IF blind THEN 1 ELSE 0])
  BY <1>0
<1> DEFINE s == NextFree(used)
           l == [Idle EXCEPT !.call = "create", !.at = "build", !.slot = NextFree(used),
                             !.blind = blind, !.hurt = IF blind THEN 1 ELSE 0]
<1>2. l \in Locals /\ l.slot = s /\ l.todo = 1 /\ l.log = << >> /\ l.blind = blind
  <2>1. (IF blind THEN 1 ELSE 0) \in Nat
    OBVIOUS
  <2> QED
    BY <1>1, <2>1, IdleTyped DEF Idle, Locals
<1>3. faults' \in 0..MaxFaults
  BY <1>1, FaultsTyped
<1>4. ASSUME ~blind
      PROVE  tree[s].nodes = {} /\ \A r \in Slot : r < s => tree[r].nodes # {}
  <2>1. Listed \subseteq Nat /\ IsFiniteSet(Listed) /\ used \in Sortings(Listed)
    BY <1>1, <1>4, SlotsAreNat, FS_Subset DEF Listed
  <2>2. s \notin Listed /\ \A j \in Nat : j < s => j \in Listed
    BY <2>1, NextFreeIsLeast
  <2>3. \A r \in Slot : r < s => r \in Listed
    BY <2>2, SlotsAreNat
  <2> QED
    BY <1>1, <2>2, <2>3 DEF Listed
<1> HIDE DEF s, l
<1>5. Begins(l) /\ s \in Slot
  BY <1>1 DEF l, s
<1> QED
  BY <1>2, <1>3, <1>4, <1>5, BeginsInv

LEMMA OtherCallsInv == ASSUME IInv, CallDestroy \/ CallDisconnect PROVE IInv'
<1>1. CASE CallDestroy
  <2>1. PICK s \in Slot :
          Begins([Idle EXCEPT !.call = "destroy", !.at = "remove", !.slot = s])
    BY <1>1 DEF CallDestroy
  <2> DEFINE l == [Idle EXCEPT !.call = "destroy", !.at = "remove", !.slot = s]
  <2>2. l \in Locals /\ l.slot = s /\ l.todo = 1 /\ l.log = << >> /\ l.call = "destroy"
    BY IdleTyped DEF Idle, Locals
  <2> QED
    BY <1>1, <2>1, <2>2, BeginsInv, FaultsTyped DEF CallDestroy
<1>2. CASE CallDisconnect
  <2>1. PICK s \in Slot :
          Begins([Idle EXCEPT !.call = "disconnect", !.at = "disconnect", !.slot = s])
    BY <1>2 DEF CallDisconnect
  <2> DEFINE l == [Idle EXCEPT !.call = "disconnect", !.at = "disconnect", !.slot = s]
  <2>2. l \in Locals /\ l.slot = s /\ l.todo = 1 /\ l.log = << >> /\ l.call = "disconnect"
    BY IdleTyped DEF Idle, Locals
  <2> QED
    BY <1>2, <2>1, <2>2, BeginsInv, FaultsTyped DEF CallDisconnect
<1> QED
  BY <1>1, <1>2

(* What a step does not say of the locals stays.                           *)
Same(a) == a.slot = act.slot /\ a.call = act.call /\ (a.blind <=> act.blind)

Places == {"idle", "build", "undo", "remove", "disconnect"}

LEMMA TodoTyped ==
    ASSUME NEW a \in Locals, NEW k \in 1..16
    PROVE  [a EXCEPT !.todo = k] \in Locals
  BY DEF Locals

LEMMA HurtTyped ==
    ASSUME NEW a \in Locals, NEW h \in Nat
    PROVE  [a EXCEPT !.hurt = h] \in Locals
  BY DEF Locals

LEMMA AtHurtTyped ==
    ASSUME NEW a \in Locals, NEW x \in Places, NEW h \in Nat
    PROVE  [a EXCEPT !.at = x, !.hurt = h] \in Locals
  BY DEF Locals, Places

LEMMA AtTodoTyped ==
    ASSUME NEW a \in Locals, NEW x \in Places, NEW k \in 1..16
    PROVE  [a EXCEPT !.at = x, !.todo = k] \in Locals
  BY DEF Locals, Places

LEMMA LogHurtTyped ==
    ASSUME NEW a \in Locals, NEW ops \in Seq(Op), NEW h \in Nat
    PROVE  [a EXCEPT !.log = ops, !.hurt = h] \in Locals
  BY DEF Locals

LEMMA LogEventsTyped ==
    ASSUME NEW a \in Locals, NEW ops \in Seq(Op), NEW e \in Nat
    PROVE  [a EXCEPT !.log = ops, !.events = e] \in Locals
  BY DEF Locals

LEMMA TodoHurtTyped ==
    ASSUME NEW a \in Locals, NEW k \in 1..16, NEW h \in Nat
    PROVE  [a EXCEPT !.todo = k, !.hurt = h] \in Locals
  BY DEF Locals

LEMMA TodoEventsTyped ==
    ASSUME NEW a \in Locals, NEW k \in 1..16, NEW e \in Nat
    PROVE  [a EXCEPT !.todo = k, !.events = e] \in Locals
  BY DEF Locals

LEMMA TodoHurtEventsTyped ==
    ASSUME NEW a \in Locals, NEW k \in 1..16, NEW h \in Nat, NEW e \in Nat
    PROVE  [a EXCEPT !.todo = k, !.hurt = h, !.events = e] \in Locals
  BY DEF Locals

LEMMA TodoMissedTyped ==
    ASSUME NEW a \in Locals, NEW k \in 1..16, NEW h \in Nat, NEW m \in BOOLEAN
    PROVE  [a EXCEPT !.todo = k, !.hurt = h, !.missed = m] \in Locals
  BY DEF Locals

LEMMA OverTyped ==
    ASSUME NEW a \in Locals, NEW x \in Places, NEW k \in 1..16,
           NEW ops \in Seq(Op), NEW r \in {None, "ok", "err"}
    PROVE  [a EXCEPT !.at = x, !.todo = k, !.log = ops, !.out = r] \in Locals
  BY DEF Locals, Places

(* A call returns.                                                         *)
LEMMA ReturnInv ==
    ASSUME IInv, act.at # "idle", NEW a \in Locals, Same(a), NEW result \in {"ok", "err"},
           act' = Returned(a, result), tree' \in [Slot -> Sound],
           faults' \in 0..MaxFaults, UNCHANGED <<env, before, calls>>
    PROVE  IInv'
<1>1. << >> \in Seq(Op) /\ "idle" \in Places /\ 1 \in 1..16 /\ result \in {None, "ok", "err"}
  BY DEF Places
<1>2. act' \in Locals
  BY <1>1, OverTyped DEF Returned
<1>3. act'.at = "idle" /\ Same(act')
  BY DEF Locals, Returned, Same
<1>4. StoreSound'
  BY DEF IInv, StoreSound
<1>5. CallSound' /\ Positions'
  BY <1>2, <1>3 DEF IInv, CallSound, Positions, Same
<1> QED
  BY <1>3, <1>4, <1>5, LowestKept DEF IInv, Same

(* ... or goes on.                                                         *)
LEMMA StepInv ==
    ASSUME IInv, act.at # "idle", act' \in Locals, Same(act'),
           act'.at = "remove" => act'.todo \in 1..10,
           tree' \in [Slot -> Sound], faults' \in 0..MaxFaults, Positions',
           UNCHANGED <<env, before, calls>>
    PROVE  IInv'
<1>1. StoreSound' /\ CallSound'
  BY DEF IInv, StoreSound, CallSound, Same
<1> QED
  BY <1>1, LowestKept DEF IInv, Same

LEMMA BuildInv == ASSUME IInv, Build PROVE IInv'
<1> DEFINE t == tree[act.slot]
           i == act.todo
           c == CommitStep
           a == IF Skipped(i) THEN act
                ELSE [act EXCEPT !.log = Logged(c), !.events = @ + Events(c)]
<1>1. act \in Locals /\ act.at = "build" /\ act.slot \in Slot /\ i \in 1..16
  BY DEF IInv, CallSound, Locals, Build
<1>2. /\ c \in Call /\ (c.do = "enabled" <=> i = 15) /\ (c.do = "status" <=> i \in {11, 16})
      /\ c.do \in {"mkdir", "symlink"} => c \in Op
      /\ c.do \notin {"rmdir", "unlink"}
      /\ i = 11 /\ ~env.kde => c.of = "disconnected"
  BY <1>1, CommitCalls DEF CommitStep
<1>3. Logged(c) \in Seq(Op) /\ Events(c) \in Nat
  BY <1>1, <1>2 DEF Logged, Events, Locals
<1>4. a \in Locals /\ Same(a) /\ a.at = "build" /\ a.todo = i
  <2>1. a \in Locals
    <3>1. act.events + Events(c) \in Nat
      BY <1>1, <1>3 DEF Locals
    <3>2. [act EXCEPT !.log = Logged(c), !.events = @ + Events(c)] \in Locals
      BY <1>1, <1>3, <3>1, LogEventsTyped
    <3> QED
      BY <1>1, <3>2
  <2>2. Same(a) /\ a.at = "build" /\ a.todo = i
    BY <1>1 DEF Locals, Same
  <2> QED
    BY <2>1, <2>2
<1>5. /\ tree' \in [Slot -> Sound] /\ faults' = faults /\ t \in Sound
      /\ Skipped(i) => tree' = tree
      /\ ~Skipped(i) => tree'[act.slot] = After(t, c) /\ May(t, c)
  <2>1. CASE Skipped(i)
    BY <1>1, <2>1 DEF Build, IInv, StoreSound
  <2>2. CASE ~Skipped(i)
    BY <1>1, <1>2, <2>2, Performs DEF Build
  <2> QED
    BY <2>1, <2>2
<1>6. Built(a) /\ UNCHANGED <<env, before, calls>>
  BY DEF Build
<1>7. Len(CommitScript) = 16
  BY DEF CommitScript
<1>8. faults' \in 0..MaxFaults
  BY <1>5 DEF IInv, StoreSound
<1> HIDE DEF a
<1>9. CASE i = 16
  BY <1>1, <1>4, <1>5, <1>6, <1>7, <1>8, <1>9, ReturnInv DEF Built
<1>10. CASE i # 16
  <2>1. act' = [a EXCEPT !.todo = @ + 1]
    BY <1>6, <1>7, <1>10 DEF Built
  <2>2. act' \in Locals /\ Same(act') /\ act'.at = "build" /\ act'.todo = i + 1
    <3>1. i + 1 \in 1..16
      BY <1>1, <1>10
    <3>2. act' \in Locals
      BY <1>4, <2>1, <3>1, TodoTyped
    <3>3. Same(act') /\ act'.at = "build" /\ act'.todo = i + 1
      BY <1>4, <2>1 DEF Locals, Same
    <3> QED
      BY <3>2, <3>3
  <2>3. ~Skipped(i) =>
          /\ c.do # "enabled" => (tree'[act.slot].enabled => t.enabled)
          /\ c.do # "status" => tree'[act.slot].status = t.status
          /\ c.do = "status" => tree'[act.slot].status = c.of
    BY <1>2, <1>5, AfterSound
  <2>4. i \in 1..14 => ~tree'[act.slot].enabled
    <3>1. CASE i = 1
      <4>1. ~Skipped(i) /\ c = Mkdir("inst")
        BY <3>1 DEF Skipped, CommitStep, CommitScript
      <4>2. "inst" \notin t.nodes
        BY <1>5, <4>1 DEF May, Mkdir
      <4> QED
        BY <1>2, <1>5, <2>3, <3>1, <4>1, <4>2 DEF Sound
    <3>2. CASE i \in 2..14
      <4>1. ~t.enabled
        BY <1>1, <3>2 DEF IInv, Positions
      <4> QED
        BY <1>2, <1>5, <2>3, <3>2, <4>1
    <3> QED
      BY <1>1, <3>1, <3>2
  <2>5. i \in 11..15 /\ ~env.kde => tree'[act.slot].status = "disconnected"
    <3>1. i = 11 => ~Skipped(i)
      BY DEF Skipped
    <3>2. i \in 12..15 /\ ~env.kde => t.status = "disconnected"
      BY <1>1 DEF IInv, Positions
    <3> QED
      BY <1>1, <1>2, <1>5, <2>3, <3>1, <3>2
  <2>6. Positions'
    BY <1>1, <1>6, <1>10, <2>2, <2>4, <2>5 DEF Positions, Same
  <2> QED
    BY <1>1, <1>5, <1>6, <1>8, <2>2, <2>6, StepInv
<1> QED
  BY <1>9, <1>10

LEMMA BuildFailsInv == ASSUME IInv, BuildFails \/ SpecRejected PROVE IInv'
<1>1. act \in Locals /\ act.at = "build" /\ act.slot \in Slot /\ act.todo \in 1..16
  BY DEF IInv, CallSound, Locals, BuildFails, SpecRejected
<1>2. "undo" \in Places
  BY DEF Places
<1>3. CASE BuildFails
  <2>1. tree' = tree /\ faults' \in 0..MaxFaults /\ Hurt \in Nat
    BY <1>3, Refuses DEF BuildFails
  <2>2. act' \in Locals
    BY <1>1, <1>2, <1>3, <2>1, AtHurtTyped DEF BuildFails
  <2>3. Same(act') /\ act'.at = "undo" /\ act'.log = act.log
    BY <1>1, <1>3 DEF BuildFails, Locals, Same
  <2>4. act.log # << >> => Unplugs(tree[act.slot])
    <3>1. act.todo = 16 => ~env.kde
      BY <1>3 DEF BuildFails, Skipped
    <3> QED
      BY <1>1, <3>1 DEF IInv, Positions, Unplugs
  <2>5. Positions'
    BY <2>1, <2>3, <2>4 DEF Positions, Same, Unplugs
  <2> QED
    BY <1>1, <1>3, <2>1, <2>2, <2>3, <2>5, StepInv DEF BuildFails, IInv, StoreSound
<1>4. CASE SpecRejected
  <2>1. act.hurt + 1 \in Nat
    BY <1>1 DEF Locals
  <2>2. act' \in Locals
    BY <1>1, <1>2, <1>4, <2>1, AtHurtTyped DEF SpecRejected
  <2>3. Same(act') /\ act'.at = "undo" /\ act'.log = act.log
    BY <1>1, <1>4 DEF SpecRejected, Locals, Same
  <2>4. act.log = << >>
    BY <1>1, <1>4 DEF IInv, Positions, SpecRejected
  <2>5. Positions'
    BY <2>3, <2>4 DEF Positions
  <2> QED
    BY <1>1, <1>4, <2>2, <2>3, <2>5, StepInv DEF SpecRejected, IInv, StoreSound
<1> QED
  BY <1>3, <1>4

LEMMA UndoInv == ASSUME IInv, Undo PROVE IInv'
<1> DEFINE t == tree[act.slot]
           op == act.log[Len(act.log)]
           c == UndoOf(op)
<1>1. /\ act \in Locals /\ act.at = "undo" /\ act.slot \in Slot
      /\ act.log \in Seq(Op) /\ act.log # << >>
  BY DEF IInv, CallSound, Locals, Undo
<1>2. c \in Call /\ c.do \in {"rmdir", "unlink"}
  <2>1. op \in Op
    BY <1>1
  <2> QED
    BY <2>1, UndoCalls
<1>3. Unplugs(t)
  BY <1>1 DEF IInv, Positions
<1>4. /\ tree' \in [Slot -> Sound] /\ faults' \in 0..MaxFaults /\ Hurt \in Nat
      /\ Unplugs(tree'[act.slot])
  <2>1. CASE Perform(c)
    <3>1. /\ tree' \in [Slot -> Sound] /\ tree'[act.slot] = After(t, c)
          /\ t \in Sound /\ May(t, c) /\ faults' = faults
      BY <1>1, <1>2, <2>1, Performs
    <3>2. faults' \in 0..MaxFaults /\ Hurt \in Nat
      BY <1>1, <3>1 DEF IInv, StoreSound, Hurt, Locals
    <3>3. Unplugs(After(t, c))
      BY <1>2, <1>3, <3>1, AfterSound DEF Unplugs, Gone
    <3> QED
      BY <3>1, <3>2, <3>3
  <2>2. CASE Refused(c)
    BY <1>3, <2>2, Refuses DEF IInv, StoreSound
  <2> QED
    BY <2>1, <2>2 DEF Undo
<1>5. SubSeq(act.log, 1, Len(act.log) - 1) \in Seq(Op)
  BY <1>1
<1>6. act' \in Locals
  BY <1>1, <1>4, <1>5, LogHurtTyped DEF Undo
<1>7. Same(act') /\ act'.at = "undo"
  BY <1>1 DEF Undo, Locals, Same
<1>8. Positions'
  BY <1>4, <1>7 DEF Positions, Same, Unplugs
<1> QED
  BY <1>1, <1>4, <1>6, <1>7, <1>8, StepInv DEF Undo

LEMMA UndoOverInv == ASSUME IInv, UndoOver PROVE IInv'
<1>1. act \in Locals /\ act.at = "undo"
  BY DEF IInv, CallSound, UndoOver
<1>2. "remove" \in Places /\ 1 \in 1..16
  BY DEF Places
<1>3. act' \in Locals
  BY <1>1, <1>2, AtTodoTyped DEF UndoOver
<1>4. Same(act') /\ act'.at = "remove" /\ act'.todo = 1
  BY <1>1 DEF UndoOver, Locals, Same
<1>5. Positions'
  BY <1>4 DEF Positions
<1> QED
  BY <1>1, <1>3, <1>4, <1>5, StepInv DEF UndoOver, IInv, StoreSound

LEMMA KillInv == ASSUME IInv, Kill PROVE IInv'
<1>1. act' \in Locals /\ act'.at = "idle" /\ act'.call = None
  BY IdleTyped DEF Kill, Idle
<1>2. StoreSound'
  BY DEF IInv, StoreSound, Kill
<1>3. CallSound' /\ Positions' /\ LowestName'
  BY <1>1, NoneIsNothing DEF CallSound, Positions, LowestName
<1> QED
  BY <1>2, <1>3 DEF IInv

(* remove.                                                                 *)
LEMMA UnplugsInv == ASSUME IInv, RemoveUnplugs PROVE IInv'
<1> DEFINE t == tree[act.slot]
           c == RemoveStep
<1>1. /\ act \in Locals /\ act.at = "remove" /\ act.slot \in Slot /\ act.todo = 1
      /\ act.hurt \in Nat /\ act.events \in Nat /\ faults \in 0..MaxFaults
      /\ tree \in [Slot -> Sound]
  BY DEF IInv, CallSound, StoreSound, Locals, RemoveUnplugs
<1>2. c \in Call /\ c.do = "status" /\ c.of = "disconnected"
  BY <1>1, RemoveCalls DEF RemoveStep
<1>3. act.events + Events(c) \in Nat /\ 2 \in 1..16 /\ TRUE \in BOOLEAN
  BY <1>1 DEF Events
<1>4. /\ act' \in Locals /\ tree' \in [Slot -> Sound] /\ faults' \in 0..MaxFaults
      /\ act'.at = "remove" /\ act'.todo = 2 /\ Same(act')
      /\ tree'[act.slot].status = "disconnected" \/ act'.missed
  <2>1. CASE Unplugged(t) /\ act' = [act EXCEPT !.todo = 2] /\ UNCHANGED <<tree, faults>>
    <3>1. act' \in Locals
      BY <1>1, <1>3, <2>1, TodoTyped
    <3> QED
      BY <1>1, <2>1, <3>1 DEF Locals, Same, Unplugged
  <2>2. CASE /\ Unplugged(t) /\ faults < MaxFaults /\ faults' = faults + 1
             /\ act' = [act EXCEPT !.todo = 2, !.hurt = Hurt, !.events = @ + Events(c)]
             /\ UNCHANGED tree
    <3>1. Hurt \in Nat /\ faults' \in 0..MaxFaults
      BY <1>1, <2>2, Bounds DEF Hurt
    <3>2. act' \in Locals
      BY <1>1, <1>3, <2>2, <3>1, TodoHurtEventsTyped
    <3> QED
      BY <1>1, <2>2, <3>1, <3>2 DEF Locals, Same, Unplugged
  <2>3. CASE /\ Perform(c)
             /\ act' = [act EXCEPT !.todo = 2, !.events = @ + Events(c)]
    <3>1. /\ tree' \in [Slot -> Sound] /\ tree'[act.slot] = After(t, c)
          /\ t \in Sound /\ May(t, c) /\ faults' = faults
      BY <1>1, <1>2, <2>3, Performs
    <3>2. After(t, c).status = "disconnected"
      BY <1>2, <3>1, AfterSound
    <3>3. act' \in Locals
      BY <1>1, <1>3, <2>3, TodoEventsTyped
    <3> QED
      BY <1>1, <2>3, <3>1, <3>2, <3>3 DEF Locals, Same
  <2>4. CASE /\ Refused(c)
             /\ act' = [act EXCEPT !.todo = 2, !.hurt = Hurt, !.missed = TRUE]
    <3>1. tree' = tree /\ faults' \in 0..MaxFaults /\ Hurt \in Nat
      BY <2>4, Refuses
    <3>2. act' \in Locals
      BY <1>1, <1>3, <2>4, <3>1, TodoMissedTyped
    <3> QED
      BY <1>1, <2>4, <3>1, <3>2 DEF Locals, Same
  <2> QED
    BY <2>1, <2>2, <2>3, <2>4 DEF RemoveUnplugs
<1>5. Positions'
  BY <1>4 DEF Positions, Same, Unplugs
<1> QED
  BY <1>1, <1>4, <1>5, StepInv DEF RemoveUnplugs

(* Taking an unplugged device apart leaves it unplugged.                   *)
LEMMA TakesApart ==
    ASSUME IInv, act.at = "remove", act.todo \in 2..10,
           Perform(RemoveStep) \/ Refused(RemoveStep)
    PROVE  /\ tree' \in [Slot -> Sound] /\ faults' \in 0..MaxFaults /\ Hurt \in Nat
           /\ ~act.missed => Unplugs(tree'[act.slot])
<1> DEFINE t == tree[act.slot]
           c == RemoveStep
<1>1. /\ act \in Locals /\ act.slot \in Slot /\ faults \in 0..MaxFaults
      /\ tree \in [Slot -> Sound] /\ act.hurt \in Nat
  BY DEF IInv, CallSound, StoreSound, Locals
<1>2. /\ c \in Call /\ c.do # "status" /\ (c.do = "enabled" => c.of = "off")
  BY RemoveCalls DEF RemoveStep
<1>3. ~act.missed => Unplugs(t)
  BY DEF IInv, Positions
<1>4. CASE Perform(c)
  <2>1. /\ tree' \in [Slot -> Sound] /\ tree'[act.slot] = After(t, c)
        /\ t \in Sound /\ May(t, c) /\ faults' = faults
    BY <1>1, <1>2, <1>4, Performs
  <2>2. Hurt \in Nat
    BY <1>1, <2>1 DEF Hurt
  <2>3. /\ After(t, c).enabled => t.enabled
        /\ After(t, c) = Gone \/ After(t, c).status = t.status
    <3>1. c.do = "enabled" => ~After(t, c).enabled
      BY <1>2, <2>1, AfterSound
    <3> QED
      BY <1>2, <2>1, <3>1, AfterSound
  <2>4. ~act.missed => Unplugs(After(t, c))
    BY <1>3, <2>3 DEF Unplugs, Gone
  <2> QED
    BY <1>1, <2>1, <2>2, <2>4
<1>5. CASE Refused(c)
  BY <1>1, <1>3, <1>5, Refuses
<1> QED
  BY <1>4, <1>5

LEMMA RemoveInv ==
    ASSUME IInv, RemoveNothing \/ RemoveGoesOn \/ RemoveEnds PROVE IInv'
<1>1. /\ act \in Locals /\ act.at = "remove" /\ act.slot \in Slot
      /\ faults \in 0..MaxFaults /\ tree \in [Slot -> Sound]
  BY DEF IInv, CallSound, StoreSound, RemoveNothing, RemoveGoesOn, RemoveEnds
<1>2. Len(RemoveScript) = 10
  BY DEF RemoveScript
<1>3. Result("ok") \in {"ok", "err"}
  BY DEF Result
<1>4. Same(act)
  BY DEF Same
<1>5. CASE RemoveNothing
  BY <1>1, <1>3, <1>4, <1>5, ReturnInv DEF RemoveNothing
<1>6. CASE RemoveGoesOn
  <2>1. act.todo \in 2..9
    BY <1>2, <1>6 DEF RemoveGoesOn
  <2>2. /\ tree' \in [Slot -> Sound] /\ faults' \in 0..MaxFaults /\ Hurt \in Nat
        /\ ~act.missed => Unplugs(tree'[act.slot])
    BY <1>1, <1>6, <2>1, TakesApart DEF RemoveGoesOn
  <2>3. act.todo + 1 \in 1..16 /\ act.todo + 1 \in 1..10
    BY <2>1
  <2>4. act' \in Locals
    BY <1>1, <1>6, <2>2, <2>3, TodoHurtTyped DEF RemoveGoesOn
  <2>5. /\ Same(act') /\ act'.at = "remove" /\ act'.todo = act.todo + 1
        /\ act'.missed <=> act.missed
    BY <1>1, <1>6 DEF RemoveGoesOn, Locals, Same
  <2>6. Positions'
    BY <2>2, <2>5 DEF Positions, Same, Unplugs
  <2> QED
    BY <1>1, <1>6, <2>2, <2>3, <2>4, <2>5, <2>6, StepInv DEF RemoveGoesOn
<1>7. CASE RemoveEnds
  <2>1. act.todo = 10
    BY <1>2, <1>7 DEF RemoveEnds
  <2>2. tree' \in [Slot -> Sound] /\ faults' \in 0..MaxFaults /\ Hurt \in Nat
    BY <1>1, <1>7, <2>1, TakesApart DEF RemoveEnds
  <2>3. CASE act' = Returned(act, Result("ok"))
    BY <1>1, <1>3, <1>4, <1>7, <2>2, <2>3, ReturnInv DEF RemoveEnds
  <2>4. CASE act' = Returned([act EXCEPT !.hurt = Hurt], "err")
    <3> DEFINE a == [act EXCEPT !.hurt = Hurt]
    <3>1. a \in Locals
      BY <1>1, <2>2, HurtTyped
    <3>2. Same(a)
      BY <1>1 DEF Same, Locals
    <3> HIDE DEF a
    <3>3. act' = Returned(a, "err")
      BY <2>4 DEF a
    <3> QED
      BY <1>1, <1>7, <2>2, <3>1, <3>2, <3>3, ReturnInv DEF RemoveEnds
  <2> QED
    BY <1>7, <2>3, <2>4 DEF RemoveEnds
<1> QED
  BY <1>5, <1>6, <1>7

LEMMA DisconnectInv == ASSUME IInv, Disconnect PROVE IInv'
<1> DEFINE c == Status("disconnected")
<1>1. /\ act \in Locals /\ act.at = "disconnect" /\ act.slot \in Slot
      /\ act.hurt + 1 \in Nat /\ faults \in 0..MaxFaults /\ tree \in [Slot -> Sound]
  BY DEF IInv, CallSound, StoreSound, Locals, Disconnect
<1>2. Same(act) /\ UNCHANGED <<env, before, calls>>
  BY DEF Same, Disconnect
<1>3. CASE act' = Returned(act, "ok") /\ UNCHANGED <<tree, faults>>
  BY <1>1, <1>2, <1>3, ReturnInv
<1>4. CASE Perform(c) /\ act' = Returned(act, "ok")
  <2>1. c \in Call
    BY DEF Status, Call
  <2>2. tree' \in [Slot -> Sound] /\ faults' = faults
    BY <1>1, <1>4, <2>1, Performs
  <2> QED
    BY <1>1, <1>2, <1>4, <2>2, ReturnInv
<1>5. CASE /\ faults < MaxFaults /\ faults' = faults + 1 /\ UNCHANGED tree
           /\ act' = Returned([act EXCEPT !.hurt = @ + 1], "err")
  <2> DEFINE a == [act EXCEPT !.hurt = @ + 1]
  <2>1. a \in Locals
    BY <1>1, HurtTyped
  <2>2. Same(a)
    BY <1>1 DEF Same, Locals
  <2> HIDE DEF a
  <2>3. act' = Returned(a, "err")
    BY <1>5 DEF a
  <2>4. faults' \in 0..MaxFaults
    BY <1>5, FaultsTyped
  <2> QED
    BY <1>1, <1>2, <1>5, <2>1, <2>2, <2>3, <2>4, ReturnInv
<1> QED
  BY <1>3, <1>4, <1>5 DEF Disconnect

LEMMA StutterInv == ASSUME IInv, UNCHANGED vars PROVE IInv'
<1>1. StoreSound' /\ CallSound'
  BY DEF IInv, StoreSound, CallSound, vars
<1>2. Positions' /\ LowestName'
  BY DEF IInv, Positions, LowestName, Unplugs, vars
<1> QED
  BY <1>1, <1>2 DEF IInv

LEMMA InitInv == Init => IInv
<1> SUFFICES ASSUME Init PROVE IInv
  OBVIOUS
<1>1. [Gone EXCEPT !.nodes = {"inst"}] \in Sound
  BY DEF Gone, Sound, Instance, Node
<1>2. tree \in [Slot -> Sound] /\ before = tree
  BY <1>1, GoneSound DEF Init
<1>3. StoreSound
  BY <1>2, Bounds DEF Init, StoreSound, Environment
<1>4. act \in Locals /\ act.at = "idle" /\ act.call = None
  BY IdleTyped DEF Init, Idle
<1>5. CallSound /\ Positions /\ LowestName
  BY <1>4, NoneIsNothing DEF CallSound, Positions, LowestName
<1> QED
  BY <1>3, <1>5 DEF IInv

LEMMA NextInv == IInv /\ [Next]_vars => IInv'
<1> SUFFICES ASSUME IInv, [Next]_vars PROVE IInv'
  OBVIOUS
<1>1. CASE CallCreate \/ CallDestroy \/ CallDisconnect
  BY <1>1, CreateInv, OtherCallsInv
<1>2. CASE Build \/ BuildFails \/ SpecRejected
  BY <1>2, BuildInv, BuildFailsInv
<1>3. CASE Undo \/ UndoOver
  BY <1>3, UndoInv, UndoOverInv
<1>4. CASE RemoveNothing \/ RemoveUnplugs \/ RemoveGoesOn \/ RemoveEnds
  BY <1>4, UnplugsInv, RemoveInv
<1>5. CASE Disconnect \/ Kill
  BY <1>5, DisconnectInv, KillInv
<1>6. CASE AllDone \/ UNCHANGED vars
  BY <1>6, StutterInv DEF AllDone
<1> QED
  BY <1>1, <1>2, <1>3, <1>4, <1>5, <1>6 DEF Next

(* IInv holds throughout, for every number of names, calls and failures.   *)
THEOREM Invariance == Spec => []IInv
  BY InitInv, NextInv, PTL DEF Spec

(* Every variable has its type: no call is ever at a position its script   *)
(* does not have, and no device is in a state configfs cannot show.        *)
THEOREM TypeCorrect == Spec => []TypeOK
<1>1. IInv => TypeOK
  <2> SUFFICES ASSUME IInv PROVE TypeOK
    OBVIOUS
  <2>1. tree \in [Slot -> Instance] /\ before \in [Slot -> Instance]
    BY DEF IInv, StoreSound, Sound
  <2> QED
    BY <2>1 DEF IInv, StoreSound, CallSound, TypeOK, Environment
<1> QED
  BY <1>1, Invariance, PTL

(* next_free_name: however many directories there are, with gaps or with   *)
(* leftovers of killed runs, create takes the lowest index without one.    *)
THEOREM LowestNameTaken == Spec => []LowestName
<1>1. IInv => LowestName
  BY DEF IInv
<1> QED
  BY <1>1, Invariance, PTL

-----------------------------------------------------------------------------
(* No device goes while it is plugged.                                     *)
Falls(s) == tree[s].enabled /\ tree[s].status = "connected" /\ ~tree'[s].enabled

(* A call that is made only to a device that is unplugged, or that does    *)
(* not disable it, takes none away.                                        *)
LEMMA NoneFalls ==
    ASSUME IInv, act.slot \in Slot, NEW c \in Call, Perform(c) \/ Refused(c),
           \/ Unplugs(tree[act.slot])
           \/ c.do \notin {"enabled", "rmdir"}
           \/ c.do = "enabled" /\ c.of = "on"
    PROVE  \A s \in Slot : ~Falls(s)
<1> DEFINE t == tree[act.slot]
<1>1. CASE Refused(c)
  BY <1>1, Refuses DEF Falls
<1>2. CASE Perform(c)
  <2>1. /\ tree'[act.slot] = After(t, c) /\ t \in Sound /\ May(t, c)
        /\ \A s \in Slot : s # act.slot => tree'[s] = tree[s]
    BY <1>2, Performs
  <2>2. t.enabled /\ t.status = "connected" => After(t, c).enabled
    <3>1. CASE Unplugs(t)
      BY <3>1 DEF Unplugs
    <3>2. CASE c.do \notin {"enabled", "rmdir"}
      BY <2>1, <3>2, AfterSound
    <3>3. CASE c.do = "enabled" /\ c.of = "on"
      BY <2>1, <3>3, AfterSound
    <3> QED
      BY <3>1, <3>2, <3>3
  <2> QED
    BY <2>1, <2>2 DEF Falls
<1> QED
  BY <1>1, <1>2

(* A device goes only after its connector was unplugged, whatever fails    *)
(* and wherever a call is killed; but for a remove whose write of the      *)
(* status has failed.                                                      *)
THEOREM Graceful == Spec => GracefulRemoval
<1> DEFINE Kept == \A s \in Slot : Falls(s) => act.at = "remove" /\ act.missed
<1>1. ASSUME IInv, Next PROVE Kept
  <2>1. act \in Locals /\ (act.at # "idle" => act.slot \in Slot)
    BY <1>1 DEF IInv, CallSound
  <2>2. CASE Build
    <3> DEFINE c == CommitStep
    <3>1. act.at = "build" /\ act.todo \in 1..16
      BY <2>1, <2>2 DEF Build, Locals
    <3>2. /\ c \in Call /\ c.do # "rmdir"
          /\ c.do = "enabled" => c.of = "on"
      BY <3>1, CommitCalls DEF CommitStep
    <3>3. UNCHANGED tree \/ Perform(c)
      BY <2>2 DEF Build
    <3>4. CASE Perform(c)
      BY <1>1, <2>1, <3>1, <3>2, <3>4, NoneFalls
    <3> QED
      BY <3>3, <3>4 DEF Falls
  <2>3. CASE Undo
    <3> DEFINE c == UndoOf(act.log[Len(act.log)])
    <3>1. act.log \in Seq(Op) /\ act.log # << >> /\ act.at = "undo"
      BY <2>1, <2>3 DEF Undo, Locals
    <3>2. c \in Call
      BY <3>1, UndoCalls
    <3>3. Unplugs(tree[act.slot])
      BY <1>1, <3>1 DEF IInv, Positions
    <3>4. Perform(c) \/ Refused(c)
      BY <2>3 DEF Undo
    <3> QED
      BY <1>1, <2>1, <3>1, <3>2, <3>3, <3>4, NoneFalls
  <2>4. CASE RemoveUnplugs
    <3>1. act.at = "remove" /\ act.todo = 1
      BY <2>4 DEF RemoveUnplugs
    <3>2. RemoveStep \in Call /\ RemoveStep.do = "status"
      BY <3>1, RemoveCalls DEF RemoveStep
    <3>3. UNCHANGED tree \/ Perform(RemoveStep) \/ Refused(RemoveStep)
      BY <2>4 DEF RemoveUnplugs
    <3>4. CASE Perform(RemoveStep) \/ Refused(RemoveStep)
      BY <1>1, <2>1, <3>1, <3>2, <3>4, NoneFalls
    <3> QED
      BY <3>3, <3>4 DEF Falls
  <2>5. CASE RemoveGoesOn \/ RemoveEnds
    <3>1. /\ act.at = "remove" /\ act.todo \in 2..10
          /\ Perform(RemoveStep) \/ Refused(RemoveStep)
      BY <2>5 DEF RemoveGoesOn, RemoveEnds, RemoveScript
    <3>2. RemoveStep \in Call
      BY <3>1, RemoveCalls DEF RemoveStep
    <3>3. CASE ~act.missed
      <4>1. Unplugs(tree[act.slot])
        BY <1>1, <3>1, <3>3 DEF IInv, Positions
      <4> QED
        BY <1>1, <2>1, <3>1, <3>2, <4>1, NoneFalls
    <3> QED
      BY <3>1, <3>3
  <2>6. CASE Disconnect
    <3> DEFINE c == Status("disconnected")
    <3>1. c \in Call /\ c.do = "status"
      BY DEF Call, Status
    <3>2. act.at = "disconnect" /\ (UNCHANGED tree \/ Perform(c))
      BY <2>6 DEF Disconnect
    <3>3. CASE Perform(c)
      BY <1>1, <2>1, <3>1, <3>2, <3>3, NoneFalls
    <3> QED
      BY <3>2, <3>3 DEF Falls
  <2>7. CASE \/ CallCreate \/ CallDestroy \/ CallDisconnect \/ BuildFails
             \/ SpecRejected \/ UndoOver \/ RemoveNothing \/ Kill \/ AllDone
    <3>1. tree' = tree
      BY <2>7 DEF CallCreate, CallDestroy, CallDisconnect, Begins, BuildFails, Refused,
            SpecRejected, UndoOver, RemoveNothing, Kill, AllDone, vars
    <3> QED
      BY <3>1 DEF Falls
  <2> QED
    BY <1>1, <2>2, <2>3, <2>4, <2>5, <2>6, <2>7 DEF Next
<1>2. IInv /\ [Next]_vars => [Kept]_vars
  BY <1>1
<1>3. Kept <=> \A s \in Slot :
        tree[s].enabled /\ tree[s].status = "connected" /\ ~tree'[s].enabled =>
            act.at = "remove" /\ act.missed
  BY DEF Falls
<1> HIDE DEF Kept
<1> QED
  BY <1>2, <1>3, Invariance, PTL DEF Spec, GracefulRemoval

-----------------------------------------------------------------------------
(* remove sends a hotplug event only if it unplugs the connector with it,  *)
(* unless the read of the status has failed.                               *)
Loud ==
    /\ act.at = "remove" /\ act'.events > act.events /\ faults' = faults
    /\ ~(tree'[act.slot].status # tree[act.slot].status)

THEOREM Quiet == Spec => QuietRemoval
<1>1. ASSUME IInv, Next PROVE ~Loud
  <2> SUFFICES ASSUME Loud PROVE FALSE
    OBVIOUS
  <2>1. /\ act \in Locals /\ act.at = "remove" /\ act.slot \in Slot
        /\ act.events \in Nat /\ faults \in 0..MaxFaults /\ ~(act'.events = act.events)
    BY <1>1 DEF Loud, IInv, CallSound, StoreSound, Locals
  <2>2. CASE RemoveUnplugs
    <3> DEFINE t == tree[act.slot]
               c == RemoveStep
    <3>1. c \in Call /\ c.do = "status" /\ c.of = "disconnected"
      <4>1. act.todo = 1
        BY <2>2 DEF RemoveUnplugs
      <4> QED
        BY <4>1, RemoveCalls DEF RemoveStep
    <3>2. CASE ~Unplugged(t) /\ Perform(c)
      <4>1. tree'[act.slot] = After(t, c) /\ t \in Sound /\ May(t, c)
        BY <1>1, <2>1, <3>1, <3>2, Performs
      <4>2. "connector" \in t.nodes
        BY <3>1, <4>1 DEF May
      <4>3. t.status # "disconnected"
        BY <3>2, <4>2 DEF Unplugged
      <4>4. After(t, c).status = "disconnected"
        BY <3>1, <4>1, AfterSound
      <4> QED
        BY <4>1, <4>3, <4>4 DEF Loud
    <3>3. CASE faults' = faults + 1
      BY <2>1, <3>3 DEF Loud
    <3>4. CASE act' = [act EXCEPT !.todo = 2]
      BY <2>1, <3>4 DEF Locals
    <3>5. CASE act' = [act EXCEPT !.todo = 2, !.hurt = Hurt, !.missed = TRUE]
      BY <2>1, <3>5 DEF Locals
    <3> QED
      BY <2>2, <3>2, <3>3, <3>4, <3>5 DEF RemoveUnplugs
  <2>3. CASE RemoveNothing \/ RemoveGoesOn \/ RemoveEnds
    <3>1. act'.events = act.events
      BY <2>1, <2>3 DEF RemoveNothing, RemoveGoesOn, RemoveEnds, Returned, Locals
    <3> QED
      BY <2>1, <3>1
  <2>4. CASE Kill \/ AllDone
    <3>1. act'.events = 0 \/ act' = act
      BY <2>4 DEF Kill, AllDone, Idle, vars
    <3> QED
      BY <2>1, <3>1 DEF Loud
  <2>5. act.at # "idle" /\ act.at # "build" /\ act.at # "undo" /\ act.at # "disconnect"
    BY <2>1
  <2> QED
    BY <1>1, <2>2, <2>3, <2>4, <2>5
    DEF Next, CallCreate, CallDestroy, CallDisconnect, Begins, Build, BuildFails,
        SpecRejected, Undo, UndoOver, Disconnect
<1>2. IInv /\ [Next]_vars => [~Loud]_vars
  BY <1>1
<1>3. ~Loud <=>
        (act.at = "remove" /\ act'.events > act.events /\ faults' = faults =>
            tree'[act.slot].status # tree[act.slot].status)
  BY DEF Loud
<1> HIDE DEF Loud
<1> QED
  BY <1>2, <1>3, Invariance, PTL DEF Spec, QuietRemoval

-----------------------------------------------------------------------------
(* What the calls come to.  The second invariant says of the instance at   *)
(* hand what commit has made of it so far, and what remove has left.       *)

(* An instance as configfs keeps it: links between directories that are    *)
(* there, no directory outside the instance, nothing but directories.      *)
WellFormed(t) ==
    /\ \A l \in t.links : l \in t.nodes /\ LinkTarget[l] \in t.nodes
    /\ t.nodes # {} => "inst" \in t.nodes
    /\ t.nodes = {} => t = Gone

AllFormed == \A s \in Slot : WellFormed(tree[s]) /\ WellFormed(before[s])

CallFits ==
    /\ act.at \in {"build", "undo"} => act.call = "create"
    /\ act.at = "remove" => act.call \in {"create", "destroy"}
    /\ act.at = "disconnect" => act.call = "disconnect"
    /\ act.call \in {"create", "destroy", "disconnect"} => act.slot \in Slot /\ OthersKept

(* Before commit's i-th call.                                              *)
MadeNodes(i) ==
    {n \in Node : \/ n = "inst" /\ i > 1
                  \/ n = "plane" /\ i > 2
                  \/ n = "crtc" /\ i > 4
                  \/ n = "encoder" /\ i > 5
                  \/ n = "connector" /\ i > 6}
MadeLinks(i) ==
    {l \in Linked : \/ l = "plane" /\ i > 12
                    \/ l = "encoder" /\ i > 13
                    \/ l = "connector" /\ i > 14}

MadeUpTo(t, i) ==
    /\ t.nodes = MadeNodes(i) /\ t.links = MadeLinks(i)
    /\ t.enabled <=> i > 15
    /\ i > 11 => t.status = IF env.kde THEN "connected" ELSE "disconnected"
    /\ env.edid => (i > 7 => "edid" \in t.attrs) /\ (i > 8 => "edid_enabled" \in t.attrs)
    /\ env.hdr => (i > 9 => "type" \in t.attrs) /\ (i > 10 => "colorspaces" \in t.attrs)

Building ==
    act.at = "build" =>
        /\ act.events = 0
        /\ act.hurt = 0 <=> ~act.blind
        /\ act.todo = 1 => tree = before
        /\ act.todo > 1 => before[act.slot] = Gone /\ MadeUpTo(tree[act.slot], act.todo)

(* A create that undoes has met a failure.                                 *)
Undoing == act.at \in {"undo", "remove"} /\ act.call = "create" => act.hurt > 0

(* Before remove's k-th call, if nothing has gone wrong in remove.         *)
LeftAt(t, k) ==
    /\ k > 2 => ~t.enabled
    /\ k > 3 => "plane" \notin t.links
    /\ k > 4 => "encoder" \notin t.links
    /\ k > 5 => "connector" \notin t.links
    /\ k > 6 => "connector" \notin t.nodes
    /\ k > 7 => "encoder" \notin t.nodes
    /\ k > 8 => "crtc" \notin t.nodes
    /\ k > 9 => "plane" \notin t.nodes

NoneFailed == IF act.call = "create" THEN act.hurt <= 1 ELSE act.hurt = 0

Removing ==
    act.at = "remove" /\ act.todo > 1 =>
        /\ tree[act.slot].nodes # {}
        /\ NoneFailed => LeftAt(tree[act.slot], act.todo)

Created ==
    Over("create") =>
        /\ act.out # "ok" => act.hurt > 0 /\ (act.hurt <= 1 => tree[act.slot] = Gone)
        /\ act.out = "ok" =>
            LET t == tree[act.slot] IN
            /\ before[act.slot] = Gone
            /\ Complete(t) /\ t.enabled /\ t.status = "connected"
            /\ env.edid => {"edid", "edid_enabled"} \subseteq t.attrs
            /\ env.hdr => {"type", "colorspaces"} \subseteq t.attrs
            /\ act.events = IF env.kde THEN 0 ELSE 1

Destroyed ==
    Over("destroy") =>
        /\ act.out = "ok" <=> tree[act.slot] = Gone
        /\ act.hurt = 0 => act.out = "ok"

JInv ==
    /\ AllFormed /\ CallFits /\ Building /\ Undoing
    /\ Removing /\ Created /\ Destroyed

-----------------------------------------------------------------------------
LEMMA CallTyped ==
    ASSUME NEW c \in Call
    PROVE  /\ c.do \in {"mkdir", "rmdir", "symlink", "unlink", "set", "enabled", "status"}
           /\ c.do \in {"mkdir", "rmdir"} => c.of \in Node
           /\ c.do \in {"symlink", "unlink"} => c.of \in Linked
           /\ c.do = "set" => c.of \in Attr
           /\ c.do = "enabled" => c.of \in {"on", "off"}
           /\ c.do = "status" => c.of \in {"connected", "disconnected"}
  BY DEF Call

LEMMA TargetTyped ==
    /\ LinkTarget["plane"] = "crtc" /\ LinkTarget["encoder"] = "crtc"
    /\ LinkTarget["connector"] = "encoder"
    /\ \A l \in Linked : LinkTarget[l] \in Node /\ LinkTarget[l] # "inst" /\ l # "inst"
  BY LinkedNodes DEF LinkTarget, Node

(* What a system call makes of the directories and the links.              *)
LEMMA AfterNodes ==
    ASSUME NEW t \in Sound, NEW c \in Call, May(t, c)
    PROVE  \/ /\ c.do = "rmdir" /\ c.of = "inst" /\ t.nodes = {"inst"}
              /\ After(t, c) = Gone
           \/ /\ ~(c.do = "rmdir" /\ c.of = "inst")
              /\ After(t, c).nodes = (t.nodes \cup Of(c, "mkdir")) \ Of(c, "rmdir")
              /\ After(t, c).links = (t.links \cup Of(c, "symlink")) \ Of(c, "unlink")
              /\ After(t, c).attrs = t.attrs \cup Of(c, "set")
  BY DEF After, May, MayRmdir

LEMMA AfterFormed ==
    ASSUME NEW t \in Sound, NEW c \in Call, WellFormed(t), May(t, c)
    PROVE  WellFormed(After(t, c))
<1> DEFINE u == After(t, c)
<1>0. t.nodes \subseteq Node /\ t.links \subseteq Linked
  BY DEF Sound, Instance
<1>1. CASE u = Gone
  BY <1>1 DEF WellFormed, Gone
<1>2. CASE /\ ~(c.do = "rmdir" /\ c.of = "inst")
           /\ u.nodes = (t.nodes \cup Of(c, "mkdir")) \ Of(c, "rmdir")
           /\ u.links = (t.links \cup Of(c, "symlink")) \ Of(c, "unlink")
  <2>1. "inst" \in u.nodes
    <3>1. \/ "inst" \in t.nodes
          \/ c.do = "mkdir" /\ c.of = "inst"
      <4>1. CASE c.do = "mkdir" \/ c.do = "symlink" \/ c.do = "rmdir" \/ c.do = "enabled"
        BY <4>1 DEF May, MayRmdir, WellFormed
      <4>2. CASE c.do = "unlink" \/ c.do = "set" \/ c.do = "status"
        BY <4>2 DEF May, WellFormed
      <4> QED
        BY <4>1, <4>2, CallTyped
    <3> QED
      BY <1>2, <3>1 DEF Of
  <2>2. ASSUME NEW l \in u.links PROVE l \in u.nodes /\ LinkTarget[l] \in u.nodes
    <3>1. CASE l \in t.links
      <4>1. l \in t.nodes /\ LinkTarget[l] \in t.nodes
        BY <3>1 DEF WellFormed
      <4>2. c.do = "rmdir" => c.of # l /\ c.of # LinkTarget[l]
        BY <1>2, <3>1 DEF May, MayRmdir
      <4> QED
        BY <1>2, <4>1, <4>2 DEF Of
    <3>2. CASE l \notin t.links
      <4>1. c.do = "symlink" /\ c.of = l
        BY <1>2, <3>2, <2>2 DEF Of
      <4>2. l \in t.nodes /\ LinkTarget[l] \in t.nodes
        BY <4>1 DEF May
      <4> QED
        BY <1>2, <4>1, <4>2 DEF Of
    <3> QED
      BY <3>1, <3>2
  <2> QED
    BY <2>1, <2>2 DEF WellFormed
<1> QED
  BY <1>1, <1>2, AfterNodes

(* A call of create or destroy changes the instance at hand only, and      *)
(* leaves it well-formed.                                                  *)
LEMMA PerformsFormed ==
    ASSUME IInv, JInv, act.slot \in Slot, NEW c \in Call, Perform(c), before' = before
    PROVE  /\ AllFormed'
           /\ \A s \in Slot \ {act.slot} : tree[s] = before[s] => tree'[s] = before'[s]
<1>1. /\ tree' \in [Slot -> Sound]
      /\ tree'[act.slot] = After(tree[act.slot], c)
      /\ \A s \in Slot : s # act.slot => tree'[s] = tree[s]
      /\ tree[act.slot] \in Sound /\ May(tree[act.slot], c)
  BY Performs
<1>2. WellFormed(tree'[act.slot])
  BY <1>1, AfterFormed DEF JInv, AllFormed
<1>3. AllFormed'
  BY <1>1, <1>2 DEF JInv, AllFormed, WellFormed
<1> QED
  BY <1>1, <1>3

(* The tree stays, or a call has changed the instance at hand.             *)
LEMMA FormedKept ==
    ASSUME IInv, JInv, act.slot \in Slot, NEW c \in Call, before' = before,
           tree' = tree \/ Perform(c) \/ Refused(c), act'.slot = act.slot,
           act.call \in {"create", "destroy", "disconnect"}
    PROVE  AllFormed' /\ OthersKept'
<1>1. OthersKept
  BY DEF JInv, CallFits
<1>2. CASE tree' = tree
  BY <1>1, <1>2 DEF JInv, AllFormed, OthersKept
<1>3. CASE Perform(c)
  BY <1>1, <1>3, PerformsFormed DEF OthersKept
<1>4. CASE Refused(c)
  BY <1>2, <1>4 DEF Refused
<1> QED
  BY <1>2, <1>3, <1>4

-----------------------------------------------------------------------------
(* commit.                                                                 *)
LEMMA CommitIs ==
    /\ CommitScript[1] = Mkdir("inst") /\ CommitScript[2] = Mkdir("plane")
    /\ CommitScript[3] = Set("primary") /\ CommitScript[4] = Mkdir("crtc")
    /\ CommitScript[5] = Mkdir("encoder") /\ CommitScript[6] = Mkdir("connector")
    /\ CommitScript[7] = Set("edid") /\ CommitScript[8] = Set("edid_enabled")
    /\ CommitScript[9] = Set("type") /\ CommitScript[10] = Set("colorspaces")
    /\ CommitScript[11] = Status(IF env.kde THEN "connected" ELSE "disconnected")
    /\ CommitScript[12] = Symlink("plane") /\ CommitScript[13] = Symlink("encoder")
    /\ CommitScript[14] = Symlink("connector") /\ CommitScript[15] = Enabled("on")
    /\ CommitScript[16] = Status("connected")
  BY DEF CommitScript

(* Every call that commit makes on what it has made is let through, and    *)
(* makes what comes next.                                                  *)
LEMMA CommitMkdir ==
    ASSUME NEW t \in Sound, NEW i \in {1, 2, 4, 5, 6},
           i = 1 => t = Gone, i > 1 => MadeUpTo(t, i)
    PROVE  /\ May(t, CommitScript[i])
           /\ MadeUpTo(After(t, CommitScript[i]), i + 1)
<1> DEFINE n == CASE i = 1 -> "inst" [] i = 2 -> "plane" [] i = 4 -> "crtc"
                  [] i = 5 -> "encoder" [] i = 6 -> "connector"
           c == Mkdir(n)
           u == After(t, c)
<1>1. CommitScript[i] = c /\ n \in Node
  BY CommitIs DEF Node
<1>2. t.nodes = MadeNodes(i) /\ t.links = MadeLinks(i) /\ ~t.enabled
  BY LinkedNodes DEF MadeUpTo, Gone, MadeNodes, MadeLinks
<1>3. n \notin MadeNodes(i) /\ (n # "inst" => "inst" \in MadeNodes(i))
  BY DEF MadeNodes, Node
<1>4. MadeNodes(i) \cup {n} = MadeNodes(i + 1) /\ MadeLinks(i) = MadeLinks(i + 1)
  BY <1>1 DEF MadeNodes, MadeLinks, Node
<1> HIDE DEF n
<1>5. May(t, c)
  BY <1>2, <1>3 DEF May, Mkdir
<1>6. u = [t EXCEPT !.nodes = @ \cup {n}]
  BY <1>2 DEF After, Mkdir, Of, Sound, Instance
<1>7. MadeUpTo(u, i + 1)
  BY <1>2, <1>4, <1>6 DEF MadeUpTo, Sound, Instance
<1> QED
  BY <1>1, <1>5, <1>7

LEMMA CommitSet ==
    ASSUME NEW t \in Sound, NEW i \in {3, 7, 8, 9, 10}, MadeUpTo(t, i)
    PROVE  /\ May(t, CommitScript[i])
           /\ MadeUpTo(After(t, CommitScript[i]), i + 1)
<1> DEFINE a == CASE i = 3 -> "primary" [] i = 7 -> "edid" [] i = 8 -> "edid_enabled"
                  [] i = 9 -> "type" [] i = 10 -> "colorspaces"
           c == Set(a)
           u == After(t, c)
<1>1. CommitScript[i] = c
  BY CommitIs
<1>2. Holder(a) \in MadeNodes(i)
  BY DEF Holder, MadeNodes, Node
<1>3. MadeNodes(i) = MadeNodes(i + 1) /\ MadeLinks(i) = MadeLinks(i + 1)
  BY DEF MadeNodes, MadeLinks
<1>4. May(t, c)
  BY <1>2 DEF May, Set, MadeUpTo
<1>5. u = [t EXCEPT !.attrs = @ \cup {a}]
  BY DEF After, Set, Of, Sound, Instance
<1>6. MadeUpTo(u, i + 1)
  BY <1>3, <1>5 DEF MadeUpTo, Sound, Instance
<1> QED
  BY <1>1, <1>4, <1>6

LEMMA CommitSymlink ==
    ASSUME NEW t \in Sound, NEW i \in {12, 13, 14}, MadeUpTo(t, i)
    PROVE  /\ May(t, CommitScript[i])
           /\ MadeUpTo(After(t, CommitScript[i]), i + 1)
<1> DEFINE l == CASE i = 12 -> "plane" [] i = 13 -> "encoder" [] i = 14 -> "connector"
           c == Symlink(l)
           u == After(t, c)
<1>1. CommitScript[i] = c /\ l \in Linked
  BY CommitIs, LinkedNodes
<1>2. {l, LinkTarget[l]} \subseteq MadeNodes(i) /\ l \notin MadeLinks(i)
  BY LinkedNodes, TargetTyped DEF MadeNodes, MadeLinks, Node
<1>3. MadeNodes(i) = MadeNodes(i + 1) /\ MadeLinks(i) \cup {l} = MadeLinks(i + 1)
  BY LinkedNodes DEF MadeNodes, MadeLinks
<1> HIDE DEF l
<1>4. May(t, c)
  BY <1>2 DEF May, Symlink, MadeUpTo
<1>5. u = [t EXCEPT !.links = @ \cup {l}]
  BY DEF After, Symlink, Of, Sound, Instance
<1>6. MadeUpTo(u, i + 1)
  BY <1>3, <1>5 DEF MadeUpTo, Sound, Instance
<1> QED
  BY <1>1, <1>4, <1>6

LEMMA CommitStatus ==
    ASSUME NEW t \in Sound, MadeUpTo(t, 11)
    PROVE  /\ May(t, CommitScript[11])
           /\ MadeUpTo(After(t, CommitScript[11]), 12)
<1> DEFINE v == IF env.kde THEN "connected" ELSE "disconnected"
           u == After(t, Status(v))
<1>1. CommitScript[11] = Status(v)
  BY CommitIs
<1>2. "connector" \in MadeNodes(11) /\ MadeNodes(11) = MadeNodes(12)
      /\ MadeLinks(11) = MadeLinks(12)
  BY DEF MadeNodes, MadeLinks, Node
<1>3. May(t, Status(v))
  BY <1>2 DEF May, Status, MadeUpTo
<1>4. u = [t EXCEPT !.status = v]
  BY DEF After, Status, Of, Sound, Instance
<1>5. MadeUpTo(u, 12)
  BY <1>2, <1>4 DEF MadeUpTo, Sound, Instance
<1> QED
  BY <1>1, <1>3, <1>5

LEMMA CommitEnables ==
    ASSUME NEW t \in Sound, MadeUpTo(t, 15)
    PROVE  /\ May(t, CommitScript[15])
           /\ MadeUpTo(After(t, CommitScript[15]), 16)
<1> DEFINE u == After(t, Enabled("on"))
<1>1. CommitScript[15] = Enabled("on")
  BY CommitIs
<1>2. /\ MadeNodes(15) = Node /\ MadeNodes(16) = Node
      /\ MadeLinks(15) = Linked /\ MadeLinks(16) = Linked
  BY LinkedNodes DEF MadeNodes, MadeLinks, Node
<1>3. May(t, Enabled("on"))
  BY <1>2 DEF May, Enabled, MadeUpTo, Complete, Node
<1>4. /\ u.nodes = t.nodes /\ u.links = t.links /\ u.attrs = t.attrs
      /\ u.status = t.status /\ u.enabled
  BY DEF After, Enabled, Of, Sound, Instance
<1>5. MadeUpTo(u, 16)
  BY <1>2, <1>4 DEF MadeUpTo, Sound, Instance
<1> QED
  BY <1>1, <1>3, <1>5

(* What create returns Ok for.                                             *)
Whole(t) ==
    /\ Complete(t) /\ t.enabled /\ t.status = "connected"
    /\ env.edid => {"edid", "edid_enabled"} \subseteq t.attrs
    /\ env.hdr => {"type", "colorspaces"} \subseteq t.attrs

LEMMA CommitEnds ==
    ASSUME NEW t \in Sound, MadeUpTo(t, 16)
    PROVE  /\ May(t, CommitScript[16])
           /\ Whole(After(t, CommitScript[16]))
           /\ env.kde => Whole(t)
<1> DEFINE u == After(t, Status("connected"))
<1>1. CommitScript[16] = Status("connected")
  BY CommitIs
<1>2. MadeNodes(16) = Node /\ MadeLinks(16) = Linked /\ "connector" \in Node
  BY LinkedNodes DEF MadeNodes, MadeLinks, Node
<1>3. May(t, Status("connected"))
  BY <1>2 DEF May, Status, MadeUpTo
<1>4. u = [t EXCEPT !.status = "connected"]
  BY DEF After, Status, Of, Sound, Instance
<1>5. Whole(u) /\ (env.kde => Whole(t))
  BY <1>2, <1>4 DEF MadeUpTo, Whole, Complete, Sound, Instance
<1> QED
  BY <1>1, <1>3, <1>5

LEMMA CommitGoesOn ==
    ASSUME NEW t \in Sound, NEW i \in 1..16, i = 1 => t = Gone, i > 1 => MadeUpTo(t, i)
    PROVE  /\ May(t, CommitScript[i])
           /\ i < 16 => MadeUpTo(After(t, CommitScript[i]), i + 1)
           /\ Skipped(i) /\ i < 16 => MadeUpTo(t, i + 1)
<1>1. May(t, CommitScript[i]) /\ (i < 16 => MadeUpTo(After(t, CommitScript[i]), i + 1))
  <2>1. CASE i \in {1, 2, 4, 5, 6}
    BY <2>1, CommitMkdir
  <2>2. CASE i \in {3, 7, 8, 9, 10}
    BY <2>2, CommitSet
  <2>3. CASE i \in {12, 13, 14}
    BY <2>3, CommitSymlink
  <2>4. CASE i = 11
    BY <2>4, CommitStatus
  <2>5. CASE i = 15
    BY <2>5, CommitEnables
  <2>6. CASE i = 16
    BY <2>6, CommitEnds
  <2> QED
    BY <2>1, <2>2, <2>3, <2>4, <2>5, <2>6
<1>2. ASSUME Skipped(i), i < 16 PROVE MadeUpTo(t, i + 1)
  <2>1. i \in {7, 8, 9, 10} /\ (i \in {7, 8} => ~env.edid) /\ (i \in {9, 10} => ~env.hdr)
    BY <1>2 DEF Skipped
  <2>2. MadeNodes(i) = MadeNodes(i + 1) /\ MadeLinks(i) = MadeLinks(i + 1)
    BY <2>1 DEF MadeNodes, MadeLinks
  <2> QED
    BY <2>1, <2>2 DEF MadeUpTo
<1> QED
  BY <1>1, <1>2

-----------------------------------------------------------------------------
(* remove.                                                                 *)
LEMMA RemoveIs ==
    /\ RemoveScript[1] = Status("disconnected") /\ RemoveScript[2] = Enabled("off")
    /\ RemoveScript[3] = Unlink("plane") /\ RemoveScript[4] = Unlink("encoder")
    /\ RemoveScript[5] = Unlink("connector") /\ RemoveScript[6] = Rmdir("connector")
    /\ RemoveScript[7] = Rmdir("encoder") /\ RemoveScript[8] = Rmdir("crtc")
    /\ RemoveScript[9] = Rmdir("plane") /\ RemoveScript[10] = Rmdir("inst")
  BY DEF RemoveScript

(* The calls of remove, one by one.                                        *)
LEMMA UnlinkEffect ==
    ASSUME NEW t \in Sound, NEW l \in Linked
    PROVE  /\ After(t, Unlink(l)).nodes = t.nodes
           /\ After(t, Unlink(l)).links = t.links \ {l}
           /\ After(t, Unlink(l)).enabled <=> t.enabled
           /\ ~May(t, Unlink(l)) /\ ~t.enabled => l \notin t.links
<1>1. Unlink(l).do = "unlink" /\ Unlink(l).of = l
  BY DEF Unlink
<1> QED
  BY <1>1 DEF After, Of, May, Sound, Instance

LEMMA RmdirEffect ==
    ASSUME NEW t \in Sound, NEW n \in Node
    PROVE  /\ n = "inst" => After(t, Rmdir(n)) = Gone
           /\ n # "inst" => /\ After(t, Rmdir(n)).nodes = t.nodes \ {n}
                            /\ After(t, Rmdir(n)).links = t.links
                            /\ After(t, Rmdir(n)).enabled <=> t.enabled
           /\ ~May(t, Rmdir(n)) /\ ~t.enabled /\ t.links = {}
                /\ (n = "inst" => t.nodes = {"inst"}) => n \notin t.nodes
<1>1. Rmdir(n).do = "rmdir" /\ Rmdir(n).of = n
  BY DEF Rmdir
<1> QED
  BY <1>1 DEF After, Of, May, MayRmdir, Sound, Instance

LEMMA DisableEffect ==
    ASSUME NEW t \in Sound
    PROVE  /\ After(t, Enabled("off")).nodes = t.nodes
           /\ ~After(t, Enabled("off")).enabled
           /\ "inst" \in t.nodes => May(t, Enabled("off"))
<1>1. Enabled("off").do = "enabled" /\ Enabled("off").of = "off"
  BY DEF Enabled
<1> QED
  BY <1>1 DEF After, Of, May, Sound, Instance

(* A call of remove that has no effect but for a failure had nothing to do.*)
LEMMA RemoveNeedless ==
    ASSUME NEW t \in Sound, WellFormed(t), t.nodes # {}, NEW k \in 2..10,
           LeftAt(t, k), ~May(t, RemoveScript[k])
    PROVE  k < 10 /\ LeftAt(t, k + 1)
<1>0. "inst" \in t.nodes /\ t.links \subseteq Linked /\ t.nodes \subseteq Node
  BY DEF WellFormed, Sound, Instance
<1>1. k # 2
  BY <1>0, RemoveIs, DisableEffect
<1>2. CASE k \in {3, 4, 5}
  <2> DEFINE l == CASE k = 3 -> "plane" [] k = 4 -> "encoder" [] k = 5 -> "connector"
  <2>1. RemoveScript[k] = Unlink(l) /\ l \in Linked
    BY <1>2, RemoveIs, LinkedNodes
  <2>2. ~t.enabled
    BY <1>2 DEF LeftAt
  <2>3. l \notin t.links
    <3> HIDE DEF l
    <3> QED
      BY <2>1, <2>2, UnlinkEffect
  <2> QED
    BY <1>2, <2>3 DEF LeftAt
<1>3. CASE k \in {6, 7, 8, 9, 10}
  <2> DEFINE n == CASE k = 6 -> "connector" [] k = 7 -> "encoder" [] k = 8 -> "crtc"
                    [] k = 9 -> "plane" [] k = 10 -> "inst"
  <2>1. RemoveScript[k] = Rmdir(n) /\ n \in Node
    BY <1>3, RemoveIs DEF Node
  <2>2. ~t.enabled /\ t.links = {}
    BY <1>0, <1>3, LinkedNodes DEF LeftAt
  <2>3. n = "inst" => t.nodes = {"inst"}
    BY <1>0, <1>3 DEF LeftAt, Node
  <2>4. n \notin t.nodes
    <3> HIDE DEF n
    <3> QED
      BY <2>1, <2>2, <2>3, RmdirEffect
  <2>5. k # 10
    BY <1>0, <2>4
  <2> QED
    BY <1>3, <2>4, <2>5 DEF LeftAt
<1> QED
  BY <1>1, <1>2, <1>3

(* One that has an effect leaves what the next one expects.                *)
LEMMA RemoveTakes ==
    ASSUME NEW t \in Sound, WellFormed(t), t.nodes # {}, NEW k \in 2..10,
           May(t, RemoveScript[k])
    PROVE  /\ k = 10 => After(t, RemoveScript[k]) = Gone
           /\ k < 10 => /\ After(t, RemoveScript[k]).nodes # {}
                        /\ LeftAt(t, k) => LeftAt(After(t, RemoveScript[k]), k + 1)
<1> DEFINE c == RemoveScript[k]
           u == After(t, c)
<1>0. "inst" \in t.nodes /\ c \in Call
  BY RemoveCalls DEF WellFormed
<1>1. CASE k = 2
  <2>1. c = Enabled("off")
    BY <1>1, RemoveIs
  <2>2. u.nodes = t.nodes /\ ~u.enabled
    BY <2>1, DisableEffect
  <2> QED
    BY <1>1, <2>2 DEF LeftAt
<1>2. CASE k \in {3, 4, 5}
  <2> DEFINE l == CASE k = 3 -> "plane" [] k = 4 -> "encoder" [] k = 5 -> "connector"
  <2>1. c = Unlink(l) /\ l \in Linked
    BY <1>2, RemoveIs, LinkedNodes
  <2>2. u.nodes = t.nodes /\ u.links = t.links \ {l} /\ (u.enabled <=> t.enabled)
    <3> HIDE DEF l
    <3> QED
      BY <2>1, UnlinkEffect
  <2> QED
    BY <1>2, <2>2 DEF LeftAt
<1>3. CASE k \in {6, 7, 8, 9}
  <2> DEFINE n == CASE k = 6 -> "connector" [] k = 7 -> "encoder" [] k = 8 -> "crtc"
                    [] k = 9 -> "plane"
  <2>1. c = Rmdir(n) /\ n # "inst" /\ n \in Node
    BY <1>3, RemoveIs DEF Node
  <2>2. u.nodes = t.nodes \ {n} /\ u.links = t.links /\ (u.enabled <=> t.enabled)
    <3> HIDE DEF n
    <3> QED
      BY <2>1, RmdirEffect
  <2>3. "inst" \in u.nodes
    BY <1>0, <2>1, <2>2
  <2> QED
    BY <1>3, <2>2, <2>3 DEF LeftAt
<1>4. CASE k = 10
  <2>1. c = Rmdir("inst")
    BY <1>4, RemoveIs
  <2> QED
    BY <1>4, <2>1, RmdirEffect DEF Node
<1> QED
  BY <1>1, <1>2, <1>3, <1>4

-----------------------------------------------------------------------------
(* The second invariant is kept.                                           *)
Fresh(l) ==
    /\ l \in Locals /\ l.slot \in Slot /\ l.todo = 1
    /\ \/ /\ l.at = "build" /\ l.call = "create" /\ l.events = 0
          /\ l.hurt = 0 <=> ~l.blind
       \/ l.at = "remove" /\ l.call = "destroy"
       \/ l.at = "disconnect" /\ l.call = "disconnect"

LEMMA BeginsKeeps ==
    ASSUME IInv, JInv, NEW l, Begins(l), Fresh(l)
    PROVE  JInv'
<1>1. act' = l /\ tree' = tree /\ before' = tree /\ env' = env
  BY DEF Begins
<1>2. AllFormed' /\ CallFits'
  BY <1>1 DEF JInv, AllFormed, CallFits, OthersKept, Fresh
<1>3. Building' /\ Undoing' /\ Removing'
  BY <1>1 DEF Building, Undoing, Removing, Fresh
<1>4. Created' /\ Destroyed'
  BY <1>1 DEF Created, Destroyed, Over, Fresh
<1> QED
  BY <1>2, <1>3, <1>4 DEF JInv

LEMMA CreateKeeps == ASSUME IInv, JInv, CallCreate PROVE JInv'
<1>1. PICK blind \in BOOLEAN : \E used \in Sortings(IF blind THEN {} ELSE Listed) :
        /\ NextFree(used) \in Slot
        /\ Begins([Idle EXCEPT !.call = "create", !.at = "build", !.slot = NextFree(used),
                              !.blind = blind, !.hurt = IF blind THEN 1 ELSE 0])
  BY DEF CallCreate
<1>2. PICK s \in Slot :
        Begins([Idle EXCEPT !.call = "create", !.at = "build", !.slot = s,
                            !.blind = blind, !.hurt = IF blind THEN 1 ELSE 0])
  BY <1>1
<1> DEFINE l == [Idle EXCEPT !.call = "create", !.at = "build", !.slot = s,
                             !.blind = blind, !.hurt = IF blind THEN 1 ELSE 0]
<1>3. l.hurt = (IF blind THEN 1 ELSE 0) /\ l.blind = blind
  BY DEF Idle
<1>4. l \in Locals
  BY IdleTyped DEF Locals
<1>5. Fresh(l)
  BY <1>3, <1>4 DEF Fresh, Idle
<1> HIDE DEF l
<1>6. Begins(l)
  BY <1>2 DEF l
<1> QED
  BY <1>5, <1>6, BeginsKeeps

LEMMA OtherCallsKeep == ASSUME IInv, JInv, CallDestroy \/ CallDisconnect PROVE JInv'
<1>1. PICK s \in Slot :
        \/ Begins([Idle EXCEPT !.call = "destroy", !.at = "remove", !.slot = s])
        \/ Begins([Idle EXCEPT !.call = "disconnect", !.at = "disconnect", !.slot = s])
  BY DEF CallDestroy, CallDisconnect
<1>2. /\ Fresh([Idle EXCEPT !.call = "destroy", !.at = "remove", !.slot = s])
      /\ Fresh([Idle EXCEPT !.call = "disconnect", !.at = "disconnect", !.slot = s])
  BY IdleTyped DEF Fresh, Idle, Locals
<1> QED
  BY <1>1, <1>2, BeginsKeeps

(* What create finds when it can read the listing: nothing of that name.   *)
LEMMA BuildsOnGone ==
    ASSUME IInv, JInv, act.at = "build", act.slot \in Slot
    PROVE  /\ ~act.blind => before[act.slot] = Gone
           /\ act.todo = 1 => tree[act.slot] = before[act.slot]
           /\ ~act.blind /\ act.todo = 1 => tree[act.slot] = Gone
<1>1. ~act.blind => before[act.slot] = Gone
  BY DEF IInv, LowestName, JInv, CallFits, AllFormed, WellFormed
<1>2. act.todo = 1 => tree = before
  BY DEF JInv, Building
<1> QED
  BY <1>1, <1>2

LEMMA BuildKeeps == ASSUME IInv, JInv, Build PROVE JInv'
<1> DEFINE t == tree[act.slot]
           i == act.todo
           c == CommitStep
<1>1. /\ act \in Locals /\ act.at = "build" /\ act.slot \in Slot /\ i \in 1..16
      /\ act.call = "create" /\ t \in Sound /\ tree \in [Slot -> Sound]
      /\ act.hurt \in Nat /\ act.events = 0 /\ (act.hurt = 0 <=> ~act.blind)
  BY DEF IInv, StoreSound, CallSound, Locals, Build, JInv, CallFits, Building
<1>2. c \in Call /\ c = CommitScript[i] /\ (c.do = "status" <=> i \in {11, 16})
  BY <1>1, CommitCalls DEF CommitStep
<1>3. Len(CommitScript) = 16
  BY DEF CommitScript
<1>4. UNCHANGED <<env, before>>
  BY DEF Build
<1>5. \/ Skipped(i) /\ tree' = tree
      \/ /\ ~Skipped(i) /\ Perform(c) /\ tree'[act.slot] = After(t, c) /\ May(t, c)
         /\ tree' \in [Slot -> Sound]
  BY <1>1, <1>2, Performs DEF Build
<1>6. i > 1 => before[act.slot] = Gone /\ MadeUpTo(t, i)
  BY <1>1 DEF JInv, Building
<1>7. i = 1 => ~Skipped(i) /\ t = Gone /\ before[act.slot] = Gone
  <2> SUFFICES ASSUME i = 1 PROVE ~Skipped(i) /\ t = Gone /\ before[act.slot] = Gone
    OBVIOUS
  <2>1. ~Skipped(i)
    BY DEF Skipped
  <2>2. c = Mkdir("inst")
    BY <1>2, CommitIs
  <2>3. "inst" \notin t.nodes
    BY <1>5, <2>1, <2>2 DEF May, Mkdir
  <2>4. t = Gone
    BY <1>1, <2>3 DEF JInv, AllFormed, WellFormed
  <2> QED
    BY <1>1, <2>1, <2>4, BuildsOnGone
<1>8. before[act.slot] = Gone
  BY <1>1, <1>6, <1>7
<1>9. i < 16 => MadeUpTo(tree'[act.slot], i + 1)
  BY <1>1, <1>2, <1>5, <1>6, <1>7, CommitGoesOn
<1>10. Events(c) = IF i = 16 THEN 1 ELSE 0
  <2>1. i = 11 => ~t.enabled
    BY <1>6 DEF MadeUpTo
  <2>2. i = 16 => t.enabled
    BY <1>6 DEF MadeUpTo
  <2> QED
    BY <1>1, <1>2, <2>1, <2>2 DEF Events
<1> DEFINE a == IF Skipped(i) THEN act
                ELSE [act EXCEPT !.log = Logged(c), !.events = @ + Events(c)]
<1>a. /\ a.at = "build" /\ a.slot = act.slot /\ a.call = "create" /\ a.todo = i
      /\ a.hurt = act.hurt /\ (a.blind <=> act.blind)
      /\ a.events = IF Skipped(i) THEN 0 ELSE Events(c)
  <2>1. CASE Skipped(i)
    BY <1>1, <2>1
  <2>2. CASE ~Skipped(i)
    <3>1. a = [act EXCEPT !.log = Logged(c), !.events = @ + Events(c)]
      BY <2>2
    <3>2. act.events + Events(c) = Events(c)
      BY <1>1, <1>10
    <3> HIDE DEF a
    <3> QED
      BY <1>1, <2>2, <3>1, <3>2 DEF Locals
  <2> QED
    BY <2>1, <2>2
<1>b. /\ DOMAIN a = DOMAIN Idle
      /\ i = 16 => act' = Returned(a, "ok")
      /\ i < 16 => act' = [a EXCEPT !.todo = @ + 1]
  <2>1. DOMAIN act = DOMAIN Idle
    BY <1>1 DEF Locals, Idle
  <2>2. DOMAIN a = DOMAIN act
    OBVIOUS
  <2>3. Built(a)
    BY DEF Build
  <2> HIDE DEF a
  <2> QED
    BY <1>1, <1>3, <2>1, <2>2, <2>3 DEF Built
<1> HIDE DEF a
<1>11. /\ act'.slot = act.slot /\ act'.call = "create" /\ act'.hurt = act.hurt
       /\ act'.blind <=> act.blind
       /\ act'.events = IF Skipped(i) THEN 0 ELSE Events(c)
       /\ i = 16 => act'.at = "idle" /\ act'.out = "ok"
       /\ i < 16 => act'.at = "build" /\ act'.todo = i + 1
  <2>1. CASE i = 16
    BY <1>a, <1>b, <2>1 DEF Returned, Idle
  <2>2. CASE i < 16
    BY <1>a, <1>b, <2>2 DEF Idle
  <2> QED
    BY <1>1, <2>1, <2>2
<1>12. AllFormed' /\ OthersKept'
  BY <1>1, <1>2, <1>4, <1>5, <1>11, FormedKept
<1>13. CallFits' /\ Undoing' /\ Removing' /\ Destroyed'
  BY <1>1, <1>11, <1>12 DEF CallFits, Undoing, Removing, Destroyed, Over
<1>14. CASE i < 16
  <2>2. Building'
    BY <1>1, <1>4, <1>8, <1>9, <1>10, <1>11, <1>14 DEF Building, MadeUpTo
  <2>3. Created'
    BY <1>11, <1>14 DEF Created, Over
  <2> QED
    BY <1>12, <1>13, <2>2, <2>3 DEF JInv
<1>15. CASE i = 16
  <2>1. Skipped(i) <=> env.kde
    BY <1>15 DEF Skipped
  <2>2. Whole(tree'[act.slot])
    BY <1>1, <1>2, <1>5, <1>6, <1>15, <2>1, CommitEnds
  <2>3. Created'
    BY <1>4, <1>8, <1>10, <1>11, <1>15, <2>1, <2>2 DEF Created, Over, Whole
  <2>4. Building'
    BY <1>11, <1>15 DEF Building
  <2> QED
    BY <1>12, <1>13, <2>3, <2>4 DEF JInv
<1> QED
  BY <1>1, <1>14, <1>15

(* What went wrong so far, after one more call.                            *)
LEMMA HurtGrows ==
    ASSUME IInv, NEW c, Perform(c) \/ Refused(c)
    PROVE  /\ Hurt \in Nat /\ act.hurt \in Nat /\ Hurt >= act.hurt
           /\ Hurt = act.hurt /\ Refused(c) => ~May(tree[act.slot], c)
  BY Bounds DEF IInv, StoreSound, CallSound, Locals, Perform, Refused, Hurt

(* A step inside a call, and the last one.                                 *)
LEMMA GoesOnKeeps ==
    ASSUME IInv, JInv, act.slot \in Slot, NEW c \in Call, before' = before,
           tree' = tree \/ Perform(c) \/ Refused(c),
           act'.slot = act.slot, act'.call = act.call,
           \/ act'.at = "undo" /\ act.call = "create"
           \/ act'.at = "remove" /\ act.call \in {"create", "destroy"},
           Undoing', Removing'
    PROVE  JInv'
<1>1. act.call \in {"create", "destroy", "disconnect"}
  OBVIOUS
<1>2. AllFormed' /\ OthersKept'
  BY <1>1, FormedKept
<1>3. CallFits' /\ Building' /\ Created' /\ Destroyed'
  BY <1>2 DEF CallFits, Building, Created, Destroyed, Over
<1> QED
  BY <1>2, <1>3 DEF JInv

LEMMA EndsKeeps ==
    ASSUME IInv, JInv, act.slot \in Slot, NEW c \in Call, before' = before,
           tree' = tree \/ Perform(c) \/ Refused(c),
           act'.slot = act.slot, act'.call = act.call, act'.at = "idle",
           act.call \in {"create", "destroy", "disconnect"}, Created', Destroyed'
    PROVE  JInv'
<1>1. AllFormed' /\ OthersKept'
  BY FormedKept
<1>2. CallFits' /\ Building' /\ Undoing' /\ Removing'
  BY <1>1 DEF CallFits, Building, Undoing, Removing
<1> QED
  BY <1>1, <1>2 DEF JInv

LEMMA BuildFailsKeeps == ASSUME IInv, JInv, BuildFails \/ SpecRejected PROVE JInv'
<1> DEFINE t == tree[act.slot]
           i == act.todo
           c == CommitStep
<1>1. /\ act \in Locals /\ act.at = "build" /\ act.slot \in Slot /\ i \in 1..16
      /\ act.call = "create" /\ t \in Sound /\ before' = before
      /\ act.hurt \in Nat /\ (act.hurt = 0 <=> ~act.blind)
  BY DEF IInv, StoreSound, CallSound, Locals, BuildFails, SpecRejected, JInv, CallFits,
         Building
<1>2. c \in Call /\ c = CommitScript[i]
  BY <1>1, CommitCalls DEF CommitStep
<1>3. ~act.blind => May(t, c)
  <2>1. i > 1 => MadeUpTo(t, i)
    BY <1>1 DEF JInv, Building
  <2>2. ~act.blind /\ i = 1 => t = Gone
    BY <1>1, BuildsOnGone
  <2> QED
    BY <1>1, <1>2, <2>1, <2>2, CommitGoesOn
<1>4. PICK h \in Nat : h > 0 /\ act' = [act EXCEPT !.at = "undo", !.hurt = h]
  <2>1. CASE BuildFails
    <3>1. Hurt \in Nat /\ Hurt > 0
      BY <1>1, <1>3, <2>1, HurtGrows DEF BuildFails
    <3> QED
      BY <2>1, <3>1 DEF BuildFails
  <2>2. CASE SpecRejected
    <3>1. act.hurt + 1 \in Nat /\ act.hurt + 1 > 0
      BY <1>1
    <3> QED
      BY <2>2, <3>1 DEF SpecRejected
  <2> QED
    BY <2>1, <2>2
<1>5. /\ act'.slot = act.slot /\ act'.call = act.call /\ act'.at = "undo"
      /\ act'.hurt > 0
  BY <1>1, <1>4 DEF Locals
<1>6. tree' = tree
  BY DEF BuildFails, SpecRejected, Refused
<1>7. Undoing' /\ Removing'
  BY <1>5 DEF Undoing, Removing
<1> QED
  BY <1>1, <1>2, <1>5, <1>6, <1>7, GoesOnKeeps

LEMMA UndoKeeps == ASSUME IInv, JInv, Undo PROVE JInv'
<1> DEFINE c == UndoOf(act.log[Len(act.log)])
<1>1. /\ act \in Locals /\ act.at = "undo" /\ act.slot \in Slot /\ act.call = "create"
      /\ act.hurt > 0 /\ before' = before
  BY DEF IInv, CallSound, Undo, JInv, CallFits, Undoing
<1>2. act.log[Len(act.log)] \in Op
  BY <1>1 DEF Locals, Undo
<1>3. c \in Call /\ (Perform(c) \/ Refused(c))
  BY <1>2, UndoCalls DEF Undo
<1>4. /\ act'.slot = act.slot /\ act'.call = act.call /\ act'.at = "undo"
      /\ act'.hurt = Hurt
  BY <1>1 DEF Undo, Locals
<1>5. Undoing' /\ Removing'
  BY <1>1, <1>3, <1>4, HurtGrows DEF Undoing, Removing
<1> QED
  BY <1>1, <1>3, <1>4, <1>5, GoesOnKeeps

LEMMA UndoOverKeeps == ASSUME IInv, JInv, UndoOver PROVE JInv'
<1>1. /\ act \in Locals /\ act.at = "undo" /\ act.slot \in Slot /\ act.call = "create"
      /\ act.hurt > 0 /\ before' = before /\ tree' = tree
  BY DEF IInv, CallSound, UndoOver, JInv, CallFits, Undoing
<1>2. /\ act'.slot = act.slot /\ act'.call = act.call /\ act'.at = "remove"
      /\ act'.hurt = act.hurt /\ act'.todo = 1
  BY <1>1 DEF UndoOver, Locals
<1>3. Undoing' /\ Removing'
  BY <1>1, <1>2 DEF Undoing, Removing
<1>4. RemoveScript[1] \in Call
  BY RemoveCalls
<1> QED
  BY <1>1, <1>2, <1>3, <1>4, GoesOnKeeps

LEMMA RemoveNothingKeeps == ASSUME IInv, JInv, RemoveNothing PROVE JInv'
<1>1. /\ act \in Locals /\ act.at = "remove" /\ act.slot \in Slot
      /\ act.call \in {"create", "destroy"} /\ (act.call = "create" => act.hurt > 0)
      /\ before' = before /\ tree' = tree /\ tree[act.slot] = Gone
  BY DEF IInv, CallSound, RemoveNothing, JInv, CallFits, Undoing, AllFormed, WellFormed
<1>2. /\ act'.slot = act.slot /\ act'.call = act.call /\ act'.at = "idle"
      /\ act'.hurt = act.hurt /\ act'.out = Result("ok")
  BY <1>1 DEF RemoveNothing, Returned, Locals
<1>3. Created' /\ Destroyed'
  BY <1>1, <1>2 DEF Created, Destroyed, Over, Result
<1>4. RemoveScript[1] \in Call
  BY RemoveCalls
<1> QED
  BY <1>1, <1>2, <1>3, <1>4, EndsKeeps

LEMMA RemoveUnplugsKeeps == ASSUME IInv, JInv, RemoveUnplugs PROVE JInv'
<1> DEFINE t == tree[act.slot]
           c == Status("disconnected")
<1>1. /\ act \in Locals /\ act.at = "remove" /\ act.slot \in Slot /\ t \in Sound
      /\ act.call \in {"create", "destroy"} /\ (act.call = "create" => act.hurt > 0)
      /\ before' = before /\ t.nodes # {}
  BY DEF IInv, StoreSound, CallSound, RemoveUnplugs, JInv, CallFits, Undoing
<1>2. RemoveStep = c /\ c \in Call
  BY RemoveIs, RemoveCalls DEF RemoveUnplugs, RemoveStep
<1>3. /\ tree' = tree \/ Perform(c)
      /\ \E h \in {act.hurt, Hurt} : act'.hurt = h
      /\ act'.slot = act.slot /\ act'.call = act.call /\ act'.at = "remove"
      /\ act'.todo = 2
  BY <1>1, <1>2 DEF RemoveUnplugs, Refused, Locals
<1>4. act'.hurt >= act.hurt /\ act'.hurt \in Nat
  <2>1. faults' \in {faults, faults + 1}
    BY <1>2 DEF RemoveUnplugs, Perform, Refused
  <2> QED
    BY <1>1, <1>3, <2>1 DEF IInv, StoreSound, Locals, Hurt
<1>5. tree'[act.slot].nodes # {}
  <2>1. CASE tree' = tree
    BY <1>1, <2>1
  <2>2. CASE Perform(c)
    <3>1. tree'[act.slot] = After(t, c)
      BY <1>1, <1>2, <2>2, Performs
    <3>2. After(t, c).nodes = t.nodes
      BY <1>1 DEF After, Status, Of, Sound, Instance
    <3> QED
      BY <1>1, <3>1, <3>2
  <2> QED
    BY <1>3, <2>1, <2>2
<1>6. Undoing'
  BY <1>1, <1>3, <1>4 DEF Undoing, Locals
<1>7. Removing'
  BY <1>3, <1>5 DEF Removing, LeftAt
<1> QED
  BY <1>1, <1>2, <1>3, <1>6, <1>7, GoesOnKeeps

(* What remove has done so far, for the call it makes.                     *)
LEMMA RemoveGets ==
    ASSUME IInv, JInv, act.at = "remove", act.todo \in 2..10,
           Perform(RemoveStep) \/ Refused(RemoveStep),
           NEW h, h = Hurt \/ (Perform(RemoveStep) /\ h = act.hurt)
    PROVE  LET t == tree[act.slot]
               k == act.todo
           IN /\ RemoveStep = RemoveScript[k] /\ RemoveStep \in Call
              /\ t \in Sound /\ WellFormed(t) /\ t.nodes # {}
              /\ h \in Nat /\ h >= act.hurt
              /\ act.call = "create" => act.hurt > 0
              /\ (IF act.call = "create" THEN h <= 1 ELSE h = 0) =>
                    /\ LeftAt(t, k)
                    /\ Refused(RemoveStep) => ~May(t, RemoveScript[k])
<1>1. act.slot \in Slot /\ act.hurt \in Nat /\ tree[act.slot] \in Sound
  BY DEF IInv, CallSound, StoreSound, Locals
<1>2. RemoveStep = RemoveScript[act.todo] /\ RemoveStep \in Call
  BY RemoveCalls DEF RemoveStep
<1>3. WellFormed(tree[act.slot]) /\ tree[act.slot].nodes # {}
  BY <1>1 DEF JInv, AllFormed, Removing
<1>4. h \in Nat /\ h >= act.hurt
  BY <1>1, HurtGrows
<1>5. act.call = "create" => act.hurt > 0
  BY DEF JInv, Undoing
<1>6. ASSUME IF act.call = "create" THEN h <= 1 ELSE h = 0
      PROVE  /\ h = act.hurt /\ NoneFailed
             /\ Refused(RemoveStep) => ~May(tree[act.slot], RemoveStep)
  <2>1. h = act.hurt /\ NoneFailed
    BY <1>1, <1>4, <1>5, <1>6 DEF NoneFailed
  <2>2. Hurt = act.hurt
    BY <1>1, <2>1 DEF Perform, Hurt, IInv, StoreSound
  <2>3. ASSUME Refused(RemoveStep) PROVE ~May(tree[act.slot], RemoveStep)
    BY <2>2, <2>3, HurtGrows
  <2> QED
    BY <2>1, <2>3
<1>7. NoneFailed => LeftAt(tree[act.slot], act.todo)
  BY DEF JInv, Removing
<1> QED
  BY <1>1, <1>2, <1>3, <1>4, <1>5, <1>6, <1>7

LEMMA RemoveGoesOnKeeps == ASSUME IInv, JInv, RemoveGoesOn PROVE JInv'
<1> DEFINE t == tree[act.slot]
           k == act.todo
           c == RemoveStep
<1>1. /\ act \in Locals /\ act.at = "remove" /\ act.slot \in Slot /\ k \in 2..9
      /\ act.call \in {"create", "destroy"} /\ before' = before
      /\ Perform(c) \/ Refused(c)
  BY DEF IInv, CallSound, RemoveGoesOn, RemoveScript, JInv, CallFits
<1>2. /\ act'.slot = act.slot /\ act'.call = act.call /\ act'.at = "remove"
      /\ act'.hurt = Hurt /\ act'.todo = k + 1
  BY <1>1 DEF RemoveGoesOn, Locals
<1>3. /\ c = RemoveScript[k] /\ c \in Call
      /\ t \in Sound /\ WellFormed(t) /\ t.nodes # {}
      /\ Hurt \in Nat /\ Hurt >= act.hurt /\ act.hurt \in Nat
      /\ act.call = "create" => act.hurt > 0
      /\ (IF act.call = "create" THEN Hurt <= 1 ELSE Hurt = 0) =>
            LeftAt(t, k) /\ (Refused(c) => ~May(t, c))
  BY <1>1, RemoveGets DEF Locals
<1>4. tree'[act.slot].nodes # {} /\ (NoneFailed' => LeftAt(tree'[act.slot], k + 1))
  <2>1. CASE Perform(c)
    <3>1. tree'[act.slot] = After(t, c) /\ May(t, c)
      BY <1>1, <1>3, <2>1, Performs
    <3>2. After(t, c).nodes # {} /\ (LeftAt(t, k) => LeftAt(After(t, c), k + 1))
      BY <1>1, <1>3, <3>1, RemoveTakes
    <3> QED
      BY <1>2, <1>3, <3>1, <3>2 DEF NoneFailed
  <2>2. CASE Refused(c)
    <3>1. tree'[act.slot] = t
      BY <2>2 DEF Refused
    <3>2. ASSUME NoneFailed' PROVE LeftAt(t, k + 1)
      <4>1. LeftAt(t, k) /\ ~May(t, c)
        BY <1>2, <1>3, <2>2, <3>2 DEF NoneFailed
      <4> QED
        BY <1>1, <1>3, <4>1, RemoveNeedless
    <3> QED
      BY <1>3, <3>1, <3>2
  <2> QED
    BY <1>1, <2>1, <2>2
<1>5. Removing'
  BY <1>2, <1>4 DEF Removing
<1>6. Undoing'
  BY <1>2, <1>3 DEF Undoing
<1> QED
  BY <1>1, <1>2, <1>3, <1>5, <1>6, GoesOnKeeps

LEMMA RemoveEndsKeeps == ASSUME IInv, JInv, RemoveEnds PROVE JInv'
<1> DEFINE t == tree[act.slot]
           c == RemoveStep
<1>1. /\ act \in Locals /\ act.at = "remove" /\ act.slot \in Slot /\ act.todo = 10
      /\ act.call \in {"create", "destroy"} /\ before' = before
  BY DEF IInv, CallSound, RemoveEnds, RemoveScript, JInv, CallFits
<1>2. /\ act'.slot = act.slot /\ act'.call = act.call /\ act'.at = "idle"
      /\ \/ Perform(c) /\ act'.out = Result("ok") /\ act'.hurt = act.hurt
         \/ Refused(c) /\ act'.out = "err" /\ act'.hurt = Hurt
  <2>1. DOMAIN act = DOMAIN Idle
    BY <1>1 DEF Locals, Idle
  <2> QED
    BY <1>1, <2>1 DEF RemoveEnds, Returned, Idle
<1>3. /\ c = RemoveScript[10] /\ c \in Call
      /\ t \in Sound /\ WellFormed(t) /\ t.nodes # {}
      /\ act'.hurt \in Nat /\ act'.hurt >= act.hurt
      /\ act.call = "create" => act.hurt > 0
      /\ (IF act.call = "create" THEN act'.hurt <= 1 ELSE act'.hurt = 0) =>
            LeftAt(t, 10) /\ (Refused(c) => ~May(t, c))
  <2>1. act'.hurt = Hurt \/ (Perform(c) /\ act'.hurt = act.hurt)
    BY <1>2
  <2> QED
    BY <1>1, <1>2, <2>1, RemoveGets
<1>4. CASE Perform(c) /\ act'.out = Result("ok")
  <2>1. tree'[act.slot] = Gone
    BY <1>1, <1>3, <1>4, Performs, RemoveTakes
  <2>2. Created' /\ Destroyed'
    BY <1>1, <1>2, <1>3, <1>4, <2>1 DEF Created, Destroyed, Over, Result, Locals
  <2> QED
    BY <1>1, <1>2, <1>3, <2>2, EndsKeeps
<1>5. CASE Refused(c) /\ act'.out = "err"
  <2>1. tree'[act.slot] = t /\ t # Gone
    BY <1>3, <1>5 DEF Refused, Gone
  <2>2. ~(IF act.call = "create" THEN act'.hurt <= 1 ELSE act'.hurt = 0)
    <3> SUFFICES ASSUME LeftAt(t, 10), ~May(t, c) PROVE FALSE
      BY <1>3, <1>5
    <3> QED
      BY <1>3, RemoveNeedless
  <2>3. Created' /\ Destroyed'
    BY <1>1, <1>2, <1>3, <1>5, <2>1, <2>2 DEF Created, Destroyed, Over, Locals
  <2> QED
    BY <1>1, <1>2, <1>3, <2>3, EndsKeeps
<1> QED
  BY <1>2, <1>4, <1>5

LEMMA DisconnectKeeps == ASSUME IInv, JInv, Disconnect PROVE JInv'
<1> DEFINE c == Status("disconnected")
<1>1. /\ act \in Locals /\ act.slot \in Slot /\ act.call = "disconnect" /\ before' = before
  BY DEF IInv, CallSound, Disconnect, JInv, CallFits
<1>2. c \in Call /\ (tree' = tree \/ Perform(c))
  BY DEF Disconnect, Call, Status
<1>3. act'.slot = act.slot /\ act'.call = act.call /\ act'.at = "idle"
  BY <1>1 DEF Disconnect, Returned, Locals
<1>4. Created' /\ Destroyed'
  BY <1>1, <1>3 DEF Created, Destroyed, Over
<1> QED
  BY <1>1, <1>2, <1>3, <1>4, EndsKeeps

LEMMA KillKeeps == ASSUME IInv, JInv, Kill PROVE JInv'
<1>1. act' = Idle /\ tree' = tree /\ before' = before
  BY DEF Kill
<1>2. act'.at = "idle" /\ act'.call \notin {"create", "destroy", "disconnect"}
  BY <1>1, NoneIsNothing DEF Idle
<1>3. AllFormed'
  BY <1>1 DEF JInv, AllFormed, WellFormed
<1>4. CallFits' /\ Building' /\ Undoing' /\ Removing' /\ Created' /\ Destroyed'
  BY <1>2 DEF CallFits, Building, Undoing, Removing, Created, Destroyed, Over
<1> QED
  BY <1>3, <1>4 DEF JInv

LEMMA InitJ == Init => JInv
<1> SUFFICES ASSUME Init PROVE JInv
  OBVIOUS
<1>1. act.at = "idle" /\ act.call \notin {"create", "destroy", "disconnect"}
  BY NoneIsNothing DEF Init, Idle
<1>2. /\ before = tree
      /\ \A s \in Slot : tree[s] = Gone \/ tree[s] = [Gone EXCEPT !.nodes = {"inst"}]
  BY DEF Init
<1>3. WellFormed(Gone) /\ WellFormed([Gone EXCEPT !.nodes = {"inst"}])
  BY DEF WellFormed, Gone
<1>4. AllFormed
  BY <1>2, <1>3 DEF AllFormed
<1>5. CallFits /\ Building /\ Undoing /\ Removing /\ Created /\ Destroyed
  BY <1>1 DEF CallFits, Building, Undoing, Removing, Created, Destroyed, Over
<1> QED
  BY <1>4, <1>5 DEF JInv

LEMMA StutterKeeps == ASSUME JInv, UNCHANGED vars PROVE JInv'
  BY DEF vars, JInv, AllFormed, WellFormed, CallFits, OthersKept, Building, MadeUpTo,
         MadeNodes, MadeLinks, Undoing, Removing, LeftAt, NoneFailed, Created, Over,
         Complete, Destroyed

LEMMA NextKeeps == IInv /\ JInv /\ [Next]_vars => JInv'
<1> SUFFICES ASSUME IInv, JInv, [Next]_vars PROVE JInv'
  OBVIOUS
<1>1. CASE CallCreate \/ CallDestroy \/ CallDisconnect
  BY <1>1, CreateKeeps, OtherCallsKeep
<1>2. CASE Build \/ BuildFails \/ SpecRejected
  BY <1>2, BuildKeeps, BuildFailsKeeps
<1>3. CASE Undo \/ UndoOver
  BY <1>3, UndoKeeps, UndoOverKeeps
<1>4. CASE RemoveNothing \/ RemoveUnplugs \/ RemoveGoesOn \/ RemoveEnds
  BY <1>4, RemoveNothingKeeps, RemoveUnplugsKeeps, RemoveGoesOnKeeps, RemoveEndsKeeps
<1>5. CASE Disconnect
  BY <1>5, DisconnectKeeps
<1>6. CASE Kill
  BY <1>6, KillKeeps
<1>7. CASE UNCHANGED vars
  BY <1>7, StutterKeeps
<1> QED
  BY <1>1, <1>2, <1>3, <1>4, <1>5, <1>6, <1>7 DEF Next, AllDone

(* The second invariant holds for any set of names, any number of calls    *)
(* and failures, and kills anywhere.                                       *)
THEOREM InvarianceOfCalls == Spec => []JInv
<1>1. Init => IInv /\ JInv
  BY InitInv, InitJ
<1>2. (IInv /\ JInv) /\ [Next]_vars => (IInv /\ JInv)'
  BY NextInv, NextKeeps
<1> QED
  BY <1>1, <1>2, PTL DEF Spec

-----------------------------------------------------------------------------
(* A create in which nothing goes wrong returns Ok, and Ok means a whole,  *)
(* live, connected device under a name that was free, one hotplug event on *)
(* GNOME and none on Plasma.                                               *)
THEOREM CreateIsComplete == Spec => []CreateComplete
<1>1. IInv /\ JInv => CreateComplete
  BY DEF JInv, Created, CallFits, CreateComplete, Over, IInv, CallSound, Locals
<1> QED
  BY <1>1, Invariance, InvarianceOfCalls, PTL

(* A create that fails at one point, wherever that is, and in nothing of   *)
(* its clean-up leaves every instance as it was, those that others use and *)
(* those that are left over.                                               *)
THEOREM CreateRolls == Spec => []CreateRollsBack
<1>1. ASSUME IInv, JInv, Over("create"), act.out = "err", act.hurt <= 1, ~act.blind
      PROVE  tree = before
  <2>1. act.slot \in Slot /\ tree \in [Slot -> Sound] /\ before \in [Slot -> Sound]
    BY <1>1 DEF IInv, StoreSound, CallSound, Over
  <2>2. tree[act.slot] = Gone
    BY <1>1 DEF JInv, Created
  <2>3. before[act.slot] = Gone
    BY <1>1, <2>1 DEF IInv, LowestName, JInv, AllFormed, WellFormed, Over
  <2>4. \A s \in Slot : tree[s] = before[s]
    BY <1>1, <2>1, <2>2, <2>3 DEF JInv, CallFits, OthersKept, Over
  <2> QED
    BY <2>1, <2>4
<1>2. IInv /\ JInv => CreateRollsBack
  BY <1>1 DEF CreateRollsBack
<1> QED
  BY <1>2, Invariance, InvarianceOfCalls, PTL

(* A destroy clears whatever it finds, however far a create or a destroy   *)
(* before it has got, and fails only if one of its own calls does.         *)
THEOREM DestroyClears == Spec => []RemoveClears
<1>1. IInv /\ JInv => RemoveClears
  BY DEF JInv, Destroyed, CallFits, RemoveClears, Over
<1> QED
  BY <1>1, Invariance, InvarianceOfCalls, PTL
=============================================================================
