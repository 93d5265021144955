-------------------------- MODULE LifecycleProofs --------------------------
(***************************************************************************)
(* Proofs about Lifecycle, for any number of invocations, devices and      *)
(* outputs, any faults and either desktop.                                 *)
(*                                                                         *)
(* The first part is about any number of commands at once.  TypeOK is not  *)
(* inductive: that a record names a device needs the slot to have been     *)
(* picked, that a head is never a real output needs the kernel's name for  *)
(* an enabled device, and that a plan turns on only what the user had on   *)
(* needs the same of every snapshot, every record and every copy of the    *)
(* records.  The second and the third part are about commands that run one *)
(* after the other.                                                        *)
(***************************************************************************)
EXTENDS Lifecycle, SequenceTheorems, FiniteSetTheorems, WellFoundedInduction, TLAPS

(* Whatever a record says was turned off, the user had on.                 *)
SoundRecord == {r \in RecordType : r.dis \cap Real \subseteq base.on}

Picked == {"mkdir", "commit", "push", "claim"}

(* The local variables: the types, the slot of an `up` that has picked one,*)
(* and only the user's outputs in what plans are made from.                *)
SoundLocals ==
    {l \in LocalsType :
        /\ l.pc \in Picked => l.slot \in Slot
        /\ (l.pre.on \cup l.real \cup l.dis) \cap Real \subseteq base.on
        /\ l.st \in Seq(SoundRecord)}

DevSound ==
    /\ dev \in [Slot -> DeviceType]
    /\ \A s \in Slot : dev[s].on => dev[s].conn \in Conn
LogSound == log \in Seq(SoundRecord)
CompSound == comp \in CompositorType /\ comp.on \cap Real \subseteq base.on
PrSound == pr \in [Proc -> SoundLocals]
RestTyped ==
    /\ readable \in BOOLEAN
    /\ base \in [on : SUBSET Real]
    /\ met \subseteq Faults \cup {"unrestored", "blind", "ghost", "taken"}

IInv == DevSound /\ LogSound /\ CompSound /\ PrSound /\ RestTyped

LEMMA InvImplies == IInv => TypeOK /\ OnlyUserOutputs
<1>1. SoundRecord \subseteq RecordType /\ SoundLocals \subseteq LocalsType
  BY DEF SoundRecord, SoundLocals
<1>2. Seq(SoundRecord) \subseteq Seq(RecordType)
  BY <1>1
<1> QED
  BY <1>1, <1>2 DEF IInv, DevSound, LogSound, CompSound, PrSound, RestTyped,
                    TypeOK, OnlyUserOutputs

-----------------------------------------------------------------------------
(* Helpers.                                                                *)

LEMMA SmallestExists ==
    ASSUME NEW S, S \subseteq Nat, S # {}
    PROVE  \E s \in S : \A t \in S : s <= t
<1>1. PICK s \in S : \A t \in S : ~(<<t, s>> \in OpToRel(<, Nat))
  BY NatLessThanWellFounded, WFMin
<1>2. \A t \in S : ~(t < s)
  BY <1>1 DEF OpToRel
<1> QED
  BY <1>2

LEMMA NextFreeInSlot == FreeSlots # {} => NextFree \in FreeSlots
  BY SmallestExists, SlotsAreNat DEF FreeSlots, NextFree

(* Records stay sound when one is rewritten.                               *)
LEMMA ReplacedSound ==
    ASSUME NEW S, NEW l \in Seq(S), NEW id, NEW r,
           Matches(l, id) # {} /\ Newest(l, id) \in 1..Len(l) => r \in S
    PROVE  Replaced(l, id, r) \in Seq(S)
<1>1. CASE Matches(l, id) = {}
  BY <1>1 DEF Replaced
<1>2. CASE Matches(l, id) # {} /\ Newest(l, id) \in 1..Len(l)
  BY <1>2, ExceptSeq DEF Replaced
<1>3. CASE Matches(l, id) # {} /\ Newest(l, id) \notin 1..Len(l)
  <2>1. l = [i \in 1..Len(l) |-> l[i]]
    OBVIOUS
  <2>2. [l EXCEPT ![Newest(l, id)] = r] = l
    BY <1>3, <2>1
  <2> QED
    BY <1>3, <2>2 DEF Replaced
<1> QED
  BY <1>1, <1>2, <1>3

(* Locals as they are before a command has begun, or when it is over.      *)
LEMMA FreshTyped == Fresh \in LocalsType /\ EmptyState \in Seq(SoundRecord)
<1>1. NoSnapshot \in SnapshotType
  BY DEF NoSnapshot, SnapshotType
<1>2. EmptyState \in Seq(RecordType) /\ EmptyState \in Seq(SoundRecord)
  BY DEF EmptyState
<1>3. << >> \in Seq(Slot)
  OBVIOUS
<1> QED
  BY <1>1, <1>2, <1>3 DEF Fresh, LocalsType, Over

LEMMA FreshSound ==
    ASSUME NEW l \in LocalsType, l.pc \notin Picked, l.st = EmptyState,
           l.pre = NoSnapshot, l.real = {}, l.dis = {}
    PROVE  l \in SoundLocals
  BY FreshTyped DEF SoundLocals, NoSnapshot

(* A step of p leaves the other invocations alone.                         *)
LEMMA GoesSound ==
    ASSUME IInv, NEW p \in Proc, NEW pc, NEW l, Goes(p, pc, l),
           [l EXCEPT !.pc = pc] \in SoundLocals, UNCHANGED base
    PROVE  PrSound'
  BY DEF IInv, PrSound, Goes, SoundLocals, SoundRecord

LEMMA ExitsSound ==
    ASSUME IInv, NEW p \in Proc, NEW o \in {"ok", "err"}, Exits(p, o), UNCHANGED base
    PROVE  PrSound'
<1> DEFINE l == [[Fresh EXCEPT !.out = o, !.pushed = pr[p].pushed] EXCEPT !.pc = "exit"]
<1>1. pr[p].pushed \in BOOLEAN
  BY DEF IInv, PrSound, SoundLocals, LocalsType
<1>2. l \in LocalsType
  BY <1>1, FreshTyped DEF LocalsType, Over
<1>3. /\ l.pc = "exit" /\ l.st = EmptyState /\ l.pre = NoSnapshot
      /\ l.real = {} /\ l.dis = {}
  BY DEF Fresh
<1>4. l \in SoundLocals
  BY <1>2, <1>3, FreshSound DEF Picked
<1> QED
  BY <1>4, GoesSound DEF Exits

LEMMA MeetsTyped ==
    ASSUME IInv, NEW f, Meets(f) \/ UNCHANGED met, UNCHANGED <<readable, base>>
    PROVE  RestTyped'
  BY DEF IInv, RestTyped, Meets

(* What an apply leaves on is what was on and what the plan turns on.      *)
LEMMA EffectiveSound ==
    ASSUME IInv, NEW plan, plan.en \cap Real \subseteq base.on, Effective(plan),
           UNCHANGED base
    PROVE  CompSound'
<1>1. OnAfter(plan) \subseteq Name /\ OnAfter(plan) \cap Real \subseteq base.on
  BY DEF IInv, CompSound, CompositorType, OnAfter
<1>2. PrimariesAfter(plan) \subseteq Name
  BY <1>1 DEF PrimariesAfter
<1>3. KeptAfter(plan) \subseteq Real
  BY DEF KeptAfter
<1>4. PICK m \in PrimariesAfter(plan) :
        comp' = [comp EXCEPT !.on = OnAfter(plan), !.prim = m, !.kept = KeptAfter(plan)]
  BY DEF Effective
<1> QED
  BY <1>1, <1>2, <1>3, <1>4 DEF IInv, CompSound, CompositorType

LEMMA ApplySound ==
    ASSUME IInv, NEW plan, plan.en \cap Real \subseteq base.on,
           Accepted(plan) \/ Refused(plan) \/ Late(plan), UNCHANGED <<readable, base>>
    PROVE  CompSound' /\ RestTyped'
<1>1. CASE Accepted(plan)
  BY <1>1, EffectiveSound, MeetsTyped DEF Accepted
<1>2. CASE Late(plan)
  BY <1>2, EffectiveSound, MeetsTyped DEF Late
<1>3. CASE Refused(plan)
  <2>1. CompSound'
    BY <1>3 DEF Refused, IInv, CompSound
  <2>2. RestTyped'
    BY <1>3, MeetsTyped DEF Refused
  <2> QED
    BY <2>1, <2>2
<1> QED
  BY <1>1, <1>2, <1>3

(* The kernel's and the store's part of a step that leaves them alone.     *)
LEMMA Untouched ==
    ASSUME IInv, UNCHANGED base
    PROVE  /\ UNCHANGED dev => DevSound'
           /\ UNCHANGED log => LogSound'
           /\ UNCHANGED comp => CompSound'
           /\ UNCHANGED <<readable, met>> => RestTyped'
  BY DEF IInv, DevSound, LogSound, CompSound, RestTyped, SoundRecord

LEMMA LocalsSound ==
    ASSUME IInv, NEW p \in Proc, NEW pc \in Over \cup Steps, NEW l \in LocalsType,
           Goes(p, pc, l), pc \in Picked => l.slot \in Slot,
           (l.pre.on \cup l.real \cup l.dis) \cap Real \subseteq base.on,
           l.st \in Seq(SoundRecord), UNCHANGED base
    PROVE  PrSound'
<1> DEFINE m == [l EXCEPT !.pc = pc]
<1>1. m \in LocalsType
  BY DEF LocalsType
<1>2. /\ m.pc = pc /\ m.slot = l.slot /\ m.pre = l.pre
      /\ m.real = l.real /\ m.dis = l.dis /\ m.st = l.st
  BY DEF LocalsType
<1>3. m \in SoundLocals
  BY <1>1, <1>2 DEF SoundLocals
<1> QED
  BY <1>3, GoesSound

(* The locals a step leaves alone but for the place it goes on at.         *)
LEMMA MovesSound ==
    ASSUME IInv, NEW p \in Proc, NEW pc \in Over \cup Steps, Goes(p, pc, pr[p]),
           pc \in Picked => pr[p].slot \in Slot, UNCHANGED base
    PROVE  PrSound'
<1>1. pr[p] \in SoundLocals
  BY DEF IInv, PrSound
<1> QED
  BY <1>1, LocalsSound DEF SoundLocals

LEMMA ReenabledSound ==
    ASSUME NEW st \in Seq(SoundRecord)
    PROVE  Reenabled(st) \cap Real \subseteq base.on
  BY DEF Reenabled, SoundRecord

LEMMA SnapshotTyped ==
    CompSound => Snapshot \in SnapshotType /\ Snapshot.on \cap Real \subseteq base.on
  BY DEF CompSound, CompositorType, Snapshot, SnapshotType

(* Whatever remove leaves behind: the other devices as they were, and of   *)
(* the one no device, or one that is no more than it was, marked with who  *)
(* has failed to remove it.                                                *)
LEMMA RemoveLeaves ==
    ASSUME IInv, NEW q \in Proc, NEW s, Removes(q, s)
    PROVE  /\ dev' \in [Slot -> DeviceType]
           /\ \A t \in Slot : t # s => dev'[t] = dev[t]
           /\ s \in Slot =>
                 \/ dev'[s] = NoDevice
                 \/ /\ dev[s].dir /\ dev'[s].dir /\ dev'[s].left = q
                    /\ dev'[s].by = dev[s].by
                    /\ dev'[s].on =>
                          /\ dev[s].on /\ dev'[s].conn = dev[s].conn
                          /\ dev'[s].plug => dev[s].plug
           /\ UNCHANGED met \/ Meets("kernel")
           /\ met' = met
<1>1. dev \in [Slot -> DeviceType]
  BY DEF IInv, DevSound
<1>2. NoDevice \in DeviceType
  BY DEF NoDevice, DeviceType
<1>3. CASE dev' = Removed(s) /\ UNCHANGED met
  BY <1>1, <1>2, <1>3 DEF Removed
<1>4. CASE /\ dev[s].dir
           /\ Meets("kernel")
           /\ \E husk \in Husks(s) :
                 dev' = [dev EXCEPT ![s] = [husk EXCEPT !.left = q]]
  <2>1. PICK husk \in Husks(s) : dev' = [dev EXCEPT ![s] = [husk EXCEPT !.left = q]]
    BY <1>4
  <2>2. met' = met
    BY <1>4 DEF Meets, Noted
  <2>3. CASE s \notin Slot
    BY <1>1, <1>4, <2>1, <2>2, <2>3
  <2>4. CASE s \in Slot
    <3> DEFINE d == dev[s]
               e == [husk EXCEPT !.left = q]
    <3>1. d \in DeviceType
      BY <1>1, <2>4
    <3>2. CASE husk = Skeleton(d.by)
      <4>1. /\ e \in DeviceType /\ e.dir = TRUE /\ e.left = q /\ e.by = d.by
            /\ e.on = FALSE
        BY <3>1, <3>2 DEF Skeleton, NoDevice, DeviceType
      <4> QED
        BY <1>1, <1>4, <2>1, <2>2, <2>4, <4>1
    <3>3. CASE husk = [d EXCEPT !.plug = FALSE] \/ husk = d
      <4>1. /\ e \in DeviceType /\ e.dir = d.dir /\ e.left = q /\ e.by = d.by
            /\ e.on = d.on /\ e.conn = d.conn /\ e.plug \in {d.plug, FALSE}
        BY <3>1, <3>3 DEF DeviceType
      <4> QED
        BY <1>1, <1>4, <2>1, <2>2, <2>4, <4>1
    <3> QED
      BY <2>1, <3>2, <3>3 DEF Husks
  <2> QED
    BY <2>3, <2>4
<1> QED
  BY <1>3, <1>4 DEF Removes

LEMMA RemoveSound ==
    ASSUME IInv, NEW q \in Proc, NEW s, Removes(q, s)
    PROVE  DevSound'
<1>1. NoDevice.on = FALSE
  BY DEF NoDevice
<1>2. \A t \in Slot : dev'[t].on => dev'[t].conn \in Conn
  <2>1. SUFFICES ASSUME NEW t \in Slot, dev'[t].on PROVE dev'[t].conn \in Conn
    OBVIOUS
  <2>2. dev[t].on /\ dev'[t].conn = dev[t].conn
    BY <1>1, <2>1, RemoveLeaves
  <2> QED
    BY <2>2 DEF IInv, DevSound
<1> QED
  BY <1>2, RemoveLeaves DEF DevSound

(* Devices that differ only in who has failed to remove them, or in what   *)
(* is plugged in.                                                          *)
LEMMA MarkSound ==
    ASSUME IInv, dev' \in [Slot -> DeviceType],
           \A s \in Slot : dev'[s].on = dev[s].on /\ dev'[s].conn = dev[s].conn
    PROVE  DevSound'
  BY DEF IInv, DevSound

LEMMA DisconnectedTyped ==
    ASSUME IInv, NEW S
    PROVE  /\ Disconnected(S) \in [Slot -> DeviceType]
           /\ \A s \in Slot :
                 LET d == Disconnected(S)[s] IN
                 /\ d.on = dev[s].on /\ d.conn = dev[s].conn /\ d.dir = dev[s].dir
                 /\ d.by = dev[s].by /\ d.left = dev[s].left
                 /\ d.plug => dev[s].plug
  BY DEF Disconnected, IInv, DevSound, DeviceType

(* What the second listing of reset leaves out is marked, no more.         *)
LEMMA SweptMarks ==
    ASSUME IInv, NEW p \in Proc, Swept(p)
    PROVE  /\ dev' \in [Slot -> DeviceType]
           /\ \A s \in Slot :
                 /\ dev'[s].on = dev[s].on /\ dev'[s].conn = dev[s].conn
                 /\ dev'[s].dir = dev[s].dir /\ dev'[s].by = dev[s].by
                 /\ dev'[s].plug = dev[s].plug
                 /\ dev'[s].left = dev[s].left \/ dev'[s].left = p
           /\ UNCHANGED met \/ Meets("kernel")
           /\ met' = met
<1>1. dev \in [Slot -> DeviceType]
  BY DEF IInv, DevSound
<1>2. CASE UNCHANGED <<dev, met>>
  BY <1>1, <1>2
<1>3. CASE \E S \in SUBSET Listed :
              /\ ListedAs(S)
              /\ dev' = [s \in Slot |-> IF s \in Listed \ S
                                       THEN [dev[s] EXCEPT !.left = p] ELSE dev[s]]
  <2>1. PICK S \in SUBSET Listed :
              /\ ListedAs(S)
              /\ dev' = [s \in Slot |-> IF s \in Listed \ S
                                       THEN [dev[s] EXCEPT !.left = p] ELSE dev[s]]
    BY <1>3
  <2>2. UNCHANGED met \/ Meets("kernel")
    BY <2>1 DEF ListedAs
  <2>3. met' = met
    BY <2>2 DEF Meets, Noted
  <2>4. SUFFICES ASSUME NEW s \in Slot
                 PROVE  /\ dev'[s] \in DeviceType
                        /\ dev'[s].on = dev[s].on /\ dev'[s].conn = dev[s].conn
                        /\ dev'[s].dir = dev[s].dir /\ dev'[s].by = dev[s].by
                        /\ dev'[s].plug = dev[s].plug
                        /\ dev'[s].left = dev[s].left \/ dev'[s].left = p
    BY <2>1, <2>2, <2>3
  <2>5. dev'[s] = dev[s] \/ dev'[s] = [dev[s] EXCEPT !.left = p]
    BY <2>1, <2>4
  <2> QED
    BY <1>1, <2>5 DEF DeviceType
<1> QED
  BY <1>2, <1>3 DEF Swept

(* What Handles can be, for a command as it has loaded the records.        *)
LEMMA HandlesAre ==
    ASSUME NEW p \in Proc, NEW S, Handles(p, S)
    PROVE  /\ pr[p].cmd.op = "reset" => S \subseteq Listed
           /\ pr[p].cmd.op # "reset" => S = RecordedSlots(pr[p].st)
           /\ UNCHANGED met \/ Meets("kernel")
           /\ met' = met
  BY DEF Handles, ListedAs, Meets, Noted

-----------------------------------------------------------------------------
(* The invariant holds at first, and survives each step.                   *)
LEMMA InitInv == Init => IInv
<1> SUFFICES ASSUME Init PROVE IInv
  OBVIOUS
<1>1. DevSound
  BY DEF Init, DevSound, NoDevice, DeviceType
<1>2. LogSound
  BY FreshTyped DEF Init, LogSound
<1>3. PICK lit \in SUBSET Real : \E m \in lit :
          /\ comp = [heads |-> Real, on |-> lit, prim |-> m, kept |-> Real,
                     hung |-> FALSE]
          /\ base = [on |-> lit]
  BY DEF Init
<1>4. CompSound
  BY <1>3 DEF CompSound, CompositorType, Name
<1>5. Fresh \in SoundLocals
  <2>1. /\ Fresh.pc \notin Picked /\ Fresh.st = EmptyState /\ Fresh.pre = NoSnapshot
        /\ Fresh.real = {} /\ Fresh.dis = {}
    BY DEF Fresh, Picked
  <2> QED
    BY <2>1, FreshTyped, FreshSound
<1>6. PrSound
  BY <1>5 DEF Init, PrSound
<1>7. RestTyped
  <2>1. readable \in BOOLEAN
    BY DEF Init
  <2>2. base \in [on : SUBSET Real] /\ met = {}
    BY <1>3 DEF Init
  <2> QED
    BY <2>1, <2>2 DEF RestTyped
<1> QED
  BY <1>1, <1>2, <1>4, <1>6, <1>7 DEF IInv

LEMMA StartInv == ASSUME IInv, NEW p \in Proc, Start(p) PROVE IInv'
<1>1. PICK cmd \in Commands : InitialCommand(p, cmd)
  BY DEF Start
<1> DEFINE l == [Fresh EXCEPT !.cmd = cmd]
           pc == IF cmd.op # "up" THEN "load" ELSE IF cmd.sess THEN "snapshot" ELSE "pick"
<1>2. Goes(p, pc, l)
  BY <1>1 DEF InitialCommand
<1>3. l \in LocalsType
  BY FreshTyped DEF LocalsType
<1>4. l.st = EmptyState /\ l.pre.on = {} /\ l.real = {} /\ l.dis = {}
  BY DEF Fresh, NoSnapshot
<1>5. pc \in Over \cup Steps /\ pc \notin Picked
  BY DEF Steps, Picked
<1>6. PrSound'
  BY <1>2, <1>3, <1>4, <1>5, FreshTyped, LocalsSound DEF Start
<1> QED
  BY <1>6, Untouched DEF Start, IInv

LEMMA CrashInv == ASSUME IInv, NEW p \in Proc, Crash(p) PROVE IInv'
<1> DEFINE l == [Fresh EXCEPT !.pushed = pr[p].pushed]
<1>1. l \in LocalsType
  BY FreshTyped DEF LocalsType, IInv, PrSound, SoundLocals
<1>2. l.st = EmptyState /\ l.pre.on = {} /\ l.real = {} /\ l.dis = {}
  BY DEF Fresh, NoSnapshot
<1>3. PrSound'
  BY <1>1, <1>2, FreshTyped, LocalsSound DEF Crash, Over, Picked
<1> QED
  BY <1>3, Untouched, MeetsTyped DEF Crash, IInv

LEMMA HangInv == ASSUME IInv, Hang PROVE IInv'
<1>1. UNCHANGED <<dev, log, readable, pr, base, met>>
  BY DEF Hang
<1>2. CompSound'
  BY <1>1 DEF Hang, IInv, CompSound, CompositorType
<1>3. PrSound'
  BY <1>1 DEF IInv, PrSound, SoundLocals, SoundRecord
<1> QED
  BY <1>1, <1>2, <1>3, Untouched DEF IInv

LEMMA CompositorInv == ASSUME IInv, Compositor PROVE IInv'
<1>0. SUFFICES ASSUME \E c \in Conn : Appear(c) \/ Vanish(c) PROVE IInv'
  BY HangInv DEF Compositor
<1>1. PICK c \in Conn : Appear(c) \/ Vanish(c)
  BY <1>0
<1>2. UNCHANGED <<dev, log, readable, pr, base, met>>
  BY <1>1 DEF Appear, Vanish
<1>3. CompSound'
  <2>1. CASE Appear(c)
    <3>1. PICK lit \in BOOLEAN :
            comp' = [comp EXCEPT !.heads = @ \cup {c},
                                 !.on = IF lit THEN @ \cup {c} ELSE @,
                                 !.prim = IF lit /\ @ = None THEN c ELSE @]
      BY <2>1 DEF Appear
    <3>2. c \in Name /\ c \notin Real
      BY NamesDiffer DEF Name
    <3>3. CASE lit
      BY <1>2, <3>1, <3>2, <3>3 DEF IInv, CompSound, CompositorType
    <3>4. CASE ~lit
      BY <1>2, <3>1, <3>2, <3>4 DEF IInv, CompSound, CompositorType
    <3> QED
      BY <3>3, <3>4
  <2>2. CASE Vanish(c)
    <3>1. PICK m \in Name \cup {None} :
            comp' = [comp EXCEPT !.heads = @ \ {c}, !.on = @ \ {c}, !.prim = m]
      BY <2>2 DEF Vanish, IInv, CompSound, CompositorType
    <3> QED
      BY <1>2, <3>1 DEF IInv, CompSound, CompositorType
  <2> QED
    BY <1>1, <2>1, <2>2
<1>4. PrSound'
  BY <1>2 DEF IInv, PrSound, SoundLocals, SoundRecord
<1> QED
  BY <1>2, <1>3, <1>4, Untouched DEF IInv

-----------------------------------------------------------------------------
(* The steps of an `up`.                                                   *)
LEMMA CreateInv ==
    ASSUME IInv, NEW p \in Proc,
           \/ UpSnapshot(p) \/ SnapshotFails(p) \/ Pick(p) \/ Mkdir(p)
           \/ Commit(p) \/ CommitFails(p) \/ Rollback(p)
    PROVE  IInv'
<1>0. pr[p] \in SoundLocals
  BY DEF IInv, PrSound
<1>1. CASE UpSnapshot(p)
  <2> DEFINE l == [pr[p] EXCEPT !.pre = Snapshot]
  <2>1. Snapshot \in SnapshotType /\ Snapshot.on \cap Real \subseteq base.on
    BY SnapshotTyped DEF IInv
  <2>2. l \in LocalsType
    BY <1>0, <2>1 DEF SoundLocals, LocalsType
  <2>3. l.pre = Snapshot /\ l.real = pr[p].real /\ l.dis = pr[p].dis /\ l.st = pr[p].st
    BY <1>0 DEF SoundLocals, LocalsType
  <2>4. PrSound'
    BY <1>0, <1>1, <2>1, <2>2, <2>3, LocalsSound DEF UpSnapshot, SoundLocals, Steps, Picked
  <2>5. RestTyped'
    BY <1>1 DEF UpSnapshot, IInv, RestTyped
  <2> QED
    BY <1>1, <2>4, <2>5, Untouched DEF UpSnapshot, IInv
<1>2. CASE SnapshotFails(p)
  <2>1. Exits(p, "ok") \/ Exits(p, "err")
    BY <1>2 DEF SnapshotFails
  <2> QED
    BY <1>2, <2>1, ExitsSound, Untouched, MeetsTyped DEF SnapshotFails, IInv
<1>3. CASE Pick(p)
  <2>0. PICK free \in Slot : Goes(p, "mkdir", [pr[p] EXCEPT !.slot = free])
    BY <1>3, NextFreeInSlot DEF Pick, FreeSlots, Listed
  <2> DEFINE l == [pr[p] EXCEPT !.slot = free]
  <2>1. free \in Slot
    BY <2>0
  <2>2. l \in LocalsType
    BY <1>0, <2>1 DEF SoundLocals, LocalsType
  <2>3. /\ l.slot = free /\ l.pre = pr[p].pre /\ l.real = pr[p].real
        /\ l.dis = pr[p].dis /\ l.st = pr[p].st
    BY <1>0 DEF SoundLocals, LocalsType
  <2>4. PrSound'
    BY <1>0, <1>3, <2>0, <2>1, <2>2, <2>3, LocalsSound DEF Pick, SoundLocals, Steps
  <2>5. RestTyped'
    BY <1>3 DEF Pick, IInv, RestTyped
  <2> QED
    BY <1>3, <2>4, <2>5, Untouched DEF Pick, IInv
<1>4. CASE Mkdir(p)
  <2>1. pr[p].slot \in Slot
    BY <1>0, <1>4 DEF SoundLocals, Picked, Mkdir, At
  <2>2. PrSound'
    BY <1>4, <2>1, MovesSound DEF Mkdir, Steps
  <2>3. DevSound'
    <3>1. Skeleton(p) \in DeviceType /\ ~Skeleton(p).on
      BY DEF Skeleton, NoDevice, DeviceType
    <3>2. CASE dev' = [dev EXCEPT ![pr[p].slot] = Skeleton(p)]
      BY <3>1, <3>2 DEF IInv, DevSound
    <3>3. CASE UNCHANGED dev
      BY <3>3 DEF IInv, DevSound
    <3> QED
      BY <1>4, <3>2, <3>3 DEF Mkdir
  <2> QED
    BY <1>4, <2>2, <2>3, Untouched DEF Mkdir, IInv
<1>5. CASE Commit(p)
  <2>1. pr[p].slot \in Slot
    BY <1>0, <1>5 DEF SoundLocals, Picked, Commit, At
  <2>2. PrSound'
    BY <1>5, <2>1, MovesSound DEF Commit, Steps
  <2>3. PICK c \in Conn :
          dev' = [dev EXCEPT ![pr[p].slot] =
                    [dir |-> TRUE, on |-> TRUE, plug |-> TRUE, conn |-> c,
                     by |-> p, left |-> None]]
    BY <1>5 DEF Commit
  <2>4. DevSound'
    BY <2>3 DEF IInv, DevSound, DeviceType
  <2> QED
    BY <1>5, <2>2, <2>4, Untouched DEF Commit, IInv
<1>6. CASE CommitFails(p)
  <2>1. PrSound'
    BY <1>6, MovesSound DEF CommitFails, Steps, Picked
  <2>2. RestTyped'
    BY <1>6, MeetsTyped DEF CommitFails
  <2> QED
    BY <1>6, <2>1, <2>2, Untouched DEF CommitFails, IInv
<1>7. CASE Rollback(p)
  <2>1. DevSound'
    BY <1>7, RemoveSound DEF Rollback
  <2>2. RestTyped'
    BY <1>7, RemoveLeaves, MeetsTyped DEF Rollback
  <2> QED
    BY <1>7, <2>1, <2>2, ExitsSound, Untouched DEF Rollback, IInv
<1> QED
  BY <1>1, <1>2, <1>3, <1>4, <1>5, <1>6, <1>7

LEMMA PushInv == ASSUME IInv, NEW p \in Proc, Push(p) \/ PushFails(p) PROVE IInv'
<1>0. pr[p] \in SoundLocals
  BY DEF IInv, PrSound
<1>1. CASE Push(p)
  <2>1. InstanceRecord(p) \in SoundRecord
    <3>1. pr[p].slot \in Slot /\ pr[p].pre \in SnapshotType
      BY <1>0, <1>1 DEF SoundLocals, LocalsType, Picked, Push, At
    <3> QED
      BY <3>1 DEF InstanceRecord, SoundRecord, RecordType
  <2>2. LogSound'
    <3>1. log' \in Seq(SoundRecord)
      BY <1>1, <2>1 DEF Push, Pushed, IInv, LogSound
    <3> QED
      BY <1>1, <3>1 DEF Push, LogSound, SoundRecord
  <2>3. PrSound'
    <3>1. CASE pr[p].cmd.sess
      <4> DEFINE l == [pr[p] EXCEPT !.pushed = TRUE]
      <4>1. l \in LocalsType
        BY <1>0 DEF SoundLocals, LocalsType
      <4>2. /\ l.slot = pr[p].slot /\ l.pre = pr[p].pre /\ l.real = pr[p].real
            /\ l.dis = pr[p].dis /\ l.st = pr[p].st
        BY <1>0 DEF SoundLocals, LocalsType
      <4>3. pr[p].slot \in Slot
        BY <1>0, <1>1 DEF SoundLocals, Picked, Push, At
      <4> QED
        BY <1>0, <1>1, <3>1, <4>1, <4>2, <4>3, LocalsSound DEF Push, SoundLocals, Steps
    <3>2. CASE ~pr[p].cmd.sess
      <4> DEFINE l == [Fresh EXCEPT !.out = "ok", !.pushed = TRUE]
      <4>1. l \in LocalsType
        BY FreshTyped DEF LocalsType
      <4>2. l.st = EmptyState /\ l.pre.on = {} /\ l.real = {} /\ l.dis = {}
        BY DEF Fresh, NoSnapshot
      <4> QED
        BY <1>1, <3>2, <4>1, <4>2, FreshTyped, LocalsSound DEF Push, Over, Picked
    <3> QED
      BY <3>1, <3>2
  <2>4. RestTyped'
    BY <1>1 DEF Push, IInv, RestTyped
  <2> QED
    BY <1>1, <2>2, <2>3, <2>4, Untouched DEF Push, IInv
<1>2. CASE PushFails(p)
  <2>1. RestTyped'
    BY <1>2, MeetsTyped DEF PushFails
  <2> QED
    BY <1>2, <2>1, ExitsSound, Untouched DEF PushFails, IInv
<1> QED
  BY <1>1, <1>2

LEMMA AwaitInv ==
    ASSUME IInv, NEW p \in Proc,
           \/ Claim(p) \/ AwaitHead(p) \/ AwaitTimeout(p) \/ AttachFails(p)
    PROVE  IInv'
<1>0. pr[p] \in SoundLocals
  BY DEF IInv, PrSound
<1>1. CASE Claim(p)
  <2> DEFINE names == Connectors(pr[p].slot)
             l == [pr[p] EXCEPT !.names = names]
  <2>1. names \subseteq Conn
    BY <1>0, <1>1 DEF Claim, At, SoundLocals, Picked, Connectors, IInv, DevSound
  <2>2. CASE Exits(p, "ok")
    BY <1>1, <2>2, ExitsSound, Untouched DEF Claim, IInv
  <2>3. CASE Goes(p, "await", l)
    <3>1. l \in LocalsType
      BY <1>0, <2>1 DEF SoundLocals, LocalsType
    <3>2. l.pre = pr[p].pre /\ l.real = pr[p].real /\ l.dis = pr[p].dis /\ l.st = pr[p].st
      BY <1>0 DEF SoundLocals, LocalsType
    <3>3. PrSound'
      BY <1>0, <1>1, <2>3, <3>1, <3>2, LocalsSound DEF Claim, SoundLocals, Steps, Picked
    <3> QED
      BY <1>1, <3>3, Untouched DEF Claim, IInv
  <2> QED
    BY <1>1, <2>2, <2>3 DEF Claim
<1>2. CASE AwaitHead(p)
  <2>1. PICK h \in comp.heads :
          /\ pr[p].names \cap comp.heads = {h}
          /\ Goes(p, "name", [pr[p] EXCEPT !.head = h, !.names = {}])
    BY <1>2 DEF AwaitHead
  <2> DEFINE l == [pr[p] EXCEPT !.head = h, !.names = {}]
  <2>2. h \in Conn
    BY <1>0, <2>1 DEF SoundLocals, LocalsType
  <2>3. l \in LocalsType
    BY <1>0, <2>2 DEF SoundLocals, LocalsType
  <2>4. l.pre = pr[p].pre /\ l.real = pr[p].real /\ l.dis = pr[p].dis /\ l.st = pr[p].st
    BY <1>0 DEF SoundLocals, LocalsType
  <2>5. PrSound'
    BY <1>0, <1>2, <2>1, <2>3, <2>4, LocalsSound DEF AwaitHead, SoundLocals, Steps, Picked
  <2> QED
    BY <1>2, <2>5, Untouched DEF AwaitHead, IInv
<1>3. CASE AwaitTimeout(p)
  <2>1. RestTyped'
    BY <1>3, MeetsTyped DEF AwaitTimeout
  <2> QED
    BY <1>3, <2>1, ExitsSound, Untouched DEF AwaitTimeout, IInv
<1>4. CASE AttachFails(p)
  <2>1. RestTyped'
    BY <1>4, MeetsTyped DEF AttachFails
  <2> QED
    BY <1>4, <2>1, ExitsSound, Untouched DEF AttachFails, IInv
<1> QED
  BY <1>1, <1>2, <1>3, <1>4

(* An update of a record keeps the records sound when the record does.     *)
LEMMA UpdateSound ==
    ASSUME IInv, NEW id, NEW r, Updates(id, r), UNCHANGED base,
           Found(id) \in SoundRecord => r \in SoundRecord
    PROVE  LogSound'
<1>1. Matches(log, id) # {} /\ Newest(log, id) \in 1..Len(log) => r \in SoundRecord
  BY DEF Found, IInv, LogSound
<1>2. log' \in Seq(SoundRecord)
  BY <1>1, ReplacedSound DEF Updates, IInv, LogSound
<1> QED
  BY <1>2 DEF LogSound, SoundRecord

LEMMA AttachInv ==
    ASSUME IInv, NEW p \in Proc,
           \/ NameHead(p) \/ EnableHead(p) \/ Owned(p) \/ Layout(p) \/ Record(p)
           \/ ApplyFails(p)
    PROVE  IInv'
<1>0. pr[p] \in SoundLocals
  BY DEF IInv, PrSound
<1>a. /\ pr[p].pre.on \cap Real \subseteq base.on /\ pr[p].pre.on \subseteq Name
      /\ pr[p].real \cap Real \subseteq base.on /\ pr[p].real \subseteq Name
      /\ pr[p].dis \cap Real \subseteq base.on /\ pr[p].dis \subseteq Name
      /\ pr[p].st \in Seq(SoundRecord) /\ pr[p].prev \in Name \cup {None}
      /\ pr[p].head \in Conn \cup {None}
  BY <1>0 DEF SoundLocals, LocalsType, SnapshotType
<1>b. EnablePlan(p).en \cap Real \subseteq base.on /\ LayoutPlan(p).en \cap Real \subseteq base.on
  BY <1>a, NamesDiffer DEF EnablePlan, LayoutPlan
<1>c. Disabled(p) \cap Real \subseteq base.on /\ Disabled(p) \subseteq Name
  BY <1>a DEF Disabled
<1>1. CASE NameHead(p)
  <2>1. LogSound'
    <3> DEFINE r == [Found(pr[p].slot) EXCEPT !.head = pr[p].head]
    <3>1. Found(pr[p].slot) \in SoundRecord => r \in SoundRecord
      BY <1>a DEF SoundRecord, RecordType
    <3> QED
      BY <1>1, <3>1, UpdateSound DEF NameHead
  <2>2. PrSound'
    BY <1>1, MovesSound DEF NameHead, Steps, Picked
  <2> QED
    BY <1>1, <2>1, <2>2, Untouched DEF NameHead, IInv
<1>2. CASE EnableHead(p)
  <2>1. CompSound' /\ RestTyped'
    BY <1>2, <1>b, ApplySound DEF EnableHead
  <2>2. PrSound'
    BY <1>2, MovesSound DEF EnableHead, Steps, Picked
  <2> QED
    BY <1>2, <2>1, <2>2, Untouched DEF EnableHead, IInv
<1>3. CASE Owned(p)
  <2> DEFINE l == [pr[p] EXCEPT !.real = pr[p].pre.on \ RecordedHeads(log)]
  <2>1. l \in LocalsType
    BY <1>0, <1>a DEF SoundLocals, LocalsType
  <2>2. /\ l.pre = pr[p].pre /\ l.real = pr[p].pre.on \ RecordedHeads(log)
        /\ l.dis = pr[p].dis /\ l.st = pr[p].st
    BY <1>0 DEF SoundLocals, LocalsType
  <2>3. PrSound'
    BY <1>3, <1>a, <2>1, <2>2, LocalsSound DEF Owned, Steps, Picked
  <2> QED
    BY <1>3, <2>3, Untouched DEF Owned, IInv
<1>4. CASE Layout(p)
  <2>1. CompSound' /\ RestTyped'
    BY <1>4, <1>b, ApplySound DEF Layout
  <2>2. PICK first \in Name \cup {None} :
          Goes(p, "record", [pr[p] EXCEPT !.dis = Disabled(p), !.prev = first])
    BY <1>4, <1>a DEF Layout
  <2> DEFINE l == [pr[p] EXCEPT !.dis = Disabled(p), !.prev = first]
  <2>3. l \in LocalsType
    BY <1>0, <1>c DEF SoundLocals, LocalsType
  <2>4. l.pre = pr[p].pre /\ l.real = pr[p].real /\ l.dis = Disabled(p) /\ l.st = pr[p].st
    BY <1>0 DEF SoundLocals, LocalsType
  <2>5. PrSound'
    BY <1>4, <1>a, <1>c, <2>2, <2>3, <2>4, LocalsSound DEF Layout, Steps, Picked
  <2> QED
    BY <1>4, <2>1, <2>5, Untouched DEF Layout, IInv
<1>5. CASE Record(p)
  <2>1. LogSound'
    <3> DEFINE r == [Found(pr[p].slot) EXCEPT !.dis = pr[p].dis, !.prev = pr[p].prev]
    <3>1. Found(pr[p].slot) \in SoundRecord => r \in SoundRecord
      BY <1>a DEF SoundRecord, RecordType
    <3> QED
      BY <1>5, <3>1, UpdateSound DEF Record
  <2> QED
    BY <1>5, <2>1, ExitsSound, Untouched DEF Record, IInv
<1>6. CASE ApplyFails(p)
  <2>1. CompSound' /\ RestTyped'
    BY <1>6, <1>b, ApplySound DEF ApplyFails
  <2> QED
    BY <1>6, <2>1, ExitsSound, Untouched DEF ApplyFails, IInv
<1> QED
  BY <1>1, <1>2, <1>3, <1>4, <1>5, <1>6

-----------------------------------------------------------------------------
(* The steps of a `down` or a `reset`.                                     *)
LEMMA RestoreInv ==
    ASSUME IInv, NEW p \in Proc,
           \/ Load(p) \/ LoadFails(p) \/ Restore(p) \/ RestoreFails(p)
           \/ RestoreNothing(p)
    PROVE  IInv'
<1>0. pr[p] \in SoundLocals
  BY DEF IInv, PrSound
<1>a. /\ (pr[p].pre.on \cup pr[p].real \cup pr[p].dis) \cap Real \subseteq base.on
      /\ pr[p].st \in Seq(SoundRecord)
  BY <1>0 DEF SoundLocals
<1>b. RestoreStep(p).en \cap Real \subseteq base.on
  <2>1. RestoreStep(p).en = Reenabled(pr[p].st)
    BY DEF RestoreStep, RestorePlan, EnablesOf
  <2> QED
    BY <1>a, <2>1, ReenabledSound
<1>c. ASSUME NEW b \in BOOLEAN
      PROVE  LET l == [pr[p] EXCEPT !.restored = b] IN
             /\ l \in LocalsType /\ l.pre = pr[p].pre /\ l.real = pr[p].real
             /\ l.dis = pr[p].dis /\ l.st = pr[p].st
  BY <1>0 DEF SoundLocals, LocalsType
<1>1. CASE Load(p)
  <2> DEFINE l == [pr[p] EXCEPT !.st = log, !.restored = log = EmptyState]
  <2>1. log \in Seq(RecordType) /\ log \in Seq(SoundRecord)
    BY InvImplies DEF TypeOK, IInv, LogSound
  <2>2. (log = EmptyState) \in BOOLEAN
    OBVIOUS
  <2>3. l \in LocalsType
    BY <1>0, <2>1, <2>2 DEF SoundLocals, LocalsType
  <2>4. l.pre = pr[p].pre /\ l.real = pr[p].real /\ l.dis = pr[p].dis /\ l.st = log
    BY <1>0 DEF SoundLocals, LocalsType
  <2>5. AfterLoad(p, log) \in {"restore", "plugs"}
    BY DEF AfterLoad
  <2>6. PrSound'
    BY <1>1, <1>a, <2>1, <2>3, <2>4, <2>5, LocalsSound DEF Load, Steps, Picked
  <2> QED
    BY <1>1, <2>6, Untouched DEF Load, IInv
<1>2. CASE LoadFails(p)
  <2>1. PrSound'
    BY <1>2, MovesSound, ExitsSound DEF LoadFails, Steps, Picked
  <2>2. RestTyped'
    BY <1>2, MeetsTyped DEF LoadFails
  <2> QED
    BY <1>2, <2>1, <2>2, Untouched DEF LoadFails, IInv
<1>3. CASE Restore(p)
  <2>1. CompSound' /\ RestTyped'
    BY <1>3, <1>b, ApplySound DEF Restore
  <2>2. AfterRestore(p) \in {"restore2", "plugs"} /\ (AfterRestore(p) = "plugs") \in BOOLEAN
    BY DEF AfterRestore
  <2>3. PrSound'
    BY <1>3, <1>a, <1>c, <2>2, LocalsSound DEF Restore, Steps, Picked
  <2> QED
    BY <1>3, <2>1, <2>3, Untouched DEF Restore, IInv
<1>4. CASE RestoreFails(p)
  <2>1. CompSound' /\ RestTyped'
    <3>1. CASE UNCHANGED <<comp, met>>
      BY <1>4, <3>1, Untouched DEF RestoreFails, IInv
    <3>2. CASE Refused(RestoreStep(p)) \/ Late(RestoreStep(p))
      BY <1>4, <1>b, <3>2, ApplySound DEF RestoreFails
    <3> QED
      BY <1>4, <3>1, <3>2 DEF RestoreFails
  <2>2. PrSound'
    BY <1>4, MovesSound DEF RestoreFails, Steps, Picked
  <2> QED
    BY <1>4, <2>1, <2>2, Untouched DEF RestoreFails, IInv
<1>5. CASE RestoreNothing(p)
  <2>1. PrSound'
    BY <1>5, <1>a, <1>c, LocalsSound DEF RestoreNothing, Steps, Picked
  <2> QED
    BY <1>5, <2>1, Untouched DEF RestoreNothing, IInv
<1> QED
  BY <1>1, <1>2, <1>3, <1>4, <1>5

LEMMA DisconnectInv ==
    ASSUME IInv, NEW p \in Proc,
           Plugs(p) \/ Unplug(p) \/ Gone(p) \/ GoneTimeout(p) \/ DisconnectFails(p)
    PROVE  IInv'
<1>0. pr[p] \in SoundLocals
  BY DEF IInv, PrSound
<1>a. /\ (pr[p].pre.on \cup pr[p].real \cup pr[p].dis) \cap Real \subseteq base.on
      /\ pr[p].st \in Seq(SoundRecord)
  BY <1>0 DEF SoundLocals
<1>1. CASE Plugs(p)
  <2>0. PICK S \in SUBSET Slot :
          /\ Handles(p, S)
          /\ Goes(p, "unplug",
                  [pr[p] EXCEPT !.handles = S,
                                !.names = UNION {Connectors(s) : s \in S},
                                !.todo = NewestFirst(pr[p].st),
                                !.missed = IF pr[p].cmd.op = "reset" THEN Listed \ S
                                           ELSE {}])
    BY <1>1 DEF Plugs
  <2> DEFINE names == UNION {Connectors(s) : s \in S}
             missed == IF pr[p].cmd.op = "reset" THEN Listed \ S ELSE {}
             l == [pr[p] EXCEPT !.handles = S, !.names = names,
                                !.todo = NewestFirst(pr[p].st), !.missed = missed]
  <2>1. \A i \in 1..Len(pr[p].st) : pr[p].st[i].id \in Slot
    BY <1>a DEF SoundRecord, RecordType
  <2>2. S \subseteq Slot /\ missed \subseteq Slot
    BY DEF Listed
  <2>3. names \subseteq Conn
    BY <2>2 DEF Connectors, IInv, DevSound
  <2>4. NewestFirst(pr[p].st) \in Seq(Slot)
    BY <1>a, <2>1 DEF NewestFirst
  <2>5. l \in LocalsType
    BY <1>0, <2>2, <2>3, <2>4 DEF SoundLocals, LocalsType
  <2>6. l.pre = pr[p].pre /\ l.real = pr[p].real /\ l.dis = pr[p].dis /\ l.st = pr[p].st
    BY <1>0 DEF SoundLocals, LocalsType
  <2>7. PrSound'
    BY <1>1, <1>a, <2>0, <2>5, <2>6, LocalsSound DEF Plugs, Steps, Picked
  <2>8. RestTyped'
    BY <1>1, <2>0, HandlesAre, MeetsTyped DEF Plugs
  <2> QED
    BY <1>1, <2>7, <2>8, Untouched DEF Plugs, IInv
<1>2. CASE Unplug(p)
  <2> DEFINE l == [pr[p] EXCEPT !.handles = {}]
             m == [l EXCEPT !.names = {}]
  <2>1. l \in LocalsType /\ m \in LocalsType
    BY <1>0 DEF SoundLocals, LocalsType
  <2>2. /\ l.pre = pr[p].pre /\ l.real = pr[p].real /\ l.dis = pr[p].dis
        /\ l.st = pr[p].st /\ m.pre = pr[p].pre /\ m.real = pr[p].real
        /\ m.dis = pr[p].dis /\ m.st = pr[p].st
    BY <1>0 DEF SoundLocals, LocalsType
  <2>3. Goes(p, "gone", l) \/ Goes(p, "destroy", m)
    BY <1>2 DEF Unplug
  <2>4. PrSound'
    BY <1>2, <1>a, <2>1, <2>2, <2>3, LocalsSound DEF Unplug, Steps, Picked
  <2>5. DevSound'
    BY <1>2 DEF Unplug, Disconnected, IInv, DevSound, DeviceType
  <2> QED
    BY <1>2, <2>4, <2>5, Untouched DEF Unplug, IInv
<1>3. CASE Gone(p)
  <2> DEFINE l == [pr[p] EXCEPT !.names = {}]
  <2>1. l \in LocalsType
    BY <1>0 DEF SoundLocals, LocalsType
  <2>2. l.pre = pr[p].pre /\ l.real = pr[p].real /\ l.dis = pr[p].dis /\ l.st = pr[p].st
    BY <1>0 DEF SoundLocals, LocalsType
  <2>3. PrSound'
    BY <1>3, <1>a, <2>1, <2>2, LocalsSound DEF Gone, Steps, Picked
  <2> QED
    BY <1>3, <2>3, Untouched DEF Gone, IInv
<1>4. CASE GoneTimeout(p)
  BY <1>4, ExitsSound, MeetsTyped, Untouched DEF GoneTimeout, IInv
<1>5. CASE DisconnectFails(p)
  <2>1. RestTyped'
    BY <1>5, MeetsTyped DEF DisconnectFails
  <2>2. DevSound'
    BY <1>5, DisconnectedTyped, MarkSound, Untouched DEF DisconnectFails
  <2> QED
    BY <1>5, <2>1, <2>2, ExitsSound, Untouched DEF DisconnectFails, IInv
<1> QED
  BY <1>1, <1>2, <1>3, <1>4, <1>5

LEMMA ListingsTyped ==
    ASSUME NEW S \in SUBSET Listed
    PROVE  \A f \in Listings(S) : f \in Seq(Slot)
<1>1. S \subseteq Slot
  BY DEF Listed
<1>2. Cardinality(S) \in Nat
  BY <1>1, SlotsAreNat, FS_Subset, FS_CardinalityType
<1> QED
  BY <1>1, <1>2 DEF Listings

LEMMA DestroyInv ==
    ASSUME IInv, NEW p \in Proc,
           Destroy(p) \/ Swept(p) \/ SweepOver(p) \/ Clear(p) \/ ClearFails(p)
    PROVE  IInv'
<1>0. pr[p] \in SoundLocals
  BY DEF IInv, PrSound
<1>a. /\ (pr[p].pre.on \cup pr[p].real \cup pr[p].dis) \cap Real \subseteq base.on
      /\ pr[p].st \in Seq(SoundRecord)
  BY <1>0 DEF SoundLocals
<1>b. ASSUME NEW todo \in Seq(Slot)
      PROVE  LET l == [pr[p] EXCEPT !.todo = todo] IN
             /\ l \in LocalsType /\ l.pre = pr[p].pre /\ l.real = pr[p].real
             /\ l.dis = pr[p].dis /\ l.st = pr[p].st
  BY <1>0 DEF SoundLocals, LocalsType
<1>1. CASE Destroy(p)
  <2>1. Tail(pr[p].todo) \in Seq(Slot)
    BY <1>0, <1>1 DEF Destroy, SoundLocals, LocalsType
  <2>2. Goes(p, pr[p].pc, [pr[p] EXCEPT !.todo = Tail(pr[p].todo)])
    BY <1>1 DEF Destroy
  <2>3. pr[p].pc \in Over \cup Steps /\ pr[p].pc \notin Picked
    BY <1>1 DEF Destroy, Steps, Picked
  <2>4. PrSound'
    BY <1>1, <1>a, <1>b, <2>1, <2>2, <2>3, LocalsSound DEF Destroy
  <2>5. DevSound'
    BY <1>1, RemoveSound DEF Destroy
  <2>6. RestTyped'
    BY <1>1, RemoveLeaves, MeetsTyped DEF Destroy
  <2> QED
    BY <1>1, <2>4, <2>5, <2>6, Untouched DEF Destroy, IInv
<1>2. CASE Swept(p)
  <2>1. ASSUME Goes(p, "clear", pr[p]) PROVE PrSound'
    BY <1>2, <2>1, MovesSound DEF Swept, Steps, Picked
  <2>2. ASSUME \E S \in SUBSET Listed : \E order \in Listings(S) :
                  Goes(p, "sweep", [pr[p] EXCEPT !.todo = order])
        PROVE  PrSound'
    <3>1. PICK order \in Seq(Slot) : Goes(p, "sweep", [pr[p] EXCEPT !.todo = order])
      BY <2>2, ListingsTyped
    <3> QED
      BY <1>2, <1>a, <1>b, <3>1, LocalsSound DEF Swept, Steps, Picked
  <2>3. PrSound'
    BY <1>2, <2>1, <2>2 DEF Swept
  <2>4. DevSound' /\ RestTyped'
    BY <1>2, SweptMarks, MarkSound, MeetsTyped DEF Swept
  <2> QED
    BY <1>2, <2>3, <2>4, Untouched DEF Swept, IInv
<1>3. CASE SweepOver(p)
  <2>1. PrSound'
    BY <1>3, MovesSound DEF SweepOver, Steps, Picked
  <2> QED
    BY <1>3, <2>1, Untouched DEF SweepOver, IInv
<1>4. CASE Clear(p)
  <2>1. LogSound'
    BY <1>4 DEF Clear, EmptyState, LogSound
  <2>2. RestTyped'
    BY <1>4 DEF Clear, IInv, RestTyped
  <2> QED
    BY <1>4, <2>1, <2>2, ExitsSound, Untouched DEF Clear, IInv
<1>5. CASE ClearFails(p)
  BY <1>5, ExitsSound, MeetsTyped, Untouched DEF ClearFails, IInv
<1> QED
  BY <1>1, <1>2, <1>3, <1>4, <1>5

LEMMA StutterInv == IInv /\ UNCHANGED vars => IInv'
  BY DEF vars, IInv, DevSound, LogSound, CompSound, PrSound, RestTyped,
         SoundLocals, SoundRecord

LEMMA NextInv == IInv /\ [Next]_vars => IInv'
<1> SUFFICES ASSUME IInv, [Next]_vars PROVE IInv'
  OBVIOUS
<1>1. CASE \E p \in Proc :
        Start(p) \/ Up(p) \/ DownOrReset(p) \/ SnapshotFails(p) \/ Crash(p)
  <2>1. PICK p \in Proc :
          Start(p) \/ Up(p) \/ DownOrReset(p) \/ SnapshotFails(p) \/ Crash(p)
    BY <1>1
  <2>2. CASE Up(p)
    BY <2>2, CreateInv, PushInv, AwaitInv, AttachInv DEF Up
  <2>3. CASE DownOrReset(p)
    BY <2>3, RestoreInv, DisconnectInv, DestroyInv DEF DownOrReset
  <2> QED
    BY <2>1, <2>2, <2>3, StartInv, CreateInv, CrashInv
<1>2. CASE Compositor
  BY <1>2, CompositorInv
<1>3. CASE UNCHANGED vars
  BY <1>3, StutterInv
<1> QED
  BY <1>1, <1>2, <1>3 DEF Next, AllOver

THEOREM Invariance == Spec => []IInv
<1>1. IInv /\ [Next]_vars => IInv'
  BY NextInv
<1> QED
  BY <1>1, InitInv, PTL DEF Spec

-----------------------------------------------------------------------------
(* Every variable keeps its type, a head that fauxput takes for its own is *)
(* never a real output, and a record names a device.                       *)
THEOREM TypeCorrect == Spec => []TypeOK
<1>1. IInv => TypeOK
  BY InvImplies
<1> QED
  BY <1>1, Invariance, PTL

(* No interleaving of any number of `up`, `down` and `reset`, with any of  *)
(* the faults, turns on a real output that the user had off.               *)
THEOREM OthersStayOff == Spec => []OnlyUserOutputs
<1>1. IInv => OnlyUserOutputs
  BY InvImplies
<1> QED
  BY <1>1, Invariance, PTL

-----------------------------------------------------------------------------
(* A plan that disables no real output turns none off, however it ends.    *)
LEMMA PlanSpares ==
    ASSUME IInv, NEW plan, plan.dis \cap Real = {},
           Accepted(plan) \/ Refused(plan) \/ Late(plan)
    PROVE  comp.on \cap Real \subseteq comp'.on
<1>1. CASE Effective(plan)
  <2>1. PICK m \in PrimariesAfter(plan) :
          comp' = [comp EXCEPT !.on = OnAfter(plan), !.prim = m, !.kept = KeptAfter(plan)]
    BY <1>1 DEF Effective
  <2>2. comp'.on = OnAfter(plan)
    BY <2>1 DEF IInv, CompSound, CompositorType
  <2> QED
    BY <2>2 DEF OnAfter
<1>2. CASE UNCHANGED comp
  BY <1>2
<1> QED
  BY <1>1, <1>2 DEF Accepted, Refused, Late

(* The layout step of an `up` that was asked to disable the real outputs.  *)
Requested(p) == At(p, "layout") /\ pr[p].cmd.disable /\ pr'[p] # pr[p]

LEMMA UpSpares ==
    ASSUME IInv, NEW p \in Proc, Up(p), ~Requested(p)
    PROVE  comp.on \cap Real \subseteq comp'.on
<1>1. CASE UNCHANGED comp
  BY <1>1
<1>2. CASE EnableHead(p) \/ (At(p, "enable") /\ ApplyFails(p))
  <2>1. EnablePlan(p).dis \cap Real = {}
    BY DEF EnablePlan
  <2>2. Accepted(EnablePlan(p)) \/ Refused(EnablePlan(p)) \/ Late(EnablePlan(p))
    BY <1>2 DEF EnableHead, ApplyFails, At
  <2> QED
    BY <2>1, <2>2, PlanSpares
<1>3. CASE Layout(p) \/ (At(p, "layout") /\ ApplyFails(p))
  <2>1. Accepted(LayoutPlan(p)) \/ Refused(LayoutPlan(p)) \/ Late(LayoutPlan(p))
    BY <1>3 DEF Layout, ApplyFails, At
  <2>2. pr'[p].pc \in {"record", "exit"}
    <3>1. ASSUME NEW first, Goes(p, "record", [pr[p] EXCEPT !.dis = Disabled(p), !.prev = first])
          PROVE  pr'[p].pc = "record"
      BY <3>1 DEF Goes, IInv, PrSound, SoundLocals, LocalsType
    <3>2. ASSUME Exits(p, "ok") PROVE pr'[p].pc = "exit"
      BY <3>2 DEF Exits, Goes, Fresh, IInv, PrSound
    <3> QED
      BY <1>3, <3>1, <3>2 DEF Layout, ApplyFails
  <2>3. ~pr[p].cmd.disable
    BY <1>3, <2>2 DEF Requested, Layout, At
  <2>4. LayoutPlan(p).dis \cap Real = {}
    BY <2>3 DEF LayoutPlan, Disabled
  <2> QED
    BY <2>1, <2>4, PlanSpares
<1> QED
  BY <1>1, <1>2, <1>3
     DEF Up, UpSnapshot, Pick, Mkdir, Commit, CommitFails, Rollback, Push,
         PushFails, Claim, AwaitHead, AwaitTimeout, NameHead, Owned, Record, ApplyFails,
         AttachFails

LEMMA HeadsNotReal ==
    ASSUME NEW st \in Seq(RecordType)
    PROVE  RecordedHeads(st) \cap Real = {}
<1>1. ASSUME NEW i \in 1..Len(st) PROVE st[i].head \in Conn \cup {None}
  <2>1. st[i] \in RecordType
    OBVIOUS
  <2> QED
    BY <2>1 DEF RecordType
<1> QED
  BY <1>1, NamesDiffer DEF RecordedHeads

LEMMA RestoreSpares ==
    ASSUME IInv, NEW p \in Proc, DownOrReset(p)
    PROVE  comp.on \cap Real \subseteq comp'.on
<1>1. CASE UNCHANGED comp
  BY <1>1
<1>2. CASE Accepted(RestoreStep(p)) \/ Refused(RestoreStep(p)) \/ Late(RestoreStep(p))
  <2>1. pr[p].st \in Seq(RecordType)
    BY InvImplies DEF TypeOK, LocalsType
  <2>2. RecordedHeads(pr[p].st) \cap Real = {}
    BY <2>1, HeadsNotReal
  <2>3. RestoreStep(p).dis \cap Real = {}
    BY <2>2 DEF RestoreStep, RestorePlan, EnablesOf
  <2> QED
    BY <1>2, <2>3, PlanSpares
<1> QED
  BY <1>1, <1>2
     DEF DownOrReset, Load, LoadFails, Restore, RestoreFails, RestoreNothing, Plugs, Unplug,
         Gone, GoneTimeout, DisconnectFails, Destroy, Swept, SweepOver, Clear, ClearFails

LEMMA CompositorSpares ==
    ASSUME IInv, Compositor PROVE comp.on \cap Real \subseteq comp'.on
<1>0. CASE Hang
  BY <1>0 DEF Hang, IInv, CompSound, CompositorType
<1>a. SUFFICES ASSUME \E c \in Conn : Appear(c) \/ Vanish(c)
               PROVE  comp.on \cap Real \subseteq comp'.on
  BY <1>0 DEF Compositor
<1>1. PICK c \in Conn : Appear(c) \/ Vanish(c)
  BY <1>a
<1>2. c \notin Real
  BY NamesDiffer
<1>3. CASE Appear(c)
  BY <1>3 DEF Appear, IInv, CompSound, CompositorType
<1>4. CASE Vanish(c)
  BY <1>2, <1>4 DEF Vanish, IInv, CompSound, CompositorType
<1> QED
  BY <1>1, <1>3, <1>4

(* Restoring never darkens the desk: whatever the records it works from,   *)
(* a real output goes off only in the layout step of an `up` asked to.     *)
THEOREM RestoringSparesReal == Spec => RealOffOnlyByRequest
<1>1. ASSUME IInv, Next, ~(comp.on \cap Real \subseteq comp'.on)
      PROVE  \E p \in Proc : Requested(p)
  <2>1. CASE \E p \in Proc :
          Start(p) \/ Up(p) \/ DownOrReset(p) \/ SnapshotFails(p) \/ Crash(p)
    <3>1. PICK p \in Proc :
            Start(p) \/ Up(p) \/ DownOrReset(p) \/ SnapshotFails(p) \/ Crash(p)
      BY <2>1
    <3> QED
      BY <1>1, <3>1, UpSpares, RestoreSpares DEF Start, SnapshotFails, Crash
  <2>2. CASE Compositor
    BY <1>1, <2>2, CompositorSpares
  <2>3. CASE AllOver
    BY <1>1, <2>3 DEF AllOver, vars
  <2> QED
    BY <1>1, <2>1, <2>2, <2>3 DEF Next
<1>2. IInv /\ [Next]_vars =>
        [~(comp.on \cap Real \subseteq comp'.on) =>
            \E p \in Proc : At(p, "layout") /\ pr[p].cmd.disable /\ pr'[p] # pr[p]]_vars
  BY <1>1 DEF Requested
<1> QED
  BY <1>2, Invariance, PTL DEF Spec, RealOffOnlyByRequest

-----------------------------------------------------------------------------
(***************************************************************************)
(* The invocations run one after the other (MaxRunning = 1), whatever      *)
(* faults and crashes come between.                                        *)
(*                                                                         *)
(* The argument: a device that is on was made by an invocation whose       *)
(* record is in the file, unless it never got to push one, or a down or a  *)
(* reset has failed to remove the device or not been shown it; what down   *)
(* and reset have loaded is what the file still holds, as nobody else      *)
(* writes it; their lists of work cover every device that is left, but     *)
(* those they have failed at themselves; and the names they wait for cover *)
(* every connector they destroy, but those that reset was not shown.       *)
(***************************************************************************)
(* At most one invocation runs.                                            *)
Alone == \A p, q \in Running : p = q

(* Enabled devices have been made by an invocation, and each has a         *)
(* connector of its own.                                                   *)
Devices ==
    /\ \A s \in Slot : dev[s].on => dev[s].dir /\ dev[s].by \in Proc
    /\ \A s, t \in Slot : dev[s].on /\ dev[t].on /\ dev[s].conn = dev[t].conn => s = t

(* An `up` has made no device, or its own, and not yet pushed a record.    *)
Unmade == {"new", "snapshot", "pick", "mkdir"}
Making == {"commit", "push", "rollback"}
Maker(p, l) ==
    /\ l.pc \in Unmade => \A s \in Slot : dev[s].by # p
    /\ l.pc \in Making => \A s \in Slot : dev[s].by = p => s = l.slot
    /\ l.pc \in Unmade \cup Making => ~l.pushed

(* Which command is at which step.                                         *)
UpSteps ==
    {"snapshot", "pick", "mkdir", "commit", "rollback", "push", "claim", "await", "name",
     "enable", "owned", "layout", "record"}
DownSteps ==
    {"load", "restore", "restore2", "plugs", "unplug", "gone", "destroy", "sweep", "clear"}
InSession ==
    {"snapshot", "claim", "await", "name", "enable", "owned", "layout", "record", "restore",
     "restore2", "gone"}
Commanded(l) ==
    /\ l.pc \in UpSteps => l.cmd.op = "up"
    /\ l.pc \in DownSteps => l.cmd.op \in {"down", "reset"}
    /\ l.pc = "sweep" => l.cmd.op = "reset"
    /\ l.pc \in InSession => l.cmd.sess

(* The records that down and reset have loaded are those there still are,  *)
(* or reset could not load them.                                           *)
Sees(l) ==
    /\ l.pc = "load" => l.st = EmptyState
    /\ l.pc \in DownSteps \ {"load"} =>
          l.st = log \/ (l.cmd.op = "reset" /\ l.st = EmptyState)

(* Devices left to destroy are on the list, but those that the command has *)
(* failed to remove, or not been shown.                                    *)
Lists(f, s) == \E i \in 1..Len(f) : f[i] = s
Todo(p, l) ==
    /\ l.pc \in {"unplug", "gone", "destroy"} =>
          /\ \A s \in RecordedSlots(l.st) :
                dev[s].on => Lists(l.todo, s) \/ dev[s].left = p
          /\ \A i \in 1..Len(l.todo) : l.todo[i] \in RecordedSlots(l.st)
    /\ l.pc = "sweep" => \A s \in Listed : Lists(l.todo, s) \/ dev[s].left = p
    /\ l.pc = "clear" =>
          IF l.cmd.op = "reset" THEN \A s \in Listed : dev[s].left = p
          ELSE \A s \in RecordedSlots(l.st) : dev[s].on => dev[s].left = p

LInv(p) == Maker(p, pr[p]) /\ Commanded(pr[p]) /\ Sees(pr[p]) /\ Todo(p, pr[p])

AInv == Alone /\ Devices /\ LiveDevicesFound /\ \A p \in Proc : LInv(p)

-----------------------------------------------------------------------------
LocalNames == DOMAIN Fresh

(* What a step does to the local variables.                                *)
LEMMA Stepped ==
    ASSUME IInv, NEW p \in Proc, NEW pc, NEW l, DOMAIN l = LocalNames, Goes(p, pc, l)
    PROVE  /\ \A q \in Proc : q # p => pr'[q] = pr[q]
           /\ pr'[p].pc = pc /\ pr'[p].cmd = l.cmd /\ pr'[p].slot = l.slot
           /\ pr'[p].pre = l.pre /\ pr'[p].head = l.head /\ pr'[p].real = l.real
           /\ pr'[p].dis = l.dis /\ pr'[p].prev = l.prev /\ pr'[p].st = l.st
           /\ pr'[p].handles = l.handles /\ pr'[p].names = l.names
           /\ pr'[p].todo = l.todo /\ pr'[p].pushed = l.pushed
           /\ pr'[p].restored = l.restored /\ pr'[p].missed = l.missed
<1>1. pr' = [pr EXCEPT ![p] = [l EXCEPT !.pc = pc]] /\ DOMAIN pr = Proc
  BY DEF Goes, IInv, PrSound
<1>2. pr'[p] = [l EXCEPT !.pc = pc] /\ \A q \in Proc : q # p => pr'[q] = pr[q]
  BY <1>1
<1>3. LocalNames = {"pc", "cmd", "slot", "pre", "head", "real", "dis", "prev", "st", "handles",
                    "names", "todo", "out", "pushed", "restored", "missed"}
  BY DEF LocalNames, Fresh
<1> QED
  BY <1>2, <1>3

LEMMA LocalsNamed == ASSUME IInv, NEW p \in Proc PROVE DOMAIN pr[p] = LocalNames
  BY DEF IInv, PrSound, SoundLocals, LocalsType, LocalNames, Fresh

LEMMA Exited ==
    ASSUME IInv, NEW p \in Proc, NEW o, Exits(p, o)
    PROVE  /\ \A q \in Proc : q # p => pr'[q] = pr[q]
           /\ pr'[p].pc = "exit" /\ pr'[p].pushed = pr[p].pushed
<1> DEFINE l == [Fresh EXCEPT !.out = o, !.pushed = pr[p].pushed]
<1>1. DOMAIN l = LocalNames /\ l.pushed = pr[p].pushed
  BY DEF LocalNames, Fresh
<1>2. Goes(p, "exit", l)
  BY DEF Exits
<1> HIDE DEF l
<1> QED
  BY <1>1, <1>2, Stepped

(* Those who do not run.                                                   *)
LEMMA OthersRest ==
    ASSUME Alone, NEW p \in Proc, p \in Running, NEW q \in Proc, q # p
    PROVE  pr[q].pc \in Over
  BY DEF Alone, Running

LEMMA StaysAlone ==
    ASSUME Alone, NEW p \in Proc, p \in Running, \A q \in Proc : q # p => pr'[q] = pr[q]
    PROVE  Alone'
<1>1. \A q \in Running' : q = p
  BY OthersRest DEF Running
<1> QED
  BY <1>1 DEF Alone

LEMMA StartsAlone ==
    ASSUME MaxRunning = 1, Alone, NEW p \in Proc, Cardinality(Running) < MaxRunning,
           \A q \in Proc : q # p => pr'[q] = pr[q]
    PROVE  Alone' /\ Running = {}
<1>1. ASSUME NEW q \in Running PROVE FALSE
  <2>1. Running = {q}
    BY <1>1 DEF Alone
  <2>2. Cardinality({q}) = 1
    BY FS_Singleton
  <2> QED
    BY <2>1, <2>2
<1>2. \A q \in Running' : q = p
  BY <1>1 DEF Running
<1> QED
  BY <1>1, <1>2 DEF Alone

-----------------------------------------------------------------------------
(* Devices, records and those who made them.                               *)
LEMMA Combine ==
    ASSUME AInv, NEW p \in Proc, p \in Running, \A q \in Proc : q # p => pr'[q] = pr[q],
           \A s \in Slot : dev'[s].by \in {dev[s].by, p, None},
           LInv(p)', Devices', LiveDevicesFound'
    PROVE  AInv'
<1>1. Alone'
  BY StaysAlone DEF AInv
<1>2. ASSUME NEW q \in Proc, q # p PROVE LInv(q)'
  <2>1. pr[q].pc \in Over /\ pr'[q] = pr[q]
    BY <1>2, OthersRest DEF AInv
  <2>2. Maker(q, pr[q])'
    <3>1. Maker(q, pr[q]) /\ None # q
      BY NamesDiffer DEF AInv, LInv
    <3> QED
      BY <1>2, <2>1, <3>1 DEF Maker, Making, Unmade, Over
  <2>3. Commanded(pr[q])' /\ Sees(pr[q])' /\ Todo(q, pr[q])'
    BY <2>1 DEF Commanded, Sees, Todo, Over, UpSteps, DownSteps, InSession
  <2> QED
    BY <2>2, <2>3 DEF LInv
<1>3. \A q \in Proc : LInv(q)'
  BY <1>2
<1> QED
  BY <1>1, <1>3 DEF AInv

LEMMA Quiet ==
    ASSUME AInv, NEW p \in Proc, p \in Running, \A q \in Proc : q # p => pr'[q] = pr[q],
           UNCHANGED <<dev, log>>, pr'[p].pushed = pr[p].pushed, LInv(p)'
    PROVE  AInv'
<1>1. Devices'
  BY DEF AInv, Devices
<1>2. LiveDevicesFound'
  <2>1. ASSUME NEW s \in Slot, dev'[s].on, s \notin RecordedSlots(log')
        PROVE  ~pr'[dev'[s].by].pushed \/ dev'[s].left # None
    <3>1. (~pr[dev[s].by].pushed \/ dev[s].left # None) /\ dev[s].by \in Proc
      BY <2>1 DEF AInv, Devices, LiveDevicesFound
    <3> QED
      BY <3>1
  <2> QED
    BY <2>1 DEF LiveDevicesFound, RecordedSlots
<1>3. \A s \in Slot : dev'[s].by = dev[s].by
  OBVIOUS
<1> QED
  BY <1>1, <1>2, <1>3, Combine

LEMMA OverHolds ==
    ASSUME NEW p \in Proc, pr'[p].pc \in {"exit", "dead"}
    PROVE  LInv(p)'
  BY DEF LInv, Maker, Making, Unmade, Commanded, Sees, Todo, UpSteps, DownSteps, InSession

LEMMA QuietExit ==
    ASSUME IInv, AInv, NEW p \in Proc, p \in Running, NEW o, Exits(p, o),
           UNCHANGED <<dev, log>>
    PROVE  AInv'
<1>1. LInv(p)'
  BY Exited, OverHolds
<1> QED
  BY <1>1, Exited, Quiet

LEMMA InitA == Init => AInv
<1> SUFFICES ASSUME Init PROVE AInv
  OBVIOUS
<1>1. /\ \A s \in Slot : dev[s] = NoDevice /\ ~dev[s].on /\ dev[s].by = None
      /\ \A p \in Proc : pr[p] = Fresh /\ pr[p].pc = "new" /\ ~pr[p].pushed
  BY DEF Init, NoDevice, Fresh
<1>2. Alone
  BY <1>1 DEF Alone, Running, Over
<1>3. Devices /\ LiveDevicesFound
  BY <1>1 DEF Devices, LiveDevicesFound
<1>4. \A p \in Proc : LInv(p)
  BY <1>1, NamesDiffer DEF LInv, Maker, Making, Unmade, Commanded, Sees, Todo, UpSteps, DownSteps, InSession
<1> QED
  BY <1>2, <1>3, <1>4 DEF AInv

LEMMA StartA == ASSUME MaxRunning = 1, IInv, AInv, NEW p \in Proc, Start(p) PROVE AInv'
<1>1. PICK cmd \in Commands : InitialCommand(p, cmd)
  BY DEF Start
<1> DEFINE l == [Fresh EXCEPT !.cmd = cmd]
           pc == IF cmd.op # "up" THEN "load" ELSE IF cmd.sess THEN "snapshot" ELSE "pick"
<1>2. DOMAIN l = LocalNames /\ l.cmd = cmd /\ ~l.pushed /\ l.st = EmptyState
  BY DEF LocalNames, Fresh
<1>3. Goes(p, pc, l)
  BY <1>1 DEF InitialCommand
<1> HIDE DEF l
<1>4. /\ \A q \in Proc : q # p => pr'[q] = pr[q]
      /\ pr'[p].pc = pc /\ pr'[p].cmd = cmd /\ ~pr'[p].pushed /\ pr'[p].st = EmptyState
  BY <1>2, <1>3, Stepped
<1>5. Alone' /\ Running = {}
  BY <1>4, StartsAlone DEF Start, AInv
<1>6. pr[p].pc = "new" /\ Maker(p, pr[p]) /\ UNCHANGED <<dev, log, met>>
  BY DEF Start, At, AInv, LInv
<1>7. cmd.op \in {"up", "down", "reset"}
  BY Scenario DEF Command
<1>8. LInv(p)'
  <2>1. Maker(p, pr[p])'
    BY <1>4, <1>6 DEF Maker, Making, Unmade
  <2>2. Commanded(pr[p])' /\ Sees(pr[p])' /\ Todo(p, pr[p])'
    BY <1>4, <1>7 DEF Commanded, Sees, Todo, UpSteps, DownSteps, InSession
  <2> QED
    BY <2>1, <2>2 DEF LInv
<1>9. ASSUME NEW q \in Proc, q # p PROVE LInv(q)'
  <2>1. pr'[q] = pr[q] /\ LInv(q)
    BY <1>4, <1>9 DEF AInv
  <2>2. Maker(q, pr[q])' /\ Commanded(pr[q])' /\ Sees(pr[q])'
    BY <1>6, <2>1 DEF LInv, Maker, Commanded, Sees
  <2>3. Todo(q, pr[q])'
    BY <1>6, <2>1 DEF LInv, Todo, RecordedSlots, Lists, Listed
  <2> QED
    BY <2>2, <2>3 DEF LInv
<1>10. \A q \in Proc : LInv(q)'
  BY <1>8, <1>9
<1>11. Devices'
  BY <1>6 DEF AInv, Devices
<1>12. LiveDevicesFound'
  <2>1. ASSUME NEW s \in Slot, dev'[s].on, s \notin RecordedSlots(log')
        PROVE  ~pr'[dev'[s].by].pushed \/ dev'[s].left # None
    <3>1. (~pr[dev[s].by].pushed \/ dev[s].left # None) /\ dev[s].by \in Proc
      BY <1>6, <2>1 DEF AInv, Devices, LiveDevicesFound
    <3> QED
      BY <1>4, <1>6, <3>1
  <2> QED
    BY <2>1 DEF LiveDevicesFound, RecordedSlots
<1> QED
  BY <1>5, <1>10, <1>11, <1>12 DEF AInv

LEMMA CrashA == ASSUME IInv, AInv, NEW p \in Proc, Crash(p) PROVE AInv'
<1> DEFINE l == [Fresh EXCEPT !.pushed = pr[p].pushed]
<1>1. DOMAIN l = LocalNames /\ l.pushed = pr[p].pushed
  BY DEF LocalNames, Fresh
<1>2. Goes(p, "dead", l)
  BY DEF Crash
<1> HIDE DEF l
<1>3. /\ \A q \in Proc : q # p => pr'[q] = pr[q]
      /\ pr'[p].pc = "dead" /\ pr'[p].pushed = pr[p].pushed
  BY <1>1, <1>2, Stepped
<1> QED
  BY <1>3, OverHolds, Quiet DEF Crash

(* A step of `up` that leaves the devices and the records alone.           *)
LEMMA UpMoves ==
    ASSUME IInv, AInv, NEW p \in Proc, NEW pc \in UpSteps, NEW l, DOMAIN l = LocalNames,
           Goes(p, pc, l), l.cmd = pr[p].cmd, l.pushed = pr[p].pushed,
           pr[p].pc \in UpSteps, UNCHANGED <<dev, log>>,
           pc \in Unmade => pr[p].pc \in Unmade,
           pc \in Making => pr[p].pc \in Unmade \/ (pr[p].pc \in Making /\ l.slot = pr[p].slot),
           pc \in InSession => pr[p].cmd.sess
    PROVE  AInv'
<1>1. /\ \A q \in Proc : q # p => pr'[q] = pr[q]
      /\ pr'[p].pc = pc /\ pr'[p].cmd = pr[p].cmd /\ pr'[p].pushed = pr[p].pushed
      /\ pr'[p].slot = l.slot
  BY Stepped
<1>2. Maker(p, pr[p]) /\ Commanded(pr[p])
  BY DEF AInv, LInv
<1>3. p \in Running
  BY DEF Running, Over, UpSteps
<1>4. Maker(p, pr[p])'
  BY <1>1, <1>2 DEF Maker
<1>5. Commanded(pr[p])' /\ Sees(pr[p])' /\ Todo(p, pr[p])'
  BY <1>1, <1>2 DEF Commanded, Sees, Todo, UpSteps, DownSteps
<1> QED
  BY <1>1, <1>3, <1>4, <1>5, Quiet DEF LInv

LEMMA UpMovesOn ==
    ASSUME IInv, AInv, NEW p \in Proc, NEW pc \in UpSteps, Goes(p, pc, pr[p]),
           pr[p].pc \in UpSteps, UNCHANGED <<dev, log>>,
           pc \in Unmade => pr[p].pc \in Unmade,
           pc \in Making => pr[p].pc \in Unmade \cup Making,
           pc \in InSession => pr[p].cmd.sess
    PROVE  AInv'
  BY LocalsNamed, UpMoves

LEMMA UpQuietA ==
    ASSUME IInv, AInv, NEW p \in Proc,
           \/ UpSnapshot(p) \/ SnapshotFails(p) \/ Pick(p) \/ CommitFails(p) \/ PushFails(p)
           \/ Claim(p) \/ AwaitHead(p) \/ AwaitTimeout(p) \/ EnableHead(p) \/ Owned(p)
           \/ Layout(p) \/ ApplyFails(p) \/ AttachFails(p)
    PROVE  AInv'
<1>0. DOMAIN pr[p] = LocalNames /\ Commanded(pr[p])
  BY LocalsNamed DEF AInv, LInv
<1> DEFINE Moved(l) == DOMAIN l = LocalNames /\ l.cmd = pr[p].cmd /\ l.pushed = pr[p].pushed
<1>1. CASE UpSnapshot(p)
  <2> DEFINE l == [pr[p] EXCEPT !.pre = Snapshot]
  <2>1. Moved(l)
    BY <1>0 DEF LocalNames, Fresh
  <2> HIDE DEF l
  <2>2. Goes(p, "pick", l) /\ pr[p].pc = "snapshot" /\ UNCHANGED <<dev, log>>
    BY <1>1 DEF UpSnapshot, At, l
  <2> QED
    BY <2>1, <2>2, UpMoves DEF UpSteps, Unmade, Making, InSession
<1>2. CASE SnapshotFails(p)
  BY <1>2, QuietExit DEF SnapshotFails, Running, Over
<1>3. CASE Pick(p)
  <2>0. PICK free : Goes(p, "mkdir", [pr[p] EXCEPT !.slot = free])
    BY <1>3 DEF Pick
  <2> DEFINE l == [pr[p] EXCEPT !.slot = free]
  <2>1. Moved(l)
    BY <1>0 DEF LocalNames, Fresh
  <2> HIDE DEF l
  <2>2. Goes(p, "mkdir", l) /\ pr[p].pc = "pick" /\ UNCHANGED <<dev, log>>
    BY <1>3, <2>0 DEF Pick, At, l
  <2> QED
    BY <2>1, <2>2, UpMoves DEF UpSteps, Unmade, Making, InSession
<1>4. CASE CommitFails(p)
  <2>1. /\ Goes(p, "rollback", pr[p]) /\ pr[p].pc \in {"mkdir", "commit"}
        /\ UNCHANGED <<dev, log>>
    BY <1>4 DEF CommitFails, At
  <2> QED
    BY <2>1, UpMovesOn DEF UpSteps, Unmade, Making, InSession
<1>5. CASE PushFails(p)
  BY <1>5, QuietExit DEF PushFails, Running, Over, At
<1>6. CASE Claim(p)
  <2>1. CASE Exits(p, "ok")
    BY <1>6, <2>1, QuietExit DEF Claim, Running, Over, At
  <2>2. ASSUME NEW names, Goes(p, "await", [pr[p] EXCEPT !.names = names])
        PROVE  AInv'
    <3> DEFINE l == [pr[p] EXCEPT !.names = names]
    <3>1. Moved(l)
      BY <1>0 DEF LocalNames, Fresh
    <3> HIDE DEF l
    <3>2. Goes(p, "await", l) /\ pr[p].pc = "claim" /\ UNCHANGED <<dev, log>>
      BY <1>6, <2>2 DEF Claim, At, l
    <3> QED
      BY <1>0, <3>1, <3>2, UpMoves DEF UpSteps, Unmade, Making, InSession, Commanded
  <2> QED
    BY <1>6, <2>1, <2>2 DEF Claim
<1>7. CASE AwaitHead(p)
  <2>1. PICK h : Goes(p, "name", [pr[p] EXCEPT !.head = h, !.names = {}])
    BY <1>7 DEF AwaitHead
  <2> DEFINE l == [pr[p] EXCEPT !.head = h, !.names = {}]
  <2>2. Moved(l)
    BY <1>0 DEF LocalNames, Fresh
  <2>3. Goes(p, "name", l) /\ pr[p].pc = "await" /\ UNCHANGED <<dev, log>>
    BY <1>7, <2>1 DEF AwaitHead, At
  <2> HIDE DEF l
  <2> QED
    BY <1>0, <2>2, <2>3, UpMoves DEF UpSteps, Unmade, Making, InSession, Commanded
<1>8. CASE AwaitTimeout(p)
  BY <1>8, QuietExit DEF AwaitTimeout, Running, Over, At
<1>9. CASE EnableHead(p)
  <2>1. /\ Goes(p, "owned", pr[p]) /\ pr[p].pc = "enable" /\ UNCHANGED <<dev, log>>
    BY <1>9 DEF EnableHead, At
  <2> QED
    BY <1>0, <2>1, UpMovesOn DEF UpSteps, Unmade, Making, InSession, Commanded
<1>10. CASE Owned(p)
  <2> DEFINE l == [pr[p] EXCEPT !.real = pr[p].pre.on \ RecordedHeads(log)]
  <2>1. Moved(l)
    BY <1>0 DEF LocalNames, Fresh
  <2>2. Goes(p, "layout", l) /\ pr[p].pc = "owned" /\ UNCHANGED <<dev, log>>
    BY <1>10 DEF Owned, At
  <2> HIDE DEF l
  <2> QED
    BY <1>0, <2>1, <2>2, UpMoves DEF UpSteps, Unmade, Making, InSession, Commanded
<1>11. CASE Layout(p)
  <2>1. PICK first : Goes(p, "record", [pr[p] EXCEPT !.dis = Disabled(p), !.prev = first])
    BY <1>11 DEF Layout
  <2> DEFINE l == [pr[p] EXCEPT !.dis = Disabled(p), !.prev = first]
  <2>2. Moved(l)
    BY <1>0 DEF LocalNames, Fresh
  <2>3. Goes(p, "record", l) /\ pr[p].pc = "layout" /\ UNCHANGED <<dev, log>>
    BY <1>11, <2>1 DEF Layout, At
  <2> HIDE DEF l
  <2> QED
    BY <1>0, <2>2, <2>3, UpMoves DEF UpSteps, Unmade, Making, InSession, Commanded
<1>12. CASE ApplyFails(p)
  <2>1. pr[p].pc \in {"enable", "layout"} /\ Exits(p, "ok") /\ UNCHANGED <<dev, log>>
    BY <1>12 DEF ApplyFails, At
  <2> QED
    BY <2>1, QuietExit DEF Running, Over
<1>13. CASE AttachFails(p)
  <2>1. /\ pr[p].pc \in {"claim", "name", "owned", "record"} /\ Exits(p, "ok")
        /\ UNCHANGED <<dev, log>>
    BY <1>13 DEF AttachFails, At
  <2> QED
    BY <2>1, QuietExit DEF Running, Over
<1> QED
  BY <1>1, <1>2, <1>3, <1>4, <1>5, <1>6, <1>7, <1>8, <1>9, <1>10, <1>11, <1>12, <1>13

(* A step that only takes devices away, or marks them.                     *)
LEMMA Fewer ==
    ASSUME AInv, NEW p \in Proc, p \in Running, \A q \in Proc : q # p => pr'[q] = pr[q],
           pr'[p].pushed = pr[p].pushed, UNCHANGED log, LInv(p)',
           \A s \in Slot : /\ dev'[s].by \in {dev[s].by, None}
                           /\ dev'[s].on => /\ dev[s].on /\ dev'[s].by = dev[s].by
                                            /\ dev'[s].conn = dev[s].conn /\ dev'[s].dir
                                            /\ dev'[s].left \in {dev[s].left, p}
    PROVE  AInv'
<1>1. Devices'
  BY DEF AInv, Devices
<1>2. LiveDevicesFound'
  <2>1. ASSUME NEW s \in Slot, dev'[s].on, s \notin RecordedSlots(log')
        PROVE  ~pr'[dev'[s].by].pushed \/ dev'[s].left # None
    <3>1. (~pr[dev[s].by].pushed \/ dev[s].left # None) /\ dev[s].by \in Proc
      BY <2>1 DEF AInv, Devices, LiveDevicesFound
    <3>2. p # None
      BY NamesDiffer
    <3> QED
      BY <2>1, <3>1, <3>2
  <2> QED
    BY <2>1 DEF LiveDevicesFound, RecordedSlots
<1> QED
  BY <1>1, <1>2, Combine

LEMMA RemoveFewer ==
    ASSUME IInv, AInv, NEW p \in Proc, NEW r, Removes(p, r)
    PROVE  \A s \in Slot : /\ dev'[s].by \in {dev[s].by, None}
                           /\ dev'[s].on => /\ dev[s].on /\ dev'[s].by = dev[s].by
                                            /\ dev'[s].conn = dev[s].conn /\ dev'[s].dir
                                            /\ dev'[s].left \in {dev[s].left, p}
<1>1. SUFFICES ASSUME NEW s \in Slot
               PROVE  /\ dev'[s].by \in {dev[s].by, None}
                      /\ dev'[s].on => /\ dev[s].on /\ dev'[s].by = dev[s].by
                                       /\ dev'[s].conn = dev[s].conn /\ dev'[s].dir
                                       /\ dev'[s].left \in {dev[s].left, p}
  OBVIOUS
<1>2. dev[s].on => dev[s].dir
  BY DEF AInv, Devices
<1>3. NoDevice.on = FALSE /\ NoDevice.by = None
  BY DEF NoDevice
<1>4. CASE dev'[s] = dev[s] \/ dev'[s] = NoDevice
  BY <1>2, <1>3, <1>4
<1>5. CASE ~(dev'[s] = dev[s] \/ dev'[s] = NoDevice)
  <2>1. /\ dev'[s].dir /\ dev'[s].left = p /\ dev'[s].by = dev[s].by
        /\ dev'[s].on => dev[s].on /\ dev'[s].conn = dev[s].conn
    BY <1>5, RemoveLeaves
  <2> QED
    BY <2>1
<1> QED
  BY <1>4, <1>5

LEMMA DeviceA ==
    ASSUME IInv, AInv, NEW p \in Proc, Mkdir(p) \/ Commit(p) \/ Rollback(p)
    PROVE  AInv'
<1>0. /\ DOMAIN pr[p] = LocalNames /\ Commanded(pr[p]) /\ Maker(p, pr[p])
      /\ DOMAIN dev = Slot /\ pr[p] \in SoundLocals
  BY LocalsNamed DEF AInv, LInv, IInv, DevSound, PrSound
<1>1. CASE Mkdir(p)
  <2>0. p \in Running /\ pr[p].pc = "mkdir" /\ pr[p].slot \in Slot
    BY <1>0, <1>1 DEF Mkdir, At, Running, Over, SoundLocals, Picked
  <2>1. CASE dev[pr[p].slot].dir
    <3>1. Goes(p, "rollback", pr[p]) /\ UNCHANGED <<dev, log>>
      BY <1>1, <2>1 DEF Mkdir
    <3> QED
      BY <2>0, <3>1, UpMovesOn DEF UpSteps, Unmade, Making, InSession
  <2>2. CASE ~dev[pr[p].slot].dir
    <3> DEFINE r == pr[p].slot
    <3>1. /\ Goes(p, "commit", pr[p]) /\ UNCHANGED <<log, met>>
          /\ dev' = [dev EXCEPT ![r] = Skeleton(p)]
      BY <1>1, <2>2 DEF Mkdir
    <3>2. /\ \A q \in Proc : q # p => pr'[q] = pr[q]
          /\ pr'[p].pc = "commit" /\ pr'[p].cmd = pr[p].cmd /\ pr'[p].pushed = pr[p].pushed
          /\ pr'[p].slot = r
      BY <1>0, <3>1, Stepped
    <3>3. /\ \A s \in Slot : s # r => dev'[s] = dev[s]
          /\ dev'[r].by = p /\ ~dev'[r].on
      BY <1>0, <2>0, <3>1 DEF Skeleton, NoDevice
    <3>4. Devices'
      BY <3>3 DEF AInv, Devices
    <3>5. LiveDevicesFound'
      <4>1. ASSUME NEW s \in Slot, dev'[s].on, s \notin RecordedSlots(log')
            PROVE  ~pr'[dev'[s].by].pushed \/ dev'[s].left # None
        <5>1. s # r /\ dev'[s] = dev[s] /\ log' = log
          BY <3>1, <3>3, <4>1
        <5>2. (~pr[dev[s].by].pushed \/ dev[s].left # None) /\ dev[s].by \in Proc
          BY <4>1, <5>1 DEF AInv, Devices, LiveDevicesFound
        <5> QED
          BY <3>2, <5>1, <5>2
      <4> QED
        BY <4>1 DEF LiveDevicesFound, RecordedSlots
    <3>6. Maker(p, pr[p])'
      BY <1>0, <2>0, <3>2, <3>3 DEF Maker, Unmade, Making
    <3>7. Commanded(pr[p])' /\ Sees(pr[p])' /\ Todo(p, pr[p])'
      BY <1>0, <2>0, <3>2 DEF Commanded, Sees, Todo, UpSteps, DownSteps, InSession
    <3>8. \A s \in Slot : dev'[s].by \in {dev[s].by, p, None}
      BY <3>3
    <3> QED
      BY <2>0, <3>2, <3>4, <3>5, <3>6, <3>7, <3>8, Combine DEF LInv
  <2> QED
    BY <2>1, <2>2
<1>2. CASE Commit(p)
  <2>0. p \in Running /\ pr[p].pc = "commit" /\ pr[p].slot \in Slot
    BY <1>0, <1>2 DEF Commit, At, Running, Over, SoundLocals, Picked
  <2> DEFINE r == pr[p].slot
  <2>1. /\ Goes(p, "push", pr[p]) /\ UNCHANGED <<log, met>>
        /\ dev[r].by = p
    BY <1>2 DEF Commit
  <2>2. PICK c \in Conn \ UsedConns :
          dev' = [dev EXCEPT ![r] = [dir |-> TRUE, on |-> TRUE, plug |-> TRUE, conn |-> c,
                                     by |-> p, left |-> None]]
    BY <1>2 DEF Commit
  <2>3. /\ \A q \in Proc : q # p => pr'[q] = pr[q]
        /\ pr'[p].pc = "push" /\ pr'[p].cmd = pr[p].cmd /\ pr'[p].pushed = pr[p].pushed
        /\ pr'[p].slot = r
    BY <1>0, <2>1, Stepped
  <2>4. /\ \A s \in Slot : s # r => dev'[s] = dev[s]
        /\ dev'[r].by = p /\ dev'[r].on /\ dev'[r].dir /\ dev'[r].conn = c
        /\ \A s \in Slot : dev[s].conn # c
    BY <1>0, <2>0, <2>2 DEF UsedConns
  <2>5. Devices'
    BY <2>4 DEF AInv, Devices
  <2>6. LiveDevicesFound'
    <3>1. ASSUME NEW s \in Slot, dev'[s].on, s \notin RecordedSlots(log')
          PROVE  ~pr'[dev'[s].by].pushed \/ dev'[s].left # None
      <4>1. CASE s = r
        BY <1>0, <2>0, <2>3, <2>4, <4>1 DEF Maker, Making
      <4>2. CASE s # r
        <5>1. dev'[s] = dev[s] /\ log' = log
          BY <2>1, <2>4, <4>2
        <5>2. (~pr[dev[s].by].pushed \/ dev[s].left # None) /\ dev[s].by \in Proc
          BY <3>1, <5>1 DEF AInv, Devices, LiveDevicesFound
        <5> QED
          BY <2>3, <5>1, <5>2
      <4> QED
        BY <4>1, <4>2
    <3> QED
      BY <3>1 DEF LiveDevicesFound, RecordedSlots
  <2>7. Maker(p, pr[p])'
    BY <1>0, <2>0, <2>3, <2>4 DEF Maker, Unmade, Making
  <2>8. Commanded(pr[p])' /\ Sees(pr[p])' /\ Todo(p, pr[p])'
    BY <1>0, <2>0, <2>3 DEF Commanded, Sees, Todo, UpSteps, DownSteps, InSession
  <2>9. \A s \in Slot : dev'[s].by \in {dev[s].by, p, None}
    BY <2>4
  <2> QED
    BY <2>0, <2>3, <2>5, <2>6, <2>7, <2>8, <2>9, Combine DEF LInv
<1>3. CASE Rollback(p)
  <2>1. /\ p \in Running /\ Exits(p, "err") /\ UNCHANGED log
        /\ Removes(p, pr[p].slot)
    BY <1>3 DEF Rollback, At, Running, Over
  <2>2. /\ \A q \in Proc : q # p => pr'[q] = pr[q]
        /\ pr'[p].pc = "exit" /\ pr'[p].pushed = pr[p].pushed
    BY <2>1, Exited
  <2>3. \A s \in Slot : /\ dev'[s].by \in {dev[s].by, None}
                        /\ dev'[s].on => /\ dev[s].on /\ dev'[s].by = dev[s].by
                                         /\ dev'[s].conn = dev[s].conn /\ dev'[s].dir
                                         /\ dev'[s].left \in {dev[s].left, p}
    BY <2>1, RemoveFewer
  <2> QED
    BY <2>1, <2>2, <2>3, OverHolds, Fewer
<1> QED
  BY <1>1, <1>2, <1>3

(* What the store's operations do to the devices on record.                *)
LEMMA PushedIds ==
    ASSUME NEW st \in Seq(RecordType), NEW r
    PROVE  RecordedSlots(Pushed(st, r)) = RecordedSlots(st) \cup {r.id}
<1>1. /\ Len(Pushed(st, r)) = Len(st) + 1 /\ Len(st) \in Nat
      /\ \A i \in 1..Len(st) : Pushed(st, r)[i] = st[i]
      /\ Pushed(st, r)[Len(st) + 1] = r
  BY DEF Pushed
<1>2. 1..Len(Pushed(st, r)) = 1..Len(st) \cup {Len(st) + 1}
  BY <1>1
<1> QED
  BY <1>1, <1>2 DEF RecordedSlots

LEMMA ReplacedFields ==
    ASSUME NEW st \in Seq(RecordType), NEW id, NEW r
    PROVE  /\ Len(Replaced(st, id, r)) = Len(st)
           /\ \A i \in 1..Len(st) :
                 Replaced(st, id, r)[i] =
                    IF Matches(st, id) # {} /\ i = Newest(st, id) THEN r ELSE st[i]
<1>1. st = [i \in 1..Len(st) |-> st[i]] /\ Len(st) \in Nat
  OBVIOUS
<1>2. CASE Matches(st, id) = {}
  BY <1>2 DEF Replaced
<1>3. CASE Matches(st, id) # {}
  <2> DEFINE n == Newest(st, id)
             t == [i \in 1..Len(st) |-> IF i = n THEN r ELSE st[i]]
  <2>1. Replaced(st, id, r) = t
    BY <1>1, <1>3 DEF Replaced
  <2>2. DOMAIN t = 1..Len(st)
    OBVIOUS
  <2>3. t \in Seq({st[i] : i \in 1..Len(st)} \cup {r})
    BY <1>1
  <2>4. Len(t) = Len(st)
    BY <1>1, <2>2, <2>3
  <2> QED
    BY <1>3, <2>1, <2>4
<1> QED
  BY <1>2, <1>3

LEMMA ReplacedIds ==
    ASSUME NEW st \in Seq(RecordType), NEW id, NEW r, r.id = st[Newest(st, id)].id
    PROVE  RecordedSlots(Replaced(st, id, r)) = RecordedSlots(st)
<1> DEFINE t == Replaced(st, id, r)
<1>1. Len(t) = Len(st) /\ \A i \in 1..Len(st) : t[i].id = st[i].id
  BY ReplacedFields
<1> HIDE DEF t
<1>2. RecordedSlots(t) = RecordedSlots(st)
  BY <1>1 DEF RecordedSlots
<1> QED
  BY <1>2 DEF t

LEMMA LogGrows ==
    ASSUME AInv, NEW p \in Proc, p \in Running, \A q \in Proc : q # p => pr'[q] = pr[q],
           UNCHANGED dev, RecordedSlots(log) \subseteq RecordedSlots(log'), LInv(p)',
           \/ pr'[p].pushed = pr[p].pushed
           \/ \A s \in Slot : dev[s].by = p => s \in RecordedSlots(log')
    PROVE  AInv'
<1>1. Devices'
  BY DEF AInv, Devices
<1>2. LiveDevicesFound'
  <2>1. ASSUME NEW s \in Slot, dev'[s].on, s \notin RecordedSlots(log')
        PROVE  ~pr'[dev'[s].by].pushed \/ dev'[s].left # None
    <3>1. (~pr[dev[s].by].pushed \/ dev[s].left # None) /\ dev[s].by \in Proc
      BY <2>1 DEF AInv, Devices, LiveDevicesFound
    <3> QED
      BY <2>1, <3>1
  <2> QED
    BY <2>1 DEF LiveDevicesFound, RecordedSlots
<1>3. \A s \in Slot : dev'[s].by = dev[s].by
  OBVIOUS
<1> QED
  BY <1>1, <1>2, <1>3, Combine

LEMMA RecordA ==
    ASSUME IInv, AInv, NEW p \in Proc, Push(p) \/ NameHead(p) \/ Record(p)
    PROVE  AInv'
<1>0. /\ DOMAIN pr[p] = LocalNames /\ Commanded(pr[p]) /\ Maker(p, pr[p])
      /\ log \in Seq(RecordType)
  BY LocalsNamed, InvImplies DEF AInv, LInv, TypeOK
<1>1. CASE Push(p)
  <2> DEFINE r == pr[p].slot
  <2>0. p \in Running /\ pr[p].pc = "push" /\ UNCHANGED dev
    BY <1>1 DEF Push, At, Running, Over
  <2>1. RecordedSlots(log') = RecordedSlots(log) \cup {r}
    <3>1. InstanceRecord(p).id = r /\ log' = Pushed(log, InstanceRecord(p))
      BY <1>1 DEF Push, InstanceRecord
    <3> QED
      BY <1>0, <3>1, PushedIds
  <2>2. \A s \in Slot : dev[s].by = p => s \in RecordedSlots(log')
    BY <1>0, <2>0, <2>1 DEF Maker, Making
  <2>3. CASE pr[p].cmd.sess
    <3> DEFINE l == [pr[p] EXCEPT !.pushed = TRUE]
    <3>1. DOMAIN l = LocalNames /\ l.cmd = pr[p].cmd
      BY <1>0 DEF LocalNames, Fresh
    <3>2. Goes(p, "claim", l)
      BY <1>1, <2>3 DEF Push
    <3> HIDE DEF l
    <3>3. /\ \A q \in Proc : q # p => pr'[q] = pr[q]
          /\ pr'[p].pc = "claim" /\ pr'[p].cmd = pr[p].cmd
      BY <3>1, <3>2, Stepped
    <3>4. LInv(p)'
      BY <1>0, <2>0, <2>3, <3>3
         DEF LInv, Maker, Unmade, Making, Commanded, Sees, Todo, UpSteps, DownSteps, InSession
    <3> QED
      BY <2>0, <2>1, <2>2, <3>3, <3>4, LogGrows
  <2>4. CASE ~pr[p].cmd.sess
    <3> DEFINE l == [Fresh EXCEPT !.out = "ok", !.pushed = TRUE]
    <3>1. DOMAIN l = LocalNames
      BY DEF LocalNames, Fresh
    <3>2. Goes(p, "exit", l)
      BY <1>1, <2>4 DEF Push
    <3> HIDE DEF l
    <3>3. \A q \in Proc : q # p => pr'[q] = pr[q] /\ pr'[p].pc = "exit"
      BY <3>1, <3>2, Stepped
    <3>4. pr'[p].pc = "exit"
      BY <3>1, <3>2, Stepped
    <3> QED
      BY <2>0, <2>1, <2>2, <3>3, <3>4, OverHolds, LogGrows
  <2> QED
    BY <2>3, <2>4
<1>2. CASE NameHead(p)
  <2> DEFINE r == [Found(pr[p].slot) EXCEPT !.head = pr[p].head]
  <2>0. /\ p \in Running /\ pr[p].pc = "name" /\ UNCHANGED dev
        /\ Goes(p, "enable", pr[p]) /\ log' = Replaced(log, pr[p].slot, r)
    BY <1>2 DEF NameHead, Updates, At, Running, Over
  <2>1. r.id = log[Newest(log, pr[p].slot)].id
    BY DEF Found
  <2> HIDE DEF r
  <2>2. RecordedSlots(log') = RecordedSlots(log)
    BY <1>0, <2>0, <2>1, ReplacedIds
  <2>3. /\ \A q \in Proc : q # p => pr'[q] = pr[q]
        /\ pr'[p].pc = "enable" /\ pr'[p].cmd = pr[p].cmd /\ pr'[p].pushed = pr[p].pushed
    BY <1>0, <2>0, Stepped
  <2>4. LInv(p)'
    BY <1>0, <2>0, <2>3
       DEF LInv, Maker, Unmade, Making, Commanded, Sees, Todo, UpSteps, DownSteps, InSession
  <2> QED
    BY <2>0, <2>2, <2>3, <2>4, LogGrows
<1>3. CASE Record(p)
  <2> DEFINE r == [Found(pr[p].slot) EXCEPT !.dis = pr[p].dis, !.prev = pr[p].prev]
  <2>0. /\ p \in Running /\ UNCHANGED dev
        /\ Exits(p, "ok") /\ log' = Replaced(log, pr[p].slot, r)
    BY <1>3 DEF Record, Updates, At, Running, Over
  <2>1. r.id = log[Newest(log, pr[p].slot)].id
    BY DEF Found
  <2> HIDE DEF r
  <2>2. RecordedSlots(log') = RecordedSlots(log)
    BY <1>0, <2>0, <2>1, ReplacedIds
  <2>3. /\ \A q \in Proc : q # p => pr'[q] = pr[q]
        /\ pr'[p].pc = "exit" /\ pr'[p].pushed = pr[p].pushed
    BY <2>0, Exited
  <2> QED
    BY <2>0, <2>2, <2>3, OverHolds, LogGrows
<1> QED
  BY <1>1, <1>2, <1>3

-----------------------------------------------------------------------------
(* down and reset.                                                         *)

(* A step that leaves the devices and the records alone.                   *)
LEMMA DownMoves ==
    ASSUME IInv, AInv, NEW p \in Proc, NEW pc \in DownSteps \ {"load"}, NEW l,
           DOMAIN l = LocalNames, Goes(p, pc, l),
           l.cmd = pr[p].cmd, l.pushed = pr[p].pushed, l.st \in {pr[p].st, log},
           pr[p].pc \in DownSteps, l.st = log \/ pr[p].pc # "load" \/ pr[p].cmd.op = "reset",
           UNCHANGED <<dev, log>>, pc = "sweep" => pr[p].cmd.op = "reset",
           pc \in InSession => pr[p].cmd.sess, Todo(p, pr[p])'
    PROVE  AInv'
<1>1. /\ \A q \in Proc : q # p => pr'[q] = pr[q]
      /\ pr'[p].pc = pc /\ pr'[p].cmd = pr[p].cmd /\ pr'[p].pushed = pr[p].pushed
      /\ pr'[p].st = l.st
  BY Stepped
<1>2. Commanded(pr[p]) /\ Sees(pr[p])
  BY DEF AInv, LInv
<1>3. p \in Running
  BY DEF Running, Over, DownSteps
<1>4. Maker(p, pr[p])'
  BY <1>1 DEF Maker, Unmade, Making, DownSteps
<1>5. Commanded(pr[p])'
  BY <1>1, <1>2 DEF Commanded, UpSteps, DownSteps
<1>6. Sees(pr[p])'
  BY <1>1, <1>2 DEF Sees
<1> QED
  BY <1>1, <1>3, <1>4, <1>5, <1>6, Quiet DEF LInv

LEMMA RecordedAreSlots ==
    ASSUME NEW st \in Seq(RecordType)
    PROVE  RecordedSlots(st) \subseteq Slot
<1>1. \A i \in 1..Len(st) : st[i] \in RecordType
  OBVIOUS
<1> QED
  BY <1>1 DEF RecordedSlots, RecordType

(* Newest first, but every one.                                            *)
LEMMA NewestFirstLists ==
    ASSUME NEW st \in Seq(RecordType)
    PROVE  /\ \A s \in RecordedSlots(st) : Lists(NewestFirst(st), s)
           /\ \A i \in 1..Len(NewestFirst(st)) : NewestFirst(st)[i] \in RecordedSlots(st)
<1> DEFINE n == Len(st)
           f == NewestFirst(st)
<1>1. n \in Nat /\ \A i \in 1..n : n + 1 - i \in 1..n /\ n + 1 - (n + 1 - i) = i
  OBVIOUS
<1>2. \A i \in 1..n : st[i].id \in Slot
  <2>1. \A i \in 1..n : st[i] \in RecordType
    OBVIOUS
  <2> QED
    BY <2>1 DEF RecordType
<1>3. f = [i \in 1..n |-> st[n + 1 - i].id]
  BY DEF NewestFirst
<1> HIDE DEF f, n
<1>4. f \in [1..n -> Slot]
  BY <1>1, <1>2, <1>3
<1>5. f \in Seq(Slot) /\ Len(f) = n
  BY <1>1, <1>4
<1>6. RecordedSlots(st) = {st[i].id : i \in 1..n}
  BY DEF RecordedSlots, n
<1>7. ASSUME NEW i \in 1..n PROVE \E j \in 1..n : f[j] = st[i].id
  <2>1. n + 1 - i \in 1..n /\ f[n + 1 - i] = st[i].id
    BY <1>1, <1>3
  <2> QED
    BY <2>1
<1>8. \A i \in 1..n : f[i] \in RecordedSlots(st)
  BY <1>1, <1>3, <1>6
<1>9. \A s \in RecordedSlots(st) : Lists(f, s)
  BY <1>5, <1>6, <1>7 DEF Lists
<1> QED
  BY <1>5, <1>8, <1>9 DEF f

LEMMA TailLists ==
    ASSUME NEW T, NEW f \in Seq(T), f # << >>
    PROVE  /\ \A s : Lists(f, s) /\ s # Head(f) => Lists(Tail(f), s)
           /\ \A i \in 1..Len(Tail(f)) : \E j \in 1..Len(f) : Tail(f)[i] = f[j]
<1>1. /\ Len(f) \in Nat \ {0} /\ Len(Tail(f)) = Len(f) - 1 /\ Head(f) = f[1]
      /\ \A i \in 1..Len(Tail(f)) : Tail(f)[i] = f[i + 1]
  OBVIOUS
<1>2. ASSUME NEW s, NEW i \in 1..Len(f), f[i] = s, s # Head(f)
      PROVE  Lists(Tail(f), s)
  <2>1. i - 1 \in 1..Len(Tail(f)) /\ Tail(f)[i - 1] = s
    BY <1>1, <1>2
  <2> QED
    BY <2>1 DEF Lists
<1>3. ASSUME NEW i \in 1..Len(Tail(f)) PROVE \E j \in 1..Len(f) : Tail(f)[i] = f[j]
  <2>1. i + 1 \in 1..Len(f) /\ Tail(f)[i] = f[i + 1]
    BY <1>1
  <2> QED
    BY <2>1
<1> QED
  BY <1>2, <1>3 DEF Lists

(* A listing has every directory that can be read.                         *)
LEMMA ListingsList ==
    ASSUME NEW S \in SUBSET Listed, NEW f \in Listings(S), NEW s \in S
    PROVE  Lists(f, s)
<1> DEFINE n == Cardinality(S)
<1>1. IsFiniteSet(S) /\ n \in Nat
  BY SlotsAreNat, FS_Subset, FS_CardinalityType DEF Listed
<1>2. f \in [1..n -> S] /\ \A i, j \in DOMAIN f : f[i] = f[j] => i = j
  BY DEF Listings
<1>3. Cardinality(1..n) = n
  BY <1>1, FS_Interval
<1> HIDE DEF n
<1>4. f \in Injection(1..n, S)
  BY <1>2 DEF Injection, IsInjective
<1>5. f \in Surjection(1..n, S)
  BY <1>1, <1>3, <1>4, FS_Injection DEF n
<1>6. Len(f) = n
  BY <1>1, <1>2
<1> QED
  BY <1>5, <1>6 DEF Surjection, Lists

LEMMA DownQuietA ==
    ASSUME IInv, AInv, NEW p \in Proc,
           \/ Load(p) \/ LoadFails(p) \/ Restore(p) \/ RestoreFails(p) \/ RestoreNothing(p)
           \/ Plugs(p) \/ Gone(p) \/ GoneTimeout(p) \/ DisconnectFails(p) \/ Swept(p)
           \/ SweepOver(p) \/ ClearFails(p)
    PROVE  AInv'
<1>0. /\ DOMAIN pr[p] = LocalNames /\ Commanded(pr[p]) /\ Sees(pr[p]) /\ Todo(p, pr[p])
      /\ pr[p].st \in Seq(RecordType)
  BY LocalsNamed, InvImplies DEF AInv, LInv, TypeOK, LocalsType
<1> DEFINE Moved(l) ==
        /\ DOMAIN l = LocalNames /\ l.cmd = pr[p].cmd /\ l.pushed = pr[p].pushed
        /\ l.st = pr[p].st
<1>a. ASSUME NEW pc \in DownSteps \ {"load"}, NEW l, Moved(l), Goes(p, pc, l),
             pr[p].pc \in DownSteps, pr[p].pc # "load" \/ pr[p].cmd.op = "reset",
             UNCHANGED <<dev, log>>, pc = "sweep" => pr[p].cmd.op = "reset",
             pc \in InSession => pr[p].cmd.sess, Todo(p, pr[p])'
      PROVE  AInv'
  BY <1>a, DownMoves
<1>1. CASE Load(p)
  <2> DEFINE l == [pr[p] EXCEPT !.st = log, !.restored = log = EmptyState]
             pc == AfterLoad(p, log)
  <2>1. DOMAIN l = LocalNames /\ l.cmd = pr[p].cmd /\ l.pushed = pr[p].pushed /\ l.st = log
    BY <1>0 DEF LocalNames, Fresh
  <2>2. Goes(p, pc, l) /\ pr[p].pc = "load" /\ UNCHANGED <<dev, log>>
    BY <1>1 DEF Load, At
  <2>3. pc \in {"restore", "plugs"} /\ (pc = "restore" => pr[p].cmd.sess)
    BY DEF AfterLoad
  <2> HIDE DEF l, pc
  <2>4. pr'[p].pc = pc
    BY <2>1, <2>2, Stepped
  <2>5. Todo(p, pr[p])'
    BY <2>3, <2>4 DEF Todo
  <2> QED
    BY <2>1, <2>2, <2>3, <2>5, DownMoves DEF DownSteps, InSession
<1>2. CASE LoadFails(p)
  <2>1. CASE pr[p].cmd.op = "reset"
    <3>1. Goes(p, "plugs", pr[p]) /\ pr[p].pc = "load" /\ UNCHANGED <<dev, log>>
      BY <1>2, <2>1 DEF LoadFails, At
    <3>2. pr'[p].pc = "plugs"
      BY <1>0, <3>1, Stepped
    <3>3. Todo(p, pr[p])'
      BY <3>2 DEF Todo
    <3> QED
      BY <1>0, <1>a, <2>1, <3>1, <3>3 DEF DownSteps, InSession
  <2>2. CASE pr[p].cmd.op # "reset"
    BY <1>2, <2>2, QuietExit DEF LoadFails, Running, Over, At
  <2> QED
    BY <2>1, <2>2
<1>3. CASE Restore(p)
  <2> DEFINE l == [pr[p] EXCEPT !.restored = AfterRestore(p) = "plugs"]
             pc == AfterRestore(p)
  <2>1. Moved(l)
    BY <1>0 DEF LocalNames, Fresh
  <2>2. /\ Goes(p, pc, l) /\ pr[p].pc \in {"restore", "restore2"} /\ UNCHANGED <<dev, log>>
        /\ pc \in {"restore2", "plugs"}
    BY <1>3 DEF Restore, AfterRestore
  <2> HIDE DEF l, pc
  <2>3. pr'[p].pc = pc
    BY <2>1, <2>2, Stepped
  <2>4. Todo(p, pr[p])'
    BY <2>2, <2>3 DEF Todo
  <2> QED
    BY <1>0, <1>a, <2>1, <2>2, <2>4 DEF DownSteps, InSession, Commanded
<1>4. CASE RestoreFails(p)
  <2>1. Goes(p, "plugs", pr[p]) /\ pr[p].pc \in {"restore", "restore2"} /\ UNCHANGED <<dev, log>>
    BY <1>4 DEF RestoreFails
  <2>2. pr'[p].pc = "plugs"
    BY <1>0, <2>1, Stepped
  <2>3. Todo(p, pr[p])'
    BY <2>2 DEF Todo
  <2> QED
    BY <1>0, <1>a, <2>1, <2>3 DEF DownSteps, InSession
<1>5. CASE RestoreNothing(p)
  <2> DEFINE l == [pr[p] EXCEPT !.restored = TRUE]
  <2>1. Moved(l)
    BY <1>0 DEF LocalNames, Fresh
  <2>2. Goes(p, "plugs", l) /\ pr[p].pc = "restore" /\ UNCHANGED <<dev, log>>
    BY <1>5 DEF RestoreNothing, At
  <2> HIDE DEF l
  <2>3. pr'[p].pc = "plugs"
    BY <2>1, <2>2, Stepped
  <2>4. Todo(p, pr[p])'
    BY <2>3 DEF Todo
  <2> QED
    BY <1>0, <1>a, <2>1, <2>2, <2>4 DEF DownSteps, InSession
<1>6. CASE Plugs(p)
  <2> DEFINE f == NewestFirst(pr[p].st)
  <2>0. PICK handles, names, missed :
          Goes(p, "unplug", [pr[p] EXCEPT !.handles = handles, !.names = names,
                                          !.todo = f, !.missed = missed])
    BY <1>6 DEF Plugs
  <2> DEFINE l == [pr[p] EXCEPT !.handles = handles, !.names = names,
                                !.todo = f, !.missed = missed]
  <2>1. Moved(l) /\ l.todo = f
    BY <1>0 DEF LocalNames, Fresh
  <2>2. Goes(p, "unplug", l) /\ pr[p].pc = "plugs" /\ UNCHANGED <<dev, log>>
    BY <1>6, <2>0 DEF Plugs, At
  <2> HIDE DEF l
  <2>3. pr'[p].pc = "unplug" /\ pr'[p].todo = f /\ pr'[p].st = pr[p].st
    BY <2>1, <2>2, Stepped
  <2>4. /\ \A s \in RecordedSlots(pr[p].st) : Lists(f, s)
        /\ \A i \in 1..Len(f) : f[i] \in RecordedSlots(pr[p].st)
    BY <1>0, NewestFirstLists
  <2> HIDE DEF f
  <2>5. RecordedSlots(pr'[p].st) = RecordedSlots(pr[p].st)
    BY <2>3
  <2>6. Todo(p, pr[p])'
    BY <2>3, <2>4, <2>5 DEF Todo, Lists, RecordedSlots
  <2> QED
    BY <1>0, <1>a, <2>1, <2>2, <2>6 DEF DownSteps, InSession
<1>7. CASE Gone(p)
  <2> DEFINE l == [pr[p] EXCEPT !.names = {}]
  <2>1. Moved(l) /\ l.todo = pr[p].todo
    BY <1>0 DEF LocalNames, Fresh
  <2>2. Goes(p, "destroy", l) /\ pr[p].pc = "gone" /\ UNCHANGED <<dev, log>>
    BY <1>7 DEF Gone, At
  <2> HIDE DEF l
  <2>3. pr'[p].pc = "destroy" /\ pr'[p].todo = pr[p].todo /\ pr'[p].st = pr[p].st
    BY <2>1, <2>2, Stepped
  <2>4. Todo(p, pr[p])'
    BY <1>0, <2>2, <2>3 DEF Todo, Lists, RecordedSlots
  <2> QED
    BY <1>0, <1>a, <2>1, <2>2, <2>4 DEF DownSteps, InSession
<1>8. CASE GoneTimeout(p)
  BY <1>8, QuietExit DEF GoneTimeout, Running, Over, At
<1>9. CASE DisconnectFails(p)
  <2>1. p \in Running /\ Exits(p, "err") /\ UNCHANGED log
    BY <1>9 DEF DisconnectFails, At, Running, Over
  <2>2. /\ \A q \in Proc : q # p => pr'[q] = pr[q]
        /\ pr'[p].pc = "exit" /\ pr'[p].pushed = pr[p].pushed
    BY <2>1, Exited
  <2>3. \A s \in Slot : /\ dev'[s].by = dev[s].by /\ dev'[s].on = dev[s].on
                        /\ dev'[s].conn = dev[s].conn /\ dev'[s].dir = dev[s].dir
                        /\ dev'[s].left = dev[s].left
    BY <1>9, DisconnectedTyped DEF DisconnectFails
  <2>4. \A s \in Slot : dev[s].on => dev[s].dir
    BY DEF AInv, Devices
  <2> QED
    BY <2>1, <2>2, <2>3, <2>4, OverHolds, Fewer
<1>10. CASE Swept(p)
  <2>0. pr[p].pc = "destroy" /\ p \in Running /\ pr[p].todo = << >> /\ UNCHANGED log
    BY <1>10 DEF Swept, At, Running, Over
  <2>1. CASE pr[p].cmd.op = "reset"
    <3>1. PICK S \in SUBSET Listed :
              /\ \E order \in Listings(S) : Goes(p, "sweep", [pr[p] EXCEPT !.todo = order])
              /\ dev' = [s \in Slot |-> IF s \in Listed \ S
                                       THEN [dev[s] EXCEPT !.left = p] ELSE dev[s]]
      BY <1>10, <2>1 DEF Swept
    <3>2. PICK order \in Listings(S) : Goes(p, "sweep", [pr[p] EXCEPT !.todo = order])
      BY <3>1
    <3> DEFINE l == [pr[p] EXCEPT !.todo = order]
    <3>3. Moved(l) /\ l.todo = order /\ Goes(p, "sweep", l)
      BY <1>0, <3>2 DEF LocalNames, Fresh
    <3> HIDE DEF l
    <3>4. /\ \A q \in Proc : q # p => pr'[q] = pr[q]
          /\ pr'[p].pc = "sweep" /\ pr'[p].todo = order /\ pr'[p].cmd = pr[p].cmd
          /\ pr'[p].pushed = pr[p].pushed /\ pr'[p].st = pr[p].st
      BY <3>3, Stepped
    <3>5. \A s \in Slot : /\ dev'[s].on = dev[s].on /\ dev'[s].conn = dev[s].conn
                          /\ dev'[s].dir = dev[s].dir /\ dev'[s].by = dev[s].by
                          /\ dev'[s].left = dev[s].left \/ dev'[s].left = p
      BY <1>10, SweptMarks
    <3>6. ASSUME NEW s \in Listed' PROVE Lists(order, s) \/ dev'[s].left = p
      <4>1. s \in Slot /\ s \in Listed
        BY <3>5, <3>6 DEF Listed
      <4>2. CASE s \in S
        BY <4>2, ListingsList
      <4>3. CASE s \notin S
        <5>1. dev'[s] = [dev[s] EXCEPT !.left = p] /\ dev[s] \in DeviceType
          BY <3>1, <4>1, <4>3 DEF IInv, DevSound
        <5> QED
          BY <5>1 DEF DeviceType
      <4> QED
        BY <4>2, <4>3
    <3>7. Todo(p, pr[p])'
      BY <3>4, <3>6 DEF Todo, Lists
    <3>8. Maker(p, pr[p])' /\ Commanded(pr[p])' /\ Sees(pr[p])'
      BY <1>0, <2>0, <2>1, <3>4
         DEF Maker, Unmade, Making, Commanded, Sees, UpSteps, DownSteps, InSession
    <3>9. LInv(p)'
      BY <3>7, <3>8 DEF LInv
    <3>10. \A s \in Slot : dev[s].on => dev[s].dir
      BY DEF AInv, Devices
    <3> QED
      BY <2>0, <3>4, <3>5, <3>9, <3>10, Fewer
  <2>2. CASE pr[p].cmd.op # "reset"
    <3>1. Goes(p, "clear", pr[p]) /\ UNCHANGED dev
      BY <1>10, <2>2 DEF Swept
    <3>2. /\ pr'[p].pc = "clear" /\ pr'[p].cmd = pr[p].cmd /\ pr'[p].st = pr[p].st
      BY <1>0, <3>1, Stepped
    <3>3. \A s \in RecordedSlots(pr[p].st) : dev[s].on => dev[s].left = p
      BY <1>0, <2>0 DEF Todo, Lists
    <3>4. Todo(p, pr[p])'
      BY <2>2, <3>1, <3>2, <3>3 DEF Todo, RecordedSlots
    <3> QED
      BY <1>0, <1>a, <2>0, <3>1, <3>4 DEF DownSteps, InSession
  <2> QED
    BY <2>1, <2>2
<1>11. CASE SweepOver(p)
  <2>1. /\ pr[p].pc = "sweep" /\ pr[p].todo = << >> /\ UNCHANGED <<dev, log, met>>
        /\ Goes(p, "clear", pr[p])
    BY <1>11 DEF SweepOver, At
  <2>2. pr'[p].pc = "clear" /\ pr'[p].cmd = pr[p].cmd
    BY <1>0, <2>1, Stepped
  <2>3. pr[p].cmd.op = "reset" /\ \A s \in Listed : dev[s].left = p
    BY <1>0, <2>1 DEF Commanded, Todo, Lists
  <2>4. Todo(p, pr[p])'
    BY <2>1, <2>2, <2>3 DEF Todo, Listed
  <2> QED
    BY <1>0, <1>a, <2>1, <2>4 DEF DownSteps, InSession
<1>12. CASE ClearFails(p)
  BY <1>12, QuietExit DEF ClearFails, Running, Over, At
<1> QED
  BY <1>1, <1>2, <1>3, <1>4, <1>5, <1>6, <1>7, <1>8, <1>9, <1>10, <1>11, <1>12

LEMMA DestroyA ==
    ASSUME IInv, AInv, NEW p \in Proc, Destroy(p) \/ Unplug(p)
    PROVE  AInv'
<1>0. /\ DOMAIN pr[p] = LocalNames /\ Commanded(pr[p]) /\ Sees(pr[p]) /\ Todo(p, pr[p])
      /\ pr[p].st \in Seq(RecordType) /\ pr[p].todo \in Seq(Slot) /\ DOMAIN dev = Slot
      /\ \A s \in Slot : dev[s].on => dev[s].dir
  BY LocalsNamed, InvImplies DEF AInv, LInv, TypeOK, LocalsType, Devices
<1>1. CASE Destroy(p)
  <2> DEFINE r == Head(pr[p].todo)
             l == [pr[p] EXCEPT !.todo = Tail(pr[p].todo)]
             pc == pr[p].pc
  <2>1. /\ p \in Running /\ pc \in {"destroy", "sweep"} /\ pr[p].todo # << >> /\ UNCHANGED log
        /\ Goes(p, pc, l)
    BY <1>1 DEF Destroy, Running, Over
  <2>2. /\ DOMAIN l = LocalNames /\ l.cmd = pr[p].cmd /\ l.pushed = pr[p].pushed
        /\ l.st = pr[p].st /\ l.todo = Tail(pr[p].todo)
    BY <1>0 DEF LocalNames, Fresh
  <2>3. Removes(p, r)
    BY <1>1 DEF Destroy
  <2> HIDE DEF l, pc
  <2>4. /\ \A q \in Proc : q # p => pr'[q] = pr[q]
        /\ pr'[p].pc = pc /\ pr'[p].cmd = pr[p].cmd /\ pr'[p].pushed = pr[p].pushed
        /\ pr'[p].st = pr[p].st /\ pr'[p].todo = Tail(pr[p].todo)
    BY <2>1, <2>2, Stepped
  <2>5. r \in Slot
    BY <1>0, <2>1
  <2> HIDE DEF r
  <2>6. \A s \in Slot : s # r => dev'[s] = dev[s]
    BY <2>3, RemoveLeaves
  <2>7. dev'[r].dir => dev[r].dir /\ dev'[r].left = p
    <3>1. ~NoDevice.dir
      BY DEF NoDevice
    <3> QED
      BY <2>3, <2>5, <3>1, RemoveLeaves
  <2>8. \A s \in Slot : /\ dev'[s].by \in {dev[s].by, None}
                        /\ dev'[s].on => /\ dev[s].on /\ dev'[s].by = dev[s].by
                                         /\ dev'[s].conn = dev[s].conn /\ dev'[s].dir
                                         /\ dev'[s].left \in {dev[s].left, p}
    BY <2>3, RemoveFewer
  <2>9. \A s : Lists(pr[p].todo, s) /\ s # r => Lists(pr'[p].todo, s)
    BY <1>0, <2>1, <2>4, TailLists DEF r
  <2>10. \A i \in 1..Len(pr'[p].todo) : \E j \in 1..Len(pr[p].todo) : pr'[p].todo[i] = pr[p].todo[j]
    BY <1>0, <2>1, <2>4, TailLists
  <2>11. Maker(p, pr[p])'
    BY <2>1, <2>4 DEF Maker, Unmade, Making, pc
  <2>12. Commanded(pr[p])' /\ Sees(pr[p])'
    BY <1>0, <2>1, <2>4 DEF Commanded, Sees, pc
  <2>13. Todo(p, pr[p])'
    <3>1. RecordedSlots(pr'[p].st) = RecordedSlots(pr[p].st)
      BY <2>4
    <3>2. CASE pc = "destroy"
      <4>0. pr[p].pc = "destroy" /\ pr'[p].pc = "destroy"
        BY <2>4, <3>2 DEF pc
      <4>a. RecordedSlots(pr[p].st) \subseteq Slot
        BY <1>0, RecordedAreSlots
      <4>1. ASSUME NEW s \in RecordedSlots(pr'[p].st), dev'[s].on
            PROVE  Lists(pr'[p].todo, s) \/ dev'[s].left = p
        <5>0. s \in Slot /\ dev[s].on /\ dev'[s].dir
          BY <2>8, <3>1, <4>a, <4>1
        <5>1. Lists(pr[p].todo, s) \/ dev[s].left = p
          BY <1>0, <3>1, <4>0, <4>1, <5>0 DEF Todo
        <5>2. CASE s = r
          BY <2>7, <5>0, <5>2
        <5>3. CASE s # r
          BY <2>6, <2>9, <5>0, <5>1, <5>3
        <5> QED
          BY <5>2, <5>3
      <4>2. \A i \in 1..Len(pr'[p].todo) : pr'[p].todo[i] \in RecordedSlots(pr'[p].st)
        <5>1. \A i \in 1..Len(pr[p].todo) : pr[p].todo[i] \in RecordedSlots(pr[p].st)
          BY <1>0, <4>0 DEF Todo
        <5> QED
          BY <2>10, <3>1, <5>1
      <4> QED
        BY <4>0, <4>1, <4>2 DEF Todo, Lists, RecordedSlots
    <3>3. CASE pc = "sweep"
      <4>0. pr[p].pc = "sweep" /\ pr'[p].pc = "sweep"
        BY <2>4, <3>3 DEF pc
      <4>1. ASSUME NEW s \in Listed' PROVE Lists(pr'[p].todo, s) \/ dev'[s].left = p
        <5>0. s \in Slot /\ dev'[s].dir
          BY <4>1 DEF Listed
        <5>1. CASE s = r
          BY <2>7, <5>0, <5>1
        <5>2. CASE s # r
          <6>1. dev'[s] = dev[s] /\ s \in Listed
            BY <2>6, <5>0, <5>2 DEF Listed
          <6>2. Lists(pr[p].todo, s) \/ dev[s].left = p
            BY <1>0, <4>0, <6>1 DEF Todo
          <6> QED
            BY <2>9, <5>2, <6>1, <6>2
        <5> QED
          BY <5>1, <5>2
      <4> QED
        BY <4>0, <4>1 DEF Todo, Lists
    <3> QED
      BY <2>1, <3>2, <3>3
  <2>14. LInv(p)'
    BY <2>11, <2>12, <2>13 DEF LInv
  <2> QED
    BY <2>1, <2>4, <2>8, <2>14, Fewer
<1>2. CASE Unplug(p)
  <2>0. pr[p].pc = "unplug" /\ p \in Running /\ UNCHANGED <<log, met>>
    BY <1>2 DEF Unplug, At, Running, Over
  <2>1. \A s \in Slot : /\ dev'[s].by = dev[s].by /\ dev'[s].on = dev[s].on
                        /\ dev'[s].conn = dev[s].conn /\ dev'[s].dir = dev[s].dir
                        /\ dev'[s].left = dev[s].left
    BY <1>2, DisconnectedTyped DEF Unplug
  <2> DEFINE Onward(pc, names) ==
                /\ pc \in {"gone", "destroy"}
                /\ Goes(p, pc, [pr[p] EXCEPT !.handles = {}, !.names = names])
                /\ pc = "gone" => pr[p].cmd.sess
  <2>a. PICK pc, names : Onward(pc, names)
    <3> DEFINE l == [pr[p] EXCEPT !.handles = {}]
    <3>1. /\ l.names = pr[p].names /\ l.cmd = pr[p].cmd
          /\ l = [pr[p] EXCEPT !.handles = {}, !.names = pr[p].names]
          /\ [l EXCEPT !.names = {}] = [pr[p] EXCEPT !.handles = {}, !.names = {}]
      BY <1>0 DEF LocalNames, Fresh
    <3>2. IF l.cmd.sess /\ l.names # {} THEN Goes(p, "gone", l)
                                        ELSE Goes(p, "destroy", [l EXCEPT !.names = {}])
      BY <1>2 DEF Unplug
    <3>3. CASE l.cmd.sess /\ l.names # {}
      <4>1. Goes(p, "gone", [pr[p] EXCEPT !.handles = {}, !.names = pr[p].names])
        BY <3>1, <3>2, <3>3
      <4>2. pr[p].cmd.sess
        BY <3>1, <3>3
      <4>3. Onward("gone", pr[p].names)
        BY <4>1, <4>2
      <4> HIDE DEF Onward
      <4> QED
        BY <4>3
    <3>4. CASE ~(l.cmd.sess /\ l.names # {})
      <4>1. Goes(p, "destroy", [pr[p] EXCEPT !.handles = {}, !.names = {}])
        BY <3>1, <3>2, <3>4
      <4>2. Onward("destroy", {})
        BY <4>1
      <4> HIDE DEF Onward
      <4> QED
        BY <4>2
    <3> HIDE DEF Onward
    <3> QED
      BY <3>3, <3>4
  <2>2. /\ pc \in {"gone", "destroy"}
        /\ Goes(p, pc, [pr[p] EXCEPT !.handles = {}, !.names = names])
        /\ pc = "gone" => pr[p].cmd.sess
    BY <2>a
  <2> HIDE DEF Onward
  <2> DEFINE l == [pr[p] EXCEPT !.handles = {}, !.names = names]
  <2>3. /\ DOMAIN l = LocalNames /\ l.cmd = pr[p].cmd /\ l.pushed = pr[p].pushed
        /\ l.st = pr[p].st /\ l.todo = pr[p].todo
    BY <1>0 DEF LocalNames, Fresh
  <2>4. Goes(p, pc, l)
    BY <2>2
  <2> HIDE DEF l
  <2>5. /\ \A q \in Proc : q # p => pr'[q] = pr[q]
        /\ pr'[p].pc = pc /\ pr'[p].cmd = pr[p].cmd /\ pr'[p].pushed = pr[p].pushed
        /\ pr'[p].st = pr[p].st /\ pr'[p].todo = pr[p].todo
    BY <2>3, <2>4, Stepped
  <2>6. Maker(p, pr[p])'
    <3>1. pr'[p].pc \in {"gone", "destroy"}
      BY <2>2, <2>5
    <3> QED
      BY <3>1 DEF Maker, Unmade, Making
  <2>7. Commanded(pr[p])' /\ Sees(pr[p])'
    BY <1>0, <2>0, <2>2, <2>5 DEF Commanded, Sees, UpSteps, DownSteps, InSession
  <2>8. Todo(p, pr[p])'
    <3>1. RecordedSlots(pr'[p].st) = RecordedSlots(pr[p].st)
      BY <2>5
    <3>2. RecordedSlots(pr[p].st) \subseteq Slot
      BY <1>0, RecordedAreSlots
    <3>3. \A s \in RecordedSlots(pr[p].st) :
            dev'[s].on => Lists(pr[p].todo, s) \/ dev'[s].left = p
      BY <1>0, <2>0, <2>1, <3>2 DEF Todo
    <3>4. \A i \in 1..Len(pr[p].todo) : pr[p].todo[i] \in RecordedSlots(pr[p].st)
      BY <1>0, <2>0 DEF Todo
    <3> QED
      BY <2>2, <2>5, <3>1, <3>3, <3>4 DEF Todo, Lists, RecordedSlots
  <2>9. LInv(p)'
    BY <2>6, <2>7, <2>8 DEF LInv
  <2> QED
    BY <1>0, <2>0, <2>1, <2>5, <2>9, Fewer
<1> QED
  BY <1>1, <1>2

LEMMA ClearA == ASSUME IInv, AInv, NEW p \in Proc, Clear(p) PROVE AInv'
<1>0. /\ Commanded(pr[p]) /\ Sees(pr[p]) /\ Todo(p, pr[p]) /\ pr[p].pc = "clear" /\ p \in Running
      /\ Exits(p, "ok") /\ UNCHANGED dev
  BY DEF AInv, LInv, Clear, At, Running, Over
<1>1. /\ \A q \in Proc : q # p => pr'[q] = pr[q]
      /\ pr'[p].pc = "exit" /\ pr'[p].pushed = pr[p].pushed
  BY <1>0, Exited
<1>2. Devices'
  BY <1>0 DEF AInv, Devices
<1>3. LiveDevicesFound'
  <2>1. ASSUME NEW s \in Slot, dev'[s].on
        PROVE  ~pr'[dev'[s].by].pushed \/ dev'[s].left # None
    <3>1. /\ dev[s].on /\ dev[s].dir /\ dev'[s] = dev[s] /\ dev[s].by \in Proc
          /\ p # None
      BY <1>0, <2>1, NamesDiffer DEF AInv, Devices
    <3>2. CASE dev[s].left = p
      BY <3>1, <3>2
    <3>3. CASE dev[s].left # p
      <4>1. pr[p].cmd.op # "reset"
        BY <1>0, <3>1, <3>3 DEF Todo, Listed
      <4>2. s \notin RecordedSlots(log)
        BY <1>0, <3>1, <3>3, <4>1 DEF Todo, Sees, DownSteps
      <4>3. ~pr[dev[s].by].pushed \/ dev[s].left # None
        BY <3>1, <4>2 DEF AInv, LiveDevicesFound
      <4> QED
        BY <1>1, <3>1, <4>3
    <3> QED
      BY <3>2, <3>3
  <2> QED
    BY <2>1 DEF LiveDevicesFound, RecordedSlots
<1>4. \A s \in Slot : dev'[s].by = dev[s].by
  BY <1>0
<1> QED
  BY <1>0, <1>1, <1>2, <1>3, <1>4, OverHolds, Combine

(* The compositor, and nothing at all.                                     *)
LEMMA StutterA == ASSUME AInv, UNCHANGED <<dev, log, pr, met>> PROVE AInv'
  BY DEF AInv, Alone, Devices, LiveDevicesFound, LInv, Maker, Commanded, Sees, Todo, Lists, Listed,
         Running, RecordedSlots

LEMMA NextA == ASSUME MaxRunning = 1, IInv, AInv, [Next]_vars PROVE AInv'
<1>1. ASSUME NEW p \in Proc, Up(p) PROVE AInv'
  BY <1>1, UpQuietA, DeviceA, RecordA DEF Up
<1>2. ASSUME NEW p \in Proc, DownOrReset(p) PROVE AInv'
  BY <1>2, DownQuietA, DestroyA, ClearA DEF DownOrReset
<1>3. CASE Compositor
  <2>1. UNCHANGED <<dev, log, pr, met>>
    BY <1>3 DEF Compositor, Appear, Vanish, Hang
  <2> QED
    BY <2>1, StutterA
<1>4. CASE AllOver \/ UNCHANGED vars
  BY <1>4, StutterA DEF AllOver, vars
<1> QED
  BY <1>1, <1>2, <1>3, <1>4, StartA, UpQuietA, CrashA DEF Next

(* What holds of the devices and the records when commands run one after   *)
(* the other, though any write, rmdir or listing may fail (remove and list *)
(* of configfs_vkms.rs; lifecycle.rs drops the errors of destroy).         *)
THEOREM OneAtATime == ASSUME MaxRunning = 1 PROVE Spec => []AInv
<1>1. Init => AInv
  BY InitA
<1>2. IInv /\ AInv /\ [Next]_vars => AInv'
  BY NextA
<1>3. Spec => []IInv
  BY Invariance
<1> QED
  BY <1>1, <1>2, <1>3, PTL DEF Spec

(* Commands that run one after the other, and may fail or be killed at any *)
(* step, leave no live device that active.json does not name, but one      *)
(* whose `up` did not live to push its record (lifecycle.rs, "Persist the  *)
(* record before we return"), or that a down, a reset or a rollback has    *)
(* failed to remove, or not been shown: those errors are not looked at.    *)
THEOREM LiveDevicesAreFound == ASSUME MaxRunning = 1 PROVE Spec => []LiveDevicesFound
<1>1. AInv => LiveDevicesFound
  BY DEF AInv
<1> QED
  BY <1>1, OneAtATime, PTL

(* A reset that runs alone has removed every device when it clears the     *)
(* records, those of killed runs included, but the ones it has itself      *)
(* failed to remove or its second listing has not shown it (lifecycle.rs,  *)
(* Reset::run): what an earlier run left behind is no excuse.              *)
THEOREM ResetsClean == ASSUME MaxRunning = 1 PROVE Spec => []ResetCleans
<1>1. AInv => ResetCleans
  BY DEF AInv, LInv, Todo, ResetCleans, At
<1> QED
  BY <1>1, OneAtATime, PTL

-----------------------------------------------------------------------------
(* Unplugged before destroyed.                                             *)

(* The devices a down or a reset is about, but for those that the listing  *)
(* to disconnect them by has left out.                                     *)
Targets(l) == (IF l.cmd.op = "reset" THEN Slot ELSE RecordedSlots(l.st)) \ l.missed

(* Once disconnected they stay so; those waited for are all of them; and   *)
(* after the wait the compositor shows none, for it shows anew only what   *)
(* is connected.                                                           *)
Unplugging(l) ==
    /\ l.pc = "unplug" =>
          \A s \in Targets(l) : dev[s].on => s \in l.handles /\ dev[s].conn \in l.names
    /\ l.pc \in {"gone", "destroy", "sweep"} =>
          \A s \in Targets(l) : dev[s].on => ~dev[s].plug
    /\ l.pc = "gone" => \A s \in Targets(l) : dev[s].on => dev[s].conn \in l.names
    /\ l.pc \in {"destroy", "sweep"} /\ l.cmd.sess =>
          \A s \in Targets(l) : dev[s].on => dev[s].conn \notin comp.heads

BInv == \A p \in Proc : Unplugging(pr[p])

Unplugged == {"unplug", "gone", "destroy", "sweep"}

(* A step of `up` is followed by one, or by the end.                       *)
LEMMA UpStays ==
    ASSUME IInv, NEW p \in Proc, Up(p) \/ SnapshotFails(p)
    PROVE  /\ p \in Running /\ \A q \in Proc : q # p => pr'[q] = pr[q]
           /\ pr[p].pc \in UpSteps \cup {"gone"} /\ pr'[p].pc \in UpSteps \cup {"exit"}
           /\ Up(p) => pr[p].pc \in UpSteps
<1>0. /\ DOMAIN pr[p] = LocalNames /\ DOMAIN pr = Proc /\ "pc" \in LocalNames
      /\ "pc" \in DOMAIN Fresh
  BY LocalsNamed DEF IInv, PrSound, LocalNames, Fresh
<1>1. ASSUME NEW pc, NEW l, DOMAIN l = LocalNames, Goes(p, pc, l)
      PROVE  pr'[p].pc = pc /\ \A q \in Proc : q # p => pr'[q] = pr[q]
  BY <1>0, <1>1, Stepped
<1>2. ASSUME NEW o, Exits(p, o)
      PROVE  pr'[p].pc = "exit" /\ \A q \in Proc : q # p => pr'[q] = pr[q]
  BY <1>2, Exited
<1> DEFINE Ok == /\ p \in Running /\ \A q \in Proc : q # p => pr'[q] = pr[q]
                 /\ pr[p].pc \in UpSteps /\ pr'[p].pc \in UpSteps \cup {"exit"}
<1>3. ASSUME UpSnapshot(p) \/ Pick(p) \/ Mkdir(p) \/ Commit(p) \/ CommitFails(p) PROVE Ok
  <2>1. CASE Pick(p)
    <3>1. pr[p].pc = "pick" /\ \E free : Goes(p, "mkdir", [pr[p] EXCEPT !.slot = free])
      BY <2>1 DEF Pick, At
    <3>2. PICK free : Goes(p, "mkdir", [pr[p] EXCEPT !.slot = free])
      BY <3>1
    <3> DEFINE l == [pr[p] EXCEPT !.slot = free]
    <3>3. DOMAIN l = LocalNames
      BY <1>0
    <3>4. pr'[p].pc = "mkdir" /\ \A q \in Proc : q # p => pr'[q] = pr[q]
      BY <1>1, <3>2, <3>3
    <3> QED
      BY <3>1, <3>4 DEF Running, Over, UpSteps
  <2>2. CASE UpSnapshot(p) \/ Mkdir(p) \/ Commit(p) \/ CommitFails(p)
    BY <1>0, <1>1, <2>2 DEF UpSnapshot, Mkdir, Commit, CommitFails, At, Running, Over, UpSteps
  <2> QED
    BY <1>3, <2>1, <2>2
<1>4. ASSUME Rollback(p) \/ PushFails(p) \/ AwaitTimeout(p) \/ ApplyFails(p) \/ AttachFails(p)
             \/ Record(p)
      PROVE  Ok
  BY <1>2, <1>4 DEF Rollback, PushFails, AwaitTimeout, ApplyFails, AttachFails, Record, At,
                    Running, Over, UpSteps
<1>5. ASSUME Push(p) \/ Claim(p) PROVE Ok
  BY <1>0, <1>1, <1>2, <1>5 DEF Push, Claim, At, Running, Over, UpSteps, LocalNames
<1>6. ASSUME AwaitHead(p) \/ NameHead(p) \/ EnableHead(p) \/ Owned(p) \/ Layout(p) PROVE Ok
  <2>1. /\ pr[p].pc \in {"await", "name", "enable", "owned", "layout"}
        /\ \E pc \in UpSteps : \E l : DOMAIN l = LocalNames /\ Goes(p, pc, l)
    <3>1. CASE AwaitHead(p)
      BY <1>0, <3>1 DEF AwaitHead, At, UpSteps
    <3>2. CASE NameHead(p) \/ EnableHead(p)
      BY <1>0, <3>2 DEF NameHead, EnableHead, At, UpSteps
    <3>3. CASE Owned(p)
      BY <1>0, <3>3 DEF Owned, At, UpSteps
    <3>4. CASE Layout(p)
      BY <1>0, <3>4 DEF Layout, At, UpSteps
    <3> QED
      BY <1>6, <3>1, <3>2, <3>3, <3>4
  <2>2. pr'[p].pc \in UpSteps /\ \A q \in Proc : q # p => pr'[q] = pr[q]
    BY <1>1, <2>1
  <2> QED
    BY <2>1, <2>2 DEF Running, Over, UpSteps
<1>7. ASSUME SnapshotFails(p)
      PROVE  /\ p \in Running /\ \A q \in Proc : q # p => pr'[q] = pr[q]
             /\ pr[p].pc \in UpSteps \cup {"gone"} /\ pr'[p].pc = "exit"
  BY <1>2, <1>7 DEF SnapshotFails, Running, Over, UpSteps
<1> HIDE DEF Ok
<1>8. Up(p) => Ok
  BY <1>3, <1>4, <1>5, <1>6 DEF Up
<1> QED
  BY <1>7, <1>8 DEF Ok

LEMMA DownStays ==
    ASSUME IInv, NEW p \in Proc, DownOrReset(p)
    PROVE  /\ p \in Running /\ \A q \in Proc : q # p => pr'[q] = pr[q]
           /\ pr[p].pc \in DownSteps /\ pr'[p].pc \in DownSteps \cup {"exit"}
           /\ \/ Plugs(p) \/ Unplug(p) \/ Gone(p) \/ Destroy(p) \/ Swept(p)
              \/ pr'[p].pc \notin Unplugged
<1>0. DOMAIN pr[p] = LocalNames /\ DOMAIN pr = Proc /\ "pc" \in LocalNames
  BY LocalsNamed DEF IInv, PrSound, LocalNames, Fresh
<1>1. ASSUME NEW pc, NEW l, DOMAIN l = LocalNames, Goes(p, pc, l)
      PROVE  pr'[p].pc = pc /\ \A q \in Proc : q # p => pr'[q] = pr[q]
  BY <1>0, <1>1, Stepped
<1>2. ASSUME NEW o, Exits(p, o)
      PROVE  pr'[p].pc = "exit" /\ \A q \in Proc : q # p => pr'[q] = pr[q]
  BY <1>2, Exited
<1> DEFINE Ok == /\ p \in Running /\ \A q \in Proc : q # p => pr'[q] = pr[q]
                 /\ pr[p].pc \in DownSteps /\ pr'[p].pc \in DownSteps \cup {"exit"}
           Apart == pr'[p].pc \notin Unplugged
<1>3. ASSUME Load(p) \/ LoadFails(p) PROVE Ok /\ Apart
  <2>1. CASE Load(p)
    <3>1. pr[p].pc = "load" /\ \E pc \in {"restore", "plugs"} : \E l :
            DOMAIN l = LocalNames /\ Goes(p, pc, l)
      BY <1>0, <2>1 DEF Load, AfterLoad, At
    <3>2. pr'[p].pc \in {"restore", "plugs"} /\ \A q \in Proc : q # p => pr'[q] = pr[q]
      BY <1>1, <3>1
    <3> QED
      BY <3>1, <3>2 DEF Running, Over, DownSteps, Unplugged
  <2>2. CASE LoadFails(p)
    BY <1>0, <1>1, <1>2, <2>2 DEF LoadFails, At, Running, Over, DownSteps, Unplugged
  <2> QED
    BY <1>3, <2>1, <2>2
<1>4. ASSUME Restore(p) \/ RestoreFails(p) \/ RestoreNothing(p) PROVE Ok /\ Apart
  <2>1. /\ pr[p].pc \in {"restore", "restore2"}
        /\ \E pc \in {"restore2", "plugs"} :
              \/ Goes(p, pc, pr[p])
              \/ \E r : Goes(p, pc, [pr[p] EXCEPT !.restored = r])
    BY <1>4 DEF Restore, RestoreFails, RestoreNothing, AfterRestore, At
  <2>2. pr'[p].pc \in {"restore2", "plugs"} /\ \A q \in Proc : q # p => pr'[q] = pr[q]
    BY <1>0, <1>1, <2>1
  <2> QED
    BY <2>1, <2>2 DEF Running, Over, DownSteps, Unplugged
<1>5. ASSUME Plugs(p) \/ Unplug(p) \/ Gone(p) \/ Destroy(p) \/ Swept(p) PROVE Ok
  <2>1. /\ pr[p].pc \in {"plugs", "unplug", "gone", "destroy", "sweep"}
        /\ \E pc \in DownSteps : \E l : DOMAIN l = LocalNames /\ Goes(p, pc, l)
    <3>1. CASE Plugs(p) \/ Gone(p)
      BY <1>0, <3>1 DEF Plugs, Gone, At, DownSteps
    <3>2. CASE Unplug(p)
      BY <1>0, <3>2 DEF Unplug, At, DownSteps
    <3>3. CASE Destroy(p)
      BY <1>0, <3>3 DEF Destroy, DownSteps
    <3>4. CASE Swept(p)
      BY <1>0, <3>4 DEF Swept, At, DownSteps
    <3> QED
      BY <1>5, <3>1, <3>2, <3>3, <3>4
  <2>2. pr'[p].pc \in DownSteps /\ \A q \in Proc : q # p => pr'[q] = pr[q]
    BY <1>1, <2>1
  <2> QED
    BY <2>1, <2>2 DEF Running, Over, DownSteps
<1>7. ASSUME SweepOver(p) PROVE Ok /\ Apart
  BY <1>0, <1>1, <1>7 DEF SweepOver, At, Running, Over, DownSteps, Unplugged
<1>8. ASSUME GoneTimeout(p) \/ DisconnectFails(p) \/ Clear(p) \/ ClearFails(p) PROVE Ok /\ Apart
  BY <1>2, <1>8 DEF GoneTimeout, DisconnectFails, Clear, ClearFails, At, Running, Over, DownSteps,
                    Unplugged
<1> HIDE DEF Ok, Apart
<1>9. /\ Ok
      /\ Plugs(p) \/ Unplug(p) \/ Gone(p) \/ Destroy(p) \/ Swept(p) \/ Apart
  BY <1>3, <1>4, <1>5, <1>7, <1>8 DEF DownOrReset
<1> QED
  BY <1>9 DEF Ok, Apart

(* The step of one invocation: nobody else is unplugging.                  *)
LEMMA OnlyOwn ==
    ASSUME AInv, NEW p \in Proc, p \in Running, \A q \in Proc : q # p => pr'[q] = pr[q],
           Unplugging(pr[p])'
    PROVE  BInv'
<1>1. ASSUME NEW q \in Proc, q # p PROVE Unplugging(pr[q])'
  <2>1. pr'[q].pc \in Over
    BY <1>1, OthersRest DEF AInv
  <2> QED
    BY <2>1 DEF Unplugging, Over
<1>2. \A q \in Proc : Unplugging(pr[q])'
  BY <1>1
<1> QED
  BY <1>2 DEF BInv

LEMMA TargetsAreSlots == ASSUME IInv, NEW p \in Proc PROVE Targets(pr[p]) \subseteq Slot
<1>1. pr[p].st \in Seq(RecordType)
  BY InvImplies DEF TypeOK, LocalsType
<1> QED
  BY <1>1, RecordedAreSlots DEF Targets

LEMMA UnplugB ==
    ASSUME IInv, AInv, BInv, NEW p \in Proc, Plugs(p) \/ Unplug(p) \/ Gone(p)
    PROVE  BInv'
<1>0. /\ DOMAIN pr[p] = LocalNames /\ DOMAIN dev = Slot /\ Unplugging(pr[p])
      /\ pr[p].cmd.op \in {"down", "reset"} /\ p \in Running
      /\ \A q \in Proc : q # p => pr'[q] = pr[q]
      /\ \A s \in Slot : dev[s].on => dev[s].dir
      /\ Targets(pr[p]) \subseteq Slot
  <2>1. p \in Running /\ pr[p].pc \in DownSteps /\ \A q \in Proc : q # p => pr'[q] = pr[q]
    BY DownStays DEF DownOrReset
  <2>2. Commanded(pr[p])
    BY DEF AInv, LInv
  <2> QED
    BY <2>1, <2>2, LocalsNamed, TargetsAreSlots DEF AInv, BInv, IInv, DevSound, Devices, Commanded
<1> DEFINE Same == /\ pr'[p].cmd = pr[p].cmd /\ pr'[p].st = pr[p].st
                   /\ pr'[p].missed = pr[p].missed
<1>1. Same => Targets(pr'[p]) = Targets(pr[p])
  BY DEF Targets, RecordedSlots
<1>2. CASE Plugs(p)
  <2>0. PICK S \in SUBSET Slot :
          /\ Handles(p, S)
          /\ Goes(p, "unplug",
                  [pr[p] EXCEPT !.handles = S,
                                !.names = UNION {Connectors(s) : s \in S},
                                !.todo = NewestFirst(pr[p].st),
                                !.missed = IF pr[p].cmd.op = "reset" THEN Listed \ S
                                           ELSE {}])
    BY <1>2 DEF Plugs
  <2> DEFINE names == UNION {Connectors(s) : s \in S}
             missed == IF pr[p].cmd.op = "reset" THEN Listed \ S ELSE {}
             l == [pr[p] EXCEPT !.handles = S, !.names = names,
                                !.todo = NewestFirst(pr[p].st), !.missed = missed]
  <2>1. /\ DOMAIN l = LocalNames /\ l.cmd = pr[p].cmd /\ l.st = pr[p].st
        /\ l.handles = S /\ l.names = names /\ l.missed = missed
    BY <1>0 DEF LocalNames, Fresh
  <2>2. Goes(p, "unplug", l) /\ UNCHANGED <<dev, comp>>
    BY <1>2, <2>0 DEF Plugs
  <2> HIDE DEF l, names, missed
  <2>3. /\ pr'[p].pc = "unplug" /\ pr'[p].cmd = pr[p].cmd /\ pr'[p].st = pr[p].st
        /\ pr'[p].handles = S /\ pr'[p].names = names /\ pr'[p].missed = missed
    BY <2>1, <2>2, Stepped
  <2>4. ASSUME NEW s \in Targets(pr'[p]), dev[s].on
        PROVE  s \in S /\ dev[s].conn \in names
    <3>1. CASE pr[p].cmd.op = "reset"
      <4>1. s \in Slot /\ s \notin Listed \ S
        BY <2>3, <2>4, <3>1 DEF Targets, missed
      <4>2. s \in S
        BY <1>0, <2>4, <4>1 DEF Listed
      <4> QED
        BY <2>4, <4>2 DEF Connectors, names
    <3>2. CASE pr[p].cmd.op # "reset"
      <4>1. s \in RecordedSlots(pr[p].st)
        BY <2>3, <2>4, <3>2 DEF Targets
      <4>2. s \in S
        BY <2>0, <3>2, <4>1, HandlesAre
      <4> QED
        BY <2>4, <4>2 DEF Connectors, names
    <3> QED
      BY <3>1, <3>2
  <2>5. Unplugging(pr[p])'
    BY <2>2, <2>3, <2>4 DEF Unplugging, Targets, RecordedSlots
  <2> QED
    BY <1>0, <2>5, OnlyOwn
<1>3. CASE Unplug(p)
  <2>1. /\ dev' = Disconnected(pr[p].handles) /\ UNCHANGED comp /\ pr[p].pc = "unplug"
    BY <1>3 DEF Unplug, At
  <2>2. \A s \in Slot : /\ dev'[s].on = dev[s].on /\ dev'[s].conn = dev[s].conn
                        /\ s \in pr[p].handles => ~dev'[s].plug
    <3>1. dev \in [Slot -> DeviceType]
      BY InvImplies DEF TypeOK
    <3> QED
      BY <2>1, <3>1 DEF Disconnected, DeviceType
  <2> DEFINE l == [pr[p] EXCEPT !.handles = {}]
             m == [l EXCEPT !.names = {}]
  <2>3. /\ DOMAIN l = LocalNames /\ DOMAIN m = LocalNames /\ l.cmd = pr[p].cmd /\ m.cmd = pr[p].cmd
        /\ l.st = pr[p].st /\ m.st = pr[p].st /\ l.names = pr[p].names
        /\ l.missed = pr[p].missed /\ m.missed = pr[p].missed
    BY <1>0 DEF LocalNames, Fresh
  <2>4. IF l.cmd.sess /\ l.names # {} THEN Goes(p, "gone", l) ELSE Goes(p, "destroy", m)
    BY <1>3 DEF Unplug
  <2> HIDE DEF l, m
  <2>5. \A s \in Targets(pr[p]) : dev[s].on => s \in pr[p].handles /\ dev[s].conn \in pr[p].names
    BY <1>0, <2>1 DEF Unplugging
  <2>6. CASE l.cmd.sess /\ l.names # {}
    <3>1. pr'[p].pc = "gone" /\ Same /\ pr'[p].names = pr[p].names
      BY <2>3, <2>4, <2>6, Stepped
    <3>2. \A s \in Targets(pr'[p]) :
             dev'[s].on => ~dev'[s].plug /\ dev'[s].conn \in pr'[p].names
      BY <1>0, <1>1, <2>2, <2>5, <3>1
    <3> QED
      BY <1>0, <3>1, <3>2, OnlyOwn DEF Unplugging, Targets, RecordedSlots
  <2>7. CASE ~(l.cmd.sess /\ l.names # {})
    <3>1. pr'[p].pc = "destroy" /\ Same
      BY <2>3, <2>4, <2>7, Stepped
    <3>2. \A s \in Targets(pr'[p]) : dev'[s].on => ~dev'[s].plug
      BY <1>0, <1>1, <2>2, <2>5, <3>1
    <3>3. pr'[p].cmd.sess => \A s \in Targets(pr'[p]) : ~dev'[s].on
      BY <1>0, <1>1, <2>2, <2>3, <2>5, <2>7, <3>1
    <3> QED
      BY <1>0, <3>1, <3>2, <3>3, OnlyOwn DEF Unplugging, Targets, RecordedSlots
  <2> QED
    BY <2>6, <2>7
<1>4. CASE Gone(p)
  <2> DEFINE l == [pr[p] EXCEPT !.names = {}]
  <2>1. /\ DOMAIN l = LocalNames /\ l.cmd = pr[p].cmd /\ l.st = pr[p].st
        /\ l.missed = pr[p].missed
    BY <1>0 DEF LocalNames, Fresh
  <2>2. /\ Goes(p, "destroy", l) /\ UNCHANGED <<dev, comp>> /\ pr[p].pc = "gone"
        /\ pr[p].names \cap comp.heads = {}
    BY <1>4 DEF Gone, At
  <2> HIDE DEF l
  <2>3. pr'[p].pc = "destroy" /\ Same
    BY <2>1, <2>2, Stepped
  <2>4. \A s \in Targets(pr'[p]) : dev[s].on => ~dev[s].plug /\ dev[s].conn \notin comp.heads
    BY <1>0, <1>1, <2>2, <2>3 DEF Unplugging
  <2> QED
    BY <1>0, <2>2, <2>3, <2>4, OnlyOwn DEF Unplugging, Targets, RecordedSlots
<1> QED
  BY <1>2, <1>3, <1>4

LEMMA DestroyB ==
    ASSUME IInv, AInv, BInv, NEW p \in Proc, Destroy(p) \/ Swept(p)
    PROVE  BInv'
<1>0. /\ DOMAIN pr[p] = LocalNames /\ Unplugging(pr[p]) /\ Commanded(pr[p]) /\ p \in Running
      /\ \A q \in Proc : q # p => pr'[q] = pr[q]
      /\ Targets(pr[p]) \subseteq Slot
  <2>1. p \in Running /\ \A q \in Proc : q # p => pr'[q] = pr[q]
    BY DownStays DEF DownOrReset
  <2> QED
    BY <2>1, LocalsNamed, TargetsAreSlots DEF AInv, LInv, BInv
<1>1. pr[p].pc \in {"destroy", "sweep"} /\ UNCHANGED comp
  BY DEF Destroy, Swept, At
<1>2. PICK pc \in {"destroy", "sweep", "clear"} :
        (\E todo : Goes(p, pc, [pr[p] EXCEPT !.todo = todo])) \/ Goes(p, pc, pr[p])
  <2>1. CASE Destroy(p)
    BY <1>1, <2>1 DEF Destroy
  <2>2. CASE Swept(p)
    BY <2>2 DEF Swept
  <2> QED
    BY <2>1, <2>2
<1>3. /\ pr'[p].pc = pc /\ pr'[p].cmd = pr[p].cmd /\ pr'[p].st = pr[p].st
      /\ pr'[p].missed = pr[p].missed
  <2> DEFINE l(todo) == [pr[p] EXCEPT !.todo = todo]
  <2>1. \A todo : /\ DOMAIN l(todo) = LocalNames /\ l(todo).cmd = pr[p].cmd
                  /\ l(todo).st = pr[p].st /\ l(todo).missed = pr[p].missed
    BY <1>0 DEF LocalNames, Fresh
  <2>2. PICK m : /\ Goes(p, pc, m) /\ DOMAIN m = LocalNames /\ m.cmd = pr[p].cmd
                 /\ m.st = pr[p].st /\ m.missed = pr[p].missed
    BY <1>0, <1>2, <2>1
  <2> HIDE DEF l
  <2> QED
    BY <2>2, Stepped
<1>4. \A s \in Slot :
         dev'[s].on =>
            /\ dev[s].on /\ dev'[s].conn = dev[s].conn
            /\ dev'[s].plug => dev[s].plug
  <2>1. CASE Destroy(p)
    <3>1. Removes(p, Head(pr[p].todo)) /\ ~NoDevice.on
      BY <2>1 DEF Destroy, NoDevice
    <3> QED
      BY <3>1, RemoveLeaves
  <2>2. CASE Swept(p)
    BY <2>2, SweptMarks
  <2> QED
    BY <2>1, <2>2
<1>5. Targets(pr'[p]) = Targets(pr[p])
  BY <1>3 DEF Targets, RecordedSlots
<1>6. \A s \in Targets(pr'[p]) :
         dev'[s].on => ~dev'[s].plug /\ (pr'[p].cmd.sess => dev'[s].conn \notin comp'.heads)
  <2>1. SUFFICES ASSUME NEW s \in Targets(pr'[p]), dev'[s].on
                 PROVE  ~dev'[s].plug /\ (pr'[p].cmd.sess => dev'[s].conn \notin comp'.heads)
    OBVIOUS
  <2>2. s \in Targets(pr[p]) /\ s \in Slot
    <3>1. s \in Targets(pr'[p])
      BY <2>1
    <3> HIDE DEF Targets
    <3> QED
      BY <1>0, <1>5, <3>1
  <2>3. dev'[s].on
    BY <2>1
  <2>4. dev[s].on /\ dev'[s].conn = dev[s].conn /\ (dev'[s].plug => dev[s].plug)
    BY <1>4, <2>2, <2>3
  <2>5. ~dev[s].plug /\ (pr[p].cmd.sess => dev[s].conn \notin comp.heads)
    BY <1>0, <1>1, <2>2, <2>4 DEF Unplugging
  <2>6. comp'.heads = comp.heads
    BY <1>1
  <2> QED
    BY <1>3, <2>4, <2>5, <2>6
<1> QED
  BY <1>0, <1>2, <1>3, <1>6, OnlyOwn DEF Unplugging, Targets, RecordedSlots

LEMMA CompositorB == ASSUME IInv, AInv, BInv, Compositor PROVE BInv'
<1>1. UNCHANGED <<dev, pr>>
  BY DEF Compositor, Appear, Vanish, Hang
<1>2. ASSUME NEW c \in comp'.heads, c \notin comp.heads PROVE Live(c)
  <2>1. CASE \E d \in Conn : Appear(d)
    <3>1. PICK d \in Conn : Appear(d)
      BY <2>1
    <3>2. comp'.heads = comp.heads \cup {d}
      BY <3>1 DEF Appear, IInv, CompSound, CompositorType
    <3> QED
      BY <1>2, <3>1, <3>2 DEF Appear
  <2>2. CASE \E d \in Conn : Vanish(d)
    <3>1. PICK d \in Conn : Vanish(d)
      BY <2>2
    <3>2. comp'.heads = comp.heads \ {d}
      BY <3>1 DEF Vanish, IInv, CompSound, CompositorType
    <3> QED
      BY <1>2, <3>2
  <2>3. CASE Hang
    BY <1>2, <2>3 DEF Hang, IInv, CompSound, CompositorType
  <2> QED
    BY <2>1, <2>2, <2>3 DEF Compositor
<1>3. ASSUME NEW p \in Proc PROVE Unplugging(pr[p])'
  <2>1. Unplugging(pr[p]) /\ Targets(pr[p]) \subseteq Slot
    BY TargetsAreSlots DEF BInv
  <2>2. CASE pr[p].pc \in {"destroy", "sweep"} /\ pr[p].cmd.sess
    <3>1. ASSUME NEW s \in Targets(pr[p]), dev[s].on, dev[s].conn \in comp'.heads PROVE FALSE
      <4>1. ~dev[s].plug /\ dev[s].conn \notin comp.heads
        BY <2>1, <2>2, <3>1 DEF Unplugging
      <4>2. PICK t \in Slot : dev[t].on /\ dev[t].plug /\ dev[t].conn = dev[s].conn
        BY <1>2, <3>1, <4>1 DEF Live
      <4>3. s = t
        BY <2>1, <3>1, <4>2 DEF AInv, Devices
      <4> QED
        BY <4>1, <4>2, <4>3
    <3>2. \A s \in Targets(pr'[p]) : dev'[s].on => dev'[s].conn \notin comp'.heads
      BY <1>1, <3>1 DEF Targets, RecordedSlots
    <3>3. \A s \in Targets(pr'[p]) : dev'[s].on => ~dev'[s].plug
      BY <1>1, <2>1, <2>2 DEF Unplugging, Targets, RecordedSlots
    <3> QED
      BY <1>1, <2>2, <3>2, <3>3 DEF Unplugging, Targets, RecordedSlots
  <2>3. CASE ~(pr[p].pc \in {"destroy", "sweep"} /\ pr[p].cmd.sess)
    BY <1>1, <2>1, <2>3 DEF Unplugging, Targets, RecordedSlots
  <2> QED
    BY <2>2, <2>3
<1> QED
  BY <1>3 DEF BInv

LEMMA NextB == ASSUME MaxRunning = 1, IInv, AInv, BInv, [Next]_vars PROVE BInv'
<1>1. ASSUME NEW p \in Proc, p \in Running, \A q \in Proc : q # p => pr'[q] = pr[q],
             pr'[p].pc \notin Unplugged
      PROVE  BInv'
  <2>1. Unplugging(pr[p])'
    BY <1>1 DEF Unplugging, Unplugged
  <2> QED
    BY <1>1, <2>1, OnlyOwn
<1>2. ASSUME NEW p \in Proc, Up(p) \/ SnapshotFails(p) PROVE BInv'
  <2>1. pr'[p].pc \in UpSteps \cup {"exit"}
    BY <1>2, UpStays
  <2>2. pr'[p].pc \notin Unplugged
    BY <2>1 DEF UpSteps, Unplugged
  <2> QED
    BY <1>1, <1>2, <2>2, UpStays
<1>3. ASSUME NEW p \in Proc, DownOrReset(p) PROVE BInv'
  <2>1. CASE Plugs(p) \/ Unplug(p) \/ Gone(p) \/ Destroy(p) \/ Swept(p)
    BY <2>1, UnplugB, DestroyB
  <2>2. CASE pr'[p].pc \notin Unplugged
    BY <1>1, <1>3, <2>2, DownStays
  <2> QED
    BY <1>3, <2>1, <2>2, DownStays
<1>4. ASSUME NEW p \in Proc, Crash(p) PROVE BInv'
  <2> DEFINE l == [Fresh EXCEPT !.pushed = pr[p].pushed]
  <2>1. DOMAIN l = LocalNames
    BY DEF LocalNames, Fresh
  <2>2. Goes(p, "dead", l) /\ p \in Running
    BY <1>4 DEF Crash
  <2> HIDE DEF l
  <2>3. pr'[p].pc = "dead" /\ \A q \in Proc : q # p => pr'[q] = pr[q]
    BY <2>1, <2>2, Stepped
  <2> QED
    BY <1>1, <2>2, <2>3 DEF Unplugged
<1>5. ASSUME NEW p \in Proc, Start(p) PROVE BInv'
  <2>1. Running' \subseteq {p}
    <3>1. PICK cmd \in Commands : InitialCommand(p, cmd)
      BY <1>5 DEF Start
    <3>2. \A q \in Proc : q # p => pr'[q] = pr[q]
      BY <3>1 DEF InitialCommand, Goes, IInv, PrSound
    <3>3. Running = {}
      BY <1>5, <3>2, StartsAlone DEF Start, AInv
    <3> QED
      BY <3>2, <3>3 DEF Running
  <2>2. pr'[p].pc \in {"load", "snapshot", "pick"}
    <3>1. PICK cmd \in Commands : InitialCommand(p, cmd)
      BY <1>5 DEF Start
    <3> DEFINE l == [Fresh EXCEPT !.cmd = cmd]
    <3>2. DOMAIN l = LocalNames
      BY DEF LocalNames, Fresh
    <3>3. \E pc \in {"load", "snapshot", "pick"} : Goes(p, pc, l)
      BY <3>1 DEF InitialCommand
    <3> HIDE DEF l
    <3> QED
      BY <3>2, <3>3, Stepped
  <2>3. ASSUME NEW q \in Proc PROVE Unplugging(pr[q])'
    <3>1. pr'[q].pc \notin Unplugged
      BY <2>1, <2>2 DEF Running, Over, Unplugged
    <3> QED
      BY <3>1 DEF Unplugging, Unplugged
  <2> QED
    BY <2>3 DEF BInv
<1>6. CASE Compositor
  BY <1>6, CompositorB
<1>7. CASE UNCHANGED vars
  BY <1>7 DEF vars, BInv, Unplugging, Targets, RecordedSlots
<1> QED
  BY <1>2, <1>3, <1>4, <1>5, <1>6, <1>7 DEF Next, AllOver

LEMMA NextUnplugs ==
    ASSUME IInv, AInv, BInv, [Next]_vars, NEW p \in Proc, NEW s \in Slot,
           pr[p].pc \in {"destroy", "sweep"}, pr[p].cmd.sess, s \notin pr[p].missed,
           pr'[p] # pr[p], dev[s].on, ~dev'[s].on
    PROVE  dev[s].conn \notin comp.heads
<1>0. /\ p \in Running /\ pr[p].todo \in Seq(Slot) /\ Todo(p, pr[p]) /\ Commanded(pr[p])
      /\ Unplugging(pr[p])
  BY InvImplies DEF Running, Over, TypeOK, LocalsType, AInv, LInv, BInv
<1>1. Destroy(p)
  <2>1. ASSUME NEW q \in Proc, Up(q) PROVE FALSE
    <3>1. q \in Running /\ pr[q].pc \in UpSteps
      BY <2>1, UpStays
    <3>2. q = p
      BY <1>0, <3>1 DEF AInv, Alone
    <3> QED
      BY <3>1, <3>2 DEF UpSteps
  <2>2. ASSUME NEW q \in Proc, DownOrReset(q) PROVE Destroy(p)
    <3>1. q \in Running
      BY <2>2, DownStays
    <3>2. q = p
      BY <1>0, <3>1 DEF AInv, Alone
    <3>3. ~(Load(p) \/ LoadFails(p) \/ Restore(p) \/ RestoreFails(p) \/ RestoreNothing(p)
            \/ Plugs(p) \/ Unplug(p) \/ Gone(p) \/ GoneTimeout(p) \/ DisconnectFails(p))
      BY DEF Load, LoadFails, Restore, RestoreFails, RestoreNothing, Plugs, Unplug, Gone,
             GoneTimeout, DisconnectFails, At
    <3>4. ~(Swept(p) \/ SweepOver(p) \/ Clear(p) \/ ClearFails(p))
      BY SweptMarks DEF SweepOver, Clear, ClearFails
    <3> QED
      BY <2>2, <3>2, <3>3, <3>4 DEF DownOrReset
  <2>3. \A q \in Proc : ~(Start(q) \/ SnapshotFails(q) \/ Crash(q))
    BY DEF Start, SnapshotFails, Crash
  <2>4. ~(Compositor \/ AllOver \/ UNCHANGED vars)
    BY DEF Compositor, Appear, Vanish, Hang, AllOver, vars
  <2> QED
    BY <2>1, <2>2, <2>3, <2>4 DEF Next
<1>2. pr[p].todo # << >> /\ Removes(p, Head(pr[p].todo))
  BY <1>1 DEF Destroy
<1>3. s = Head(pr[p].todo)
  BY <1>2, RemoveLeaves
<1>4. s \in Targets(pr[p])
  <2>1. CASE pr[p].cmd.op = "reset"
    BY <2>1 DEF Targets
  <2>2. CASE pr[p].cmd.op # "reset"
    <3>1. 1 \in 1..Len(pr[p].todo) /\ s = pr[p].todo[1]
      BY <1>0, <1>2, <1>3
    <3>2. pr[p].pc = "destroy"
      BY <1>0, <2>2 DEF Commanded
    <3> QED
      BY <1>0, <2>2, <3>1, <3>2 DEF Todo, Targets
  <2> QED
    BY <2>1, <2>2
<1> QED
  BY <1>0, <1>4 DEF Unplugging

(* Inside the session, a down or a reset that runs alone destroys a device *)
(* only when the compositor shows its connector no longer (lifecycle.rs,   *)
(* disconnect_outputs): what is waited for is what is destroyed, but for   *)
(* what the listing of reset to disconnect the devices by has left out.    *)
THEOREM UnplugsAreConsumed == ASSUME MaxRunning = 1 PROVE Spec => UnplugConsumed
<1>1. Init => BInv
  BY DEF Init, Fresh, BInv, Unplugging
<1>2. IInv /\ AInv /\ BInv /\ [Next]_vars => BInv'
  BY NextB
<1>3. IInv /\ AInv /\ BInv /\ [Next]_vars =>
        [\A p \in Proc, s \in Slot :
            /\ pr[p].pc \in {"destroy", "sweep"} /\ pr[p].cmd.sess
            /\ s \notin pr[p].missed
            /\ pr'[p] # pr[p] /\ dev[s].on /\ ~dev'[s].on
            => dev[s].conn \notin comp.heads]_vars
  BY NextUnplugs
<1>4. Spec => []IInv /\ []AInv
  BY Invariance, OneAtATime, PTL
<1> QED
  BY <1>1, <1>2, <1>3, <1>4, PTL DEF Spec, UnplugConsumed

-----------------------------------------------------------------------------
(***************************************************************************)
(* The third part: when the invocations run one after the other, the       *)
(* records add up to a plan the builder accepts, and down and reset give   *)
(* the user the layout back.                                               *)
(*                                                                         *)
(* Two invariants on top of those above.  CInv: no record turns off what   *)
(* another calls its head, because the vkms outputs a record has taken     *)
(* belong to devices that stay until the records go.  DInv: whatever of    *)
(* the user's is off is in a record, or in the locals of the `up` about to *)
(* write one; and the oldest record's snapshot shows the user's modes and  *)
(* places.                                                                 *)
(***************************************************************************)

(* The connectors of the devices there are.                                *)
Lit == UNION {Connectors(s) : s \in Slot}

(* The outputs a record has turned off or taken the primary from.          *)
Taken(r) == r.dis \cup ({r.prev} \ {None})
Untaken(c) == \A i \in 1..Len(log) : c \notin Taken(log[i])

(* No record takes what another calls its head.                            *)
Apart == \A c \in RecordedHeads(log) : Untaken(c)

(* Until devices are destroyed the vkms outputs a record has taken are     *)
(* those of devices still there, so that no new device gets their names.   *)
Destroying == {"destroy", "sweep", "clear"}
Kept ==
    (\A p \in Proc : pr[p].pc \notin Destroying) =>
        \A i \in 1..Len(log) : Taken(log[i]) \cap Conn \subseteq Lit

(* An `up` that was given a free name removes only a device that is not    *)
(* enabled.                                                                *)
Builds(l) ==
    /\ l.pc = "mkdir" => ~dev[l.slot].dir
    /\ l.pc \in {"commit", "rollback"} => ~dev[l.slot].on

(* What an `up` is about to put into a record.                             *)
Plans(l) ==
    /\ l.pc \in UpSteps => l.pre.on \cap Conn \subseteq Lit
    /\ l.pc \in {"push", "claim"} => \A c \in Connectors(l.slot) : Untaken(c)
    /\ l.pc = "await" => \A c \in l.names : Untaken(c)
    /\ l.pc = "name" => Untaken(l.head)
    /\ l.pc = "layout" =>
          l.real \cap RecordedHeads(log) = {} /\ l.real \subseteq l.pre.on
    /\ l.pc = "record" =>
          Taken(l) \cap RecordedHeads(log) = {} /\ Taken(l) \cap Conn \subseteq Lit

Together == met \cap {"crash", "store", "ghost", "taken"} = {}

CInv ==
    /\ comp.on \subseteq comp.heads
    /\ Together => Apart /\ Kept /\ \A p \in Proc : Builds(pr[p]) /\ Plans(pr[p])

-----------------------------------------------------------------------------
(* The user's outputs that are off.                                        *)
Missed == base.on \ comp.on

Attaching == {"claim", "await", "name", "enable", "owned", "layout", "record"}

(* The record of an `up` is the newest one until it is complete.           *)
Follows(l) ==
    /\ l.pc \in Attaching =>
          /\ readable /\ log # << >>
          /\ log[Len(log)].id = l.slot /\ log[Len(log)].dis = {}
    /\ l.pc \in {"load", "restore", "restore2"} => ~l.restored
    /\ l.pc \in {"restore", "restore2"} => l.st # EmptyState

(* What is off is on record, or about to be.                               *)
Recalled ==
    /\ (\A p \in Proc : pr[p].pc # "record") => Missed \subseteq Reenabled(log)
    /\ \A p \in Proc : At(p, "record") => Missed \subseteq Reenabled(log) \cup pr[p].dis
    /\ \A p \in Proc : Tearing(p) /\ pr[p].restored => Missed = {}

(* The user's modes and places are in the oldest snapshot, and in every    *)
(* snapshot for the outputs it shows on.                                   *)
Remembered ==
    /\ base.on \subseteq comp.kept
    /\ log # << >> => base.on \subseteq log[1].snap.geo
    /\ \A p \in Proc : LET l == pr[p] IN
          /\ l.pc \in {"pick", "mkdir", "commit", "push"} /\ l.cmd.sess /\ log = << >> =>
                base.on \subseteq l.pre.geo
          /\ l.pc \in UpSteps => base.on \cap l.pre.on \subseteq l.pre.geo

Intact == met \cap {"crash", "late", "store", "unrestored"} = {}

DInv ==
    /\ Real \subseteq comp.heads
    /\ \A p \in Proc : Follows(pr[p])
    /\ Intact => Recalled
    /\ Intact /\ "blind" \notin met => Remembered

-----------------------------------------------------------------------------
(* The records add up.                                                     *)
LEMMA OwnC ==
    ASSUME IInv, AInv, CInv, NEW p \in Proc, p \in Running,
           \A q \in Proc : q # p => pr'[q] = pr[q], comp'.on \subseteq comp'.heads,
           Together' => Apart' /\ Kept' /\ Builds(pr[p])' /\ Plans(pr[p])'
    PROVE  CInv'
<1>1. ASSUME NEW q \in Proc, q # p PROVE Builds(pr[q])' /\ Plans(pr[q])'
  <2>1. pr'[q].pc \in Over
    BY <1>1, OthersRest DEF AInv
  <2> QED
    BY <2>1 DEF Builds, Plans, Over, UpSteps
<1>2. Together' => \A q \in Proc : Builds(pr[q])' /\ Plans(pr[q])'
  BY <1>1
<1> QED
  BY <1>2 DEF CInv

(* A step that leaves the records alone.                                   *)
LEMMA RecordsKeptC ==
    ASSUME IInv, AInv, CInv, NEW p \in Proc, p \in Running,
           \A q \in Proc : q # p => pr'[q] = pr[q], comp'.on \subseteq comp'.heads,
           UNCHANGED log, met \subseteq met',
           Lit \subseteq Lit' \/ pr'[p].pc \in Destroying,
           Together' => /\ Builds(pr[p])' /\ Plans(pr[p])'
                        /\ pr[p].pc \in Destroying => pr'[p].pc \in Destroying
    PROVE  CInv'
<1>1. SUFFICES ASSUME Together' PROVE Apart' /\ Kept'
  BY OwnC
<1>2. Together
  BY <1>1 DEF Together
<1>3. Apart'
  BY <1>2 DEF CInv, Apart, RecordedHeads, Untaken
<1>4. Kept'
  <2>1. SUFFICES ASSUME \A q \in Proc : pr'[q].pc \notin Destroying
                 PROVE  \A i \in 1..Len(log) : Taken(log[i]) \cap Conn \subseteq Lit'
    BY DEF Kept, Taken
  <2>2. \A q \in Proc : pr[q].pc \notin Destroying
    BY <1>1, <2>1
  <2> QED
    BY <1>2, <2>1, <2>2 DEF CInv, Kept
<1> QED
  BY <1>3, <1>4

LEMMA MeetsGrows == ASSUME NEW f, Meets(f) \/ UNCHANGED met PROVE met \subseteq met'
  BY DEF Meets

(* What a plan leaves on is there.                                         *)
LEMMA AppliedOn ==
    ASSUME IInv, comp.on \subseteq comp.heads, NEW plan,
           Accepted(plan) \/ Refused(plan) \/ Late(plan)
    PROVE  comp'.on \subseteq comp'.heads /\ comp'.heads = comp.heads /\ met \subseteq met'
<1>1. Effective(plan) => comp'.on = OnAfter(plan) /\ comp'.heads = comp.heads
  BY DEF Effective, IInv, CompSound, CompositorType
<1>2. OnAfter(plan) \subseteq comp.heads
  BY DEF OnAfter
<1> QED
  BY <1>1, <1>2, MeetsGrows DEF Accepted, Refused, Late

LEMMA ExitC ==
    ASSUME IInv, AInv, CInv, NEW p \in Proc, p \in Running,
           \A q \in Proc : q # p => pr'[q] = pr[q], pr'[p].pc \in {"exit", "dead"},
           UNCHANGED <<dev, log>>, comp'.on \subseteq comp'.heads, met \subseteq met',
           Together' => pr[p].pc \notin Destroying
    PROVE  CInv'
<1>1. Builds(pr[p])' /\ Plans(pr[p])'
  BY DEF Builds, Plans, UpSteps
<1>2. Lit' = Lit
  BY DEF Lit, Connectors
<1> QED
  BY <1>1, <1>2, RecordsKeptC

(* A step of `up` that leaves the devices and the records alone.           *)
LEMMA MovesC ==
    ASSUME IInv, AInv, CInv, NEW p \in Proc, NEW pc, NEW l, DOMAIN l = LocalNames, Goes(p, pc, l),
           pr[p].pc \in UpSteps, UNCHANGED <<dev, log>>, comp'.on \subseteq comp'.heads,
           met \subseteq met', NEW m, m = [l EXCEPT !.pc = pc],
           Together' => Builds(m) /\ Plans(m)
    PROVE  CInv'
<1>1. /\ pr'[p] = m /\ p \in Running
      /\ \A q \in Proc : q # p => pr'[q] = pr[q]
  BY DEF Goes, IInv, PrSound, Running, Over, UpSteps
<1>2. Together' => Builds(pr[p])' /\ Plans(pr[p])'
  BY <1>1 DEF Builds, Plans, Lit, Connectors, Untaken, RecordedHeads
<1>3. Lit' = Lit /\ pr[p].pc \notin Destroying
  BY DEF Lit, Connectors, Destroying, UpSteps
<1> QED
  BY <1>1, <1>2, <1>3, RecordsKeptC

(* The steps of `up` that end it, or leave devices and records alone.      *)
LEMMA UpEndsC ==
    ASSUME IInv, AInv, CInv, NEW p \in Proc,
           \/ SnapshotFails(p) \/ PushFails(p) \/ AwaitTimeout(p) \/ ApplyFails(p) \/ AttachFails(p)
    PROVE  CInv'
<1>0. comp.on \subseteq comp.heads
  BY DEF CInv
<1>1. /\ pr[p].pc \in UpSteps \cup {"gone"} /\ UNCHANGED <<dev, log>>
      /\ comp'.on \subseteq comp'.heads /\ met \subseteq met' /\ \E o : Exits(p, o)
  <2>1. CASE SnapshotFails(p)
    BY <1>0, <2>1, MeetsGrows DEF SnapshotFails, UpSteps
  <2>2. CASE PushFails(p)
    BY <1>0, <2>2, MeetsGrows DEF PushFails, At, UpSteps
  <2>3. CASE AwaitTimeout(p)
    BY <1>0, <2>3, MeetsGrows DEF AwaitTimeout, At, UpSteps
  <2>4. CASE ApplyFails(p)
    BY <1>0, <2>4, AppliedOn DEF ApplyFails, At, UpSteps
  <2>5. CASE AttachFails(p)
    BY <1>0, <2>5, MeetsGrows DEF AttachFails, At, UpSteps
  <2> QED
    BY <2>1, <2>2, <2>3, <2>4, <2>5
<1>2. /\ pr'[p].pc = "exit" /\ \A q \in Proc : q # p => pr'[q] = pr[q]
      /\ p \in Running /\ pr[p].pc \notin Destroying
  BY <1>1, Exited DEF Running, Over, UpSteps, Destroying
<1> QED
  BY <1>1, <1>2, ExitC

LEMMA UpQuietC ==
    ASSUME IInv, AInv, CInv, NEW p \in Proc,
           \/ UpSnapshot(p) \/ Pick(p) \/ CommitFails(p) \/ Claim(p) \/ AwaitHead(p)
           \/ EnableHead(p) \/ Owned(p) \/ Layout(p)
    PROVE  CInv'
<1>0. /\ DOMAIN pr[p] = LocalNames /\ comp.on \subseteq comp.heads
      /\ Together => Builds(pr[p]) /\ Plans(pr[p])
  BY LocalsNamed DEF CInv
<1>1. CASE UpSnapshot(p)
  <2> DEFINE l == [pr[p] EXCEPT !.pre = Snapshot]
             m == [l EXCEPT !.pc = "pick"]
  <2>1. DOMAIN l = LocalNames /\ m.pc = "pick" /\ m.pre = Snapshot
    BY <1>0 DEF LocalNames, Fresh
  <2>2. /\ Goes(p, "pick", l) /\ pr[p].pc = "snapshot" /\ UNCHANGED <<dev, log, comp>>
        /\ met' = IF Ghosts = {} THEN met ELSE met \cup {"ghost"}
    BY <1>1 DEF UpSnapshot, At
  <2> HIDE DEF m
  <2>3. ASSUME Together' PROVE comp.on \cap Conn \subseteq Lit
    <3>1. Ghosts = {}
      BY <2>2, <2>3 DEF Together
    <3> QED
      BY <1>0, <3>1 DEF Ghosts, Lit
  <2>4. Together' => Builds(m) /\ Plans(m)
    BY <2>1, <2>3 DEF Builds, Plans, Snapshot
  <2>5. comp'.on \subseteq comp'.heads /\ met \subseteq met' /\ pr[p].pc \in UpSteps
    BY <1>0, <2>2 DEF UpSteps
  <2> QED
    BY <2>1, <2>2, <2>4, <2>5, MovesC DEF m
<1>2. CASE Pick(p)
  <2>1. PICK free : /\ Goes(p, "mkdir", [pr[p] EXCEPT !.slot = free])
                    /\ Together' => FreeSlots # {} /\ free = NextFree /\ UNCHANGED met
    BY <1>2 DEF Pick, Together
  <2> DEFINE l == [pr[p] EXCEPT !.slot = free]
             m == [l EXCEPT !.pc = "mkdir"]
  <2>2. DOMAIN l = LocalNames /\ m.pc = "mkdir" /\ m.pre = pr[p].pre /\ m.slot = free
    BY <1>0 DEF LocalNames, Fresh
  <2>3. /\ Goes(p, "mkdir", l) /\ pr[p].pc = "pick" /\ UNCHANGED <<dev, log, comp>>
        /\ met \subseteq met'
    BY <1>2, <2>1 DEF Pick, At
  <2>4. Together' => ~dev[free].dir
    BY <2>1, NextFreeInSlot DEF FreeSlots
  <2> HIDE DEF m
  <2>5. Together' => Builds(m) /\ Plans(m)
    BY <1>0, <2>2, <2>3, <2>4 DEF Builds, Plans, UpSteps, Together
  <2>6. comp'.on \subseteq comp'.heads /\ pr[p].pc \in UpSteps
    BY <1>0, <2>3 DEF UpSteps
  <2> QED
    BY <2>2, <2>3, <2>5, <2>6, MovesC DEF m
<1>3. CASE CommitFails(p)
  <2> DEFINE m == [pr[p] EXCEPT !.pc = "rollback"]
  <2>1. m.pc = "rollback" /\ m.pre = pr[p].pre /\ m.slot = pr[p].slot
    BY <1>0 DEF LocalNames, Fresh
  <2>2. /\ Goes(p, "rollback", pr[p]) /\ pr[p].pc \in {"mkdir", "commit"}
        /\ UNCHANGED <<dev, log, comp>> /\ met \subseteq met'
    BY <1>3, MeetsGrows DEF CommitFails, At
  <2> HIDE DEF m
  <2>3. ASSUME Together PROVE ~dev[m.slot].on
    <3>1. m.slot \in Slot
      BY <2>1, <2>2 DEF IInv, PrSound, SoundLocals, Picked
    <3> QED
      BY <1>0, <2>1, <2>2, <2>3, <3>1 DEF Builds, AInv, Devices
  <2>4. Together' => Builds(m) /\ Plans(m)
    BY <1>0, <2>1, <2>2, <2>3 DEF Builds, Plans, UpSteps, Together
  <2>5. comp'.on \subseteq comp'.heads /\ pr[p].pc \in UpSteps
    BY <1>0, <2>2 DEF UpSteps
  <2> QED
    BY <1>0, <2>2, <2>4, <2>5, MovesC DEF m
<1>4. CASE Claim(p)
  <2>0. /\ pr[p].pc = "claim" /\ UNCHANGED <<dev, log, comp, met>>
        /\ comp'.on \subseteq comp'.heads /\ p \in Running
    BY <1>0, <1>4 DEF Claim, At, Running, Over
  <2>1. CASE Exits(p, "ok")
    BY <2>0, <2>1, Exited, ExitC DEF Destroying
  <2>2. CASE Goes(p, "await", [pr[p] EXCEPT !.names = Connectors(pr[p].slot)])
    <3> DEFINE l == [pr[p] EXCEPT !.names = Connectors(pr[p].slot)]
               m == [l EXCEPT !.pc = "await"]
    <3>1. /\ DOMAIN l = LocalNames /\ m.pc = "await" /\ m.pre = pr[p].pre
          /\ m.names = Connectors(pr[p].slot)
      BY <1>0 DEF LocalNames, Fresh
    <3>2. Goes(p, "await", l)
      BY <2>2
    <3> HIDE DEF m
    <3>3. Together' => Builds(m) /\ Plans(m)
      BY <1>0, <2>0, <3>1 DEF Builds, Plans, UpSteps, Together
    <3> QED
      BY <2>0, <3>1, <3>2, <3>3, MovesC DEF m, UpSteps
  <2> QED
    BY <1>4, <2>1, <2>2 DEF Claim
<1>5. CASE AwaitHead(p)
  <2>1. PICK h \in pr[p].names : Goes(p, "name", [pr[p] EXCEPT !.head = h, !.names = {}])
    BY <1>5 DEF AwaitHead
  <2>2. pr[p].pc = "await" /\ UNCHANGED <<dev, log, comp, met>> /\ comp'.on \subseteq comp'.heads
    BY <1>0, <1>5 DEF AwaitHead, At
  <2> DEFINE l == [pr[p] EXCEPT !.head = h, !.names = {}]
             m == [l EXCEPT !.pc = "name"]
  <2>3. DOMAIN l = LocalNames /\ m.pc = "name" /\ m.pre = pr[p].pre /\ m.head = h
    BY <1>0 DEF LocalNames, Fresh
  <2>4. Goes(p, "name", l)
    BY <2>1
  <2> HIDE DEF m
  <2>5. Together' => Builds(m) /\ Plans(m)
    BY <1>0, <2>2, <2>3 DEF Builds, Plans, UpSteps, Together
  <2> QED
    BY <2>2, <2>3, <2>4, <2>5, MovesC DEF m, UpSteps
<1>6. CASE EnableHead(p)
  <2> DEFINE m == [pr[p] EXCEPT !.pc = "owned"]
  <2>1. m.pc = "owned" /\ m.pre = pr[p].pre
    BY <1>0 DEF LocalNames, Fresh
  <2>2. /\ Goes(p, "owned", pr[p]) /\ pr[p].pc = "enable" /\ UNCHANGED <<dev, log>>
        /\ comp'.on \subseteq comp'.heads /\ met \subseteq met'
    BY <1>0, <1>6, AppliedOn DEF EnableHead, At
  <2> HIDE DEF m
  <2>3. Together' => Builds(m) /\ Plans(m)
    BY <1>0, <2>1, <2>2 DEF Builds, Plans, UpSteps, Together
  <2> QED
    BY <1>0, <2>2, <2>3, MovesC DEF m, UpSteps
<1>7. CASE Owned(p)
  <2> DEFINE real == pr[p].pre.on \ RecordedHeads(log)
             l == [pr[p] EXCEPT !.real = real]
             m == [l EXCEPT !.pc = "layout"]
  <2>1. DOMAIN l = LocalNames /\ m.pc = "layout" /\ m.pre = pr[p].pre /\ m.real = real
    BY <1>0 DEF LocalNames, Fresh
  <2>2. /\ Goes(p, "layout", l) /\ pr[p].pc = "owned" /\ UNCHANGED <<dev, log, comp, met>>
        /\ comp'.on \subseteq comp'.heads
    BY <1>0, <1>7 DEF Owned, At
  <2> HIDE DEF m
  <2>3. Together' => Builds(m) /\ Plans(m)
    BY <1>0, <2>1, <2>2 DEF Builds, Plans, UpSteps, Together
  <2> QED
    BY <2>1, <2>2, <2>3, MovesC DEF m, UpSteps
<1>8. CASE Layout(p)
  <2>1. PICK first \in pr[p].real \cup {None} :
          Goes(p, "record", [pr[p] EXCEPT !.dis = Disabled(p), !.prev = first])
    BY <1>8 DEF Layout
  <2>2. /\ pr[p].pc = "layout" /\ UNCHANGED <<dev, log>> /\ met \subseteq met'
        /\ comp'.on \subseteq comp'.heads
    BY <1>0, <1>8, AppliedOn DEF Layout, At
  <2> DEFINE l == [pr[p] EXCEPT !.dis = Disabled(p), !.prev = first]
             m == [l EXCEPT !.pc = "record"]
  <2>3. /\ DOMAIN l = LocalNames /\ m.pc = "record" /\ m.pre = pr[p].pre
        /\ m.dis = Disabled(p) /\ m.prev = first
    BY <1>0 DEF LocalNames, Fresh
  <2>4. Goes(p, "record", l)
    BY <2>1
  <2> HIDE DEF m
  <2>5. Taken(m) \subseteq pr[p].real
    BY <2>1, <2>3 DEF Taken, Disabled
  <2>6. Together' => Builds(m) /\ Plans(m)
    BY <1>0, <2>2, <2>3, <2>5 DEF Builds, Plans, UpSteps, Together
  <2> QED
    BY <2>2, <2>3, <2>4, <2>6, MovesC DEF m, UpSteps
<1> QED
  BY <1>1, <1>2, <1>3, <1>4, <1>5, <1>6, <1>7, <1>8

(* The steps of `up` that make or unmake a device.                         *)
LEMMA DeviceC ==
    ASSUME IInv, AInv, CInv, NEW p \in Proc, Mkdir(p) \/ Commit(p) \/ Rollback(p)
    PROVE  CInv'
<1>0. /\ DOMAIN pr[p] = LocalNames /\ comp.on \subseteq comp.heads
      /\ DOMAIN dev = Slot /\ \A s \in Slot : dev[s].on => dev[s].dir
      /\ Up(p)
  BY LocalsNamed DEF CInv, IInv, DevSound, AInv, Devices, Up
<1>1. /\ p \in Running /\ \A q \in Proc : q # p => pr'[q] = pr[q]
      /\ pr[p].pc \notin Destroying
  BY <1>0, UpStays DEF UpSteps, Destroying
<1>2. UNCHANGED <<log, comp>> /\ met \subseteq met' /\ comp'.on \subseteq comp'.heads
  <2>1. CASE Mkdir(p) \/ Commit(p)
    BY <1>0, <2>1 DEF Mkdir, Commit
  <2>2. CASE Rollback(p)
    <3>1. Removes(p, pr[p].slot) /\ UNCHANGED <<log, comp>>
      BY <2>2 DEF Rollback
    <3> QED
      BY <1>0, <3>1, RemoveLeaves
  <2> QED
    BY <2>1, <2>2
<1> SUFFICES ASSUME Together' PROVE CInv'
  BY <1>1, <1>2, OwnC
<1>a. Together /\ Builds(pr[p]) /\ Plans(pr[p])
  BY <1>2 DEF CInv, Together
<1> DEFINE r == pr[p].slot
<1>3. CASE Mkdir(p)
  <2>1. pr[p].pc = "mkdir" /\ ~dev[r].dir /\ r \in Slot
    BY <1>a, <1>3 DEF Mkdir, At, Builds, IInv, PrSound, SoundLocals, Picked
  <2>2. Goes(p, "commit", pr[p]) /\ dev' = [dev EXCEPT ![r] = Skeleton(p)]
    BY <1>3, <2>1 DEF Mkdir
  <2>3. pr'[p].pc = "commit" /\ pr'[p].slot = r /\ pr'[p].pre = pr[p].pre
    BY <1>0, <2>2, Stepped
  <2>4. /\ \A s \in Slot : s # r => dev'[s] = dev[s]
        /\ ~dev'[r].on
    BY <1>0, <2>1, <2>2 DEF Skeleton, NoDevice
  <2>5. Lit \subseteq Lit'
    BY <1>0, <2>1, <2>4 DEF Lit, Connectors
  <2>6. Builds(pr[p])' /\ Plans(pr[p])'
    BY <1>a, <1>2, <2>1, <2>3, <2>4, <2>5 DEF Builds, Plans, UpSteps
  <2> QED
    BY <1>1, <1>2, <2>5, <2>6, RecordsKeptC
<1>4. CASE Commit(p)
  <2>1. pr[p].pc = "commit" /\ ~dev[r].on /\ r \in Slot /\ Goes(p, "push", pr[p])
    BY <1>a, <1>4 DEF Commit, At, Builds, IInv, PrSound, SoundLocals, Picked
  <2>2. PICK c \in Conn \ UsedConns :
          dev' = [dev EXCEPT ![r] = [dir |-> TRUE, on |-> TRUE, plug |-> TRUE, conn |-> c,
                                     by |-> p, left |-> None]]
    BY <1>4 DEF Commit
  <2>3. pr'[p].pc = "push" /\ pr'[p].slot = r /\ pr'[p].pre = pr[p].pre
    BY <1>0, <2>1, Stepped
  <2>4. /\ \A s \in Slot : s # r => dev'[s] = dev[s]
        /\ dev'[r].on /\ dev'[r].conn = c
    BY <1>0, <2>1, <2>2
  <2>5. Lit \subseteq Lit'
    BY <1>0, <2>1, <2>4 DEF Lit, Connectors
  <2>6. c \notin Lit
    BY <2>2 DEF Lit, Connectors, UsedConns
  <2>7. Untaken(c)
    <3>1. \A q \in Proc : pr[q].pc \notin Destroying
      BY <1>1, OthersRest DEF AInv, Over, Destroying
    <3> QED
      BY <1>a, <2>2, <2>6, <3>1 DEF CInv, Kept, Untaken
  <2>8. ASSUME \A d \in {c} : Untaken(d)', pr'[p].pre.on \cap Conn \subseteq Lit'
        PROVE  Plans(pr[p])'
    <3>1. Connectors(pr[p].slot)' = {c}
      BY <2>3, <2>4 DEF Connectors
    <3>2. \A d \in Connectors(pr[p].slot)' : Untaken(d)'
      BY <2>8, <3>1
    <3> QED
      BY <2>3, <2>8, <3>2 DEF Plans, UpSteps
  <2>10. Plans(pr[p])'
    <3>1. Untaken(c)'
      BY <1>2, <2>7 DEF Untaken
    <3>2. pr'[p].pre.on \cap Conn \subseteq Lit'
      BY <1>a, <2>1, <2>3, <2>5 DEF Plans, UpSteps
    <3> QED
      BY <2>8, <3>1, <3>2
  <2>11. Builds(pr[p])'
    BY <2>3 DEF Builds
  <2> QED
    BY <1>1, <1>2, <2>5, <2>10, <2>11, RecordsKeptC
<1>5. CASE Rollback(p)
  <2>1. /\ pr[p].pc = "rollback" /\ ~dev[r].on /\ Exits(p, "err")
        /\ Removes(p, r)
    BY <1>a, <1>5 DEF Rollback, At, Builds
  <2>2. pr'[p].pc = "exit"
    BY <2>1, Exited
  <2>3. Lit \subseteq Lit'
    <3>1. \A s \in Slot : s # r => dev'[s] = dev[s]
      BY <2>1, RemoveLeaves
    <3> QED
      BY <2>1, <3>1 DEF Lit, Connectors
  <2>4. Builds(pr[p])' /\ Plans(pr[p])'
    BY <2>2 DEF Builds, Plans, UpSteps
  <2> QED
    BY <1>1, <1>2, <2>3, <2>4, RecordsKeptC
<1> QED
  BY <1>3, <1>4, <1>5

(* The steps of `up` that change the records.                              *)
LEMMA Listing ==
    ASSUME NEW st \in Seq(RecordType)
    PROVE  /\ \A i \in 1..Len(st) : st[i] \in RecordType /\ st[i].head \in Conn \cup {None}
           /\ \A c : c \in RecordedHeads(st) <=> c # None /\ \E i \in 1..Len(st) : st[i].head = c
<1>1. \A i \in 1..Len(st) : st[i] \in RecordType
  OBVIOUS
<1> QED
  BY <1>1 DEF RecordedHeads, RecordType

LEMMA RecordC ==
    ASSUME IInv, AInv, CInv, NEW p \in Proc, Push(p) \/ NameHead(p) \/ Record(p)
    PROVE  CInv'
<1>0. /\ DOMAIN pr[p] = LocalNames /\ comp.on \subseteq comp.heads
      /\ Together => Plans(pr[p]) /\ Apart /\ Kept
      /\ log \in Seq(RecordType) /\ Len(log) \in Nat
      /\ Up(p)
  BY LocalsNamed, InvImplies DEF CInv, TypeOK, Up
<1>1. /\ p \in Running /\ \A q \in Proc : q # p => pr'[q] = pr[q]
      /\ pr'[p].pc \in UpSteps \cup {"exit"}
  BY <1>0, UpStays
<1>2. UNCHANGED <<dev, comp>> /\ met \subseteq met' /\ comp'.on \subseteq comp'.heads
  BY <1>0 DEF Push, NameHead, Record
<1>3. Together' => Together
  BY <1>2 DEF Together
<1>4. \A q \in Proc : pr[q].pc \notin Destroying
  <2>1. pr[p].pc \in {"push", "name", "record"}
    BY DEF Push, NameHead, Record, At
  <2> QED
    BY <1>1, <2>1, OthersRest DEF AInv, Over, Destroying
<1>5. Lit' = Lit
  BY <1>2 DEF Lit, Connectors
<1>6. Together => \A i \in 1..Len(log) : Taken(log[i]) \cap Conn \subseteq Lit
  BY <1>0, <1>4 DEF Kept
<1>7. CASE Push(p)
  <2> DEFINE r == InstanceRecord(p)
             n == Len(log)
  <2>1. log' = Append(log, r) /\ pr[p].pc = "push"
    BY <1>7 DEF Push, Pushed, At
  <2>2. Taken(r) = {} /\ r.head = None
    BY DEF InstanceRecord, Taken
  <2> HIDE DEF r
  <2>3. /\ Len(log') = n + 1 /\ log'[n + 1] = r
        /\ \A i \in 1..n : log'[i] = log[i]
        /\ 1..(n + 1) = 1..n \cup {n + 1}
    BY <1>0, <2>1
  <2>4. \A c : Untaken(c) => Untaken(c)'
    BY <2>2, <2>3 DEF Untaken
  <2>5. RecordedHeads(log') \subseteq RecordedHeads(log)
    BY <2>2, <2>3 DEF RecordedHeads
  <2>6. Together => Apart'
    BY <1>0, <2>4, <2>5 DEF Apart
  <2>7. Together => Kept'
    BY <1>5, <1>6, <2>2, <2>3 DEF Kept
  <2>8. pr'[p].pc \in {"claim", "exit"} /\ pr'[p].pre \in {pr[p].pre, NoSnapshot}
        /\ (pr'[p].pc = "claim" => pr'[p].pre = pr[p].pre /\ pr'[p].slot = pr[p].slot)
    <3>1. CASE pr[p].cmd.sess
      <4> DEFINE l == [pr[p] EXCEPT !.pushed = TRUE]
      <4>1. DOMAIN l = LocalNames /\ l.pre = pr[p].pre /\ l.slot = pr[p].slot
        BY <1>0 DEF LocalNames, Fresh
      <4>2. Goes(p, "claim", l)
        BY <1>7, <3>1 DEF Push
      <4> HIDE DEF l
      <4> QED
        BY <4>1, <4>2, Stepped
    <3>2. CASE ~pr[p].cmd.sess
      <4> DEFINE l == [Fresh EXCEPT !.out = "ok", !.pushed = TRUE]
      <4>1. DOMAIN l = LocalNames /\ l.pre = NoSnapshot
        BY DEF LocalNames, Fresh
      <4>2. Goes(p, "exit", l)
        BY <1>7, <3>2 DEF Push
      <4> HIDE DEF l
      <4> QED
        BY <4>1, <4>2, Stepped
    <3> QED
      BY <3>1, <3>2
  <2>9. ASSUME Together PROVE Plans(pr[p])'
    <3>1. CASE pr'[p].pc = "claim"
      <4>1. \A c \in Connectors(pr[p].slot)' : Untaken(c)'
        BY <1>0, <1>2, <2>1, <2>4, <2>8, <2>9, <3>1 DEF Plans, Connectors
      <4>2. pr'[p].pre.on \cap Conn \subseteq Lit'
        BY <1>0, <1>5, <2>1, <2>8, <2>9, <3>1 DEF Plans, UpSteps
      <4> QED
        BY <3>1, <4>1, <4>2 DEF Plans
    <3>2. CASE pr'[p].pc = "exit"
      BY <3>2 DEF Plans, UpSteps
    <3> QED
      BY <2>8, <3>1, <3>2
  <2>10. Builds(pr[p])'
    BY <2>8 DEF Builds
  <2> QED
    BY <1>1, <1>2, <1>3, <2>6, <2>7, <2>9, <2>10, OwnC
<1>8. CASE NameHead(p)
  <2> DEFINE h == pr[p].head
             id == pr[p].slot
             r == [Found(id) EXCEPT !.head = h]
  <2>1. log' = Replaced(log, id, r) /\ pr[p].pc = "name" /\ Goes(p, "enable", pr[p])
    BY <1>8 DEF NameHead, Updates, At
  <2>2. Len(log') = Len(log)
    BY <1>0, <2>1, ReplacedFields
  <2>3. ASSUME NEW i \in 1..Len(log)
        PROVE  Taken(log'[i]) = Taken(log[i]) /\ log'[i].head \in {log[i].head, h}
    <3>1. CASE log'[i] = log[i]
      BY <3>1
    <3>2. CASE log'[i] = r /\ i = Newest(log, id)
      <4>1. log[i] \in RecordType /\ r = [log[i] EXCEPT !.head = h]
        BY <1>0, <3>2 DEF Found
      <4>2. r.dis = log[i].dis /\ r.prev = log[i].prev /\ r.head = h
        BY <4>1 DEF RecordType
      <4> QED
        BY <3>2, <4>2 DEF Taken
    <3> HIDE DEF r
    <3> QED
      BY <1>0, <2>1, <3>1, <3>2, ReplacedFields
  <2>4. pr'[p].pc = "enable" /\ pr'[p].pre = pr[p].pre
    BY <1>0, <2>1, Stepped
  <2> HIDE DEF r, h
  <2>5. \A c : Untaken(c) => Untaken(c)'
    BY <2>2, <2>3 DEF Untaken
  <2>6. RecordedHeads(log') \subseteq RecordedHeads(log) \cup {h}
    BY <2>2, <2>3 DEF RecordedHeads
  <2>7. Together => Apart'
    BY <1>0, <2>1, <2>5, <2>6 DEF Apart, Plans, h
  <2>8. Together => Kept'
    BY <1>5, <1>6, <2>2, <2>3 DEF Kept
  <2>9. Builds(pr[p])' /\ (Together => Plans(pr[p])')
    BY <1>0, <1>5, <2>1, <2>4 DEF Builds, Plans, UpSteps
  <2> QED
    BY <1>1, <1>2, <1>3, <2>7, <2>8, <2>9, OwnC
<1>9. CASE Record(p)
  <2> DEFINE id == pr[p].slot
             r == [Found(id) EXCEPT !.dis = pr[p].dis, !.prev = pr[p].prev]
  <2>1. log' = Replaced(log, id, r) /\ pr[p].pc = "record" /\ Exits(p, "ok")
    BY <1>9 DEF Record, Updates, At
  <2>2. Len(log') = Len(log)
    BY <1>0, <2>1, ReplacedFields
  <2>3. ASSUME NEW i \in 1..Len(log)
        PROVE  Taken(log'[i]) \in {Taken(log[i]), Taken(pr[p])} /\ log'[i].head = log[i].head
    <3>1. CASE log'[i] = log[i]
      BY <3>1
    <3>2. CASE log'[i] = r /\ i = Newest(log, id)
      <4>1. log[i] \in RecordType /\ r = [log[i] EXCEPT !.dis = pr[p].dis, !.prev = pr[p].prev]
        BY <1>0, <3>2 DEF Found
      <4>2. r.dis = pr[p].dis /\ r.prev = pr[p].prev /\ r.head = log[i].head
        BY <4>1 DEF RecordType
      <4> QED
        BY <3>2, <4>2 DEF Taken
    <3> HIDE DEF r
    <3> QED
      BY <1>0, <2>1, <3>1, <3>2, ReplacedFields
  <2>4. pr'[p].pc = "exit"
    BY <2>1, Exited
  <2> HIDE DEF r
  <2>5. \A c : Untaken(c) /\ c \notin Taken(pr[p]) => Untaken(c)'
    BY <2>2, <2>3 DEF Untaken
  <2>6. RecordedHeads(log') = RecordedHeads(log)
    BY <2>2, <2>3 DEF RecordedHeads
  <2>7. Together => Apart'
    BY <1>0, <2>1, <2>5, <2>6 DEF Apart, Plans
  <2>8. Together => Kept'
    BY <1>0, <1>5, <1>6, <2>1, <2>2, <2>3 DEF Kept, Plans
  <2>9. Builds(pr[p])' /\ Plans(pr[p])'
    BY <2>4 DEF Builds, Plans, UpSteps
  <2> QED
    BY <1>1, <1>2, <1>3, <2>7, <2>8, <2>9, OwnC
<1> QED
  BY <1>7, <1>8, <1>9

(* down and reset.                                                         *)
LEMMA DownC == ASSUME IInv, AInv, CInv, NEW p \in Proc, DownOrReset(p) PROVE CInv'
<1>0. /\ comp.on \subseteq comp.heads
      /\ \A s \in Slot : dev[s].on => dev[s].dir
  BY DEF CInv, AInv, Devices
<1>1. /\ p \in Running /\ \A q \in Proc : q # p => pr'[q] = pr[q]
      /\ pr[p].pc \in DownSteps /\ pr'[p].pc \in DownSteps \cup {"exit"}
  BY DownStays
<1>2. Builds(pr[p])' /\ Plans(pr[p])'
  BY <1>1 DEF Builds, Plans, DownSteps, UpSteps
<1>3. comp'.on \subseteq comp'.heads /\ met \subseteq met'
  <2>1. CASE Restore(p)
    BY <1>0, <2>1, AppliedOn DEF Restore
  <2>2. CASE RestoreFails(p)
    <3>1. CASE UNCHANGED <<comp, met>>
      BY <1>0, <3>1
    <3>2. CASE Refused(RestoreStep(p)) \/ Late(RestoreStep(p))
      BY <1>0, <3>2, AppliedOn
    <3> QED
      BY <2>2, <3>1, <3>2 DEF RestoreFails
  <2>3. CASE Load(p) \/ LoadFails(p) \/ RestoreNothing(p)
    BY <1>0, <2>3 DEF Load, LoadFails, RestoreNothing, Meets
  <2>4. CASE Unplug(p) \/ Gone(p) \/ SweepOver(p)
    BY <1>0, <2>4 DEF Unplug, Gone, SweepOver
  <2>5. CASE GoneTimeout(p) \/ DisconnectFails(p)
    BY <1>0, <2>5 DEF GoneTimeout, DisconnectFails, Meets
  <2>6. CASE Destroy(p)
    <3>1. Removes(p, Head(pr[p].todo)) /\ UNCHANGED comp
      BY <2>6 DEF Destroy
    <3> QED
      BY <1>0, <3>1, RemoveLeaves
  <2>7. CASE Plugs(p) \/ Swept(p)
    BY <1>0, <2>7 DEF Plugs, Swept, Handles, ListedAs, Meets
  <2>8. CASE Clear(p) \/ ClearFails(p)
    BY <1>0, <2>8 DEF Clear, ClearFails, Meets
  <2> QED
    BY <2>1, <2>2, <2>3, <2>4, <2>5, <2>6, <2>7, <2>8 DEF DownOrReset
<1>4. CASE Clear(p)
  <2>1. log' = << >> /\ Len(log') = 0 /\ 1..0 = {}
    BY <1>4 DEF Clear, EmptyState
  <2>2. Apart' /\ Kept'
    BY <2>1 DEF Apart, Kept, RecordedHeads
  <2> QED
    BY <1>1, <1>2, <1>3, <2>2, OwnC
<1>5. CASE ~Clear(p)
  <2>1. UNCHANGED log
    <3>1. CASE Load(p) \/ LoadFails(p) \/ RestoreNothing(p) \/ Plugs(p) \/ Unplug(p) \/ Gone(p)
      BY <3>1 DEF Load, LoadFails, RestoreNothing, Plugs, Unplug, Gone
    <3>2. CASE Restore(p) \/ RestoreFails(p) \/ GoneTimeout(p) \/ DisconnectFails(p)
      BY <3>2 DEF Restore, RestoreFails, GoneTimeout, DisconnectFails
    <3>3. CASE Destroy(p) \/ Swept(p) \/ SweepOver(p) \/ ClearFails(p)
      BY <3>3 DEF Destroy, Swept, SweepOver, ClearFails
    <3> QED
      BY <1>5, <3>1, <3>2, <3>3 DEF DownOrReset
  <2>2. CASE Destroy(p) \/ Swept(p) \/ SweepOver(p)
    <3>1. pr'[p].pc \in Destroying
      <4>1. DOMAIN pr[p] = LocalNames
        BY LocalsNamed
      <4>2. CASE Destroy(p)
        <5> DEFINE l == [pr[p] EXCEPT !.todo = Tail(pr[p].todo)]
        <5>1. DOMAIN l = LocalNames
          BY <4>1 DEF LocalNames, Fresh
        <5>2. Goes(p, pr[p].pc, l) /\ pr[p].pc \in {"destroy", "sweep"}
          BY <4>2 DEF Destroy
        <5> HIDE DEF l
        <5> QED
          BY <5>1, <5>2, Stepped DEF Destroying
      <4>3. CASE Swept(p)
        <5>1. ASSUME NEW left, Goes(p, "sweep", [pr[p] EXCEPT !.todo = left])
              PROVE  pr'[p].pc = "sweep"
          <6> DEFINE l == [pr[p] EXCEPT !.todo = left]
          <6>1. DOMAIN l = LocalNames
            BY <4>1 DEF LocalNames, Fresh
          <6>2. Goes(p, "sweep", l)
            BY <5>1
          <6> HIDE DEF l
          <6> QED
            BY <6>1, <6>2, Stepped
        <5>2. Goes(p, "clear", pr[p]) => pr'[p].pc = "clear"
          BY <4>1, Stepped
        <5> QED
          BY <4>3, <5>1, <5>2 DEF Swept, Destroying
      <4>4. CASE SweepOver(p)
        BY <4>1, <4>4, Stepped DEF SweepOver, Destroying
      <4> QED
        BY <2>2, <4>2, <4>3, <4>4
    <3> QED
      BY <1>1, <1>2, <1>3, <2>1, <3>1, RecordsKeptC
  <2>3. CASE ~(Destroy(p) \/ Swept(p) \/ SweepOver(p))
    <3>1. Lit \subseteq Lit'
      <4>1. CASE Unplug(p) \/ (DisconnectFails(p) /\ dev' # dev)
        <5>1. (\E S : dev' = Disconnected(S)) /\ dev \in [Slot -> DeviceType]
          BY <4>1, InvImplies DEF Unplug, DisconnectFails, TypeOK
        <5>2. \A s \in Slot : dev'[s].on = dev[s].on /\ dev'[s].conn = dev[s].conn
          BY <5>1 DEF Disconnected, DeviceType
        <5> QED
          BY <5>2 DEF Lit, Connectors
      <4>2. CASE ~Unplug(p) /\ (DisconnectFails(p) => dev' = dev)
        <5>1. UNCHANGED dev
          <6>1. CASE Load(p) \/ LoadFails(p) \/ RestoreNothing(p) \/ Plugs(p) \/ Gone(p)
            BY <6>1 DEF Load, LoadFails, RestoreNothing, Plugs, Gone
          <6>2. CASE Restore(p) \/ RestoreFails(p) \/ GoneTimeout(p)
            BY <6>2 DEF Restore, RestoreFails, GoneTimeout
          <6>3. CASE ClearFails(p)
            BY <6>3 DEF ClearFails
          <6> QED
            BY <1>5, <2>3, <4>2, <6>1, <6>2, <6>3 DEF DownOrReset
        <5> QED
          BY <5>1 DEF Lit, Connectors
      <4> QED
        BY <4>1, <4>2
    <3>2. ASSUME Together', pr[p].pc \in Destroying PROVE pr'[p].pc \in Destroying
      <4>1. ~ClearFails(p)
        BY <3>2 DEF ClearFails, Meets, Noted, Together
      <4>2. ~(Load(p) \/ LoadFails(p) \/ Restore(p) \/ RestoreFails(p) \/ RestoreNothing(p)
              \/ Plugs(p) \/ Unplug(p) \/ Gone(p) \/ GoneTimeout(p) \/ DisconnectFails(p))
        BY <3>2 DEF Load, LoadFails, Restore, RestoreFails, RestoreNothing, Plugs, Unplug, Gone,
                    GoneTimeout, DisconnectFails, At, Destroying
      <4> QED
        BY <1>5, <2>3, <4>1, <4>2 DEF DownOrReset
    <3> QED
      BY <1>1, <1>2, <1>3, <2>1, <3>1, <3>2, RecordsKeptC
  <2> QED
    BY <2>2, <2>3
<1> QED
  BY <1>4, <1>5

(* The start of a command.                                                 *)
LEMMA Starts ==
    ASSUME MaxRunning = 1, IInv, AInv, NEW p \in Proc, Start(p)
    PROVE  /\ \A q \in Proc : q # p => pr'[q] = pr[q] /\ pr[q].pc \in Over
           /\ pr[p].pc = "new" /\ pr'[p].pc \in {"load", "snapshot", "pick"}
           /\ pr'[p].pre = NoSnapshot /\ pr'[p].restored = FALSE
           /\ pr'[p].pc = "pick" => ~pr'[p].cmd.sess
<1>1. PICK cmd \in Commands : InitialCommand(p, cmd)
  BY DEF Start
<1> DEFINE l == [Fresh EXCEPT !.cmd = cmd]
           pc == IF cmd.op # "up" THEN "load" ELSE IF cmd.sess THEN "snapshot" ELSE "pick"
<1>2. DOMAIN l = LocalNames /\ l.cmd = cmd /\ l.pre = NoSnapshot /\ l.restored = FALSE
  BY DEF LocalNames, Fresh
<1>3. Goes(p, pc, l)
  BY <1>1 DEF InitialCommand
<1> HIDE DEF l
<1>4. /\ \A q \in Proc : q # p => pr'[q] = pr[q]
      /\ pr'[p].pc = pc /\ pr'[p].cmd = cmd /\ pr'[p].pre = NoSnapshot /\ pr'[p].restored = FALSE
  BY <1>2, <1>3, Stepped
<1>5. Running = {}
  BY <1>4, StartsAlone DEF Start, AInv
<1> QED
  BY <1>4, <1>5 DEF Running, Start, At

LEMMA StartC == ASSUME MaxRunning = 1, IInv, AInv, CInv, NEW p \in Proc, Start(p) PROVE CInv'
<1>1. UNCHANGED <<dev, log, comp, met>>
  BY DEF Start
<1>2. /\ \A q \in Proc : q # p => pr'[q].pc \in Over
      /\ pr'[p].pc \in {"load", "snapshot", "pick"} /\ pr'[p].pre = NoSnapshot
      /\ \A q \in Proc : pr[q].pc \in Over
  BY Starts DEF Over
<1>3. ASSUME NEW q \in Proc PROVE Builds(pr[q])' /\ Plans(pr[q])'
  <2>1. CASE q = p
    BY <1>2, <2>1 DEF Builds, Plans, NoSnapshot
  <2>2. CASE q # p
    BY <1>2, <2>2 DEF Builds, Plans, Over, UpSteps
  <2> QED
    BY <2>1, <2>2
<1>4. comp'.on \subseteq comp'.heads
  BY <1>1 DEF CInv
<1>5. ASSUME Together' PROVE Apart' /\ Kept'
  <2>1. Apart /\ Kept
    BY <1>1, <1>5 DEF CInv, Together
  <2>2. Apart'
    BY <1>1, <2>1 DEF Apart, Untaken, RecordedHeads
  <2>3. \A q \in Proc : pr[q].pc \notin Destroying
    BY <1>2 DEF Over, Destroying
  <2>4. Kept'
    BY <1>1, <2>1, <2>3 DEF Kept, Lit, Connectors
  <2> QED
    BY <2>2, <2>4
<1> QED
  BY <1>3, <1>4, <1>5 DEF CInv

LEMMA CrashC == ASSUME IInv, AInv, CInv, NEW p \in Proc, Crash(p) PROVE CInv'
<1> DEFINE l == [Fresh EXCEPT !.pushed = pr[p].pushed]
<1>1. DOMAIN l = LocalNames
  BY DEF LocalNames, Fresh
<1>2. Goes(p, "dead", l) /\ p \in Running /\ UNCHANGED <<dev, log, comp>> /\ Meets("crash")
  BY DEF Crash
<1> HIDE DEF l
<1>3. pr'[p].pc = "dead" /\ \A q \in Proc : q # p => pr'[q] = pr[q]
  BY <1>1, <1>2, Stepped
<1>4. ~Together' /\ met \subseteq met'
  BY <1>2 DEF Meets, Noted, Together
<1>5. comp'.on \subseteq comp'.heads
  BY <1>2 DEF CInv
<1> QED
  BY <1>2, <1>3, <1>4, <1>5, ExitC

(* The compositor's own steps.                                             *)
LEMMA CompositorLeaves ==
    ASSUME IInv, Compositor
    PROVE  /\ UNCHANGED <<dev, log, readable, pr, base, met>>
           /\ comp'.heads \ Conn = comp.heads \ Conn /\ comp'.on \ Conn = comp.on \ Conn
           /\ comp'.kept = comp.kept
           /\ comp.on \subseteq comp.heads => comp'.on \subseteq comp'.heads
<1>2. comp \in CompositorType
  BY DEF IInv, CompSound
<1>0. CASE Hang
  BY <1>0, <1>2 DEF Hang, CompositorType
<1> SUFFICES ASSUME ~Hang
             PROVE  /\ UNCHANGED <<dev, log, readable, pr, base, met>>
                    /\ comp'.heads \ Conn = comp.heads \ Conn /\ comp'.on \ Conn = comp.on \ Conn
                    /\ comp'.kept = comp.kept
                    /\ comp.on \subseteq comp.heads => comp'.on \subseteq comp'.heads
  BY <1>0
<1>1. PICK c \in Conn : Appear(c) \/ Vanish(c)
  BY DEF Compositor
<1>3. CASE Appear(c)
  <2>1. PICK lit \in BOOLEAN :
          comp' = [comp EXCEPT !.heads = @ \cup {c},
                               !.on = IF lit THEN @ \cup {c} ELSE @,
                               !.prim = IF lit /\ @ = None THEN c ELSE @]
    BY <1>3 DEF Appear
  <2>2. /\ comp'.heads = comp.heads \cup {c} /\ comp'.kept = comp.kept
        /\ comp'.on \in {comp.on, comp.on \cup {c}}
    <3>1. CASE lit
      BY <1>2, <2>1, <3>1 DEF CompositorType
    <3>2. CASE ~lit
      BY <1>2, <2>1, <3>2 DEF CompositorType
    <3> QED
      BY <3>1, <3>2
  <2>3. UNCHANGED <<dev, log, readable, pr, base, met>>
    BY <1>3 DEF Appear
  <2> QED
    BY <2>2, <2>3
<1>4. CASE Vanish(c)
  <2>1. /\ comp'.heads = comp.heads \ {c} /\ comp'.kept = comp.kept
        /\ comp'.on = comp.on \ {c}
    <3>1. PICK m : comp' = [comp EXCEPT !.heads = @ \ {c}, !.on = @ \ {c}, !.prim = m]
      BY <1>4 DEF Vanish
    <3> QED
      BY <1>2, <3>1 DEF CompositorType
  <2>2. UNCHANGED <<dev, log, readable, pr, base, met>>
    BY <1>4 DEF Vanish
  <2> QED
    BY <2>1, <2>2
<1> QED
  BY <1>1, <1>3, <1>4

LEMMA StutterC ==
    ASSUME CInv, UNCHANGED <<dev, log, pr, met>>, comp'.on \subseteq comp'.heads
    PROVE  CInv'
<1>1. /\ Apart <=> Apart'
      /\ Kept <=> Kept'
      /\ Together <=> Together'
  BY DEF Apart, Kept, Together, Untaken, RecordedHeads, Lit, Connectors
<1>2. \A p \in Proc : (Builds(pr[p]) => Builds(pr[p])') /\ (Plans(pr[p]) => Plans(pr[p])')
  BY DEF Builds, Plans, Untaken, RecordedHeads, Lit, Connectors
<1> QED
  BY <1>1, <1>2 DEF CInv

LEMMA NextC == ASSUME MaxRunning = 1, IInv, AInv, CInv, [Next]_vars PROVE CInv'
<1>1. ASSUME NEW p \in Proc, Up(p) PROVE CInv'
  BY <1>1, UpEndsC, UpQuietC, DeviceC, RecordC DEF Up
<1>2. CASE Compositor
  BY <1>2, CompositorLeaves, StutterC DEF CInv
<1>3. CASE AllOver \/ UNCHANGED vars
  BY <1>3, StutterC DEF AllOver, vars, CInv
<1> QED
  BY <1>1, <1>2, <1>3, DownC, StartC, CrashC, UpEndsC DEF Next

LEMMA InitC == Init => CInv
<1> SUFFICES ASSUME Init PROVE CInv
  OBVIOUS
<1>1. /\ \A p \in Proc : pr[p] = Fresh /\ pr[p].pc = "new"
      /\ log = << >> /\ Len(log) = 0 /\ 1..0 = {}
  BY DEF Init, Fresh, EmptyState
<1>2. comp.on \subseteq comp.heads
  BY DEF Init
<1>3. \A p \in Proc : Builds(pr[p]) /\ Plans(pr[p])
  BY <1>1 DEF Builds, Plans, UpSteps
<1>4. Apart /\ Kept
  BY <1>1 DEF Apart, Kept, RecordedHeads
<1> QED
  BY <1>2, <1>3, <1>4 DEF CInv

LEMMA Accepts == ASSUME IInv, AInv, CInv PROVE RestorePlanValid
<1> SUFFICES ASSUME NEW p \in Proc, pr[p].pc \in {"restore", "restore2"}, Together
             PROVE  Consistent(RestorePlan(pr[p].st))
  BY DEF RestorePlanValid, Together
<1> DEFINE st == pr[p].st
           plan == RestorePlan(st)
<1>0. st \in Seq(RecordType) /\ Len(st) \in Nat
  BY InvImplies DEF TypeOK, LocalsType
<1>1. \A c \in RecordedHeads(st) : \A i \in 1..Len(st) : c \notin Taken(st[i])
  <2>1. st = log \/ st = << >>
    BY DEF AInv, LInv, Sees, DownSteps, EmptyState
  <2>2. CASE st = log
    BY <2>2 DEF CInv, Apart, Untaken
  <2>3. CASE st = << >>
    <3>1. 1..Len(st) = {}
      BY <2>3
    <3> QED
      BY <3>1
  <2> QED
    BY <2>1, <2>2, <2>3
<1> HIDE DEF st
<1>2. plan.en = Reenabled(st) /\ plan.dis = RecordedHeads(st) /\ plan.prim = FirstPrimary(st)
  BY DEF RestorePlan
<1>3. Reenabled(st) \cap RecordedHeads(st) = {}
  BY <1>1 DEF Reenabled, Taken
<1>4. FirstPrimary(st) \notin RecordedHeads(st)
  <2> DEFINE with == {i \in 1..Len(st) : st[i].prev # None}
             first == CHOOSE i \in with : \A j \in with : i <= j
  <2>1. CASE with = {}
    BY <2>1 DEF FirstPrimary, RecordedHeads
  <2>2. CASE with # {}
    <3>1. with \subseteq Nat
      BY <1>0
    <3>2. \E i \in with : \A j \in with : i <= j
      <4> HIDE DEF with
      <4> QED
        BY <2>2, <3>1, SmallestExists
    <3>3. first \in with
      <4> HIDE DEF with
      <4> QED
        BY <3>2
    <3>4. st[first].prev \in Taken(st[first]) /\ first \in 1..Len(st)
      BY <3>3 DEF Taken
    <3>5. FirstPrimary(st) = st[first].prev
      BY <2>2 DEF FirstPrimary
    <3> HIDE DEF first
    <3> QED
      BY <1>1, <3>4, <3>5
  <2> QED
    BY <2>1, <2>2
<1> HIDE DEF plan
<1> QED
  BY <1>2, <1>3, <1>4 DEF Consistent, plan, st

(* Commands that run one after the other never leave records whose restore *)
(* the plan builder refuses (lifecycle.rs, restore_compositor), unless a   *)
(* run was killed, the store failed, an `up` was given a name in use, or   *)
(* one took a head without a device for a real output.                     *)
THEOREM RestorePlansAreValid == ASSUME MaxRunning = 1 PROVE Spec => []RestorePlanValid
<1>1. Init => CInv
  BY InitC
<1>2. IInv /\ AInv /\ CInv /\ [Next]_vars => CInv'
  BY NextC
<1>3. IInv /\ AInv /\ CInv => RestorePlanValid
  BY Accepts
<1>4. Spec => []IInv /\ []AInv
  BY Invariance, OneAtATime, PTL
<1> QED
  BY <1>1, <1>2, <1>3, <1>4, PTL DEF Spec

-----------------------------------------------------------------------------
(* The layout comes back.                                                  *)

(* What Recalled and Remembered ask of the one invocation that runs.       *)
RecallsOwn(l) ==
    /\ l.pc # "record" => Missed \subseteq Reenabled(log)
    /\ l.pc = "record" => Missed \subseteq Reenabled(log) \cup l.dis
    /\ l.pc \in {"plugs", "unplug", "gone", "destroy", "sweep", "clear"} /\ l.restored =>
          Missed = {}

RemembersOwn(l) ==
    /\ l.pc \in {"pick", "mkdir", "commit", "push"} /\ l.cmd.sess /\ log = << >> =>
          base.on \subseteq l.pre.geo
    /\ l.pc \in UpSteps => base.on \cap l.pre.on \subseteq l.pre.geo

Places == base.on \subseteq comp.kept /\ (log # << >> => base.on \subseteq log[1].snap.geo)

Seen == Intact /\ "blind" \notin met

LEMMA OwnD ==
    ASSUME NEW p \in Proc, \A q \in Proc : q # p => pr'[q].pc \in Over,
           Real \subseteq comp'.heads, Follows(pr[p])', Intact' => RecallsOwn(pr[p])',
           Seen' => Places' /\ RemembersOwn(pr[p])'
    PROVE  DInv'
<1>1. \A q \in Proc : q # p => Follows(pr[q])'
  BY DEF Follows, Over, Attaching
<1>2. Intact' => Recalled'
  BY DEF RecallsOwn, Recalled, Tearing, At, Over
<1>3. Seen' => Remembered'
  BY DEF RemembersOwn, Remembered, Places, Over, UpSteps
<1> QED
  BY <1>1, <1>2, <1>3 DEF DInv, Seen

LEMMA HoldsD ==
    ASSUME AInv, DInv, NEW p \in Proc, p \in Running
    PROVE  /\ \A q \in Proc : q # p => pr[q].pc \in Over
           /\ Real \subseteq comp.heads /\ Follows(pr[p])
           /\ Intact => RecallsOwn(pr[p])
           /\ Seen => Places /\ RemembersOwn(pr[p])
<1>1. \A q \in Proc : q # p => pr[q].pc \in Over
  BY OthersRest DEF AInv
<1>2. Intact => RecallsOwn(pr[p])
  <2>1. pr[p].pc # "record" => \A q \in Proc : pr[q].pc # "record"
    BY <1>1 DEF Over
  <2> QED
    BY <2>1 DEF DInv, Recalled, RecallsOwn, Tearing, At
<1>3. Seen => Places /\ RemembersOwn(pr[p])
  BY DEF Seen, DInv, Remembered, Places, RemembersOwn
<1> QED
  BY <1>1, <1>2, <1>3 DEF DInv

(* A step that leaves the compositor and the records alone.                *)
LEMMA StillD ==
    ASSUME AInv, DInv, NEW p \in Proc, p \in Running, \A q \in Proc : q # p => pr'[q] = pr[q],
           UNCHANGED <<log, comp, base>>, met \subseteq met', Follows(pr[p])',
           Intact' => pr[p].pc # "record" /\ pr'[p].pc # "record",
           Intact' /\ pr'[p].pc \in {"plugs", "unplug", "gone", "destroy", "sweep", "clear"}
              /\ pr'[p].restored => Missed = {},
           Seen' => RemembersOwn(pr[p])'
    PROVE  DInv'
<1>1. /\ Intact' => Intact
      /\ Seen' => Seen
  BY DEF Intact, Seen
<1>2. \A q \in Proc : q # p => pr'[q].pc \in Over
  BY HoldsD
<1>3. Intact' => RecallsOwn(pr[p])'
  BY <1>1, HoldsD DEF RecallsOwn, Missed, Reenabled
<1>4. Seen' => Places'
  BY <1>1, HoldsD DEF Places
<1>5. Real \subseteq comp'.heads
  BY HoldsD
<1> QED
  BY <1>2, <1>3, <1>4, <1>5, OwnD

(* What an applied plan makes of the user's outputs.                       *)
LEMMA AppliedD ==
    ASSUME IInv, NEW plan, Effective(plan), Real \subseteq comp.heads, UNCHANGED base
    PROVE  /\ Real \subseteq comp'.heads
           /\ Missed' = {r \in base.on : r \notin plan.en /\ (r \in comp.on => r \in plan.dis)}
           /\ base.on \subseteq comp.kept /\ base.on \cap plan.en \subseteq plan.geo =>
                 base.on \subseteq comp'.kept
<1>1. base.on \subseteq Real
  BY DEF IInv, RestTyped
<1>2. /\ comp'.on = OnAfter(plan) /\ comp'.heads = comp.heads /\ comp'.kept = KeptAfter(plan)
  BY DEF Effective, IInv, CompSound, CompositorType
<1>3. Missed' = {r \in base.on : r \notin plan.en /\ (r \in comp.on => r \in plan.dis)}
  BY <1>1, <1>2 DEF Missed, OnAfter
<1>4. ASSUME base.on \subseteq comp.kept, base.on \cap plan.en \subseteq plan.geo
      PROVE  base.on \subseteq comp'.kept
  BY <1>1, <1>2, <1>4 DEF KeptAfter
<1> QED
  BY <1>2, <1>3, <1>4

LEMMA MovesD ==
    ASSUME IInv, AInv, DInv, NEW p \in Proc, NEW pc, NEW l, DOMAIN l = LocalNames,
           Goes(p, pc, l), p \in Running, UNCHANGED <<log, readable, comp, base>>, met \subseteq met',
           NEW m, m = [l EXCEPT !.pc = pc], Follows(m),
           pr[p].pc # "record" /\ pc # "record",
           Intact /\ pc \in {"plugs", "unplug", "gone", "destroy", "sweep", "clear"}
              /\ m.restored => Missed = {},
           Seen => RemembersOwn(m)
    PROVE  DInv'
<1>1. /\ pr'[p] = m /\ \A q \in Proc : q # p => pr'[q] = pr[q]
      /\ m.pc = pc
  BY DEF Goes, IInv, PrSound, LocalNames, Fresh
<1>2. Follows(pr[p])'
  BY <1>1 DEF Follows
<1>3. Seen' => RemembersOwn(pr[p])'
  BY <1>1 DEF Seen, Intact, RemembersOwn
<1>4. Intact' => Intact
  BY DEF Intact
<1> QED
  BY <1>1, <1>2, <1>3, <1>4, StillD

LEMMA ExitD ==
    ASSUME IInv, AInv, DInv, NEW p \in Proc, p \in Running, NEW o, Exits(p, o),
           UNCHANGED <<log, comp, base>>, met \subseteq met', Intact' => pr[p].pc # "record"
    PROVE  DInv'
<1>1. pr'[p].pc = "exit" /\ \A q \in Proc : q # p => pr'[q] = pr[q]
  BY Exited
<1>2. Follows(pr[p])' /\ RemembersOwn(pr[p])'
  BY <1>1 DEF Follows, RemembersOwn, Attaching, UpSteps
<1> QED
  BY <1>1, <1>2, StillD

(* After a plan that took effect and was reported as failed all bets on    *)
(* the layout are off.                                                     *)
LEMMA LateD ==
    ASSUME IInv, AInv, DInv, NEW p \in Proc, p \in Running, NEW plan, Late(plan),
           \A q \in Proc : q # p => pr'[q] = pr[q], UNCHANGED base, Follows(pr[p])'
    PROVE  DInv'
<1>1. ~Intact' /\ ~Seen'
  BY DEF Late, Meets, Noted, Intact, Seen
<1>2. Real \subseteq comp'.heads
  BY HoldsD, AppliedD DEF Late
<1>3. \A q \in Proc : q # p => pr'[q].pc \in Over
  BY HoldsD
<1> QED
  BY <1>1, <1>2, <1>3, OwnD

LEMMA UpEndsD ==
    ASSUME IInv, AInv, DInv, NEW p \in Proc,
           \/ SnapshotFails(p) \/ PushFails(p) \/ AwaitTimeout(p) \/ ApplyFails(p) \/ AttachFails(p)
           \/ Rollback(p)
    PROVE  DInv'
<1>1. CASE SnapshotFails(p)
  <2>1. /\ p \in Running /\ \E o : Exits(p, o)
        /\ UNCHANGED <<log, comp, base>> /\ met \subseteq met' /\ pr[p].pc # "record"
    BY <1>1 DEF SnapshotFails, Running, Over, Meets
  <2> QED
    BY <2>1, ExitD
<1>2. CASE PushFails(p)
  <2>1. /\ p \in Running /\ Exits(p, "err")
        /\ UNCHANGED <<log, comp, base>> /\ met \subseteq met' /\ pr[p].pc # "record"
    BY <1>2 DEF PushFails, Running, Over, Meets, At
  <2> QED
    BY <2>1, ExitD
<1>3. CASE AwaitTimeout(p)
  <2>1. /\ p \in Running /\ Exits(p, "ok")
        /\ UNCHANGED <<log, comp, base>> /\ met \subseteq met' /\ pr[p].pc # "record"
    BY <1>3 DEF AwaitTimeout, Running, Over, Meets, At
  <2> QED
    BY <2>1, ExitD
<1>4. CASE Rollback(p)
  <2>1. /\ p \in Running /\ Exits(p, "err") /\ Removes(p, pr[p].slot)
        /\ UNCHANGED <<log, comp, base>> /\ pr[p].pc # "record"
    BY <1>4 DEF Rollback, Running, Over, At
  <2>2. met \subseteq met'
    BY <2>1, RemoveLeaves
  <2> QED
    BY <2>1, <2>2, ExitD
<1>5. CASE AttachFails(p)
  <2>1. /\ pr[p].pc \in {"claim", "name", "owned", "record"} /\ Exits(p, "ok")
        /\ UNCHANGED <<log, comp, base>> /\ met \subseteq met'
    BY <1>5 DEF AttachFails, Meets, At
  <2>2. p \in Running
    BY <2>1 DEF Running, Over
  <2>3. ASSUME Intact' PROVE pr[p].pc # "record"
    <3>1. ~Meets("store")
      BY <2>3 DEF Meets, Noted, Intact
    <3>2. readable \/ pr[p].pc \notin Attaching
      BY <2>2, HoldsD DEF Follows
    <3> QED
      BY <1>5, <3>1, <3>2 DEF AttachFails, At, Attaching
  <2> QED
    BY <2>1, <2>2, <2>3, ExitD
<1>6. CASE ApplyFails(p)
  <2>1. /\ pr[p].pc \in {"enable", "layout"} /\ Exits(p, "ok")
        /\ UNCHANGED <<log, base>>
        /\ \E plan : Refused(plan) \/ Late(plan)
    BY <1>6 DEF ApplyFails, At
  <2>2. p \in Running
    BY <2>1 DEF Running, Over
  <2>3. PICK plan : Refused(plan) \/ Late(plan)
    BY <2>1
  <2>4. CASE Refused(plan)
    <3>1. UNCHANGED comp /\ met \subseteq met'
      BY <2>4 DEF Refused, Meets
    <3> QED
      BY <2>1, <2>2, <3>1, ExitD
  <2>5. CASE Late(plan)
    <3>1. pr'[p].pc = "exit" /\ \A q \in Proc : q # p => pr'[q] = pr[q]
      BY <2>1, Exited
    <3>2. Follows(pr[p])'
      BY <3>1 DEF Follows, Attaching
    <3> QED
      BY <2>1, <2>2, <2>5, <3>1, <3>2, LateD
  <2> QED
    BY <2>3, <2>4, <2>5
<1> QED
  BY <1>1, <1>2, <1>3, <1>4, <1>5, <1>6

LEMMA UpQuietD ==
    ASSUME IInv, AInv, DInv, NEW p \in Proc,
           \/ UpSnapshot(p) \/ Pick(p) \/ Mkdir(p) \/ Commit(p) \/ CommitFails(p) \/ Claim(p)
           \/ AwaitHead(p) \/ Owned(p)
    PROVE  DInv'
<1>0. /\ DOMAIN pr[p] = LocalNames /\ UNCHANGED <<log, readable, comp, base>> /\ met \subseteq met'
      /\ p \in Running /\ pr[p].pc \in UpSteps \ {"record"}
  <2>1. CASE UpSnapshot(p) \/ Pick(p) \/ Mkdir(p) \/ Commit(p) \/ CommitFails(p)
    BY <2>1, LocalsNamed
       DEF UpSnapshot, Pick, Mkdir, Commit, CommitFails, Meets, At, Running, Over, UpSteps
  <2>2. CASE Claim(p) \/ AwaitHead(p) \/ Owned(p)
    BY <2>2, LocalsNamed DEF Claim, AwaitHead, Owned, At, Running, Over, UpSteps
  <2> QED
    BY <2>1, <2>2
<1>1. /\ Follows(pr[p]) /\ (Intact => RecallsOwn(pr[p]))
      /\ Seen => Places /\ RemembersOwn(pr[p])
  BY <1>0, HoldsD
<1> DEFINE Tears(pc) == pc \in {"plugs", "unplug", "gone", "destroy", "sweep", "clear"}
<1>2. CASE UpSnapshot(p)
  <2> DEFINE l == [pr[p] EXCEPT !.pre = Snapshot]
             m == [l EXCEPT !.pc = "pick"]
  <2>1. DOMAIN l = LocalNames /\ m.pc = "pick" /\ m.pre = Snapshot
    BY <1>0 DEF LocalNames, Fresh
  <2>2. Goes(p, "pick", l) /\ pr[p].pc = "snapshot"
    BY <1>2 DEF UpSnapshot, At
  <2> HIDE DEF m
  <2>3. ASSUME Seen PROVE RemembersOwn(m)
    <3>1. base.on \cap comp.on \subseteq Snapshot.geo /\ Snapshot.on = comp.on
      BY <1>1, <2>3 DEF Places, Snapshot
    <3>2. ASSUME log = << >> PROVE base.on \subseteq Snapshot.geo
      <4>1. Reenabled(log) = {}
        BY <3>2 DEF Reenabled
      <4>2. base.on \subseteq comp.on
        BY <1>1, <2>2, <2>3, <4>1 DEF RecallsOwn, Missed, Seen
      <4> QED
        BY <3>1, <4>2
    <3> QED
      BY <2>1, <3>1, <3>2 DEF RemembersOwn
  <2>4. Follows(m)
    BY <2>1 DEF Follows, Attaching
  <2> QED
    BY <1>0, <2>1, <2>2, <2>3, <2>4, MovesD DEF m
<1>3. CASE Pick(p)
  <2>1. PICK free : Goes(p, "mkdir", [pr[p] EXCEPT !.slot = free])
    BY <1>3 DEF Pick
  <2> DEFINE l == [pr[p] EXCEPT !.slot = free]
             m == [l EXCEPT !.pc = "mkdir"]
  <2>2. DOMAIN l = LocalNames /\ m.pc = "mkdir" /\ m.pre = pr[p].pre /\ m.cmd = pr[p].cmd
    BY <1>0 DEF LocalNames, Fresh
  <2>3. Goes(p, "mkdir", l) /\ pr[p].pc = "pick"
    BY <1>3, <2>1 DEF Pick, At
  <2> HIDE DEF m
  <2>4. Follows(m) /\ (Seen => RemembersOwn(m))
    BY <1>1, <2>2, <2>3 DEF Follows, Attaching, RemembersOwn, UpSteps
  <2> QED
    BY <1>0, <2>2, <2>3, <2>4, MovesD DEF m
<1>4. CASE Mkdir(p) \/ Commit(p) \/ CommitFails(p)
  <2>1. PICK pc \in {"commit", "push", "rollback"} : Goes(p, pc, pr[p])
    BY <1>4 DEF Mkdir, Commit, CommitFails
  <2>2. pr[p].pc \in {"mkdir", "commit"}
    BY <1>4 DEF Mkdir, Commit, CommitFails, At
  <2> DEFINE m == [pr[p] EXCEPT !.pc = pc]
  <2>3. m.pc = pc /\ m.pre = pr[p].pre /\ m.cmd = pr[p].cmd
    BY <1>0 DEF LocalNames, Fresh
  <2> HIDE DEF m
  <2>4. Follows(m) /\ (Seen => RemembersOwn(m))
    BY <1>1, <2>2, <2>3 DEF Follows, Attaching, RemembersOwn, UpSteps
  <2> QED
    BY <1>0, <2>1, <2>2, <2>4, MovesD DEF m
<1>5. CASE Claim(p)
  <2>0. pr[p].pc = "claim"
    BY <1>5 DEF Claim, At
  <2>1. CASE Exits(p, "ok")
    BY <1>0, <2>0, <2>1, ExitD
  <2>2. CASE Goes(p, "await", [pr[p] EXCEPT !.names = Connectors(pr[p].slot)])
    <3> DEFINE l == [pr[p] EXCEPT !.names = Connectors(pr[p].slot)]
               m == [l EXCEPT !.pc = "await"]
    <3>1. /\ DOMAIN l = LocalNames /\ m.pc = "await" /\ m.pre = pr[p].pre
          /\ m.slot = pr[p].slot
      BY <1>0 DEF LocalNames, Fresh
    <3>2. Goes(p, "await", l)
      BY <2>2
    <3> HIDE DEF m
    <3>3. Follows(m) /\ (Seen => RemembersOwn(m))
      BY <1>1, <2>0, <3>1 DEF Follows, Attaching, RemembersOwn, UpSteps
    <3> QED
      BY <1>0, <3>1, <3>2, <3>3, MovesD DEF m
  <2> QED
    BY <1>5, <2>1, <2>2 DEF Claim
<1>6. CASE AwaitHead(p)
  <2>1. PICK h : Goes(p, "name", [pr[p] EXCEPT !.head = h, !.names = {}])
    BY <1>6 DEF AwaitHead
  <2>2. pr[p].pc = "await"
    BY <1>6 DEF AwaitHead, At
  <2> DEFINE l == [pr[p] EXCEPT !.head = h, !.names = {}]
             m == [l EXCEPT !.pc = "name"]
  <2>3. DOMAIN l = LocalNames /\ m.pc = "name" /\ m.pre = pr[p].pre /\ m.slot = pr[p].slot
    BY <1>0 DEF LocalNames, Fresh
  <2>4. Goes(p, "name", l)
    BY <2>1
  <2> HIDE DEF m
  <2>5. Follows(m) /\ (Seen => RemembersOwn(m))
    BY <1>1, <2>2, <2>3 DEF Follows, Attaching, RemembersOwn, UpSteps
  <2> QED
    BY <1>0, <2>3, <2>4, <2>5, MovesD DEF m
<1>7. CASE Owned(p)
  <2> DEFINE l == [pr[p] EXCEPT !.real = pr[p].pre.on \ RecordedHeads(log)]
             m == [l EXCEPT !.pc = "layout"]
  <2>1. DOMAIN l = LocalNames /\ m.pc = "layout" /\ m.pre = pr[p].pre /\ m.slot = pr[p].slot
    BY <1>0 DEF LocalNames, Fresh
  <2>2. Goes(p, "layout", l) /\ pr[p].pc = "owned"
    BY <1>7 DEF Owned, At
  <2> HIDE DEF m
  <2>3. Follows(m) /\ (Seen => RemembersOwn(m))
    BY <1>1, <2>1, <2>2 DEF Follows, Attaching, RemembersOwn, UpSteps
  <2> QED
    BY <1>0, <2>1, <2>2, <2>3, MovesD DEF m
<1> QED
  BY <1>2, <1>3, <1>4, <1>5, <1>6, <1>7

(* The plans of an `up`.                                                   *)
LEMMA UpAppliesD ==
    ASSUME IInv, AInv, DInv, NEW p \in Proc, EnableHead(p) \/ Layout(p)
    PROVE  DInv'
<1>0. /\ DOMAIN pr[p] = LocalNames /\ UNCHANGED <<log, readable, base, met>>
      /\ p \in Running /\ pr[p].pc \in {"enable", "layout"}
  BY LocalsNamed DEF EnableHead, Layout, Accepted, At, Running, Over
<1>1. /\ Follows(pr[p]) /\ (Intact => RecallsOwn(pr[p]))
      /\ Seen => Places /\ RemembersOwn(pr[p])
      /\ Real \subseteq comp.heads /\ \A q \in Proc : q # p => pr[q].pc \in Over
  BY <1>0, HoldsD
<1>2. base.on \subseteq Real /\ pr[p].head \notin Real
  BY NamesDiffer, InvImplies DEF IInv, RestTyped, TypeOK, LocalsType
<1>3. Seen => base.on \cap pr[p].pre.on \subseteq pr[p].pre.geo
  BY <1>0, <1>1 DEF RemembersOwn, UpSteps
<1>4. (Intact' <=> Intact) /\ (Seen' <=> Seen)
  BY <1>0 DEF Intact, Seen
<1>5. CASE EnableHead(p)
  <2> DEFINE plan == EnablePlan(p)
  <2>1. /\ Effective(plan) /\ Goes(p, "owned", pr[p]) /\ pr[p].pc = "enable"
    BY <1>5 DEF EnableHead, Accepted, At
  <2>2. /\ plan.dis = {} /\ plan.en = pr[p].pre.on \cup {pr[p].head}
        /\ plan.geo = pr[p].pre.geo \cap pr[p].pre.on
    BY DEF EnablePlan
  <2> HIDE DEF plan
  <2>3. /\ \A q \in Proc : q # p => pr'[q] = pr[q]
        /\ pr'[p].pc = "owned" /\ pr'[p].slot = pr[p].slot /\ pr'[p].pre = pr[p].pre
    BY <1>0, <2>1, Stepped
  <2>4. Real \subseteq comp'.heads /\ Missed' \subseteq Missed
    BY <1>0, <1>1, <2>1, <2>2, AppliedD DEF Missed
  <2>5. ASSUME Seen PROVE base.on \subseteq comp'.kept
    <3>1. base.on \cap plan.en \subseteq plan.geo
      BY <1>2, <1>3, <2>2, <2>5
    <3>2. base.on \subseteq comp.kept
      BY <1>1, <2>5 DEF Places
    <3> QED
      BY <1>0, <1>1, <2>1, <3>1, <3>2, AppliedD
  <2>6. Follows(pr[p])'
    BY <1>0, <1>1, <2>1, <2>3 DEF Follows, Attaching
  <2>7. Intact' => RecallsOwn(pr[p])'
    BY <1>0, <1>1, <1>4, <2>1, <2>3, <2>4 DEF RecallsOwn, Reenabled
  <2>8. Seen' => Places' /\ RemembersOwn(pr[p])'
    BY <1>0, <1>1, <1>3, <1>4, <2>3, <2>5 DEF Places, RemembersOwn
  <2> QED
    BY <1>1, <2>3, <2>4, <2>6, <2>7, <2>8, OwnD
<1>6. CASE Layout(p)
  <2> DEFINE plan == LayoutPlan(p)
             dis == Disabled(p)
  <2>1. PICK first : Goes(p, "record", [pr[p] EXCEPT !.dis = dis, !.prev = first])
    BY <1>6 DEF Layout
  <2>2. Effective(plan) /\ pr[p].pc = "layout"
    BY <1>6 DEF Layout, Accepted, At
  <2>3. /\ plan.dis = dis /\ plan.en = (pr[p].pre.on \ dis) \cup {pr[p].head}
        /\ plan.geo = pr[p].pre.geo \cap pr[p].pre.on
    BY DEF LayoutPlan
  <2> DEFINE l == [pr[p] EXCEPT !.dis = dis, !.prev = first]
  <2>4. /\ DOMAIN l = LocalNames /\ l.dis = dis /\ l.slot = pr[p].slot /\ l.pre = pr[p].pre
    BY <1>0 DEF LocalNames, Fresh
  <2>5. Goes(p, "record", l)
    BY <2>1
  <2> HIDE DEF plan, l, dis
  <2>6. /\ \A q \in Proc : q # p => pr'[q] = pr[q]
        /\ pr'[p].pc = "record" /\ pr'[p].slot = pr[p].slot /\ pr'[p].pre = pr[p].pre
        /\ pr'[p].dis = dis
    BY <2>4, <2>5, Stepped
  <2>7. Real \subseteq comp'.heads /\ Missed' \subseteq Missed \cup dis
    BY <1>0, <1>1, <2>2, <2>3, AppliedD DEF Missed
  <2>8. ASSUME Seen PROVE base.on \subseteq comp'.kept
    <3>1. base.on \cap plan.en \subseteq plan.geo
      BY <1>2, <1>3, <2>3, <2>8
    <3>2. base.on \subseteq comp.kept
      BY <1>1, <2>8 DEF Places
    <3> QED
      BY <1>0, <1>1, <2>2, <3>1, <3>2, AppliedD
  <2>9. Follows(pr[p])'
    BY <1>0, <1>1, <2>2, <2>6 DEF Follows, Attaching
  <2>10. Intact' => RecallsOwn(pr[p])'
    BY <1>0, <1>1, <1>4, <2>2, <2>6, <2>7 DEF RecallsOwn, Reenabled
  <2>11. Seen' => Places' /\ RemembersOwn(pr[p])'
    BY <1>0, <1>1, <1>3, <1>4, <2>6, <2>8 DEF Places, RemembersOwn
  <2> QED
    BY <1>1, <2>6, <2>7, <2>9, <2>10, <2>11, OwnD
<1> QED
  BY <1>5, <1>6

(* The newest record of a device is the last one if that one is its own.   *)
LEMMA LastIsNewest ==
    ASSUME NEW st \in Seq(RecordType), st # << >>, NEW id, st[Len(st)].id = id
    PROVE  Matches(st, id) # {} /\ Newest(st, id) = Len(st) /\ Len(st) \in 1..Len(st)
<1>1. Len(st) \in Nat /\ Len(st) # 0
  OBVIOUS
<1>2. Len(st) \in Matches(st, id) /\ \A j \in Matches(st, id) : j \in Nat /\ j <= Len(st)
  BY <1>1 DEF Matches
<1>3. \A i \in Matches(st, id) : (\A j \in Matches(st, id) : j <= i) => i = Len(st)
  BY <1>1, <1>2
<1>4. Newest(st, id) = Len(st)
  BY <1>2, <1>3 DEF Newest
<1> QED
  BY <1>1, <1>2, <1>4

(* The steps of `up` that change the records.                              *)
LEMMA PushD == ASSUME IInv, AInv, DInv, NEW p \in Proc, Push(p) PROVE DInv'
<1> DEFINE r == InstanceRecord(p)
           n == Len(log)
<1>0. /\ DOMAIN pr[p] = LocalNames /\ log \in Seq(RecordType) /\ n \in Nat
      /\ pr[p].pc = "push" /\ readable /\ p \in Running
      /\ UNCHANGED <<readable, comp, base>> /\ met \subseteq met'
  BY LocalsNamed, InvImplies DEF Push, TypeOK, At, Running, Over
<1>1. /\ Intact => RecallsOwn(pr[p])
      /\ Seen => Places /\ RemembersOwn(pr[p])
      /\ Real \subseteq comp.heads /\ \A q \in Proc : q # p => pr[q].pc \in Over
  BY <1>0, HoldsD
<1>2. r.id = pr[p].slot /\ r.dis = {} /\ r.snap = pr[p].pre /\ log' = Append(log, r)
  BY DEF InstanceRecord, Push, Pushed
<1> HIDE DEF r
<1>3. /\ Len(log') = n + 1 /\ log'[n + 1] = r /\ log' # << >>
      /\ \A i \in 1..n : log'[i] = log[i]
      /\ 1..(n + 1) = 1..n \cup {n + 1}
  BY <1>0, <1>2
<1>4. Reenabled(log') = Reenabled(log)
  BY <1>2, <1>3 DEF Reenabled
<1>5. \/ /\ pr[p].cmd.sess /\ UNCHANGED met
         /\ pr'[p].pc = "claim" /\ pr'[p].pre = pr[p].pre /\ pr'[p].slot = pr[p].slot
      \/ pr'[p].pc = "exit" /\ ~Seen'
  <2>1. CASE pr[p].cmd.sess
    <3> DEFINE l == [pr[p] EXCEPT !.pushed = TRUE]
    <3>1. DOMAIN l = LocalNames /\ l.pre = pr[p].pre /\ l.slot = pr[p].slot
      BY <1>0 DEF LocalNames, Fresh
    <3>2. Goes(p, "claim", l) /\ UNCHANGED met
      BY <2>1 DEF Push
    <3> HIDE DEF l
    <3> QED
      BY <2>1, <3>1, <3>2, Stepped
  <2>2. CASE ~pr[p].cmd.sess
    <3> DEFINE l == [Fresh EXCEPT !.out = "ok", !.pushed = TRUE]
    <3>1. DOMAIN l = LocalNames
      BY DEF LocalNames, Fresh
    <3>2. Goes(p, "exit", l) /\ met' = met \cup {"blind"}
      BY <2>2 DEF Push
    <3> HIDE DEF l
    <3> QED
      BY <3>1, <3>2, Stepped DEF Seen
  <2> QED
    BY <2>1, <2>2
<1>6. \A q \in Proc : q # p => pr'[q] = pr[q]
  BY UpStays DEF Up
<1>7. Follows(pr[p])'
  <2>1. Len(log') \in Nat /\ log'[Len(log')] = r
    BY <1>0, <1>3
  <2> QED
    BY <1>0, <1>2, <1>3, <1>5, <2>1 DEF Follows, Attaching
<1>8. Intact' => RecallsOwn(pr[p])'
  BY <1>0, <1>1, <1>4, <1>5 DEF RecallsOwn, Intact, Missed
<1>9. ASSUME Seen' PROVE Places' /\ RemembersOwn(pr[p])'
  <2>1. Seen /\ pr[p].cmd.sess /\ pr'[p].pc = "claim" /\ pr'[p].pre = pr[p].pre
    BY <1>0, <1>5, <1>9 DEF Seen, Intact
  <2>2. base.on \cap pr[p].pre.on \subseteq pr[p].pre.geo
    BY <1>0, <1>1, <2>1 DEF RemembersOwn, UpSteps
  <2>3. base.on \subseteq log'[1].snap.geo
    <3>1. CASE log = << >>
      <4>1. log'[1] = r
        BY <1>3, <3>1
      <4>2. base.on \subseteq pr[p].pre.geo
        BY <1>0, <1>1, <2>1, <3>1 DEF RemembersOwn
      <4> QED
        BY <1>2, <4>1, <4>2
    <3>2. CASE log # << >>
      <4>1. log'[1] = log[1]
        BY <1>0, <1>3, <3>2
      <4> QED
        BY <1>1, <2>1, <3>2, <4>1 DEF Places
    <3> QED
      BY <3>1, <3>2
  <2>4. Places'
    BY <1>0, <1>1, <2>1, <2>3 DEF Places
  <2>5. RemembersOwn(pr[p])'
    BY <1>0, <2>1, <2>2 DEF RemembersOwn
  <2> QED
    BY <2>4, <2>5
<1> QED
  BY <1>0, <1>1, <1>6, <1>7, <1>8, <1>9, OwnD

LEMMA NameHeadD == ASSUME IInv, AInv, DInv, NEW p \in Proc, NameHead(p) PROVE DInv'
<1> DEFINE id == pr[p].slot
           r == [Found(id) EXCEPT !.head = pr[p].head]
<1>0. /\ DOMAIN pr[p] = LocalNames /\ log \in Seq(RecordType) /\ Len(log) \in Nat
      /\ pr[p].pc = "name" /\ p \in Running /\ Goes(p, "enable", pr[p])
      /\ UNCHANGED <<readable, comp, base, met>> /\ log' = Replaced(log, id, r)
  BY LocalsNamed, InvImplies DEF NameHead, Updates, TypeOK, At, Running, Over
<1>1. /\ Intact => RecallsOwn(pr[p])
      /\ Seen => Places /\ RemembersOwn(pr[p])
      /\ Real \subseteq comp.heads /\ \A q \in Proc : q # p => pr[q].pc \in Over
      /\ Follows(pr[p])
  BY <1>0, HoldsD
<1>2. /\ \A q \in Proc : q # p => pr'[q] = pr[q]
      /\ pr'[p].pc = "enable" /\ pr'[p].pre = pr[p].pre /\ pr'[p].slot = id
  BY <1>0, Stepped
<1>3. Len(log') = Len(log)
  BY <1>0, ReplacedFields
<1>4. ASSUME NEW i \in 1..Len(log)
      PROVE  log'[i].id = log[i].id /\ log'[i].dis = log[i].dis /\ log'[i].snap = log[i].snap
  <2>1. CASE log'[i] = log[i]
    BY <2>1
  <2>2. CASE log'[i] = r /\ i = Newest(log, id)
    <3>1. log[i] \in RecordType /\ r = [log[i] EXCEPT !.head = pr[p].head]
      BY <1>0, <2>2 DEF Found
    <3> QED
      BY <2>2, <3>1 DEF RecordType
  <2> HIDE DEF r
  <2> QED
    BY <1>0, <2>1, <2>2, ReplacedFields
<1> HIDE DEF r
<1>5. Reenabled(log') = Reenabled(log)
  BY <1>3, <1>4 DEF Reenabled
<1>6. log # << >> /\ 1 \in 1..Len(log) /\ Len(log) \in 1..Len(log) /\ log' # << >>
  <2>1. log # << >>
    BY <1>0, <1>1 DEF Follows, Attaching
  <2>2. 1 \in 1..Len(log) /\ Len(log) \in 1..Len(log)
    BY <1>0, <2>1
  <2> QED
    BY <1>3, <2>1, <2>2
<1>7. Follows(pr[p])'
  BY <1>0, <1>1, <1>2, <1>3, <1>4, <1>6 DEF Follows, Attaching
<1>8. Intact' => RecallsOwn(pr[p])'
  BY <1>0, <1>1, <1>2, <1>5 DEF RecallsOwn, Intact, Missed
<1>9. Seen' => Places' /\ RemembersOwn(pr[p])'
  <2>1. Seen' => Seen
    BY <1>0 DEF Seen, Intact
  <2>2. Seen' => Places'
    BY <1>0, <1>1, <1>4, <1>6, <2>1 DEF Places
  <2>3. Seen' => RemembersOwn(pr[p])'
    BY <1>0, <1>1, <1>2, <2>1 DEF RemembersOwn, UpSteps
  <2> QED
    BY <2>2, <2>3
<1> QED
  BY <1>0, <1>1, <1>2, <1>7, <1>8, <1>9, OwnD

LEMMA RecordD == ASSUME IInv, AInv, DInv, NEW p \in Proc, Record(p) PROVE DInv'
<1> DEFINE id == pr[p].slot
           n == Len(log)
           r == [Found(id) EXCEPT !.dis = pr[p].dis, !.prev = pr[p].prev]
<1>0. /\ log \in Seq(RecordType) /\ n \in Nat
      /\ pr[p].pc = "record" /\ p \in Running /\ Exits(p, "ok")
      /\ UNCHANGED <<readable, comp, base, met>> /\ log' = Replaced(log, id, r)
  BY InvImplies DEF Record, Updates, TypeOK, At, Running, Over
<1>1. /\ Intact => RecallsOwn(pr[p])
      /\ Seen => Places /\ RemembersOwn(pr[p])
      /\ Real \subseteq comp.heads /\ \A q \in Proc : q # p => pr[q].pc \in Over
      /\ Follows(pr[p])
  BY <1>0, HoldsD
<1>2. pr'[p].pc = "exit" /\ \A q \in Proc : q # p => pr'[q] = pr[q]
  BY <1>0, Exited
<1>3. log # << >> /\ log[n].id = id /\ log[n].dis = {}
  BY <1>0, <1>1 DEF Follows, Attaching
<1>4. Matches(log, id) # {} /\ Newest(log, id) = n /\ n \in 1..n /\ 1 \in 1..n
  BY <1>0, <1>3, LastIsNewest
<1>5. r.dis = pr[p].dis /\ r.snap = log[n].snap
  <2>1. log[n] \in RecordType /\ r = [log[n] EXCEPT !.dis = pr[p].dis, !.prev = pr[p].prev]
    BY <1>0, <1>4 DEF Found
  <2> QED
    BY <2>1 DEF RecordType
<1> HIDE DEF r
<1>6. Len(log') = n /\ \A i \in 1..n : log'[i] = IF i = n THEN r ELSE log[i]
  BY <1>0, <1>4, ReplacedFields
<1> HIDE DEF n
<1>7. Reenabled(log) \cup pr[p].dis \subseteq Reenabled(log')
  <2>1. \A i \in 1..n : log[i].dis \subseteq log'[i].dis
    BY <1>3, <1>6
  <2>2. Reenabled(log) \subseteq Reenabled(log')
    BY <1>6, <2>1 DEF Reenabled, n
  <2>3. pr[p].dis \subseteq Reenabled(log')
    BY <1>4, <1>5, <1>6 DEF Reenabled
  <2> QED
    BY <2>2, <2>3
<1>8. Follows(pr[p])'
  BY <1>2 DEF Follows, Attaching
<1>9. Intact' => RecallsOwn(pr[p])'
  BY <1>0, <1>1, <1>2, <1>7 DEF RecallsOwn, Intact, Missed
<1>10. Seen' => Places' /\ RemembersOwn(pr[p])'
  <2>1. log'[1].snap = log[1].snap
    BY <1>4, <1>5, <1>6
  <2>2. Seen' => Places'
    BY <1>0, <1>1, <1>3, <2>1 DEF Places, Seen, Intact
  <2>3. RemembersOwn(pr[p])'
    BY <1>2 DEF RemembersOwn, UpSteps
  <2> QED
    BY <2>2, <2>3
<1> QED
  BY <1>0, <1>1, <1>2, <1>8, <1>9, <1>10, OwnD

-----------------------------------------------------------------------------
(* down and reset.                                                         *)
TearSteps == {"plugs", "unplug", "gone", "destroy", "sweep", "clear"}

(* Going on to, or with, the devices once the layout has been seen to.     *)
LEMMA TearsD ==
    ASSUME IInv, AInv, DInv, NEW p \in Proc, NEW pc \in TearSteps, NEW l,
           DOMAIN l = LocalNames, Goes(p, pc, l), p \in Running, pr[p].pc # "record",
           UNCHANGED <<log, readable, comp, base>>, met \subseteq met',
           Intact /\ l.restored => Missed = {}
    PROVE  DInv'
<1> DEFINE m == [l EXCEPT !.pc = pc]
<1>1. m.pc = pc /\ m.restored = l.restored
  BY DEF LocalNames, Fresh
<1> HIDE DEF m
<1>2. Follows(m)
  BY <1>1 DEF Follows, Attaching, TearSteps
<1>3. RemembersOwn(m)
  BY <1>1 DEF RemembersOwn, UpSteps, TearSteps
<1>4. pc # "record"
  BY DEF TearSteps
<1> QED
  BY <1>1, <1>2, <1>3, <1>4, MovesD DEF m

LEMMA TearingD ==
    ASSUME IInv, AInv, DInv, NEW p \in Proc,
           \/ Plugs(p) \/ Unplug(p) \/ Gone(p) \/ Destroy(p) \/ Swept(p) \/ SweepOver(p)
    PROVE  DInv'
<1>0. /\ DOMAIN pr[p] = LocalNames /\ UNCHANGED <<log, readable, comp, base>>
      /\ met \subseteq met' /\ pr[p].pc \in TearSteps
  <2>1. CASE Unplug(p) \/ Gone(p) \/ SweepOver(p)
    BY <2>1, LocalsNamed DEF Unplug, Gone, SweepOver, At, TearSteps
  <2>2. CASE Plugs(p) \/ Swept(p)
    BY <2>2, LocalsNamed DEF Plugs, Swept, Handles, ListedAs, At, TearSteps, Meets
  <2>3. CASE Destroy(p)
    <3>1. /\ Removes(p, Head(pr[p].todo)) /\ UNCHANGED <<log, readable, comp, base>>
          /\ pr[p].pc \in TearSteps
      BY <2>3 DEF Destroy, TearSteps
    <3> QED
      BY <3>1, RemoveLeaves, LocalsNamed
  <2> QED
    BY <2>1, <2>2, <2>3
<1>1. p \in Running /\ pr[p].pc # "record"
  BY <1>0 DEF Running, Over, TearSteps
<1>2. Intact /\ pr[p].restored => Missed = {}
  BY <1>0, <1>1, HoldsD DEF RecallsOwn, TearSteps
<1> DEFINE Same(l) == DOMAIN l = LocalNames /\ l.restored = pr[p].restored
<1>3. ASSUME NEW pc \in TearSteps, NEW l, Same(l), Goes(p, pc, l) PROVE DInv'
  BY <1>0, <1>1, <1>2, <1>3, TearsD
<1>4. CASE Plugs(p)
  <2> DEFINE l(S, missed) ==
               [pr[p] EXCEPT !.handles = S,
                             !.names = UNION {Connectors(s) : s \in S},
                             !.todo = NewestFirst(pr[p].st),
                             !.missed = missed]
  <2>1. \A S, missed : Same(l(S, missed))
    BY <1>0 DEF LocalNames, Fresh
  <2>2. \E S, missed : Goes(p, "unplug", l(S, missed))
    BY <1>4 DEF Plugs
  <2> HIDE DEF l, Same
  <2> QED
    BY <1>3, <2>1, <2>2 DEF TearSteps
<1>5. CASE Unplug(p)
  <2> DEFINE l == [pr[p] EXCEPT !.handles = {}]
             k == [l EXCEPT !.names = {}]
  <2>1. Same(l) /\ Same(k)
    BY <1>0 DEF LocalNames, Fresh
  <2>2. Goes(p, "gone", l) \/ Goes(p, "destroy", k)
    BY <1>5 DEF Unplug
  <2> HIDE DEF l, k, Same
  <2> QED
    BY <1>3, <2>1, <2>2 DEF TearSteps
<1>6. CASE Gone(p)
  <2> DEFINE l == [pr[p] EXCEPT !.names = {}]
  <2>1. Same(l)
    BY <1>0 DEF LocalNames, Fresh
  <2>2. Goes(p, "destroy", l)
    BY <1>6 DEF Gone
  <2> HIDE DEF l, Same
  <2> QED
    BY <1>3, <2>1, <2>2 DEF TearSteps
<1>7. CASE Destroy(p)
  <2> DEFINE l == [pr[p] EXCEPT !.todo = Tail(pr[p].todo)]
  <2>1. Same(l)
    BY <1>0 DEF LocalNames, Fresh
  <2>2. Goes(p, pr[p].pc, l)
    BY <1>7 DEF Destroy
  <2> HIDE DEF l, Same
  <2> QED
    BY <1>0, <1>3, <2>1, <2>2
<1>8. CASE Swept(p)
  <2>1. Same(pr[p])
    BY <1>0
  <2>2. ASSUME NEW left, Goes(p, "sweep", [pr[p] EXCEPT !.todo = left]) PROVE DInv'
    <3> DEFINE l == [pr[p] EXCEPT !.todo = left]
    <3>1. Same(l)
      BY <1>0 DEF LocalNames, Fresh
    <3>2. Goes(p, "sweep", l)
      BY <2>2
    <3> HIDE DEF l, Same
    <3> QED
      BY <1>3, <3>1, <3>2 DEF TearSteps
  <2>3. ASSUME Goes(p, "clear", pr[p]) PROVE DInv'
    BY <1>3, <2>1, <2>3 DEF TearSteps
  <2> QED
    BY <1>8, <2>2, <2>3 DEF Swept
<1>9. CASE SweepOver(p)
  <2>1. Same(pr[p]) /\ Goes(p, "clear", pr[p])
    BY <1>0, <1>9 DEF SweepOver
  <2> QED
    BY <1>3, <2>1 DEF TearSteps
<1> QED
  BY <1>4, <1>5, <1>6, <1>7, <1>8, <1>9

LEMMA DownEndsD ==
    ASSUME IInv, AInv, DInv, NEW p \in Proc,
           GoneTimeout(p) \/ DisconnectFails(p) \/ ClearFails(p)
    PROVE  DInv'
<1>1. /\ pr[p].pc \in TearSteps /\ Exits(p, "err")
      /\ UNCHANGED <<log, comp, base>> /\ met \subseteq met'
  BY DEF GoneTimeout, DisconnectFails, ClearFails, At, TearSteps, Meets
<1>2. p \in Running /\ pr[p].pc # "record"
  BY <1>1 DEF Running, Over, TearSteps
<1> QED
  BY <1>1, <1>2, ExitD

LEMMA LoadD == ASSUME IInv, AInv, DInv, NEW p \in Proc, Load(p) \/ LoadFails(p) PROVE DInv'
<1>0. /\ DOMAIN pr[p] = LocalNames /\ UNCHANGED <<log, readable, comp, base>>
      /\ met \subseteq met' /\ pr[p].pc = "load" /\ p \in Running
  BY LocalsNamed DEF Load, LoadFails, At, Meets, Running, Over
<1>1. ~pr[p].restored /\ (Intact => Missed \subseteq Reenabled(log))
  BY <1>0, HoldsD DEF Follows, RecallsOwn
<1>2. CASE Load(p)
  <2> DEFINE l == [pr[p] EXCEPT !.st = log, !.restored = log = EmptyState]
             pc == AfterLoad(p, log)
             m == [l EXCEPT !.pc = pc]
  <2>1. /\ DOMAIN l = LocalNames /\ l.st = log /\ l.restored = (log = EmptyState)
        /\ m.pc = pc /\ m.st = log /\ m.restored = (log = EmptyState)
    BY <1>0 DEF LocalNames, Fresh
  <2>2. Goes(p, pc, l)
    BY <1>2 DEF Load
  <2>3. pc = "plugs" \/ (pc = "restore" /\ log # EmptyState)
    BY DEF AfterLoad
  <2> HIDE DEF l, pc, m
  <2>4. CASE pc = "plugs"
    <3>1. log = EmptyState => Reenabled(log) = {}
      BY DEF Reenabled, EmptyState
    <3>2. Intact /\ l.restored => Missed = {}
      BY <1>1, <2>1, <3>1
    <3> QED
      BY <1>0, <2>1, <2>2, <2>4, <3>2, TearsD DEF TearSteps
  <2>5. CASE pc = "restore" /\ log # EmptyState
    <3>1. Follows(m) /\ RemembersOwn(m)
      BY <2>1, <2>5 DEF Follows, RemembersOwn, Attaching, UpSteps
    <3> QED
      BY <1>0, <2>1, <2>2, <2>5, <3>1, MovesD DEF m
  <2> QED
    BY <2>3, <2>4, <2>5
<1>3. CASE LoadFails(p)
  <2>1. CASE Exits(p, "err")
    BY <1>0, <2>1, ExitD
  <2>2. CASE Goes(p, "plugs", pr[p])
    BY <1>0, <1>1, <2>2, TearsD DEF TearSteps
  <2> QED
    BY <1>3, <2>1, <2>2 DEF LoadFails
<1> QED
  BY <1>2, <1>3

(* What down and reset restore from are the records there are.             *)
LEMMA RestoresLog ==
    ASSUME IInv, AInv, DInv, NEW p \in Proc, pr[p].pc \in {"restore", "restore2"}
    PROVE  /\ pr[p].st = log /\ log # << >> /\ ~pr[p].restored /\ p \in Running
           /\ Intact => Missed \subseteq Reenabled(log)
           /\ Seen => base.on \subseteq comp.kept /\ base.on \subseteq log[1].snap.geo
<1>1. p \in Running /\ pr[p].pc \in DownSteps \ {"load"} /\ pr[p].pc # "record"
  BY DEF Running, Over, DownSteps
<1>2. ~pr[p].restored /\ pr[p].st # EmptyState
  BY <1>1, HoldsD DEF Follows
<1>3. pr[p].st = log /\ log # << >>
  BY <1>1, <1>2 DEF AInv, LInv, Sees, EmptyState
<1> QED
  BY <1>1, <1>2, <1>3, HoldsD DEF RecallsOwn, Places

LEMMA RestoreD ==
    ASSUME IInv, AInv, DInv, NEW p \in Proc,
           Restore(p) \/ RestoreFails(p) \/ RestoreNothing(p)
    PROVE  DInv'
<1>0. /\ DOMAIN pr[p] = LocalNames /\ UNCHANGED <<dev, log, readable, base>>
      /\ pr[p].pc \in {"restore", "restore2"} /\ pr[p].pc # "record"
  BY LocalsNamed DEF Restore, RestoreFails, RestoreNothing, At
<1>1. /\ pr[p].st = log /\ log # << >> /\ ~pr[p].restored /\ p \in Running
      /\ Intact => Missed \subseteq Reenabled(log)
      /\ Seen => base.on \subseteq comp.kept /\ base.on \subseteq log[1].snap.geo
  BY <1>0, RestoresLog
<1>2. CASE RestoreNothing(p)
  <2> DEFINE l == [pr[p] EXCEPT !.restored = TRUE]
  <2>1. DOMAIN l = LocalNames
    BY <1>0 DEF LocalNames, Fresh
  <2>2. Goes(p, "plugs", l) /\ UNCHANGED <<comp, met>> /\ Reenabled(log) = {}
    BY <1>1, <1>2 DEF RestoreNothing, NothingToRestore
  <2>3. Intact => Missed = {}
    BY <1>1, <2>2
  <2> HIDE DEF l
  <2> QED
    BY <1>0, <1>1, <2>1, <2>2, <2>3, TearsD DEF TearSteps
<1>3. CASE RestoreFails(p)
  <2>1. Goes(p, "plugs", pr[p])
    BY <1>3 DEF RestoreFails
  <2>2. CASE Late(RestoreStep(p))
    <3>1. pr'[p].pc = "plugs" /\ \A q \in Proc : q # p => pr'[q] = pr[q]
      BY <1>0, <2>1, Stepped
    <3>2. Follows(pr[p])'
      BY <3>1 DEF Follows, Attaching
    <3> QED
      BY <1>0, <1>1, <2>2, <3>1, <3>2, LateD
  <2>3. CASE ~Late(RestoreStep(p))
    <3>1. UNCHANGED comp /\ met \subseteq met'
      BY <1>3, <2>3 DEF RestoreFails, Refused, Meets
    <3> QED
      BY <1>0, <1>1, <2>1, <3>1, TearsD DEF TearSteps
  <2> QED
    BY <2>2, <2>3
<1>4. CASE Restore(p)
  <2> DEFINE plan == RestoreStep(p)
             pc == AfterRestore(p)
             l == [pr[p] EXCEPT !.restored = pc = "plugs"]
  <2>1. Effective(plan) /\ UNCHANGED met /\ Goes(p, pc, l) /\ pc \in {"restore2", "plugs"}
    BY <1>4 DEF Restore, Accepted, AfterRestore
  <2>2. /\ DOMAIN l = LocalNames /\ l.restored = (pc = "plugs") /\ l.st = pr[p].st
    BY <1>0 DEF LocalNames, Fresh
  <2>3. /\ plan.en = Reenabled(log) /\ plan.geo = log[1].snap.geo
        /\ plan.dis \in {{}, RecordedHeads(log)}
    BY <1>1 DEF RestoreStep, RestorePlan, EnablesOf
  <2> HIDE DEF plan, pc, l
  <2>4. /\ \A q \in Proc : q # p => pr'[q] = pr[q]
        /\ pr'[p].pc = pc /\ pr'[p].restored = (pc = "plugs") /\ pr'[p].st = pr[p].st
    BY <2>1, <2>2, Stepped
  <2>5. Real \subseteq comp.heads /\ \A q \in Proc : q # p => pr[q].pc \in Over
    BY <1>1, HoldsD
  <2>6. plan.dis \cap base.on = {}
    <3>1. log \in Seq(RecordType) /\ base.on \subseteq Real
      BY InvImplies DEF TypeOK
    <3>2. RecordedHeads(log) \subseteq Conn
      BY <3>1, Listing
    <3> QED
      BY <2>3, <3>1, <3>2, NamesDiffer
  <2>7. /\ Real \subseteq comp'.heads
        /\ Missed' = {r \in base.on : r \notin plan.en /\ (r \in comp.on => r \in plan.dis)}
        /\ base.on \subseteq comp.kept /\ base.on \cap plan.en \subseteq plan.geo =>
              base.on \subseteq comp'.kept
    BY <1>0, <2>1, <2>5, AppliedD
  <2>8. Missed' \subseteq Missed \ Reenabled(log)
    BY <2>3, <2>6, <2>7 DEF Missed
  <2>9. Intact' => RecallsOwn(pr[p])'
    <3>1. Intact' => Missed' = {}
      BY <1>1, <2>1, <2>8 DEF Intact
    <3>2. pr'[p].pc # "record"
      BY <2>1, <2>4
    <3> QED
      BY <3>1, <3>2 DEF RecallsOwn
  <2>10. Seen' => Places' /\ RemembersOwn(pr[p])'
    <3>1. Seen' => Places'
      BY <1>0, <1>1, <2>1, <2>3, <2>7 DEF Seen, Intact, Places
    <3>2. RemembersOwn(pr[p])'
      BY <2>1, <2>4 DEF RemembersOwn, UpSteps
    <3> QED
      BY <3>1, <3>2
  <2>11. Follows(pr[p])'
    BY <1>1, <2>1, <2>4 DEF Follows, Attaching, EmptyState
  <2> QED
    BY <2>4, <2>5, <2>7, <2>9, <2>10, <2>11, OwnD
<1> QED
  BY <1>2, <1>3, <1>4

LEMMA ClearD == ASSUME IInv, AInv, DInv, NEW p \in Proc, Clear(p) PROVE DInv'
<1>0. /\ pr[p].pc = "clear" /\ p \in Running /\ Exits(p, "ok") /\ UNCHANGED <<comp, base>>
      /\ log' = << >> /\ met' = IF pr[p].restored THEN met ELSE met \cup {"unrestored"}
  BY DEF Clear, At, Running, Over, EmptyState
<1>1. /\ \A q \in Proc : q # p => pr[q].pc \in Over
      /\ Real \subseteq comp.heads
      /\ Intact => RecallsOwn(pr[p])
      /\ Seen => Places
  BY <1>0, HoldsD
<1>2. pr'[p].pc = "exit" /\ \A q \in Proc : q # p => pr'[q] = pr[q]
  BY <1>0, Exited
<1>3. ASSUME Intact' PROVE Intact /\ Missed = {}
  <2>1. pr[p].restored /\ Intact
    BY <1>0, <1>3 DEF Intact
  <2> QED
    BY <1>0, <1>1, <2>1 DEF RecallsOwn
<1>4. Intact' => RecallsOwn(pr[p])'
  BY <1>0, <1>2, <1>3 DEF RecallsOwn, Missed
<1>5. Seen' => Places' /\ RemembersOwn(pr[p])'
  <2>1. Seen' => Places'
    BY <1>0, <1>1, <1>3 DEF Seen, Places
  <2>2. RemembersOwn(pr[p])'
    BY <1>2 DEF RemembersOwn, UpSteps
  <2> QED
    BY <2>1, <2>2
<1>6. Follows(pr[p])'
  BY <1>2 DEF Follows, Attaching
<1> QED
  BY <1>0, <1>1, <1>2, <1>4, <1>5, <1>6, OwnD

-----------------------------------------------------------------------------
LEMMA StartD == ASSUME MaxRunning = 1, IInv, AInv, DInv, NEW p \in Proc, Start(p) PROVE DInv'
<1>1. UNCHANGED <<log, comp, base, met>>
  BY DEF Start
<1>2. /\ \A q \in Proc : q # p => pr'[q] = pr[q]
      /\ \A q \in Proc : pr[q].pc \in Over
      /\ pr'[p].pc \in {"load", "snapshot", "pick"}
      /\ pr'[p].pre = NoSnapshot /\ pr'[p].restored = FALSE
      /\ pr'[p].pc = "pick" => ~pr'[p].cmd.sess
  BY Starts DEF Over
<1>3. Follows(pr[p])' /\ RemembersOwn(pr[p])'
  BY <1>2 DEF Follows, RemembersOwn, Attaching, NoSnapshot
<1>4. Intact' => RecallsOwn(pr[p])'
  <2>1. \A q \in Proc : pr[q].pc # "record"
    BY <1>2 DEF Over
  <2>2. Intact => Missed \subseteq Reenabled(log)
    BY <2>1 DEF DInv, Recalled
  <2> QED
    BY <1>1, <1>2, <2>2 DEF RecallsOwn, Intact, Missed
<1>5. Seen' => Places'
  BY <1>1 DEF Seen, Intact, Places, DInv, Remembered
<1>6. Real \subseteq comp'.heads
  BY <1>1 DEF DInv
<1> QED
  BY <1>2, <1>3, <1>4, <1>5, <1>6, OwnD

LEMMA CrashD == ASSUME IInv, AInv, DInv, NEW p \in Proc, Crash(p) PROVE DInv'
<1> DEFINE l == [Fresh EXCEPT !.pushed = pr[p].pushed]
<1>1. DOMAIN l = LocalNames
  BY DEF LocalNames, Fresh
<1>2. Goes(p, "dead", l) /\ p \in Running /\ UNCHANGED <<log, comp, base>> /\ Meets("crash")
  BY DEF Crash
<1> HIDE DEF l
<1>3. pr'[p].pc = "dead" /\ \A q \in Proc : q # p => pr'[q] = pr[q]
  BY <1>1, <1>2, Stepped
<1>4. ~Intact' /\ ~Seen'
  BY <1>2 DEF Meets, Noted, Intact, Seen
<1>5. Follows(pr[p])'
  BY <1>3 DEF Follows, Attaching
<1>6. Real \subseteq comp'.heads /\ \A q \in Proc : q # p => pr'[q].pc \in Over
  BY <1>2, <1>3, HoldsD
<1> QED
  BY <1>4, <1>5, <1>6, OwnD

(* The compositor's own steps are about other heads.                       *)
LEMMA CompositorD == ASSUME IInv, DInv, Compositor PROVE DInv'
<1>1. /\ UNCHANGED <<dev, log, readable, pr, base, met>>
      /\ comp'.heads \ Conn = comp.heads \ Conn /\ comp'.on \ Conn = comp.on \ Conn
      /\ comp'.kept = comp.kept
  BY CompositorLeaves
<1>2. base.on \subseteq Real /\ Real \cap Conn = {}
  BY NamesDiffer DEF IInv, RestTyped
<1>3. Missed' = Missed
  BY <1>1, <1>2 DEF Missed
<1>4. Real \subseteq comp'.heads
  BY <1>1, <1>2 DEF DInv
<1>5. \A p \in Proc : Follows(pr[p])'
  BY <1>1 DEF DInv, Follows
<1>6. Recalled => Recalled'
  BY <1>1, <1>3 DEF Recalled, Reenabled, Tearing, At
<1>7. Remembered => Remembered'
  BY <1>1 DEF Remembered
<1> QED
  BY <1>1, <1>4, <1>5, <1>6, <1>7 DEF DInv, Intact

LEMMA StutterD == ASSUME DInv, UNCHANGED vars PROVE DInv'
<1>1. (Recalled => Recalled') /\ (Remembered => Remembered') /\ (Intact' <=> Intact)
  BY DEF vars, Recalled, Remembered, Missed, Reenabled, Tearing, At, Intact
<1>2. \A p \in Proc : Follows(pr[p])'
  BY DEF vars, DInv, Follows
<1> QED
  BY <1>1, <1>2 DEF vars, DInv

LEMMA NextD == ASSUME MaxRunning = 1, IInv, AInv, DInv, [Next]_vars PROVE DInv'
<1>1. ASSUME NEW p \in Proc, Up(p) PROVE DInv'
  BY <1>1, UpEndsD, UpQuietD, UpAppliesD, PushD, NameHeadD, RecordD DEF Up
<1>2. ASSUME NEW p \in Proc, DownOrReset(p) PROVE DInv'
  BY <1>2, TearingD, DownEndsD, LoadD, RestoreD, ClearD DEF DownOrReset
<1>3. CASE AllOver \/ UNCHANGED vars
  BY <1>3, StutterD DEF AllOver
<1>4. ASSUME NEW p \in Proc, Start(p) \/ SnapshotFails(p) \/ Crash(p) PROVE DInv'
  BY <1>4, StartD, CrashD, UpEndsD
<1> QED
  BY <1>1, <1>2, <1>3, <1>4, CompositorD DEF Next

LEMMA InitD == Init => DInv
<1> SUFFICES ASSUME Init PROVE DInv
  OBVIOUS
<1>1. \A p \in Proc : pr[p].pc = "new" /\ pr[p].restored = FALSE
  BY DEF Init, Fresh
<1>2. \E lit \in SUBSET Real : \E m \in lit :
        /\ comp = [heads |-> Real, on |-> lit, prim |-> m, kept |-> Real, hung |-> FALSE]
        /\ base = [on |-> lit]
  BY DEF Init
<1>3. /\ comp.heads = Real /\ comp.kept = Real /\ comp.on = base.on /\ base.on \subseteq Real
      /\ log = << >>
  BY <1>2 DEF Init, EmptyState
<1>4. \A p \in Proc : Follows(pr[p])
  BY <1>1 DEF Follows, Attaching
<1>5. Missed = {}
  BY <1>3 DEF Missed
<1>6. Recalled
  BY <1>1, <1>5 DEF Recalled, At
<1>7. Remembered
  BY <1>1, <1>3 DEF Remembered, UpSteps
<1> QED
  BY <1>3, <1>4, <1>6, <1>7 DEF DInv

(* After commands that ran one after the other, a down or reset that has   *)
(* restored the layout has every output of the user's on again, and at the *)
(* user's mode and place if every `up` ran inside the session              *)
(* (lifecycle.rs, restore_compositor).                                     *)
THEOREM LayoutComesBack == ASSUME MaxRunning = 1 PROVE Spec => []DownRestores
<1>1. Init => DInv
  BY InitD
<1>2. IInv /\ AInv /\ DInv /\ [Next]_vars => DInv'
  BY NextD
<1>3. DInv => DownRestores
  <2> SUFFICES ASSUME DInv, NEW p \in Proc, Tearing(p), pr[p].restored, Intact
               PROVE  /\ base.on \subseteq comp.on
                      /\ "blind" \notin met => base.on \subseteq comp.kept
    BY DEF DownRestores, Intact
  <2>1. Missed = {}
    BY DEF DInv, Recalled
  <2>2. "blind" \notin met => base.on \subseteq comp.kept
    BY DEF DInv, Remembered
  <2> QED
    BY <2>1, <2>2 DEF Missed
<1>4. Spec => []IInv /\ []AInv
  BY Invariance, OneAtATime, PTL
<1> QED
  BY <1>1, <1>2, <1>3, <1>4, PTL DEF Spec
=============================================================================
