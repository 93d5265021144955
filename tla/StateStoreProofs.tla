------------------------- MODULE StateStoreProofs -------------------------
(***************************************************************************)
(* Proofs about StateStore, for any number of invocations, names and       *)
(* calls.  The inductive invariant says, beside the types, that only the   *)
(* holder of the lock is inside with_lock's operation, and that what such  *)
(* an invocation has read, written or is about to rename is still current. *)
(***************************************************************************)
EXTENDS StateStore, SequenceTheorems, TLAPS

(* Only the holder of the lock runs the operation under it.                *)
HolderOnly == \A p \in Proc : pc[p] \in Locked => lock = p

(* An invocation renames a complete temporary file.                        *)
TempComplete == \A p \in Proc : pc[p] = "persist" => tmp[p] = "full"

(* load is the only call outside the lock, and never one under it.         *)
LoadsUnlocked ==
    \A p \in Proc : /\ pc[p] = "read" => call[p].op = "load"
                    /\ pc[p] \in {"open", "lock"} \cup Locked => call[p].op # "load"

(* A call that had to parse the file saves only over one it could parse.   *)
Saving == {"create", "write", "persist"}
ParsedBefore ==
    \A p \in Proc :
        pc[p] \in Saving /\ call[p].op # "clear" => file.st # "bad"

IInv ==
    /\ TypeOK
    /\ HolderOnly
    /\ TempComplete
    /\ LoadsUnlocked
    /\ ParsedBefore
    /\ NoLostUpdate

-----------------------------------------------------------------------------
(* An effect maps a sequence of records to one.                            *)
LEMMA EffectType ==
    ASSUME NEW p \in Proc, NEW c \in Log!Call, NEW l \in Seq(Log!Record)
    PROVE  Log!Effect(p, c, l) \in Seq(Log!Record)
<1>1. CASE c.op = "push"
  <2>1. c.id \in Id
    BY <1>1 DEF Log!Call
  <2>2. [id |-> c.id, by |-> p, tag |-> NoTag] \in Log!Record
    BY <2>1, NoTagIsATag DEF Log!Record
  <2> QED
    BY <1>1, <2>2 DEF Log!Effect, Log!Pushed
<1>2. CASE c.op = "update" /\ Log!Matches(l, c.id) # {}
  <2>1. PICK n : n = Log!Newest(l, c.id)
    OBVIOUS
  <2>2. PICK r : r = Log!Tagged(l[n], c.tag)
    OBVIOUS
  <2>3. Log!Effect(p, c, l) = [l EXCEPT ![n] = r]
    BY <1>2, <2>1, <2>2 DEF Log!Effect, Log!Replaced
  <2>4. c.tag \in Tag
    BY <1>2 DEF Log!Call
  <2>5. n \in 1..Len(l) => l[n] \in Log!Record
    OBVIOUS
  <2>6. n \in 1..Len(l) => r \in Log!Record
    BY <2>2, <2>4, <2>5 DEF Log!Record, Log!Tagged
  <2>7. CASE n \in 1..Len(l)
    BY <2>3, <2>6, <2>7, ExceptSeq
  <2>8. CASE n \notin 1..Len(l)
    <3>1. l = [i \in 1..Len(l) |-> l[i]]
      OBVIOUS
    <3>2. [l EXCEPT ![n] = r] = l
      BY <2>8, <3>1
    <3> QED
      BY <2>3, <3>2
  <2> QED
    BY <2>7, <2>8
<1>3. CASE c.op = "update" /\ Log!Matches(l, c.id) = {}
  BY <1>3 DEF Log!Effect
<1>4. CASE c.op = "clear"
  BY <1>4 DEF Log!Effect, Log!EmptyState
<1>5. CASE c.op = "load"
  BY <1>5 DEF Log!Effect
<1> QED
  BY <1>1, <1>2, <1>3, <1>4, <1>5 DEF Log!Call
-----------------------------------------------------------------------------
LEMMA InitInv == Init => IInv
<1> SUFFICES ASSUME Init PROVE IInv
  OBVIOUS
<1>1. EmptyState \in Seq(Log!Record)
  BY DEF EmptyState
<1>2. [op |-> "load"] \in Log!Call
  BY DEF Log!Call
<1>3. TypeOK
  BY <1>1, <1>2, MaxCallsIsNat DEF Init, TypeOK, Absent, Good, Bad, Contents
<1> QED
  BY <1>3 DEF Init, IInv, HolderOnly, TempComplete, LoadsUnlocked, ParsedBefore,
              NoLostUpdate, Saving, Locked

(* The invariant survives a step of one invocation.                        *)
LEMMA InvokeInv == ASSUME IInv, NEW p \in Proc, Invoke(p) PROVE IInv'
<1> PICK c \in Log!Call :
        /\ call' = [call EXCEPT ![p] = c]
        /\ pc' = [pc EXCEPT ![p] = IF c.op = "load" THEN "read" ELSE "open"]
  BY DEF Invoke, Goto
<1> USE DEF IInv, Invoke
<1>1. TypeOK'
  BY MaxCallsIsNat DEF TypeOK, Contents, Steps, Unlocked
<1>2. HolderOnly' /\ TempComplete' /\ LoadsUnlocked' /\ ParsedBefore'
  BY DEF TypeOK, HolderOnly, TempComplete, LoadsUnlocked, ParsedBefore,
         Saving, Locked
<1>3. NoLostUpdate'
  BY DEF TypeOK, NoLostUpdate, Contents
<1> QED
  BY <1>1, <1>2, <1>3

LEMMA ReadInv == ASSUME IInv, NEW p \in Proc, Read(p) PROVE IInv'
<1> USE DEF IInv, Read, Finishing, Goto
<1>1. TypeOK'
  BY DEF TypeOK, Contents
<1>2. HolderOnly' /\ TempComplete' /\ LoadsUnlocked' /\ ParsedBefore'
  BY DEF TypeOK, HolderOnly, TempComplete, LoadsUnlocked, ParsedBefore,
         Saving, Locked
<1>3. NoLostUpdate'
  BY DEF TypeOK, NoLostUpdate, Contents
<1> QED
  BY <1>1, <1>2, <1>3

LEMMA OpenInv == ASSUME IInv, NEW p \in Proc, Open(p) PROVE IInv'
<1> USE DEF IInv, Open, Goto
<1>1. TypeOK'
  BY DEF TypeOK, Contents, Steps, Unlocked
<1>2. HolderOnly' /\ TempComplete' /\ LoadsUnlocked' /\ ParsedBefore'
  BY DEF TypeOK, HolderOnly, TempComplete, LoadsUnlocked, ParsedBefore,
         Saving, Locked
<1>3. NoLostUpdate'
  BY DEF TypeOK, NoLostUpdate, Contents
<1> QED
  BY <1>1, <1>2, <1>3

(* Acquiring the lock.  The lock was free, so nobody was saving; a clear   *)
(* prepares its empty state, which is the effect of a clear.               *)
LEMMA LockInv == ASSUME IInv, NEW p \in Proc, Lock(p) PROVE IInv'
<1> USE DEF IInv, Lock, Goto
<1>1. TypeOK'
  BY DEF TypeOK, Contents, EmptyState, Steps, Locked
<1>2. \A q \in Proc : pc[q] \notin Locked
  BY NoProcIsNoProc DEF HolderOnly
<1>3. HolderOnly' /\ TempComplete' /\ LoadsUnlocked' /\ ParsedBefore'
  BY <1>2 DEF TypeOK, HolderOnly, TempComplete, LoadsUnlocked, ParsedBefore,
         Saving, Locked
<1>4. NoLostUpdate'
  <2>1. ASSUME NEW q \in Proc, q # p PROVE pc'[q] \notin Saving
    BY <1>2, <2>1 DEF TypeOK, Locked, Saving
  <2>2. ASSUME pc'[p] \in Saving
        PROVE  mem'[p] = Log!Effect(p, call'[p], Contents')
    BY <2>2 DEF TypeOK, Saving, Log!Effect, Log!EmptyState, EmptyState
  <2> QED
    BY <2>1, <2>2 DEF NoLostUpdate, Saving
<1> QED
  BY <1>1, <1>3, <1>4

(* Reading under the lock establishes NoLostUpdate for the reader.         *)
LEMMA LoadInv == ASSUME IInv, NEW p \in Proc, Load(p) PROVE IInv'
<1> USE DEF IInv, Load
<1>1. CASE pc'[p] = "finish"
  <2>1. /\ pc' = [pc EXCEPT ![p] = "finish"]
        /\ ret' \in [Proc -> {"none", "ok", "err"}]
        /\ UNCHANGED <<file, lock, call, mem, tmp, view, made>>
    BY <1>1 DEF Finishing, Goto, TypeOK
  <2>2. TypeOK'
    BY <2>1 DEF TypeOK, Contents
  <2>3. HolderOnly' /\ TempComplete' /\ LoadsUnlocked' /\ ParsedBefore'
    BY <2>1 DEF TypeOK, HolderOnly, TempComplete, LoadsUnlocked, ParsedBefore,
                Saving, Locked
  <2>4. NoLostUpdate'
    BY <2>1 DEF TypeOK, NoLostUpdate, Contents
  <2> QED
    BY <2>2, <2>3, <2>4
<1>2. CASE pc'[p] # "finish"
  <2>1. /\ pc[p] = "load"
        /\ file.st # "bad"
        /\ pc' = [pc EXCEPT ![p] = "create"]
        /\ mem' = [mem EXCEPT ![p] = Log!Effect(p, call[p], Contents)]
        /\ UNCHANGED <<file, lock, call, tmp, ret, view, made>>
    BY <1>2 DEF Finishing, Goto, TypeOK
  <2>2. Log!Effect(p, call[p], Contents) \in Seq(Log!Record)
    BY EffectType DEF TypeOK, Contents
  <2>3. TypeOK'
    BY <2>1, <2>2 DEF TypeOK, Contents, Steps, Locked
  <2>4. HolderOnly' /\ TempComplete' /\ LoadsUnlocked' /\ ParsedBefore'
    BY <2>1 DEF TypeOK, HolderOnly, TempComplete, LoadsUnlocked, ParsedBefore,
                Saving, Locked
  <2>5. NoLostUpdate'
    BY <2>1 DEF TypeOK, NoLostUpdate, Contents
  <2> QED
    BY <2>3, <2>4, <2>5
<1> QED
  BY <1>1, <1>2

LEMMA CreateTempInv == ASSUME IInv, NEW p \in Proc, CreateTemp(p) PROVE IInv'
<1> USE DEF IInv, CreateTemp, Goto
<1>1. TypeOK'
  BY DEF TypeOK, Contents, Steps, Locked
<1>2. HolderOnly' /\ TempComplete' /\ LoadsUnlocked' /\ ParsedBefore'
  BY DEF TypeOK, HolderOnly, TempComplete, LoadsUnlocked, ParsedBefore,
         Saving, Locked
<1>3. NoLostUpdate'
  BY DEF TypeOK, NoLostUpdate, Contents
<1> QED
  BY <1>1, <1>2, <1>3

LEMMA WriteTempInv == ASSUME IInv, NEW p \in Proc, WriteTemp(p) PROVE IInv'
<1> USE DEF IInv, WriteTemp, Goto
<1>1. TypeOK'
  BY DEF TypeOK, Contents, Steps, Locked
<1>2. HolderOnly' /\ TempComplete' /\ LoadsUnlocked' /\ ParsedBefore'
  BY DEF TypeOK, HolderOnly, TempComplete, LoadsUnlocked, ParsedBefore,
         Saving, Locked
<1>3. NoLostUpdate'
  BY DEF TypeOK, NoLostUpdate, Contents
<1> QED
  BY <1>1, <1>2, <1>3

(* The only step that changes the file is the holder's, so it disturbs     *)
(* nobody else's NoLostUpdate; and what it renames is complete.            *)
LEMMA PersistInv == ASSUME IInv, NEW p \in Proc, Persist(p) PROVE IInv'
<1> USE DEF IInv, Persist, Finishing, Goto
<1>1. /\ file' = Good(mem[p])
      /\ lock = p
  BY DEF TempComplete, HolderOnly, Locked
<1>2. \A q \in Proc : pc'[q] \notin Locked
  BY <1>1 DEF HolderOnly, TypeOK, Locked
<1>3. TypeOK'
  BY <1>1 DEF TypeOK, Contents, Good
<1>4. HolderOnly' /\ TempComplete' /\ LoadsUnlocked' /\ ParsedBefore'
  BY <1>2 DEF TypeOK, HolderOnly, TempComplete, LoadsUnlocked, ParsedBefore,
              Saving, Locked
<1>5. NoLostUpdate'
  BY <1>2 DEF NoLostUpdate, Locked
<1> QED
  BY <1>3, <1>4, <1>5

LEMMA FailInv == ASSUME IInv, NEW p \in Proc, Fail(p) PROVE IInv'
<1> USE DEF IInv, Fail, Finishing, Goto
<1>1. TypeOK'
  BY DEF TypeOK, Contents
<1>2. HolderOnly' /\ TempComplete' /\ LoadsUnlocked' /\ ParsedBefore'
  BY DEF TypeOK, HolderOnly, TempComplete, LoadsUnlocked, ParsedBefore,
         Saving, Locked
<1>3. NoLostUpdate'
  BY DEF TypeOK, NoLostUpdate, Contents
<1> QED
  BY <1>1, <1>2, <1>3

(* Dropping the lock, on return or in death.                               *)
LEMMA ReleaseInv ==
    ASSUME IInv, NEW p \in Proc, Finish(p) \/ Die(p) PROVE IInv'
<1> PICK to \in {"idle", "dead"} : pc' = [pc EXCEPT ![p] = to]
  BY DEF Finish, Die, Goto
<1>1. /\ lock' = IF lock = p THEN NoProc ELSE lock
      /\ UNCHANGED <<file, call, mem, tmp, ret, view, made>>
  BY DEF Finish, Die, Unlock
<1> USE DEF IInv
<1>2. TypeOK'
  BY <1>1 DEF TypeOK, Contents
<1>3. HolderOnly'
  BY <1>1 DEF TypeOK, HolderOnly, Locked
<1>4. TempComplete' /\ LoadsUnlocked' /\ ParsedBefore'
  BY <1>1 DEF TypeOK, TempComplete, LoadsUnlocked, ParsedBefore, Saving, Locked
<1>5. NoLostUpdate'
  BY <1>1 DEF TypeOK, NoLostUpdate, Contents
<1> QED
  BY <1>2, <1>3, <1>4, <1>5

LEMMA StutterInv == ASSUME IInv, UNCHANGED vars PROVE IInv'
  BY DEF IInv, vars, TypeOK, HolderOnly, TempComplete, LoadsUnlocked,
         ParsedBefore, NoLostUpdate, Contents

LEMMA NextInv == IInv /\ [Next]_vars => IInv'
<1> SUFFICES ASSUME IInv, [Next]_vars PROVE IInv'
  OBVIOUS
<1>1. CASE UNCHANGED vars
  BY <1>1, StutterInv
<1>2. CASE AllOver
  BY <1>2, StutterInv DEF AllOver
<1>3. ASSUME NEW p \in Proc, Invoke(p) \/ Step(p) \/ Fail(p) \/ Die(p)
      PROVE  IInv'
  BY <1>3, InvokeInv, ReadInv, OpenInv, LockInv, LoadInv, CreateTempInv,
     WriteTempInv, PersistInv, FailInv, ReleaseInv DEF Step
<1> QED
  BY <1>1, <1>2, <1>3 DEF Next

THEOREM Invariance == Spec => []IInv
  BY InitInv, NextInv, PTL DEF Spec

-----------------------------------------------------------------------------
(* Every variable keeps its type (state.rs, the whole of StateStore).      *)
THEOREM TypeCorrect == Spec => []TypeOK
  BY Invariance, PTL DEF IInv

(* Concurrent fauxput invocations do not drop each other's writes: what an *)
(* invocation is about to save is its change applied to the current file   *)
(* (with_lock, push_instance, update_instance, clear).                     *)
THEOREM WritesKept == Spec => []NoLostUpdate
  BY Invariance, PTL DEF IInv

(* A readable state file stays readable: save renames complete files only. *)
THEOREM SavesAtomic == Spec => NeverTorn
<1>1. IInv /\ [Next]_vars => [file.st # "bad" => file'.st # "bad"]_vars
  <2> SUFFICES ASSUME IInv, Next, file.st # "bad" PROVE file'.st # "bad"
    BY DEF vars
  <2>1. CASE AllOver
    BY <2>1 DEF AllOver, vars
  <2>2. ASSUME NEW p \in Proc, Persist(p) PROVE file'.st # "bad"
    BY <2>2 DEF Persist, IInv, TempComplete, Good
  <2>3. ASSUME NEW p \in Proc,
               \/ Invoke(p) \/ Read(p) \/ Open(p) \/ Lock(p) \/ Load(p)
               \/ CreateTemp(p) \/ WriteTemp(p) \/ Finish(p) \/ Fail(p) \/ Die(p)
        PROVE  file' = file
    BY <2>3 DEF Invoke, Read, Open, Lock, Load, CreateTemp, WriteTemp, Finish,
                Fail, Die
  <2> QED
    BY <2>1, <2>2, <2>3 DEF Next, Step
<1> QED
  BY <1>1, Invariance, PTL DEF Spec, NeverTorn

-----------------------------------------------------------------------------
(* The refinement.  A step of the store maps to a step of the log: the     *)
(* read of a load, the rename of a save, and the load that finds nothing   *)
(* to update are the instants at which calls take effect.                  *)
LEMMA InitRefines == Init => Log!LInit
  BY DEF Init, Log!LInit, Absent, Good, Bad, Contents, Phase, PhaseAt, EmptyState,
         Log!EmptyState

(* What a step that moves p from one step of its call to another does to   *)
(* the mapped phase.                                                       *)
LEMMA PhaseMoves ==
    ASSUME NEW p \in Proc, NEW to, pc' = [pc EXCEPT ![p] = to],
           pc \in [Proc -> Steps \cup {"idle", "finish", "dead"}]
    PROVE  [q \in Proc |-> Phase(q)]'
              = [[q \in Proc |-> Phase(q)] EXCEPT ![p] = PhaseAt(to)]
  BY DEF Phase

LEMMA StepRefines ==
    ASSUME IInv, NEW p \in Proc, Invoke(p) \/ Step(p) \/ Fail(p) \/ Die(p)
    PROVE  \/ Log!LNext
           \/ UNCHANGED Log!lvars
<1> DEFINE phase == [q \in Proc |-> Phase(q)]
<1>0. pc \in [Proc -> Steps \cup {"idle", "finish", "dead"}]
  BY DEF IInv, TypeOK
<1>a. ASSUME UNCHANGED <<file, call, ret, view>>, phase' = phase
      PROVE  UNCHANGED Log!lvars
  BY <1>a DEF Log!lvars, Contents
<1>b. ASSUME NEW q \in Proc, pc[q] \in Steps PROVE phase[q] = "pending"
  BY <1>b DEF Phase, PhaseAt, Steps, Unlocked, Locked
<1>1. CASE Invoke(p)
  <2>1. PICK c \in Log!Call :
            /\ call' = [call EXCEPT ![p] = c]
            /\ Goto(p, IF c.op = "load" THEN "read" ELSE "open")
    BY <1>1 DEF Invoke
  <2>2. phase' = [phase EXCEPT ![p] = "pending"]
    <3>1. PICK to \in {"read", "open"} : pc' = [pc EXCEPT ![p] = to]
      BY <2>1 DEF Goto
    <3>2. PhaseAt(to) = "pending"
      BY <3>1 DEF PhaseAt
    <3> QED
      BY <1>0, <3>1, <3>2, PhaseMoves
  <2>3. phase[p] = "idle"
    BY <1>1 DEF Invoke, Phase, PhaseAt
  <2>4. Log!LInvoke(p)
    BY <1>1, <2>1, <2>2, <2>3 DEF Invoke, Log!LInvoke, Contents
  <2> QED
    BY <2>4 DEF Log!LNext
<1>2. CASE Read(p)
  <2>1. phase' = [phase EXCEPT ![p] = "done"]
    BY <1>0, <1>2, PhaseMoves DEF Read, Finishing, Goto, PhaseAt
  <2>2. phase[p] = "pending"
    BY <1>2, <1>b DEF Read, Steps, Unlocked
  <2>3. CASE file.st = "bad"
    <3>1. Log!LAbort(p)
      BY <1>2, <2>1, <2>2, <2>3 DEF Read, Finishing, Log!LAbort, Contents
    <3> QED
      BY <3>1 DEF Log!LNext
  <2>4. CASE file.st # "bad"
    <3>1. call[p].op = "load"
      BY <1>2 DEF Read, IInv, LoadsUnlocked
    <3>2. Log!Effect(p, call[p], Contents) = Contents
      BY <3>1 DEF Log!Effect
    <3>3. Log!LCommit(p)
      BY <1>2, <2>1, <2>2, <2>4, <3>1, <3>2
         DEF Read, Finishing, Log!LCommit, Contents
    <3> QED
      BY <3>3 DEF Log!LNext
  <2> QED
    BY <2>3, <2>4
<1>3. CASE Open(p) \/ Lock(p) \/ CreateTemp(p) \/ WriteTemp(p)
  <2>1. PICK to \in Steps : pc' = [pc EXCEPT ![p] = to]
    BY <1>3 DEF Open, Lock, CreateTemp, WriteTemp, Goto, Steps, Unlocked, Locked
  <2>2. phase' = [phase EXCEPT ![p] = "pending"]
    <3>1. PhaseAt(to) = "pending"
      BY <2>1 DEF PhaseAt, Steps, Unlocked, Locked
    <3> QED
      BY <1>0, <2>1, <3>1, PhaseMoves
  <2>3. phase[p] = "pending"
    BY <1>3, <1>b DEF Open, Lock, CreateTemp, WriteTemp, Steps, Unlocked, Locked
  <2>4. phase' = phase
    BY <2>2, <2>3
  <2> QED
    BY <1>3, <1>a, <2>4 DEF Open, Lock, CreateTemp, WriteTemp
<1>4. CASE Load(p)
  <2>1. phase[p] = "pending"
    BY <1>4, <1>b DEF Load, Steps, Locked
  <2>2. CASE pc'[p] # "finish"
    <3>1. pc' = [pc EXCEPT ![p] = "create"]
      BY <1>0, <1>4, <2>2 DEF Load, Finishing, Goto
    <3>2. phase' = [phase EXCEPT ![p] = "pending"]
      <4>1. PhaseAt("create") = "pending"
        BY DEF PhaseAt
      <4> QED
        BY <1>0, <3>1, <4>1, PhaseMoves
    <3>3. phase' = phase
      BY <2>1, <3>2
    <3>4. UNCHANGED <<file, call, ret, view>>
      BY <1>0, <1>4, <2>2 DEF Load, Finishing, Goto
    <3> QED
      BY <1>a, <3>3, <3>4
  <2>3. CASE pc'[p] = "finish"
    <3>1. pc' = [pc EXCEPT ![p] = "finish"]
      BY <1>0, <1>4, <2>3 DEF Load, Finishing, Goto
    <3>2. phase' = [phase EXCEPT ![p] = "done"]
      BY <1>0, <3>1, PhaseMoves DEF PhaseAt
    <3>3. CASE file.st = "bad"
      <4>1. Log!LAbort(p)
        BY <1>4, <2>1, <3>2, <3>3 DEF Load, Finishing, Log!LAbort, Contents
      <4> QED
        BY <4>1 DEF Log!LNext
    <3>4. CASE file.st # "bad"
      <4>1. /\ call[p].op = "update"
            /\ Matches(Contents, call[p].id) = {}
            /\ ret' = [ret EXCEPT ![p] = "ok"]
        BY <1>0, <1>4, <2>3, <3>4 DEF Load, Finishing, Goto
      <4>2. Log!Effect(p, call[p], Contents) = Contents
        BY <4>1 DEF Log!Effect, Log!Matches, Matches
      <4>3. Log!LCommit(p)
        BY <1>4, <2>1, <3>2, <3>4, <4>1, <4>2 DEF Load, Log!LCommit, Contents
      <4> QED
        BY <4>3 DEF Log!LNext
    <3> QED
      BY <3>3, <3>4
  <2> QED
    BY <2>2, <2>3
<1>5. CASE Persist(p)
  <2>1. phase' = [phase EXCEPT ![p] = "done"]
    BY <1>0, <1>5, PhaseMoves DEF Persist, Finishing, Goto, PhaseAt
  <2>2. phase[p] = "pending"
    BY <1>5, <1>b DEF Persist, Steps, Locked
  <2>3. file' = Good(Log!Effect(p, call[p], Contents))
    BY <1>5 DEF Persist, IInv, TempComplete, NoLostUpdate
  <2>4. /\ call[p].op # "load"
        /\ Log!Parses(call[p]) => file.st # "bad"
    BY <1>5 DEF Persist, IInv, LoadsUnlocked, ParsedBefore, Saving, Locked, Log!Parses
  <2>5. Log!LCommit(p)
    BY <1>5, <2>1, <2>2, <2>3, <2>4
       DEF Persist, Finishing, Log!LCommit, Contents, Good
  <2> QED
    BY <2>5 DEF Log!LNext
<1>6. CASE Fail(p)
  <2>1. phase' = [phase EXCEPT ![p] = "done"]
    BY <1>0, <1>6, PhaseMoves DEF Fail, Finishing, Goto, PhaseAt
  <2>2. Log!LAbort(p)
    BY <1>6, <1>b, <2>1 DEF Fail, Finishing, Log!LAbort, Contents
  <2> QED
    BY <2>2 DEF Log!LNext
<1>7. CASE Finish(p)
  <2>1. phase' = [phase EXCEPT ![p] = "idle"]
    BY <1>0, <1>7, PhaseMoves DEF Finish, Goto, PhaseAt
  <2>2. Log!LReturn(p)
    BY <1>7, <2>1 DEF Finish, Log!LReturn, Contents, Phase, PhaseAt
  <2> QED
    BY <2>2 DEF Log!LNext
<1>8. CASE Die(p)
  <2>1. phase' = [phase EXCEPT ![p] = "dead"]
    BY <1>0, <1>8, PhaseMoves DEF Die, Goto, PhaseAt
  <2>2. Log!LDie(p)
    BY <1>0, <1>8, <2>1 DEF Die, Log!LDie, Contents, Phase, PhaseAt
  <2> QED
    BY <2>2 DEF Log!LNext
<1> QED
  BY <1>1, <1>2, <1>3, <1>4, <1>5, <1>6, <1>7, <1>8 DEF Step

(* The lock, temporary file and rename of state.rs implement the atomic    *)
(* log: every call takes effect at one instant, an error means no effect.  *)
THEOREM Refinement == Spec => ImplementsLog
<1>1. IInv /\ [Next]_vars => [Log!LNext]_Log!lvars
  <2>1. CASE UNCHANGED vars
    BY <2>1 DEF vars, Log!lvars, Contents, Phase, PhaseAt
  <2>2. CASE AllOver
    BY <2>2 DEF AllOver, vars, Log!lvars, Contents, Phase, PhaseAt
  <2>3. ASSUME IInv, NEW p \in Proc, Invoke(p) \/ Step(p) \/ Fail(p) \/ Die(p)
        PROVE  [Log!LNext]_Log!lvars
    BY <2>3, StepRefines
  <2> QED
    BY <2>1, <2>2, <2>3 DEF Next
<1> QED
  BY <1>1, InitRefines, Invariance, PTL DEF Spec, ImplementsLog, Log!LSpec
=============================================================================
