---------------------------- MODULE StateStore ----------------------------
(***************************************************************************)
(* state.rs, step by step: fauxput invocations that share active.json      *)
(* through an advisory lock on state.lock, a temporary file and a rename.  *)
(*                                                                         *)
(* push_instance, update_instance and clear run under the lock; load, as   *)
(* `up`, `down`, `reset` and `status` call it, does not take it.  Each     *)
(* system call is a step, so the invocations interleave between any two of *)
(* them, and an invocation may die or meet an I/O error at any of them.    *)
(***************************************************************************)
EXTENDS ActiveState

CONSTANTS
    Proc, Id, Tag, NoTag,   \* see InstanceLog
    NoProc,                 \* the lock's holder while it is free
    MaxCalls                \* bound: store calls of one invocation (an `up`
                            \* makes at most four, `down` and `reset` two)

ASSUME NoTagIsATag == NoTag \in Tag
ASSUME NoProcIsNoProc == NoProc \notin Proc
ASSUME MaxCallsIsNat == MaxCalls \in Nat

VARIABLES
    file,       \* active.json: what a reader of the path finds
    lock,       \* who holds the flock on state.lock
    pc,         \* pc[p]: the next system call of invocation p
    call,       \* call[p]: the store call p is in, or was in last
    mem,        \* mem[p]: the ActiveState p holds in memory
    tmp,        \* tmp[p]: p's temporary file
    ret,        \* ret[p]: what the call returned
    view,       \* view[p]: the ActiveState p's last load returned
    made        \* made[p]: how many calls p has made

vars == <<file, lock, pc, call, mem, tmp, ret, view, made>>

-----------------------------------------------------------------------------
(* The abstract log, and what it says a call is and does.                  *)

Contents == file.log

PhaseAt(step) ==
    IF step \in {"idle", "dead"} THEN step
    ELSE IF step = "finish" THEN "done" ELSE "pending"

Phase(p) == PhaseAt(pc[p])

Log == INSTANCE InstanceLog WITH
    log <- Contents,
    readable <- file.st # "bad",
    phase <- [p \in Proc |-> Phase(p)]

Good(log) == [st |-> "good", log |-> log]
Bad == [st |-> "bad", log |-> EmptyState]
Absent == [st |-> "absent", log |-> EmptyState]

(* The steps of a call between its invocation and its return.              *)
Unlocked == {"open", "lock", "read"}
Locked == {"load", "create", "write", "persist"}
Steps == Unlocked \cup Locked

(* Process p goes on at step `to`.                                         *)
Goto(p, to) == pc' = [pc EXCEPT ![p] = to]

(* p's call is over; the guard is dropped on the way out.                  *)
Finishing(p, result) ==
    /\ Goto(p, "finish")
    /\ ret' = [ret EXCEPT ![p] = result]

-----------------------------------------------------------------------------
(* An earlier version, or a hand edit, may have left a file load rejects.  *)
Init ==
    /\ file \in {Absent, Good(EmptyState), Bad}
    /\ lock = NoProc
    /\ pc = [p \in Proc |-> "idle"]
    /\ call = [p \in Proc |-> [op |-> "load"]]
    /\ mem = [p \in Proc |-> EmptyState]
    /\ tmp = [p \in Proc |-> "none"]
    /\ ret = [p \in Proc |-> "none"]
    /\ view = [p \in Proc |-> EmptyState]
    /\ made = [p \in Proc |-> 0]

Invoke(p) ==
    /\ pc[p] = "idle"
    /\ made[p] < MaxCalls
    /\ \E c \in Log!Call :
          /\ call' = [call EXCEPT ![p] = c]
          /\ Goto(p, IF c.op = "load" THEN "read" ELSE "open")
    /\ ret' = [ret EXCEPT ![p] = "none"]
    /\ made' = [made EXCEPT ![p] = @ + 1]
    /\ UNCHANGED <<file, lock, mem, tmp, view>>

(* load outside the lock: one read of whatever the path names now.         *)
Read(p) ==
    /\ pc[p] = "read"
    /\ IF file.st = "bad"
       THEN Finishing(p, "err") /\ UNCHANGED view
       ELSE Finishing(p, "ok") /\ view' = [view EXCEPT ![p] = Contents]
    /\ UNCHANGED <<file, lock, call, mem, tmp, made>>

(* ensure_dir and open of the lock file.                                   *)
Open(p) ==
    /\ pc[p] = "open"
    /\ Goto(p, "lock")
    /\ UNCHANGED <<file, lock, call, mem, tmp, ret, view, made>>

(* A wrong variant, for mutation runs: try_lock, its result ignored.       *)
TryLock(p) ==
    /\ pc[p] = "lock"
    /\ lock' = IF lock = NoProc THEN p ELSE lock
    /\ Goto(p, IF call[p].op = "clear" THEN "create" ELSE "load")
    /\ mem' = IF call[p].op = "clear" THEN [mem EXCEPT ![p] = EmptyState] ELSE mem
    /\ UNCHANGED <<file, call, tmp, ret, view, made>>

(* File::lock blocks until the lock is free.  clear saves a default state  *)
(* without reading the file.                                               *)
Lock(p) ==
    /\ pc[p] = "lock"
    /\ lock = NoProc
    /\ lock' = p
    /\ Goto(p, IF call[p].op = "clear" THEN "create" ELSE "load")
    /\ mem' = IF call[p].op = "clear" THEN [mem EXCEPT ![p] = EmptyState] ELSE mem
    /\ UNCHANGED <<file, call, tmp, ret, view, made>>

(* load under the lock, and the change to its result in memory.  An update *)
(* whose record is gone saves nothing and returns Ok.                      *)
Load(p) ==
    /\ pc[p] = "load"
    /\ CASE file.st = "bad" -> Finishing(p, "err") /\ UNCHANGED mem
         [] file.st # "bad" /\ call[p].op = "update"
                            /\ Matches(Contents, call[p].id) = {} ->
                Finishing(p, "ok") /\ UNCHANGED mem
         [] OTHER ->
                /\ Goto(p, "create")
                /\ mem' = [mem EXCEPT ![p] = Log!Effect(p, call[p], Contents)]
                /\ UNCHANGED ret
    /\ UNCHANGED <<file, lock, call, tmp, view, made>>

(* save: a temporary file of p's own, empty at first ...                   *)
CreateTemp(p) ==
    /\ pc[p] = "create"
    /\ tmp' = [tmp EXCEPT ![p] = "partial"]
    /\ Goto(p, "write")
    /\ UNCHANGED <<file, lock, call, mem, ret, view, made>>

(* A wrong variant: the rename may overtake the bytes.                     *)
RenameFirst(p) ==
    /\ pc[p] = "write"
    /\ \/ tmp' = [tmp EXCEPT ![p] = "full"]
       \/ UNCHANGED tmp
    /\ Goto(p, "persist")
    /\ UNCHANGED <<file, lock, call, mem, ret, view, made>>

(* ... then written and flushed ...                                        *)
WriteTemp(p) ==
    /\ pc[p] = "write"
    /\ tmp' = [tmp EXCEPT ![p] = "full"]
    /\ Goto(p, "persist")
    /\ UNCHANGED <<file, lock, call, mem, ret, view, made>>

(* A wrong variant: an error met after the rename is returned.             *)
PersistThenError(p) ==
    /\ pc[p] = "persist"
    /\ file' = IF tmp[p] = "full" THEN Good(mem[p]) ELSE Bad
    /\ tmp' = [tmp EXCEPT ![p] = "none"]
    /\ \E result \in {"ok", "err"} : Finishing(p, result)
    /\ UNCHANGED <<lock, call, mem, view, made>>

(* ... and renamed over the state file, whatever has reached it by then.   *)
Persist(p) ==
    /\ pc[p] = "persist"
    /\ file' = IF tmp[p] = "full" THEN Good(mem[p]) ELSE Bad
    /\ tmp' = [tmp EXCEPT ![p] = "none"]
    /\ Finishing(p, "ok")
    /\ UNCHANGED <<lock, call, mem, view, made>>

(* An I/O error before the rename: the temporary file is dropped with its  *)
(* handle, and the error is returned.                                      *)
Fail(p) ==
    /\ pc[p] \in Steps
    /\ tmp' = [tmp EXCEPT ![p] = "none"]
    /\ Finishing(p, "err")
    /\ UNCHANGED <<file, lock, call, mem, view, made>>

Unlock(p) == IF lock = p THEN NoProc ELSE lock

(* A wrong variant: the guard outlives a call that failed.                 *)
FinishKeepingLock(p) ==
    /\ pc[p] = "finish"
    /\ lock' = IF ret[p] = "ok" THEN Unlock(p) ELSE lock
    /\ Goto(p, "idle")
    /\ UNCHANGED <<file, call, mem, tmp, ret, view, made>>

(* drop(guard) on Ok and on Err alike, and return.                         *)
Finish(p) ==
    /\ pc[p] = "finish"
    /\ lock' = Unlock(p)
    /\ Goto(p, "idle")
    /\ UNCHANGED <<file, call, mem, tmp, ret, view, made>>

(* The process is killed: the kernel closes the lock file, a temporary     *)
(* file it left keeps its own name and is never read.                      *)
Die(p) ==
    /\ pc[p] # "dead"
    /\ lock' = Unlock(p)
    /\ Goto(p, "dead")
    /\ UNCHANGED <<file, call, mem, tmp, ret, view, made>>

(* Every invocation is over: nothing is left to do.                        *)
AllOver ==
    /\ \A p \in Proc : pc[p] = "dead" \/ (pc[p] = "idle" /\ made[p] = MaxCalls)
    /\ UNCHANGED vars

Step(p) ==
    \/ Read(p) \/ Open(p) \/ Lock(p) \/ Load(p)
    \/ CreateTemp(p) \/ WriteTemp(p) \/ Persist(p) \/ Finish(p)

Next ==
    \/ \E p \in Proc : Invoke(p) \/ Step(p) \/ Fail(p) \/ Die(p)
    \/ AllOver

Spec == Init /\ [][Next]_vars

(* The scheduler runs every live process, and flock grants a free lock.    *)
(* Weak fairness is enough for Lock: invocations make finitely many calls, *)
(* so a waiter is not passed over for ever.                                *)
FairSpec == Spec /\ \A p \in Proc : WF_vars(Step(p))

-----------------------------------------------------------------------------
(* Types.                                                                  *)
TypeOK ==
    /\ file \in [st : {"absent", "good", "bad"}, log : Seq(Log!Record)]
    /\ file.st # "good" => Contents = EmptyState
    /\ lock \in Proc \cup {NoProc}
    /\ pc \in [Proc -> Steps \cup {"idle", "finish", "dead"}]
    /\ call \in [Proc -> Log!Call]
    /\ mem \in [Proc -> Seq(Log!Record)]
    /\ tmp \in [Proc -> {"none", "partial", "full"}]
    /\ ret \in [Proc -> {"none", "ok", "err"}]
    /\ view \in [Proc -> Seq(Log!Record)]
    /\ made \in [Proc -> 0..MaxCalls]

(* "so concurrent fauxput invocations don't drop each other's writes"      *)
(* (with_lock): whatever an invocation is about to rename into place is    *)
(* its own change applied to the file as it stands at that moment, however *)
(* the other invocations have been scheduled, have failed or have died     *)
(* since it read the file.                                                 *)
NoLostUpdate ==
    \A p \in Proc :
        pc[p] \in {"create", "write", "persist"} =>
            mem[p] = Log!Effect(p, call[p], Contents)

(* "Write the state file atomically" (save): a file that load accepts is   *)
(* never replaced by one it rejects, so an invocation killed or failing    *)
(* half-way through a save cannot take the records of the others with it.  *)
NeverTorn == [][file.st # "bad" => file'.st # "bad"]_vars

(* The store implements the atomic log: every call has its effect at one   *)
(* instant or not at all, and Ok is returned only after it.                *)
ImplementsLog == Log!LSpec

(* No invocation waits for the lock for ever, whoever dies holding it and  *)
(* whichever calls fail: every call returns or its process dies.           *)
EveryCallReturns ==
    \A p \in Proc : pc[p] \in Steps ~> pc[p] \in {"idle", "dead"}
=============================================================================
