---------------------------- MODULE InstanceLog ----------------------------
(***************************************************************************)
(* What the state file promises the fauxput invocations that share it: a   *)
(* log of instance records on which every call takes effect at one instant *)
(* between its invocation and its return.  A call that returns an error,   *)
(* or whose process died before that instant, has had no effect at all.    *)
(* StateStore, the lock, temporary file and rename of state.rs, implements *)
(* this specification.                                                     *)
(***************************************************************************)
EXTENDS ActiveState

CONSTANTS
    Proc,       \* fauxput invocations that share the state directory
    Id,         \* device names (local_id)
    Tag,        \* what the update closures write into a record
    NoTag       \* a record as `up` first pushes it, one of Tag

Record == [id : Id, by : Proc, tag : Tag]

Call == [op : {"push"}, id : Id]
        \cup [op : {"update"}, id : Id, tag : Tag]
        \cup [op : {"clear", "load"}]

(* A call other than clear parses the file it finds, and fails if it       *)
(* cannot.                                                                 *)
Parses(c) == c.op # "clear"

(* A wrong variant, for a mutation run: the closure fills another field.   *)
TaggedWrongField(rec, tag) == [rec EXCEPT !.by = tag]

(* The record update_instance's closure leaves at the position it found.   *)
Tagged(rec, tag) == [rec EXCEPT !.tag = tag]

(* The log after process p's call c.                                       *)
Effect(p, c, log) ==
    IF c.op = "push" THEN
        Pushed(log, [id |-> c.id, by |-> p, tag |-> NoTag])
    ELSE IF c.op = "update" /\ Matches(log, c.id) # {} THEN
        Replaced(log, c.id, Tagged(log[Newest(log, c.id)], c.tag))
    ELSE IF c.op = "clear" THEN EmptyState
    ELSE log

-----------------------------------------------------------------------------
VARIABLES
    log,        \* the records
    readable,   \* FALSE while the file cannot be parsed
    phase,      \* phase[p]: where p's call is
    call,       \* call[p]: the call p makes, or made last
    ret,        \* ret[p]: what that call returned
    view        \* view[p]: what p's last load saw

lvars == <<log, readable, phase, call, ret, view>>

LInit ==
    /\ readable \in BOOLEAN
    /\ log = EmptyState
    /\ phase = [p \in Proc |-> "idle"]
    /\ call = [p \in Proc |-> [op |-> "load"]]
    /\ ret = [p \in Proc |-> "none"]
    /\ view = [p \in Proc |-> EmptyState]

LInvoke(p) ==
    /\ phase[p] = "idle"
    /\ \E c \in Call : call' = [call EXCEPT ![p] = c]
    /\ phase' = [phase EXCEPT ![p] = "pending"]
    /\ ret' = [ret EXCEPT ![p] = "none"]
    /\ UNCHANGED <<log, readable, view>>

(* The instant at which the call takes effect; only then is it Ok.         *)
LCommit(p) ==
    /\ phase[p] = "pending"
    /\ Parses(call[p]) => readable
    /\ phase' = [phase EXCEPT ![p] = "done"]
    /\ ret' = [ret EXCEPT ![p] = "ok"]
    /\ log' = Effect(p, call[p], log)
    /\ readable' = TRUE
    /\ view' = IF call[p].op = "load" THEN [view EXCEPT ![p] = log] ELSE view
    /\ UNCHANGED call

(* The call fails, without an effect.                                      *)
LAbort(p) ==
    /\ phase[p] = "pending"
    /\ phase' = [phase EXCEPT ![p] = "done"]
    /\ ret' = [ret EXCEPT ![p] = "err"]
    /\ UNCHANGED <<log, readable, call, view>>

LReturn(p) ==
    /\ phase[p] = "done"
    /\ phase' = [phase EXCEPT ![p] = "idle"]
    /\ UNCHANGED <<log, readable, call, ret, view>>

LDie(p) ==
    /\ phase[p] \in {"idle", "pending", "done"}
    /\ phase' = [phase EXCEPT ![p] = "dead"]
    /\ UNCHANGED <<log, readable, call, ret, view>>

LNext ==
    \E p \in Proc :
        LInvoke(p) \/ LCommit(p) \/ LAbort(p) \/ LReturn(p) \/ LDie(p)

LSpec == LInit /\ [][LNext]_lvars
=============================================================================
