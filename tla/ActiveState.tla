---------------------------- MODULE ActiveState ----------------------------
(***************************************************************************)
(* The value fauxput keeps in active.json: the sequence of instance        *)
(* records, oldest first (state.rs, ActiveState and InstanceRecord).  Only *)
(* constant-level operators live here.  A record is any record with a      *)
(* field `id`, the local_id of its device handle; the modules that use     *)
(* this one choose the other fields.                                       *)
(***************************************************************************)
EXTENDS Naturals, Sequences

EmptyState == <<>>

(* Positions of the records whose handle names the device `id`.            *)
Matches(log, id) == {i \in 1..Len(log) : log[i].id = id}

(* state.instances.push(record).                                           *)
Pushed(log, rec) == Append(log, rec)

(* The newest matching record: .iter_mut().rev().find(..).                 *)
Newest(log, id) ==
    CHOOSE i \in Matches(log, id) : \A j \in Matches(log, id) : j <= i

(* What update_instance leaves behind when its closure turns the record it *)
(* finds into `rec`; an absent name leaves the sequence alone.             *)
Replaced(log, id, rec) ==
    IF Matches(log, id) = {} THEN log
    ELSE [log EXCEPT ![Newest(log, id)] = rec]
=============================================================================
