# fauxput in TLA+

fauxput makes virtual displays. `fauxput up` builds a vkms device under `/sys/kernel/config/vkms`, records
it in `/run/fauxput/active.json` and has the running compositor (KWin or Mutter) lay the new head out;
`fauxput down` and `fauxput reset` undo that. This directory holds TLA+ modules of those commands, of the
state file they share, of the system calls that build and take down a device, of the compositor they talk to,
of the plans they make for it and of the EDID they write; TLC configurations that check them on small instances; and TLAPS proofs of the main results for
every value of the constants. Paths below are relative to the repository; `src/lifecycle.rs` is
`src/src/lifecycle.rs` in `PROJECT.json`.

To check a module: `tlc -workers 2 -config X.cfg M`; to check a proof: `tlapm M.tla`.

## 1. The system

fauxput has no daemon. Every command is a process of its own that runs to its end; what outlives it is the
configfs tree in the kernel, the state file, and the compositor's layout. Two commands may run at once (a
session hook that runs `up` while the user runs `down`), and a command may be killed between any two
system calls. The correctness of the system is about those three stores staying in step. Inside one command
the Plasma adapter is a small event machine of its own: what it knows of KWin's outputs trickles in as
events, between which outputs come, go and change.

| component | state | operations | correctness |
|---|---|---|---|
| **state store** (`state.rs`) | `active.json`, `state.lock` | `load` (no lock); `push_instance`, `update_instance`, `clear` (lock, read, temporary file, rename) | no update lost, file never torn, lock never kept, each call atomic |
| **lifecycle** (`lifecycle.rs`) | the local variables of one `up`, `down` or `reset` | the three commands: about a dozen store, backend and compositor calls each, every one with an error path | what the user had is given back; no device is lost; no device is destroyed under the compositor; every command ends |
| **configfs-vkms backend** (`backend/configfs_vkms.rs`) | none but the tree `<root>/fauxput-N` | `create` (16 calls, undo log), `destroy` (walk of the tree), `disconnect`, `connector_names`, `list` | all or nothing on create; anything half-made can be removed; unplug before removal; the hotplug events the compositors need |
| **output plans and waits** (`compositor.rs`, and where `lifecycle.rs` makes plans) | a snapshot, a plan, a deadline | builder with conflict checks, `right_edge`; the plans of `up` and `down`; `wait_for_outputs` | the new head is where and how it was asked for and the others stay; a compositor that keeps its own rules accepts the plan; a wait ends |
| **Plasma adapter** (`compositor/kde.rs`, `wayland.rs`) | a Wayland session's view of the heads, the result of an apply | event handlers, `snapshot`, `apply`, two-phase `restore` | a snapshot is complete; the result belongs to the apply |
| **GNOME adapter** (`compositor/gnome.rs`) | none (D-Bus calls) | `snapshot`, `to_mutter_config`, `apply` | monitors not named by a plan keep their mode, colors and place; there is a primary |
| **EDID and timings** (`edid.rs`, `edid/timing.rs`) | none | `build`, `cvt_rb_v1` | no field loses bits; the limits admit the mode; the mode the layout asks for is one the display has |
| **command line, configuration** (`main.rs`, `config.rs`) | none | profile and options to a request | an option beats the profile; what cannot work is refused before anything happens |
| **errors, library root** (`error.rs`, `lib.rs`) | none | - | - |

How they interact: `main` calls `lifecycle`; `lifecycle` calls the store, the backend and, if
`connect_compositor` found one, an adapter, always in the order the code gives and without holding the
store's lock from one call to the next. The backend and the adapter never call each other: the kernel sends
the compositor hotplug events, and `up` waits for a head (`place_new_head`), `down` and `reset` wait for
heads to go (`disconnect_outputs`), by polling snapshots.

What is hard here, and where (the list with lines is `PROJECT.json` "hazards"):

* **interleaving**: choosing a free name and making its directory are two steps; `down` reads the records
  and clears them at the end without a lock around it; `up` makes its plans from a snapshot that is old;
* **crashes**: between the device and its record, between a layout and its record, inside a save, inside
  `commit` or `remove`;
* **partial failure**: sixteen calls of `commit`, ten of `remove`, most errors of `attach_compositor` are
  warnings, a restore that fails is a warning and the records are cleared all the same;
* **timeouts**: eight seconds for a head to appear or go; an apply that times out may still take effect, and
  its answer may come while the next one waits for its own;
* **stale state**: heads, modes and current modes kept from events about things that have gone;
* **numeric edges**: positions are computed from modes, scales and quarter turns, rounded, in scaled or physical
  units, and must come out as Mutter computes them; casts and field widths of the EDID; a refresh rate that the
  command line gives in hertz, the clock rounds and the compositor reports in millihertz;
* **ordering**: a device must be unplugged, and the compositor must have consumed that, before the device
  goes; the status is written in a different order on GNOME and on Plasma.

## 2. The modules

| module | models | code |
|---|---|---|
| `ActiveState` | the records of `active.json` as a sequence: push, newest match, replace | `state.rs` |
| `InstanceLog` | **abstract**: a log on which every store call acts at one instant or not at all | what `state.rs` promises |
| `StateStore` | `state.rs` system call by system call, any number of processes; refines `InstanceLog` | `state.rs` |
| `ConfigfsVkms` | `create`, `destroy`, `disconnect` system call by system call, one caller at a time | `backend/configfs_vkms.rs` |
| `Lifecycle` | `up`, `down`, `reset` of several processes over devices, records and compositor | `lifecycle.rs`, with the backend and the adapters as it uses them |
| `KdeState` | the Plasma adapter's handlers, the heads it shows, the configuration it builds from a plan | `compositor/kde.rs`, `compositor.rs` |
| `KdeSession` | `connect`, `snapshot`, `apply`, `restore` round trip by round trip, and the KWin they talk to | `compositor/kde.rs`, `compositor/wayland.rs` |
| `Edid` | timing, fields and limits of the EDID, and the modes read back from it | `edid.rs`, `edid/timing.rs` |
| `OutputPlans` | snapshots, the plan builder, the plans of `up` and `down` | `compositor.rs`, `lifecycle.rs` |
| `Requests` | from profile and options to a request | `config.rs` |
| `MutterConfig` | the GNOME adapter's snapshot and configuration, and Mutter's rules for one | `compositor/gnome.rs` |
| `GnomeSession` | `up` and `down` call by call in a GNOME session, with the actual layouts | `lifecycle.rs`, `compositor/gnome.rs` |
| `StateStoreProofs`, `ConfigfsVkmsProofs` | theorems about the module of that name | |
| `KdeProofs`, `KdeApplyProofs` | theorems about `KdeSession`: the verdicts and the outputs; what a plan makes of them | |
| `GnomeProofs`, `GnomeRefusalProofs` | theorems about `Edid` and `GnomeSession`; what Mutter refuses | |
| `LifecycleProofs` | theorems about `Lifecycle`: any number of commands at once, and one at a time; what a restore gives back | |
| `Selections` | the part of a sequence that a `retain` or `filter` leaves | `compositor.rs`, both adapters |
| `SequenceProofs` | lemmas about sequences that the proofs of both sessions use | |
| `MCStateStore`, `MCConfigfsVkms`, `MCLifecycle`, `MCKdeSession`, `MCGnomeSession` | instances and scenarios for TLC | |

How they compose: `Lifecycle` and `StateStore` extend `ActiveState`, so the effect of a push or an update
on the records is the same definition in both. `Lifecycle` takes the store's calls as single steps; that
is what `StateStore` refining `InstanceLog` (checked and proved) entitles it to. `Lifecycle` splits the
backend's `create` where another process can get in between (name, directory, device, clean-up) and takes
the rest of `commit` and all of `remove` as one step with the results they can have; `ConfigfsVkms` has
every call of them: `CreateComplete` and `CreateRollsBack` say what is there after a `create`, `RemoveClears` what a
`remove` leaves if no write or rmdir of it fails. `Lifecycle` assumes no more than that: a `remove` with a failing call may leave the
device off, on and unplugged, or as it was, and a listing may leave devices out. It takes an adapter's `snapshot` and `apply` as single steps too, whose outcomes
are those of `KdeSession`: done, refused, given up and done later all the same; `SnapshotFresh`,
`AppliedIsPlan` and `RestoreInOrder` say what of this a Plasma session keeps. `KdeSession` extends `KdeState`,
which has no variables, so that the handlers can be checked wherever they are used.

`GnomeSession` extends `Requests` and `MutterConfig`, both extend `OutputPlans` and that extends `Edid`; only
`GnomeSession` has variables. It is the counterpart of `Lifecycle`: there a layout is one bit per output, and
processes, kills and errors abound; here commands come one after the other and nothing fails, but a layout has
modes, positions, scales, turns, primaries and colors, and Mutter applies the rules it has for them. What
`Lifecycle` assumes of a GNOME apply (`Acceptable`: refused if the plan's primary is not among the outputs it
leaves on, or if it names none and the present one goes) is the rule `"primary"` of `Objections`.

### ActiveState, InstanceLog, StateStore

`file` is what a reader of the path finds (absent, a log that parses, or something `load` rejects); `lock`
the holder of the flock; `pc`, `call`, `mem`, `tmp`, `ret`, `view` the local state of each process. One
action is one system call: `Open`, `Lock`, `Load`, `CreateTemp`, `WriteTemp`, `Persist`, `Finish`, with
`Read` for the `load` outside the lock, `Fail` for an error of any of them before the rename, `Die` for a
kill. The JSON is abstracted to whether it parses. A record is a name and one mutable field, with one value
for "not set": two values tell lost updates apart.

`InstanceLog` has one variable for the log, one that says whether it can be read, and the phase of every
process. Its `Call` is the set of requests, `Effect` what each does. The refinement mapping is in
`StateStore` (`Log == INSTANCE InstanceLog WITH ...`): the log is the content of the file at the moment it
is renamed into place, so the linearisation point of a write is `Persist` and of a read `Read`.

### ConfigfsVkms

`tree[s]` is the directory `fauxput-s`: which of the instance and its four component directories exist
(`nodes`), the three topology links, the attributes written, whether the device is enabled, the connector's
status. `env` is the kernel and the desktop: whether the `edid` attribute exists, whether HDR is asked for
and its attributes exist, whether the desktop is Plasma, and whether the kernel is *strict*, refusing to
take the links and directories of an enabled device apart (both kinds are checked; the code does not say
which it runs on). `act` is the call under way. `commit` and `remove` are written as scripts, sequences of
calls in the code's order: `Build` makes the next call of the first, logs it if it is a mkdir or a symlink
and skips what the kernel or the desktop does not want; `BuildFails`, `Undo`, `UndoOver` are the failing
call, the log replayed in reverse and `remove` on top; `RemoveUnplugs`, `RemoveGoesOn`, `RemoveEnds` are the
steps 1, 3 to 5 and 6 of `remove`'s comment. `Kill` ends the call anywhere.

Directories and attributes follow configfs's own rules (`May`, `After`; external): a directory needs its
parent, cannot go while it has a link or is the target of one, and the topology of an enabled device does
not grow. A directory walk over something absent makes no call; it is the refused call here, which has no
effect either. `before`, `hurt`, `missed`, `blind` and `events` are history: the tree when the call began,
how many things went wrong in it, whether `remove` left the connector plugged, whether `create` could not
read the listing, how many hotplug events the call has sent. `check_available`, which only returns an
error, is left out.

### Lifecycle

`dev`, `log`, `readable`, `comp` are the three stores; `pr[p]` is the program counter and the local
variables of process `p`. Every store, backend or compositor call of the three commands is an action named
for it; every error path is one too (`CommitFails`, `PushFails`, `AwaitTimeout`, `ApplyFails`,
`AttachFails`, `LoadFails`, `RestoreFails`, `GoneTimeout`, `DisconnectFails`, `ClearFails`,
`SnapshotFails`). What can go wrong is the constant `Faults`: kills, compositor requests that fail, requests that
take effect but are reported as failed, waits that run out, errors of configfs and of the store, and a compositor that
from some moment on answers nothing (`Hang`).

An error of configfs is not always one that the code sees. `remove` drops those of its writes and reports the last rmdir,
which `down`, `reset` and a rollback do not look at: `Husks` is what may be left, the device off, on but unplugged, or as it was
(the write of `enabled` can fail like any other, `configfs_vkms.rs:365`). `entries` makes an empty listing of a
directory it cannot read and skips an entry it cannot read: `ListedAs` is any part of what there is, for both listings of `reset`,
and `Pick` may take a name that is in use. `left` of a device is the command that has last failed to remove it, or did not see it when
all that it listed was to go; `missed` of a command what its listing to disconnect by left out; both are history.

The compositor (external): it shows a head for a live connector some time after it is plugged, lets go of it
some time after it is unplugged, applies a plan in one step, refuses one that turns the last head off, keeps
the primary unless the plan names another or turns it off. Modes and positions are one bit per real
output, whether it is at the user's (`kept`); KWin reports and remembers that for an output that is off,
Mutter does not. `base` is what the user had before; `met` the faults so far, with what else the properties make exceptions for (a
restore that failed, a record without a snapshot, a snapshot of `up` with the head of a device that has gone:
`Ghosts`, a name given twice: `taken`); `by`, `pushed`, `restored` are history too.

What is abstracted: a save, a `load`, a plan's application, the loops of `connector_names` and `disconnect`
over the handles are single steps; a late apply takes effect when its error is returned; `check_hdr` and
the place of the new head, which change no state, are left out; the user does not rearrange outputs
meanwhile, and real outputs stay plugged.

### KdeState, KdeSession

`st` is the adapter's `State`: the devices in the order they came, each with the fields of `Device`, the modes
with those whose size and refresh are known (`info`), the configurations not destroyed (`cfgs`), `result` and
`reason`. `Handled(s, e)` is the `Dispatch` implementation that an event goes to, with one operator per
interface. `SnapshotOf` is `snapshot`'s list of heads (those with a name and a first `done`), `Configuration`
what `submit` writes for a plan, `FindMode` and `Priority` its two searches, `Applications` the one or two plans
of `restore`.

`me` is the call under way: each is a row of round trips, `then` says what the present one is for, and its
actions are the code between two of them: `Connect`, `NotKwin`, `GetBurst`, `Connected` (`connect`); `CallSnapshot`,
`Snapshot`; `CallApply`, `NothingToApply`, `Submit` and the loop of `poll_until`: `Went`, `Answered`,
`TimedOut`, `Sleep`, `Wake`, `Deadline`. `Dispatch` reads and dispatches events, `Broken` is a connection that KWin
has closed. `req` and `wire` are the connection, in order and without loss.

KWin is external: `heads` are its outputs, with what it has told this client of each; it answers requests in
their order (`Serve`), decides a configuration when it likes or never (`Verdict`), with or without a
reason, and meanwhile outputs are plugged, unplugged, plugged in again as a new device, rearranged, lose and
gain modes, and KWin withdraws its globals or goes (`Outside`). `Legacy` is Plasma before 6.7, whose outputs are
globals; `Mute` a KWin that never sends `current_mode` (no run has it, see section 6). `hist` is history: the outputs when the call began,
whether only the call has changed them, what was told during it and the fate of each configuration.

Three reductions keep it small, and none hides a behaviour. KWin serves the requests it has before
anything else happens: what would come between two answers can be dispatched together with them anyway. A
`Dispatch` takes all there is, and is cut short only once the answer to its `sync` is read: until then the round
trip goes on to the rest. A device is its protocol id, and a mode its device and kind. Colours are left out
but for the early refusal of native-gamut SDR; position, scale and transform, kept and compared alike, are
one setting (`place`).

### Edid, OutputPlans, Requests, MutterConfig

These have no variables: the functions of the code as operators, in the code's order. `CvtRbV1` is the range
check, libxcvt (external, with its integer arithmetic) and the check of the clock; `BuildDtd` and
`BuildRangeLimits` the casts and the field widths that redid (external) refuses to exceed; `ModesOf` what the
kernel makes of the EDID (external). Fixed blocks, strings and the checksum are left out. Products that exceed
TLC's integers are divided digit by digit (`LongDivision`). Where the code uses floating point (refresh, scaled
widths) the model divides exactly and rounds to the nearest.

A snapshot's heads, a plan's enables and a record have the fields of the code's structs. A scale is in percent, an
output's name is a number. `EnableAll`, `DisableAll`, `SetPrimary` are the builder, each with its conflicts;
`PlacePlan`, `LayoutPlan`, `RestorePlan` the plans. A `HashSet` that the code iterates over gives any order, so
`RestorePlan` takes the order as a parameter. `WithProfile`, `TryFrom`, `Resolve` are the way from a command line to
an `UpRequest`.

`MutterConfig` has `From<CurrentState>` as `SnapshotOf` and `to_mutter_config` as `ToMutterConfig`: the logical
monitors the plan does not name (`Untouched`), then one for each enable (`Submitted`), then the shift to the origin
(`Anchored`). A mode is its own id. `Objections` is Mutter's check of a configuration and `Obeyed` what it does
with one it accepts; both are external.

### GnomeSession

`mutter` is Mutter's state with its serial number, `attribute` whether the kernel has the attribute the EDID is
written to, `devs` and `recs` the devices and the records, `me` the command under way. `RunUp` resolves a command line and takes
the first snapshot, `Create` is `create_kernel_side`, `Await` the end of `place_new_head`'s wait and its plan,
`PlanLayout` the second plan; `Refresh` and `Apply` are the two D-Bus calls of an apply, `Refused` Mutter's error;
`RunDown`, `Unplug`, `Gone`, `Destroy` are `down`. `HeadAppears` is Mutter's reaction to a new monitor, which
may be any of three: leave it dark, put it beside the others, lay everything out anew, the latter two only if it would accept
the result of anybody else. `HeadGoes` is that to a lost
one, `UserChanges` a change made in the settings, between any two calls.

`hist` is history: the layout before the first `up`, whether since then only fauxput has changed it (`clean`), the
same since the command began (`calm`), and whether Mutter has granted everything (`obeyed`). A layout that
Mutter has made anew for the head `up` waits for counts as `up`'s own doing, as its place plan is there to undo that;
but not when that has lit a monitor the user had off, which no plan of `up` turns off again.

`down` is run from inside the session. `reset`, whose restore is the same, is in `Lifecycle`.

## 3. The runs

Each passing run also stands for the mutants listed in `PROJECT.json`: plausible bugs in the mapped
definitions, each of which makes TLC find the property violated.

| run | instance | shows |
|---|---|---|
| `store` | 2 processes, 2 calls each, 2 names, I/O errors and kills at every step, an unreadable file to begin with | `NoLostUpdate`, `NeverTorn`, `ImplementsLog` (refinement), `EveryCallReturns` (liveness) |
| `configfs` | 2 names, 3 calls, 2 failures, kills anywhere, strict and lax kernels, with and without EDID and HDR, both desktops | `LowestName`, `CreateComplete`, `CreateRollsBack`, `RemoveClears`, `GracefulRemoval`, `QuietRemoval` |
| `lifecycle_any` | 2 processes at once, any of 5 command lines, 2 real outputs, Plasma, all faults | `OnlyUserOutputs`, `RealOffOnlyByRequest`, `CommandsEnd` (liveness) |
| `lifecycle_seq` | 3 commands one after the other, any of 6 command lines, 2 real outputs, GNOME, all faults but a compositor that hangs | `LiveDevicesFound`, `UnplugConsumed`, `ResetCleans`, `RestorePlanValid`, `DownRestores` |
| `kde_heads` | 2 connectors, one of which may be plugged in again as a third device, 3 modes, connect and one snapshot, 2 changes at any time (plug, unplug, rearrange, lose or gain a mode), Plasma before and since 6.7 | `CaughtUp`, `SnapshotFresh` |
| `kde_apply` | 2 outputs, connect and two applies or restores of 3 plans, one of which is refused at once, an unplug or KWin's going at any time, verdicts late or never | `VerdictOurs`, `AppliedIsPlan`, `RestoreInOrder`, `CallsReturn` (liveness) |
| `gnome` | 7 desks of 2 real monitors and one of none, 2 connectors, 3 commands out of `down` and 5 command lines of `up`, 1 change by the user; and one `up` with any of 160 extreme specs; with and without the EDID attribute | `HeadAsAsked`, `OthersKept`, `OthersUntouched`, `StaleOnlyIfChanged`, `UpRefusedOnlyIf`, `ApartOnlyIf`, `RestoreRefusedOnlyIf`, `LayoutRestored`, `EdidFaithful` |
| `find_*` | the smallest scenario that shows a finding | see section 6 |

Why these bounds are enough to be interesting:

* `store`: two processes are what a lost update, a lock kept or a rename raced needs; two calls each let one
  see the effect of the other's first before its second.
* `configfs`: three calls are what "make, fail to remove, make again" and "leave a gap, fill it" need; two
  failures let an undo fail after the call it undoes; kills are not counted. `commit` has 16 calls and
  `remove` 10, and each can be where it stops. `Init` adds empty directories left from before.
* `lifecycle_any`: two processes are what every race of the hazards list takes. The desktop is Plasma, whose
  `restore` has two phases. The compositor may hang at any call; 750 thousand distinct states.
* `lifecycle_seq`: three commands are the shortest history in which a `down` undoes two `up`s. The desktop is
  GNOME, which forgets where an output that is off was. Commands run one after the other because the
  properties are promises the code does not keep for concurrent ones (that is what `find_rollback` and
  `find_clear` show). Processes, connectors and real outputs are interchangeable (`Permutations`); slots are not, the
  lowest is taken first. A compositor that hangs is left out, as nothing more happens after it when commands run
  one after the other; 2 million distinct states.
* `kde_heads`: one change may fall between two round trips of `connect` and another into the snapshot, or both
  into one round trip; a third device under the name of the first is what a re-plug needs, and a mode that only a
  change offers what a mode's loss while it is the current one needs. A second snapshot begins in a state the
  first one can begin in as well.
* `kde_apply`: two calls are what a verdict that comes during the next call needs, and a `restore` sends two
  configurations. The plans swap the outputs (a mode not offered at that refresh, a disabled output, another
  primary), or turn one on as it is. One change is an unplug between the refresh and the verdict, or KWin's end.
* `gnome`: the desks are what the arithmetic can go wrong on: side by side with the primary in HDR on the right, a
  screen turned and scaled so that its edge is rounded, a layout in physical pixels, one monitor above or below
  a wider one, two that mirror each other, one that is dark, and no monitor at all. The command lines are a head beside the others, a profile
  that takes over the desk (primary, alone, scaled, HDR), a primary, the profile with options against
  it, and one from outside the session. Three commands are two `up`s and the `down` of both. The extreme specs are
  combinations of widths 199, 200, 1366 (not a multiple of 8), 4095, 4096, heights 200, 1440, 4095, 4096
  and 23, 24, 60, 240 Hz, at either side of the limits of the timing, of the fields and of the range limits.

Deadlock is checked everywhere: the only states without a further step are those in which every command or
call is over, and they stutter explicitly (`AllOver`, `AllDone`).

**Fairness.** Only the three liveness properties use any. `StateStore`: weak fairness of each process's next
system call; `flock` grants a lock that is free, and since a process makes finitely many calls a waiter is not
passed over for ever; it is the scheduler that justifies this. `Lifecycle`: weak fairness of each process's next step, by the same
argument, but a step that asks the compositor is possible only while that does not hang. Nothing in the code makes such a
call return: `wait_for_outputs` looks at its deadline between two snapshots ("Snapshot calls can block",
`compositor.rs:468`), and a Wayland round trip (`wayland.rs:64-72`) has none. So the environment may hang at any call (`Hang`, without
fairness, and for good), and `CommandsEnd` says that every command ends or is at a call that a hanging compositor does not answer.
`KdeSession`: weak fairness of one thing, that the client runs, time passes or KWin answers a request it has;
KWin is not assumed ever to decide a configuration, which is what the deadline in `poll_until` is for.
Nothing makes the compositor notice or let go of a device, and no error is forced except the deadline of a
wait whose condition stays false, so for a compositor that answers `CommandsEnd` rests on the deadlines of the code. A system call that
blocks inside the kernel is not modelled there. A KWin that accepts the connection and then answers nothing is
excluded by the fairness of `KdeSession`: a round trip (`wayland.rs:64-72`) has no deadline, and every call
begins with one, so such a KWin holds the command for ever.

## 4. What is proved

TLAPS checks the following for every set of processes, names, outputs and faults and every bound, from the
named assumptions on the constants only (slots are a finite set of naturals; the names of real outputs and
of vkms connectors differ; the null values are none of the others; bounds are naturals). The theorems of
the second and third part of `LifecycleProofs` have one hypothesis more, `MaxRunning = 1`: commands run one after the
other. It is what their properties are about (`find_rollback` and `find_clear` show that the code does
not keep them otherwise), and the run `lifecycle_seq` has it too. In `KdeProofs` those about the outputs, and those of `KdeApplyProofs`, have the hypothesis
`~Mute`, KWin sends `current_mode` (section 6 says what becomes of the others). Of the Plasma
session's constants it is assumed that an output has modes, no two the same, and that a plan is one the builder of
`compositor.rs` accepts (`PlansAre`: nothing both enabled and disabled). Of the GNOME session's: each desk is a state Mutter may be in, with a layout that Mutter
does not object to or none (`DesksAreStates`), command lines have the types clap gives them (`CommandLines`), and connectors
and outputs are numbers (`Connectors`, `DesksAreStates`).

**StateStoreProofs.** `TypeCorrect`, `WritesKept` (`NoLostUpdate`), `SavesAtomic` (`NeverTorn`), `Refinement`
(`ImplementsLog`). `NoLostUpdate` is not inductive: that the file does not change between a process's read
and its rename needs that whoever is in those steps holds the lock (`HolderOnly`), that what is renamed is
complete (`TempComplete`), that only `load` runs without the lock (`LoadsUnlocked`) and that a file which is
about to be replaced had parsed (`ParsedBefore`). From these the refinement is a step-by-step argument:
`Persist`, an update that finds nothing, a failing load and `Fail` are the abstract steps, all else stutters.

**LifecycleProofs.** `TypeCorrect`, `OthersStayOff` (`OnlyUserOutputs`), `RestoringSparesReal`
(`RealOffOnlyByRequest`). That no plan turns on an output the user had off needs the same of everything a plan
is made from: each process's old snapshot, the records in the file, each copy of them a `down` has loaded
(`SoundRecord`, `SoundLocals`), kept through every action by lemmas about sequences of records. That a
head fauxput calls its own is never a real output needs the kernel's name of an enabled device (`DevSound`).

Its second part is about commands that run one after the other: `LiveDevicesAreFound` (`LiveDevicesFound`), `ResetsClean` (`ResetCleans`), both from
`OneAtATime`, and `UnplugsAreConsumed` (`UnplugConsumed`). The invariant of `OneAtATime`, `AInv`, says of the one command
under way which devices it can have made and whether it has pushed a record (`Maker`), that the records a
`down` has loaded are still those in the file (`Sees`), and that every device it has yet to destroy is on its list
of work, up to an empty list when it clears the records (`Todo`), but for those it has already failed at: these, and those its
second listing did not show it, have its mark (`left`). That a device is left by *some* command is never enough for `ResetCleans`,
which allows only for the failures of the reset itself: what a kill or an earlier command has left must be on its list. A
`reset` sweeps a second listing, so its list covers devices no record names. `BInv` follows a device through the wait: those to
be destroyed are among those unplugged or those the first listing has left out (`missed`), the connectors of the former among the names
waited for, and after the wait the compositor shows none of them, which stays so because an unplugged head can only go, and a device
that is not removed when its turn comes is not plugged in again.

Its third part is about what a restore gives back: `RestorePlansAreValid` (`RestorePlanValid`) and `LayoutComesBack` (`DownRestores`).
A plan made of all records conflicts only if one record has taken (turned off, or noted as the primary) what
another calls its head; `CInv` says that this is never so (`Apart`). It needs that the vkms outputs taken belong to devices
that stay as long as the records (`Kept`), so that the connector of a new device is not one of them, and
the same of what an `up` under way is about to record (`Plans`). The proof attempt found a history in which it is
not so, five commands long and without a failure (section 5, `ghost`). `DInv` says that what the user
had on and is off is in a record, or in the locals of the `up` that is about to write it (`Recalled`), and that
the oldest record's snapshot, which restores take modes and places from, shows them all as the user had them
(`Remembered`).

**ConfigfsVkmsProofs.** `TypeCorrect`, `NextFreeIsLeast` and `LowestNameTaken` (`LowestName`), `Graceful`
(`GracefulRemoval`), `Quiet` (`QuietRemoval`), `CreateIsComplete` (`CreateComplete`), `CreateRolls`
(`CreateRollsBack`), `DestroyClears` (`RemoveClears`). `NextFreeIsLeast` is about the algorithm: for every finite set of indices,
counting how far the sorted indices agree with 0, 1, 2, ... gives the least one not in use. `Graceful` needs to
know how far a call has got (`Positions`): not enabled before `commit` gets there, and unplugged by then but on
Plasma, where nothing comes after; unplugged, if enabled, while there is something to undo; unplugged by
`remove` unless that has failed. The last three need what the instance holds at every point of the scripts (`JInv`):
a directory's parents are there and its links lead somewhere (`AllFormed`, of anything configfs can hold);
`commit` has made exactly what its script lists up to where it is, and has logged it (`Building`); what
is left to undo is what there is (`Undoing`); `remove` has taken away all that its script lists up to where it
is, or something has failed (`Removing`).

**KdeProofs.** `VerdictsAreOurs` (`VerdictOurs`): whatever has been given up before, however late KWin answers and whatever
happens to its outputs, what `apply` returns is the answer to its own configurations, for any outputs, modes and plans
and any number of calls. A configuration not decided yet is in one request or with KWin, never twice (`Pending`); what is on its
way about a configuration is what has become of it, and it is decided once (`Answers`); so the result and the
reason in the `State`, which were emptied when the configuration at hand was sent and which only its events
can fill, are part of what was said of it, and the rest is still to come (`Waiting`, and that a failure without a reason in the
`State` has it ahead of it on the wire); and the configurations of the call before the last one have been applied (`Mine`). `Waiting` is
carried over a whole dispatch by induction over the events handled (`OneHandled`, `AllHandled`); that everything else
KWin sends is not about configurations takes lemmas about concatenations of any length (`FlattenHas`, `BurstIsQuiet`,
`NewsIsQuiet`). Induction is over a set of natural numbers, which follows from the library's theorem that `<` is
well-founded (`AllNat`).

`HandlersCatchUp` (`CaughtUp`) and `SnapshotsAreFresh` (`SnapshotFresh`): for any outputs, modes and
plans, whatever is plugged, unplugged, plugged in again, rearranged, gains or loses modes, at any time. The `State` is
what folding the handlers over the events makes of it, so it is split up: `View` is what the `State` has of one output,
and an event changes only the view of the output it is about, in a way that depends on that view alone
(`ViewHandled`). `Leads` says that a sequence of events takes any of some views of an output to one of others,
with only certain views in between; it is proved of everything KWin sends of an output (a description, a
rearrangement, a mode lost or gained, a goodbye) and composed over outputs and sequences (`Tells`). `Between` are the views
in between: of a head that is being changed its parts are old or new, of one that is being described the
head is not shown yet. The invariant (`SInv`) is that after the events under way the view of each output is what
KWin has told of it (`InStep`); which takes that KWin tells nothing it is not asked for (`Unasked`) and that what the
client asks to be told of was offered (`OnWire`, `OnFile`), so that nothing is described twice, or before its `global`;
and, as configurations change the outputs too, that what is asked for in them are modes and places there are
(`Writes`). A snapshot ends wherever the read stops that has the answer to its `sync` in it, so `Noting` speaks of
every such place: there, each view shows what KWin has told of that output since the call, or it has told several
things of it; and there is one `sync` at a time (`OneSync`), so that the answer is to this one.

**KdeApplyProofs.** `PlansAreApplied` (`AppliedIsPlan`), `RestoresInOrder` (`RestoreInOrder`) and `SessionTyped`
(`TypeOK`). At the end of the refresh's round trip the `State` has of each output exactly what KWin has (`Settled`): that is
`Noting` again, for outputs that nothing has changed since the call began. So what the configuration is built from is
true, and what KWin would make of the outputs with it, wherever it still is, on its way or in KWin's hands, is what the
plan wants of them as they are (`Right`): by `WrittenFits`, every property that is left out is as wanted already and every mode
written is the nearest there is, and by `WrittenRanks` the priorities are distinct, with the plan's primary alone first.
`Right` is not what is promised yet, which speaks of the outputs as they were when the call began. For that the invariant says
what is in force: until KWin has applied the configuration at hand the outputs are as they were, or, in the second
round of a restore, as the first plan wanted them (`Undone`), and from then on as the plan at hand wants them
(`InForce`); and what a plan wants of a head that is as the restore's first plan, the same without its disables, wanted it,
is what the plan wants of the head before that (`FitsTwice`): a mode found twice is found at the same distance. `RestoreInOrder`
is what `Undone` says of the second round. Besides, the invariant (`AInv`) knows the rounds of a restore
and the plan of each (`Phases`, `Rounds`), that outputs which were described stay so (`Steady`), what an apply that has
returned leaves (`Worked`), and that no two outputs have one name (`Distinct`), without which a plan could mean another output.
The only part of type correctness that is not a matter of form is that a head shown has a place: a view of an output is
done only after its geometry has come, at every point at which a read may stop (`Sound`).

**GnomeProofs.** `EdidIsFaithful` is about arithmetic: for every width, height and rate that `build` accepts,
no cast has lost a bit, and the limits admit the mode. `LongDivision` is shown to be division
(`Divides`), so the clock and the refresh rate are within one unit of their exact quotients (`RateBelow`, `RateAbove`,
`RefreshBelow`, `RefreshAbove`), the blanking that libxcvt adds is bounded, and the horizontal rate is the clock over
the line. `EdidsAreFaithful` (`EdidFaithful`) says it of every device of a GNOME session.
`NeverStaleAlone` (`StaleOnlyIfChanged`): the adapter reads Mutter's
serial number and sends it back in two calls, and nothing `up` or `down` has done itself changes Mutter's state in between. It
needs that what was read is still so while a request is due (`SeenIsNow`), and for that that a device is unplugged only
while `down` is on its way from the unplug to the removal, and only if it has a record (`UnplugOnlyInDown`): no
head of fauxput's own goes during an apply. Neither of these two assumes anything of the desks or the command lines.

`SessionTyped` (`TypeOK`) says above all that Mutter's state always is one Mutter may be in (`MutterOK`: no two monitors with one
name, none shown twice, each lit exactly if it is shown and then in a mode of its own), though it is made of configurations:
fauxput's, Mutter's own and the user's. `ConfigOK` is what makes a configuration one that can be carried out: each of its parts
shows monitors there are in modes of theirs, and no monitor is shown by two. `Obeys`: what is left of a sound state by such
a configuration is a state Mutter may be in, also if the state was on its way from one to another (`Sound`: a monitor
has just been lost). `ConfigIs`, `RowIs` and `ChangedIs`: all that are made are such. For the first, the recursion over the enables is followed
enable by enable: each shows a monitor that nothing before it shows, because the plan does not name
what is carried over (`UntouchedIs`) and enables nothing twice, which is what the builder promises (`Built`). The rest of the
invariant (`TInv`) is what `up` and `down` hold meanwhile: plans are built ones, snapshots are well-formed, the newest
record is that of the `up` at work (`MineIs`), and a state read by the adapter whose serial number is still Mutter's is still
Mutter's state (`SeenOK`). From the same invariant follows the action property, `UnnamedAreUntouched` (`OthersUntouched`): a
logical monitor that the plan does not name is submitted whole, since all its monitors are lit (`WholeIs`), and what is
submitted as it is does not change but for the one offset of all (`UnnamedStay`).

`OthersAreKept` (`OthersKept`) and `HeadIsAsAsked` (`HeadAsAsked`): when `up` reports success and nobody else has touched the
layout, all that was on and is to stay is as it was and where it was, and the head is as asked, for any desk and request.
Both are about one step, the apply that is granted, and follow from what is known before it (`WInv`, `HInv`). Every
output that is on is named in the plan, for nothing but the head has been lit since the snapshot (`Familiar`); so
nothing is carried over and the configuration is the plan's enables with one offset (`LayoutDone`), which is
none unless outputs go: a layout that Mutter has carried out starts at the origin (`InPlace`), so what was seen does
(`Pictured`), and the head is put to the right of it. Each output can be put back as it was seen, because in the meantime Mutter may have
turned it off, moved it and laid all out anew but has taken no mode from it (`Outlives`, `Remembers`); and
the plan is that of the snapshot and not of what Mutter has made of the layout since (`PlanIs`). That the head has the mode asked for
takes that the monitor of its name is the one Mutter has made of its device (`HeadOurs`), and not one that was
there before under that name: the kernel gives a free connector, and the monitors seen are the snapshot's or those of
devices (`Strangers`). Then, by `EdidIsFaithful`, the first of its modes is the one the request stands for, when libxcvt
keeps the width (`OffersMode`); and any other mode the adapter takes is of the same size.

**GnomeRefusalProofs.** `UpIsRefusedOnlyIf` (`UpRefusedOnlyIf`): an `up` that nobody else disturbs is never refused because the
layout is off the origin or, unless monitors mirror each other, because one monitor is on top of another; nor as empty or without a
primary but for the reasons listed. What Mutter checks is described rule by rule (`ObjectedIs`). A layout of Mutter's is in order
(`Orderly`: one primary, nothing overlapping, at the origin), whether Mutter has carried out a
configuration it had checked or has laid all out in a row on its own (`InitInPlace`, `AnchoredOrigin`); so of what is seen before
the device is made no two outputs overlap, or two mirror each other (`Tidy`). The plans of `up` enable each of these where it was, but for
those to go, and the head to the right of all (`PlaceUp`, `LayoutUp`); the sizes the plans reckon with are Mutter's own, also turned, scaled or in physical
pixels (`UpSpots`), so that what is asked for does not overlap either (`UpApart`). For the primary the invariant says what
becomes of the layout between the snapshot and a request, in which Mutter receives the head and the place plan is carried out: each monitor
stays by itself and something stays on (`Ahead`), and the head is not the primary unless it is the only one (`Second`); then the
configuration has one primary, or the only one there was is among those to go (`UpMain`). All of
it is taken together in `UpAgainst`, at the moment of the request, when what was read is what Mutter has (`SeenIsNow`). After a refusal
the command does nothing more and nobody else has anything to do with it, so it stays true (`Ended`, `LeftRefused`).

`UpFallsApartOnlyIf` (`ApartOnlyIf`) is the same for the rule that a layout must hold together: in Mutter's layouts every monitor
touches another (`NoneApart`), so of what was seen each output touched another (`Joined`) or two mirrored each other
(`PartsSeen`: otherwise outputs and parts of the configuration are one to one); what has been moved alike touches as
before (`FrameMoved`), and the head, put at the right edge, touches every output that ends there and shares a row with it
(`HeadTouches`). So something comes apart only if the head touches nothing that stays, or if outputs go that held the others together (`UpTouch`).

The assumption about the desks that this needs is that the layout a session begins with is one Mutter accepts, or none
(`DesksAreStates`).

**Only model-checked**, on the instances above:

* the three liveness properties: liveness and ENABLED are out of the prover's reach;
* two properties of `GnomeSession`: `RestoreRefusedOnlyIf` and `LayoutRestored`. Both are about what several commands and
  Mutter's answers to them have made of the layout since the first record, which needs an invariant of its own.

No module uses a RECURSIVE operator.

## 5. Exceptions the properties make

A property that holds only under conditions says so in its definition; in one place:

* `DownRestores`: a process killed, a store operation that failed, or an apply that takes effect after its error, leaves
  a layout that no record describes; a failed restore is given up and its records cleared; a device created outside
  the session records no snapshot, so modes and positions are not promised afterwards.
* `CommandsEnd`: a compositor that hangs holds a command at the call it does not answer, for good.
* `LiveDevicesFound`: a device that a rollback, a `down` or a `reset` could not remove may still be on when the records are
  cleared, since the errors of `destroy` are dropped (`lifecycle.rs:424`), and so may one that a listing of `reset` has left out; only a later
  `reset` finds it.
* `UnplugConsumed`: not for a device that the first listing of `reset` has left out (`missed`), which is then destroyed, for its record or in
  the second listing, without having been unplugged.
* `RestorePlanValid`: a process killed, or a store operation that failed, leaves devices without records or records without
  devices, whose connectors go to later devices; and so does an `up` that was given a name in use by a listing with gaps (`taken`), whose
  clean-up removes the device of that name. And so does a `down` from outside the session: it waits for no unplug, so
  the compositor may still show the head of a device that has gone (`ghost`); an `up --disable-real-outputs` then takes that
  head for a real output, turns it off and records it, and when its connector's name comes back with
  the next device the restore both turns it on and off, and is given up.
* `ResetCleans`: a device that this very `reset` could not remove, on or off, or that its second listing has left out, stays; the
  records are cleared all the same.
* `CreateRollsBack`: one failure, at any point; a second one can keep the undo from being complete (then
  `RemoveClears` says a later `destroy` gets it).
* `LowestName`, `CreateRollsBack`: not when the directory listing itself fails, because
  `existing_instance_indices` treats that as an empty listing.
* `GracefulRemoval`: not when the write of the status fails in `remove`, which goes on regardless.
* `SnapshotFresh`: a head described before that changes within the snapshot may be in it half-changed, because
  `done_seen` is never reset. Before Plasma 6.7 an output plugged just before the snapshot is bound during its
  round trip and is missing from it; the property counts a head from when KWin describes it to this client.
* `AppliedIsPlan`, `RestoreInOrder`: calls in which nothing else changes the outputs. If the plan's primary is not
  there no head has the first priority. If the manager goes during the first round trip of `connect`, `connect`
  takes it for alive and an apply then waits for its whole deadline.

* `HeadAsAsked`: a width that is not a multiple of 8 is rounded by libxcvt, and a kernel without the attribute
  offers modes of its own; then the head is at least in no other size, if it is lit. When other virtual heads
  stay and the real outputs go, the position is shifted, as all are.
* `HeadAsAsked`, `OthersKept`: not when the user has changed the layout during the command, or when Mutter has lit a
  monitor that was dark.
* `UpRefusedOnlyIf`: Mutter refuses a layout of `up` when the head has no mode of the size asked for and was to be the
  only one or the primary; for `up --disable-real-outputs` without `--primary` when the primary is among what goes, for
  the configuration has none then; when monitors mirror each other, which are placed one by one; and when no output is on,
  so that none is the primary and the head does not become it without `--primary`.
* `ApartOnlyIf`: when no output that stays and ends at the right edge reaches the top rows, where the head is placed, so that the head touches
  nothing (`NoneBeside`); when `--disable-real-outputs` turns off what an output that stays touched (`HeldByOthers`); and when monitors
  mirror each other.
* `RestoreRefusedOnlyIf`: mirrored monitors, no output on before the first `up`, or the case of the finding `find_primary`.
* `LayoutRestored`: only fauxput has changed the layout, from inside the session, and Mutter has refused nothing. Then all comes back,
  the primary with it, but when the output recorded as the primary was not it (`lifecycle.rs:326` records the first output):
  then all but the primary does. That the primary does not is the finding `find_layout`.
* `EdidFaithful`: the lower limit of the refresh rate may exceed the rate itself for sizes so small, or clocks so
  low, that rounding costs more than a hertz.

## 6. Findings

Five runs find a statement of the repository violated by the code; `PROJECT.json` "findings" quotes each.

* `find_rollback`: two `up` choose one name; the one that fails removes the other's device
  (`backend/configfs_vkms.rs:445`).
* `find_clear`: `down` wipes a record pushed since it loaded the file (`lifecycle.rs:429`).
* `find_crash`: an `up` killed between its layout and the record of it leaves a real output off for good
  (`lifecycle.rs:374`).
* `find_primary`: after an `up --primary` that leaves the real outputs on, `down` asks GNOME to set the primary back to
  an output that its plan does not enable; the adapter takes the mark from the monitors it carries over and gives it to
  none, and Mutter refuses the whole configuration (`compositor/gnome.rs:136`).
* `find_layout`: `apply_layout` records the first real output as the previous primary, whichever is (`lifecycle.rs:326`). With
  the panel first and the screen primary, `up --primary --disable-real-outputs` and `down` are granted everything, and
  the panel is primary afterwards; `restore_compositor` is documented to set "primary back to the original primary", and
  `dev/test_gnome_torture.bats` requires this layout to equal the one before.

One more divergence is in the model, without a run of its own: for a KWin that sends no `current_mode` (`Mute`) the first mode is taken for
the current one, where the comment says that the last is (`compositor/kde.rs:637-641`).

## 7. Not modelled

`main.rs` dispatches and prints; `error.rs` and `lib.rs` have no behaviour; packaging and scripts are no part of the program. Of
`config.rs` the reading and parsing of the file is left out: a profile is there or the command ends. `wlr.rs` is a
stub. The advertised limit of eight displays is enforced nowhere, so no property is about it. Colors on Plasma
are left out but for the early refusal of native-gamut SDR, and so are the EDID's fixed blocks and strings. `GnomeSession`
has no concurrent commands and no faults; `Lifecycle` has both, on layouts of one bit per output.

## 8. Plan

Done, in this order: the store with its abstraction; the lifecycle; the backend; the Plasma session; plans, requests, EDID
and the GNOME session; then the proofs: the store, the lifecycle for any number of commands, the backend, the lifecycle
for commands that run one after the other, the EDID, the verdicts, the views and the plans of the Plasma session, Mutter's
states, what a plan leaves alone in them, what `up` has done to them and what Mutter refuses of it. To come:

1. Proofs that a restore is not refused and that `down` gives the layout back.
2. An abstract adapter (one request, one answer) that `KdeSession` implements and whose steps are those of
   `Lifecycle`'s compositor.
3. Hazards that have no property yet (each has a note in `PROJECT.json`).
