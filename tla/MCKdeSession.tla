---------------------------- MODULE MCKdeSession ----------------------------
(* KdeSession for TLC: two connectors, one of which a second device may    *)
(* take over, and a mode that only a change offers.                        *)
EXTENDS KdeSession

K60 == [size |-> 1, mhz |-> 60]
K120 == [size |-> 1, mhz |-> 120]
K2 == [size |-> 2, mhz |-> 60]

TwoConnectors == <<"DP-1", "DP-2">>
Replugged == <<"DP-1", "DP-2", "DP-1">>
Kinds == {K60, K120, K2}
TwoModes == <<K2, K60>>

(* Swap the outputs; turn one on as it is; what Plasma does not do.        *)
Swap == [en |-> [n \in {"DP-2"} |-> [mode |-> K120, place |-> "right"]],
         dis |-> {"DP-1"}, primary |-> "DP-2", native |-> FALSE]
Both == [en |-> [n \in {"DP-1"} |-> [mode |-> None, place |-> None]],
         dis |-> {}, primary |-> None, native |-> FALSE]
Native == [Both EXCEPT !.native = TRUE]
NoPlans == {}
SomePlans == {Swap, Both, Native}
=============================================================================
