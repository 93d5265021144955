---------------------------- MODULE MCGnomeSession ----------------------------
(* GnomeSession for TLC: two real monitors, the desks a user may have set  *)
(* up with them, and the command lines the configurations choose from.     *)
EXTENDS GnomeSession, TLC

Fhd == ModeInfo(1920, 1080, 60000)
Qhd == ModeInfo(2560, 1440, 59951)
Panel(mode) == [name |-> 1, modes |-> <<Fhd, ModeInfo(1280, 720, 60000)>>,
                preferred |-> Fhd, current |-> mode, color |-> None]
Screen(mode, color) == [name |-> 2, modes |-> <<Qhd, Fhd>>,
                        preferred |-> Qhd, current |-> mode, color |-> color]

At(x, y, percent, transform, primary, monitors) ==
    [x |-> x, y |-> y, scale |-> percent, transform |-> transform,
     primary |-> primary, monitors |-> monitors]
Desk(panel, screen, logical, physical) ==
    [serial |-> 0, monitors |-> <<panel, screen>>, logical |-> logical,
     physical |-> physical]

(* The screen, primary and in HDR, to the right of the panel.              *)
SideBySide ==
    Desk(Panel(Fhd), Screen(Qhd, "hdr"),
         {At(0, 0, 100, 0, FALSE, {1}), At(1920, 0, 100, 0, TRUE, {2})}, FALSE)
(* The screen on its side and scaled: 2560 becomes 1707 rows.              *)
OnItsSide ==
    Desk(Panel(Fhd), Screen(Qhd, "sdr"),
         {At(0, 0, 100, 0, TRUE, {1}), At(1920, 0, 150, 1, FALSE, {2})}, FALSE)
(* A layout in physical pixels; the panel not in its preferred mode.       *)
Physical ==
    Desk(Panel(ModeInfo(1280, 720, 60000)), Screen(Qhd, "native"),
         {At(0, 0, 100, 0, FALSE, {1}), At(1280, 0, 200, 0, TRUE, {2})}, TRUE)
(* The wider one above the other, and below it.                            *)
Above ==
    Desk(Panel(Fhd), Screen(Qhd, "sdr"),
         {At(0, 1440, 100, 0, TRUE, {1}), At(0, 0, 100, 0, FALSE, {2})}, FALSE)
Below ==
    Desk(Panel(Fhd), Screen(Qhd, "sdr"),
         {At(0, 0, 100, 0, TRUE, {1}), At(0, 1080, 100, 0, FALSE, {2})}, FALSE)
Mirrored ==
    Desk(Panel(Fhd), Screen(Fhd, "sdr"), {At(0, 0, 100, 0, TRUE, {1, 2})}, FALSE)
LidOnly ==
    Desk(Panel(Fhd), Screen(None, "sdr"), {At(0, 0, 100, 0, TRUE, {1})}, FALSE)

(* No monitor at all, as on a server.                                      *)
Server == [serial |-> 0, monitors |-> << >>, logical |-> {}, physical |-> FALSE]

AllDesks == {SideBySide, OnItsSide, Physical, Above, Below, Mirrored, LidOnly, Server}
SomeDesks == {SideBySide}

NoOptions == [o \in Options |-> None]
Sized(w, h) == [width |-> w, height |-> h] @@ NoOptions
Line(profile, options) == [profile |-> profile, options |-> options, sess |-> TRUE]
Fhd60 == Sized(1920, 1080)
Television ==
    [hdr |-> TRUE, scale |-> 125, primary |-> TRUE, disable |-> TRUE] @@ Sized(1280, 720)

(* Beside the others; with a profile that takes over the desk; as the      *)
(* primary; the profile with options that differ from it; and from outside *)
(* the session.                                                            *)
CommonLines ==
    {Line(None, Fhd60),
     Line(Television, NoOptions),
     Line(None, [primary |-> TRUE] @@ Fhd60),
     Line(Television, [primary |-> FALSE, hdr |-> FALSE, scale |-> 100] @@ Fhd60),
     [Line(None, Fhd60) EXCEPT !.sess = FALSE]}

(* Sizes and rates at the limits of the timings, of the fields and of the  *)
(* range limits, in HDR or not, and what clients ask for.                  *)
RareLines ==
    {Line(None, [width |-> w, height |-> h, fps |-> hz, hdr |-> hdr] @@ NoOptions) :
        w \in {199, 200, 1366, 4095, 4096}, h \in {200, 1440, 4095, 4096},
        hz \in {23, 24, 60, 240}, hdr \in BOOLEAN}

Heads == {3, 4}
Both == {TRUE, FALSE}
=============================================================================
