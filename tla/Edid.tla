--------------------------------- MODULE Edid ---------------------------------
(***************************************************************************)
(* From the request of `up` to the EDID of the virtual display (edid.rs,   *)
(* edid/timing.rs): the timing that libxcvt computes, the fields into      *)
(* which it is written, and the modes the kernel reads out of them.  A     *)
(* spec is [width, height, hz, hdr].  Of the EDID's blocks those are kept  *)
(* that depend on the spec: the detailed timing and the range limits.      *)
(***************************************************************************)
EXTENDS Integers, SequencesExt

CONSTANT None       \* an Option's None, a Result's Err

-----------------------------------------------------------------------------
(* floor(a * b / c) and the remainder, digit by digit: the products here   *)
(* do not fit TLC's integers.  For a below 10^6.                           *)
DivideOn(acc, digit, b, c) ==
    LET r == 10 * acc.rem + digit * b
    IN [quo |-> 10 * acc.quo + r \div c, rem |-> r % c]

LongDivision(a, b, c) ==
    LET Next(acc, place) == DivideOn(acc, (a \div place) % 10, b, c)
    IN Next(Next(Next(Next(Next(Next([quo |-> 0, rem |-> 0],
            100000), 10000), 1000), 100), 10), 1)

-----------------------------------------------------------------------------
(* libxcvt_gen_mode_info with reduced blanking (external): the width is    *)
(* rounded down to a multiple of 8, the vertical sync tells the aspect,    *)
(* the vertical blanking takes at least 460us, and the clock is rounded    *)
(* down to 250 kHz.  A line lasts Period / (height * hz) microseconds.     *)
VSync(w, h) ==
    CASE 3 * w = 4 * h -> 4
      [] 9 * w = 16 * h -> 5
      [] 10 * w = 16 * h /\ h % 10 = 0 -> 6
      [] 4 * w = 5 * h -> 7
      [] 9 * w = 15 * h /\ h % 9 = 0 -> 7
      [] OTHER -> 10

Xcvt(spec) ==
    LET period == 1000000 - 460 * spec.hz
        lines == spec.height * spec.hz
        active == spec.width - (spec.width % 8)
        vsync == VSync(active, spec.height)
        vblank == Max({(460 * lines) \div period + 1, 3 + vsync + 6})
    IN [h_active |-> active, h_front |-> 48, h_sync |-> 32, h_back |-> 80,
        v_active |-> spec.height, v_front |-> 3, v_sync |-> vsync,
        v_back |-> vblank - 3 - vsync,
        clock |-> 250 * LongDivision(4 * (active + 160), lines, period).quo]

HTotal(t) == t.h_active + t.h_front + t.h_sync + t.h_back
VTotal(t) == t.v_active + t.v_front + t.v_sync + t.v_back

(* Timing::refresh_mhz, rounded to the nearest millihertz.                 *)
Rounded(q, c) == IF 2 * q.rem >= c THEN q.quo + 1 ELSE q.quo
RefreshOf(t) ==
    LET frame == HTotal(t) * VTotal(t)
    IN Rounded(LongDivision(t.clock, 1000000, frame), frame)

Sides == 200..8192
Rates == 24..240
MaxClock == 655350
CvtRbV1(spec) ==
    IF spec.width \notin Sides \/ spec.height \notin Sides \/ spec.hz \notin Rates
    THEN None
    ELSE LET t == Xcvt(spec) IN IF t.clock > MaxClock THEN None ELSE t

(* EdidSpec::refresh_mhz and UpRequest::mode.                              *)
ModeInfo(w, h, mhz) == [w |-> w, h |-> h, mhz |-> mhz]
SpecRefresh(spec) ==
    LET t == CvtRbV1(spec) IN IF t = None THEN 1000 * spec.hz ELSE RefreshOf(t)
RequestedMode(spec) == ModeInfo(spec.width, spec.height, SpecRefresh(spec))

-----------------------------------------------------------------------------
(* The fields, after the casts of build_dtd.  redid (external) refuses a   *)
(* value that is wider than its field.                                     *)
AsU8(n) == n % 256
AsU16(n) == n % 65536

BuildDtd(t) ==
    LET d == [h_active |-> AsU16(t.h_active), h_front |-> AsU16(t.h_front),
              h_sync |-> AsU16(t.h_sync), h_back |-> AsU16(t.h_back),
              v_active |-> AsU16(t.v_active), v_front |-> AsU8(t.v_front),
              v_sync |-> AsU8(t.v_sync), v_back |-> AsU16(t.v_back),
              clock |-> t.clock]
    IN IF /\ d.h_active <= 4095 /\ d.v_active <= 4095
          /\ d.h_front <= 1023 /\ d.h_sync <= 1023
          /\ d.v_front <= 63 /\ d.v_sync <= 63
          /\ d.h_front + d.h_sync + d.h_back <= 4095
          /\ d.v_front + d.v_sync + d.v_back <= 4095
       THEN d ELSE None

(* A range-limits field holds up to 255, or 510 with its offset.           *)
MaxRange == 510

(* Mutant: the clock's limit rounded down.                                 *)
RangesClipped(t, hz) ==
    LET hfreq == t.clock \div HTotal(t)
    IN [min_h |-> AsU16(Max({hfreq - 5, 1})), max_h |-> AsU16(hfreq + 5),
        min_v |-> AsU16(Max({hz - 1, 1})), max_v |-> AsU16(hz + 1),
        max_mhz |-> AsU16(t.clock \div 1000)]

RangesAround(t, hz) ==
    LET hfreq == t.clock \div HTotal(t)
    IN [min_h |-> AsU16(Max({hfreq - 5, 1})), max_h |-> AsU16(hfreq + 5),
        min_v |-> AsU16(Max({hz - 1, 1})), max_v |-> AsU16(hz + 1),
        max_mhz |-> AsU16((t.clock + 999) \div 1000)]

(* With HDR the 640x480 mode that CTA-861 requires has to be in range.     *)
WithVga(r) ==
    [min_h |-> Min({r.min_h, 31}), max_h |-> Max({r.max_h, 32}),
     min_v |-> Min({r.min_v, 59}), max_v |-> Max({r.max_v, 60}),
     max_mhz |-> Max({r.max_mhz, 26})]

BuildRangeLimits(t, hz, hdr) ==
    LET around == RangesAround(t, hz)
        r == IF hdr THEN WithVga(around) ELSE around
    IN IF r.max_h <= MaxRange /\ r.max_v <= MaxRange THEN r ELSE None

(* build: the EDID of a spec, or None when any part of it is refused.      *)
Build(spec) ==
    LET t == CvtRbV1(spec)
        dtd == BuildDtd(t)
        limits == BuildRangeLimits(t, spec.hz, spec.hdr)
    IN IF t = None \/ dtd = None \/ limits = None THEN None
       ELSE [dtd |-> dtd, limits |-> limits, hdr |-> spec.hdr]

-----------------------------------------------------------------------------
(* The kernel (external): the modes it reads from the EDID, the preferred  *)
(* one first.                                                              *)
Vga == ModeInfo(640, 480, 59940)
ModesOf(edid) ==
    LET main == ModeInfo(edid.dtd.h_active, edid.dtd.v_active, RefreshOf(edid.dtd))
    IN IF edid.hdr THEN <<main, Vga>> ELSE <<main>>

-----------------------------------------------------------------------------
(* What is to hold of an EDID: no field lost bits in its cast, and the     *)
(* range limits admit its own modes, that of HDR included.  The refresh    *)
(* rate may be below its range when the clock is so low, or the rows so    *)
(* few, that rounding them costs more than a hertz.                        *)
Shortfall(t, hz) ==
    LET rows == t.v_active + (460 * (t.v_active * hz)) \div (1000000 - 460 * hz)
    IN (250000 * hz) \div t.clock + (1000 * hz * (VTotal(t) - rows)) \div VTotal(t) + 2

Within(r, clock, htotal, mhz) ==
    /\ clock <= 1000 * r.max_mhz
    /\ htotal * r.min_h <= clock /\ clock <= htotal * r.max_h
    /\ mhz <= 1000 * r.max_v

Faithful(edid, spec) ==
    LET r == edid.limits
        t == CvtRbV1(spec)
    IN /\ edid.dtd = t
       /\ Within(r, t.clock, HTotal(t), RefreshOf(t))
       /\ Shortfall(t, spec.hz) <= 1000 => RefreshOf(t) >= 1000 * r.min_v
       /\ spec.hdr => Within(r, 25175, 800, Vga.mhz) /\ Vga.mhz >= 1000 * r.min_v
=============================================================================
