------------------------------- MODULE Requests -------------------------------
(***************************************************************************)
(* From the options of `up` to its request (config.rs).  A command line is *)
(* [profile, options, sess]: the options of the profile it names, or None, *)
(* those given explicitly, None for each that is not, and whether it is    *)
(* run inside the session.  Text and files are left out; a profile that    *)
(* cannot be read ends the command before anything happens.                *)
(***************************************************************************)
EXTENDS OutputPlans

Options == {"width", "height", "fps", "scale", "primary", "disable", "hdr"}

WithProfile(profile, options) ==
    [o \in Options |-> Or(options[o], Of(profile, o))]

(* UpRequest::try_from; None is an error.  The timing is tried here, so    *)
(* that an `up` that starts has one, if not always an EDID.                *)
TryFrom(options) ==
    LET spec == [width |-> options["width"], height |-> options["height"],
                 hz |-> Or(options["fps"], 60), hdr |-> Or(options["hdr"], FALSE)]
    IN IF \/ spec.width = None \/ spec.height = None
          \/ options["scale"] # None /\ options["scale"] <= 0
          \/ CvtRbV1(spec) = None
       THEN None
       ELSE [spec |-> spec, scale |-> options["scale"],
             primary |-> Or(options["primary"], FALSE),
             disable |-> Or(options["disable"], FALSE)]

Resolve(line) == TryFrom(WithProfile(line.profile, line.options))
=============================================================================
