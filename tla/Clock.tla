-------------------------------- MODULE Clock --------------------------------
(***************************************************************************)
(* Date.now() as the components with windows and time-outs read it, in     *)
(* the unit that matters to each.  It never runs backwards here; the code  *)
(* does not guard against that either.                                     *)
(***************************************************************************)
EXTENDS Integers

VARIABLE now

\* Time passes; each component's horizon bounds how far it is followed.
Tick(horizon) ==
  /\ now < horizon
  /\ now' = now + 1
=============================================================================
