------------------------- MODULE MCSelectEventLoop -------------------------
(***************************************************************************)
(* Small instances of SelectEventLoop.  Two slots in each table let a      *)
(* callback start, stop or watch before and behind the place of the walk   *)
(* and fill the table; two ticks let a timer fall due between any two      *)
(* steps of a round, before or after another, and let runFor() end first.  *)
(* Two descriptors let one be watched while the other is closed and opened *)
(* again.                                                                  *)
(***************************************************************************)
EXTENDS SelectEventLoop

RunTimes2 == {1, Forever}
RunForever == {Forever}
=============================================================================
