---- MODULE MCReorderBuffer ----
(* A window of three slots of two seconds: timestamps span more than twice the *)
(* window, so slots are reused, skipped and purged all at once.                *)
EXTENDS ReorderBuffer
MCTimestamps == 7 .. 21

\* The ring of slots implements the window: same points held, same points handed
\* out in the same order (oldest first), same refusals.
Abstract == INSTANCE ReorderWindow WITH held <- Buffered, out <- Points(res),
                                         allowUpdate <- rob.allowUpdate
ImplementsWindow == Abstract!Spec
====
