---------------------------- MODULE MCAutoUpdate ----------------------------
(***************************************************************************)
(* Instance of AutoUpdate for TLC.  Version 3 is a broken release (it      *)
(* still loads as 2).  The channel may move both numbers, one, or neither; *)
(* raise the floor, drop it, or leave it behind the build it names; go     *)
(* back to an older manifest; and name no valid build.  Build 1 is one the *)
(* channel no longer names.                                                *)
(***************************************************************************)
EXTENDS AutoUpdate

MCManifests ==
  {[version |-> 1, build |-> 2, floor |-> None],
   [version |-> 2, build |-> 2, floor |-> 2],
   [version |-> 2, build |-> 3, floor |-> 1],
   [version |-> 3, build |-> None, floor |-> 2],
   [version |-> 4, build |-> 3, floor |-> 3]}
=============================================================================
