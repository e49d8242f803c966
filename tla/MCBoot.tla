------------------------------- MODULE MCBoot -------------------------------
(***************************************************************************)
(* The instance of Boot that TLC checks.  All parts of .masuda are edited   *)
(* that are read at different times: a workflow and the settings it needs,  *)
(* the perspectives, which are merged with the bundled ones and kept, the   *)
(* image, and claude, which is copied last.  The edits of the perspectives  *)
(* and of the pitfalls break them.  A behaviour is followed up to its first *)
(* slip of an image, which the other properties do not know.               *)
(***************************************************************************)
EXTENDS Boot

BrokenEdits == {<<"reviews", 2>>, <<"pitfalls", 2>>}

ImagesInOrder == slip \cap {"crossed", "unrecorded"} = {}
=============================================================================
