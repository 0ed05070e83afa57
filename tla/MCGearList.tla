----------------------------- MODULE MCGearList -----------------------------
(* GearList on small instances; the requests are interchangeable, and so are *)
(* the image formats.                                                        *)
EXTENDS GearList, TLC

Symmetric == Permutations(Requests) \cup Permutations(Exts)

=============================================================================
