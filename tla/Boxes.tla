--------------------------------- MODULE Boxes ---------------------------------
(***************************************************************************)
(* Bounding boxes as the detectors compare them (domain/geometry.hpp).     *)
(* Boxes are taken with the same vertical extent, so areas and overlaps    *)
(* are those of their horizontal ones.  Ratios and confidences are numbers *)
(* of Scale-ths.                                                           *)
(***************************************************************************)
EXTENDS Integers, Sequences, SequencesExt

CONSTANT Scale

ASSUME ScaleAssumption == Scale \in Nat \ {0}

Intersection(a, b) ==
    Max({0, Min({a.x + a.width, b.x + b.width}) - Max({a.x, b.x})})

BoxUnion(a, b) == a.width + b.width - Intersection(a, b)
==============================================================================
