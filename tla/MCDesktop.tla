---------------------------- MODULE MCDesktop -----------------------------
(***************************************************************************)
(* A small instance of Desktop.                                            *)
(***************************************************************************)
EXTENDS Desktop, TLC

\* One named profile, a painted one.
PaintedRed ==
    {[level |-> 9, zones |-> [z \in Zones |-> "red"], painted |-> TRUE,
      lighting_mode |-> "per-key"]}

\* Curves of two points.
Curve(a, b) == (1 :> a) @@ (2 :> b)
Point(t, p) == [t |-> t, p |-> p]
FactoryShapes ==
    ("quiet" :> Curve(Point(1, 0), Point(4, 2)))
        @@ ("balanced" :> Curve(Point(2, 1), Point(3, 2)))

\* Where a point is taken: colder and faster than any curve allows.
FarPoints == {<<0, 3>>}

\* What the command line stores.
OneCurve == {[points |-> Curve(Point(2, 1), Point(4, 2)), enabled |-> TRUE]}
=============================================================================
