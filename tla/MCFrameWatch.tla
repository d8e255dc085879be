---------------------------- MODULE MCFrameWatch ----------------------------
(***************************************************************************)
(* Model checking FrameWatch: a clear sky, and one with so few and soft    *)
(* stars that the frame fails, the stars drop and the focus drifts.        *)
(***************************************************************************)
EXTENDS FrameWatch

MCSkies == { [stars |-> 10, hot |-> 0, hfr |-> 30, elongation |-> 10],
             [stars |-> 4,  hot |-> 0, hfr |-> 70, elongation |-> 10] }

=============================================================================
