--------------------------- MODULE MCWindowCapture ---------------------------
(* WindowCapture with child surfaces, all inside the first window.  A child  *)
(* is searched when it is as large as its window.                           *)
EXTENDS WindowCapture

CONSTANTS w

MCParent == [x \in Child |-> w]
MCMinSurface == [s \in 1..Largest |-> s]
=============================================================================
