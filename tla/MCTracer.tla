---- MODULE MCTracer ----
EXTENDS DirectTracer
Spec == TracerSpec /\ TracerFairness
====
