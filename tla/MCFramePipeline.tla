---- MODULE MCFramePipeline ----
(* FramePipeline for TLC: two frames in flight, three images, two sizes.   *)
EXTENDS FramePipeline
CONSTANTS i1, i2, i3
MCImages == {i1, i2, i3}
====
