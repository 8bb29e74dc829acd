--------------------------- MODULE MCRecordingAudio ---------------------------
(* Two or three windows, with one more upload where a window is uploaded twice. *)
EXTENDS RecordingAudio, TLC

CONSTANTS u1, u2, u3, m1, m2, w1, w2, w3

TwoWindows == {w1, w2}
ThreeWindows == {w1, w2, w3}
TwoUploads == {u1, u2}
ThreeUploads == {u1, u2, u3}
OneMerge == {m1}
TwoMerges == {m1, m2}
Each2 == u1 :> w1 @@ u2 :> w2
Each3 == u1 :> w1 @@ u2 :> w2 @@ u3 :> w3
Twice2 == u1 :> w1 @@ u2 :> w2 @@ u3 :> w1
OneWav == {u1}
NoWav == {}
===============================================================================
