---- MODULE MCDevUpload ----
(***************************************************************************)
(* DevUpload with two good frames of different lengths, so that one may be *)
(* spliced into the other, and one that is rejected at each check.         *)
(***************************************************************************)
EXTENDS DevUpload

MCFrame(id, kind, rest) == [id |-> id, kind |-> kind, rest |-> rest]

MCFrames == {MCFrame(1, "good", 1), MCFrame(5, "good", 0), MCFrame(2, "bad crc", 0),
             MCFrame(3, "bad layout", 0), MCFrame(4, "bad header", 0)}
MCOne == {MCFrame(1, "good", 1)}
====
