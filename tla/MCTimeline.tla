----------------------------- MODULE MCTimeline -----------------------------
(* Timeline on a small instance.                                           *)
EXTENDS Timeline

\* One word in two spellings and with two confidences, and another word.
SmallSaid ==
    {[word |-> "x", size |-> 2, confidence |-> 0],
     [word |-> "x", size |-> 1, confidence |-> 1],
     [word |-> "y", size |-> 1, confidence |-> 0]}
=============================================================================
