-------------------------- MODULE MCSpeakerQueue --------------------------
(***************************************************************************)
(* Small instances of SpeakerQueue.                                        *)
(***************************************************************************)
EXTENDS SpeakerQueue, TLC

CONSTANTS u1, u2, u3

ThreeUsers == {u1, u2, u3}

\* The workers are interchangeable, and so are the prioritised users and the
\* others.
QueueSymmetry ==
    Permutations(Workers) \cup Permutations(Prioritised)
        \cup Permutations(Users \ Prioritised)
=============================================================================
