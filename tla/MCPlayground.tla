---------------------------- MODULE MCPlayground ----------------------------
(* The instances of Playground for TLC.                                     *)
EXTENDS Playground

\* Two words that cannot be taken for each other.
MCReplies == {<<1, 2>>}

\* Answers that repeat words and runs of words, 1 being a heading, and an empty
\* one.
MCRepeatingReplies ==
    {<<1, 2, 1, 2>>, <<2, 1, 1, 2>>, <<2, 2, 1, 2>>, <<1, 1, 1, 1>>, <<>>}
=============================================================================
