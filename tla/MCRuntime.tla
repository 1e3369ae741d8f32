------------------------------ MODULE MCRuntime ------------------------------
(* What the kernel adds under the Swift runtime: closures (three blocks,    *)
(* two variables) and std::string (two strings, five bytes in the object,   *)
(* memory in steps of two).  They share nothing, so either part runs with   *)
(* the other at rest.                                                       *)
EXTENDS MCBlocks, BasicString

CONSTANTS s1, s2, a

MCStrings == {s1, s2}
MCChars == {a}
MCTexts == {[i \in 1 .. n |-> a] : n \in {0, 1, 2, 3, 4, 6}}

RuntimeInit == Init /\ StringInit
RuntimeNext == \/ StringInit /\ Next /\ UNCHANGED stringVars
               \/ Init /\ StringNext /\ UNCHANGED vars
RuntimeSpec == RuntimeInit /\ [][RuntimeNext]_<<vars, stringVars>>
=============================================================================
