------------------------------- MODULE MCRuntime -------------------------------
(* Small instances of the runtime functions that allocate for TLC. *)
EXTENDS HeapStructure, RuntimeProperties

OneBase  == {400}
TwoBases == {400, 416}
ZeroOnly == {0}
OneOnly  == {1}
OneString  == {<<97>>}
TwoStrings == {<<97>>, <<98, 99>>}
NoArgs   == {0}
ZeroOrTwo == {0, 2}
\* Without Ls__Infix_58, which goes wrong when a collection moves its operands.
SoundCalls == {"PUSH", "LOAD", "STORE", "Bsexp", "Lclone", "Bstring", "Li__Infix_4343",
               "Lsubstring"}
AllCalls == SoundCalls \cup
            {"DUP", "DROP", "LmakeArray", "Barray", "LmakeString", "Bclosure", "Ls__Infix_58",
             "LgetEnv", "LreadLine", "Lstring", "Lstringcat", "Lsprintf", "Lfread"}
ConsCalls == {"PUSH", "Bstring", "Ls__Infix_58"}

\* The first heap lies at the lower base, from where it may move.
MCInit == RuntimeInit /\ heap.begin = 400
MCSpec == MCInit /\ [][RuntimeNext]_callVars
===============================================================================
