-------------------------------- MODULE MCHeap --------------------------------
(* Small instances of the interpreter's heap for TLC. *)
EXTENDS HeapStructure, InterpHeapProperties

OneBase  == {400}
TwoBases == {400, 416}
ZeroOnly == {0}
OneString  == {<<97>>}
TwoStrings == {<< >>, <<97>>}
ArrayOps  == {"CONST", "LD", "ST", "BARRAY", "STA"}
BoxedOps  == {"DROP", "LD", "LD_C", "ST_C", "BSEXP", "BCLOSURE", "BSTRING", "LSTRING"}
AllOps    == {"CONST", "DROP", "DUP", "LD", "ST", "LDA", "STA_ref", "LWRITE", "LD_C",
              "ST_C", "ELEM", "STA", "LLENGTH", "BINOP", "LREAD", "TAG", "ARRAY", "PATT",
              "PATT_str", "BARRAY", "BSEXP", "BCLOSURE", "BSTRING", "LSTRING"}
EveryOp   == AllOps \cup {"LDA_C"}
GraphOps  == {"CONST", "ST", "ST_C", "STA", "BARRAY", "BSEXP", "BCLOSURE", "LSTRING"}
InteriorOps == {"CONST", "DROP", "LDA_C", "STA_ref", "BSTRING", "BCLOSURE"}
===============================================================================
