----------------------------- MODULE RuntimeGraph -----------------------------
(***************************************************************************)
(* What the runtime functions that allocate promise to a compiled program, *)
(* in terms of the graph of objects of module ObjectGraph: a call consumes *)
(* its arguments and adds one object to the graph, made of the arguments   *)
(* as they were when the function was called.  A root is global_sysargs,   *)
(* a word of the static area or a word of the stack, in this order, the    *)
(* top of the stack last.  Module RuntimeCalls implements it.              *)
(***************************************************************************)
EXTENDS ObjectGraph

VARIABLE fn  \* the runtime function called last

runtimeVars == <<roots, graph, fn>>

word(w) == <<"word", w>>
zero    == word(BOX(0))

\* The last n of the roots rs, the first argument first; in graph g, the object
\* and the integer that an argument stands for.
args(rs, n)   == [k \in 1 .. n |-> rs[Len(rs) + 1 - k]]
obj(g, as, k) == g[as[k][2]]
int(as, k)    == UNBOX(as[k][2])

\* The characters of a string up to its first zero, followed by zeros.
text_length(s)    == Cardinality({i \in DOMAIN s : \A j \in 1 .. i : s[j] # word(0)})
zero_padded(s, n) == [i \in 1 .. n |-> IF i <= text_length(s) THEN s[i] ELSE word(0)]

object(type, len, words) == [type |-> type, len |-> len, words |-> words]
string(words)            == object("STRING", Len(words), words)
fresh_string(o)          == o = string(o.words) /\ refs(range(o.words)) = {}

\* An s-expression or a closure with members ms behind a tag or a code address.
has_members(o, type, len, ms) ==
  o.type = type /\ o.len = len /\ Len(o.words) = Len(ms) + 1 /\ Tail(o.words) = ms

printing == [Bstring |-> 0, LgetEnv |-> 1, LreadLine |-> 0, Lstring |-> 1, Lstringcat |-> 1,
             Lfread |-> 1]

\* Object o is what function f makes of the arguments as in graph g.
result(f, g, as, o) ==
  LET n == Len(as) IN
  \/ f = "Barray" /\ o = object("ARRAY", n, as)
  \/ f = "Bsexp" /\ has_members(o, "SEXP", n, as)
  \/ f = "Bclosure" /\ has_members(o, "CLOSURE", n + 1, as)
  \/ f = "LmakeArray" /\ n = 1 /\ o = object("ARRAY", int(as, 1), [i \in 1 .. int(as, 1) |-> zero])
  \/ f = "LmakeString" /\ n = 1 /\ o = string([i \in 1 .. int(as, 1) |-> word(0)])
  \/ f = "Lclone" /\ n = 1 /\ o = obj(g, as, 1)
  \/ /\ f = "Lclone_string" /\ n = 1
     /\ LET s == obj(g, as, 1).words IN o = string(SubSeq(s, 1, text_length(s)))
  \/ /\ f = "Li__Infix_4343" /\ n = 2
     /\ LET a == obj(g, as, 1)
            b == obj(g, as, 2)
        IN  o = string(zero_padded(a.words, a.len) \o zero_padded(b.words, b.len))
  \/ /\ f = "Lsubstring" /\ n = 3
     /\ LET a == obj(g, as, 1)
        IN  o = string(zero_padded(SubSeq(a.words, int(as, 2) + 1, a.len), int(as, 3)))
  \/ f = "Lsprintf" /\ n > 0 /\ fresh_string(o)
  \/ f \in DOMAIN printing /\ n = printing[f] /\ fresh_string(o)

\* In the four actions below the roots and the graph go from rs and g to ts and h.

\* A function is called; Lsprintf unboxes integers among its arguments.
Call(rs, g, ts, h) ==
  /\ Len(ts) = Len(rs)
  /\ \A i \in DOMAIN ts : \/ ts[i] = rs[i]
                          \/ rs[i][1] = "word" /\ ts[i] = word(UNBOX(rs[i][2]))
  /\ h = live_part(g, ts)

\* It returns: a fresh object replaces its arguments.
Return(rs, g, ts, h) ==
  LET d == ts[Len(ts)][2] IN
  /\ fn' = fn
  /\ ts[Len(ts)][1] = "ref" /\ d \notin DOMAIN g /\ d \in DOMAIN h
  /\ \E n \in 0 .. Len(rs) - 1 :
       /\ Len(ts) = Len(rs) - n + 1
       /\ SubSeq(ts, 1, Len(ts) - 1) = SubSeq(rs, 1, Len(rs) - n)
       /\ result(fn, g, args(rs, n), h[d])
  /\ h = live_part([x \in DOMAIN g \cup {d} |-> IF x = d THEN h[d] ELSE g[x]], ts)

\* The program moves values between its roots; what they no longer reach is gone.
MoveRoots(rs, g, ts, h) ==
  /\ fn' = fn /\ ts[1] = rs[1]
  /\ refs(range(ts)) \subseteq DOMAIN g
  /\ h = live_part(g, ts)

\* set_args makes an array of new strings.
SetArgs(rs, g, ts, h) ==
  LET d == ts[1][2] IN
  /\ fn' = fn
  /\ rs[1] = zero /\ ts[1][1] = "ref" /\ Tail(ts) = Tail(rs)
  /\ DOMAIN h = {d} \cup refs(range(h[d].words))
  /\ h[d] = object("ARRAY", Cardinality(DOMAIN h) - 1, h[d].words)
  /\ Len(h[d].words) = h[d].len
  /\ \A e \in DOMAIN h \ {d} : fresh_string(h[e])

RuntimeInit == /\ roots \in Seq(range(roots)) /\ roots[1] = zero
               /\ refs(range(roots)) = {} /\ graph = << >>
               /\ fn = "none"
RuntimeNext ==
  \E rs \in {roots}, g \in {graph}, ts \in {roots'}, h \in {graph'} :
    Call(rs, g, ts, h) \/ Return(rs, g, ts, h) \/ MoveRoots(rs, g, ts, h) \/ SetArgs(rs, g, ts, h)
RuntimeSpec == RuntimeInit /\ [][RuntimeNext]_runtimeVars
===============================================================================
