---- MODULE MCReads ----
(* Entities that refer to one another in a circle and have numbers. *)
EXTENDS Reads

CONSTANTS x, y, z, k, r

Put_(e, a, tag, v) == [e |-> e, a |-> a, tag |-> tag, v |-> v, unique |-> FALSE]
Number(e, n) == Put_(e, k, "int", n)
Refers(e, f) == Put_(e, r, "ref", f)

AllWrites == {Number(x, 1), Number(x, 2), Number(y, 1), Refers(x, y), Refers(y, z), Refers(z, x)}
Key_(e) == [Put_(e, k, "int", 1) EXCEPT !.unique = TRUE]
KeyWrites == {Key_(x), Key_(y), Put_(x, k, "none", 0), Refers(x, y)}

V(name) == [kind |-> "var", x |-> name]
Wild == [kind |-> "any"]
S(sel) == [kind |-> "sel", s |-> sel]
N(n) == [kind |-> "cell", cell |-> Cell("int", n)]
Pattern(terms) == [kind |-> "pattern", terms |-> terms]
Not(body) == [kind |-> "not", body |-> body]
Or(branches) == [kind |-> "or", branches |-> branches]
Rule(name, args) == [kind |-> "rule", name |-> name, args |-> args]
Pred(op, l, rt) == [kind |-> "pred", op |-> op, left |-> l, right |-> rt]
F(name) == [x |-> name, aggregate |-> "none"]
A(agg, name) == [x |-> name, aggregate |-> agg]
Find(find, where) == [find |-> find, where |-> where, source |-> "current", rules |-> {}]
Define(name, args, body) == [name |-> name, args |-> args, body |-> body]

(* Two patterns the planner swaps, the second one batched. *)
Join == Find(<<F("e"), F("n")>>,
             <<Pattern(<<V("f"), S(k), V("n")>>), Pattern(<<V("e"), S(r), V("f")>>),
               Pattern(<<V("e"), S(k), Wild>>)>>)
(* A negation with a variable of its own, used again after it. *)
Leaf == Find(<<F("f"), F("g")>>,
             <<Pattern(<<Wild, S(r), V("f")>>), Not(<<Pattern(<<V("f"), S(k), V("g")>>)>>),
               Pattern(<<V("g"), S(r), Wild>>)>>)
(* Branches that bind the same variable, and a pattern with a variable attribute. *)
Either == Find(<<F("e"), F("v"), F("n")>>,
               <<Or(<< <<Pattern(<<V("e"), S(k), N(1)>>)>>, <<Pattern(<<Wild, S(r), V("e")>>)>> >>),
                 Pattern(<<V("e"), V("a"), V("v")>>), Pred("!=", V("a"), V("v")),
                 Pattern(<<V("e"), S(k), V("n")>>)>>)
Closed == [Find(<<F("a"), F("b")>>, <<Rule("reach", <<V("a"), V("b")>>), Not(<<Rule("end", <<V("b")>>)>>)>>)
           EXCEPT !.rules = {
             Define("reach", <<"a", "b">>, <<Pattern(<<V("a"), S(r), V("b")>>)>>),
             Define("reach", <<"a", "c">>, <<Rule("reach", <<V("a"), V("b")>>), Rule("reach", <<V("b"), V("c")>>)>>),
             Define("end", <<"a">>, <<Pattern(<<V("a"), S(k), Wild>>), Not(<<Rule("reach", <<V("a"), Wild>>)>>)>>)}]
Since == [Find(<<F("t"), F("n")>>,
               <<Pattern(<<S(x), S(k), V("n"), V("t"), V("d")>>), Pattern(<<S(y), S(k), V("n"), V("u")>>),
                 Pred("<", V("u"), V("t"))>>)
          EXCEPT !.source = "history"]
Total == Find(<<F("t"), A("count", "e"), A("count-distinct", "n"), A("sum", "n")>>,
              <<Pattern(<<V("e"), S(k), V("n")>>), Pattern(<<V("e"), S(r), V("t")>>)>>)
AllQueries == {Join, Leaf, Either, Closed, Since, Total}

Req(index, source, components, limit) ==
    [index |-> index, source |-> source, components |-> components, limit |-> limit]
AllRequests == {Req("eavt", "history", <<>>, 2), Req("eavt", "current", <<S(x)>>, 1),
                Req("avet", "history", <<S(k)>>, 1), Req("avet", "current", <<S(k)>>, 1),
                Req("vaet", "current", <<>>, 1)}
LookupRequests == {Req("eavt", "current", <<[kind |-> "lookup", a |-> k, cell |-> Cell("int", 1)]>>, 1)}
====
