---------------------------- MODULE MCEntities ----------------------------
(* Requests that meet on two unique values: records with and without an id,
   nested records, tokens, lookups, and allocations that come to nothing. *)
EXTENDS Entities

CONSTANTS v1, v2

Email == "email"
Friend == "friend"
Kind == "kind"
Note == "note"

ByName(n) == [kind |-> "name", x |-> n, y |-> None]
Tmp(t) == [kind |-> "tmp", x |-> t, y |-> None]
Lookup(a, v) == [kind |-> "lookup", x |-> a, y |-> v]
NoId == [kind |-> "none", x |-> None, y |-> None]
V(v) == [kind |-> "val", x |-> v]
R(spec) == [kind |-> "ref", x |-> spec]
Sub(rec) == [kind |-> "rec", x |-> rec]
Rec(id, fields) == [id |-> id, fields |-> fields]
F(a, v) == [a |-> a, v |-> v]
Map(id, fields) == [op |-> "map", rec |-> Rec(id, fields)]
Assert1(e, a, v) == [op |-> "assert", e |-> e, a |-> a, v |-> v]
Gone(e) == [op |-> "retract", e |-> e]

McRequests == <<
    \* an owner of v1, by name and without
    << Map(ByName("ada"), << F(Email, V(v1)) >>) >>,
    << Map(NoId, << F(Note, V(v1)), F(Email, V(v2)) >>),
       Map(NoId, << F(Email, V(v2)), F(Friend, R(ByName("ada"))) >>) >>,
    \* a token that turns out to be an owner, before and after it is used
    << Map(Tmp("t"), << F(Note, V(v2)), F(Email, V(v1)) >>),
       Assert1(ByName("bob"), Friend, R(Tmp("t"))) >>,
    << Assert1(Tmp("t"), Note, V(v1)), Map(Tmp("t"), << F(Email, V(v2)) >>) >>,
    \* nested records
    << Map(NoId, << F(Friend, Sub(Rec(NoId, << F(Email, V(v2)) >>))), F(Email, V(v1)) >>) >>,
    << Map(Tmp("t"), << F(Friend, Sub(Rec(NoId, << F(Note, V(v2)) >>))), F(Email, V(v1)) >>) >>,
    \* lookups
    << Map(Lookup(Email, v1), << F(Note, V(v1)) >>),
       Assert1(Lookup(Email, v2), Friend, R(Lookup(Email, v1))) >>,
    \* allocations that are canceled, a new attribute and a member after them
    << Map(Tmp("t"), << F(Note, V(v1)) >>), Assert1(ByName("bob"), "tag", V(v1)),
       Map(Tmp("u"), << F(Kind, V(v1)), F(Friend, R(ByName("ada"))) >>), Gone(Tmp("t")) >>,
    << Map(Tmp("t"), << F(Note, V(v1)) >>), Map(Tmp("x"), << F(Note, V(v2)) >>),
       Map(Tmp("u"), << F(Note, V(v1)), F(Friend, R(ByName("ada"))) >>),
       Gone(Tmp("t")), Gone(Tmp("x")) >>,
    << Map(NoId, << F(Note, V(v1)) >>), Map(NoId, << F(Kind, V(v2)) >>) >>,
    << Map(Tmp("u"), << F(Kind, V(v1)), F(Note, V(v2)) >>),
       Map(Tmp("t"), <<>>), Gone(Lookup(Email, v1)), Gone(Tmp("x")) >>,
    << Gone(ByName("ada")), Map(NoId, << F(Email, V(v1)) >>) >>,
    \* a member whose required value is a reference
    << Map(Tmp("u"), << F(Kind, V(v1)), F(Note, R(ByName("ada"))) >>) >>,
    \* a nested record with a value of its own in one that moves
    << Map(Tmp("t"), << F(Friend, Sub(Rec(NoId, << F(Email, V(v2)) >>))), F(Email, V(v1)) >>) >>,
    \* a record that meets two owners, one after the other
    << Map(NoId, << F(Email, V(v2)) >>), Map(Tmp("t"), << F(Email, V(v2)), F(Email, V(v1)) >>) >>,
    << Map(NoId, << F(Email, V(v2)) >>), Gone(Lookup(Email, v2)),
       Map(Tmp("t"), << F(Email, V(v2)), F(Email, V(v1)) >>) >>,
    \* an operation and a record that give the same value
    << Assert1(ByName("bob"), Email, V(v1)), Map(NoId, << F(Email, V(v1)) >>) >>,
    << Map(NoId, << F(Email, V(v1)) >>), Gone(ByName("ada")),
       Assert1(ByName("bob"), Email, V(v1)) >> >>

(* A nested record of its own name in one that turns out to be another. *)
NestedRequests == <<
    << Map(ByName("ada"), << F(Email, V(v1)) >>) >>,
    << Map(Tmp("t"), << F(Friend, Sub(Rec(ByName("bob"), << F(Note, V(v2)) >>))), F(Email, V(v1)) >>) >> >>

(* A new member, with what its shape requires and without, after an allocation
   that comes to nothing and a new attribute. *)
MemberRequests == <<
    << Map(Tmp("t"), << F(Note, V(v1)) >>), Assert1(ByName("bob"), "tag", V(v1)),
       Map(Tmp("u"), << F(Kind, V(v1)), F(Note, V(v2)) >>), Gone(Tmp("t")) >>,
    << Map(Tmp("t"), << F(Note, V(v1)) >>), Assert1(ByName("bob"), "tag", V(v1)),
       Map(Tmp("u"), << F(Kind, V(v1)) >>), Gone(Tmp("t")) >> >>

(* The records of those requests, and the ones in their fields. *)
TopRecords(requests) ==
    {item.rec : item \in {i \in UNION {ToSet(requests[r]) : r \in DOMAIN requests} : i.op = "map"}}
RecordsOf(requests) ==
    TopRecords(requests) \cup
        {f.v.x : f \in {g \in UNION {ToSet(rec.fields) : rec \in TopRecords(requests)} : g.v.kind = "rec"}}
McRecords == RecordsOf(McRequests)
NestedRecords == RecordsOf(NestedRequests)
MemberRecords == RecordsOf(MemberRequests)
===========================================================================
