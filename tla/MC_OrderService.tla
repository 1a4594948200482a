-------------------------- MODULE MC_OrderService --------------------------
(* Model values and request sets for checking OrderService with TLC.       *)
EXTENDS OrderService, TLC

CONSTANTS u1, u2, r1, r2, r3, p1, p2

\* A request as the client sends it: the handler's first step, no answer.
Fresh(op, u, id, lines, st) ==
    [op |-> op, pc |-> CASE op = "create" -> "create"
                         [] op = "get" -> "get"
                         [] op = "list" -> "list"
                         [] OTHER -> "own",
     user |-> u, id |-> id, lines |-> lines, status |-> st,
     snap |-> NoRow, resp |-> 0]

OneLine == <<[product |-> p1, qty |-> 1, unit |-> 1]>>
\* Two products, one of them twice at two prices: the merge folds those
\* two lines into one item.
ThreeLines == <<[product |-> p1, qty |-> 1, unit |-> 1],
                [product |-> p2, qty |-> 2, unit |-> 1],
                [product |-> p1, qty |-> 2, unit |-> 2]>>

\* Every handler, by the owner of order 1, another user and a malformed
\* header; order 2 is the one a create request makes.
MCRequests ==
    {Fresh("create", u1, 1, ThreeLines, "pending"),
     Fresh("create", Malformed, 1, OneLine, "pending"),
     Fresh("get", u2, 1, OneLine, "pending"),
     Fresh("list", u1, 1, OneLine, "pending"),
     Fresh("update", u1, 1, OneLine, "shipped"),
     Fresh("update", u2, 1, OneLine, "cancelled"),
     Fresh("update", u1, 2, OneLine, "cancelled"),
     Fresh("delete", u1, 1, OneLine, "pending"),
     Fresh("delete", u1, 2, OneLine, "pending")}

\* A delete and a status update of the same order by its owner.
MCRequestsDeleteRace ==
    {Fresh("delete", u1, 1, OneLine, "pending"),
     Fresh("update", u1, 1, OneLine, "shipped")}

\* Creates only.
MCRequestsCreate == {Fresh("create", u1, 1, OneLine, "pending")}

MCReqSymmetry == Permutations({r1, r2, r3})
=============================================================================
