---------------------------- MODULE OrderService ----------------------------
(***************************************************************************)
(* The order service (src/backend/services/order-service): the gin         *)
(* handlers of order_handler.go, OrderService of order_service.go and      *)
(* OrderRepository of order_repository.go, serving concurrent HTTP         *)
(* requests against one MySQL database through gorm.                       *)
(*                                                                         *)
(* Each request is a goroutine; every database call is one step, so the   *)
(* steps of different requests interleave between any two calls.  A       *)
(* transaction (Create, Delete) is one step: InnoDB keeps its writes       *)
(* invisible until commit and a failed statement rolls all of it back.     *)
(* Orders and order items are soft-deleted (gorm.DeletedAt): the row       *)
(* stays, with deleted_at set, and First/Find skip it.                     *)
(***************************************************************************)
EXTENDS Naturals, Sequences, FiniteSets, SequencesExt

CONSTANTS
    Users,          \* user ids the X-User-ID header may carry
    Malformed,      \* a header value ValidateUserID rejects
    Reqs,           \* concurrent requests
    Products, Quantities, Prices,
    Requests,       \* the requests clients may send (records of Request)
    InitOrders,     \* orders already in the database
    MaxSeconds,     \* the clock's bound
    SaveOnDeleted,  \* what gorm's Save does to a soft-deleted row
    MaxFailures,
    FailableCalls,
    NoRow

Statuses == {"pending", "confirmed", "shipped", "delivered", "cancelled"}
Ops == {"create", "get", "list", "update", "delete"}
Calls == {"insert", "read", "save", "delete", "reread", "list"}
\* 0: not answered yet.
Responses == {0, 200, 201, 400, 403, 404, 500}

Line == [product : Products, qty : Quantities, unit : Prices]
Item == [product : Products, qty : Nat, unit : Prices, total : Nat]
OrderIds == 1 .. (InitOrders + Cardinality(Reqs))
Row == [user : Users, number : 0 .. MaxSeconds, status : Statuses,
        total : Nat, deleted : BOOLEAN]
ItemRows == [set : SUBSET Item, deleted : BOOLEAN]
Request == [op : Ops, pc : {"create", "get", "list", "own", "read", "save",
                            "delete", "reread", "done"},
            user : Users \cup {Malformed}, id : OrderIds,
            lines : Seq(Line), status : Statuses,
            snap : Row \cup {NoRow}, resp : Responses]

ASSUME /\ Requests \subseteq Request
       /\ SaveOnDeleted \subseteq {"noop", "upsert"}
       /\ FailableCalls \subseteq Calls

VARIABLES
    rows,       \* the orders table, NoRow where no row has that id
    items,      \* the order_items rows of each order id
    nextId,     \* the AUTO_INCREMENT counter of orders
    now,        \* wall clock, in seconds
    req,        \* the state of each request's goroutine
    failures

vars == <<rows, items, nextId, now, req, failures>>

-----------------------------------------------------------------------------
(* CreateOrder's item merge (order_service.go): lines of one product are   *)
(* summed into one item that keeps the first line's unit price.            *)

\* Fault variant for mutation checks: a merged line's total is not added.
MergeLineNoTotal(its, l) ==
    IF \E it \in its : it.product = l.product
    THEN {IF it.product = l.product THEN [it EXCEPT !.qty = @ + l.qty] ELSE it
            : it \in its}
    ELSE its \cup {[product |-> l.product, qty |-> l.qty, unit |-> l.unit,
                    total |-> l.qty * l.unit]}

\* Fault variant for mutation checks: the unit prices of a merged product
\* are added up like its quantity.
MergeLineSummedPrice(its, l) ==
    IF \E it \in its : it.product = l.product
    THEN {IF it.product = l.product
          THEN [it EXCEPT !.qty = @ + l.qty, !.unit = @ + l.unit,
                          !.total = @ + l.qty * l.unit]
          ELSE it : it \in its}
    ELSE its \cup {[product |-> l.product, qty |-> l.qty, unit |-> l.unit,
                    total |-> l.qty * l.unit]}

MergeLine(its, l) ==
    IF \E it \in its : it.product = l.product
    THEN {IF it.product = l.product
          THEN [it EXCEPT !.qty = @ + l.qty, !.total = @ + l.qty * l.unit]
          ELSE it : it \in its}
    ELSE its \cup {[product |-> l.product, qty |-> l.qty, unit |-> l.unit,
                    total |-> l.qty * l.unit]}

MergeItems(lines) == FoldLeft(MergeLine, {}, lines)

\* TotalAmount: the sum of the items' totals.
OrderTotal(its) == MapThenSumSet(LAMBDA it : it.total, its)

\* First/Find skip soft-deleted rows.
Live(o) == rows[o] # NoRow /\ ~rows[o].deleted

\* GenerateOrderNumber: "ORD-" and the time to the second; the number is
\* under a unique index that soft-deleted rows still occupy.
NumberTaken(n) == \E o \in OrderIds : rows[o] # NoRow /\ rows[o].number = n

-----------------------------------------------------------------------------
Fail(call) ==
    /\ call \in FailableCalls
    /\ failures < MaxFailures
    /\ failures' = failures + 1

Respond(r, code) == req' = [req EXCEPT ![r].pc = "done", ![r].resp = code]
Goto(r, pc) == req' = [req EXCEPT ![r].pc = pc]

\* Fault variant for mutation checks: the ValidateUserID error is ignored.
ValidUserUnchecked(r) == TRUE

\* ValidateUserID: ParseUint of the X-User-ID header the middleware copied.
ValidUser(r) == req[r].user \in Users
Rejected(r) == ~ValidUser(r) /\ Respond(r, 400) /\ UNCHANGED failures

Init ==
    /\ \E u \in [1 .. InitOrders -> Users], s \in [1 .. InitOrders -> Statuses],
          b \in [1 .. InitOrders -> {q.lines : q \in Requests}] :
          /\ rows = [o \in OrderIds |->
                       IF o <= InitOrders
                       THEN [user |-> u[o], number |-> o - 1, status |-> s[o],
                             total |-> OrderTotal(MergeItems(b[o])), deleted |-> FALSE]
                       ELSE NoRow]
          /\ items = [o \in OrderIds |->
                        IF o <= InitOrders THEN [set |-> MergeItems(b[o]), deleted |-> FALSE]
                        ELSE NoRow]
    /\ nextId = InitOrders + 1
    /\ now = InitOrders
    /\ req \in [Reqs -> Requests]
    /\ failures = 0

-----------------------------------------------------------------------------
(* Handler and service steps, one per database call.                       *)

\* CreateOrder: build the order, then OrderRepository.Create's transaction
\* (INSERT order, LAST_INSERT_ID, INSERT each item).  The id is consumed
\* even when the transaction rolls back.
CreateOrder(r) ==
    LET q == req[r]
        its == MergeItems(q.lines)
        row == [user |-> q.user, number |-> now, status |-> "pending",
                total |-> OrderTotal(its), deleted |-> FALSE]
    IN /\ q.pc = "create"
       /\ \/ Rejected(r) /\ UNCHANGED <<rows, items, nextId>>
          \/ /\ ValidUser(r)
             /\ nextId' = nextId + 1
             /\ \/ /\ \/ NumberTaken(now) /\ UNCHANGED failures
                      \/ Fail("insert")
                   /\ Respond(r, 400)
                   /\ UNCHANGED <<rows, items>>
                \/ /\ ~NumberTaken(now)
                   /\ rows' = [rows EXCEPT ![nextId] = row]
                   /\ items' = [items EXCEPT ![nextId] = [set |-> its, deleted |-> FALSE]]
                   /\ req' = [req EXCEPT ![r].pc = "reread", ![r].id = nextId]
                   /\ UNCHANGED failures
       /\ UNCHANGED now

\* The GetByID that ends CreateOrder and UpdateOrder; its error is the
\* handler's 400 although the write is committed.
Reread(r) ==
    /\ req[r].pc = "reread"
    /\ \/ /\ \/ ~Live(req[r].id) /\ UNCHANGED failures
             \/ Fail("reread")
          /\ Respond(r, 400)
       \/ /\ Live(req[r].id)
          /\ Respond(r, IF req[r].op = "create" THEN 201 ELSE 200)
          /\ UNCHANGED failures
    /\ UNCHANGED <<rows, items, nextId, now>>

\* GetOrder handler: GetByID, then the ownership check.
GetOrder(r) ==
    /\ req[r].pc = "get"
    /\ \/ Rejected(r)
       \/ /\ ValidUser(r)
          /\ \/ /\ \/ ~Live(req[r].id) /\ UNCHANGED failures
                   \/ Fail("read")
                /\ Respond(r, 404)
             \/ /\ Live(req[r].id)
                /\ Respond(r, IF rows[req[r].id].user = req[r].user THEN 200 ELSE 403)
                /\ UNCHANGED failures
    /\ UNCHANGED <<rows, items, nextId, now>>

\* GetOrders handler: Find of the user's orders, 500 on a database error.
GetOrders(r) ==
    /\ req[r].pc = "list"
    /\ \/ Rejected(r)
       \/ ValidUser(r) /\ Fail("list") /\ Respond(r, 500)
       \/ ValidUser(r) /\ Respond(r, 200) /\ UNCHANGED failures
    /\ UNCHANGED <<rows, items, nextId, now>>

\* Fault variant for mutation checks: the handler's ownership check is
\* missing.
CheckOwnershipMissing(r) == Goto(r, "read")

\* "Check ownership before updating/deleting": the owner goes on to the
\* service call, anyone else gets 403.
CheckOwnership(r) ==
    IF rows[req[r].id].user = req[r].user THEN Goto(r, "read") ELSE Respond(r, 403)

\* The handler part of UpdateOrder and DeleteOrder: GetOrder, ownership.
Own(r) ==
    /\ req[r].pc = "own"
    /\ \/ Rejected(r)
       \/ /\ ValidUser(r)
          /\ \/ /\ \/ ~Live(req[r].id) /\ UNCHANGED failures
                   \/ Fail("read")
                /\ Respond(r, 404)
             \/ Live(req[r].id) /\ CheckOwnership(r) /\ UNCHANGED failures
    /\ UNCHANGED <<rows, items, nextId, now>>

\* OrderService.UpdateOrder: GetByID, then the status is set on the copy
\* read; DeleteOrder: GetByID, then the shipped/delivered check.
ReadOrder(r) ==
    LET q == req[r] IN
    /\ q.pc = "read"
    /\ \/ /\ \/ ~Live(q.id) /\ UNCHANGED failures
             \/ Fail("read")
          /\ Respond(r, 400)
       \/ /\ Live(q.id) /\ q.op = "update"
          /\ req' = [req EXCEPT ![r].pc = "save",
                                ![r].snap = [rows[q.id] EXCEPT !.status = q.status]]
          /\ UNCHANGED failures
       \/ /\ Live(q.id) /\ q.op = "delete"
          /\ IF rows[q.id].status \in {"shipped", "delivered"}
             THEN Respond(r, 400) ELSE Goto(r, "delete")
          /\ UNCHANGED failures
    /\ UNCHANGED <<rows, items, nextId, now>>

\* OrderRepository.Update: db.Save(order) writes every column of the copy.
\* On a row soft-deleted since the read, the UPDATE matches nothing; gorm
\* builds differ in what follows: nothing, or an INSERT ... ON DUPLICATE KEY
\* UPDATE of every column (deleted_at NULL included).  The preloaded items
\* are upserted with DO NOTHING, so they stay as they are.
SaveOrder(r) ==
    LET q == req[r] IN
    /\ q.pc = "save"
    /\ \/ Fail("save") /\ Respond(r, 400) /\ UNCHANGED rows
       \/ /\ Live(q.id)
          /\ rows' = [rows EXCEPT ![q.id] = q.snap]
          /\ Goto(r, "reread")
          /\ UNCHANGED failures
       \/ /\ ~Live(q.id)
          /\ \E outcome \in SaveOnDeleted :
                rows' = IF outcome = "upsert" THEN [rows EXCEPT ![q.id] = q.snap] ELSE rows
          /\ Goto(r, "reread")
          /\ UNCHANGED failures
    /\ UNCHANGED <<items, nextId, now>>

\* OrderRepository.Delete's transaction: soft-delete the items, then the
\* order; on a row already deleted both UPDATEs match nothing.
DeleteTx(o) ==
    /\ items' = [items EXCEPT ![o].deleted = TRUE]
    /\ rows' = [rows EXCEPT ![o].deleted = TRUE]

DeleteOrder(r) ==
    /\ req[r].pc = "delete"
    /\ \/ Fail("delete") /\ Respond(r, 400) /\ UNCHANGED <<rows, items>>
       \/ DeleteTx(req[r].id) /\ Respond(r, 200) /\ UNCHANGED failures
    /\ UNCHANGED <<nextId, now>>

\* The clock advances.
Tick ==
    /\ now < MaxSeconds
    /\ now' = now + 1
    /\ UNCHANGED <<rows, items, nextId, req, failures>>

Serve(r) ==
    \/ CreateOrder(r) \/ Reread(r) \/ GetOrder(r) \/ GetOrders(r)
    \/ Own(r) \/ ReadOrder(r) \/ SaveOrder(r) \/ DeleteOrder(r)

Next == (\E r \in Reqs : Serve(r)) \/ Tick

Spec == Init /\ [][Next]_vars

-----------------------------------------------------------------------------
(* Properties                                                              *)

TypeOK ==
    /\ rows \in [OrderIds -> Row \cup {NoRow}]
    /\ items \in [OrderIds -> ItemRows \cup {NoRow}]
    /\ nextId \in 1 .. (InitOrders + Cardinality(Reqs) + 1)
    /\ now \in 0 .. MaxSeconds
    /\ req \in [Reqs -> Request]
    /\ failures \in 0 .. MaxFailures

\* Reference for the item merge of CreateOrder: per product, the summed
\* quantity, the summed line totals and the unit price of its first line.
MergeRef(lines) ==
    LET Idx(p) == {i \in DOMAIN lines : lines[i].product = p}
    IN {[product |-> p,
         qty |-> MapThenSumSet(LAMBDA i : lines[i].qty, Idx(p)),
         unit |-> lines[Min(Idx(p))].unit,
         total |-> MapThenSumSet(LAMBDA i : lines[i].qty * lines[i].unit, Idx(p))]
        : p \in {lines[i].product : i \in DOMAIN lines}}

\* CreateOrder's merge of the request's order_items (duplicates of a
\* product folded into one item, in the order the lines come): the items
\* stored for every order a create request wrote are the reference items
\* of that request's lines, and the order's total_amount is their sum.
MergeMatchesReference ==
    \A r \in Reqs :
        (/\ req[r].op = "create"
         /\ \/ req[r].pc = "reread"
            \/ req[r].pc = "done" /\ req[r].resp = 201)
            => LET ref == MergeRef(req[r].lines) IN
               /\ items[req[r].id].set = ref
               /\ rows[req[r].id].total
                    = MapThenSumSet(LAMBDA i : req[r].lines[i].qty * req[r].lines[i].unit,
                                    DOMAIN req[r].lines)

\* Only the owner's requests change an existing order: the handlers check
\* ownership (GetOrder, UserID) before UpdateOrder and DeleteOrder, in an
\* earlier step than the write.
OwnerOnlyWrites ==
    [][\A o \in OrderIds :
         (rows[o] # NoRow /\ rows'[o] # rows[o])
            => \E r \in Reqs : /\ req[r].id = o
                               /\ req[r].pc \in {"save", "delete"}
                               /\ req[r].user = rows[o].user]_vars

\* DeleteOrder refuses an order that is shipped or delivered ("cannot
\* delete order that is shipped or delivered"): no step deletes an order
\* whose status at that moment is shipped or delivered.
DeleteGuard ==
    [][\A o \in OrderIds :
         (Live(o) /\ rows'[o].deleted) => rows[o].status \notin {"shipped", "delivered"}]_vars

\* The handler answers a valid CreateOrder with 201 (handler test
\* TestOrderHandler_CreateOrder): a create request of a valid user that
\* no database failure hit is answered 201.
ValidCreateSucceeds ==
    \A r \in Reqs :
        (req[r].op = "create" /\ ValidUser(r) /\ req[r].pc = "done" /\ failures = 0)
            => req[r].resp = 201

\* DeleteOrder answers "order deleted successfully": an order once
\* soft-deleted stays deleted.
DeletedStaysDeleted ==
    [][\A o \in OrderIds : (rows[o] # NoRow /\ rows[o].deleted) => rows'[o].deleted]_vars


=============================================================================
