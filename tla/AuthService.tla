---------------------------- MODULE AuthService ----------------------------
(***************************************************************************)
(* The auth service (src/backend/services/auth-service): the gin handlers  *)
(* of auth_handler.go, AuthService of auth_service.go and the JWT helpers  *)
(* of jwt.go, serving concurrent requests against the users table.         *)
(*                                                                         *)
(* Every database call is one step, so Register's GetByEmail check and its *)
(* Create are separate steps that other requests interleave with.  The    *)
(* users table has a unique index on email (models/user.go).  A token is   *)
(* modelled by its claims; HS256 signing with the service key makes every  *)
(* other string fail validation (Forged).  IsActive is set true by         *)
(* Register and nothing in the code clears it.                             *)
(***************************************************************************)
EXTENDS Naturals, FiniteSets

CONSTANTS
    Emails,
    Passwords,      \* passwords a client may send
    LongPasswords,  \* passwords bcrypt refuses (longer than 72 bytes)
    Reqs,           \* concurrent requests
    Requests,       \* the requests clients may send (records of Request)
    Malformed,      \* a path id strconv.Atoi refuses
    Forged,         \* a token string that does not verify
    MaxFailures,
    FailableCalls,
    NoRow

Ops == {"register", "login", "validate", "getuser"}
Calls == {"read", "insert"}
UserIds == 1 .. Cardinality(Reqs)
\* 0: not answered yet.
Responses == {0, 200, 201, 400, 401, 404}

\* password: the bcrypt hash, identified with the password it hashes.
UserRow == [email : Emails, password : Passwords, active : BOOLEAN]
Claims == [uid : UserIds, email : Emails, active : BOOLEAN]
Request == [op : Ops, pc : {"check", "create", "login", "validate", "getuser", "done"},
            email : Emails, password : Passwords \cup LongPasswords,
            uid : UserIds \cup {0, Malformed}, resp : Responses]

ASSUME /\ Requests \subseteq Request
       /\ FailableCalls \subseteq Calls
       /\ Passwords \cap LongPasswords = {}

VARIABLES
    users,      \* the users table
    nextId,     \* its AUTO_INCREMENT counter
    tokens,     \* the claims of every token handed to a client
    req,        \* the state of each request's goroutine
    failures

vars == <<users, nextId, tokens, req, failures>>

-----------------------------------------------------------------------------
Fail(call) ==
    /\ call \in FailableCalls
    /\ failures < MaxFailures
    /\ failures' = failures + 1

Respond(r, code) == req' = [req EXCEPT ![r].pc = "done", ![r].resp = code]

\* GetByEmail: the row with that email, if any.
FindByEmail(e) == {i \in UserIds : users[i] # NoRow /\ users[i].email = e}

\* Fault variant for mutation checks: the table has no unique index.
UniqueIndexMissing(e) == FALSE

\* The uniqueIndex on users.email refuses a second row with the email.
UniqueIndexViolated(e) == FindByEmail(e) # {}

\* gorm fills user.ID from the INSERT.
InsertedId(r) == nextId

\* GenerateToken: the claims of the token (the signature, expiry and
\* issuer fields are what ValidateToken checks, not modelled).
GenerateToken(uid, u) == [uid |-> uid, email |-> u.email, active |-> u.active]

\* Fault variant for mutation checks: the hashing error is not checked.
HashPasswordUnchecked(p) == TRUE

\* HashPassword: bcrypt.GenerateFromPassword fails on a password longer
\* than 72 bytes.
HashPassword(p) == p \notin LongPasswords

CheckPassword(u, p) == u.password = p

\* JWTService.ValidateToken: ParseWithClaims accepts only an HMAC token
\* signed with the service's key, which every token handed out is and a
\* forged one is not.
ParseToken(t) == t # Forged

\* GetUserByID / userRepo.GetByID: the lookup finds a row for the id.
GetUserByID(id) == id \in UserIds /\ users[id] # NoRow

Init ==
    /\ users = [i \in UserIds |-> NoRow]
    /\ nextId = 1
    /\ tokens = {}
    /\ req \in [Reqs -> Requests]
    /\ failures = 0

-----------------------------------------------------------------------------
(* Handler and service steps.                                              *)

\* Register, up to Create: GetByEmail refuses a taken email (only when it
\* succeeds: any other error goes on), then HashPassword.
RegisterCheck(r) ==
    LET q == req[r] IN
    /\ q.pc = "check"
    /\ \/ /\ FindByEmail(q.email) # {}
          /\ Respond(r, 400)
          /\ UNCHANGED failures
       \/ /\ \/ FindByEmail(q.email) = {} /\ UNCHANGED failures
             \/ Fail("read")
          /\ IF HashPassword(q.password)
             THEN req' = [req EXCEPT ![r].pc = "create"]
             ELSE Respond(r, 400)
    /\ UNCHANGED <<users, nextId, tokens>>

\* Register: userRepo.Create, then GenerateToken for the new user; the
\* AUTO_INCREMENT value is used up by a failed INSERT too.
RegisterCreate(r) ==
    LET q == req[r]
        u == [email |-> q.email, password |-> q.password, active |-> TRUE]
    IN /\ q.pc = "create"
       /\ nextId' = nextId + 1
       /\ \/ /\ \/ UniqueIndexViolated(q.email) /\ UNCHANGED failures
                \/ Fail("insert")
             /\ Respond(r, 400)
             /\ UNCHANGED <<users, tokens>>
          \/ /\ ~UniqueIndexViolated(q.email)
             /\ users' = [users EXCEPT ![nextId] = u]
             /\ tokens' = tokens \cup {GenerateToken(InsertedId(r), u)}
             /\ Respond(r, 201)
             /\ UNCHANGED failures

\* Login: GetByEmail, IsActive, CheckPassword, GenerateToken; the handler
\* answers every error with 401.
Login(r) ==
    LET q == req[r]
        found == FindByEmail(q.email)
    IN /\ q.pc = "login"
       /\ \/ /\ \/ found = {} /\ UNCHANGED failures
                \/ Fail("read")
             /\ Respond(r, 401)
             /\ UNCHANGED tokens
          \/ \E i \in found :
                /\ IF users[i].active /\ CheckPassword(users[i], q.password)
                   THEN /\ tokens' = tokens \cup {GenerateToken(i, users[i])}
                        /\ Respond(r, 200)
                   ELSE /\ Respond(r, 401)
                        /\ UNCHANGED tokens
                /\ UNCHANGED failures
       /\ UNCHANGED <<users, nextId>>

\* ValidateToken with a token the client holds or a forged one: the
\* signature and claims, IsActive in the claims, GetByID, IsActive of the
\* row.
ValidateToken(r) ==
    /\ req[r].pc = "validate"
    /\ \E t \in tokens \cup {Forged} :
          \/ /\ \/ ~ParseToken(t)
                \/ ParseToken(t) /\ ~t.active
                \/ ParseToken(t) /\ ~GetUserByID(t.uid)
             /\ Respond(r, 401)
             /\ UNCHANGED failures
          \/ /\ ParseToken(t)
             /\ Fail("read")
             /\ Respond(r, 401)
          \/ /\ ParseToken(t) /\ t.active /\ GetUserByID(t.uid)
             /\ req' = [req EXCEPT ![r].pc = "done", ![r].uid = t.uid,
                                   ![r].resp = IF users[t.uid].active THEN 200 ELSE 401]
             /\ UNCHANGED failures
    /\ UNCHANGED <<users, nextId, tokens>>

\* GetUser: Atoi of the path id, GetByID.
GetUser(r) ==
    LET id == req[r].uid IN
    /\ req[r].pc = "getuser"
    /\ \/ id = Malformed /\ Respond(r, 400) /\ UNCHANGED failures
       \/ /\ id # Malformed
          /\ \/ /\ \/ ~GetUserByID(id) /\ UNCHANGED failures
                   \/ Fail("read")
                /\ Respond(r, 404)
             \/ /\ GetUserByID(id)
                /\ Respond(r, 200)
                /\ UNCHANGED failures
    /\ UNCHANGED <<users, nextId, tokens>>

Serve(r) ==
    \/ RegisterCheck(r) \/ RegisterCreate(r) \/ Login(r)
    \/ ValidateToken(r) \/ GetUser(r)

Next == \E r \in Reqs : Serve(r)

Spec == Init /\ [][Next]_vars

-----------------------------------------------------------------------------
(* Properties                                                              *)

TypeOK ==
    /\ users \in [UserIds -> UserRow \cup {NoRow}]
    /\ nextId \in 1 .. Cardinality(Reqs) + 1
    /\ tokens \subseteq [uid : UserIds \cup {0}, email : Emails, active : BOOLEAN]
    /\ req \in [Reqs -> Request]
    /\ failures \in 0 .. MaxFailures

\* Register checks GetByEmail and creates in a later step, so two requests
\* for one email can both pass the check: still no two users share an
\* email, because the unique index refuses the second INSERT.
UniqueEmail ==
    \A i, j \in UserIds :
        (i # j /\ users[i] # NoRow /\ users[j] # NoRow) => users[i].email # users[j].email

=============================================================================
