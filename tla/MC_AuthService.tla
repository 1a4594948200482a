-------------------------- MODULE MC_AuthService --------------------------
(* Model values and request sets for checking AuthService with TLC.        *)
EXTENDS AuthService, TLC

CONSTANTS e1, w1, w2, wLong, r1, r2, r3

\* A request as the client sends it: the handler's first step, no answer.
Fresh(op, e, w, uid) ==
    [op |-> op, pc |-> CASE op = "register" -> "check"
                         [] op = "login" -> "login"
                         [] op = "validate" -> "validate"
                         [] OTHER -> "getuser",
     email |-> e, password |-> w, uid |-> uid, resp |-> 0]

\* Registrations of one email with different passwords race; a login,
\* a token validation and user lookups run beside them.
MCRequests ==
    {Fresh("register", e1, w1, 0),
     Fresh("register", e1, w2, 0),
     Fresh("register", e1, wLong, 0),
     Fresh("login", e1, w1, 0),
     Fresh("validate", e1, w1, 0),
     Fresh("getuser", e1, w1, 1),
     Fresh("getuser", e1, w1, Malformed)}

MCReqSymmetry == Permutations({r1, r2, r3})
=============================================================================
