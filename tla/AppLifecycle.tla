---------------------------- MODULE AppLifecycle ----------------------------
(***************************************************************************)
(* What the operator promises about the life of an Application, without   *)
(* the reconcile pass: an Application is live until the user deletes it;   *)
(* with the operator's finalizer on it the deletion only marks it, and the *)
(* operator later releases it; without the finalizer it is gone at once.  *)
(* The namespace's ClusterIssuer may be created at any time, but it is     *)
(* removed only on behalf of an Application of that namespace that is      *)
(* being deleted.  Every marked deletion is eventually completed.          *)
(*                                                                         *)
(* Reconciler.tla is shown to implement this module (LifecycleSpec).       *)
(***************************************************************************)
CONSTANTS Apps, Namespaces, NsOf

VARIABLES
    phase,      \* phase[a]: "live", "deleting" or "gone"
    finalizer,  \* finalizer[a]: the operator's finalizer is on a
    issuerUp    \* issuerUp[n]: the ClusterIssuer of n exists

vars == <<phase, finalizer, issuerUp>>

Phases == {"live", "deleting", "gone"}

TypeOK ==
    /\ phase \in [Apps -> Phases]
    /\ finalizer \in [Apps -> BOOLEAN]
    /\ issuerUp \in [Namespaces -> BOOLEAN]

Init ==
    /\ phase = [a \in Apps |-> "live"]
    /\ finalizer = [a \in Apps |-> FALSE]
    /\ issuerUp = [n \in Namespaces |-> FALSE]

\* The operator puts its finalizer on a live Application.
Register(a) ==
    /\ phase[a] = "live"
    /\ ~finalizer[a]
    /\ finalizer' = [finalizer EXCEPT ![a] = TRUE]
    /\ UNCHANGED <<phase, issuerUp>>

\* The user deletes a live Application.
Delete(a) ==
    /\ phase[a] = "live"
    /\ phase' = [phase EXCEPT ![a] = IF finalizer[a] THEN "deleting" ELSE "gone"]
    /\ UNCHANGED <<finalizer, issuerUp>>

\* The operator removes its finalizer from a deleting Application, which
\* is then gone.
Release(a) ==
    /\ phase[a] = "deleting"
    /\ phase' = [phase EXCEPT ![a] = "gone"]
    /\ finalizer' = [finalizer EXCEPT ![a] = FALSE]
    /\ UNCHANGED issuerUp

\* The namespace's issuer is created.
Provision(n) ==
    /\ ~issuerUp[n]
    /\ issuerUp' = [issuerUp EXCEPT ![n] = TRUE]
    /\ UNCHANGED <<phase, finalizer>>

\* The namespace's issuer is deleted for an Application being deleted.
Teardown(n) ==
    /\ issuerUp[n]
    /\ \E a \in Apps : NsOf[a] = n /\ phase[a] = "deleting"
    /\ issuerUp' = [issuerUp EXCEPT ![n] = FALSE]
    /\ UNCHANGED <<phase, finalizer>>

Next ==
    \/ \E a \in Apps : Register(a) \/ Delete(a) \/ Release(a)
    \/ \E n \in Namespaces : Provision(n) \/ Teardown(n)

\* The operator completes every deletion it has marked.
Spec == Init /\ [][Next]_vars /\ \A a \in Apps : WF_vars(Release(a))

=============================================================================
