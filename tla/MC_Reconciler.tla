--------------------------- MODULE MC_Reconciler ---------------------------
(* Model-checking instance of Reconciler: one env key, one host, two ACME  *)
(* accounts, and three specs a user can switch between.                    *)
EXTENDS Reconciler, TLC

CONSTANTS a1, a2, ns1, ns2, k1, h1, c1, c2, p1, p2

CMVar == [prefix |-> "CM_", key |-> k1]
SecVar == [prefix |-> "SEC_", key |-> k1]
LitVar == [prefix |-> "", key |-> k1]

\* TLS on, env routed to the ConfigMap, account c1.
SpecTLS1 == [env |-> {CMVar}, image |-> TRUE, svc |-> TRUE, host |-> h1,
             tls |-> TRUE, acct |-> c1, pkey |-> p1, quantities |-> TRUE]
\* TLS on with another ACME account, env routed to the Secret.
SpecTLS2 == [SpecTLS1 EXCEPT !.env = {SecVar}, !.acct = c2]
\* No service, no ingress, no TLS, a literal env var.
SpecPlain == [SpecTLS1 EXCEPT !.env = {LitVar}, !.svc = FALSE, !.host = NoHost,
                              !.tls = FALSE]

MCSpecs == {SpecTLS1, SpecTLS2, SpecPlain}

\* TLS enabled with spec.ingress nil.
SpecTLSNoIngress == [SpecTLS1 EXCEPT !.host = NoHost]
MCSpecsNoIngress == {SpecTLS1, SpecTLSNoIngress}

\* Specs the code fails on: no image (nil dereference in
\* reconcileDeployment), an ingress without a service (nil dereference of
\* spec.service in reconcileIngress).
SpecNoImage == [SpecTLS1 EXCEPT !.image = FALSE]
SpecIngressNoService == [SpecTLS1 EXCEPT !.svc = FALSE]
\* A resource quantity resource.MustParse panics on.
SpecBadQuantity == [SpecTLS1 EXCEPT !.quantities = FALSE]
\* CM_k1 and a literal k1: both become the container env var k1.
SpecEnvCollision == [SpecTLS1 EXCEPT !.env = {CMVar, LitVar}]
MCSpecsMalformed == {SpecTLS1, SpecPlain, SpecTLSNoIngress, SpecNoImage,
                     SpecIngressNoService, SpecBadQuantity, SpecEnvCollision}
\* Only the colliding env.
MCSpecsCollision == {SpecEnvCollision}

MCNsOfOne == [a \in {a1} |-> ns1]
MCNsOfTwo == (a1 :> ns1) @@ (a2 :> ns2)
MCNsOfShared == [a \in {a1, a2} |-> ns1]

MCSpecsOne == {SpecTLS1}

\* Calls whose failure the pass returns as an error (so it is retried).
RetriedCalls == {"getApp", "configmap", "secret", "deployment", "service",
                 "ingress", "issuerWrite", "teardown", "appUpdate", "status"}

\* Calls whose error the TLS branch of Reconcile logs and drops.
SwallowedCalls == {"issuerGet", "ingressTLS"}

\* The List of the ClusterIssuer watch may fail and drop the fan-out.
ListCalls == {"list"}

\* Every API call may fail.
AllCalls == Calls
=============================================================================
