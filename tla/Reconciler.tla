----------------------------- MODULE Reconciler -----------------------------
(***************************************************************************)
(* The Application operator of src/operator/internal/controller.           *)
(*                                                                         *)
(* One reconcile pass (ApplicationReconciler.Reconcile) is a sequence of   *)
(* API calls against the cluster store; each block of calls between two    *)
(* observable effects is one action, so that user edits, deletions, the   *)
(* garbage collector, cert-manager and the reconcile of another            *)
(* Application interleave with the pass exactly where they can in the      *)
(* code.  The pass works on `snap`, the copy of the Application fetched    *)
(* at its start (line 58), and reads the live store for everything else.   *)
(*                                                                         *)
(* Data is abstracted to what the properties distinguish: an env var is a  *)
(* routing prefix and a key, a Service is present or not, a ClusterIssuer  *)
(* is its ACME account (email+server), its private-key secret name and    *)
(* its Ready condition.                                                    *)
(***************************************************************************)
EXTENDS Naturals, FiniteSets

CONSTANTS
    Apps,           \* Application objects (namespace/name keys)
    Namespaces,
    NsOf,           \* the namespace of each Application
    Keys,           \* env var keys (the name without its routing prefix)
    Hosts,          \* ingress hosts
    Accounts,       \* ACME email+server pairs
    PrivKeys,       \* ACME private-key secret names
    Specs,          \* the Application specs a user may write
    NoObject,       \* model value: object absent from the store
    NoHost,         \* model value: spec.ingress is nil
    Workers,        \* MaxConcurrentReconciles
    MaxEdits,       \* bound on spec edits by the user
    MaxFailures,    \* bound on injected API call failures
    FailableCalls   \* the API calls that may fail in this model

Prefixes == {"CM_", "SEC_", ""}
EnvVar == [prefix : Prefixes, key : Keys]
AppSpec == [env : SUBSET EnvVar, image : BOOLEAN, svc : BOOLEAN,
         host : Hosts \cup {NoHost}, tls : BOOLEAN,
         acct : Accounts, pkey : PrivKeys, quantities : BOOLEAN]
Calls == {"getApp", "configmap", "secret", "deployment", "service", "ingress",
          "issuerGet", "issuerWrite", "ingressTLS", "teardown", "appUpdate", "status",
          "list"}

ASSUME /\ NsOf \in [Apps -> Namespaces]
       /\ Specs \subseteq AppSpec /\ Specs # {}
       /\ Workers \in Nat \ {0} /\ MaxEdits \in Nat /\ MaxFailures \in Nat
       /\ FailableCalls \subseteq Calls

VARIABLES
    app,          \* Application objects in the store
    configMap,    \* <app>-config: its data keys, or NoObject
    secret,       \* <app>-secret: its data keys, or NoObject
    deployment,   \* <app>-deployment: its env routing, or NoObject
    service,      \* <app>-service exists
    ingress,      \* <app>-ingress: rule host and tls block, or NoObject
    issuer,       \* ClusterIssuer app-<ns>-issuer, one per namespace
    dirty,        \* work queue: keys waiting to be reconciled
    backoff,      \* keys whose pass returned an error (AddRateLimited)
    pc,           \* the step each in-flight pass is at, "idle" if none
    snap,         \* the Application copy the pass works on
    issuerReady,  \* Ready of the issuer object ReconcileIssuer returned
    edits,        \* spec edits made so far
    failures      \* injected API failures so far

storeVars == <<app, configMap, secret, deployment, service, ingress, issuer>>
ctrlVars == <<dirty, backoff, pc, snap, issuerReady>>
vars == <<storeVars, ctrlVars, edits, failures>>

Steps == {"idle", "fetch", "configmap", "secret", "deployment", "service",
          "ingress", "issuer", "bind", "finalizer", "unfinalize", "status"}
AppObject == [exists : BOOLEAN, spec : AppSpec, finalizer : BOOLEAN,
              deleting : BOOLEAN, available : BOOLEAN, rv : Nat]
DeploymentObject == [cmRefs : SUBSET Keys, secRefs : SUBSET Keys,
                     literals : SUBSET Keys]
TLSBlock == [host : Hosts, secret : PrivKeys]
IngressObject == [host : Hosts, tls : TLSBlock \cup {NoObject}]
IssuerObject == [acct : Accounts, pkey : PrivKeys, ready : BOOLEAN]

-----------------------------------------------------------------------------
(* Pure helpers (util.go)                                                  *)

\* Fault variant for mutation checks: the routing prefix is not trimmed.
getConfigMapDataUntrimmed(env, prefix) == {v \in env : v.prefix = prefix}

\* getConfigMapData / getSecretData: keys of the env vars with the prefix,
\* prefix stripped.
getConfigMapData(env, prefix) == {e.key : e \in {v \in env : v.prefix = prefix}}
getSecretData(env, prefix) == getConfigMapData(env, prefix)

\* Fault variant for mutation checks: SEC_ vars are referenced from the
\* ConfigMap (the SEC_ branch folded into the CM_ one).
DesiredDeploymentSecretsAsConfigMap(s) ==
    [cmRefs |-> getConfigMapData(s.env, "CM_") \cup getSecretData(s.env, "SEC_"),
     secRefs |-> {},
     literals |-> getConfigMapData(s.env, "")]

\* Env of the container built by reconcileDeployment: CM_ and SEC_ vars
\* become references to the ConfigMap/Secret key, the rest literal values.
DesiredDeployment(s) ==
    [cmRefs |-> getConfigMapData(s.env, "CM_"),
     secRefs |-> getSecretData(s.env, "SEC_"),
     literals |-> getConfigMapData(s.env, "")]

\* The container env reconcileDeployment builds names each entry by its
\* key with the CM_ or SEC_ prefix trimmed, so CM_FOO, SEC_FOO and FOO all
\* become FOO.  Container env is a list keyed by name, and server-side
\* apply rejects an applied object with two entries under one key.
EnvNamesCollide(s) == \E v, w \in s.env : v # w /\ v.key = w.key

\* buildResourceRequirements: every non-empty CPU or memory quantity goes
\* through resource.MustParse, which panics on a string that is not a
\* quantity; the CRD does not validate them.  TRUE when none panics.
buildResourceRequirements(s) == s.quantities

\* issuerName: the ClusterIssuer of an Application is app-<namespace>-issuer,
\* so the issuers are indexed by namespace.
issuerName(a) == NsOf[a]

\* The TLS block updateIngressForTLS writes.
DesiredTLS(s) == [host |-> s.host, secret |-> s.pkey]

-----------------------------------------------------------------------------
(* Store and queue helpers                                                 *)

\* An API call of kind `call` fails (transient error, conflict, timeout).
Fail(call) ==
    /\ call \in FailableCalls
    /\ failures < MaxFailures
    /\ failures' = failures + 1

\* Watch events of an owned object or the Application enqueue its key.
Enqueue(S) == dirty' = dirty \cup S

\* Write v as the object of Application a held in obj; an actual change
\* produces a watch event for the owner.
Write(obj, a, v) ==
    /\ obj' = [obj EXCEPT ![a] = v]
    /\ dirty' = IF obj[a] = v THEN dirty ELSE dirty \cup {a}

\* watchClusterIssuer: any ClusterIssuer event lists every Application and
\* enqueues them all; a failed List enqueues nothing.
IssuerEvent ==
    \/ /\ Enqueue({b \in Apps : app[b].exists})
       /\ UNCHANGED failures
    \/ /\ Fail("list")
       /\ UNCHANGED dirty

\* The copy the pass holds is out of date: an Update with it conflicts, or
\* the object is gone (NotFound).
Stale(a) == ~app[a].exists \/ app[a].rv # snap[a].rv

Goto(a, step) == pc' = [pc EXCEPT ![a] = step]

\* Reconcile returns; an error sends the key to the rate-limited requeue.
Finish(a, err) ==
    /\ pc' = [pc EXCEPT ![a] = "idle"]
    /\ snap' = [snap EXCEPT ![a] = NoObject]
    /\ issuerReady' = [issuerReady EXCEPT ![a] = FALSE]
    /\ backoff' = IF err THEN backoff \cup {a} ELSE backoff

-----------------------------------------------------------------------------
(* Initial state: every Application just created, queued by the informer's *)
(* initial list.                                                           *)

Init ==
    /\ app \in [Apps -> {[exists |-> TRUE, spec |-> s, finalizer |-> FALSE,
                          deleting |-> FALSE, available |-> FALSE, rv |-> 0]
                         : s \in Specs}]
    /\ configMap = [a \in Apps |-> NoObject]
    /\ secret = [a \in Apps |-> NoObject]
    /\ deployment = [a \in Apps |-> NoObject]
    /\ service = [a \in Apps |-> FALSE]
    /\ ingress = [a \in Apps |-> NoObject]
    /\ issuer = [n \in Namespaces |-> NoObject]
    /\ dirty = Apps
    /\ backoff = {}
    /\ pc = [a \in Apps |-> "idle"]
    /\ snap = [a \in Apps |-> NoObject]
    /\ issuerReady = [a \in Apps |-> FALSE]
    /\ edits = 0
    /\ failures = 0

\* The pass moves on to its next step, keeping its copies.
Continue(a, step) == Goto(a, step) /\ UNCHANGED <<snap, issuerReady, backoff>>

-----------------------------------------------------------------------------
(* The controller's worker: one action per step of Reconcile.              *)

\* A worker takes a key from the queue; the queue never hands out a key
\* that is being processed, and at most Workers keys are in flight.
Dequeue(a) ==
    /\ a \in dirty
    /\ pc[a] = "idle"
    /\ Cardinality({b \in Apps : pc[b] # "idle"}) < Workers
    /\ dirty' = dirty \ {a}
    /\ Continue(a, "fetch")
    /\ UNCHANGED <<storeVars, edits, failures>>

\* Reconcile: Get the Application; NotFound ends the pass quietly.
Fetch(a) ==
    /\ pc[a] = "fetch"
    /\ \/ /\ ~app[a].exists
          /\ Finish(a, FALSE)
          /\ UNCHANGED failures
       \/ /\ app[a].exists
          /\ Fail("getApp")
          /\ Finish(a, TRUE)
       \/ /\ app[a].exists
          /\ snap' = [snap EXCEPT ![a] = app[a]]
          /\ Goto(a, "configmap")
          /\ UNCHANGED <<issuerReady, backoff, failures>>
    /\ UNCHANGED <<storeVars, dirty, edits>>

\* reconcileConfigMap / reconcileSecret: with no routed vars, delete the
\* object if present and return an error in every case (the %w of a nil
\* Delete error is still a non-nil error); otherwise CreateOrUpdate it.
SyncEnvObject(a, obj, prefix, call, next) ==
    LET data == getConfigMapData(snap[a].spec.env, prefix) IN
    \/ /\ data = {}
       /\ \/ /\ Fail(call)
             /\ Finish(a, TRUE)
             /\ UNCHANGED <<obj, dirty>>
          \/ /\ obj[a] = NoObject
             /\ Continue(a, next)
             /\ UNCHANGED <<obj, dirty, failures>>
          \/ /\ obj[a] # NoObject
             /\ \/ Fail(call) /\ UNCHANGED <<obj, dirty>>
                \/ Write(obj, a, NoObject) /\ UNCHANGED failures
             /\ Finish(a, TRUE)
    \/ /\ data # {}
       /\ \/ /\ Fail(call)
             /\ Finish(a, TRUE)
             /\ UNCHANGED <<obj, dirty>>
          \/ /\ Write(obj, a, data)
             /\ Continue(a, next)
             /\ UNCHANGED failures

reconcileConfigMap(a) ==
    /\ pc[a] = "configmap"
    /\ SyncEnvObject(a, configMap, "CM_", "configmap", "secret")
    /\ UNCHANGED <<app, secret, deployment, service, ingress, issuer, edits>>

reconcileSecret(a) ==
    /\ pc[a] = "secret"
    /\ SyncEnvObject(a, secret, "SEC_", "secret", "deployment")
    /\ UNCHANGED <<app, configMap, deployment, service, ingress, issuer, edits>>

\* reconcileDeployment: server-side apply of the whole Deployment.  A nil
\* spec.image is dereferenced, and an unparsable quantity panics, while
\* building it: the panic is recovered by the controller runtime and the
\* key requeued as for an error.  An env with two entries under one name
\* makes the Patch fail, returned as an error like any failed call.
reconcileDeployment(a) ==
    LET s == snap[a].spec IN
    /\ pc[a] = "deployment"
    /\ \/ /\ ~s.image \/ ~buildResourceRequirements(s)
          /\ Finish(a, TRUE)
          /\ UNCHANGED <<deployment, dirty, failures>>
       \/ /\ s.image /\ buildResourceRequirements(s)
          /\ EnvNamesCollide(s)
          /\ Finish(a, TRUE)
          /\ UNCHANGED <<deployment, dirty, failures>>
       \/ /\ s.image /\ buildResourceRequirements(s)
          /\ Fail("deployment")
          /\ Finish(a, TRUE)
          /\ UNCHANGED <<deployment, dirty>>
       \/ /\ s.image /\ buildResourceRequirements(s) /\ ~EnvNamesCollide(s)
          /\ Write(deployment, a, DesiredDeployment(s))
          /\ Continue(a, "service")
          /\ UNCHANGED failures
    /\ UNCHANGED <<app, configMap, secret, service, ingress, issuer, edits>>

\* reconcileService: nothing when spec.service is nil (an existing Service
\* is left in place), else CreateOrUpdate.
reconcileService(a) ==
    /\ pc[a] = "service"
    /\ \/ /\ ~snap[a].spec.svc
          /\ Continue(a, "ingress")
          /\ UNCHANGED <<service, dirty, failures>>
       \/ /\ snap[a].spec.svc
          /\ Fail("service")
          /\ Finish(a, TRUE)
          /\ UNCHANGED <<service, dirty>>
       \/ /\ snap[a].spec.svc
          /\ Write(service, a, TRUE)
          /\ Continue(a, "ingress")
          /\ UNCHANGED failures
    /\ UNCHANGED <<app, configMap, secret, deployment, ingress, issuer, edits>>

\* Fault variant for mutation checks: the mutate function rebuilds the spec
\* from scratch, dropping the TLS block.
IngressRuleDropsTLS(s, cur) == [host |-> s.host, tls |-> NoObject]

\* The CreateOrUpdate mutate function of reconcileIngress: it sets the rule
\* (host, path, backend) and leaves Spec.TLS as read from the store.
IngressRule(s, cur) ==
    [host |-> s.host, tls |-> IF cur = NoObject THEN NoObject ELSE cur.tls]

\* reconcileIngress: with spec.ingress nil, delete the Ingress if present
\* and return an error in every case; otherwise CreateOrUpdate its rule.
\* The rule's backend port reads spec.service.port: a nil service panics.
reconcileIngress(a) ==
    LET s == snap[a].spec
        next == IF s.tls THEN "issuer" ELSE "finalizer"
    IN
    /\ pc[a] = "ingress"
    /\ \/ /\ s.host = NoHost
          /\ \/ /\ Fail("ingress")
                /\ Finish(a, TRUE)
                /\ UNCHANGED <<ingress, dirty>>
             \/ /\ ingress[a] = NoObject
                /\ Continue(a, next)
                /\ UNCHANGED <<ingress, dirty, failures>>
             \/ /\ ingress[a] # NoObject
                /\ \/ Fail("ingress") /\ UNCHANGED <<ingress, dirty>>
                   \/ Write(ingress, a, NoObject) /\ UNCHANGED failures
                /\ Finish(a, TRUE)
       \/ /\ s.host # NoHost
          /\ ~s.svc
          /\ Finish(a, TRUE)
          /\ UNCHANGED <<ingress, dirty, failures>>
       \/ /\ s.host # NoHost
          /\ s.svc
          /\ \/ /\ Fail("ingress")
                /\ Finish(a, TRUE)
                /\ UNCHANGED <<ingress, dirty>>
             \/ /\ Write(ingress, a, IngressRule(s, ingress[a]))
                /\ Continue(a, next)
                /\ UNCHANGED failures
    /\ UNCHANGED <<app, configMap, secret, deployment, service, issuer, edits>>

\* ReconcileIssuer and its caller.  A failed Get is not the `found`
\* sentinel: the caller logs it and returns without error, so the key is
\* not requeued.  A failed Create or Update returns a nil issuer whose
\* Name the caller's log line dereferences: a recovered panic, requeued.
\* Only the ACME email and server are compared; the private key is set at
\* creation only.  The issuer object returned carries the Ready condition
\* the pass checks after its fixed 50 s sleep.
ReconcileIssuer(a) ==
    LET s == snap[a].spec
        n == issuerName(a)
        cur == issuer[n]
        Returned(obj) == issuerReady' = [issuerReady EXCEPT ![a] = obj.ready]
    IN
    /\ pc[a] = "issuer"
    /\ \/ /\ Fail("issuerGet")
          /\ Finish(a, FALSE)
          /\ UNCHANGED <<issuer, dirty>>
       \/ /\ cur # NoObject
          /\ cur.acct = s.acct
          /\ Returned(cur)
          /\ Goto(a, "bind")
          /\ UNCHANGED <<issuer, dirty, snap, backoff, failures>>
       \/ /\ cur # NoObject
          /\ cur.acct # s.acct
          /\ \/ /\ Fail("issuerWrite")
                /\ Finish(a, TRUE)
                /\ UNCHANGED <<issuer, dirty>>
             \/ /\ issuer' = [issuer EXCEPT ![n].acct = s.acct]
                /\ IssuerEvent
                /\ Returned(cur)
                /\ Goto(a, "bind")
                /\ UNCHANGED <<snap, backoff>>
       \/ /\ cur = NoObject
          /\ \/ /\ Fail("issuerWrite")
                /\ Finish(a, TRUE)
                /\ UNCHANGED <<issuer, dirty>>
             \/ /\ issuer' = [issuer EXCEPT ![n] =
                                [acct |-> s.acct, pkey |-> s.pkey, ready |-> FALSE]]
                /\ IssuerEvent
                /\ Returned(issuer'[n])
                /\ Goto(a, "bind")
                /\ UNCHANGED <<snap, backoff>>
    /\ UNCHANGED <<app, configMap, secret, deployment, service, ingress, edits>>

\* After the sleep: if the returned issuer was Ready, updateIngressForTLS.
\* It rewrites the rule host and the TLS block when they differ from the
\* spec, and returns the "Found" sentinel when nothing changed.  Every other
\* error (failed Get, NotFound, failed Update) is logged and the pass
\* returns without error, skipping the finalizer and status steps.
updateIngressForTLS(a) ==
    LET s == snap[a].spec
        cur == ingress[a]
        want == [host |-> s.host, tls |-> DesiredTLS(s)]
    IN
    /\ pc[a] = "bind"
    /\ \/ /\ ~issuerReady[a]
          /\ Continue(a, "finalizer")
          /\ UNCHANGED <<ingress, dirty, failures>>
       \/ /\ issuerReady[a]
          /\ \/ /\ Fail("ingressTLS")
                /\ Finish(a, FALSE)
                /\ UNCHANGED <<ingress, dirty>>
             \/ /\ cur = NoObject
                /\ Finish(a, FALSE)
                /\ UNCHANGED <<ingress, dirty, failures>>
             \/ /\ cur # NoObject
                /\ cur = want
                /\ Continue(a, "finalizer")
                /\ UNCHANGED <<ingress, dirty, failures>>
             \/ /\ cur # NoObject
                /\ cur # want
                /\ \/ /\ Fail("ingressTLS")
                      /\ Finish(a, FALSE)
                      /\ UNCHANGED <<ingress, dirty>>
                   \/ /\ Write(ingress, a, want)
                      /\ Continue(a, "finalizer")
                      /\ UNCHANGED failures
    /\ UNCHANGED <<app, configMap, secret, deployment, service, issuer, edits>>

\* ensureApplicationFinalizer, object not being deleted: add the finalizer
\* with an Update of the pass's copy (conflict when the copy is stale).
AddFinalizer(a) ==
    /\ pc[a] = "finalizer"
    /\ ~snap[a].deleting
    /\ \/ /\ snap[a].finalizer
          /\ Continue(a, "status")
          /\ UNCHANGED <<app, dirty, failures>>
       \/ /\ ~snap[a].finalizer
          /\ \/ /\ Stale(a)
                /\ Finish(a, TRUE)
                /\ UNCHANGED <<app, dirty, failures>>
             \/ /\ ~Stale(a)
                /\ Fail("appUpdate")
                /\ Finish(a, TRUE)
                /\ UNCHANGED <<app, dirty>>
             \/ /\ ~Stale(a)
                /\ LET new == [snap[a] EXCEPT !.finalizer = TRUE, !.rv = @ + 1] IN
                   /\ app' = [app EXCEPT ![a] = new]
                   /\ snap' = [snap EXCEPT ![a] = new]
                /\ Enqueue({a})
                /\ Goto(a, "status")
                /\ UNCHANGED <<issuerReady, backoff, failures>>
    /\ UNCHANGED <<configMap, secret, deployment, service, ingress, issuer, edits>>

\* Fault variant for mutation checks: the dependencies are not deleted.
deleteApplicationDependenciesSkipped(a) ==
    /\ pc[a] = "finalizer"
    /\ snap[a].deleting
    /\ Continue(a, "unfinalize")
    /\ UNCHANGED <<storeVars, dirty, edits, failures>>

\* Fault variant for mutation checks: the NotFound check on the issuer Get
\* is dropped, so an absent issuer fails the teardown.
deleteApplicationDependenciesNotFoundFails(a) ==
    LET n == issuerName(a) IN
    /\ pc[a] = "finalizer"
    /\ snap[a].deleting
    /\ \/ /\ issuer[n] = NoObject
          /\ Finish(a, TRUE)
          /\ UNCHANGED <<issuer, dirty, failures>>
       \/ /\ issuer[n] # NoObject
          /\ issuer' = [issuer EXCEPT ![n] = NoObject]
          /\ IssuerEvent
          /\ Continue(a, "unfinalize")
    /\ UNCHANGED <<app, configMap, secret, deployment, service, ingress, edits>>

\* Fault variant for mutation checks: the DeletionTimestamp check is
\* dropped, so the teardown path also runs for a live Application.
deleteApplicationDependenciesUnguarded(a) ==
    LET n == issuerName(a) IN
    /\ pc[a] = "finalizer"
    /\ \/ /\ issuer[n] = NoObject
          /\ Continue(a, "unfinalize")
          /\ UNCHANGED <<issuer, dirty, failures>>
       \/ /\ issuer[n] # NoObject
          /\ issuer' = [issuer EXCEPT ![n] = NoObject]
          /\ IssuerEvent
          /\ Continue(a, "unfinalize")
    /\ UNCHANGED <<app, configMap, secret, deployment, service, ingress, edits>>

\* ensureApplicationFinalizer, object being deleted:
\* deleteApplicationDependencies gets the namespace's ClusterIssuer and
\* deletes it; NotFound counts as done.
deleteApplicationDependencies(a) ==
    LET n == issuerName(a) IN
    /\ pc[a] = "finalizer"
    /\ snap[a].deleting
    /\ \/ /\ Fail("teardown")
          /\ Finish(a, TRUE)
          /\ UNCHANGED <<issuer, dirty>>
       \/ /\ issuer[n] = NoObject
          /\ Continue(a, "unfinalize")
          /\ UNCHANGED <<issuer, dirty, failures>>
       \/ /\ issuer[n] # NoObject
          /\ \/ /\ Fail("teardown")
                /\ Finish(a, TRUE)
                /\ UNCHANGED <<issuer, dirty>>
             \/ /\ issuer' = [issuer EXCEPT ![n] = NoObject]
                /\ IssuerEvent
                /\ Continue(a, "unfinalize")
    /\ UNCHANGED <<app, configMap, secret, deployment, service, ingress, edits>>

\* Dependencies gone: remove the finalizer and Update.  The object is being
\* deleted and this was its only finalizer, so the API server removes it.
RemoveFinalizer(a) ==
    /\ pc[a] = "unfinalize"
    /\ \/ /\ Stale(a)
          /\ Finish(a, TRUE)
          /\ UNCHANGED <<app, dirty, failures>>
       \/ /\ ~Stale(a)
          /\ Fail("appUpdate")
          /\ Finish(a, TRUE)
          /\ UNCHANGED <<app, dirty>>
       \/ /\ ~Stale(a)
          /\ app' = [app EXCEPT ![a].exists = FALSE, ![a].finalizer = FALSE,
                                ![a].rv = @ + 1]
          /\ Enqueue({a})
          /\ Continue(a, "status")
          /\ UNCHANGED failures
    /\ UNCHANGED <<configMap, secret, deployment, service, ingress, issuer, edits>>

\* updateStatus: write the Available condition with Status().Update when
\* the copy's first condition is not Available; otherwise nothing.
updateStatus(a) ==
    /\ pc[a] = "status"
    /\ \/ /\ snap[a].available
          /\ Finish(a, FALSE)
          /\ UNCHANGED <<app, dirty, failures>>
       \/ /\ ~snap[a].available
          /\ \/ /\ Stale(a)
                /\ Finish(a, TRUE)
                /\ UNCHANGED <<app, dirty, failures>>
             \/ /\ ~Stale(a)
                /\ Fail("status")
                /\ Finish(a, TRUE)
                /\ UNCHANGED <<app, dirty>>
             \/ /\ ~Stale(a)
                /\ app' = [app EXCEPT ![a].available = TRUE, ![a].rv = @ + 1]
                /\ Enqueue({a})
                /\ Finish(a, FALSE)
                /\ UNCHANGED failures
    /\ UNCHANGED <<configMap, secret, deployment, service, ingress, issuer, edits>>

\* The rate limiter's delay for a failed key expires: it is re-added.
Requeue(a) ==
    /\ a \in backoff
    /\ backoff' = backoff \ {a}
    /\ Enqueue({a})
    /\ UNCHANGED <<storeVars, pc, snap, issuerReady, edits, failures>>

\* The informer's periodic resync (SyncPeriod, 10 h by default) delivers an
\* update event for every cached Application: all of them are enqueued.
Resync ==
    /\ Enqueue({a \in Apps : app[a].exists})
    /\ UNCHANGED <<storeVars, backoff, pc, snap, issuerReady, edits, failures>>

-----------------------------------------------------------------------------
(* The environment: the user, the garbage collector and cert-manager.     *)

\* The user writes a new spec (allowed also while the object is deleting).
EditSpec(a, s) ==
    /\ app[a].exists
    /\ edits < MaxEdits
    /\ s # app[a].spec
    /\ app' = [app EXCEPT ![a].spec = s, ![a].rv = @ + 1]
    /\ edits' = edits + 1
    /\ Enqueue({a})
    /\ UNCHANGED <<configMap, secret, deployment, service, ingress, issuer,
                   backoff, pc, snap, issuerReady, failures>>

\* The user deletes the Application: without a finalizer it is removed at
\* once, with one it only gets a deletion timestamp.
DeleteApp(a) ==
    /\ app[a].exists
    /\ ~app[a].deleting
    /\ app' = [app EXCEPT ![a] =
                 IF @.finalizer THEN [@ EXCEPT !.deleting = TRUE, !.rv = @ + 1]
                                ELSE [@ EXCEPT !.exists = FALSE]]
    /\ Enqueue({a})
    /\ UNCHANGED <<configMap, secret, deployment, service, ingress, issuer,
                   backoff, pc, snap, issuerReady, edits, failures>>

\* The garbage collector deletes the owned objects of a removed
\* Application (every child carries a controller owner reference to it).
CollectGarbage(a) ==
    /\ ~app[a].exists
    /\ \/ configMap[a] # NoObject \/ secret[a] # NoObject
       \/ deployment[a] # NoObject \/ service[a] \/ ingress[a] # NoObject
    /\ configMap' = [configMap EXCEPT ![a] = NoObject]
    /\ secret' = [secret EXCEPT ![a] = NoObject]
    /\ deployment' = [deployment EXCEPT ![a] = NoObject]
    /\ service' = [service EXCEPT ![a] = FALSE]
    /\ ingress' = [ingress EXCEPT ![a] = NoObject]
    /\ Enqueue({a})
    /\ UNCHANGED <<app, issuer, backoff, pc, snap, issuerReady, edits, failures>>

\* cert-manager registers the ACME account and marks the issuer Ready.
IssuerBecomesReady(n) ==
    /\ issuer[n] # NoObject
    /\ ~issuer[n].ready
    /\ issuer' = [issuer EXCEPT ![n].ready = TRUE]
    /\ IssuerEvent
    /\ UNCHANGED <<app, configMap, secret, deployment, service, ingress,
                   backoff, pc, snap, issuerReady, edits>>

-----------------------------------------------------------------------------

\* One step of the reconcile pass of a.
ReconcileStep(a) ==
    \/ Fetch(a)
    \/ reconcileConfigMap(a)
    \/ reconcileSecret(a)
    \/ reconcileDeployment(a)
    \/ reconcileService(a)
    \/ reconcileIngress(a)
    \/ ReconcileIssuer(a)
    \/ updateIngressForTLS(a)
    \/ AddFinalizer(a)
    \/ deleteApplicationDependencies(a)
    \/ RemoveFinalizer(a)
    \/ updateStatus(a)

Controller ==
    \/ \E a \in Apps : Dequeue(a) \/ ReconcileStep(a) \/ Requeue(a)
    \/ Resync

Environment ==
    \/ \E a \in Apps, s \in Specs : EditSpec(a, s)
    \/ \E a \in Apps : DeleteApp(a) \/ CollectGarbage(a)
    \/ \E n \in Namespaces : IssuerBecomesReady(n)

Next == Controller \/ Environment

\* Workers run, rate-limited keys come back, resyncs happen, the garbage
\* collector and cert-manager act: each weakly fair.  The user is not.
Fairness ==
    /\ \A a \in Apps : /\ WF_vars(Dequeue(a))
                       /\ WF_vars(ReconcileStep(a))
                       /\ WF_vars(Requeue(a))
                       /\ WF_vars(CollectGarbage(a))
    /\ WF_vars(Resync)
    /\ \A n \in Namespaces : WF_vars(IssuerBecomesReady(n))

Spec == Init /\ [][Next]_vars /\ Fairness

-----------------------------------------------------------------------------
(* Properties                                                              *)

TypeOK ==
    /\ app \in [Apps -> AppObject]
    /\ configMap \in [Apps -> SUBSET Keys \cup {NoObject}]
    /\ secret \in [Apps -> SUBSET Keys \cup {NoObject}]
    /\ deployment \in [Apps -> DeploymentObject \cup {NoObject}]
    /\ service \in [Apps -> BOOLEAN]
    /\ ingress \in [Apps -> IngressObject \cup {NoObject}]
    /\ issuer \in [Namespaces -> IssuerObject \cup {NoObject}]
    /\ dirty \subseteq Apps /\ backoff \subseteq Apps
    /\ pc \in [Apps -> Steps]
    /\ snap \in [Apps -> AppObject \cup {NoObject}]
    /\ issuerReady \in [Apps -> BOOLEAN]
    /\ edits \in 0..MaxEdits /\ failures \in 0..MaxFailures

\* The store holds what the spec of a asks for: routed env data in the
\* ConfigMap/Secret (none at all when no var is routed), the Deployment's
\* env references, the Service, the Ingress rule with a TLS block exactly
\* when TLS is enabled, the namespace's issuer Ready for the spec's
\* account and key, the finalizer registered and status Available.
Routed(s, prefix) == {v.key : v \in {e \in s.env : e.prefix = prefix}}

Converged(a) ==
    LET s == app[a].spec
        cm == Routed(s, "CM_")
        sec == Routed(s, "SEC_")
    IN
    /\ app[a].exists /\ ~app[a].deleting
    /\ app[a].finalizer /\ app[a].available
    /\ configMap[a] = IF cm = {} THEN NoObject ELSE cm
    /\ secret[a] = IF sec = {} THEN NoObject ELSE sec
    /\ deployment[a] = [cmRefs |-> cm, secRefs |-> sec,
                         literals |-> Routed(s, "")]
    /\ s.svc => service[a]
    /\ ingress[a] = IF s.host = NoHost THEN NoObject
                    ELSE [host |-> s.host,
                          tls |-> IF s.tls THEN [host |-> s.host, secret |-> s.pkey]
                                  ELSE NoObject]
    /\ s.tls => issuer[NsOf[a]] = [acct |-> s.acct, pkey |-> s.pkey, ready |-> TRUE]

\* Convergence (level-triggered reconcile with rate-limited retries): once
\* the user stops, every Application ends up, and stays, either converged
\* to its spec or removed, whatever API calls failed on the way.
Converges == \A a \in Apps : <>[](Converged(a) \/ ~app[a].exists)

\* Idempotence of the pass (create-or-update, server-side apply, the Found
\* sentinels, the status check): a step of a pass working on the current
\* spec of an already converged Application writes nothing to the store.
NoWriteWhenConverged ==
    [][\A a \in Apps :
         (Converged(a) /\ snap[a] # NoObject /\ snap[a].spec = app[a].spec
          /\ ReconcileStep(a)) => UNCHANGED storeVars]_vars

\* Teardown order of ensureApplicationFinalizer: an Application holding the
\* finalizer disappears from the store only in a step after which its
\* namespace has no ClusterIssuer.  (With two Applications in a namespace
\* the other one's pass may create the shared issuer again after the
\* teardown, so the runs check this with one Application per namespace.)
TeardownBeforeRelease ==
    [][\A a \in Apps :
         (app[a].exists /\ app[a].finalizer /\ ~app'[a].exists)
             => issuer'[NsOf[a]] = NoObject]_vars

\* No orphaned ClusterIssuer: an issuer exists only while some Application
\* of its namespace exists or is still being reconciled; otherwise nothing
\* will ever delete it (it has no owner reference).
NoOrphanIssuer ==
    \A n \in Namespaces :
        issuer[n] # NoObject =>
            \E a \in Apps : NsOf[a] = n /\ (app[a].exists \/ pc[a] # "idle")

\* Every pass that stops short of its last step while the Application
\* exists leaves the key to be reconciled again (requeued with backoff, or
\* already queued by an event): Reconcile propagates errors to the caller
\* for a rate-limited retry.
EarlyExitRetried ==
    [][\A a \in Apps :
         (pc[a] \notin {"idle", "fetch", "status"} /\ pc'[a] = "idle"
          /\ app'[a].exists)
             => a \in backoff' \cup dirty']_vars

\* Deleting an Application eventually removes it from the store.
DeletionCompletes == \A a \in Apps : app[a].deleting ~> ~app[a].exists


\* The lifecycle the operator promises (AppLifecycle): the store's
\* Application seen as live, deleting or gone, its finalizer, and whether
\* each namespace has its ClusterIssuer.
Phase(a) ==
    IF ~app[a].exists THEN "gone"
    ELSE IF app[a].deleting THEN "deleting" ELSE "live"

Lifecycle == INSTANCE AppLifecycle WITH
    phase <- [a \in Apps |-> Phase(a)],
    finalizer <- [a \in Apps |-> app[a].finalizer],
    issuerUp <- [n \in Namespaces |-> issuer[n] # NoObject]

\* The reconcile pass, the finalizer handling of ensureApplicationFinalizer
\* and the user's deletions together implement the lifecycle: no
\* Application comes back from deletion, the finalizer goes only with the
\* Application, the issuer is deleted only by the teardown of a deleting
\* Application of its namespace, and every marked deletion completes.
LifecycleSpec == Lifecycle!Spec

=============================================================================
