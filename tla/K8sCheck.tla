------------------------------ MODULE K8sCheck ------------------------------
(***************************************************************************)
(* KubernetesCondition.Check: one Get, or one List with a selector, and    *)
(* what it makes of the objects.  Nearly every typed wait is about the     *)
(* object itself; a rollout is about pods, of which the check sees only    *)
(* the counts that a controller wrote into the status, for the generation  *)
(* that it had observed, at some earlier moment.                           *)
(***************************************************************************)
EXTENDS Integers, Sequences, CheckFrame

CONSTANTS
    K8sRequests,    \* the options that are tried
    MaxGeneration,  \* bound: how often a workload is edited
    MaxPods         \* bound: the pods of a workload

ASSUME K8sConfig ==
    /\ MaxGeneration \in Nat /\ MaxPods \in Nat
    /\ \A o \in K8sRequests : o.backend = "k8s"

-----------------------------------------------------------------------------
(* Options: kind and named stand for the RESOURCE argument.                *)

\* normalizeK8sKind and gvrForKind; the last three have no typed wait.
CanonicalKind(kind) ==
    CASE kind \in {"pod", "pods", "po"} -> "pod"
      [] kind \in {"deployment", "deployments", "deploy"} -> "deployment"
      [] kind \in {"statefulset", "statefulsets", "sts"} -> "statefulset"
      [] kind \in {"daemonset", "daemonsets", "ds"} -> "daemonset"
      [] kind \in {"job", "jobs"} -> "job"
      [] OTHER -> kind
KnownKinds == {"pod", "deployment", "statefulset", "daemonset", "job",
               "service", "services", "svc", "replicaset", "replicasets", "rs",
               "namespace", "namespaces", "ns"}

Workloads == {"deployment", "statefulset", "daemonset"}

\* kubernetesWaitSupportsKind, k8sWaitSupportsKind
WaitSupports(wait, kind) ==
    \/ wait = "ready" /\ CanonicalKind(kind) = "pod"
    \/ wait = "complete" /\ CanonicalKind(kind) = "job"
    \/ wait = "rollout" /\ CanonicalKind(kind) \in Workloads

\* parseKubernetesCondition: of the resource, only what the other options refer to.
K8sAccepts(o) ==
    /\ ~(o.condition # "" /\ o.json)
    /\ o.waitFor # "" => o.condition = "" /\ ~o.json /\ WaitSupports(o.waitFor, o.kind)
    /\ o.selector # "" => o.waitFor # "" /\ ~o.named /\ o.selector # "malformed"
    /\ o.all => o.selector # ""

\* validateK8sConditionConfig and validateK8sResource
K8sValid(o) ==
    /\ o.condition # "" => o.waitFor = "" /\ ~o.json
    /\ o.json => o.waitFor = ""
    /\ o.selector # "" => o.waitFor # ""
    /\ o.all => o.selector # ""
    /\ o.waitFor # "" => WaitSupports(o.waitFor, o.kind)
    /\ o.named <=> o.selector = ""
    /\ CanonicalKind(o.kind) \in KnownKinds

-----------------------------------------------------------------------------
(* The world: the objects that a Get or a List would find, in their order. *)
(* An object that is no workload is in one of four states: what is waited  *)
(* for is there or not yet, it failed (a pod or a job), or its conditions  *)
(* or the fields that an expression compares are not of the expected form. *)

PlainStates == {"met", "unmet", "failed", "odd"}
Plain(s) == [kind |-> "plain", state |-> s]

NoPods == [oldReady |-> 0, oldStarting |-> 0, newReady |-> 0, newStarting |-> 0]
All(pods) == pods.oldReady + pods.oldStarting + pods.newReady + pods.newStarting

Workload(kind, desired) ==
    [kind |-> kind, generation |-> 1, desired |-> desired, pods |-> NoPods,
     status |-> [observed |-> 0, updated |-> 0, ready |-> 0, total |-> 0, desired |-> 0, unavailable |-> 0]]

\* Every pod that should be there is of the newest template and ready, and of a
\* deployment no other pod is left.
RolloutDone(w) ==
    /\ w.pods.newReady >= w.desired
    /\ w.kind = "deployment" => All(w.pods) = w.pods.newReady + w.pods.newStarting

\* What is asked of one object.
Met(object) == IF object.kind = "plain" THEN object.state = "met" ELSE RolloutDone(object)

K8sHolds(o, objects) ==
    /\ objects # <<>>
    /\ IF o.all THEN \A i \in DOMAIN objects : Met(objects[i])
                ELSE \E i \in DOMAIN objects : Met(objects[i])

\* A workload is asked about as its newest generation.
K8sObserve(edited) ==
    /\ held' = ((held /\ ~edited) \/ (stage' # "refused" /\ K8sHolds(request', world')))
    /\ lacked' = (lacked \/ (stage' # "refused" /\ ~K8sHolds(request', world')))

Becomes(i, object) == Turns([world EXCEPT ![i] = object])

\* Somebody changes the template or the number of replicas.
Edit(i, desired, template) ==
    /\ world[i].generation < MaxGeneration
    /\ world[i].kind = "daemonset" => template
    /\ LET w == world[i]
       IN  Becomes(i, [w EXCEPT !.generation = @ + 1,
                                !.desired = IF w.kind = "daemonset" THEN @ ELSE desired,
                                !.pods = IF ~template THEN @ ELSE
                                    [oldReady |-> w.pods.oldReady + w.pods.newReady,
                                     oldStarting |-> w.pods.oldStarting + w.pods.newStarting,
                                     newReady |-> 0, newStarting |-> 0]])

\* A pod is started, gets ready, stops being it, or goes. A daemon set has one pod on
\* each of its nodes.
PodMoves(i) ==
    \E from \in DOMAIN NoPods \cup {"nowhere"}, to \in DOMAIN NoPods \cup {"nowhere"} :
        LET w == world[i]
        IN  /\ IF from = "nowhere"
               THEN to = "newStarting" /\ All(w.pods) < (IF w.kind = "daemonset" THEN w.desired ELSE MaxPods)
               ELSE /\ w.pods[from] > 0
                    /\ to \in {"nowhere"} \cup
                          (IF from \in {"oldReady", "oldStarting"} THEN {"oldReady", "oldStarting"} \ {from}
                                                                 ELSE {"newReady", "newStarting"} \ {from})
            /\ Becomes(i, [w EXCEPT !.pods =
                   [k \in DOMAIN NoPods |-> @[k] + (CASE k = to -> 1 [] k = from -> -1 [] OTHER -> 0)]])

\* The controller writes the status; a pod that is ready counts as available, too.
Sync(i) ==
    LET w == world[i]
        ready == w.pods.oldReady + w.pods.newReady
    IN  Becomes(i, [w EXCEPT !.status =
            [observed |-> w.generation, updated |-> w.pods.newReady + w.pods.newStarting,
             ready |-> ready, total |-> All(w.pods), desired |-> w.desired,
             unavailable |-> IF ready < w.desired THEN w.desired - ready ELSE 0]])

K8sWorld ==
    /\ Running("k8s")
    /\ \/ \E i \in DOMAIN world :
              \/ /\ world[i].kind = "plain"
                 /\ \E s \in PlainStates : Becomes(i, Plain(s)) /\ K8sObserve(FALSE)
              \/ /\ world[i].kind # "plain"
                 /\ \/ \E n \in 1..2, t \in BOOLEAN : Edit(i, n, t) /\ K8sObserve(TRUE)
                    \/ (PodMoves(i) \/ Sync(i)) /\ K8sObserve(FALSE)
       \/ \E i \in DOMAIN world :
              /\ world[i].kind = "plain"
              /\ Turns(SubSeq(world, 1, i - 1) \o SubSeq(world, i + 1, Len(world)))
              /\ K8sObserve(FALSE)

-----------------------------------------------------------------------------
(* Check.                                                                  *)

\* checkObservedGeneration
Observed(w) == w.status.observed >= w.generation

\* Mutant of Rollout: the status is taken for the newest generation.
RolloutUnobserved(w) ==
    CASE w.kind = "deployment" ->
             w.status.updated >= w.desired /\ w.status.total <= w.status.updated /\ w.status.ready >= w.desired
      [] w.kind = "statefulset" -> w.status.updated >= w.desired /\ w.status.ready >= w.desired
      [] OTHER ->
             w.status.updated >= w.status.desired /\ w.status.ready >= w.status.desired /\ w.status.unavailable = 0

\* checkDeploymentRollout, checkStatefulSetRollout and checkDaemonSetRollout, of which
\* the last finds even the number of pods that are wanted in the status.
Rollout(w) ==
    /\ Observed(w)
    /\ CASE w.kind = "deployment" ->
                /\ w.status.updated >= w.desired /\ w.status.total <= w.status.updated
                /\ w.status.ready >= w.desired
         [] w.kind = "statefulset" -> w.status.updated >= w.desired /\ w.status.ready >= w.desired
         [] OTHER ->
                /\ w.status.updated >= w.status.desired /\ w.status.ready >= w.status.desired
                /\ w.status.unavailable = 0

\* checkK8sWaitFor, checkK8sJSONExpr and checkK8sNamedCondition, of one object.
ObjectAnswer(o, object) ==
    CASE object.kind # "plain" -> (IF Rollout(object) THEN "satisfied" ELSE "unsatisfied")
      [] object.kind = "plain" /\ object.state = "failed" /\ o.waitFor # "" -> "fatal"
      [] object.kind = "plain" /\ object.state = "odd" /\ o.waitFor # "complete" -> "fatal"
      [] object.kind = "plain" /\ object.state = "met" -> "satisfied"
      [] OTHER -> "unsatisfied"

\* scanK8sSelected: any fatal object decides, also after a satisfied one.
Selected(o, objects) ==
    LET answers == {ObjectAnswer(o, objects[i]) : i \in DOMAIN objects}
    IN  CASE "fatal" \in answers -> "fatal"
          [] "fatal" \notin answers /\ "satisfied" \in answers /\ (o.all => "unsatisfied" \notin answers) -> "satisfied"
          [] OTHER -> "unsatisfied"

\* The options, and the client: resolveGetter keeps what NewDynamicKubernetesGetter
\* returned the first time, the error too.
K8sStarts ==
    /\ stage = "check"
    /\ IF K8sValid(request) THEN Proceed("call") \/ Reply("fatal") ELSE Reply("fatal")

\* A permanent API error, another one, or the answer: the object or its absence, or the
\* selected objects.
K8sCall ==
    /\ stage = "call"
    /\ \/ Reply("fatal")
       \/ Reply("failed")
       \/ Reply(IF request.selector = "" /\ world # <<>>
                THEN ObjectAnswer(request, world[1])
                ELSE Selected(request, world))

K8sCheckStep ==
    /\ Running("k8s")
    /\ K8sStarts \/ K8sCall
    /\ K8sObserve(FALSE)

\* One object, or the selected ones; a rollout is watched from its beginning on.
K8sSituations(o) ==
    IF o.waitFor = "rollout"
    THEN {<<Workload(CanonicalKind(o.kind), n)>> : n \in 1..2}
    ELSE UNION {[1..n -> {Plain(s) : s \in PlainStates}] : n \in {k \in 1..2 : o.selector = "" => k = 1}}

K8sParse ==
    \E o \in K8sRequests : \E objects \in K8sSituations(o) :
        Parse(o, K8sAccepts(o), objects, Nothing) /\ K8sObserve(FALSE)

K8sNext == K8sParse \/ K8sCheckStep \/ K8sWorld

K8sSpec == FrameInit /\ [][K8sNext]_frameVars

-----------------------------------------------------------------------------
\* A satisfied rollout is one: at some moment since the newest edit all its pods were of
\* the newest template and ready, although the counts that Check sees are older than its
\* answer and do not say which pods they are about (checkObservedGeneration,
\* checkDeploymentRollout, checkDaemonSetRollout). For a stateful set this needs that no
\* pod was left over when the counts were written: checkStatefulSetRollout may add a new
\* pod that is about to be removed to an old one that is ready. Of everything else both
\* answers are right, also of several selected objects (scanK8sSelected).
LeftoverPods ==
    /\ world # <<>>
    /\ world[1].kind = "statefulset" /\ world[1].status.total > world[1].desired

K8sAnswerWitnessed ==
    request.backend = "k8s" =>
        IF request.waitFor = "rollout" THEN reply = "satisfied" /\ ~LeftoverPods => held
                                       ELSE ReplyWasRight
=============================================================================
