----------------------------- MODULE K8sProofs -----------------------------
(***************************************************************************)
(* Proofs about K8sCheck, for any options and any bounds on generations    *)
(* and pods: a satisfied rollout is one, although the check sees only the  *)
(* counts that a controller wrote.  The heart of it is that the counts of  *)
(* the newest generation that pass for a rollout were written at a moment  *)
(* when the rollout was done, and that an edit makes them old.             *)
(***************************************************************************)
EXTENDS K8sCheck, SequenceTheorems, TLAPS

K8sStarted == request.backend = "k8s" /\ stage \notin {"typed", "refused"}

PlainObjects == [kind : {"plain"}, state : PlainStates]
PodCounts == [oldReady : Nat, oldStarting : Nat, newReady : Nat, newStarting : Nat]
StatusCounts == [observed : Nat, updated : Nat, ready : Nat, total : Nat, desired : Nat,
                 unavailable : Nat]
WorkloadObjects == [kind : Workloads, generation : Nat, desired : Nat,
                    pods : PodCounts, status : StatusCounts]

\* Of a stateful set, pods were left over when its status was written.
Leftover(w) == w.kind = "statefulset" /\ w.status.total > w.desired

\* The status is of no later generation than the workload.
WorkloadInv(w) ==
    /\ w \in WorkloadObjects
    /\ w.status.observed <= w.generation
    /\ w.kind = "daemonset" => All(w.pods) <= w.desired

PlainInv ==
    /\ world \in Seq(PlainObjects)
    /\ request.selector = "" => Len(world) <= 1
    /\ K8sHolds(request, world) => held
    /\ ~K8sHolds(request, world) => lacked
    /\ ReplyWasRight

\* A status that passes for a rollout of the newest generation was written when there
\* was one.
RolloutInv ==
    /\ Len(world) = 1 /\ world = <<world[1]>>
    /\ WorkloadInv(world[1])
    /\ Rollout(world[1]) /\ ~Leftover(world[1]) => held
    /\ reply = "satisfied" => Rollout(world[1])

K8sInv ==
    /\ reply # "none" => stage = "done"
    /\ stage \in {"typed", "refused"} => reply = "none"
    /\ held \in BOOLEAN /\ lacked \in BOOLEAN
    /\ K8sStarted => IF request.waitFor = "rollout" THEN RolloutInv ELSE PlainInv

-----------------------------------------------------------------------------
(* The operators.                                                          *)

\* A typed wait for a rollout is about a workload (WaitSupports).
LEMMA RolloutKinds ==
    ASSUME NEW o, K8sAccepts(o), o.waitFor = "rollout"
    PROVE  CanonicalKind(o.kind) \in Workloads
  BY DEF K8sAccepts, WaitSupports

\* A workload that was just created: no pods yet, and a status of no generation.
LEMMA WorkloadStarts ==
    ASSUME NEW k \in Workloads, NEW n \in Nat
    PROVE  WorkloadInv(Workload(k, n)) /\ ~Rollout(Workload(k, n))
<1>1. /\ Workload(k, n).kind = k /\ Workload(k, n).generation = 1
      /\ Workload(k, n).desired = n /\ Workload(k, n).pods = NoPods
      /\ Workload(k, n).status.observed = 0
  BY DEF Workload
<1>2. Workload(k, n) \in WorkloadObjects
  BY DEF Workload, WorkloadObjects, PodCounts, StatusCounts, NoPods
<1>3. All(NoPods) = 0
  BY DEF All, NoPods
<1>4. ~Rollout(Workload(k, n))
  BY <1>1 DEF Rollout, Observed
<1> QED BY <1>1, <1>2, <1>3, <1>4 DEF WorkloadInv

\* What the controller writes passes for a rollout only if it is one: checkObservedGeneration
\* and the counts rule out old pods that are ready in place of new ones.
LEMMA SyncedCountsTell ==
    ASSUME NEW w \in WorkloadObjects, w.kind = "daemonset" => All(w.pods) <= w.desired,
           NEW v \in WorkloadObjects,
           v.kind = w.kind, v.desired = w.desired, v.pods = w.pods,
           v.status.updated = w.pods.newReady + w.pods.newStarting,
           v.status.ready = w.pods.oldReady + w.pods.newReady,
           v.status.total = All(w.pods), v.status.desired = w.desired,
           Rollout(v), ~Leftover(v)
    PROVE  RolloutDone(v)
<1>1. /\ w.pods.oldReady \in Nat /\ w.pods.oldStarting \in Nat
      /\ w.pods.newReady \in Nat /\ w.pods.newStarting \in Nat /\ w.desired \in Nat
  BY DEF WorkloadObjects, PodCounts
<1>2. All(v.pods) = w.pods.oldReady + w.pods.oldStarting + w.pods.newReady + w.pods.newStarting
  BY DEF All
<1>3. CASE w.kind = "deployment"
  <2>1. /\ v.status.updated >= v.desired /\ v.status.total <= v.status.updated
        /\ v.status.ready >= v.desired
    BY <1>3 DEF Rollout
  <2>2. All(v.pods) <= w.pods.newReady + w.pods.newStarting
    BY <2>1
  <2>3. w.pods.oldReady = 0 /\ w.pods.oldStarting = 0
    BY <1>1, <1>2, <2>2
  <2>4. v.pods.newReady >= v.desired
    BY <1>1, <2>1, <2>3
  <2>5. All(v.pods) = v.pods.newReady + v.pods.newStarting
    BY <1>1, <1>2, <2>3
  <2> QED BY <2>4, <2>5 DEF RolloutDone
<1>4. CASE w.kind = "statefulset"
  BY <1>1, <1>2, <1>4 DEF Rollout, RolloutDone, All, Leftover
<1>5. CASE w.kind = "daemonset"
  BY <1>1, <1>2, <1>5 DEF Rollout, RolloutDone, All
<1> QED BY <1>3, <1>4, <1>5 DEF WorkloadObjects, Workloads

\* One object that is no workload is answered as it is.
LEMMA PlainAnswer ==
    ASSUME NEW o, NEW object \in PlainObjects
    PROVE  /\ ObjectAnswer(o, object) \in {"satisfied", "unsatisfied", "fatal"}
           /\ ObjectAnswer(o, object) = "satisfied" <=> Met(object)
  BY DEF ObjectAnswer, Met, PlainObjects, PlainStates

\* scanK8sSelected says of several objects what is the case.
LEMMA SelectedAnswer ==
    ASSUME NEW o, NEW objects \in Seq(PlainObjects)
    PROVE  /\ Selected(o, objects) = "satisfied" => K8sHolds(o, objects)
           /\ Selected(o, objects) = "unsatisfied" => ~K8sHolds(o, objects)
<1> DEFINE answers == {ObjectAnswer(o, objects[i]) : i \in DOMAIN objects}
<1>1. \A i \in DOMAIN objects : objects[i] \in PlainObjects
  OBVIOUS
<1>2. \A i \in DOMAIN objects :
        /\ ObjectAnswer(o, objects[i]) \in {"satisfied", "unsatisfied", "fatal"}
        /\ ObjectAnswer(o, objects[i]) = "satisfied" <=> Met(objects[i])
  BY <1>1, PlainAnswer
<1>3. objects = <<>> <=> DOMAIN objects = {}
  BY EmptySeq
<1>4. ASSUME Selected(o, objects) = "satisfied"
      PROVE  K8sHolds(o, objects)
  <2>1. /\ "fatal" \notin answers /\ "satisfied" \in answers
        /\ o.all => "unsatisfied" \notin answers
    BY <1>4 DEF Selected
  <2>2. PICK i \in DOMAIN objects : Met(objects[i])
    BY <1>2, <2>1
  <2>3. ASSUME o.all, NEW j \in DOMAIN objects PROVE Met(objects[j])
    BY <1>2, <2>1, <2>3
  <2> QED BY <1>3, <2>2, <2>3 DEF K8sHolds
<1>5. ASSUME Selected(o, objects) = "unsatisfied"
      PROVE  ~K8sHolds(o, objects)
  <2>1. /\ "fatal" \notin answers
        /\ ~("satisfied" \in answers /\ (o.all => "unsatisfied" \notin answers))
    BY <1>5 DEF Selected
  <2>2. CASE "satisfied" \notin answers
    <3>1. \A i \in DOMAIN objects : ~Met(objects[i])
      BY <1>2, <2>2
    <3> QED BY <1>3, <3>1 DEF K8sHolds
  <2>3. CASE o.all /\ "unsatisfied" \in answers
    <3>1. PICK i \in DOMAIN objects : ObjectAnswer(o, objects[i]) = "unsatisfied"
      BY <2>3
    <3> QED BY <1>2, <2>3, <3>1 DEF K8sHolds
  <2> QED BY <2>1, <2>2, <2>3
<1> QED BY <1>4, <1>5

-----------------------------------------------------------------------------
(* The steps of the world.                                                 *)

\* An edit makes the status old.
LEMMA EditMakesOld ==
    ASSUME NEW w, WorkloadInv(w), NEW n \in Nat, NEW template \in BOOLEAN,
           w.kind = "daemonset" => template, NEW v,
           v = [w EXCEPT !.generation = @ + 1,
                         !.desired = IF w.kind = "daemonset" THEN @ ELSE n,
                         !.pods = IF ~template THEN @ ELSE
                             [oldReady |-> w.pods.oldReady + w.pods.newReady,
                              oldStarting |-> w.pods.oldStarting + w.pods.newStarting,
                              newReady |-> 0, newStarting |-> 0]]
    PROVE  WorkloadInv(v) /\ ~Rollout(v)
<1> DEFINE older == [oldReady |-> w.pods.oldReady + w.pods.newReady,
                     oldStarting |-> w.pods.oldStarting + w.pods.newStarting,
                     newReady |-> 0, newStarting |-> 0]
           pods == IF ~template THEN w.pods ELSE older
           desired == IF w.kind = "daemonset" THEN w.desired ELSE n
<1>1. w \in WorkloadObjects /\ w.generation \in Nat /\ w.desired \in Nat
      /\ w.pods \in PodCounts /\ w.status \in StatusCounts /\ w.kind \in Workloads
  BY DEF WorkloadInv, WorkloadObjects
<1>2. v = [kind |-> w.kind, generation |-> w.generation + 1, desired |-> desired,
           pods |-> pods, status |-> w.status]
      /\ v.kind = w.kind /\ v.pods = pods /\ v.desired = desired
  BY <1>1 DEF WorkloadObjects
<1>3. older \in PodCounts /\ All(older) = All(w.pods)
  BY <1>1 DEF PodCounts, All
<1> HIDE DEF older
<1>4. pods \in PodCounts /\ All(pods) = All(w.pods) /\ desired \in Nat
  BY <1>1, <1>3
<1> HIDE DEF pods, desired
<1>5. v \in WorkloadObjects
  BY <1>1, <1>2, <1>4 DEF WorkloadObjects
<1>6. v.status.observed < v.generation
  BY <1>1, <1>2 DEF WorkloadInv, StatusCounts
<1>7. ~Rollout(v)
  BY <1>1, <1>2, <1>6 DEF Rollout, Observed, StatusCounts
<1>8. v.kind = "daemonset" => All(v.pods) <= v.desired
  <2>1. w.kind = "daemonset" => desired = w.desired /\ All(w.pods) <= w.desired
    BY DEF WorkloadInv, desired
  <2> QED BY <1>2, <1>4, <2>1
<1>9. v.status.observed <= v.generation
  BY <1>1, <1>2 DEF WorkloadInv, StatusCounts
<1> QED BY <1>5, <1>7, <1>8, <1>9 DEF WorkloadInv

\* What the status and the specification say does not change when the pods do.
LEMMA RolloutOfStatus ==
    ASSUME NEW w, NEW v, v.kind = w.kind, v.generation = w.generation,
           v.desired = w.desired, v.status = w.status
    PROVE  (Rollout(v) <=> Rollout(w)) /\ (Leftover(v) <=> Leftover(w))
  BY DEF Rollout, Observed, Leftover

\* A daemon set never has more pods than nodes.
LEMMA PodsMove ==
    ASSUME NEW w, WorkloadInv(w),
           NEW from \in DOMAIN NoPods \cup {"nowhere"}, NEW to \in DOMAIN NoPods \cup {"nowhere"},
           IF from = "nowhere"
           THEN to = "newStarting" /\ All(w.pods) < (IF w.kind = "daemonset" THEN w.desired ELSE MaxPods)
           ELSE /\ w.pods[from] > 0
                /\ to \in {"nowhere"} \cup
                      (IF from \in {"oldReady", "oldStarting"} THEN {"oldReady", "oldStarting"} \ {from}
                                                             ELSE {"newReady", "newStarting"} \ {from}),
           NEW v,
           v = [w EXCEPT !.pods =
                  [k \in DOMAIN NoPods |-> @[k] + (CASE k = to -> 1 [] k = from -> -1 [] OTHER -> 0)]]
    PROVE  WorkloadInv(v) /\ (Rollout(v) <=> Rollout(w)) /\ (Leftover(v) <=> Leftover(w))
<1> DEFINE change(k) == CASE k = to -> 1 [] k = from -> -1 [] OTHER -> 0
           pods == [k \in DOMAIN NoPods |-> w.pods[k] + change(k)]
<1>1. w \in WorkloadObjects /\ w.generation \in Nat /\ w.desired \in Nat
      /\ w.pods \in PodCounts /\ w.status \in StatusCounts /\ w.kind \in Workloads
  BY DEF WorkloadInv, WorkloadObjects
<1>2. v = [kind |-> w.kind, generation |-> w.generation, desired |-> w.desired,
           pods |-> pods, status |-> w.status]
  BY <1>1 DEF WorkloadObjects
<1>3. /\ w.pods.oldReady \in Nat /\ w.pods.oldStarting \in Nat
      /\ w.pods.newReady \in Nat /\ w.pods.newStarting \in Nat
  BY <1>1 DEF PodCounts
<1>4. DOMAIN NoPods = {"oldReady", "oldStarting", "newReady", "newStarting"}
  BY DEF NoPods
<1>5. pods = [oldReady |-> w.pods.oldReady + change("oldReady"),
              oldStarting |-> w.pods.oldStarting + change("oldStarting"),
              newReady |-> w.pods.newReady + change("newReady"),
              newStarting |-> w.pods.newStarting + change("newStarting")]
  BY <1>4
<1>6. /\ pods.oldReady = w.pods.oldReady + change("oldReady")
      /\ pods.oldStarting = w.pods.oldStarting + change("oldStarting")
      /\ pods.newReady = w.pods.newReady + change("newReady")
      /\ pods.newStarting = w.pods.newStarting + change("newStarting")
  BY <1>5
<1>7. pods \in PodCounts
  <2>1. \A k \in DOMAIN NoPods : w.pods[k] + change(k) \in Nat
    BY <1>3, <1>4
  <2> QED BY <1>4, <1>5, <2>1 DEF PodCounts
<1>8. w.kind = "daemonset" => All(pods) <= w.desired
  BY <1>1, <1>3, <1>4, <1>6 DEF All, WorkloadInv
<1> HIDE DEF pods
<1>9. WorkloadInv(v)
  BY <1>1, <1>2, <1>7, <1>8 DEF WorkloadInv, WorkloadObjects
<1> QED BY <1>2, <1>9, RolloutOfStatus

\* The counts that the controller writes are those of the moment.
LEMMA SyncTells ==
    ASSUME NEW w, WorkloadInv(w), NEW v, NEW ready, ready = w.pods.oldReady + w.pods.newReady,
           v = [w EXCEPT !.status =
                  [observed |-> w.generation, updated |-> w.pods.newReady + w.pods.newStarting,
                   ready |-> ready, total |-> All(w.pods), desired |-> w.desired,
                   unavailable |-> IF ready < w.desired THEN w.desired - ready ELSE 0]]
    PROVE  WorkloadInv(v) /\ (Rollout(v) /\ ~Leftover(v) => RolloutDone(v))
<1> DEFINE status == [observed |-> w.generation, updated |-> w.pods.newReady + w.pods.newStarting,
                      ready |-> ready, total |-> All(w.pods), desired |-> w.desired,
                      unavailable |-> IF ready < w.desired THEN w.desired - ready ELSE 0]
<1>1. w \in WorkloadObjects /\ w.generation \in Nat /\ w.desired \in Nat
      /\ w.pods \in PodCounts /\ w.kind \in Workloads
  BY DEF WorkloadInv, WorkloadObjects
<1>2. /\ w.pods.oldReady \in Nat /\ w.pods.oldStarting \in Nat
      /\ w.pods.newReady \in Nat /\ w.pods.newStarting \in Nat
  BY <1>1 DEF PodCounts
<1>3. status \in StatusCounts
  BY <1>1, <1>2 DEF StatusCounts, All
<1>4. v = [kind |-> w.kind, generation |-> w.generation, desired |-> w.desired,
           pods |-> w.pods, status |-> status]
  BY <1>1 DEF WorkloadObjects
<1>5. v \in WorkloadObjects
  BY <1>1, <1>3, <1>4 DEF WorkloadObjects
<1>6. WorkloadInv(v)
  BY <1>1, <1>4, <1>5 DEF WorkloadInv
<1>7. Rollout(v) /\ ~Leftover(v) => RolloutDone(v)
  <2>1. v.kind = w.kind /\ v.desired = w.desired /\ v.pods = w.pods /\ v.status = status
    BY <1>4
  <2>2. /\ v.status.updated = w.pods.newReady + w.pods.newStarting
        /\ v.status.ready = w.pods.oldReady + w.pods.newReady
        /\ v.status.total = All(w.pods) /\ v.status.desired = w.desired
    BY <2>1
  <2> QED BY <1>1, <1>5, <2>1, <2>2, SyncedCountsTell DEF WorkloadInv
<1> QED BY <1>6, <1>7

-----------------------------------------------------------------------------
(* KubernetesCondition.Check.                                              *)

\* A function from 1..n is a sequence of length n.
LEMMA FunctionIsSequence ==
    ASSUME NEW S, NEW n \in Nat, NEW s \in [1..n -> S]
    PROVE  s \in Seq(S) /\ Len(s) = n
<1>1. s = [i \in 1..n |-> s[i]]
  OBVIOUS
<1>2. [i \in 1..n |-> s[i]] \in Seq(S)
  OBVIOUS
<1>3. s \in Seq(S)
  BY <1>1, <1>2
<1>4. Len(s) \in Nat /\ DOMAIN s = 1..Len(s) /\ DOMAIN s = 1..n
  BY <1>3
<1> QED BY <1>3, <1>4

\* One object, or the selected ones.
LEMMA SituationsArePlain ==
    ASSUME NEW o, o.waitFor # "rollout", NEW objects \in K8sSituations(o)
    PROVE  objects \in Seq(PlainObjects) /\ (o.selector = "" => Len(objects) <= 1)
<1> DEFINE S == {Plain(s) : s \in PlainStates}
<1>1. S \subseteq PlainObjects
  BY DEF Plain, PlainObjects
<1>2. PICK n \in 1..2 : (o.selector = "" => n = 1) /\ objects \in [1..n -> S]
  BY Zenon DEF K8sSituations
<1> HIDE DEF S
<1>3. n \in Nat
  OBVIOUS
<1>4. objects \in [1..n -> PlainObjects]
  BY <1>1, <1>2
<1>5. objects \in Seq(PlainObjects)
  BY <1>3, <1>4, FunctionIsSequence
<1>6. Len(objects) = n
  BY <1>3, <1>4, FunctionIsSequence
<1>7. ASSUME o.selector = "" PROVE Len(objects) <= 1
  <2>1. n = 1
    BY <1>2, <1>7, Zenon
  <2> QED BY <1>6, <2>1
<1> QED BY <1>5, <1>7

\* The command line refuses the options, or the check of some objects begins.
LEMMA K8sParsed == K8sInv /\ K8sParse => K8sInv'
<1> SUFFICES ASSUME K8sInv, K8sParse PROVE K8sInv'
  OBVIOUS
<1>1. PICK o \in K8sRequests : \E objects \in K8sSituations(o) :
        Parse(o, K8sAccepts(o), objects, Nothing) /\ K8sObserve(FALSE)
  BY DEF K8sParse
<1>2. PICK objects \in K8sSituations(o) :
        Parse(o, K8sAccepts(o), objects, Nothing) /\ K8sObserve(FALSE)
  BY <1>1
<1>3. reply' = "none" /\ stage' \in {"check", "refused"} /\ request' = o
  BY <1>2 DEF Parse, K8sInv
<1>4. held' \in BOOLEAN /\ lacked' \in BOOLEAN
  BY <1>2 DEF K8sObserve
<1>5. CASE stage' = "refused"
  BY <1>3, <1>4, <1>5 DEF K8sInv, K8sStarted
<1>6. CASE stage' = "check" /\ o.waitFor = "rollout"
  <2>1. world' = objects /\ K8sAccepts(o)
    BY <1>2, <1>6 DEF Parse
  <2>2. PICK n \in 1..2 : objects = <<Workload(CanonicalKind(o.kind), n)>>
    BY <1>6 DEF K8sSituations
  <2> DEFINE w == Workload(CanonicalKind(o.kind), n)
  <2>3. WorkloadInv(w) /\ ~Rollout(w)
    BY <1>6, <2>1, RolloutKinds, WorkloadStarts
  <2>4. Len(world') = 1 /\ world' = <<world'[1]>> /\ world'[1] = w
    BY <2>1, <2>2
  <2> HIDE DEF w
  <2>5. RolloutInv'
    BY <1>3, <2>3, <2>4 DEF RolloutInv, WorkloadInv, Rollout, Leftover
  <2> QED BY <1>3, <1>4, <1>6, <2>5 DEF K8sInv
<1>7. CASE stage' = "check" /\ o.waitFor # "rollout"
  <2>1. world' = objects
    BY <1>2, <1>7 DEF Parse
  <2>2. objects \in Seq(PlainObjects) /\ (o.selector = "" => Len(objects) <= 1)
    BY <1>7, SituationsArePlain
  <2>3. /\ K8sHolds(request', world') => held'
        /\ ~K8sHolds(request', world') => lacked'
    BY <1>2, <1>7 DEF K8sObserve
  <2>4. PlainInv'
    BY <1>3, <2>1, <2>2, <2>3 DEF PlainInv, ReplyWasRight
  <2> QED BY <1>3, <1>4, <1>7, <2>4 DEF K8sInv
<1> QED BY <1>3, <1>5, <1>6, <1>7

\* A step of the check keeps the invariant, since it looks at the objects once.
LEMMA K8sChecked == K8sInv /\ K8sCheckStep => K8sInv'
<1> SUFFICES ASSUME K8sInv, K8sCheckStep PROVE K8sInv'
  OBVIOUS
<1>1. /\ K8sStarted /\ K8sObserve(FALSE) /\ reply = "none"
      /\ IF request.waitFor = "rollout" THEN RolloutInv ELSE PlainInv
  BY DEF K8sInv, K8sCheckStep, Running, K8sStarted
<1>2. PICK r : \/ Proceed("call")
               \/ /\ Reply(r)
                  /\ \/ r \in {"fatal", "failed"}
                     \/ r = IF request.selector = "" /\ world # <<>>
                            THEN ObjectAnswer(request, world[1]) ELSE Selected(request, world)
  BY DEF K8sCheckStep, K8sStarts, K8sCall
<1>3. /\ request' = request /\ world' = world
      /\ \/ stage' = "call" /\ reply' = "none"
         \/ stage' = "done" /\ reply' = r
  BY <1>1, <1>2 DEF Proceed, Reply
<1>4. /\ held' = (held \/ K8sHolds(request, world))
      /\ lacked' = (lacked \/ ~K8sHolds(request, world))
  BY <1>1, <1>3 DEF K8sObserve, K8sInv
<1>5. CASE request.waitFor = "rollout"
  <2>1. r = "satisfied" /\ Reply(r) => Rollout(world[1])
    <3>1. world[1].kind # "plain" /\ Len(world) = 1 /\ world = <<world[1]>>
      BY <1>1, <1>5 DEF RolloutInv, WorkloadInv, WorkloadObjects, Workloads
    <3>2. ObjectAnswer(request, world[1]) = "satisfied" => Rollout(world[1])
      BY <3>1 DEF ObjectAnswer
    <3>3. Selected(request, world) = "satisfied" =>
            \E i \in DOMAIN world : ObjectAnswer(request, world[i]) = "satisfied"
      BY DEF Selected
    <3>4. DOMAIN world = {1}
      BY <3>1
    <3>5. Selected(request, world) = "satisfied" => Rollout(world[1])
      BY <3>2, <3>3, <3>4
    <3> QED BY <1>2, <3>2, <3>5 DEF Reply, Proceed
  <2>2. reply' = "satisfied" => Rollout(world[1])
    BY <1>2, <1>3, <2>1 DEF Proceed
  <2>3. /\ Len(world') = 1 /\ world' = <<world'[1]>> /\ WorkloadInv(world'[1])
        /\ Rollout(world'[1]) /\ ~Leftover(world'[1]) => held'
        /\ reply' = "satisfied" => Rollout(world'[1])
    BY <1>1, <1>3, <1>4, <1>5, <2>2 DEF RolloutInv
  <2>4. RolloutInv'
    BY <2>3 DEF RolloutInv, WorkloadInv, Rollout, Leftover
  <2> QED BY <1>1, <1>3, <1>4, <1>5, <2>4 DEF K8sInv, K8sStarted
<1>6. CASE request.waitFor # "rollout"
  <2>1. world \in Seq(PlainObjects) /\ (request.selector = "" => Len(world) <= 1)
    BY <1>1, <1>6 DEF PlainInv
  <2>2. ASSUME request.selector = "", world # <<>>
        PROVE  ObjectAnswer(request, world[1]) = "satisfied" <=> K8sHolds(request, world)
    <3>1. DOMAIN world = {1} /\ world[1] \in PlainObjects
      <4>1. Len(world) \in Nat /\ (world = <<>> <=> Len(world) = 0) /\ DOMAIN world = 1..Len(world)
        BY <2>1, EmptySeq, LenProperties
      <4>2. Len(world) <= 1
        BY <2>1, <2>2
      <4>3. Len(world) # 0
        BY <2>2, <4>1
      <4>4. Len(world) = 1
        BY <4>1, <4>2, <4>3
      <4>5. 1 \in DOMAIN world
        BY <4>1, <4>4
      <4> QED BY <2>1, <4>1, <4>4, <4>5, ElementOfSeq
    <3> QED BY <2>2, <3>1, PlainAnswer DEF K8sHolds
  <2>3. /\ Selected(request, world) = "satisfied" => K8sHolds(request, world)
        /\ Selected(request, world) = "unsatisfied" => ~K8sHolds(request, world)
    BY <2>1, SelectedAnswer
  <2>4. /\ reply' = "satisfied" => held'
        /\ reply' = "unsatisfied" => lacked'
    BY <1>2, <1>3, <1>4, <2>2, <2>3 DEF Reply, Proceed
  <2>5. PlainInv'
    BY <1>1, <1>3, <1>4, <1>6, <2>4 DEF PlainInv, ReplyWasRight
  <2> QED BY <1>1, <1>3, <1>4, <1>6, <2>5 DEF K8sInv, K8sStarted
<1> QED BY <1>5, <1>6

\* One object is replaced in a sequence of one.
LEMMA OnlyOne ==
    ASSUME NEW s, Len(s) = 1, s = <<s[1]>>, NEW i \in DOMAIN s, NEW v
    PROVE  i = 1 /\ [s EXCEPT ![i] = v] = <<v>>
<1>1. DOMAIN s = {1}
  <2>1. DOMAIN <<s[1]>> = {1}
    OBVIOUS
  <2> QED BY <2>1
<1>2. i = 1
  BY <1>1
<1>3. [s EXCEPT ![1] = v] = <<v>>
  <2>1. [<<s[1]>> EXCEPT ![1] = v] = <<v>>
    OBVIOUS
  <2> QED BY <2>1
<1> QED BY <1>2, <1>3

\* An edit makes the status old, a moving pod leaves it as it is, and a status that is
\* written tells what is the case.
LEMMA RolloutTurns ==
    ASSUME RolloutInv, K8sConfig, Running("k8s"), K8sWorld, reply = "none"
    PROVE  RolloutInv'
<1> DEFINE w == world[1]  v == world'[1]
<1>1. /\ Len(world) = 1 /\ world = <<w>> /\ WorkloadInv(w)
      /\ Rollout(w) /\ ~Leftover(w) => held
  BY DEF RolloutInv
<1>2. w.kind # "plain"
  BY <1>1 DEF WorkloadInv, WorkloadObjects, Workloads
<1>3. \A i \in DOMAIN world : i = 1
  BY <1>1, OnlyOne
<1>4. /\ 1 \in DOMAIN world
      /\ \/ \E n \in 1..2, t \in BOOLEAN : Edit(1, n, t) /\ K8sObserve(TRUE)
         \/ (PodMoves(1) \/ Sync(1)) /\ K8sObserve(FALSE)
  BY <1>2, <1>3 DEF K8sWorld
<1>5. ASSUME NEW x, Becomes(1, x), WorkloadInv(x), Rollout(x) /\ ~Leftover(x) => held'
      PROVE  RolloutInv'
  <2>1. world' = <<x>> /\ reply' = "none"
    BY <1>1, <1>4, <1>5, OnlyOne DEF Becomes, Turns
  <2>2. Len(world') = 1 /\ world' = <<world'[1]>> /\ world'[1] = x
    BY <2>1
  <2>3. WorkloadInv(world'[1]) /\ (Rollout(world'[1]) /\ ~Leftover(world'[1]) => held')
    BY <1>5, <2>2
  <2> QED BY <2>1, <2>2, <2>3 DEF RolloutInv, WorkloadInv, Rollout, Leftover
<1>6. ASSUME NEW n \in 1..2, NEW t \in BOOLEAN, Edit(1, n, t)
      PROVE  RolloutInv'
  <2> DEFINE x == [w EXCEPT !.generation = @ + 1,
                            !.desired = IF w.kind = "daemonset" THEN @ ELSE n,
                            !.pods = IF ~t THEN @ ELSE
                                [oldReady |-> w.pods.oldReady + w.pods.newReady,
                                 oldStarting |-> w.pods.oldStarting + w.pods.newStarting,
                                 newReady |-> 0, newStarting |-> 0]]
  <2>1. Becomes(1, x) /\ (w.kind = "daemonset" => t)
    BY <1>6 DEF Edit
  <2>2. n \in Nat
    OBVIOUS
  <2>3. WorkloadInv(x) /\ ~Rollout(x)
    BY <1>1, <2>1, <2>2, EditMakesOld
  <2> HIDE DEF x
  <2> QED BY <1>5, <2>1, <2>3
<1>7. CASE PodMoves(1) /\ K8sObserve(FALSE)
  <2>1. PICK from \in DOMAIN NoPods \cup {"nowhere"}, to \in DOMAIN NoPods \cup {"nowhere"} :
          /\ IF from = "nowhere"
             THEN to = "newStarting" /\ All(w.pods) < (IF w.kind = "daemonset" THEN w.desired ELSE MaxPods)
             ELSE /\ w.pods[from] > 0
                  /\ to \in {"nowhere"} \cup
                        (IF from \in {"oldReady", "oldStarting"} THEN {"oldReady", "oldStarting"} \ {from}
                                                               ELSE {"newReady", "newStarting"} \ {from})
          /\ Becomes(1, [w EXCEPT !.pods =
                 [k \in DOMAIN NoPods |-> @[k] + (CASE k = to -> 1 [] k = from -> -1 [] OTHER -> 0)]])
    BY <1>7 DEF PodMoves
  <2> DEFINE x == [w EXCEPT !.pods =
                 [k \in DOMAIN NoPods |-> @[k] + (CASE k = to -> 1 [] k = from -> -1 [] OTHER -> 0)]]
  <2>2. WorkloadInv(x) /\ (Rollout(x) <=> Rollout(w)) /\ (Leftover(x) <=> Leftover(w))
    BY <1>1, <2>1, PodsMove
  <2>3. Becomes(1, x)
    BY <2>1
  <2> HIDE DEF x
  <2>4. held => held'
    BY <1>7 DEF K8sObserve
  <2> QED BY <1>1, <1>5, <2>2, <2>3, <2>4
<1>8. CASE Sync(1) /\ K8sObserve(FALSE)
  <2> DEFINE ready == w.pods.oldReady + w.pods.newReady
             x == [w EXCEPT !.status =
                    [observed |-> w.generation, updated |-> w.pods.newReady + w.pods.newStarting,
                     ready |-> ready, total |-> All(w.pods), desired |-> w.desired,
                     unavailable |-> IF ready < w.desired THEN w.desired - ready ELSE 0]]
  <2>1. Becomes(1, x)
    BY <1>8 DEF Sync
  <2>2. WorkloadInv(x) /\ (Rollout(x) /\ ~Leftover(x) => RolloutDone(x))
    BY <1>1, SyncTells
  <2> HIDE DEF x
  <2>3. world' = <<x>> /\ stage' = stage
    BY <1>1, <1>4, <2>1, OnlyOne DEF Becomes, Turns
  <2>4. RolloutDone(x) => K8sHolds(request', world')
    <3>1. x.kind # "plain"
      BY <2>2 DEF WorkloadInv, WorkloadObjects, Workloads
    <3>2. DOMAIN world' = {1} /\ world'[1] = x /\ world' # <<>>
      BY <2>3
    <3> QED BY <3>1, <3>2 DEF K8sHolds, Met
  <2>5. RolloutDone(x) => held'
    BY <1>8, <2>3, <2>4 DEF K8sObserve, Running
  <2> QED BY <1>5, <2>1, <2>2, <2>5
<1> QED BY <1>4, <1>6, <1>7, <1>8

\* An element of a sequence.
LEMMA ElementOf ==
    ASSUME NEW S, NEW s \in Seq(S)
    PROVE  \A i \in DOMAIN s : s[i] \in S
  BY LenProperties, ElementOfSeq

\* One element of a sequence is replaced.
LEMMA Replaced ==
    ASSUME NEW S, NEW s \in Seq(S), NEW i \in DOMAIN s, NEW v \in S
    PROVE  [s EXCEPT ![i] = v] \in Seq(S) /\ Len([s EXCEPT ![i] = v]) <= Len(s)
<1>1. i \in 1..Len(s) /\ Len(s) \in Nat
  BY LenProperties
<1> QED BY <1>1, ExceptSeq

\* One element of a sequence is taken out.
LEMMA Removed ==
    ASSUME NEW S, NEW s \in Seq(S), NEW i \in DOMAIN s
    PROVE  LET rest == SubSeq(s, 1, i - 1) \o SubSeq(s, i + 1, Len(s))
           IN  rest \in Seq(S) /\ Len(rest) <= Len(s)
<1> DEFINE a == SubSeq(s, 1, i - 1)  b == SubSeq(s, i + 1, Len(s))
<1>1. i \in 1..Len(s) /\ Len(s) \in Nat
  BY LenProperties
<1>2. \A j \in 1..Len(s) : s[j] \in S
  BY ElementOfSeq
<1>3. a \in Seq(S) /\ Len(a) = i - 1
  <2>1. 1 \in Int /\ i - 1 \in Int /\ \A j \in 1..i - 1 : s[j] \in S
    BY <1>1, <1>2
  <2>2. a \in Seq(S) /\ Len(a) = IF 1 <= i - 1 THEN i - 1 - 1 + 1 ELSE 0
    BY <2>1, SubSeqProperties
  <2> QED BY <1>1, <2>2
<1>4. b \in Seq(S) /\ Len(b) = Len(s) - i
  <2>1. i + 1 \in Int /\ Len(s) \in Int /\ \A j \in i + 1..Len(s) : s[j] \in S
    BY <1>1, <1>2
  <2>2. b \in Seq(S) /\ Len(b) = IF i + 1 <= Len(s) THEN Len(s) - (i + 1) + 1 ELSE 0
    BY <2>1, SubSeqProperties
  <2> QED BY <1>1, <2>2
<1> HIDE DEF a, b
<1>5. a \o b \in Seq(S) /\ Len(a \o b) = Len(a) + Len(b)
  BY <1>3, <1>4, ConcatProperties
<1>6. Len(a \o b) <= Len(s)
  BY <1>1, <1>3, <1>4, <1>5
<1> QED BY <1>5, <1>6 DEF a, b

\* The objects stay what they are: plain ones, and no more of them.
LEMMA PlainTurns ==
    ASSUME PlainInv, Running("k8s"), K8sWorld, reply = "none"
    PROVE  PlainInv'
<1>1. world \in Seq(PlainObjects) /\ (request.selector = "" => Len(world) <= 1)
  BY DEF PlainInv
<1>2. \A i \in DOMAIN world : world[i].kind = "plain"
  <2>1. \A i \in DOMAIN world : world[i] \in PlainObjects
    BY <1>1, ElementOf
  <2> QED BY <2>1 DEF PlainObjects
<1>3. /\ request' = request /\ stage' = stage /\ reply' = "none" /\ K8sObserve(FALSE)
      /\ \/ \E i \in DOMAIN world, s \in PlainStates : world' = [world EXCEPT ![i] = Plain(s)]
         \/ \E i \in DOMAIN world :
               world' = SubSeq(world, 1, i - 1) \o SubSeq(world, i + 1, Len(world))
  BY <1>2 DEF K8sWorld, Becomes, Turns
<1>4. world' \in Seq(PlainObjects) /\ Len(world') <= Len(world)
  <2>1. ASSUME NEW i \in DOMAIN world, NEW s \in PlainStates, world' = [world EXCEPT ![i] = Plain(s)]
        PROVE  world' \in Seq(PlainObjects) /\ Len(world') <= Len(world)
    <3>1. Plain(s) \in PlainObjects
      BY DEF Plain, PlainObjects
    <3> QED BY <1>1, <2>1, <3>1, Replaced
  <2>2. ASSUME NEW i \in DOMAIN world,
               world' = SubSeq(world, 1, i - 1) \o SubSeq(world, i + 1, Len(world))
        PROVE  world' \in Seq(PlainObjects) /\ Len(world') <= Len(world)
    BY <1>1, <2>2, Removed
  <2> QED BY <1>3, <2>1, <2>2
<1>5. /\ K8sHolds(request', world') => held'
      /\ ~K8sHolds(request', world') => lacked'
  BY <1>3 DEF K8sObserve, Running
<1>6. ASSUME request.selector = "" PROVE Len(world') <= 1
  <2>1. Len(world) \in Nat /\ Len(world') \in Nat
    BY <1>1, <1>4, LenProperties
  <2>2. Len(world) <= 1
    BY <1>1, <1>6
  <2> QED BY <1>4, <2>1, <2>2
<1> QED BY <1>3, <1>4, <1>5, <1>6 DEF PlainInv, ReplyWasRight

\* What the world turns into is taken note of.
LEMMA K8sTurns == K8sInv /\ K8sWorld => K8sInv'
<1> SUFFICES ASSUME K8sInv, K8sWorld PROVE K8sInv'
  OBVIOUS
<1>1. /\ Running("k8s") /\ K8sStarted /\ reply = "none"
      /\ IF request.waitFor = "rollout" THEN RolloutInv ELSE PlainInv
  BY DEF K8sInv, K8sWorld, Running, K8sStarted
<1>2. /\ request' = request /\ stage' = stage /\ reply' = "none"
      /\ held' \in BOOLEAN /\ lacked' \in BOOLEAN
  BY <1>1 DEF K8sWorld, Becomes, Turns, K8sObserve, Edit, PodMoves, Sync
<1>3. IF request.waitFor = "rollout" THEN RolloutInv' ELSE PlainInv'
  BY <1>1, K8sConfig, RolloutTurns, PlainTurns
<1> QED BY <1>1, <1>2, <1>3 DEF K8sInv, K8sStarted

\* K8sInv is an invariant of the check of any objects.
THEOREM K8sInvariant == K8sSpec => []K8sInv
<1>1. FrameInit => K8sInv
  BY DEF FrameInit, K8sInv, K8sStarted, Nothing
<1>2. K8sInv /\ [K8sNext]_frameVars => K8sInv'
  <2>1. K8sInv /\ UNCHANGED frameVars => K8sInv'
    <3>1. UNCHANGED frameVars => (RolloutInv' <=> RolloutInv)
      BY DEF frameVars, RolloutInv, WorkloadInv, Rollout, Leftover
    <3>2. UNCHANGED frameVars => (PlainInv' <=> PlainInv)
      BY DEF frameVars, PlainInv, ReplyWasRight
    <3> QED BY <3>1, <3>2 DEF frameVars, K8sInv, K8sStarted
  <2> QED BY <2>1, K8sParsed, K8sChecked, K8sTurns DEF K8sNext
<1> QED BY <1>1, <1>2, PTL DEF K8sSpec

\* The invariant says of every answer what is promised.
LEMMA K8sInvTells == K8sInv => K8sAnswerWitnessed
<1> SUFFICES ASSUME K8sInv, request.backend = "k8s"
             PROVE  IF request.waitFor = "rollout" THEN reply = "satisfied" /\ ~LeftoverPods => held
                                                   ELSE ReplyWasRight
  BY DEF K8sAnswerWitnessed
<1>1. CASE reply = "none"
  BY <1>1 DEF ReplyWasRight
<1>2. CASE reply # "none" /\ request.waitFor # "rollout"
  BY <1>2 DEF K8sInv, K8sStarted, PlainInv
<1>3. CASE reply # "none" /\ request.waitFor = "rollout"
  <2>1. RolloutInv
    BY <1>3 DEF K8sInv, K8sStarted
  <2>2. world # <<>>
    BY <2>1 DEF RolloutInv
  <2> QED BY <1>3, <2>1, <2>2 DEF RolloutInv, LeftoverPods, Leftover
<1> QED BY <1>1, <1>2, <1>3

\* A satisfied rollout was one at some moment since the newest edit, for any number of
\* pods and edits, unless pods of a stateful set were left over; every other answer was
\* right at some moment of the check.
THEOREM K8sAnswerRight == K8sSpec => []K8sAnswerWitnessed
  BY K8sInvTells, K8sInvariant, PTL

=============================================================================
