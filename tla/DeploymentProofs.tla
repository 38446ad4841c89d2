-------------------------- MODULE DeploymentProofs --------------------------
(* Who reaches the database and NATS, for any stacks in any namespaces. *)
EXTENDS Deployment, TLAPS

----------------------------------------------------------------------------
(* Labels tell the pods apart *)

LEMMA EndpointLabels ==
    ASSUME NEW e \in Endpoints
    PROVE  \/ /\ e \in Pod /\ e = <<e[1], e[2]>>
              /\ e[1] \in Stacks /\ e[2] \in Parts
           \/ Labels(e) = {}
<1>1. CASE e \in Pod
  BY <1>1 DEF Pod
<1>2. CASE e \in Others
  BY <1>2 DEF Others, Labels
<1>3. QED
  BY <1>1, <1>2 DEF Endpoints

LEMMA LabelsOfPods ==
    ASSUME NEW s \in Stacks
    PROVE  /\ Labels(<<s, "mulval">>) = mulvalPodLabels(s)
           /\ Labels(<<s, "pooler">>) = poolerPodLabels(s)
           /\ Labels(<<s, "pg">>) = pgPodLabels(s)
           /\ Labels(<<s, "nats">>) = natsPodLabels(s)
  BY DEF Labels

\* Each set of pod labels selects the pod of one stack and part.
LEMMA LabelsSelectOne ==
    ASSUME NEW s \in Stacks, NEW e \in Endpoints
    PROVE  /\ poolerPodLabels(s) \subseteq Labels(e) => e = <<s, "pooler">>
           /\ pgPodLabels(s) \subseteq Labels(e) => e = <<s, "pg">>
           /\ natsPodLabels(s) \subseteq Labels(e) => e = <<s, "nats">>
           /\ mulvalPodLabels(s) \subseteq Labels(e) => e = <<s, "mulval">>
<1>1. CASE Labels(e) = {}
  BY <1>1 DEF poolerPodLabels, pgPodLabels, natsPodLabels, mulvalPodLabels
<1>2. ASSUME NEW t \in Stacks, NEW part \in Parts, e = <<t, part>>
      PROVE  /\ poolerPodLabels(s) \subseteq Labels(e) => e = <<s, "pooler">>
             /\ pgPodLabels(s) \subseteq Labels(e) => e = <<s, "pg">>
             /\ natsPodLabels(s) \subseteq Labels(e) => e = <<s, "nats">>
             /\ mulvalPodLabels(s) \subseteq Labels(e) => e = <<s, "mulval">>
  <2>1. CASE part = "mulval"
    <3>1. Labels(e) = mulvalPodLabels(t)
      BY <1>2, <2>1, LabelsOfPods
    <3>2. QED
      BY <1>2, <2>1, <3>1 DEF mulvalPodLabels, poolerPodLabels, pgPodLabels,
         natsPodLabels, commonLabels, clientLabels
  <2>2. CASE part = "pooler"
    <3>1. Labels(e) = poolerPodLabels(t)
      BY <1>2, <2>2, LabelsOfPods
    <3>2. QED
      BY <1>2, <2>2, <3>1 DEF mulvalPodLabels, poolerPodLabels, pgPodLabels,
         natsPodLabels, commonLabels, clientLabels
  <2>3. CASE part = "pg"
    <3>1. Labels(e) = pgPodLabels(t)
      BY <1>2, <2>3, LabelsOfPods
    <3>2. QED
      BY <1>2, <2>3, <3>1 DEF mulvalPodLabels, poolerPodLabels, pgPodLabels,
         natsPodLabels, commonLabels, clientLabels
  <2>4. CASE part = "nats"
    <3>1. Labels(e) = natsPodLabels(t)
      BY <1>2, <2>4, LabelsOfPods
    <3>2. QED
      BY <1>2, <2>4, <3>1 DEF mulvalPodLabels, poolerPodLabels, pgPodLabels,
         natsPodLabels, commonLabels, clientLabels
  <2>5. QED
    BY <2>1, <2>2, <2>3, <2>4 DEF Parts
<1>3. QED
  BY <1>1, <1>2, EndpointLabels

----------------------------------------------------------------------------
(* What the policies let through *)

LEMMA EachPolicy ==
    ASSUME NEW p \in Policies
    PROVE  \E t \in Stacks :
              \/ p = npol(t) \/ p = dnspol(t) \/ p = internetpol(t)
              \/ p = pgToAPI(t) \/ p = pgFromOperator(t)
              \/ p = pgFromPooler(t) \/ p = poolerToPg(t)
              \/ p = pgReplication(t) \/ p = poolerFromClient(t)
              \/ p = mvToPgsqlAndNats(t) \/ p = natsFromMv(t) \/ p = expose(t)
  BY DEF Policies

\* Which pods a policy selects for ingress, and whom it lets in.
LEMMA IngressPolicies ==
    ASSUME NEW p \in Policies, NEW f \in p.pods, "in" \in p.types,
           NEW e, NEW port, <<e, port>> \in p.in
    PROVE  \E t \in Stacks :
              \/ Namespace(e) = OperatorNamespace /\ port \in DatabasePorts
              \/ f = <<t, "pg">> /\ e \in {<<t, "pg">>, <<t, "pooler">>}
              \/ f = <<t, "pooler">>
              \/ f = <<t, "nats">> /\ e = <<t, "mulval">>
              \/ f = <<t, "mulval">>
<1>1. PICK t \in Stacks :
              \/ p = npol(t) \/ p = dnspol(t) \/ p = internetpol(t)
              \/ p = pgToAPI(t) \/ p = pgFromOperator(t)
              \/ p = pgFromPooler(t) \/ p = poolerToPg(t)
              \/ p = pgReplication(t) \/ p = poolerFromClient(t)
              \/ p = mvToPgsqlAndNats(t) \/ p = natsFromMv(t) \/ p = expose(t)
  BY EachPolicy
<1>2. p \notin {npol(t), dnspol(t), internetpol(t), pgToAPI(t),
                poolerToPg(t), mvToPgsqlAndNats(t)}
  BY DEF npol, dnspol, internetpol, pgToAPI, poolerToPg, mvToPgsqlAndNats,
     Egress
<1>3. CASE p = pgFromOperator(t)
  BY <1>3 DEF pgFromOperator, Ingress
<1>4. CASE p = pgFromPooler(t)
  BY <1>4, LabelsSelectOne DEF pgFromPooler, Ingress, Select
<1>5. CASE p = pgReplication(t)
  BY <1>5, LabelsSelectOne DEF pgReplication, Select
<1>6. CASE p = poolerFromClient(t)
  BY <1>6, LabelsSelectOne DEF poolerFromClient, Ingress, Select
<1>7. CASE p = natsFromMv(t)
  BY <1>7, LabelsSelectOne DEF natsFromMv, Ingress, Select
<1>8. CASE p = expose(t)
  BY <1>8, LabelsSelectOne DEF expose, Ingress, Select
<1>9. QED
  BY <1>1, <1>2, <1>3, <1>4, <1>5, <1>6, <1>7, <1>8

----------------------------------------------------------------------------
(* What runs was created after what it needs *)

LEMMA NeedsAreResources ==
    ASSUME NEW s \in Stacks, NEW r \in Resources(s)
    PROVE  Needs(r) \subseteq Resources(s)
  BY DEF Needs, InNamespace, NeededBy, DependsOn, NeededByMulval,
     WithPassword, Resources, DatabaseParts

LEMMA PresentNeedsNothing ==
    ASSUME NEW s \in Stacks
    PROVE  /\ Present(s) \subseteq AllResources
           /\ Present(s) \cap Resources(s) \subseteq {"ns"}
           /\ Needs("ns") = {}
<1>1. Present(s) \subseteq Resources(s) \cup NamespaceParts
  BY DEF Present, Resources, NamespaceParts
<1>2. Present(s) \cap Resources(s) \subseteq {"ns"}
  BY DEF Present, Resources, DatabaseParts
<1>3. Resources(s) \cup NamespaceParts \subseteq AllResources
  BY DEF AllResources
<1>4. Needs("ns") = {}
  BY DEF Needs, InNamespace, NeededBy, DependsOn, NeededByMulval,
     WithPassword
<1>5. QED
  BY <1>1, <1>2, <1>3, <1>4

LEMMA NatsIsNotNeeded ==
    ASSUME NEW r, r # "svc", r # "expose"
    PROVE  Needs(r) \cap WaitsForNats = {}
  BY DEF Needs, InNamespace, NeededBy, DependsOn, NeededByMulval,
     WithPassword, DatabaseParts, WaitsForNats

\* Of a stack that begins with the resources first, m exists and d is done.
BeginsWith(s, m, d, first) ==
    /\ m \subseteq AllResources
    /\ d \subseteq m \cap Resources(s)
    /\ m \cap Resources(s) \subseteq d \cup DOMAIN Awaited
    /\ \A r \in m \cap Resources(s) : Needs(r) \subseteq d
    /\ d \ {"ns"} \subseteq first

\* However far a stack has come, what it needs for that is done.
LEMMA FirstResources ==
    ASSUME NEW s \in Stacks, NEW progress \in Progress,
           NEW m, m = Present(s) \cup MadeFirst(s, progress),
           NEW d, d = DoneFirst(s, progress)
    PROVE  BeginsWith(s, m, d, MadeFirst(s, progress))
<1> USE DEF BeginsWith
<1>1. "ns" \in Resources(s) /\ Resources(s) \subseteq AllResources
  BY DEF Resources, AllResources
<1>2. CASE progress = "complete"
  <2>1. d = Resources(s) /\ MadeFirst(s, progress) = Resources(s)
    BY <1>2 DEF MadeFirst, DoneFirst
  <2>2. QED
    BY <1>1, <2>1, PresentNeedsNothing, NeedsAreResources
<1>3. CASE progress = "chartless"
  <2>1. /\ d = Resources(s) \ WaitsForNats
        /\ MadeFirst(s, progress) = Resources(s) \ {"chart", "svc", "expose"}
    BY <1>3 DEF MadeFirst, DoneFirst
  <2>2. m \cap Resources(s) = Resources(s) \ {"chart", "svc", "expose"}
    BY <1>1, <2>1, PresentNeedsNothing
  <2>3. /\ WaitsForNats = {"chart", "svc", "expose"} \cup {"dep"}
        /\ "dep" \in DOMAIN Awaited
    BY DEF WaitsForNats, Awaited
  <2>4. ASSUME NEW r \in m \cap Resources(s)
        PROVE  Needs(r) \subseteq d
    BY <2>1, <2>2, NatsIsNotNeeded, NeedsAreResources
  <2>5. QED
    BY <1>1, <2>1, <2>2, <2>3, <2>4, PresentNeedsNothing
<1>4. CASE progress = "absent"
  <2>1. d = Present(s) \cap {"ns"} /\ MadeFirst(s, progress) = {}
    BY <1>4 DEF MadeFirst, DoneFirst
  <2>2. QED
    BY <1>1, <2>1, PresentNeedsNothing
<1>5. QED
  BY <1>2, <1>3, <1>4 DEF Progress

LEMMA InitEstablishes == DeploymentInit => DeploymentInv
<1>0. SUFFICES ASSUME NEW b \in Beginnings,
                    made = [s \in Stacks |-> Present(s) \cup MadeFirst(s, b[s])],
                    done = [s \in Stacks |-> DoneFirst(s, b[s])],
                    pods = {e \in Pod : Runs[e[2]] \in MadeFirst(e[1], b[e[1]])},
                    ready = {e \in Pod : Runs[e[2]] \in DoneFirst(e[1], b[e[1]])}
             PROVE  DeploymentInv
  BY DEF DeploymentInit
<1>1. \A s \in Stacks : b[s] \in Progress
  BY <1>0, DeploymentAssumption
<1>2. ASSUME NEW s \in Stacks
      PROVE  BeginsWith(s, made[s], done[s], MadeFirst(s, b[s]))
  <2>1. /\ made[s] = Present(s) \cup MadeFirst(s, b[s])
        /\ done[s] = DoneFirst(s, b[s])
    BY <1>0
  <2>2. b[s] \in Progress
    BY <1>1
  <2>3. QED
    BY <2>1, <2>2, FirstResources
<1>3. made \in [Stacks -> SUBSET AllResources]
  BY <1>0, <1>2 DEF BeginsWith
<1>4. done \in [Stacks -> SUBSET AllResources]
  BY <1>0, <1>2 DEF BeginsWith
<1>5. ASSUME NEW e \in ready
      PROVE  e \in pods
  <2>1. e \in Pod /\ e[1] \in Stacks /\ e[2] \in Parts
    BY <1>0, <1>5 DEF Pod
  <2>2. Runs[e[2]] \in done[e[1]]
    BY <1>0, <1>5, <2>1
  <2>3. Runs[e[2]] # "ns"
    BY <2>1 DEF Parts, Runs
  <2>4. Runs[e[2]] \in MadeFirst(e[1], b[e[1]])
    BY <1>2, <2>1, <2>2, <2>3 DEF BeginsWith
  <2>5. QED
    BY <1>0, <2>1, <2>4
<1>6. ASSUME NEW s \in Stacks, NEW part \in Parts, <<s, part>> \in pods
      PROVE  Runs[part] \in made[s]
  BY <1>0, <1>6
<1>7. pods \subseteq Pod
  BY <1>0
<1>8. QED
  BY <1>2, <1>3, <1>4, <1>5, <1>6, <1>7 DEF DeploymentInv, BeginsWith

LEMMA CreateKeeps ==
    ASSUME DeploymentInv, NEW s \in Stacks, NEW r \in Resources(s),
           Create(s, r)
    PROVE  DeploymentInv'
  BY DEF DeploymentInv, Create, CanCreate, Awaited, AllResources

LEMMA AwaitKeeps ==
    ASSUME DeploymentInv, NEW s \in Stacks, NEW r \in Resources(s),
           Await(s, r)
    PROVE  DeploymentInv'
  BY DEF DeploymentInv, Await, IsAnswered, AllResources

LEMMA StartPodKeeps ==
    ASSUME DeploymentInv, NEW s \in Stacks, NEW part \in Parts,
           StartPod(s, part)
    PROVE  DeploymentInv'
  BY DEF DeploymentInv, StartPod, CanStart, Pod

LEMMA BecomeReadyKeeps ==
    ASSUME DeploymentInv, NEW s \in Stacks, NEW part \in Parts,
           BecomeReady(s, part)
    PROVE  DeploymentInv'
  BY DEF DeploymentInv, BecomeReady, Works

LEMMA NextKeeps ==
    DeploymentInv /\ [DeploymentStep]_deploymentVars => DeploymentInv'
<1> SUFFICES ASSUME DeploymentInv, [DeploymentStep]_deploymentVars
             PROVE  DeploymentInv'
  OBVIOUS
<1>1. CASE DeploymentStep
  BY <1>1, CreateKeeps, AwaitKeeps, StartPodKeeps, BecomeReadyKeeps
     DEF DeploymentStep
<1>2. CASE UNCHANGED deploymentVars
  BY <1>2 DEF deploymentVars, DeploymentInv
<1>3. QED
  BY <1>1, <1>2

\* A resource that exists, and a pod that runs, was created after all that it
\* needs.
THEOREM DeploymentInvariant == DeploymentSpec => []DeploymentInv
<1>1. QED
  BY InitEstablishes, NextKeeps, PTL DEF DeploymentSpec

----------------------------------------------------------------------------
(* The database and NATS *)

LEMMA PodsAreSelected ==
    ASSUME NEW s \in Stacks, NEW part \in Parts
    PROVE  <<s, part>> \in Endpoints /\ Namespace(<<s, part>>) = NamespaceOf(s)
<1>1. <<s, part>> \in Pod /\ <<s, part>>[1] = s
  BY DEF Pod
<1>2. <<s, part>> \notin {Tenant, Operator, Colleague}
  BY DEF Parts, Tenant, Operator, Colleague
<1>3. QED
  BY <1>1, <1>2 DEF Endpoints, Namespace

\* No order of creation lets anybody reach the database but its own pods, the
\* pooler of its stack, and the pods of the operator's namespace.
THEOREM DatabaseIsGuarded == DeploymentSpec => []DatabaseGuarded
<1>1. DeploymentInv => DatabaseGuarded
  <2> SUFFICES ASSUME DeploymentInv, NEW s \in Stacks, <<s, "pg">> \in pods,
                      NEW e \in Endpoints, NEW port \in DatabasePorts,
                      CanConnect(e, <<s, "pg">>, port)
               PROVE  \/ e \in {<<s, "pg">>, <<s, "pooler">>}
                      \/ Namespace(e) = OperatorNamespace
    BY DEF DatabaseGuarded
  <2>1. "pgReplication" \in made[s]
    <3>1. "cluster" \in made[s]
      BY DEF DeploymentInv, Runs, Parts
    <3>2. "cluster" \in Resources(s)
      BY DEF Resources
    <3>3. "pgReplication" \in Needs("cluster")
      BY DEF Needs, NeededBy, DependsOn, DatabaseParts
    <3>4. QED
      BY <3>1, <3>2, <3>3 DEF DeploymentInv
  <2>2. pgReplication(s) \in Selecting(<<s, "pg">>, "in")
    <3>1. <<s, "pg">> \in pgReplication(s).pods
      BY LabelsOfPods, PodsAreSelected DEF pgReplication, Select, Parts
    <3>2. pgReplication(s) \in Policies
      BY DEF Policies
    <3>3. QED
      BY <2>1, <3>1, <3>2 DEF Selecting, pgReplication
  <2>3. PICK p \in Selecting(<<s, "pg">>, "in") : <<e, port>> \in p.in
    BY <2>2 DEF CanConnect, Enters
  <2>4. QED
    BY <2>3, IngressPolicies DEF Selecting
<1>2. QED
  BY <1>1, DeploymentInvariant, PTL

\* Once the namespace denies traffic, MulVal of the same stack alone reaches
\* NATS.
THEOREM NatsIsGuarded == DeploymentSpec => []NatsGuarded
<1>1. NatsGuarded
  <2> SUFFICES ASSUME NEW s \in Stacks, "npol" \in made[s],
                      NEW e \in Endpoints, CanConnect(e, <<s, "nats">>, 4222)
               PROVE  e = <<s, "mulval">>
    BY DEF NatsGuarded
  <2>1. npol(s) \in Policies
    BY DEF Policies
  <2>2. <<s, "nats">> \in npol(s).pods /\ "in" \in npol(s).types
    <3>1. <<s, "nats">> \in Select(s, {})
      <4>1. "nats" \in Parts
        BY DEF Parts
      <4>2. <<s, "nats">> \in Endpoints
            /\ Namespace(<<s, "nats">>) = NamespaceOf(s)
        BY <4>1, PodsAreSelected
      <4>3. QED
        BY <4>2 DEF Select
    <3>2. QED
      BY <3>1 DEF npol
  <2>3. npol(s) \in Selecting(<<s, "nats">>, "in")
    BY <2>1, <2>2 DEF Selecting, npol
  <2>4. PICK p \in Selecting(<<s, "nats">>, "in") : <<e, 4222>> \in p.in
    BY <2>3 DEF CanConnect, Enters
  <2>5. QED
    BY <2>4, IngressPolicies DEF Selecting, DatabasePorts
<1>2. QED
  BY <1>1, PTL

----------------------------------------------------------------------------
(* Stacks that share a namespace *)

\* A namespace that denies all traffic but DNS goes on doing so.
StaysHardened ==
    Hardened => \A s \in Given : {"npol", "dnspol"} \subseteq made[s]

LEMMA HardenedStays == DeploymentSpec => []StaysHardened
<1>1. DeploymentInit => StaysHardened
  BY DeploymentAssumption DEF DeploymentInit, StaysHardened, Present
<1>2. /\ DeploymentInv /\ StaysHardened
      /\ [DeploymentStep]_deploymentVars
      => StaysHardened'
  <2> SUFFICES ASSUME DeploymentInv, StaysHardened,
                      [DeploymentStep]_deploymentVars,
                      Hardened, NEW s \in Given
               PROVE  {"npol", "dnspol"} \subseteq made'[s]
    BY DEF StaysHardened
  <2>1. s \in Stacks /\ {"npol", "dnspol"} \subseteq made[s]
    BY DeploymentAssumption DEF StaysHardened
  <2>2. ASSUME NEW t \in Stacks, NEW r, Create(t, r)
        PROVE  {"npol", "dnspol"} \subseteq made'[s]
    BY <2>1, <2>2 DEF Create, CanCreate, DeploymentInv
  <2>3. CASE UNCHANGED made
    BY <2>1, <2>3
  <2>4. QED
    BY <2>2, <2>3 DEF DeploymentStep, Await, StartPod, BecomeReady,
       deploymentVars
<1>3. QED
  BY <1>1, <1>2, DeploymentInvariant, PTL DEF DeploymentSpec

\* The label of a client is on MulVal's pods only.
LEMMA ClientsAreMulval ==
    ASSUME NEW e \in Endpoints, clientLabels \subseteq Labels(e)
    PROVE  \E t \in Stacks : e = <<t, "mulval">>
<1>1. Labels(e) # {}
  BY DEF clientLabels
<1>2. PICK t \in Stacks, part \in Parts : e = <<t, part>>
  BY <1>1, EndpointLabels
<1>3. CASE part \in {"pooler", "pg", "nats"}
  <2>1. Labels(e) \in {poolerPodLabels(t), pgPodLabels(t), natsPodLabels(t)}
    BY <1>2, <1>3, LabelsOfPods
  <2>2. QED
    BY <2>1 DEF clientLabels, poolerPodLabels, pgPodLabels, natsPodLabels,
       commonLabels
<1>4. QED
  BY <1>2, <1>3 DEF Parts

\* Whom the policies let into a pooler.
LEMMA PoolerIngress ==
    ASSUME NEW s \in Stacks, NEW p \in Policies, <<s, "pooler">> \in p.pods,
           "in" \in p.types, NEW e, <<e, 5432>> \in p.in
    PROVE  \/ Namespace(e) = OperatorNamespace
           \/ e \in Endpoints /\ Namespace(e) = NamespaceOf(s)
                /\ clientLabels \subseteq Labels(e)
<1>1. PICK t \in Stacks :
              \/ p = npol(t) \/ p = dnspol(t) \/ p = internetpol(t)
              \/ p = pgToAPI(t) \/ p = pgFromOperator(t)
              \/ p = pgFromPooler(t) \/ p = poolerToPg(t)
              \/ p = pgReplication(t) \/ p = poolerFromClient(t)
              \/ p = mvToPgsqlAndNats(t) \/ p = natsFromMv(t) \/ p = expose(t)
  BY EachPolicy
<1>2. p \notin {npol(t), dnspol(t), internetpol(t), pgToAPI(t),
                poolerToPg(t), mvToPgsqlAndNats(t)}
  BY DEF npol, dnspol, internetpol, pgToAPI, poolerToPg, mvToPgsqlAndNats,
     Egress
<1>3. CASE p = pgFromOperator(t)
  BY <1>3 DEF pgFromOperator, Ingress
<1>4. p \notin {pgFromPooler(t), pgReplication(t), natsFromMv(t), expose(t)}
  BY LabelsSelectOne DEF pgFromPooler, pgReplication, natsFromMv, expose,
     Ingress, Select
<1>5. CASE p = poolerFromClient(t)
  <2>1. s = t
    BY <1>5, LabelsSelectOne DEF poolerFromClient, Ingress, Select
  <2>2. QED
    BY <1>5, <2>1 DEF poolerFromClient, Ingress, Select
<1>6. QED
  BY <1>1, <1>2, <1>3, <1>4, <1>5

\* Which pooler they let MulVal out to.
LEMMA MulvalEgress ==
    ASSUME NEW s \in Stacks, NEW t \in Stacks, NEW p \in Policies,
           <<t, "mulval">> \in p.pods, "out" \in p.types,
           <<<<s, "pooler">>, 5432>> \in p.out
    PROVE  s = t
<1>1. PICK u \in Stacks :
              \/ p = npol(u) \/ p = dnspol(u) \/ p = internetpol(u)
              \/ p = pgToAPI(u) \/ p = pgFromOperator(u)
              \/ p = pgFromPooler(u) \/ p = poolerToPg(u)
              \/ p = pgReplication(u) \/ p = poolerFromClient(u)
              \/ p = mvToPgsqlAndNats(u) \/ p = natsFromMv(u) \/ p = expose(u)
  BY EachPolicy
<1>2. p \notin {npol(u), pgFromOperator(u), pgFromPooler(u),
                poolerFromClient(u), natsFromMv(u), expose(u)}
  BY DEF npol, pgFromOperator, pgFromPooler, poolerFromClient, natsFromMv,
     expose, Ingress
<1>3. p \notin {dnspol(u), internetpol(u)}
  BY DEF dnspol, internetpol, Egress, Dns, Outside
<1>4. p \notin {poolerToPg(u), pgReplication(u)}
  BY LabelsSelectOne DEF poolerToPg, pgReplication, Egress, Select
<1>5. p # pgToAPI(u)
  <2>1. <<"stack-name", u>> \notin Labels(<<t, "mulval">>)
    <3>1. Labels(<<t, "mulval">>) = mulvalPodLabels(t)
      BY DEF Labels
    <3>2. QED
      BY <3>1 DEF mulvalPodLabels, clientLabels
  <2>2. <<t, "mulval">> \notin Select(u, commonLabels(u))
    BY <2>1 DEF Select, commonLabels
  <2>3. QED
    BY <2>2 DEF pgToAPI, Egress
<1>6. CASE p = mvToPgsqlAndNats(u)
  <2>1. t = u
    BY <1>6, LabelsSelectOne DEF mvToPgsqlAndNats, Egress, Select
  <2>2. <<s, "pooler">> \in Select(u, poolerPodLabels(u))
    BY <1>6 DEF mvToPgsqlAndNats, Egress
  <2>3. QED
    BY <2>1, <2>2, LabelsSelectOne DEF Select
<1>7. QED
  BY <1>1, <1>2, <1>3, <1>4, <1>5, <1>6

\* Of any number of stacks in a namespace that denies traffic by default, none
\* reaches the pooler of another, however far each has been created; unless the
\* operator has the same namespace.
THEOREM PoolersAreApart == DeploymentSpec => []SameStackClients
<1>1. DeploymentInv /\ StaysHardened => SameStackClients
  <2> SUFFICES ASSUME DeploymentInv, StaysHardened, Hardened, NEW s \in Stacks,
                      <<s, "pooler">> \in pods, NEW e \in pods \cup Others,
                      CanConnect(e, <<s, "pooler">>, 5432)
               PROVE  e = <<s, "mulval">> \/ Namespace(e) = OperatorNamespace
    BY DEF SameStackClients
  <2>1. "poolerFromClient" \in made[s]
    <3>1. "pooler" \in made[s]
      <4>1. "pooler" \in Parts /\ Runs["pooler"] = "pooler"
        BY DEF Parts, Runs
      <4>2. QED
        BY <4>1 DEF DeploymentInv
    <3>2. "pooler" \in Resources(s)
      BY DEF Resources
    <3>3. "poolerFromClient" \in Needs("pooler")
      BY DEF Needs, NeededBy, DependsOn, DatabaseParts
    <3>4. QED
      BY <3>1, <3>2, <3>3 DEF DeploymentInv
  <2>2. poolerFromClient(s) \in Selecting(<<s, "pooler">>, "in")
    <3>1. <<s, "pooler">> \in poolerFromClient(s).pods
      <4>1. "pooler" \in Parts
        BY DEF Parts
      <4>2. /\ <<s, "pooler">> \in Endpoints
            /\ Namespace(<<s, "pooler">>) = NamespaceOf(s)
            /\ Labels(<<s, "pooler">>) = poolerPodLabels(s)
        BY <4>1, PodsAreSelected DEF Labels
      <4>3. QED
        BY <4>2 DEF poolerFromClient, Ingress, Select
    <3>2. poolerFromClient(s) \in Policies
      BY DEF Policies
    <3>3. QED
      BY <2>1, <3>1, <3>2 DEF Selecting, poolerFromClient, Ingress
  <2>3. PICK p \in Selecting(<<s, "pooler">>, "in") : <<e, 5432>> \in p.in
    BY <2>2 DEF CanConnect, Enters
  <2>4. CASE Namespace(e) # OperatorNamespace
    <3>1. /\ e \in Endpoints /\ Namespace(e) = NamespaceOf(s)
          /\ clientLabels \subseteq Labels(e)
      BY <2>3, <2>4, PoolerIngress DEF Selecting
    <3>2. PICK t \in Stacks : e = <<t, "mulval">>
      BY <3>1, ClientsAreMulval
    <3>3. SUFFICES ASSUME s # t PROVE FALSE
      BY <3>2
    <3>4. NamespaceOf(t) = NamespaceOf(s)
      <4>1. "mulval" \in Parts
        BY DEF Parts
      <4>2. QED
        BY <3>1, <3>2, <4>1, PodsAreSelected
    <3>5. t \in Given
      BY <3>3, <3>4 DEF NamespaceOf
    <3>6. npol(t) \in Selecting(e, "out")
      <4>1. "npol" \in made[t]
        BY <3>5 DEF StaysHardened
      <4>2. e \in Select(t, {})
        BY <3>1, <3>4 DEF Select
      <4>3. QED
        <5>1. npol(t) \in Policies
          BY DEF Policies
        <5>2. /\ npol(t).pods = Select(t, {}) /\ "out" \in npol(t).types
              /\ npol(t).name = "npol" /\ npol(t).stack = t
          BY DEF npol
        <5>3. QED
          BY <4>1, <4>2, <5>1, <5>2 DEF Selecting
    <3>7. PICK q \in Selecting(e, "out") : <<<<s, "pooler">>, 5432>> \in q.out
      BY <3>6 DEF CanConnect, Leaves
    <3>8. QED
      BY <3>2, <3>3, <3>7, MulvalEgress DEF Selecting
  <2>5. QED
    BY <2>4
<1>2. QED
  BY <1>1, DeploymentInvariant, HardenedStays, PTL

----------------------------------------------------------------------------
(* A deployment goes on until it is complete *)

\* Policies select pods in the namespaces of stacks; what the cluster runs
\* itself is in none of them, nor is the operator if it has its own.
LEMMA ClusterIsFree ==
    ASSUME NEW f \in {Dns, ApiServer, Operator}, NEW p \in Policies,
           f = Operator => ~OperatorInGiven
    PROVE  f \notin p.pods
<1>1. PICK t \in Stacks :
              \/ p = npol(t) \/ p = dnspol(t) \/ p = internetpol(t)
              \/ p = pgToAPI(t) \/ p = pgFromOperator(t)
              \/ p = pgFromPooler(t) \/ p = poolerToPg(t)
              \/ p = pgReplication(t) \/ p = poolerFromClient(t)
              \/ p = mvToPgsqlAndNats(t) \/ p = natsFromMv(t) \/ p = expose(t)
  BY EachPolicy
<1>2. \A e \in p.pods : Namespace(e) = NamespaceOf(t)
  BY <1>1 DEF npol, dnspol, internetpol, pgToAPI, pgFromOperator,
     pgFromPooler, poolerToPg, pgReplication, poolerFromClient,
     mvToPgsqlAndNats, natsFromMv, expose, Ingress, Egress, Select
<1>3. Namespace(f) = f
  <2>1. f \notin Pod
    BY DEF Pod, Parts, Dns, ApiServer, Operator
  <2>2. f # Tenant
    BY DEF Dns, ApiServer, Operator, Tenant
  <2>3. CASE f = Operator
    <3>1. OperatorNamespace = f
      BY <2>3 DEF OperatorNamespace
    <3>2. QED
      BY <2>1, <2>2, <2>3, <3>1 DEF Namespace
  <2>4. CASE f # Operator
    <3>1. f # Colleague
      BY <2>4 DEF Dns, ApiServer, Colleague
    <3>2. QED
      BY <2>1, <2>2, <2>4, <3>1 DEF Namespace
  <2>5. QED
    BY <2>3, <2>4
<1>4. f # NamespaceOf(t)
  BY DEF NamespaceOf, Dns, ApiServer, Operator
<1>5. QED
  BY <1>2, <1>3, <1>4

\* Nothing keeps the cluster from being asked, or from asking.
LEMMA ClusterConnects ==
    ASSUME NEW f \in {Dns, ApiServer, Operator}, NEW e, NEW port,
           f = Operator => ~OperatorInGiven
    PROVE  Enters(e, f, port) /\ Leaves(f, e, port)
<1>1. Selecting(f, "in") = {} /\ Selecting(f, "out") = {}
  BY ClusterIsFree DEF Selecting
<1>2. QED
  BY <1>1 DEF Enters, Leaves

\* One policy that exists is enough to let a connection out, or in.
LetsOut(p, e, f, port) ==
    /\ p \in Policies /\ p.name \in made[p.stack]
    /\ e \in p.pods /\ "out" \in p.types /\ <<f, port>> \in p.out

LetsIn(p, e, f, port) ==
    /\ p \in Policies /\ p.name \in made[p.stack]
    /\ f \in p.pods /\ "in" \in p.types /\ <<e, port>> \in p.in

LEMMA OneIsEnough ==
    ASSUME NEW p, NEW e, NEW f, NEW port
    PROVE  /\ LetsOut(p, e, f, port) => Leaves(e, f, port)
           /\ LetsIn(p, e, f, port) => Enters(e, f, port)
<1>1. ASSUME LetsOut(p, e, f, port) PROVE Leaves(e, f, port)
  BY <1>1 DEF LetsOut, Leaves, Selecting
<1>2. ASSUME LetsIn(p, e, f, port) PROVE Enters(e, f, port)
  BY <1>2 DEF LetsIn, Enters, Selecting
<1>3. QED
  BY <1>1, <1>2

\* The pods of a stack among those that its policies are about.
LEMMA Selected ==
    ASSUME NEW s \in Stacks
    PROVE  /\ \A part \in Parts : <<s, part>> \in Select(s, {})
           /\ <<s, "pg">> \in Select(s, commonLabels(s))
           /\ <<s, "pooler">> \in Select(s, commonLabels(s))
           /\ <<s, "pg">> \in Select(s, pgPodLabels(s))
           /\ <<s, "pooler">> \in Select(s, poolerPodLabels(s))
           /\ <<s, "nats">> \in Select(s, natsPodLabels(s))
           /\ <<s, "mulval">> \in Select(s, mulvalPodLabels(s))
           /\ <<s, "mulval">> \in Select(s, clientLabels)
<1>1. \A part \in Parts : /\ <<s, part>> \in Endpoints
                          /\ Namespace(<<s, part>>) = NamespaceOf(s)
  BY PodsAreSelected
<1>2. {"pg", "pooler", "nats", "mulval"} = Parts
  BY DEF Parts
<1>3. /\ commonLabels(s) \subseteq pgPodLabels(s)
      /\ commonLabels(s) \subseteq poolerPodLabels(s)
      /\ clientLabels \subseteq mulvalPodLabels(s)
  BY DEF pgPodLabels, poolerPodLabels, mulvalPodLabels
<1>4. QED
  BY <1>1, <1>2, <1>3, LabelsOfPods DEF Select

\* A pod that may ask the DNS gets its answer.
LEMMA PodsResolve ==
    ASSUME NEW s \in Stacks, "dnspol" \in made[s], NEW part \in Parts
    PROVE  Resolves(<<s, part>>)
<1>1. dnspol(s) \in Policies
  BY DEF Policies
<1>2. LetsOut(dnspol(s), <<s, part>>, Dns, 53)
  BY <1>1, Selected DEF LetsOut, dnspol, Egress
<1>3. Leaves(<<s, part>>, Dns, 53)
  BY <1>2, OneIsEnough
<1>4. Enters(<<s, part>>, Dns, 53)
  <2>1. Dns # Operator
    BY DEF Dns, Operator
  <2>2. QED
    BY <2>1, ClusterConnects
<1>5. QED
  BY <1>3, <1>4 DEF Resolves, CanConnect

\* The policies that let the parts of a stack reach each other, one for each
\* end of a connection.
LEMMA DatabaseAsks ==
    ASSUME NEW s \in Stacks, "pgToAPI" \in made[s],
           NEW part, part = "pg" \/ part = "pooler"
    PROVE  LetsOut(pgToAPI(s), <<s, part>>, ApiServer, 6443)
<1>1. pgToAPI(s) \in Policies
  BY DEF Policies
<1>2. /\ pgToAPI(s).name = "pgToAPI" /\ pgToAPI(s).stack = s
      /\ pgToAPI(s).types = {"out"}
      /\ pgToAPI(s).pods = Select(s, commonLabels(s))
  BY DEF pgToAPI, Egress
<1>3. <<ApiServer, 6443>> \in pgToAPI(s).out
  BY DEF pgToAPI, Egress, ServerPorts
<1>4. <<s, part>> \in Select(s, commonLabels(s))
  BY Selected
<1>5. <<s, part>> \in pgToAPI(s).pods /\ "out" \in pgToAPI(s).types
  BY <1>2, <1>4
<1>6. QED
  BY <1>1, <1>2, <1>3, <1>5 DEF LetsOut

LEMMA OperatorAsks ==
    ASSUME NEW s \in Stacks, "pgFromOperator" \in made[s]
    PROVE  LetsIn(pgFromOperator(s), Operator, <<s, "pg">>, 8000)
<1>1. pgFromOperator(s) \in Policies
  BY DEF Policies
<1>2. /\ pgFromOperator(s).name = "pgFromOperator"
      /\ pgFromOperator(s).stack = s
      /\ pgFromOperator(s).types = {"in"}
      /\ pgFromOperator(s).pods = Select(s, commonLabels(s))
  BY DEF pgFromOperator, Ingress
<1>3. <<Operator, 8000>> \in pgFromOperator(s).in
  <2>1. Operator \in Endpoints
    BY DEF Operator, Endpoints, Others
  <2>2. Namespace(Operator) = OperatorNamespace
    <3>1. Operator \notin Pod /\ Operator # Tenant
      BY DEF Operator, Tenant, Pod, Parts
    <3>2. QED
      BY <3>1 DEF Namespace
  <2>3. 8000 \in DatabasePorts
    BY DEF DatabasePorts
  <2>4. pgFromOperator(s).in =
           {e \in Endpoints : Namespace(e) = OperatorNamespace}
              \X DatabasePorts
    BY DEF pgFromOperator, Ingress
  <2>5. QED
    BY <2>1, <2>2, <2>3, <2>4
<1>4. <<s, "pg">> \in Select(s, commonLabels(s))
  BY Selected
<1>5. <<s, "pg">> \in pgFromOperator(s).pods /\ "in" \in pgFromOperator(s).types
  BY <1>2, <1>4
<1>6. QED
  BY <1>1, <1>2, <1>3, <1>5 DEF LetsIn

LEMMA PoolerAsksPg ==
    ASSUME NEW s \in Stacks, "poolerToPg" \in made[s]
    PROVE  LetsOut(poolerToPg(s), <<s, "pooler">>, <<s, "pg">>, 5432)
<1>1. poolerToPg(s) \in Policies
  BY DEF Policies
<1>2. /\ poolerToPg(s).name = "poolerToPg"
      /\ poolerToPg(s).stack = s
      /\ poolerToPg(s).types = {"out"}
      /\ poolerToPg(s).pods = Select(s, poolerPodLabels(s))
      /\ poolerToPg(s).out = Select(s, pgPodLabels(s)) \X {5432}
  BY DEF poolerToPg, Egress
<1>3. <<s, "pg">> \in Select(s, pgPodLabels(s))
  BY Selected
<1>4. <<<<s, "pg">>, 5432>> \in poolerToPg(s).out
  BY <1>2, <1>3
<1>5. <<s, "pooler">> \in Select(s, poolerPodLabels(s))
  BY Selected
<1>6. <<s, "pooler">> \in poolerToPg(s).pods /\ "out" \in poolerToPg(s).types
  BY <1>2, <1>5
<1>7. QED
  BY <1>1, <1>2, <1>4, <1>6 DEF LetsOut

LEMMA PgAnswersPooler ==
    ASSUME NEW s \in Stacks, "pgFromPooler" \in made[s]
    PROVE  LetsIn(pgFromPooler(s), <<s, "pooler">>, <<s, "pg">>, 5432)
<1>1. pgFromPooler(s) \in Policies
  BY DEF Policies
<1>2. /\ pgFromPooler(s).name = "pgFromPooler"
      /\ pgFromPooler(s).stack = s
      /\ pgFromPooler(s).types = {"in"}
      /\ pgFromPooler(s).pods = Select(s, pgPodLabels(s))
      /\ pgFromPooler(s).in = Select(s, poolerPodLabels(s)) \X {5432}
  BY DEF pgFromPooler, Ingress
<1>3. <<s, "pooler">> \in Select(s, poolerPodLabels(s))
  BY Selected
<1>4. <<<<s, "pooler">>, 5432>> \in pgFromPooler(s).in
  BY <1>2, <1>3
<1>5. <<s, "pg">> \in Select(s, pgPodLabels(s))
  BY Selected
<1>6. <<s, "pg">> \in pgFromPooler(s).pods /\ "in" \in pgFromPooler(s).types
  BY <1>2, <1>5
<1>7. QED
  BY <1>1, <1>2, <1>4, <1>6 DEF LetsIn

LEMMA PoolerAnswersMulval ==
    ASSUME NEW s \in Stacks, "poolerFromClient" \in made[s]
    PROVE  LetsIn(poolerFromClient(s), <<s, "mulval">>, <<s, "pooler">>, 5432)
<1>1. poolerFromClient(s) \in Policies
  BY DEF Policies
<1>2. /\ poolerFromClient(s).name = "poolerFromClient"
      /\ poolerFromClient(s).stack = s
      /\ poolerFromClient(s).types = {"in"}
      /\ poolerFromClient(s).pods = Select(s, poolerPodLabels(s))
      /\ poolerFromClient(s).in = Select(s, clientLabels) \X {5432}
  BY DEF poolerFromClient, Ingress
<1>3. <<s, "mulval">> \in Select(s, clientLabels)
  BY Selected
<1>4. <<<<s, "mulval">>, 5432>> \in poolerFromClient(s).in
  BY <1>2, <1>3
<1>5. <<s, "pooler">> \in Select(s, poolerPodLabels(s))
  BY Selected
<1>6. /\ <<s, "pooler">> \in poolerFromClient(s).pods
      /\ "in" \in poolerFromClient(s).types
  BY <1>2, <1>5
<1>7. QED
  BY <1>1, <1>2, <1>4, <1>6 DEF LetsIn

LEMMA NatsAnswersMulval ==
    ASSUME NEW s \in Stacks, "natsFromMv" \in made[s]
    PROVE  LetsIn(natsFromMv(s), <<s, "mulval">>, <<s, "nats">>, 4222)
<1>1. natsFromMv(s) \in Policies
  BY DEF Policies
<1>2. /\ natsFromMv(s).name = "natsFromMv"
      /\ natsFromMv(s).stack = s
      /\ natsFromMv(s).types = {"in"}
      /\ natsFromMv(s).pods = Select(s, natsPodLabels(s))
      /\ natsFromMv(s).in = Select(s, mulvalPodLabels(s)) \X {4222}
  BY DEF natsFromMv, Ingress
<1>3. <<s, "mulval">> \in Select(s, mulvalPodLabels(s))
  BY Selected
<1>4. <<<<s, "mulval">>, 4222>> \in natsFromMv(s).in
  BY <1>2, <1>3
<1>5. <<s, "nats">> \in Select(s, natsPodLabels(s))
  BY Selected
<1>6. <<s, "nats">> \in natsFromMv(s).pods /\ "in" \in natsFromMv(s).types
  BY <1>2, <1>5
<1>7. QED
  BY <1>1, <1>2, <1>4, <1>6 DEF LetsIn

LEMMA MulvalAsks ==
    ASSUME NEW s \in Stacks, "mvToPgsqlAndNats" \in made[s]
    PROVE  /\ LetsOut(mvToPgsqlAndNats(s),
                      <<s, "mulval">>, <<s, "pooler">>, 5432)
           /\ LetsOut(mvToPgsqlAndNats(s),
                      <<s, "mulval">>, <<s, "nats">>, 4222)
<1>1. mvToPgsqlAndNats(s) \in Policies
  BY DEF Policies
<1>2. /\ mvToPgsqlAndNats(s).name = "mvToPgsqlAndNats"
      /\ mvToPgsqlAndNats(s).stack = s
      /\ mvToPgsqlAndNats(s).types = {"out"}
      /\ mvToPgsqlAndNats(s).pods = Select(s, mulvalPodLabels(s))
      /\ mvToPgsqlAndNats(s).out =
            (Select(s, poolerPodLabels(s)) \X {5432})
              \cup (Select(s, natsPodLabels(s)) \X {4222})
  BY DEF mvToPgsqlAndNats, Egress
<1>3. <<s, "pooler">> \in Select(s, poolerPodLabels(s))
  BY Selected
<1>4. <<s, "nats">> \in Select(s, natsPodLabels(s))
  BY Selected
<1>5. <<<<s, "pooler">>, 5432>> \in mvToPgsqlAndNats(s).out
  BY <1>2, <1>3
<1>6. <<<<s, "nats">>, 4222>> \in mvToPgsqlAndNats(s).out
  BY <1>2, <1>4
<1>7. <<s, "mulval">> \in Select(s, mulvalPodLabels(s))
  BY Selected
<1>8. /\ <<s, "mulval">> \in mvToPgsqlAndNats(s).pods
      /\ "out" \in mvToPgsqlAndNats(s).types
  BY <1>2, <1>7
<1>9. QED
  BY <1>1, <1>2, <1>5, <1>6, <1>8 DEF LetsOut

\* What the database needs of the network, it has once its policies exist.
LEMMA DatabaseConnects ==
    ASSUME NEW s \in Stacks, DatabaseParts \subseteq made[s],
           "dnspol" \in made[s], ~OperatorInGiven,
           NEW part \in {"pg", "pooler"}
    PROVE  DatabaseWorks(s, part)
<1>1. {"pgToAPI", "pgFromOperator", "poolerToPg", "pgFromPooler"}
         \subseteq made[s]
  BY DEF DatabaseParts
<1>2. CanConnect(<<s, part>>, ApiServer, 6443)
  <2>1. "pgToAPI" \in made[s] /\ (part = "pg" \/ part = "pooler")
    BY <1>1
  <2>2. LetsOut(pgToAPI(s), <<s, part>>, ApiServer, 6443)
    BY <2>1, DatabaseAsks
  <2>3. Leaves(<<s, part>>, ApiServer, 6443)
    BY <2>2, OneIsEnough
  <2>4. Enters(<<s, part>>, ApiServer, 6443)
    <3>1. ApiServer # Operator
      BY DEF ApiServer, Operator
    <3>2. QED
      BY <3>1, ClusterConnects
  <2>5. QED
    BY <2>3, <2>4 DEF CanConnect
<1>3. CanConnect(Operator, <<s, "pg">>, 8000)
  <2>1. LetsIn(pgFromOperator(s), Operator, <<s, "pg">>, 8000)
    BY <1>1, OperatorAsks
  <2>2. Enters(Operator, <<s, "pg">>, 8000)
    BY <2>1, OneIsEnough
  <2>3. Leaves(Operator, <<s, "pg">>, 8000)
    BY ClusterConnects
  <2>4. QED
    BY <2>2, <2>3 DEF CanConnect
<1>4. CanConnect(<<s, "pooler">>, <<s, "pg">>, 5432)
  <2>1. LetsOut(poolerToPg(s), <<s, "pooler">>, <<s, "pg">>, 5432)
    BY <1>1, PoolerAsksPg
  <2>2. LetsIn(pgFromPooler(s), <<s, "pooler">>, <<s, "pg">>, 5432)
    BY <1>1, PgAnswersPooler
  <2>3. QED
    BY <2>1, <2>2, OneIsEnough DEF CanConnect
<1>5. Resolves(<<s, "pooler">>)
  BY PodsResolve DEF Parts
<1>6. QED
  BY <1>2, <1>3, <1>4, <1>5 DEF DatabaseWorks

\* And so does MulVal, when the others are ready.
LEMMA MulvalConnects ==
    ASSUME NEW s \in Stacks, "dnspol" \in made[s],
           {"poolerFromClient", "mvToPgsqlAndNats", "natsFromMv"}
              \subseteq made[s],
           {<<s, "pooler">>, <<s, "nats">>} \subseteq ready
    PROVE  MulvalWorks(s)
<1>1. CanConnect(<<s, "mulval">>, <<s, "pooler">>, 5432)
  <2>1. LetsOut(mvToPgsqlAndNats(s), <<s, "mulval">>, <<s, "pooler">>, 5432)
    BY MulvalAsks
  <2>2. LetsIn(poolerFromClient(s), <<s, "mulval">>, <<s, "pooler">>, 5432)
    BY PoolerAnswersMulval
  <2>3. QED
    BY <2>1, <2>2, OneIsEnough DEF CanConnect
<1>2. CanConnect(<<s, "mulval">>, <<s, "nats">>, 4222)
  <2>1. LetsOut(mvToPgsqlAndNats(s), <<s, "mulval">>, <<s, "nats">>, 4222)
    BY MulvalAsks
  <2>2. LetsIn(natsFromMv(s), <<s, "mulval">>, <<s, "nats">>, 4222)
    BY NatsAnswersMulval
  <2>3. QED
    BY <2>1, <2>2, OneIsEnough DEF CanConnect
<1>3. Resolves(<<s, "mulval">>)
  BY PodsResolve DEF Parts
<1>4. ReachesNats(s)
  BY <1>2 DEF ReachesNats
<1>5. QED
  BY <1>1, <1>3, <1>4 DEF MulvalWorks

\* Of a stack that does not go on: what needs nothing that is missing has been
\* created, and unless it is waited for, it is done; the chart, if no other
\* stack has its name.
LEMMA NothingToCreate ==
    ASSUME DeploymentInv, NEW s \in Stacks, ~GoesOn(s),
           NEW r \in Resources(s), Needs(r) \subseteq done[s],
           r = "chart" => ~ChartTaken(s)
    PROVE  r \in made[s] /\ (r \notin DOMAIN Awaited => r \in done[s])
<1>1. r \in made[s]
  BY DEF GoesOn, CanCreate
<1>2. QED
  BY <1>1 DEF DeploymentInv

\* A pod of which the resource exists runs, and one that runs is ready when it
\* has the connections that it needs.
LEMMA NothingToStart ==
    ASSUME NEW s \in Stacks, ~GoesOn(s), NEW part \in Parts,
           Runs[part] \in made[s],
           part = "pooler" => <<s, "pg">> \in ready,
           part \in {"pg", "pooler"} => DatabaseWorks(s, part),
           part = "mulval" => MulvalWorks(s)
    PROVE  <<s, part>> \in ready
<1>1. <<s, part>> \in pods
  BY DEF GoesOn, CanStart
<1>2. QED
  BY <1>1 DEF GoesOn, Works

\* What does not need the pods.
LEMMA InputsAreDone ==
    ASSUME DeploymentInv, NEW s \in Stacks, ~GoesOn(s)
    PROVE  /\ {"ns", "userPass", "cm", "mvToPgsqlAndNats", "natsFromMv"}
                 \cup DatabaseParts \subseteq done[s]
           /\ {"pooler", "cluster"} \subseteq done[s]
           /\ "dep" \in made[s]
           /\ ChartTaken(s) \/ "chart" \in made[s]
           /\ s \notin Given => NamespaceParts \subseteq done[s]
<1> USE DEF Awaited, Resources
<1>1. "ns" \in done[s] /\ "userPass" \in done[s]
  <2>1. Needs("ns") = {} /\ Needs("userPass") = {}
    BY DEF Needs, InNamespace, NeededBy, DependsOn, NeededByMulval, WithPassword
  <2>2. QED
    BY <2>1, NothingToCreate
<1>2. {"cm", "mvToPgsqlAndNats", "natsFromMv"} \cup DatabaseParts
         \subseteq done[s]
  <2>1. ASSUME NEW r \in {"cm", "mvToPgsqlAndNats", "natsFromMv"}
                            \cup DatabaseParts
        PROVE  Needs(r) \subseteq {"ns", "userPass"}
    BY DEF Needs, InNamespace, NeededBy, DependsOn, NeededByMulval,
       WithPassword, DatabaseParts
  <2>2. ASSUME NEW r \in {"cm", "mvToPgsqlAndNats", "natsFromMv"}
                            \cup DatabaseParts
        PROVE  r \in Resources(s) /\ r \notin DOMAIN Awaited
    BY DEF DatabaseParts
  <2>3. QED
    BY <1>1, <2>1, <2>2, NothingToCreate
<1>3. "pooler" \in done[s]
  <2>1. Needs("pooler") = {"ns"} \cup DatabaseParts
    BY DEF Needs, InNamespace, NeededBy, DependsOn, NeededByMulval, WithPassword
  <2>2. QED
    BY <1>1, <1>2, <2>1, NothingToCreate
<1>4. "cluster" \in done[s]
  <2>1. Needs("cluster") = {"ns", "pooler"} \cup DatabaseParts
    BY DEF Needs, InNamespace, NeededBy, DependsOn, NeededByMulval, WithPassword
  <2>2. QED
    BY <1>1, <1>2, <1>3, <2>1, NothingToCreate
<1>5. "dep" \in made[s] /\ (ChartTaken(s) \/ "chart" \in made[s])
  <2>1. Needs("chart") = {"ns"} /\ Needs("dep") = {"ns", "cm"}
    BY DEF Needs, InNamespace, NeededBy, DependsOn, NeededByMulval, WithPassword
  <2>2. QED
    BY <1>1, <1>2, <2>1, NothingToCreate
<1>6. ASSUME s \notin Given PROVE NamespaceParts \subseteq done[s]
  <2>1. ASSUME NEW r \in NamespaceParts
        PROVE  Needs(r) = {"ns"} /\ r \notin DOMAIN Awaited
    BY DEF NamespaceParts, Needs, InNamespace, NeededBy, DependsOn,
       NeededByMulval, WithPassword
  <2>2. QED
    BY <1>1, <1>6, <2>1, NothingToCreate
<1>7. QED
  BY <1>1, <1>2, <1>3, <1>4, <1>5, <1>6

\* So its pods get ready one after the other.
LEMMA PodsAreReady ==
    ASSUME DeploymentInv, NEW s \in Stacks, ~GoesOn(s), "dnspol" \in made[s],
           ~ChartTaken(s), ~OperatorInGiven
    PROVE  {<<s, "nats">>, <<s, "mulval">>} \subseteq ready
<1> USE DEF Runs, Parts
<1>1. done[s] \subseteq made[s]
  BY DEF DeploymentInv
<1>2. /\ DatabaseParts \subseteq made[s]
      /\ {"mvToPgsqlAndNats", "natsFromMv"} \subseteq made[s]
      /\ {"pooler", "cluster", "chart", "dep"} \subseteq made[s]
  BY <1>1, InputsAreDone
<1>3. <<s, "nats">> \in ready
  BY <1>2, NothingToStart
<1>4. <<s, "pg">> \in ready
  <2>1. DatabaseWorks(s, "pg")
    BY <1>2, DatabaseConnects
  <2>2. QED
    BY <1>2, <2>1, NothingToStart
<1>5. <<s, "pooler">> \in ready
  <2>1. DatabaseWorks(s, "pooler")
    BY <1>2, DatabaseConnects
  <2>2. QED
    BY <1>2, <1>4, <2>1, NothingToStart
<1>6. <<s, "mulval">> \in ready
  <2>1. {"poolerFromClient", "mvToPgsqlAndNats", "natsFromMv"} \subseteq made[s]
    BY <1>2 DEF DatabaseParts
  <2>2. MulvalWorks(s)
    BY <1>3, <1>5, <2>1, MulvalConnects
  <2>3. QED
    BY <1>2, <2>2, NothingToStart
<1>7. QED
  BY <1>3, <1>6

\* And then nothing is left to do.
LEMMA StopsWhenComplete ==
    ASSUME DeploymentInv, NEW s \in Stacks, ~GoesOn(s), "dnspol" \in made[s],
           ~ChartTaken(s), ~OperatorInGiven
    PROVE  Resources(s) \subseteq done[s]
<1> USE DEF Awaited
<1>1. "chart" \in done[s] /\ "dep" \in done[s]
  <2>1. {"chart", "dep"} \subseteq made[s] \cap Resources(s)
    BY InputsAreDone DEF Resources
  <2>2. Awaited["chart"] = "nats" /\ Awaited["dep"] = "mulval"
    OBVIOUS
  <2>3. QED
    BY <2>1, <2>2, PodsAreReady DEF GoesOn, IsAnswered
<1>2. "ns" \in done[s]
  BY InputsAreDone
<1>3. "svc" \in done[s]
  <2>1. Needs("svc") = {"ns", "dep"} /\ "svc" \in Resources(s)
    BY DEF Needs, InNamespace, NeededBy, DependsOn, NeededByMulval,
       WithPassword, Resources
  <2>2. QED
    BY <1>1, <1>2, <2>1, NothingToCreate
<1>4. Exposed => "expose" \in done[s]
  <2>1. /\ Needs("expose") = {"ns", "svc"}
        /\ Exposed => "expose" \in Resources(s)
    BY DEF Needs, InNamespace, NeededBy, DependsOn, NeededByMulval,
       WithPassword, Resources
  <2>2. QED
    BY <1>2, <1>3, <2>1, NothingToCreate
<1>5. Resources(s) \subseteq done[s]
  BY <1>1, <1>3, <1>4, InputsAreDone DEF Resources
<1>6. QED
  BY <1>5

\* pulumi up never gets to a point where a stack waits for what cannot come,
\* unless another stack of the namespace has the name of its chart: the
\* safety half of UpCompletes, for every set of stacks and namespaces, if the
\* given one denies all traffic but DNS and the operator has another.
THEOREM UpNeverStuck == DeploymentSpec => []NeverStuck
<1>1. DeploymentInv /\ StaysHardened => NeverStuck
  <2> SUFFICES ASSUME DeploymentInv, StaysHardened, NEW s \in Stacks,
                      s \in Given => Hardened, ~OperatorInGiven, ~GoesOn(s)
               PROVE  Settled(s)
    BY DEF NeverStuck
  <2>1. "dnspol" \in made[s]
    <3>1. CASE s \in Given
      BY <3>1 DEF StaysHardened
    <3>2. CASE s \notin Given
      <4>1. NamespaceParts \subseteq done[s]
        BY <3>2, InputsAreDone
      <4>2. QED
        BY <4>1 DEF NamespaceParts, DeploymentInv
    <3>3. QED
      BY <3>1, <3>2
  <2>2. CASE ChartTaken(s)
    BY <2>2 DEF Settled
  <2>3. CASE ~ChartTaken(s)
    <3>1. Resources(s) \subseteq done[s]
      BY <2>1, <2>3, StopsWhenComplete
    <3>2. QED
      BY <3>1 DEF Settled
  <2>4. QED
    BY <2>2, <2>3
<1>2. QED
  BY <1>1, DeploymentInvariant, HardenedStays, PTL

============================================================================
