----------------------------- MODULE Deployment -----------------------------
(***************************************************************************)
(* deploy: pulumi up for the stacks of one cluster.  The engine creates a  *)
(* resource as soon as what it needs is there, in any order otherwise, and *)
(* Kubernetes starts the pods meanwhile; so which connections are possible *)
(* depends on the network policies that exist at the moment.               *)
(*                                                                         *)
(* A stack goes to a namespace it creates, or to the given one, which it   *)
(* shares with others and which may or may not deny traffic by itself.     *)
(* The NATS chart has one name for all stacks, so that of the stacks of a  *)
(* namespace the first has it, and the others fail.                        *)
(* Names of resources are those of the fields that hold them.              *)
(***************************************************************************)
EXTENDS Naturals

CONSTANTS
    Stacks,
    Given,      \* the stacks in the given namespace
    Beginnings, \* how far each stack has come at first
    Hardened,   \* the given namespace denies all traffic but DNS
    OperatorInGiven, \* it is also the namespace of the operator
    Exposed     \* the program is that of integration/, which exposes MulVal

\* Nothing exists, all but NATS and what waits for it, or everything.
Progress == {"absent", "chartless", "complete"}

ASSUME DeploymentAssumption ==
    /\ Given \subseteq Stacks
    /\ Beginnings \subseteq [Stacks -> Progress]
    /\ \A b \in Beginnings, s, t \in Given :
          b[s] = "complete" /\ b[t] = "complete" => s = t
    /\ {Hardened, OperatorInGiven, Exposed} \subseteq BOOLEAN

VARIABLES
    made,       \* the resources of each stack that exist
    done,       \* those the engine does not wait for any more
    pods,       \* the pods that run
    ready       \* those that are ready

deploymentVars == <<made, done, pods, ready>>

----------------------------------------------------------------------------
(* The network *)

ApiPort == 8080
ServerPorts == {53, 4222, 5432, 6443, 8000, ApiPort}

\* PostgreSQL itself, and the status of its instance manager.
DatabasePorts == {5432, 8000}

Parts == {"mulval", "pooler", "pg", "nats"}

Pod == Stacks \X Parts

\* Whoever else has an address: services of the cluster, another pod of the
\* operator's namespace, one of the given namespace, one of any other, and the
\* rest of the world.
Others == {"cluster"} \X {"operator", "colleague", "dns", "apiserver",
                          "tenant", "neighbour", "outside"}

Endpoints == Pod \cup Others

Operator  == <<"cluster", "operator">>
Colleague == <<"cluster", "colleague">>
Tenant    == <<"cluster", "tenant">>
Dns       == <<"cluster", "dns">>
ApiServer == <<"cluster", "apiserver">>
Outside   == <<"cluster", "outside">>

NamespaceOf(s) == IF s \in Given THEN <<"given">> ELSE <<"mulval", s>>

\* PostgresOperatorNamespace, "default" if nothing is configured.
OperatorNamespace == IF OperatorInGiven THEN <<"given">> ELSE Operator

Namespace(e) ==
    CASE e \in Pod                   -> NamespaceOf(e[1])
      [] e = Tenant                  -> <<"given">>
      [] e \in {Operator, Colleague} -> OperatorNamespace
      [] OTHER                       -> e

commonLabels(s) == {<<"part-of", "mulval">>, <<"stack-name", s>>}

poolerPodLabels(s) ==
    commonLabels(s) \cup {<<"component", "pooler">>, <<"name", "postgresql">>}

pgPodLabels(s) ==
    commonLabels(s) \cup {<<"component", "database">>, <<"name", "postgresql">>}

natsPodLabels(s) == commonLabels(s) \cup {<<"component", "nats">>}

clientLabels == {<<"postgresql-client", "true">>}

\* The second assignment to part-of wins.
mulvalPodLabels(s) ==
    clientLabels \cup {<<"name", "mulval">>, <<"component", "mulval">>,
                       <<"part-of", s>>}

Labels(e) ==
    CASE e[2] = "mulval" -> mulvalPodLabels(e[1])
      [] e[2] = "pooler" -> poolerPodLabels(e[1])
      [] e[2] = "pg"     -> pgPodLabels(e[1])
      [] e[2] = "nats"   -> natsPodLabels(e[1])
      [] OTHER           -> {}

----------------------------------------------------------------------------
(* Network policies.  A policy selects pods of its namespace; for them, only *)
(* the pairs of a peer and a port that some policy lists are let through.    *)

Select(s, labels) ==
    {e \in Endpoints : /\ Namespace(e) = NamespaceOf(s)
                       /\ labels \subseteq Labels(e)}

Ingress(name, s, selected, from) ==
    [name |-> name, stack |-> s, pods |-> selected, types |-> {"in"},
     in |-> from, out |-> {}]

Egress(name, s, selected, to) ==
    [name |-> name, stack |-> s, pods |-> selected, types |-> {"out"},
     in |-> {}, out |-> to]

npol(s) ==
    [name |-> "npol", stack |-> s, pods |-> Select(s, {}),
     types |-> {"in", "out"}, in |-> {}, out |-> {}]

dnspol(s) == Egress("dnspol", s, Select(s, {}), {<<Dns, 53>>})

\* Every address except the private ones.
internetpol(s) ==
    Egress("internetpol", s, Select(s, {}), {Outside} \X ServerPorts)

\* Two egress rules: the API server on any port, and any peer on port 6443.
pgToAPI(s) ==
    Egress("pgToAPI", s, Select(s, commonLabels(s)),
           ({ApiServer} \X ServerPorts) \cup (Endpoints \X {6443}))

\* The peer is a namespace, and every pod of it.
pgFromOperator(s) ==
    Ingress("pgFromOperator", s, Select(s, commonLabels(s)),
            {e \in Endpoints : Namespace(e) = OperatorNamespace}
               \X DatabasePorts)

pgFromPooler(s) ==
    Ingress("pgFromPooler", s, Select(s, pgPodLabels(s)),
            Select(s, poolerPodLabels(s)) \X {5432})

poolerToPg(s) ==
    Egress("poolerToPg", s, Select(s, poolerPodLabels(s)),
           Select(s, pgPodLabels(s)) \X {5432})

pgReplication(s) ==
    LET pg == Select(s, pgPodLabels(s)) IN
    [name |-> "pgReplication", stack |-> s, pods |-> pg,
     types |-> {"in", "out"},
     in |-> pg \X DatabasePorts, out |-> pg \X DatabasePorts]

poolerFromClient(s) ==
    Ingress("poolerFromClient", s, Select(s, poolerPodLabels(s)),
            Select(s, clientLabels) \X {5432})

\* A mutant of mvToPgsqlAndNats: the pooler is selected without its stack.
mvToAnyPgsqlAndNats(s) ==
    Egress("mvToPgsqlAndNats", s, Select(s, mulvalPodLabels(s)),
           (Select(s, {<<"component", "pooler">>}) \X {5432})
             \cup (Select(s, natsPodLabels(s)) \X {4222}))

mvToPgsqlAndNats(s) ==
    Egress("mvToPgsqlAndNats", s, Select(s, mulvalPodLabels(s)),
           (Select(s, poolerPodLabels(s)) \X {5432})
             \cup (Select(s, natsPodLabels(s)) \X {4222}))

\* A mutant of natsFromMv: the rule has a port and no peer.
natsFromAnyone(s) ==
    Ingress("natsFromMv", s, Select(s, natsPodLabels(s)), Endpoints \X {4222})

natsFromMv(s) ==
    Ingress("natsFromMv", s, Select(s, natsPodLabels(s)),
            Select(s, mulvalPodLabels(s)) \X {4222})

expose(s) ==
    Ingress("expose", s, Select(s, mulvalPodLabels(s)), Endpoints \X {ApiPort})

Policies == UNION {{npol(s), dnspol(s), internetpol(s), pgToAPI(s),
                    pgFromOperator(s), pgFromPooler(s), poolerToPg(s),
                    pgReplication(s), poolerFromClient(s),
                    mvToPgsqlAndNats(s), natsFromMv(s), expose(s)} :
                       s \in Stacks}

\* The policies of a type that exist and select an endpoint.
Selecting(e, type) ==
    {p \in Policies : /\ e \in p.pods
                      /\ type \in p.types
                      /\ p.name \in made[p.stack]}

Leaves(e, f, port) ==
    LET out == Selecting(e, "out")
    IN  out = {} \/ \E p \in out : <<f, port>> \in p.out

Enters(e, f, port) ==
    LET in == Selecting(f, "in")
    IN  in = {} \/ \E p \in in : <<e, port>> \in p.in

\* A connection has to enter its destination and to leave its source.
CanConnect(e, f, port) == Enters(e, f, port) /\ Leaves(e, f, port)

----------------------------------------------------------------------------
(* Resources and what each of them needs *)

NamespaceParts == {"npol", "dnspol", "internetpol"}

DatabaseParts == {"userSec", "pgToAPI", "poolerFromClient", "poolerToPg",
                  "pgFromPooler", "pgReplication", "pgFromOperator"}

Resources(s) ==
    {"ns", "userPass", "pooler", "cluster", "chart", "cm", "dep", "svc",
     "mvToPgsqlAndNats", "natsFromMv"} \cup DatabaseParts
    \cup (IF s \in Given THEN {} ELSE NamespaceParts)
    \cup (IF Exposed THEN {"expose"} ELSE {})

AllResources ==
    NamespaceParts \cup UNION {Resources(s) : s \in Stacks}

\* A mutant of DependsOn: nothing but the inputs orders the resources.
DependsOnNothing(r) == {}

\* pulumi.DependsOn: the policies come first.
DependsOn(r) ==
    CASE r = "cluster" -> DatabaseParts \cup {"pooler"}
      [] r = "pooler"  -> DatabaseParts
      [] OTHER         -> {}

\* The secret and the endpoint of the database are made of the password.
WithPassword == {"userSec", "cm", "mvToPgsqlAndNats"}

\* A mutant of NeededByMulval: the labels are those of the deployment.
NeededByPolicies(r) ==
    CASE r = "dep" -> {"cm"}
      [] r \in {"svc", "mvToPgsqlAndNats", "natsFromMv"} -> {"dep"}
      [] r = "expose" -> {"svc"}
      [] OTHER -> {}

\* The deployment mounts the config map, and the service takes its selector
\* from the deployment.  The policies have the labels without it.
NeededByMulval(r) ==
    CASE r = "dep"    -> {"cm"}
      [] r = "svc"    -> {"dep"}
      [] r = "expose" -> {"svc"}
      [] OTHER        -> {}

NeededBy(r) == DependsOn(r) \cup NeededByMulval(r)
                 \cup (IF r \in WithPassword THEN {"userPass"} ELSE {})

\* Everything but the password is put into the namespace.
InNamespace(r) == IF r \in {"ns", "userPass"} THEN {} ELSE {"ns"}

Needs(r) == InNamespace(r) \cup NeededBy(r)

\* The engine waits until the pods of these are ready.
Awaited == [dep |-> "mulval", chart |-> "nats"]

\* Which resource runs which pods.
Runs == [mulval |-> "dep", nats |-> "chart", pg |-> "cluster",
         pooler |-> "pooler"]

\* What the given namespace has before the first stack.
Present(s) ==
    IF s \notin Given THEN {}
    ELSE {"ns"} \cup (IF Hardened THEN {"npol", "dnspol"} ELSE {})

\* MulVal gets ready with NATS, and the rest is behind MulVal.
WaitsForNats == {"chart", "dep", "svc", "expose"}

MadeFirst(s, progress) ==
    CASE progress = "complete"  -> Resources(s)
      [] progress = "chartless" -> Resources(s) \ {"chart", "svc", "expose"}
      [] progress = "absent"    -> {}

DoneFirst(s, progress) ==
    CASE progress = "complete"  -> Resources(s)
      [] progress = "chartless" -> Resources(s) \ WaitsForNats
      [] progress = "absent"    -> Present(s) \cap {"ns"}

DeploymentInit ==
    \E b \in Beginnings :
        /\ made = [s \in Stacks |-> Present(s) \cup MadeFirst(s, b[s])]
        /\ done = [s \in Stacks |-> DoneFirst(s, b[s])]
        /\ pods = {e \in Pod : Runs[e[2]] \in MadeFirst(e[1], b[e[1]])}
        /\ ready = {e \in Pod : Runs[e[2]] \in DoneFirst(e[1], b[e[1]])}

\* A mutant of Create: nothing is waited for.
CreateAtOnce(s, r) ==
    /\ r \in Resources(s) \ made[s]
    /\ made' = [made EXCEPT ![s] = @ \cup {r}]
    /\ done' = IF r \in DOMAIN Awaited THEN done
               ELSE [done EXCEPT ![s] = @ \cup {r}]
    /\ UNCHANGED <<pods, ready>>

\* The release is "nats-chart" in every stack, and its service
\* "nats-chart-headless": a second one conflicts with what exists, and the
\* update fails.  It stops then, with some of its other resources created.
ChartTaken(s) ==
    \E t \in Stacks \ {s} : /\ NamespaceOf(t) = NamespaceOf(s)
                            /\ "chart" \in made[t]

CanCreate(s, r) ==
    /\ r \in Resources(s) \ made[s]
    /\ Needs(r) \subseteq done[s]
    /\ r = "chart" => ~ChartTaken(s)

Create(s, r) ==
    /\ CanCreate(s, r)
    /\ made' = [made EXCEPT ![s] = @ \cup {r}]
    /\ done' = IF r \in DOMAIN Awaited THEN done
               ELSE [done EXCEPT ![s] = @ \cup {r}]
    /\ UNCHANGED <<pods, ready>>

IsAnswered(s, r) ==
    /\ r \in made[s] \ done[s]
    /\ r \in DOMAIN Awaited
    /\ <<s, Awaited[r]>> \in ready

Await(s, r) ==
    /\ IsAnswered(s, r)
    /\ done' = [done EXCEPT ![s] = @ \cup {r}]
    /\ UNCHANGED <<made, pods, ready>>

----------------------------------------------------------------------------
(* Kubernetes and the operator *)

\* The operator starts the pooler when its cluster is there.
CanStart(s, part) ==
    /\ <<s, part>> \notin pods
    /\ Runs[part] \in made[s]
    /\ part = "pooler" => <<s, "pg">> \in ready

StartPod(s, part) ==
    /\ CanStart(s, part)
    /\ pods' = pods \cup {<<s, part>>}
    /\ UNCHANGED <<made, done, ready>>

Resolves(e) == CanConnect(e, Dns, 53)

\* The instance manager talks to the API server, the operator polls the status.
DatabaseWorks(s, part) ==
    /\ CanConnect(<<s, part>>, ApiServer, 6443)
    /\ IF part = "pg" THEN CanConnect(Operator, <<s, "pg">>, 8000)
       ELSE /\ Resolves(<<s, "pooler">>)
            /\ CanConnect(<<s, "pooler">>, <<s, "pg">>, 5432)

\* The endpoint that MulVal is given for NATS, whichever stack of the namespace
\* has it.
ReachesNats(s) ==
    \E t \in Stacks : /\ NamespaceOf(t) = NamespaceOf(s)
                      /\ <<t, "nats">> \in ready
                      /\ CanConnect(<<s, "mulval">>, <<t, "nats">>, 4222)

\* The probe is /healthcheck, which main.run serves when it has migrated the
\* database and provisioned the streams of its configuration.
MulvalWorks(s) ==
    /\ Resolves(<<s, "mulval">>)
    /\ CanConnect(<<s, "mulval">>, <<s, "pooler">>, 5432)
    /\ <<s, "pooler">> \in ready
    /\ ReachesNats(s)

Works(s, part) ==
    /\ <<s, part>> \in pods \ ready
    /\ part \in {"pg", "pooler"} => DatabaseWorks(s, part)
    /\ part = "mulval" => MulvalWorks(s)

BecomeReady(s, part) ==
    /\ Works(s, part)
    /\ ready' = ready \cup {<<s, part>>}
    /\ UNCHANGED <<made, done, pods>>

DeploymentStep ==
    \E s \in Stacks :
       \/ \E r \in Resources(s) : Create(s, r) \/ Await(s, r)
       \/ \E part \in Parts : StartPod(s, part) \/ BecomeReady(s, part)

DeploymentSpec == DeploymentInit /\ [][DeploymentStep]_deploymentVars

\* The engine and the cluster carry on.
FairDeploymentSpec == DeploymentSpec /\ WF_deploymentVars(DeploymentStep)

----------------------------------------------------------------------------
(* Properties *)

\* From the moment it runs, a PostgreSQL pod is reached by nobody but the
\* pooler, the pods of its own cluster and those of the operator's namespace,
\* whichever these are: the policies are there before it, in every order of
\* creation and in every namespace.
DatabaseGuarded ==
    \A s \in Stacks : <<s, "pg">> \in pods =>
        \A e \in Endpoints, port \in DatabasePorts :
            CanConnect(e, <<s, "pg">>, port) =>
                \/ e \in {<<s, "pg">>, <<s, "pooler">>}
                \/ Namespace(e) = OperatorNamespace

\* Where all traffic is denied by default, only MulVal of the same stack reaches
\* NATS, however far each stack has been created.
NatsGuarded ==
    \A s \in Stacks : "npol" \in made[s] =>
        \A e \in Endpoints :
            CanConnect(e, <<s, "nats">>, 4222) => e = <<s, "mulval">>

\* Everything is done, or another stack of the namespace has the name of the
\* chart, and then the update fails.
Settled(s) == ChartTaken(s) \/ Resources(s) \subseteq done[s]

\* pulumi up comes to its end with MulVal ready, for the stack of each namespace
\* that is the first to create its chart: nothing that the readiness of the
\* deployment needs is created after it.
UpCompletes == <>(\A s \in Stacks : Settled(s))

GoesOn(s) ==
    \/ \E r \in Resources(s) : CanCreate(s, r) \/ IsAnswered(s, r)
    \/ \E part \in Parts : CanStart(s, part) \/ Works(s, part)

\* The safety half of UpCompletes: a stack that is not settled can go on by
\* itself, whatever the other stacks have come to, because no order of creation
\* leaves a pod without the connections it needs; if its namespace is its own, or
\* the given one denies all traffic but DNS, and the operator has another one.
NeverStuck ==
    \A s \in Stacks :
        (s \in Given => Hardened) /\ ~OperatorInGiven => Settled(s) \/ GoesOn(s)

\* postgresql.go: "Allows clients from the same stack to pooler".  Of two
\* stacks that share a namespace, neither reaches the other's pooler, provided
\* that the namespace denies all traffic by default.  Whoever is in the
\* operator's namespace is let in.
SameStackClients ==
    Hardened =>
        \A s \in Stacks : <<s, "pooler">> \in pods =>
            \A e \in pods \cup Others :
                CanConnect(e, <<s, "pooler">>, 5432) =>
                    \/ e = <<s, "mulval">>
                    \/ Namespace(e) = OperatorNamespace

\* The inductive invariant: what runs was created after all that it needs.
DeploymentInv ==
    /\ made \in [Stacks -> SUBSET AllResources]
    /\ done \in [Stacks -> SUBSET AllResources]
    /\ pods \subseteq Pod /\ ready \subseteq pods
    /\ \A s \in Stacks :
          /\ done[s] \subseteq made[s] \cap Resources(s)
          /\ made[s] \cap Resources(s) \subseteq done[s] \cup DOMAIN Awaited
          /\ \A r \in made[s] \cap Resources(s) : Needs(r) \subseteq done[s]
          /\ \A part \in Parts : <<s, part>> \in pods => Runs[part] \in made[s]
============================================================================
