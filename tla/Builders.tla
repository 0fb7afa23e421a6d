------------------------------- MODULE Builders -------------------------------
(***************************************************************************)
(* What the builders accept, and what they make of it: GraphBuilder and    *)
(* ActorSet of tokio-actor, SupervisorBuilder of tokio-supervisor and      *)
(* SupervisedActors of tokio-otp.  They are pure: a builder is a record of *)
(* the values its methods were given, in the order they were given, and    *)
(* build returns an outcome.  The other modules start from what is built.  *)
(***************************************************************************)
EXTENDS Integers, Sequences

CONSTANTS
  Ids,      \* the strings that name actors, children and ingresses
  Empty,    \* the empty one
  Limits,   \* what a graph only hands on: sizes, blocking tasks and timeouts
  Shutdowns, \* shutdown policies
  None

Members(s) == {s[i] : i \in DOMAIN s}

Ok(v) == [ok |-> TRUE, value |-> v]
Error(e) == [ok |-> FALSE, error |-> e]

\* build looks for errors in stages, and in each from the first item to the last;
\* the first one is returned.
Accepted(stages) ==
  \A s \in DOMAIN stages : \A i \in DOMAIN stages[s] : stages[s][i] = None

Outcome(stages, v) ==
  IF Accepted(stages) THEN Ok(v)
  ELSE LET s == CHOOSE s \in DOMAIN stages :
                  /\ ~Accepted(<<stages[s]>>)
                  /\ \A t \in 1..(s - 1) : Accepted(<<stages[t]>>)
           i == CHOOSE i \in DOMAIN stages[s] :
                  /\ stages[s][i] # None
                  /\ \A j \in 1..(i - 1) : stages[s][j] = None
       IN  Error(stages[s][i])

Unless(condition, error) == IF condition THEN None ELSE error

-----------------------------------------------------------------------------
(* GraphBuilder.                                                           *)

GraphBuilders ==
  [name : Ids \cup {None}, actors : Seq(Ids), links : Seq(Ids \X Ids),
   ingresses : Seq(Ids \X Ids), mailbox_capacity : Nat, limits : Limits]

ActorError(actors, i) ==
  IF actors[i] = Empty THEN "InvalidConfig"
  ELSE Unless(\A j \in 1..(i - 1) : actors[j] # actors[i], "DuplicateActorId")

LinkError(actors, link) ==
  IF link[1] \notin actors THEN "UnknownLinkSource"
  ELSE Unless(link[2] \in actors, "UnknownLinkTarget")

IngressError(actors, ingresses, i) ==
  IF ingresses[i][1] = Empty THEN "InvalidConfig"
  ELSE IF \E j \in 1..(i - 1) : ingresses[j][1] = ingresses[i][1]
  THEN "DuplicateIngressName"
  ELSE Unless(ingresses[i][2] \in actors, "UnknownIngressTarget")

GraphStages(d) ==
  << << Unless(d.name # Empty, "InvalidConfig"),
        Unless(d.actors # <<>>, "EmptyActors"),
        Unless(d.mailbox_capacity # 0, "InvalidConfig") >>,
     [i \in DOMAIN d.actors |-> ActorError(d.actors, i)],
     [i \in DOMAIN d.links |-> LinkError(Members(d.actors), d.links[i])],
     [i \in DOMAIN d.ingresses |->
        IngressError(Members(d.actors), d.ingresses, i)] >>

\* The binding of an actor is created with the graph, and is never replaced.
Binding(a) == <<"binding", a>>

Graph(d) ==
  [actors |-> d.actors,
   links |-> [a \in Members(d.actors) |-> {b \in Ids : <<a, b>> \in Members(d.links)}],
   bindings |-> [a \in Members(d.actors) |-> Binding(a)],
   ingresses |-> [n \in {p[1] : p \in Members(d.ingresses)} |->
                    CHOOSE a \in Ids : <<n, a>> \in Members(d.ingresses)],
   mailbox_capacity |-> d.mailbox_capacity,
   limits |-> d.limits]

BuildGraph(d) == Outcome(GraphStages(d), Graph(d))

-----------------------------------------------------------------------------
(* Graph and ActorSet.                                                     *)

ActorBinding(g, a) == IF a \in DOMAIN g.bindings THEN g.bindings[a] ELSE None

IngressNames(g, a) == {n \in DOMAIN g.ingresses : g.ingresses[n] = a}

IngressHandles(g) ==
  [n \in {m \in DOMAIN g.ingresses : ActorBinding(g, g.ingresses[m]) # None} |->
     [target |-> g.ingresses[n], binding |-> ActorBinding(g, g.ingresses[n])]]

\* peer_refs fails if the links of the actor or the binding of a peer are missing.
HasPeers(g, a) ==
  a \in DOMAIN g.links /\ \A p \in g.links[a] : ActorBinding(g, p) # None

PeerRefs(g, a) == [p \in g.links[a] |-> ActorBinding(g, p)]

RunnableActor(g, a) ==
  [id |-> a, binding |-> ActorBinding(g, a), peers |-> PeerRefs(g, a),
   ingress_names |-> IngressNames(g, a),
   mailbox_capacity |-> g.mailbox_capacity, limits |-> g.limits]

\* into_actor_set, for a graph that is not running and was not decomposed.
FromGraph(g) ==
  IF \A a \in Members(g.actors) : HasPeers(g, a) /\ ActorBinding(g, a) # None
  THEN Ok([graph |-> g,
           actors |-> [i \in DOMAIN g.actors |-> RunnableActor(g, g.actors[i])]])
  ELSE Error("InvalidState")

\* What ActorContext::send and its variants send to ...
Peer(actor, a) == IF a \in DOMAIN actor.peers THEN actor.peers[a] ELSE None

\* ... and send_dynamic: a peer comes before what the registry has now.
ResolveDynamicPeer(actor, registry, a) ==
  IF a \in DOMAIN actor.peers THEN actor.peers[a]
  ELSE IF a \in DOMAIN registry THEN registry[a] ELSE None

\* Actors that are added later share the settings of the graph.
DynamicFactory(set) ==
  [mailbox_capacity |-> set.graph.mailbox_capacity, limits |-> set.graph.limits]

-----------------------------------------------------------------------------
(* SupervisorBuilder.                                                      *)

Backoffs ==
  [policy : {"None", "Fixed", "Exponential", "JitteredExponential"},
   base : Nat, factor : Nat, max : Nat]

Intensities == [max_restarts : Nat, within : Nat, backoff : Backoffs]

ChildSpecs ==
  [id : Ids, restart : {"Permanent", "Transient", "Temporary"},
   shutdown : Shutdowns, intensity : Intensities \cup {None}]

SupervisorBuilders ==
  [strategy : {"OneForOne", "OneForAll"}, restart_intensity : Intensities,
   children : Seq(ChildSpecs), control_channel_capacity : Nat,
   event_channel_capacity : Nat]

\* Fixed has its delay in base.
BackoffError(b) ==
  Unless(\/ b.policy = "None"
         \/ b.policy = "Fixed" /\ b.base # 0
         \/ b.base # 0 /\ b.factor # 0 /\ b.max # 0, "InvalidConfig")

IntensityError(r) ==
  IF r.within = 0 THEN "InvalidConfig" ELSE BackoffError(r.backoff)

ChildError(children, i) ==
  LET child == children[i]
  IN  IF child.id = Empty THEN "InvalidConfig"
      ELSE IF child.intensity # None /\ IntensityError(child.intensity) # None
      THEN "InvalidConfig"
      ELSE Unless(\A j \in 1..(i - 1) : children[j].id # child.id,
                  "DuplicateChildId")

SupervisorStages(b) ==
  << << Unless(b.children # <<>>, "EmptyChildren"),
        IntensityError(b.restart_intensity),
        Unless(b.control_channel_capacity # 0, "InvalidConfig"),
        Unless(b.event_channel_capacity # 0, "InvalidConfig") >>,
     [i \in DOMAIN b.children |-> ChildError(b.children, i)] >>

BuildSupervisor(b) == Outcome(SupervisorStages(b), b)

-----------------------------------------------------------------------------
(* SupervisedActors.                                                       *)

Overrides ==
  [restart : {"Permanent", "Transient", "Temporary", None},
   shutdown : Shutdowns \cup {None}, intensity : Intensities \cup {None}]

Given(override, default) == IF override = None THEN default ELSE override

\* s.overrides has an entry for each actor id that a method was given.
ActorChild(s, a) ==
  LET o == IF a \in DOMAIN s.overrides THEN s.overrides[a]
           ELSE [restart |-> None, shutdown |-> None, intensity |-> None]
  IN  [id |-> a, restart |-> Given(o.restart, s.restart),
       shutdown |-> Given(o.shutdown, s.shutdown), intensity |-> o.intensity]

ActorIdsOf(s) == Members(s.set.graph.actors)

ActorChildren(s) ==
  [i \in DOMAIN s.set.actors |-> ActorChild(s, s.set.actors[i].id)]

\* The supervisor gets the children of the builder, then the actors.
WithActors(s, b) == [b EXCEPT !.children = @ \o ActorChildren(s)]

RuntimeStages(s, b) ==
  << << Unless(DOMAIN s.overrides \subseteq ActorIdsOf(s), "UnknownActor") >>,
     [i \in DOMAIN s.set.graph.actors |-> ActorError(s.set.graph.actors, i)] >>
  \o SupervisorStages(WithActors(s, b))

\* Every actor has registered itself: the registry leads to its binding.
BuildRuntime(s, b) ==
  Outcome(RuntimeStages(s, b),
          [supervisor |-> WithActors(s, b),
           ingresses |-> IngressHandles(s.set.graph),
           registry |-> [a \in ActorIdsOf(s) |-> ActorBinding(s.set.graph, a)],
           factory |-> DynamicFactory(s.set)])

=============================================================================
