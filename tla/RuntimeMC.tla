------------------------------ MODULE RuntimeMC ------------------------------
(* The instance of Runtime that TLC checks, and the builders whose result it  *)
(* starts from, on bounded inputs.                                            *)
EXTENDS Runtime

B == INSTANCE Builders WITH
  Ids <- {"", "x", "y", "z", "in"}, Empty <- "", Limits <- {"limits"},
  Shutdowns <- {"shutdown"}

UpTo(S, n) == UNION {[1..k -> S] : k \in 0..n}

Definitions ==
  [name : {None, "", "x"}, actors : UpTo({"", "x", "y"}, 2),
   links : UpTo({"x", "y"} \X {"x", "y"}, 1),
   ingresses : UpTo({<<"", "x">>, <<"x", "x">>, <<"x", "y">>, <<"y", "x">>}, 2),
   mailbox_capacity : {0, 1}, limits : {"limits"}]

Distinct(s) == \A i, j \in DOMAIN s : s[i] = s[j] => i = j

\* GraphBuilder::build accepts exactly the graphs whose actors have names of their
\* own, whose links join actors and whose ingresses have names of their own and
\* lead to actors.
WellFormed(d) ==
  /\ d.name # "" /\ d.actors # <<>> /\ d.mailbox_capacity > 0
  /\ Distinct(d.actors) /\ "" \notin B!Members(d.actors)
  /\ \A l \in B!Members(d.links) : {l[1], l[2]} \subseteq B!Members(d.actors)
  /\ Distinct([i \in DOMAIN d.ingresses |-> d.ingresses[i][1]])
  /\ \A l \in B!Members(d.ingresses) : l[1] # "" /\ l[2] \in B!Members(d.actors)

ASSUME BuildAcceptsTheWellFormed ==
  \A d \in Definitions : B!BuildGraph(d).ok <=> WellFormed(d)

Intensity(within, policy, base) ==
  [max_restarts |-> 1, within |-> within,
   backoff |-> [policy |-> policy, base |-> base, factor |-> 1, max |-> 1]]

Child(name, intensity) ==
  [id |-> name, restart |-> "Transient", shutdown |-> "shutdown",
   intensity |-> intensity]

Supervisors ==
  [strategy : {"OneForOne"},
   restart_intensity : {Intensity(w, p, d) : w \in 0..1, p \in {"None", "Fixed", "Exponential"}, d \in 0..1},
   children : UpTo({Child(n, i) : n \in {"", "y", "z"},
                                   i \in {None, Intensity(1, "None", 0), Intensity(0, "None", 0)}}, 2),
   control_channel_capacity : {0, 1}, event_channel_capacity : {0, 1}]

Set == B!FromGraph(B!Graph([name |-> None, actors |-> <<"x", "y">>, links |-> <<<<"x", "y">>>>,
                            ingresses |-> <<<<"in", "x">>>>, mailbox_capacity |-> 1,
                            limits |-> "limits"])).value

ActorsWith(overrides) ==
  [set |-> Set, restart |-> "Transient", shutdown |-> "shutdown", overrides |-> overrides]

Override(i) == [restart |-> "Permanent", shutdown |-> None, intensity |-> i]

OverrideMaps ==
  UNION {[D -> {Override(None), Override(Intensity(0, "None", 0))}] :
           D \in {{}, {"x"}, {"z"}}}

Sound(i) ==
  i.within > 0 /\ (i.backoff.policy # "None" => i.backoff.base > 0)

\* build_runtime accepts exactly the overrides of actors and the children whose
\* ids are their own, not those of an actor, and whose restart limits are sound;
\* then every actor is registered and a child, as Init of Runtime has it.
RuntimeWellFormed(s, b) ==
  /\ DOMAIN s.overrides \subseteq {"x", "y"}
  /\ \A a \in DOMAIN s.overrides : s.overrides[a].intensity = None
  /\ Sound(b.restart_intensity)
  /\ b.control_channel_capacity > 0 /\ b.event_channel_capacity > 0
  /\ \A c \in B!Members(b.children) :
       c.id \notin {"", "x", "y"} /\ (c.intensity # None => Sound(c.intensity))
  /\ Distinct([i \in DOMAIN b.children |-> b.children[i].id])

ASSUME BuildRuntimeAcceptsTheWellFormed ==
  \A o \in OverrideMaps : \A b \in Supervisors :
    LET built == B!BuildRuntime(ActorsWith(o), b)
    IN  /\ built.ok <=> RuntimeWellFormed(ActorsWith(o), b)
        /\ built.ok => /\ DOMAIN built.value.registry = {"x", "y"}
                       /\ {"x", "y"} \subseteq
                            {c.id : c \in B!Members(built.value.supervisor.children)}

==============================================================================
