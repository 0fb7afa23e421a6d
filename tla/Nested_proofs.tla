----------------------------- MODULE Nested_proofs -----------------------------
(***************************************************************************)
(* For any number of incarnations, of snapshots and any capacities: the    *)
(* path leads to the inner supervisor at work, and two of them overlap,    *)
(* only as far as no task was given up or superseded; no snapshot is left  *)
(* without a notification, and the row of the child is a view as           *)
(* SnapshotView specifies it, but for its fairness.                        *)
(***************************************************************************)
EXTENDS Nested, SequenceTheorems, TLAPS

\* Incarnations come one after the other.
Order ==
  \A g, h \in Incarnations :
    g < h /\ fate[h] # "none" =>
      fate[g] \in {"joined", "detached", "superseded"}

\* What the entry, the task and the inner supervisor of an incarnation know of
\* one another.
Stages ==
  \A g \in Incarnations :
    /\ fate[g] = "none" <=> child[g] = "none"
    /\ fate[g] = "joined" => child[g] \in {"returned", "gone"}
    /\ fate[g] = "detached" => g \in aborted
    /\ child[g] = "gone" => g \in aborted
    /\ child[g] = "returned" => inner[g] = "stopped"
    /\ child[g] \in {"none", "start"} => inner[g] = "none"

\* A snapshot goes from its publication through carry and latest, and what is
\* further on the way is older.
Snapshots ==
  \A g \in Incarnations :
    /\ child[g] \in {"none", "start"} => version[g] = 0
    /\ child[g] \in {"none", "start", "attach"} =>
         carry[g] = None /\ latest[g] = None
    /\ child[g] \in {"loop", "replace", "swap"} => carry[g] # None
    /\ latest[g] # None => carry[g] # None /\ latest[g] <= carry[g]
    /\ child[g] = "swap" /\ fate[g] = "live" => latest[g] = carry[g]

\* The row is that of the live incarnation, and no newer than what was stored.
Row ==
  /\ Live = {} => shown = None
  /\ \A g \in Live : shown # None => latest[g] # None /\ shown <= latest[g]
  /\ handling # None => handling \in Live /\ latest[handling] # None

In(s, g) == \E i \in DOMAIN s : s[i] = g
Once(s, g) == \A i, j \in DOMAIN s : s[i] = g /\ s[j] = g => i = j

\* A notification of g is in the channel, or with a sender that waits for it.
UnderWay(g) == In(notifications, g) \/ In(waiting, g)

\* The flag of the live incarnation says whether its notification is under way;
\* there is one at most, and only for a snapshot that was stored.
Notices ==
  \A g \in Incarnations :
    /\ fate[g] = "none" => ~queued[g] /\ ~UnderWay(g)
    /\ fate[g] = "live" =>
         /\ queued[g] <=> UnderWay(g)
         /\ UnderWay(g) => latest[g] # None
         /\ Once(notifications, g) /\ Once(waiting, g)
         /\ ~(In(notifications, g) /\ In(waiting, g))

\* A stored snapshot that the row does not show yet will be looked at: the
\* parent is about to read it, its notification is under way, or run_as_child
\* is about to look at the flag.
NoSnapshotIsForgotten ==
  \A g \in Live :
    latest[g] # shown => handling = g \/ child[g] = "swap" \/ UnderWay(g)

Inv ==
  /\ TypeOK /\ Order /\ Stages /\ EndpointLeadsToOwner
  /\ Snapshots /\ Row /\ Notices /\ NoSnapshotIsForgotten

-----------------------------------------------------------------------------
\* A sequence that grows at its end ...
LEMMA AppendIn ==
  ASSUME NEW T, NEW s \in Seq(T), NEW x \in T, NEW g
  PROVE  /\ Append(s, x) \in Seq(T) /\ Len(Append(s, x)) = Len(s) + 1
         /\ In(Append(s, x), g) <=> In(s, g) \/ g = x
         /\ Once(s, g) /\ (g = x => ~In(s, g)) => Once(Append(s, x), g)
<1> DEFINE r == Append(s, x)
<1>1. /\ r \in Seq(T) /\ Len(r) = Len(s) + 1 /\ Len(s) \in Nat
      /\ \A i \in 1..Len(s) : r[i] = s[i]
      /\ r[Len(s) + 1] = x
  BY AppendProperties
<1>2. DOMAIN s = 1..Len(s) /\ DOMAIN r = 1..(Len(s) + 1)
  BY <1>1
<1> HIDE DEF r
<1>3. In(r, g) <=> In(s, g) \/ g = x
  BY <1>1, <1>2 DEF In
<1>4. Once(s, g) /\ (g = x => ~In(s, g)) => Once(r, g)
  BY <1>1, <1>2 DEF In, Once
<1> QED
  BY <1>1, <1>3, <1>4 DEF r

\* ... and one that loses its front.
LEMMA TailIn ==
  ASSUME NEW T, NEW s \in Seq(T), s # <<>>, NEW g
  PROVE  /\ Head(s) \in T /\ Tail(s) \in Seq(T) /\ Len(Tail(s)) = Len(s) - 1
         /\ In(s, g) <=> In(Tail(s), g) \/ g = Head(s)
         /\ Once(s, g) => Once(Tail(s), g)
         /\ Once(s, g) /\ g = Head(s) => ~In(Tail(s), g)
<1> DEFINE r == Tail(s)
<1>1. /\ r \in Seq(T) /\ Len(r) = Len(s) - 1 /\ Len(s) \in Nat \ {0}
      /\ \A i \in 1..Len(r) : r[i] = s[i + 1]
      /\ Head(s) = s[1] /\ Head(s) \in T
  BY HeadTailProperties
<1>2. DOMAIN s = 1..Len(s) /\ DOMAIN r = 1..(Len(s) - 1)
  BY <1>1
<1> HIDE DEF r
<1>3. In(s, g) <=> In(r, g) \/ g = Head(s)
  <2>1. ASSUME NEW i \in DOMAIN s, s[i] = g, i # 1
        PROVE  In(r, g)
    <3>1. i - 1 \in DOMAIN r /\ r[i - 1] = g
      BY <1>1, <1>2, <2>1
    <3> QED
      BY <3>1 DEF In
  <2>2. ASSUME NEW i \in DOMAIN r, r[i] = g
        PROVE  In(s, g)
    <3>1. i + 1 \in DOMAIN s /\ s[i + 1] = g
      BY <1>1, <1>2, <2>2
    <3> QED
      BY <3>1 DEF In
  <2>3. g = Head(s) => In(s, g)
    BY <1>1, <1>2 DEF In
  <2> QED
    BY <1>1, <2>1, <2>2, <2>3 DEF In
<1>4. ASSUME Once(s, g)
      PROVE  Once(r, g) /\ (g = Head(s) => ~In(r, g))
  <2>1. \A i \in DOMAIN r : i + 1 \in DOMAIN s /\ r[i] = s[i + 1] /\ i \in Nat
    BY <1>1, <1>2
  <2>2. Once(r, g)
    BY <1>4, <2>1 DEF Once
  <2>3. g = Head(s) => ~In(r, g)
    <3>1. \A i \in DOMAIN r : 1 \in DOMAIN s /\ i + 1 # 1
      BY <1>1, <1>2, <2>1
    <3> QED
      BY <1>1, <1>4, <2>1, <3>1 DEF Once, In
  <2> QED
    BY <2>2, <2>3
<1> QED
  BY <1>1, <1>3, <1>4 DEF r

-----------------------------------------------------------------------------
\* Nothing has been spawned.
LEMMA Initially == Init => Inv
<1> SUFFICES ASSUME Init PROVE Inv
  OBVIOUS
<1>1. TypeOK
  <2>1. <<>> \in Seq(Incarnations) /\ Len(<<>>) = 0
    OBVIOUS
  <2>2. \A g \in Incarnations : Versions[g] \in Nat
    BY NestedAssumption DEF Incarnations
  <2> QED
    BY <2>1, <2>2, NestedAssumption DEF Init, TypeOK
<1>2. Order /\ Stages /\ EndpointLeadsToOwner
  BY DEF Init, Order, Stages, EndpointLeadsToOwner, Live, Attached,
         EndpointForPath, Lost
<1>3. Snapshots /\ Row /\ NoSnapshotIsForgotten
  BY DEF Init, Snapshots, Row, NoSnapshotIsForgotten, Live
<1>4. Notices
  <2>1. \A g : ~In(<<>>, g)
    BY DEF In
  <2> QED
    BY <2>1 DEF Init, Notices, UnderWay
<1> QED
  BY <1>1, <1>2, <1>3, <1>4 DEF Inv

\* The live incarnation is the last, and any other that has not been joined is lost.
LEMMA LiveIsLast ==
  ASSUME Order, NEW h \in Live, NEW g \in Incarnations, g # h
  PROVE  /\ g \notin Live
         /\ fate[g] # "none" => g \in 1..(h - 1)
<1>1. h \in Incarnations /\ fate[h] = "live" /\ h \in Nat /\ g \in Nat /\ g >= 1
  BY NestedAssumption DEF Live, Incarnations
<1>2. g < h \/ h < g
  BY <1>1
<1> QED
  BY <1>1, <1>2 DEF Order, Live

\* The end of a run_as_child that clears the path of its own entry, or of one that
\* came after the entry had lost its task.
LEMMA DeregisterKeepsPath ==
  ASSUME Inv, NEW g \in Incarnations, Attached(g), ~Attached(g)', registry' = None,
         UNCHANGED fate, \A h \in Incarnations \ {g} : child'[h] = child[h]
  PROVE  EndpointLeadsToOwner'
<1>1. g \in Live \/ Lost(g)
  BY DEF Inv, TypeOK, Stages, Attached, Live, Lost
<1>2. Live' = Live /\ \A h \in Incarnations : Lost(h)' <=> Lost(h)
  BY DEF Live, Lost
<1>3. ASSUME NEW h \in Live, Attached(h)'
      PROVE  g \in 1..(h - 1) /\ Lost(g)
  <2>1. h # g
    BY <1>3
  <2>2. g \notin Live /\ (fate[g] # "none" => g \in 1..(h - 1))
    BY <2>1, LiveIsLast DEF Inv
  <2> QED
    BY <1>1, <2>2 DEF Lost
<1>4. \A h \in Live : \A f \in 1..(h - 1) : f \in Incarnations
  BY NestedAssumption DEF Live, Incarnations
<1> QED
  BY <1>2, <1>3, <1>4 DEF EndpointLeadsToOwner, EndpointForPath

\* What each incarnation has counted.
LEMMA Counts ==
  ASSUME TypeOK, NEW h \in Incarnations
  PROVE  /\ Versions[h] \in Nat /\ None \notin Nat
         /\ version[h] \in Nat /\ sent[h] \in Nat /\ seen[h] \in Nat /\ heard[h] \in Nat
         /\ version[h] <= Versions[h] /\ sent[h] <= version[h]
         /\ seen[h] <= version[h] /\ heard[h] <= sent[h]
         /\ carry[h] # None => carry[h] \in Nat /\ carry[h] <= version[h]
         /\ latest[h] # None => latest[h] \in Nat /\ latest[h] <= version[h]
BY NestedAssumption DEF TypeOK, Incarnations

\* The inner supervisor publishes or ends.
LEMMA InnerKeeps ==
  ASSUME Inv, NEW g \in Incarnations, InnerSupervisor(g)
  PROVE  Inv'
<1>1. CASE Publish(g)
  <2>1. TypeOK'
    <3>1. Versions[g] \in Nat /\ None \notin Nat
      BY NestedAssumption DEF Incarnations
    <3>2. version' = [version EXCEPT ![g] = version[g] + 1]
      BY <1>1 DEF Publish
    <3>3. /\ version[g] < Versions[g]
          /\ UNCHANGED <<inner, sent, child, shutdown, registry, seen, carry, entryVars,
                         heard, cellVars, queueVars>>
      BY <1>1 DEF Publish
    <3>4. version' \in [Incarnations -> Nat]
      BY <3>2 DEF Inv, TypeOK
    <3>5. \A h \in Incarnations :
            version'[h] <= Versions[h] /\ version[h] <= version'[h]
      <4> TAKE h \in Incarnations
      <4>1. version'[h] = IF h = g THEN version[h] + 1 ELSE version[h]
        BY <3>2 DEF Inv, TypeOK
      <4>2. h = g => version[h] < Versions[h]
        BY <3>3
      <4> QED
        BY <4>1, <4>2, Counts DEF Inv
    <3>6. ASSUME NEW h \in Incarnations, NEW n \in Nat, n <= version[h]
          PROVE  n <= version'[h]
      BY <3>4, <3>5, <3>6 DEF Inv, TypeOK
    <3>7. \A h \in Incarnations :
            /\ seen[h] <= version'[h] /\ sent[h] <= version'[h]
            /\ carry[h] # None => carry[h] <= version'[h]
            /\ latest[h] # None => latest[h] <= version'[h]
      BY <3>6 DEF Inv, TypeOK
    <3> QED
      BY <3>3, <3>4, <3>5, <3>7
         DEF Inv, TypeOK, entryVars, cellVars, queueVars
  <2>2. Order' /\ Stages' /\ EndpointLeadsToOwner'
    BY <1>1 DEF Publish, Inv, Order, Stages, EndpointLeadsToOwner, Live,
                Attached, EndpointForPath, Lost, entryVars
  <2>3. Snapshots'
    BY <1>1 DEF Publish, Inv, TypeOK, Stages, Snapshots, entryVars, cellVars
  <2>4. Row' /\ Notices' /\ NoSnapshotIsForgotten'
    BY <1>1 DEF Publish, Inv, Row, Notices, NoSnapshotIsForgotten, Live,
                UnderWay, entryVars, cellVars, queueVars
  <2> QED
    BY <2>1, <2>2, <2>3, <2>4 DEF Inv
<1>3. CASE SendEvent(g)
  <2>1. TypeOK'
    <3>1. sent' = [sent EXCEPT ![g] = version[g]] /\ sent[g] < version[g]
      BY <1>3 DEF SendEvent
    <3>2. /\ sent' \in [Incarnations -> Nat]
          /\ \A h \in Incarnations : sent'[h] <= version[h] /\ heard[h] <= sent'[h]
      BY <3>1 DEF Inv, TypeOK
    <3> QED
      BY <1>3, <3>2 DEF SendEvent, Inv, TypeOK, entryVars, cellVars, queueVars
  <2>2. Order' /\ Stages' /\ EndpointLeadsToOwner'
    BY <1>3 DEF SendEvent, Inv, Order, Stages, EndpointLeadsToOwner, Live,
                Attached, EndpointForPath, Lost, entryVars
  <2>3. Snapshots'
    BY <1>3 DEF SendEvent, Inv, Snapshots, entryVars, cellVars
  <2>4. Row' /\ Notices' /\ NoSnapshotIsForgotten'
    BY <1>3 DEF SendEvent, Inv, Row, Notices, NoSnapshotIsForgotten, Live,
                UnderWay, entryVars, cellVars, queueVars
  <2> QED
    BY <2>1, <2>2, <2>3, <2>4 DEF Inv
<1>2. CASE InnerEnds(g)
  <2>1. TypeOK'
    BY <1>2 DEF InnerEnds, Inv, TypeOK, entryVars, cellVars, queueVars
  <2>2. Order' /\ Stages' /\ EndpointLeadsToOwner'
    BY <1>2 DEF InnerEnds, Inv, TypeOK, Order, Stages, EndpointLeadsToOwner, Live,
                Attached, EndpointForPath, Lost, entryVars
  <2>3. Snapshots'
    BY <1>2 DEF InnerEnds, Inv, Snapshots, entryVars, cellVars
  <2>4. Row' /\ Notices' /\ NoSnapshotIsForgotten'
    BY <1>2 DEF InnerEnds, Inv, Row, Notices, NoSnapshotIsForgotten, Live,
                UnderWay, entryVars, cellVars, queueVars
  <2> QED
    BY <2>1, <2>2, <2>3, <2>4 DEF Inv
<1> QED
  BY <1>1, <1>2, <1>3 DEF InnerSupervisor

\* run_as_child starts, and forwards the initial snapshot.
LEMMA StartKeeps ==
  ASSUME Inv, NEW g \in Incarnations, StartInner(g) \/ Attach(g)
  PROVE  Inv'
<1>1. CASE StartInner(g)
  <2>1. TypeOK'
    BY <1>1 DEF StartInner, Inv, TypeOK, entryVars, cellVars, queueVars
  <2>2. Order' /\ Stages' /\ EndpointLeadsToOwner'
    BY <1>1 DEF StartInner, Inv, TypeOK, Order, Stages, EndpointLeadsToOwner,
                Live, Attached, EndpointForPath, Lost, entryVars
  <2>3. Snapshots'
    BY <1>1 DEF StartInner, Inv, TypeOK, Snapshots, entryVars, cellVars
  <2>4. Row' /\ Notices' /\ NoSnapshotIsForgotten'
    BY <1>1 DEF StartInner, Inv, TypeOK, Row, Notices, NoSnapshotIsForgotten,
                Live, UnderWay, entryVars, cellVars, queueVars
  <2> QED
    BY <2>1, <2>2, <2>3, <2>4 DEF Inv
<1>2. CASE Attach(g)
  <2>1. TypeOK'
    <3>1. /\ child' = [child EXCEPT ![g] = "replace"] /\ registry' = g
          /\ heard' = [heard EXCEPT ![g] = sent[g]]
          /\ carry' = [carry EXCEPT ![g] = version[g]]
      BY <1>2 DEF Attach, Register, Forwarded
    <3>2. /\ heard' \in [Incarnations -> Nat]
          /\ carry' \in [Incarnations -> Nat \cup {None}]
          /\ \A h \in Incarnations :
               /\ heard'[h] <= sent[h]
               /\ carry'[h] # None => carry'[h] <= version[h]
      <4>1. ASSUME NEW h \in Incarnations
            PROVE  /\ heard'[h] = IF h = g THEN sent[h] ELSE heard[h]
                   /\ carry'[h] = IF h = g THEN version[h] ELSE carry[h]
        BY <3>1 DEF Inv, TypeOK
      <4>2. ASSUME NEW h \in Incarnations
            PROVE  /\ heard'[h] <= sent[h]
                   /\ carry'[h] # None => carry'[h] <= version[h]
        BY <4>1, Counts DEF Inv
      <4> QED
        BY <3>1, <4>2 DEF Inv, TypeOK
    <3>3. /\ child' \in [Incarnations -> {"none", "start", "attach", "loop", "replace",
                                          "swap", "returned", "gone"}]
          /\ registry' \in Incarnations \cup {None}
      BY <3>1 DEF Inv, TypeOK
    <3>4. UNCHANGED <<shutdown, seen, entryVars, innerVars, cellVars, queueVars>>
      BY <1>2 DEF Attach
    <3> QED
      BY <3>2, <3>3, <3>4
         DEF Inv, TypeOK, entryVars, innerVars, cellVars, queueVars
  <2>2. Order' /\ Stages'
    BY <1>2 DEF Attach, Inv, TypeOK, Order, Stages, entryVars, innerVars
  <2>3. EndpointLeadsToOwner'
    <3>1. child' = [child EXCEPT ![g] = "replace"] /\ registry' = g
          /\ UNCHANGED fate /\ child[g] = "attach"
      BY <1>2 DEF Attach, Register, entryVars
    <3>2. g \in Live \/ Lost(g)
      BY <3>1 DEF Inv, TypeOK, Stages, Live, Lost
    <3>3. Attached(registry)' /\ registry' = g
      BY <3>1 DEF Attached, Inv, TypeOK
    <3>4. Live' = Live /\ \A h \in Incarnations : Lost(h)' <=> Lost(h)
      BY <3>1 DEF Live, Lost
    <3>5. ASSUME NEW h \in Live, h # g
          PROVE  g \in 1..(h - 1) /\ Lost(g)
      BY <3>2, <3>5, LiveIsLast DEF Inv, Lost
    <3>6. EndpointForPath' = g /\ Attached(g)' /\ (g \in Live' \/ Lost(g)')
      BY <3>2, <3>3, <3>4 DEF EndpointForPath
    <3>7. ASSUME NEW h \in Live', h # g
          PROVE  \E f \in 1..(h - 1) : Lost(f)'
      <4>1. h \in Live /\ g \in 1..(h - 1) /\ Lost(g)'
        BY <3>4, <3>5, <3>7
      <4> QED
        BY <4>1
    <3> QED
      BY <3>6, <3>7 DEF EndpointLeadsToOwner
  <2>4. Snapshots'
    <3>1. /\ child' = [child EXCEPT ![g] = "replace"] /\ child[g] = "attach"
          /\ carry' = [carry EXCEPT ![g] = version[g]]
          /\ UNCHANGED <<version, latest, fate>>
      BY <1>2 DEF Attach, entryVars, innerVars, cellVars
    <3>2. version[g] # None /\ latest[g] = None
      BY <3>1, NestedAssumption DEF Inv, TypeOK, Snapshots
    <3>3. /\ child'[g] = "replace" /\ carry'[g] = version[g]
          /\ \A h \in Incarnations \ {g} : child'[h] = child[h] /\ carry'[h] = carry[h]
      BY <3>1 DEF Inv, TypeOK
    <3> QED
      BY <3>1, <3>2, <3>3 DEF Inv, Snapshots
  <2>5. Row' /\ Notices' /\ NoSnapshotIsForgotten'
    BY <1>2 DEF Attach, Inv, TypeOK, Row, Notices, NoSnapshotIsForgotten,
                Live, UnderWay, entryVars, cellVars, queueVars
  <2> QED
    BY <2>1, <2>2, <2>3, <2>4, <2>5 DEF Inv
<1> QED
  BY <1>1, <1>2

\* It looks at the end of its inner supervisor, at its events, at its snapshot
\* and at its token.
LEMMA LoopKeeps ==
  ASSUME Inv, NEW g \in Incarnations,
         Wait(g) \/ Event(g) \/ Changed(g) \/ TokenCancelled(g)
  PROVE  Inv'
<1>1. CASE Wait(g)
  <2>1. TypeOK'
    BY <1>1 DEF Wait, Deregister, Forwarded, Inv, TypeOK, entryVars, innerVars,
                cellVars, queueVars
  <2>2. Order' /\ Stages'
    BY <1>1 DEF Wait, AtSelect, Inv, TypeOK, Order, Stages, entryVars, innerVars
  <2>3. EndpointLeadsToOwner'
    <3>1. child' = [child EXCEPT ![g] = "returned"] /\ registry' = None
          /\ UNCHANGED fate /\ child[g] = "loop"
      BY <1>1 DEF Wait, AtSelect, Deregister, entryVars
    <3>2. Attached(g) /\ ~Attached(g)'
      BY <3>1 DEF Attached, Inv, TypeOK
    <3>3. \A h \in Incarnations \ {g} : child'[h] = child[h]
      BY <3>1 DEF Inv, TypeOK
    <3> QED
      BY <3>1, <3>2, <3>3, DeregisterKeepsPath
  <2>4. Snapshots'
    BY <1>1 DEF Wait, AtSelect, Inv, TypeOK, Snapshots, entryVars, innerVars, cellVars
  <2>5. Row' /\ Notices' /\ NoSnapshotIsForgotten'
    BY <1>1 DEF Wait, AtSelect, Inv, TypeOK, Row, Notices, NoSnapshotIsForgotten,
                Live, UnderWay, entryVars, cellVars, queueVars
  <2> QED
    BY <2>1, <2>2, <2>3, <2>4, <2>5 DEF Inv
<1>2. CASE Event(g)
  <2>1. TypeOK'
    <3>1. EventCapacity \in Nat /\ None \notin Nat
      BY NestedAssumption
    <3> DEFINE next == IF sent[g] - heard[g] > EventCapacity
                       THEN sent[g] - EventCapacity ELSE heard[g] + 1
    <3>2. heard' = [heard EXCEPT ![g] = next] /\ heard[g] < sent[g]
      BY <1>2 DEF Event, Forwarded
    <3>3. next \in Nat /\ next <= sent[g]
      BY <3>1, <3>2, Counts DEF Inv
    <3> HIDE DEF next
    <3>4. /\ heard' \in [Incarnations -> Nat]
          /\ \A h \in Incarnations : heard'[h] <= sent[h]
      BY <3>2, <3>3 DEF Inv, TypeOK
    <3> QED
      BY <1>2, <3>4 DEF Event, Inv, TypeOK, entryVars, innerVars, cellVars, queueVars
  <2>2. Order' /\ Stages' /\ EndpointLeadsToOwner'
    BY <1>2 DEF Event, Inv, Order, Stages, EndpointLeadsToOwner,
                Live, Attached, EndpointForPath, Lost, entryVars, innerVars
  <2>3. Snapshots'
    BY <1>2 DEF Event, Inv, Snapshots, entryVars, innerVars, cellVars
  <2>4. Row' /\ Notices' /\ NoSnapshotIsForgotten'
    BY <1>2 DEF Event, Inv, Row, Notices, NoSnapshotIsForgotten,
                Live, UnderWay, entryVars, cellVars, queueVars
  <2> QED
    BY <2>1, <2>2, <2>3, <2>4 DEF Inv
<1>3. CASE Changed(g)
  <2>1. TypeOK'
    <3>1. /\ child' = [child EXCEPT ![g] = "replace"]
          /\ seen' = [seen EXCEPT ![g] = version[g]]
          /\ carry' = [carry EXCEPT ![g] = version[g]]
          /\ UNCHANGED <<shutdown, registry, entryVars, innerVars, heard, cellVars,
                         queueVars>>
      BY <1>3 DEF Changed
    <3>2. ASSUME NEW h \in Incarnations
          PROVE  /\ seen'[h] <= version[h]
                 /\ carry'[h] # None => carry'[h] <= version[h]
      <4>1. /\ seen'[h] = IF h = g THEN version[h] ELSE seen[h]
            /\ carry'[h] = IF h = g THEN version[h] ELSE carry[h]
        BY <3>1 DEF Inv, TypeOK
      <4> QED
        BY <4>1, Counts DEF Inv
    <3>3. /\ child' \in [Incarnations -> {"none", "start", "attach", "loop", "replace",
                                          "swap", "returned", "gone"}]
          /\ seen' \in [Incarnations -> Nat]
          /\ carry' \in [Incarnations -> Nat \cup {None}]
      BY <3>1 DEF Inv, TypeOK
    <3> QED
      BY <3>1, <3>2, <3>3
         DEF Inv, TypeOK, entryVars, innerVars, cellVars, queueVars
  <2>2. Order' /\ Stages' /\ EndpointLeadsToOwner'
    <3>1. /\ child' = [child EXCEPT ![g] = "replace"] /\ child[g] = "loop"
          /\ UNCHANGED <<fate, aborted, inner, registry>>
      BY <1>3 DEF Changed, AtSelect, entryVars, innerVars
    <3>2. Order' /\ Stages'
      BY <1>3, <3>1 DEF Changed, Inv, TypeOK, Order, Stages, entryVars, innerVars
    <3>3. \A h \in Incarnations : Attached(h)' <=> Attached(h)
      BY <3>1 DEF Attached, Inv, TypeOK
    <3>4. Live' = Live /\ EndpointForPath' = EndpointForPath
      BY <3>1 DEF Live, EndpointForPath
    <3>5. \A h : Lost(h)' <=> Lost(h)
      BY <3>1 DEF Lost
    <3>6. Live \subseteq Incarnations /\ EndpointForPath \in Incarnations \cup {None}
      BY DEF Live, EndpointForPath, Inv, TypeOK
    <3>7. EndpointLeadsToOwner
      BY DEF Inv
    <3>8. EndpointLeadsToOwner'
      BY <3>3, <3>4, <3>5, <3>6, <3>7 DEF EndpointLeadsToOwner
    <3> QED
      BY <3>2, <3>8
  <2>3. Snapshots'
    <3>1. /\ child' = [child EXCEPT ![g] = "replace"] /\ child[g] = "loop"
          /\ carry' = [carry EXCEPT ![g] = version[g]]
          /\ UNCHANGED <<version, latest, fate>>
      BY <1>3 DEF Changed, AtSelect, entryVars, innerVars, cellVars
    <3>2. version[g] # None /\ (latest[g] # None => latest[g] <= version[g])
      BY NestedAssumption DEF Inv, TypeOK
    <3>3. /\ child'[g] = "replace" /\ carry'[g] = version[g]
          /\ \A h \in Incarnations \ {g} : child'[h] = child[h] /\ carry'[h] = carry[h]
      BY <3>1 DEF Inv, TypeOK
    <3> QED
      <4>1. ASSUME NEW h \in Incarnations
            PROVE  /\ child'[h] \in {"none", "start"} => version'[h] = 0
                   /\ child'[h] \in {"none", "start", "attach"} =>
                        carry'[h] = None /\ latest'[h] = None
                   /\ child'[h] \in {"loop", "replace", "swap"} => carry'[h] # None
                   /\ latest'[h] # None =>
                        carry'[h] # None /\ latest'[h] <= carry'[h]
                   /\ child'[h] = "swap" /\ fate'[h] = "live" =>
                        latest'[h] = carry'[h]
        <5>1. CASE h = g
          BY <3>1, <3>2, <3>3, <5>1
        <5>2. CASE h # g
          BY <3>1, <3>3, <5>2 DEF Inv, Snapshots
        <5> QED
          BY <5>1, <5>2
      <4> QED
        BY <4>1 DEF Snapshots
  <2>4. Row' /\ Notices' /\ NoSnapshotIsForgotten'
    BY <1>3 DEF Changed, AtSelect, Inv, TypeOK, Row, Notices, NoSnapshotIsForgotten,
                Live, UnderWay, entryVars, cellVars, queueVars
  <2> QED
    BY <2>1, <2>2, <2>3, <2>4 DEF Inv
<1>4. CASE TokenCancelled(g)
  <2>1. TypeOK'
    BY <1>4 DEF TokenCancelled, Inv, TypeOK, entryVars, innerVars, cellVars, queueVars
  <2>2. Order' /\ Stages' /\ EndpointLeadsToOwner'
    BY <1>4 DEF TokenCancelled, Inv, Order, Stages, EndpointLeadsToOwner,
                Live, Attached, EndpointForPath, Lost, entryVars, innerVars
  <2>3. Snapshots'
    BY <1>4 DEF TokenCancelled, Inv, Snapshots, entryVars, innerVars, cellVars
  <2>4. Row' /\ Notices' /\ NoSnapshotIsForgotten'
    BY <1>4 DEF TokenCancelled, Inv, Row, Notices, NoSnapshotIsForgotten,
                Live, UnderWay, entryVars, cellVars, queueVars
  <2> QED
    BY <2>1, <2>2, <2>3, <2>4 DEF Inv
<1> QED
  BY <1>1, <1>2, <1>3, <1>4

\* The forwarder stores its snapshot, and sends a notification unless one is
\* under way.
LEMMA ForwardKeeps ==
  ASSUME Inv, NEW g \in Incarnations, Replace(g) \/ TryQueue(g)
  PROVE  Inv'
<1>1. CASE Replace(g)
  <2>1. TypeOK'
    BY <1>1 DEF Replace, Inv, TypeOK, entryVars, innerVars, queueVars
  <2>2. Order' /\ Stages' /\ EndpointLeadsToOwner'
    BY <1>1 DEF Replace, Inv, TypeOK, Order, Stages, EndpointLeadsToOwner,
                Live, Attached, EndpointForPath, Lost, entryVars, innerVars
  <2>3. carry[g] # None /\ carry[g] \in Nat
    BY <1>1 DEF Replace, Inv, TypeOK, Snapshots
  <2>4. Snapshots'
    BY <1>1, <2>3 DEF Replace, Inv, TypeOK, Snapshots, entryVars, innerVars
  <2>5. Row'
    <3>1. latest[g] # None => latest[g] \in Nat /\ latest[g] <= carry[g]
      BY DEF Inv, TypeOK, Snapshots
    <3>2. shown # None => shown \in Nat
      BY DEF Inv, TypeOK
    <3> QED
      BY <1>1, <2>3, <3>1, <3>2 DEF Replace, Inv, TypeOK, Row, Live, entryVars
  <2>6. Notices' /\ NoSnapshotIsForgotten'
    BY <1>1, <2>3 DEF Replace, Inv, TypeOK, Stages, Notices, NoSnapshotIsForgotten,
                      Live, UnderWay, entryVars, queueVars
  <2> QED
    BY <2>1, <2>2, <2>4, <2>5, <2>6 DEF Inv
<1>2. CASE TryQueue(g)
  <2>1. /\ child[g] = "swap" /\ child' = [child EXCEPT ![g] = "loop"]
        /\ queued' = [queued EXCEPT ![g] = TRUE]
        /\ UNCHANGED <<latest, shutdown, registry, seen, carry, entryVars,
                       innerVars, heard>>
    BY <1>2 DEF TryQueue
  <2>2. /\ notifications' \in Seq(Incarnations) /\ waiting' \in Seq(Incarnations)
        /\ Len(notifications') <= Capacity
        /\ \A h \in Incarnations \ {g} :
             /\ In(notifications', h) <=> In(notifications, h)
             /\ In(waiting', h) <=> In(waiting, h)
             /\ Once(notifications, h) => Once(notifications', h)
             /\ Once(waiting, h) => Once(waiting', h)
        /\ In(notifications', g) \/ In(waiting', g) \/ queued[g]
        /\ queued[g] => UNCHANGED queueVars
        /\ ~queued[g] /\ ~UnderWay(g) =>
             /\ Once(notifications, g) => Once(notifications', g)
             /\ Once(waiting, g) => Once(waiting', g)
             /\ ~(In(notifications', g) /\ In(waiting', g))
    <3>1. /\ notifications \in Seq(Incarnations) /\ waiting \in Seq(Incarnations)
          /\ Len(notifications) \in Nat /\ Len(waiting) \in Nat
          /\ Len(notifications) <= Capacity /\ Capacity \in Nat
      BY NestedAssumption DEF Inv, TypeOK
    <3>2. CASE queued[g]
      BY <1>2, <3>1, <3>2 DEF TryQueue, queueVars
    <3>3. CASE ~queued[g] /\ Len(notifications) + Len(waiting) < Capacity
      <4>1. notifications' = Append(notifications, g) /\ waiting' = waiting
        BY <1>2, <3>3 DEF TryQueue
      <4>2. \A h : /\ In(notifications', h) <=> In(notifications, h) \/ h = g
                   /\ Once(notifications, h) /\ (h = g => ~In(notifications, h))
                        => Once(notifications', h)
        BY <3>1, <4>1, AppendIn
      <4>3. /\ notifications' \in Seq(Incarnations)
            /\ Len(notifications') = Len(notifications) + 1
        BY <3>1, <4>1, AppendProperties
      <4> QED
        BY <3>1, <3>3, <4>1, <4>2, <4>3 DEF UnderWay
    <3>4. CASE ~queued[g] /\ ~(Len(notifications) + Len(waiting) < Capacity)
      <4>1. waiting' = Append(waiting, g) /\ notifications' = notifications
        BY <1>2, <3>4 DEF TryQueue
      <4>2. \A h : /\ In(waiting', h) <=> In(waiting, h) \/ h = g
                   /\ Once(waiting, h) /\ (h = g => ~In(waiting, h))
                        => Once(waiting', h)
        BY <3>1, <4>1, AppendIn
      <4>3. waiting' \in Seq(Incarnations)
        BY <3>1, <4>1, AppendProperties
      <4> QED
        BY <3>1, <3>4, <4>1, <4>2, <4>3 DEF UnderWay
    <3> QED
      BY <3>2, <3>3, <3>4
  <2>3. TypeOK'
    BY <2>1, <2>2 DEF Inv, TypeOK, entryVars, innerVars
  <2>4. Order' /\ Stages' /\ EndpointLeadsToOwner'
    BY <2>1 DEF Inv, TypeOK, Order, Stages, EndpointLeadsToOwner,
                Live, Attached, EndpointForPath, Lost, entryVars, innerVars
  <2>5. Snapshots' /\ Row'
    BY <2>1 DEF Inv, TypeOK, Snapshots, Row, Live, entryVars, innerVars
  <2>6. Notices'
    <3> SUFFICES ASSUME NEW h \in Incarnations
                 PROVE  /\ fate[h] = "none" => ~queued'[h] /\ ~UnderWay(h)'
                        /\ fate[h] = "live" =>
                             /\ queued'[h] <=> UnderWay(h)'
                             /\ UnderWay(h)' => latest[h] # None
                             /\ Once(notifications', h) /\ Once(waiting', h)
                             /\ ~(In(notifications', h) /\ In(waiting', h))
      BY <2>1 DEF Notices, entryVars
    <3>1. CASE h # g
      BY <2>1, <2>2, <3>1 DEF Inv, Notices, UnderWay
    <3>2. CASE h = g
      <4>1. fate[g] # "none"
        BY <2>1 DEF Inv, Stages
      <4>2. fate[g] = "live" => latest[g] # None
        BY <2>1 DEF Inv, Snapshots
      <4>3. queued'[g]
        BY <2>1 DEF Inv, TypeOK
      <4>4. CASE queued[g]
        BY <2>2, <3>2, <4>1, <4>2, <4>3, <4>4
           DEF Inv, Notices, UnderWay, queueVars
      <4>5. CASE ~queued[g]
        BY <2>2, <3>2, <4>1, <4>2, <4>3, <4>5 DEF Inv, Notices, UnderWay
      <4> QED
        BY <4>4, <4>5
    <3> QED
      BY <3>1, <3>2
  <2>7. NoSnapshotIsForgotten'
    <3> SUFFICES ASSUME NEW h \in Live, latest[h] # shown
                 PROVE  handling = h \/ child'[h] = "swap" \/ UnderWay(h)'
      BY <2>1 DEF NoSnapshotIsForgotten, Live, entryVars
    <3>1. h \in Incarnations /\ fate[h] = "live"
      BY DEF Live
    <3>2. CASE h = g
      BY <2>1, <2>6, <3>1, <3>2 DEF Notices, Inv, TypeOK, entryVars
    <3>3. CASE h # g
      BY <2>1, <2>2, <3>1, <3>3
         DEF Inv, TypeOK, NoSnapshotIsForgotten, UnderWay
    <3> QED
      BY <3>2, <3>3
  <2> QED
    BY <2>3, <2>4, <2>5, <2>6, <2>7 DEF Inv
<1> QED
  BY <1>1, <1>2

\* A waiting sender gets its place.
LEMMA WaiterKeeps ==
  ASSUME Inv, WaiterSends
  PROVE  Inv'
<1> DEFINE w == Head(waiting)
<1>1. /\ waiting # <<>> /\ Len(notifications) < Capacity
      /\ notifications' = Append(notifications, w) /\ waiting' = Tail(waiting)
      /\ UNCHANGED <<child, shutdown, registry, seen, carry, entryVars, innerVars,
                     heard, cellVars>>
  BY DEF WaiterSends
<1>2. /\ notifications \in Seq(Incarnations) /\ waiting \in Seq(Incarnations)
      /\ Len(notifications) \in Nat /\ Capacity \in Nat
  BY NestedAssumption DEF Inv, TypeOK
<1>3. /\ w \in Incarnations /\ waiting' \in Seq(Incarnations)
      /\ \A h : /\ In(waiting, h) <=> In(waiting', h) \/ h = w
                /\ Once(waiting, h) =>
                     Once(waiting', h) /\ (h = w => ~In(waiting', h))
  BY <1>1, <1>2, TailIn
<1>4. /\ notifications' \in Seq(Incarnations)
      /\ Len(notifications') = Len(notifications) + 1
  BY <1>1, <1>2, <1>3, AppendProperties
<1>5. \A h : /\ In(notifications', h) <=> In(notifications, h) \/ h = w
             /\ Once(notifications, h) /\ (h = w => ~In(notifications, h))
                  => Once(notifications', h)
  BY <1>1, <1>2, <1>3, AppendIn
<1> HIDE DEF w
<1>6. TypeOK'
  <2>1. Len(notifications') <= Capacity
    BY <1>1, <1>2, <1>4
  <2> QED
    BY <1>1, <1>3, <1>4, <2>1 DEF Inv, TypeOK, entryVars, innerVars, cellVars
<1>7. Order' /\ Stages' /\ EndpointLeadsToOwner' /\ Snapshots' /\ Row'
  BY <1>1 DEF Inv, Order, Stages, EndpointLeadsToOwner, Snapshots, Row,
              Live, Attached, EndpointForPath, Lost, entryVars, innerVars, cellVars
<1>8. \A h : UnderWay(h)' <=> UnderWay(h)
  BY <1>3, <1>5 DEF UnderWay
<1>9. Notices'
  BY <1>1, <1>3, <1>5, <1>8 DEF Inv, Notices, UnderWay, entryVars, cellVars
<1>10. NoSnapshotIsForgotten'
  BY <1>1, <1>8 DEF Inv, NoSnapshotIsForgotten, Live, entryVars, cellVars
<1> QED
  BY <1>6, <1>7, <1>9, <1>10 DEF Inv

\* An aborted task is dropped.
LEMMA DropKeeps ==
  ASSUME Inv, NEW g \in Incarnations, Dropped(g)
  PROVE  Inv'
<1>1. /\ g \in aborted /\ child[g] \in {"start", "loop"}
      /\ child' = [child EXCEPT ![g] = "gone"]
      /\ shutdown' = [shutdown EXCEPT ![g] = "closed"]
      /\ registry' = IF child[g] = "loop" THEN None ELSE registry
      /\ UNCHANGED <<seen, carry, entryVars, innerVars, heard, cellVars, queueVars>>
  BY DEF Dropped
<1>2. TypeOK'
  BY <1>1 DEF Inv, TypeOK, entryVars, innerVars, cellVars, queueVars
<1>3. Order' /\ Stages'
  BY <1>1 DEF Inv, TypeOK, Order, Stages, entryVars, innerVars
<1>4. EndpointLeadsToOwner'
  <2>1. \A h \in Incarnations \ {g} : child'[h] = child[h]
    BY <1>1 DEF Inv, TypeOK
  <2>2. ~Attached(g)' /\ UNCHANGED fate
    BY <1>1 DEF Attached, Inv, TypeOK, entryVars
  <2>3. CASE child[g] = "loop"
    <3>1. Attached(g) /\ registry' = None
      BY <1>1, <2>3 DEF Attached
    <3> QED
      BY <2>1, <2>2, <3>1, DeregisterKeepsPath
  <2>4. CASE child[g] = "start"
    <3>1. ~Attached(g) /\ registry' = registry
      BY <1>1, <2>4 DEF Attached
    <3>2. \A h \in Incarnations : Attached(h)' <=> Attached(h)
      BY <2>1, <2>2, <3>1 DEF Attached
    <3>3. registry \in Incarnations \cup {None}
      BY DEF Inv, TypeOK
    <3>4. \A h : Lost(h)' <=> Lost(h)
      BY <2>2 DEF Lost
    <3>5. Live' = Live /\ Live \subseteq Incarnations
      BY <2>2 DEF Live
    <3> QED
      BY <3>1, <3>2, <3>3, <3>4, <3>5 DEF Inv, EndpointLeadsToOwner, EndpointForPath
  <2> QED
    BY <1>1, <2>3, <2>4
<1>5. Snapshots'
  BY <1>1 DEF Inv, TypeOK, Snapshots, entryVars, innerVars, cellVars
<1>6. Row' /\ Notices' /\ NoSnapshotIsForgotten'
  BY <1>1 DEF Inv, TypeOK, Row, Notices, NoSnapshotIsForgotten, Live, UnderWay,
              entryVars, cellVars, queueVars
<1> QED
  BY <1>2, <1>3, <1>4, <1>5, <1>6 DEF Inv

\* The parent spawns an incarnation, over a live one or not, ...
LEMMA SpawnKeeps ==
  ASSUME Inv, NEW g \in Incarnations, Spawn(g) \/ Restart(g)
  PROVE  Inv'
<1>0. SpawnChild(g) /\ restarts' \in Nat
  <2>1. Suspended[g] \in Nat /\ restarts \in Nat
    BY NestedAssumption DEF Inv, TypeOK, Incarnations
  <2>2. CASE Spawn(g)
    BY <2>1, <2>2 DEF Spawn
  <2>3. CASE Restart(g)
    BY <2>1, <2>3 DEF Restart
  <2> QED
    BY <2>2, <2>3
<1>1. /\ fate[g] = "none" /\ \A h \in 1..(g - 1) : fate[h] # "none"
      /\ \A h \in Incarnations :
           fate'[h] = IF h = g THEN "live"
                      ELSE IF fate[h] = "live" THEN "superseded" ELSE fate[h]
      /\ child' = [child EXCEPT ![g] = "start"]
      /\ shown' = None /\ handling = None
      /\ UNCHANGED <<cancelled, aborted, handling, shutdown, registry, seen, carry,
                     innerVars, heard, cellVars, queueVars>>
  BY <1>0 DEF SpawnChild, Live
<1>2. child[g] = "none"
  BY <1>1 DEF Inv, Stages
<1>3. Live' = {g}
  BY <1>1 DEF Live
<1>5. TypeOK'
  <2>1. fate' \in [Incarnations -> {"none", "live", "joined", "detached", "superseded"}]
    <3>1. DOMAIN fate' = Incarnations /\ fate' = [h \in Incarnations |-> fate'[h]]
      BY <1>0 DEF SpawnChild
    <3>2. \A h \in Incarnations :
            fate'[h] \in {"none", "live", "joined", "detached", "superseded"}
      BY <1>1 DEF Inv, TypeOK
    <3> QED
      BY <3>1, <3>2
  <2> QED
    BY <1>0, <1>1, <2>1 DEF Inv, TypeOK, innerVars, cellVars, queueVars
<1>6. Order'
  <2> SUFFICES ASSUME NEW a \in Incarnations, NEW b \in Incarnations,
                      a < b, fate'[b] # "none"
               PROVE  fate'[a] \in {"joined", "detached", "superseded"}
    BY DEF Order
  <2>1. CASE b = g
    <3>1. a \in 1..(g - 1) /\ a # g
      BY <2>1, NestedAssumption DEF Incarnations
    <3>2. fate[a] # "none"
      BY <1>1, <3>1
    <3> QED
      BY <1>1, <3>1, <3>2 DEF Inv, TypeOK
  <2>2. CASE b # g
    <3>1. fate[b] # "none"
      BY <1>1, <2>2
    <3>2. fate[a] \in {"joined", "detached", "superseded"}
      BY <3>1 DEF Inv, Order
    <3> QED
      BY <1>1, <3>2
  <2> QED
    BY <2>1, <2>2
<1>7. Stages'
  BY <1>1, <1>2 DEF Inv, TypeOK, Stages, innerVars
<1>8. EndpointLeadsToOwner'
  <2>1. ~Attached(g) /\ ~Attached(g)'
    BY <1>1, <1>2 DEF Attached, Inv, TypeOK
  <2>2. ASSUME NEW h \in Incarnations
        PROVE  /\ Attached(h)' <=> Attached(h)
               /\ h \in Live \/ Lost(h) => h \in Live' \/ Lost(h)'
    BY <1>1, <2>1 DEF Attached, Live, Lost, Inv, TypeOK
  <2>3. registry' = registry /\ registry \in Incarnations \cup {None}
    BY <1>1 DEF Inv, TypeOK
  <2> QED
    BY <1>3, <2>1, <2>2, <2>3 DEF Inv, EndpointLeadsToOwner, EndpointForPath
<1>9. Snapshots'
  BY <1>1, <1>2 DEF Inv, TypeOK, Snapshots, innerVars, cellVars
<1>10. Row'
  BY <1>1, <1>3 DEF Row
<1>11. ~queued[g] /\ ~UnderWay(g)
  BY <1>1 DEF Inv, Notices
<1>12. UNCHANGED <<queued, latest, notifications, waiting>>
  BY <1>1 DEF cellVars, queueVars
<1>13. Notices'
  <2>1. \A h : UnderWay(h)' <=> UnderWay(h)
    BY <1>12 DEF UnderWay
  <2>2. Once(notifications, g) /\ Once(waiting, g)
    BY <1>11 DEF UnderWay, Once, In
  <2>3. ~In(notifications, g)
    BY <1>11 DEF UnderWay
  <2> QED
    BY <1>1, <1>11, <1>12, <2>1, <2>2, <2>3 DEF Inv, TypeOK, Notices
<1>14. NoSnapshotIsForgotten'
  <2>1. latest[g] = None
    BY <1>2 DEF Inv, Snapshots
  <2> QED
    BY <1>1, <1>3, <1>12, <2>1 DEF NoSnapshotIsForgotten
<1> QED
  BY <1>5, <1>6, <1>7, <1>8, <1>9, <1>10, <1>13, <1>14 DEF Inv

\* ... cancels the token and aborts the task.
LEMMA CancelKeeps ==
  ASSUME Inv, NEW g \in Incarnations, Cancel(g) \/ AbortTask(g)
  PROVE  Inv'
<1>1. /\ aborted \subseteq aborted' /\ aborted' \subseteq Incarnations
      /\ cancelled' \subseteq Incarnations
      /\ UNCHANGED <<fate, restarts, shown, handling, child, shutdown, registry,
                     seen, carry, innerVars, heard, cellVars, queueVars>>
  BY DEF Cancel, AbortTask, Inv, TypeOK
<1>2. TypeOK'
  BY <1>1 DEF Inv, TypeOK, innerVars, cellVars, queueVars
<1>3. Order' /\ Stages' /\ EndpointLeadsToOwner'
  BY <1>1 DEF Inv, Order, Stages, EndpointLeadsToOwner, Live, Attached,
              EndpointForPath, Lost, innerVars
<1>4. Snapshots' /\ Row'
  BY <1>1 DEF Inv, Snapshots, Row, Live, innerVars, cellVars
<1>5. Notices' /\ NoSnapshotIsForgotten'
  BY <1>1 DEF Inv, Notices, NoSnapshotIsForgotten, Live, UnderWay, cellVars,
              queueVars
<1> QED
  BY <1>2, <1>3, <1>4, <1>5 DEF Inv

\* ... and gives up a restart.
LEMMA GiveUpKeeps ==
  ASSUME Inv, RestartGivenUp
  PROVE  Inv'
<1>1. /\ restarts' \in Nat
      /\ UNCHANGED <<fate, cancelled, aborted, shown, handling, child, shutdown,
                     registry, seen, carry, innerVars, heard, cellVars, queueVars>>
  BY DEF RestartGivenUp, Inv, TypeOK
<1>2. TypeOK'
  BY <1>1 DEF Inv, TypeOK, innerVars, cellVars, queueVars
<1>3. Order' /\ Stages' /\ EndpointLeadsToOwner'
  BY <1>1 DEF Inv, Order, Stages, EndpointLeadsToOwner, Live, Attached,
              EndpointForPath, Lost, innerVars
<1>4. Snapshots' /\ Row'
  BY <1>1 DEF Inv, Snapshots, Row, Live, innerVars, cellVars
<1>5. Notices' /\ NoSnapshotIsForgotten'
  BY <1>1 DEF Inv, Notices, NoSnapshotIsForgotten, Live, UnderWay, cellVars,
              queueVars
<1> QED
  BY <1>2, <1>3, <1>4, <1>5 DEF Inv

\* Without its live incarnation the child shows nothing.
LEMMA NoneLive ==
  ASSUME Order, TypeOK, NEW g \in Live, NEW fates, fates # "live",
         fate' = [fate EXCEPT ![g] = fates]
  PROVE  Live' = {} /\ Live = {g}
<1>1. \A h \in Live : h = g
  <2> SUFFICES ASSUME NEW h \in Live, h # g PROVE FALSE
    OBVIOUS
  <2>1. h < g \/ g < h
    BY DEF Live, Incarnations
  <2> QED
    BY <2>1 DEF Live, Order
<1> QED
  BY <1>1 DEF Live, TypeOK

\* The parent joins the task, or gives it up.
LEMMA EndKeeps ==
  ASSUME Inv, NEW g \in Incarnations, Join(g) \/ Detach(g)
  PROVE  Inv'
<1>1. /\ handling = None /\ fate[g] = "live"
      /\ fate' = [fate EXCEPT ![g] = IF Join(g) THEN "joined" ELSE "detached"]
      /\ shown' = None
      /\ latest' = [latest EXCEPT ![g] = None]
      /\ queued' = [queued EXCEPT ![g] = FALSE]
      /\ restarts' \in {restarts, restarts + 1}
      /\ UNCHANGED <<cancelled, aborted, handling, child, shutdown, registry,
                     inner, queueVars>>
  BY DEF Join, Detach, Forget, innerVars
<1> DEFINE end == IF Join(g) THEN "joined" ELSE "detached"
<1>2. /\ end \in {"joined", "detached"}
      /\ end = "joined" => child[g] \in {"returned", "gone"}
      /\ end = "detached" => g \in aborted
  BY DEF Join, Detach
<1>3. \/ UNCHANGED <<version, sent, seen, carry, heard>>
      \/ /\ version' = [version EXCEPT ![g] = 0] /\ sent' = [sent EXCEPT ![g] = 0]
         /\ seen' = [seen EXCEPT ![g] = 0] /\ heard' = [heard EXCEPT ![g] = 0]
         /\ carry' = [carry EXCEPT ![g] = None]
         /\ child[g] \in {"returned", "gone"}
  BY DEF Join, Detach, Forget, innerVars
<1>4. Live = {g} /\ Live' = {}
  BY <1>1, <1>2, NoneLive DEF Live, Inv
<1>0. fate' = [fate EXCEPT ![g] = end]
  BY <1>1
<1> HIDE DEF end
<1>5. TypeOK'
  <2>1. Versions[g] \in Nat /\ None \notin Nat
    BY NestedAssumption DEF Incarnations
  <2>2. /\ fate' \in [Incarnations -> {"none", "live", "joined", "detached",
                                      "superseded"}]
        /\ restarts' \in Nat
        /\ queued' \in [Incarnations -> BOOLEAN]
        /\ UNCHANGED <<child, inner, cancelled, aborted, shutdown, registry,
                       notifications, waiting, handling>>
    BY <1>0, <1>1, <1>2 DEF Inv, TypeOK, queueVars
  <2>3. /\ version' \in [Incarnations -> Nat] /\ sent' \in [Incarnations -> Nat]
        /\ seen' \in [Incarnations -> Nat] /\ heard' \in [Incarnations -> Nat]
        /\ carry' \in [Incarnations -> Nat \cup {None}]
        /\ latest' \in [Incarnations -> Nat \cup {None}]
    <3>1. CASE UNCHANGED <<version, sent, seen, carry, heard>>
      BY <1>1, <3>1 DEF Inv, TypeOK
    <3>2. CASE /\ version' = [version EXCEPT ![g] = 0]
               /\ sent' = [sent EXCEPT ![g] = 0]
               /\ seen' = [seen EXCEPT ![g] = 0]
               /\ heard' = [heard EXCEPT ![g] = 0]
               /\ carry' = [carry EXCEPT ![g] = None]
      BY <1>1, <3>2 DEF Inv, TypeOK
    <3> QED
      BY <1>3, <3>1, <3>2
  <2>4. \A h \in Incarnations :
          /\ version'[h] <= Versions[h]
          /\ sent'[h] <= version'[h]
          /\ seen'[h] <= version'[h] /\ heard'[h] <= sent'[h]
          /\ carry'[h] # None => carry'[h] <= version'[h]
          /\ latest'[h] # None => latest'[h] <= version'[h]
    <3> TAKE h \in Incarnations
    <3>1. /\ version[h] <= Versions[h]
          /\ sent[h] <= version[h]
          /\ seen[h] <= version[h] /\ heard[h] <= sent[h]
          /\ carry[h] # None => carry[h] <= version[h]
          /\ latest[h] # None => latest[h] <= version[h]
      BY DEF Inv, TypeOK
    <3>2. latest'[h] = IF h = g THEN None ELSE latest[h]
      BY <1>1 DEF Inv, TypeOK
    <3>3. CASE UNCHANGED <<version, sent, seen, carry, heard>>
      BY <3>1, <3>2, <3>3
    <3>4. CASE /\ version' = [version EXCEPT ![g] = 0]
               /\ sent' = [sent EXCEPT ![g] = 0]
               /\ seen' = [seen EXCEPT ![g] = 0]
               /\ heard' = [heard EXCEPT ![g] = 0]
               /\ carry' = [carry EXCEPT ![g] = None]
      <4>1. /\ version'[h] = IF h = g THEN 0 ELSE version[h]
            /\ sent'[h] = IF h = g THEN 0 ELSE sent[h]
            /\ seen'[h] = IF h = g THEN 0 ELSE seen[h]
            /\ heard'[h] = IF h = g THEN 0 ELSE heard[h]
            /\ carry'[h] = IF h = g THEN None ELSE carry[h]
        BY <3>4 DEF Inv, TypeOK
      <4> QED
        BY <2>1, <3>1, <3>2, <4>1
    <3> QED
      BY <1>3, <3>3, <3>4
  <2>5. /\ child' \in [Incarnations -> {"none", "start", "attach", "loop", "replace",
                                       "swap", "returned", "gone"}]
        /\ inner' \in [Incarnations -> {"none", "running", "stopped"}]
        /\ cancelled' \subseteq Incarnations /\ aborted' \subseteq Incarnations
    BY <2>2 DEF Inv, TypeOK
  <2>6. /\ shutdown' \in [Incarnations -> {"open", "requested", "closed"}]
        /\ notifications' \in Seq(Incarnations) /\ waiting' \in Seq(Incarnations)
        /\ Len(notifications') <= Capacity
        /\ handling' \in Incarnations \cup {None}
        /\ shown' \in Nat \cup {None}
        /\ registry' \in Incarnations \cup {None}
    BY <1>1, <2>2 DEF Inv, TypeOK
  <2> QED
    BY <2>2, <2>3, <2>4, <2>5, <2>6 DEF TypeOK
<1>6. Order' /\ Stages'
  BY <1>0, <1>1, <1>2 DEF Inv, TypeOK, Order, Stages
<1>7. EndpointLeadsToOwner'
  <2>1. registry' = registry /\ registry \in Incarnations \cup {None} /\ child' = child
    BY <1>1 DEF Inv, TypeOK
  <2>2. \A h \in Incarnations : Lost(h) => Lost(h)'
    BY <1>0, <1>1 DEF Lost, Inv, TypeOK
  <2>3. registry = g => Lost(g)'
    <3>1. registry = g => Attached(g)
      BY <1>1, NestedAssumption
         DEF Inv, EndpointLeadsToOwner, EndpointForPath, Incarnations
    <3>2. end = "detached" => Lost(g)'
      BY <1>0 DEF Lost, Inv, TypeOK
    <3> QED
      BY <1>2, <3>1, <3>2 DEF Attached
  <2>4. registry # None => Attached(registry)' /\ Lost(registry)'
    <3>1. registry # None => Attached(registry) /\ (registry = g \/ Lost(registry))
      BY <1>4 DEF Inv, EndpointLeadsToOwner, EndpointForPath
    <3> QED
      BY <2>1, <2>2, <2>3, <3>1 DEF Attached
  <2> QED
    BY <1>4, <2>1, <2>4 DEF EndpointLeadsToOwner, EndpointForPath
<1>8. Snapshots'
  BY <1>0, <1>1, <1>2, <1>3 DEF Inv, TypeOK, Stages, Snapshots
<1>9. Row' /\ NoSnapshotIsForgotten'
  BY <1>1, <1>4 DEF Row, NoSnapshotIsForgotten
<1>10. Notices'
  <2>1. \A h : UnderWay(h)' <=> UnderWay(h)
    BY <1>1 DEF UnderWay, queueVars
  <2>2. \A h \in Incarnations : fate'[h] # "live"
    BY <1>4 DEF Live
  <2>3. \A h \in Incarnations : fate'[h] = "none" => fate[h] = "none" /\ h # g
    BY <1>0, <1>1, <1>2 DEF Inv, TypeOK
  <2> QED
    BY <1>1, <2>1, <2>2, <2>3 DEF Inv, TypeOK, Notices
<1> QED
  BY <1>5, <1>6, <1>7, <1>8, <1>9, <1>10 DEF Inv

\* The parent takes a notification: it clears the flag ...
LEMMA DequeueKeeps ==
  ASSUME Inv, Dequeue
  PROVE  Inv'
<1>0. PICK g : g = Head(notifications)
  OBVIOUS
<1>1. /\ handling = None /\ notifications # <<>>
      /\ notifications' = Tail(notifications)
      /\ fate[g] = "live" => handling' = g /\ queued' = [queued EXCEPT ![g] = FALSE]
      /\ fate[g] # "live" => UNCHANGED <<handling, queued>>
      /\ UNCHANGED <<fate, restarts, cancelled, aborted, shown, latest, waiting,
                     child, shutdown, registry, seen, carry, innerVars, heard>>
  BY <1>0 DEF Dequeue
<1>2. notifications \in Seq(Incarnations) /\ Len(notifications) \in Nat
  BY DEF Inv, TypeOK
<1>3. /\ g \in Incarnations /\ notifications' \in Seq(Incarnations)
      /\ Len(notifications') = Len(notifications) - 1
      /\ \A h : /\ In(notifications, h) <=> In(notifications', h) \/ h = g
                /\ Once(notifications, h) =>
                     Once(notifications', h) /\ (h = g => ~In(notifications', h))
  BY <1>0, <1>1, <1>2, TailIn
<1>4. UnderWay(g)
  BY <1>3 DEF UnderWay
<1>5. TypeOK'
  <2>1. Len(notifications') <= Capacity
    BY <1>2, <1>3, NestedAssumption DEF Inv, TypeOK
  <2>2. handling' \in Incarnations \cup {None} /\ queued' \in [Incarnations -> BOOLEAN]
    BY <1>1, <1>3 DEF Inv, TypeOK
  <2> QED
    BY <1>1, <1>3, <2>1, <2>2 DEF Inv, TypeOK, innerVars
<1>6. Order' /\ Stages' /\ EndpointLeadsToOwner' /\ Snapshots'
  BY <1>1 DEF Inv, Order, Stages, EndpointLeadsToOwner, Snapshots, Live,
              Attached, EndpointForPath, Lost, innerVars
<1>7. Row'
  BY <1>1, <1>3, <1>4 DEF Inv, Row, Notices, Live
<1>8. \A h \in Incarnations \ {g} : UnderWay(h)' <=> UnderWay(h)
  BY <1>1, <1>3 DEF UnderWay
<1>9. Notices'
  <2>1. \A h \in Incarnations \ {g} : queued'[h] = queued[h]
    BY <1>1 DEF Inv, TypeOK
  <2>2. fate[g] # "none"
    BY <1>3, <1>4 DEF Inv, Notices
  <2>3. fate[g] = "live" => ~queued'[g] /\ ~UnderWay(g)'
    <3> SUFFICES ASSUME fate[g] = "live" PROVE ~queued'[g] /\ ~UnderWay(g)'
      OBVIOUS
    <3>1. ~queued'[g]
      BY <1>1, <1>3 DEF Inv, TypeOK
    <3>2. In(notifications, g)
      BY <1>3
    <3>3. Once(notifications, g) /\ ~In(waiting, g)
      BY <1>3, <3>2 DEF Inv, Notices
    <3>4. ~In(notifications', g) /\ ~In(waiting', g)
      BY <1>1, <1>3, <3>3
    <3> QED
      BY <3>1, <3>4 DEF UnderWay
  <2> QED
    BY <1>1, <1>3, <1>8, <2>1, <2>2, <2>3 DEF Inv, Notices, UnderWay
<1>10. NoSnapshotIsForgotten'
  <2> SUFFICES ASSUME NEW h \in Live, latest[h] # shown
               PROVE  handling' = h \/ child[h] = "swap" \/ UnderWay(h)'
    BY <1>1 DEF NoSnapshotIsForgotten, Live
  <2>1. h \in Incarnations /\ fate[h] = "live"
    BY DEF Live
  <2> QED
    BY <1>1, <1>8, <2>1, NestedAssumption
       DEF Inv, NoSnapshotIsForgotten, Incarnations
<1> QED
  BY <1>5, <1>6, <1>7, <1>9, <1>10 DEF Inv

\* ... and publishes the snapshot.
LEMMA ReadKeeps ==
  ASSUME Inv, ReadLatest
  PROVE  Inv'
<1>1. /\ handling # None /\ handling' = None /\ shown' = latest[handling]
      /\ UNCHANGED <<fate, restarts, cancelled, aborted, child, shutdown, registry,
                     seen, carry, innerVars, heard, cellVars, queueVars>>
  BY DEF ReadLatest
<1>2. handling \in Live /\ handling \in Incarnations
  BY <1>1 DEF Inv, Row, Live
<1>3. Live = {handling}
  <2> SUFFICES ASSUME NEW h \in Live, h # handling PROVE FALSE
    BY <1>2
  <2>1. h < handling \/ handling < h
    BY <1>2 DEF Live, Incarnations
  <2> QED
    BY <1>2, <2>1 DEF Live, Inv, Order
<1>4. latest[handling] \in Nat
  BY <1>1, <1>2 DEF Inv, TypeOK, Row
<1>5. TypeOK'
  BY <1>1, <1>4 DEF Inv, TypeOK, innerVars, cellVars, queueVars
<1>6. Order' /\ Stages' /\ EndpointLeadsToOwner' /\ Snapshots'
  BY <1>1 DEF Inv, Order, Stages, EndpointLeadsToOwner, Snapshots, Live,
              Attached, EndpointForPath, Lost, innerVars, cellVars
<1>7. Live' = Live /\ latest' = latest
  BY <1>1 DEF Live, cellVars
<1>8. Row'
  BY <1>1, <1>3, <1>4, <1>7 DEF Inv, Row
<1>9. Notices'
  BY <1>1 DEF Inv, Notices, UnderWay, cellVars, queueVars
<1>10. NoSnapshotIsForgotten'
  BY <1>1, <1>3, <1>7 DEF NoSnapshotIsForgotten
<1> QED
  BY <1>5, <1>6, <1>8, <1>9, <1>10 DEF Inv

-----------------------------------------------------------------------------
\* Every step keeps the invariant.
LEMMA NextKeeps == Inv /\ [Next]_vars => Inv'
<1> SUFFICES ASSUME Inv, [Next]_vars PROVE Inv'
  OBVIOUS
<1>1. CASE \E g \in Incarnations : InnerSupervisor(g) \/ RunAsChild(g) \/ Dropped(g)
  BY <1>1, InnerKeeps, StartKeeps, LoopKeeps, ForwardKeeps, DropKeeps DEF RunAsChild
<1>2. CASE WaiterSends
  BY <1>2, WaiterKeeps
<1>3. CASE Parent
  BY <1>3, SpawnKeeps, CancelKeeps, GiveUpKeeps, EndKeeps, DequeueKeeps, ReadKeeps DEF Parent
<1>4. CASE UNCHANGED vars
  <2>1. TypeOK'
    BY <1>4 DEF Inv, TypeOK, vars, entryVars, innerVars, cellVars, queueVars
  <2>2. Order' /\ Stages' /\ EndpointLeadsToOwner' /\ Snapshots' /\ Row'
    BY <1>4 DEF Inv, Order, Stages, EndpointLeadsToOwner, Snapshots, Row, Live,
                Attached, EndpointForPath, Lost, vars, entryVars, innerVars, cellVars
  <2>3. Notices' /\ NoSnapshotIsForgotten'
    BY <1>4 DEF Inv, Notices, NoSnapshotIsForgotten, Live, UnderWay, vars,
                entryVars, cellVars, queueVars
  <2> QED
    BY <2>1, <2>2, <2>3 DEF Inv
<1> QED
  BY <1>1, <1>2, <1>3, <1>4 DEF Next

\* The inductive invariant: what the entries, the tasks and the inner
\* supervisors know of one another, and where each snapshot and each
\* notification is (supervisor.rs, snapshot.rs, supervision.rs).
THEOREM InvTheorem == Spec => []Inv
  BY Initially, NextKeeps, PTL DEF Spec

\* The variables hold what the program keeps in them; the counters of snapshots
\* and events never overtake the inner supervisor, and the channel of
\* notifications never holds more than its capacity.
THEOREM TypeCorrect == Spec => []TypeOK
<1>1. Inv => TypeOK
  BY DEF Inv
<1> QED
  BY <1>1, InvTheorem, PTL

\* The path of add_child_at and remove_child_at (handle.rs) leads to the present
\* incarnation while its run_as_child is at work, unless an earlier task was
\* detached or superseded, and never to one whose run_as_child is over.
THEOREM EndpointTheorem == Spec => []EndpointLeadsToOwner
<1>1. Inv => EndpointLeadsToOwner
  BY DEF Inv
<1> QED
  BY <1>1, InvTheorem, PTL

\* Two incarnations of a supervised supervisor overlap only if the task of the
\* earlier was aborted, or superseded by a restart that was suspended over a
\* recycled slot (supervision.rs, handle_one_for_one_restart, which spawns whatever
\* is in the slot).
THEOREM OneInnerTheorem == Spec => []OneInnerSupervisor
<1>1. Inv => OneInnerSupervisor
  <2> SUFFICES ASSUME Inv, NEW g \in Incarnations, NEW h \in Incarnations,
                      g < h, Runs(g), Runs(h)
               PROVE  g \in aborted \/ fate[g] = "superseded"
    BY DEF OneInnerSupervisor
  <2>1. fate[h] # "none"
    BY DEF Inv, Stages, Runs
  <2>2. fate[g] \in {"joined", "detached", "superseded"}
    BY <2>1 DEF Inv, Order
  <2> QED
    BY <2>2 DEF Inv, Stages, Runs
<1> QED
  BY <1>1, InvTheorem, PTL

\* The forwarder's exchange of the flag and the parent's clearing it before it
\* reads (snapshot.rs, NestedSnapshotState; supervision.rs,
\* handle_nested_snapshot) lose nothing: while the row is behind what was
\* stored, somebody is on the way to update it.
THEOREM NotificationTheorem == Spec => []NoSnapshotIsForgotten
<1>1. Inv => NoSnapshotIsForgotten
  BY DEF Inv
<1> QED
  BY <1>1, InvTheorem, PTL

-----------------------------------------------------------------------------
(* The row as a view of the present inner supervisor.                      *)

\* The state of the view while g is live, ...
LEMMA ViewOfLive ==
  ASSUME Inv, NEW g \in Live
  PROVE  Live = {g}
<1> SUFFICES ASSUME NEW h \in Live, h # g PROVE FALSE
  OBVIOUS
<1>1. h < g \/ g < h
  BY DEF Live, Incarnations
<1> QED
  BY <1>1 DEF Live, Inv, Order

\* ... and of every step of the nested supervisor that is no step of the view.
LEMMA ViewStutters ==
  ASSUME Inv, UNCHANGED <<fate, shown>>,
         \A g \in Live : version'[g] = version[g]
  PROVE  UNCHANGED View!vars
<1>1. Live' = Live
  BY DEF Live
<1>2. CASE Live = {}
  BY <1>1, <1>2 DEF View!vars, Owner
<1>3. ASSUME NEW g \in Live
      PROVE  UNCHANGED View!vars
  <2>1. Live = {g} /\ Live' = {g}
    BY <1>1, ViewOfLive
  <2>2. Owner = g /\ Owner' = g
    BY <2>1 DEF Owner
  <2> QED
    BY <2>1, <2>2 DEF View!vars
<1> QED
  BY <1>2, <1>3

\* Spawn begins the view, what the live incarnation publishes is written, what
\* the parent reads is shown, and Join and Detach end the view.
LEMMA ViewStep == Inv /\ [Next]_vars => [View!Next]_View!vars
<1> SUFFICES ASSUME Inv, [Next]_vars PROVE View!Next \/ UNCHANGED View!vars
  OBVIOUS
<1>1. None \notin Incarnations /\ None \notin Nat
  BY NestedAssumption DEF Incarnations
<1>2. ASSUME NEW g \in Incarnations, Spawn(g) \/ Restart(g)
      PROVE  View!Next
  <2>1. /\ SpawnChild(g) /\ fate[g] = "none"
        /\ shown' = None /\ version' = version
    BY <1>2 DEF Spawn, Restart, SpawnChild, innerVars
  <2>2. Live' = {g} /\ g \notin Live
    BY <2>1 DEF SpawnChild, Live
  <2>3. Owner' = g /\ Owner # g
    BY <1>1, <2>2 DEF Owner
  <2>4. version'[g] = 0
    BY <2>1 DEF Inv, Stages, Snapshots
  <2> QED
    BY <2>1, <2>2, <2>3, <2>4 DEF View!Next, View!Begin
<1>3. ASSUME NEW g \in Incarnations, Join(g) \/ Detach(g)
      PROVE  View!Next
  <2>1. g \in Live /\ shown' = None
    BY <1>3 DEF Join, Detach, Live
  <2>2. PICK end \in {"joined", "detached"} : fate' = [fate EXCEPT ![g] = end]
    BY <1>3 DEF Join, Detach
  <2>3. Live = {g} /\ Live' = {}
    BY <2>1, <2>2, NoneLive DEF Inv
  <2>4. Owner = g /\ Owner' = None
    BY <2>3 DEF Owner
  <2> QED
    BY <1>1, <2>1, <2>3, <2>4 DEF View!Next, View!End
<1>4. ASSUME NEW g \in Incarnations, Publish(g)
      PROVE  View!Next \/ UNCHANGED View!vars
  <2>1. /\ version' = [version EXCEPT ![g] = version[g] + 1]
        /\ UNCHANGED <<fate, shown>>
    BY <1>4 DEF Publish, entryVars
  <2>2. CASE g \in Live
    <3>1. Live = {g} /\ Live' = {g}
      BY <2>1, <2>2, ViewOfLive DEF Live
    <3>2. Owner = g /\ Owner' = g
      BY <3>1 DEF Owner
    <3>3. version'[g] = version[g] + 1
      BY <2>1 DEF Inv, TypeOK
    <3> QED
      BY <1>1, <2>1, <3>1, <3>2, <3>3 DEF View!Next, View!Write
  <2>3. CASE g \notin Live
    <3>1. \A h \in Live : version'[h] = version[h]
      BY <2>1, <2>3 DEF Live, Inv, TypeOK
    <3> QED
      BY <2>1, <3>1, ViewStutters
  <2> QED
    BY <2>2, <2>3
<1>5. ASSUME ReadLatest
      PROVE  View!Next \/ UNCHANGED View!vars
  <2>1. PICK g : g = handling
    OBVIOUS
  <2>2. /\ g \in Live /\ g \in Incarnations /\ shown' = latest[g]
        /\ UNCHANGED <<fate, version>>
    BY <1>5, <2>1 DEF ReadLatest, Inv, Row, Live, innerVars
  <2>3. Live = {g} /\ Live' = {g}
    BY <2>2, ViewOfLive DEF Live
  <2>4. Owner = g /\ Owner' = g
    BY <2>3 DEF Owner
  <2>5. /\ latest[g] \in Nat /\ version[g] \in Nat /\ latest[g] <= version[g]
        /\ shown # None => shown \in Nat /\ shown <= latest[g]
    BY <1>5, <2>1, <2>2 DEF ReadLatest, Inv, TypeOK, Row
  <2>6. CASE shown = latest[g]
    BY <2>2, <2>6, ViewStutters
  <2>7. CASE shown # latest[g]
    <3>1. shown # version[g]
      BY <1>1, <2>5, <2>7
    <3>2. shown' \in (IF shown = None THEN 0 ELSE shown + 1)..version[g]
      BY <2>2, <2>5, <2>7
    <3> QED
      BY <1>1, <2>2, <2>3, <2>4, <3>1, <3>2 DEF View!Next, View!Show
  <2> QED
    BY <2>6, <2>7
<1>6. ASSUME UNCHANGED <<fate, shown, version>>
      PROVE  UNCHANGED View!vars
  BY <1>6, ViewStutters
<1>7. CASE \E g \in Incarnations :
             SendEvent(g) \/ InnerEnds(g) \/ RunAsChild(g) \/ Dropped(g) \/ Cancel(g) \/ AbortTask(g)
  <2>1. UNCHANGED <<fate, shown, version>>
    BY <1>7 DEF SendEvent, InnerEnds, RunAsChild, StartInner, Attach, Wait, Event, Changed,
                TokenCancelled, Replace, TryQueue, Dropped, Cancel, AbortTask,
                entryVars, innerVars
  <2> QED
    BY <1>6, <2>1
<1>8. CASE WaiterSends \/ RestartGivenUp \/ Dequeue \/ UNCHANGED vars
  <2>1. UNCHANGED <<fate, shown, version>>
    BY <1>8 DEF WaiterSends, RestartGivenUp, Dequeue, vars, entryVars, innerVars
  <2> QED
    BY <1>6, <2>1
<1> QED
  BY <1>2, <1>3, <1>4, <1>5, <1>7, <1>8 DEF Next, InnerSupervisor, Parent

\* The row of the child is a view of its present inner supervisor as far as
\* safety goes (snapshot.rs, NestedSnapshotState): whatever is coalesced, sent
\* late or left over, it shows a snapshot that was published, never goes back and
\* never shows an earlier incarnation.
THEOREM RefinementTheorem == Spec => View!Init /\ [][View!Next]_View!vars
<1>1. Init => View!Init
  BY DEF Init, View!Init, Owner, Live
<1> QED
  BY <1>1, ViewStep, InvTheorem, PTL DEF Spec

===============================================================================
