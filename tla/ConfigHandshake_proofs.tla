------------------------ MODULE ConfigHandshake_proofs ------------------------
(***************************************************************************)
(* What holds of the start of a scenario for every number of vehicles,     *)
(* every depth of the topic, and whatever is lost.                         *)
(***************************************************************************)
EXTENDS ConfigHandshake, FiniteSetTheorems, SequenceTheorems, TLAPS

-----------------------------------------------------------------------------
(***************************************************************************)
(* The inductive invariant.  All messages of a role are equal once they    *)
(* are sent, and before that there is nothing the manager could work on.   *)
(***************************************************************************)
Configured == Executor!Configured
Announced == phase \in {"publishing", "running"}

\* The configurations on their way or at the manager are among these.
Sent == {Executor!Message(r) : r \in Configured}

Fleet ==
    /\ configs \in [Roles -> 0..N]
    /\ ResendsAreKnown
    /\ Announced => total = Cardinality(Configured)
    /\ ~Announced => toSend = {} /\ resend = {}

Untouched ==
    /\ cfgTopic = << >> /\ pending = {} /\ current = NoConfig /\ tasks = {}
    /\ received = {} /\ acked = {} /\ ~totalReceived /\ ~started

Messages ==
    /\ cfgTopic \in Seq(Sent)
    /\ pending \subseteq Sent
    /\ current \in Sent \cup {NoConfig}
    /\ ~Announced => Untouched

\* Where the builder is, and which roles it will still find unserved.
Building ==
    /\ current # NoConfig <=> builder \in Manager!InSpawnDriver
    /\ builder \in {"control", "report", "launch"} => <<current.role, current.id, "plan">> \in tasks
    /\ builder \in {"report", "launch"} => <<current.role, current.id, "control">> \in tasks
    /\ builder \in {"construct", "plan", "control", "report"} => current.role \notin acked

Apart ==
    /\ acked \subseteq received
    /\ current # NoConfig => current.role \in received
    /\ \A c \in pending :
          /\ c.role \in received /\ c.role \notin acked
          /\ current # NoConfig => c.role # current.role

Served ==
    /\ OnlyConfigured
    /\ acked \subseteq Configured
    /\ \A r \in acked, kind \in Manager!Kinds : <<r, configs[r], kind>> \in tasks
    /\ ackTopic \subseteq acked
    /\ SilentOnlyWhenServed

Counted ==
    /\ created = Cardinality(acked)
    /\ expected = IF totalReceived THEN total ELSE 0
    /\ started => Configured \subseteq acked

Inv == Fleet /\ Messages /\ Building /\ Apart /\ Served /\ Counted

\* A configuration names a vehicle and determines everything else.
LEMMA MessageIs ==
    ASSUME Fleet, NEW c \in Sent
    PROVE  /\ c.role \in Configured /\ c.id = configs[c.role] /\ c.total = total
           /\ c = Executor!Message(c.role)
           /\ Announced => c # NoConfig
<1>1. PICK r \in Configured : c = Executor!Message(r)
  BY DEF Sent
<1>2. c = [role |-> r, id |-> configs[r], total |-> total]
  BY <1>1 DEF Executor!Message
<1>3. r \in Roles /\ configs[r] \in 0..N
  BY DEF Configured, Executor!Configured, Fleet
<1>4. ASSUME Announced PROVE c # NoConfig
  <2>1. IsFiniteSet(Configured)
    BY HandshakeAssumption, FS_Subset DEF Configured, Executor!Configured
  <2>2. total \in Nat
    BY <1>4, <2>1, FS_CardinalityType DEF Fleet
  <2>3. c \in [role : Roles, id : 0..N, total : Nat]
    BY <1>2, <1>3, <2>2
  <2> QED
    BY <2>3, HandshakeAssumption
<1>5. c.role = r /\ c.id = configs[r] /\ c.total = total
  BY <1>2
<1> QED
  BY <1>1, <1>4, <1>5

LEMMA InitInv == Init => Inv
<1> SUFFICES ASSUME Init PROVE Inv
  OBVIOUS
<1>1. Executor!Init /\ Manager!Init /\ cfgTopic = << >> /\ ackTopic = {}
  BY DEF Init
<1>2. Configured = {}
  BY <1>1 DEF Configured, Executor!Configured, Executor!Init
<1>3. Fleet
  BY <1>1, HandshakeAssumption DEF Fleet, ResendsAreKnown, Announced, Executor!Init
<1>4. Messages
  BY <1>1 DEF Messages, Untouched, Manager!Init
<1>5. Building /\ Apart
  BY <1>1 DEF Building, Apart, Manager!Init, Manager!InSpawnDriver
<1>6. Served
  BY <1>1, <1>2 DEF Served, OnlyConfigured, SilentOnlyWhenServed, Configured, Manager!Init
<1>7. Counted
  BY <1>1, <1>2, FS_EmptySet DEF Counted, Manager!Init
<1> QED
  BY <1>3, <1>4, <1>5, <1>6, <1>7 DEF Inv

-----------------------------------------------------------------------------
(***************************************************************************)
(* The executor.                                                           *)
(***************************************************************************)
LEMMA SpawnKeeps ==
    ASSUME Inv, Executor!Spawn, UNCHANGED <<managerVars, topics>>
    PROVE  Inv'
<1>1. /\ ~Announced /\ ~Announced' /\ Untouched /\ toSend = {} /\ resend = {}
      /\ UNCHANGED <<toSend, resend, total>>
  BY DEF Inv, Fleet, Messages, Announced, Executor!Spawn, Executor!SpawnRefused,
         Executor!SpawnAccepted, Executor!SpawnAborts
<1>2. /\ configs' \in [Roles -> 0..N]
      /\ \/ UNCHANGED <<configs, unacked>>
         \/ \E i \in 1..N : /\ configs' = [configs EXCEPT ![RoleName[i]] = i]
                            /\ unacked' = unacked \cup {RoleName[i]}
                            /\ RoleName[i] \in Roles
  <2>1. configs \in [Roles -> 0..N]
    BY DEF Inv, Fleet
  <2>2. CASE UNCHANGED <<configs, unacked>>
    BY <2>1, <2>2
  <2>3. CASE Executor!SpawnAccepted
    <3>1. next \in 1..N /\ RoleName[next] \in Roles
      BY <2>3, HandshakeAssumption DEF Executor!SpawnAccepted
    <3>2. /\ configs' = [configs EXCEPT ![RoleName[next]] = next]
          /\ unacked' = unacked \cup {RoleName[next]}
      BY <2>3 DEF Executor!SpawnAccepted
    <3>3. configs' \in [Roles -> 0..N]
      BY <2>1, <3>1, <3>2
    <3> QED
      BY <3>1, <3>2, <3>3
  <2> QED
    BY <2>2, <2>3 DEF Executor!Spawn, Executor!SpawnRefused, Executor!SpawnAborts
<1>3. /\ unacked' \subseteq Configured' /\ Configured' \ unacked' \subseteq Configured \ unacked
  BY <1>2 DEF Inv, Fleet, ResendsAreKnown, Configured, Executor!Configured
<1>4. Fleet'
  BY <1>1, <1>2, <1>3 DEF Fleet, ResendsAreKnown, Configured
<1>5. Untouched' /\ UNCHANGED <<ackTopic, builder, created, expected>>
  BY <1>1 DEF Untouched, managerVars, topics
<1>6. Messages' /\ Apart'
  BY <1>5 DEF Messages, Apart, Untouched
<1>7. Building'
  BY <1>1, <1>5 DEF Inv, Building, Untouched
<1>8. ackTopic = {} /\ Configured \ unacked = {}
  BY <1>1 DEF Inv, Served, SilentOnlyWhenServed, Untouched, Configured
<1>9. Served'
  BY <1>3, <1>5, <1>8 DEF Served, OnlyConfigured, SilentOnlyWhenServed, Untouched, Configured
<1>10. Counted'
  BY <1>1, <1>5 DEF Inv, Counted, Untouched
<1> QED
  BY <1>4, <1>6, <1>7, <1>9, <1>10 DEF Inv
\* All entries were tried: the number is fixed before anything is sent.
LEMMA AnnounceKeeps ==
    ASSUME Inv, Executor!Announce, UNCHANGED <<managerVars, topics>>
    PROVE  Inv'
<1>1. /\ ~Announced /\ Announced' /\ Untouched
      /\ total' = Cardinality(Configured) /\ toSend' = Configured
      /\ UNCHANGED <<configs, unacked, resend>>
  <2>1. phase = "spawning" /\ phase' = "publishing"
    BY DEF Executor!Announce
  <2>2. ~Announced /\ Announced'
    BY <2>1 DEF Announced
  <2>3. Untouched
    BY <2>2 DEF Inv, Messages
  <2>4. /\ total' = Executor!Cardinality(Configured)
        /\ toSend' = Configured
        /\ UNCHANGED <<configs, unacked, resend>>
    BY DEF Executor!Announce, Configured
  <2>5. Executor!Cardinality(Configured) = Cardinality(Configured)
    BY Zenon DEF Executor!Cardinality, Cardinality
  <2> QED
    BY <2>2, <2>3, <2>4, <2>5
<1>2. Configured' = Configured
  BY <1>1 DEF Configured, Executor!Configured
<1>3. Fleet'
  BY <1>1, <1>2 DEF Inv, Fleet, ResendsAreKnown, Configured
<1>4. Untouched' /\ UNCHANGED <<ackTopic, builder, created, expected>>
  BY <1>1 DEF Untouched, managerVars, topics
<1>5. Messages' /\ Apart'
  BY <1>1, <1>4 DEF Messages, Apart, Untouched
<1>6. Building'
  BY <1>1, <1>4 DEF Inv, Building, Untouched
<1>7. Served'
  BY <1>1, <1>2, <1>4 DEF Inv, Served, OnlyConfigured, SilentOnlyWhenServed, Untouched, Configured
<1>8. Counted'
  BY <1>1, <1>4 DEF Inv, Counted, Untouched
<1> QED
  BY <1>3, <1>5, <1>6, <1>7, <1>8 DEF Inv

\* Steps after that leave the configurations and their number alone.
LEMMA SameMessages ==
    ASSUME Fleet, UNCHANGED <<configs, total>>
    PROVE  Configured' = Configured /\ Sent' = Sent
<1>1. Configured' = Configured
  BY DEF Configured, Executor!Configured
<1>2. \A r : Executor!Message(r)' = Executor!Message(r)
  BY DEF Executor!Message
<1> QED
  BY <1>1, <1>2 DEF Sent

\* What stays when the manager rests.
LEMMA ManagerRests ==
    ASSUME Inv, UNCHANGED <<configs, total, unacked, managerVars, ackTopic>>,
           Announced' = Announced,
           toSend' \subseteq toSend, resend' \subseteq resend \cup unacked,
           ~Announced => UNCHANGED <<toSend, resend, cfgTopic>>,
           cfgTopic' \in Seq(Sent)
    PROVE  Inv'
<1>1. /\ Configured' = Configured /\ Sent' = Sent
      /\ UNCHANGED <<expected, totalReceived, received, pending, builder, current,
                     tasks, created, started, acked>>
  BY SameMessages DEF Inv, managerVars
<1>2. Fleet'
  BY <1>1 DEF Inv, Fleet, ResendsAreKnown, Configured
<1>3. Messages'
  BY <1>1 DEF Inv, Messages, Untouched
<1>4. Building' /\ Apart'
  BY <1>1 DEF Inv, Building, Apart
<1>5. Served'
  BY <1>1 DEF Inv, Served, OnlyConfigured, SilentOnlyWhenServed, Configured
<1>6. Counted'
  BY <1>1 DEF Inv, Counted
<1> QED
  BY <1>2, <1>3, <1>4, <1>5, <1>6 DEF Inv

LEMMA TopicKeeps ==
    ASSUME NEW S, NEW q \in Seq(S), q # << >> PROVE Tail(q) \in Seq(S) /\ Head(q) \in S
BY HeadTailProperties

LEMMA ExecutorKeeps ==
    ASSUME Inv, ExecutorStep \/ ExecutorPublishes \/ DeliverAck \/ Arrive PROVE Inv'
<1>1. cfgTopic \in Seq(Sent)
  BY DEF Inv, Messages
<1>2. CASE ExecutorStep
  <2>1. CASE Executor!Spawn
    BY <1>2, <2>1, SpawnKeeps DEF ExecutorStep
  <2>2. CASE Executor!Announce
    BY <1>2, <2>2, AnnounceKeeps DEF ExecutorStep
  <2>3. CASE Executor!StartTimer \/ Executor!TimerFires
    <3>1. /\ UNCHANGED <<configs, total, managerVars, topics, unacked, toSend>>
          /\ Announced' = Announced /\ resend' \subseteq resend \cup unacked
          /\ Announced
      BY <1>2, <2>3 DEF ExecutorStep, Announced, Executor!StartTimer, Executor!TimerFires
    <3> QED
      BY <1>1, <3>1, ManagerRests DEF topics
  <2> QED
    BY <1>2, <2>1, <2>2, <2>3 DEF ExecutorStep
<1>3. CASE ExecutorPublishes
  <2>1. PICK r \in Roles : PublishOf(r)
    BY <1>3 DEF ExecutorPublishes
  <2>2. /\ UNCHANGED <<configs, total, managerVars, ackTopic, unacked>>
        /\ Announced' = Announced /\ Announced
        /\ toSend' \subseteq toSend /\ resend' \subseteq resend
        /\ r \in toSend \cup resend
        /\ Publish(Executor!Message(r))
    BY <2>1 DEF PublishOf, Announced, Executor!PublishInitial, Executor!Resend
  <2>3. Executor!Message(r) \in Sent
    BY <2>2 DEF Sent, Configured, Inv, Fleet, ResendsAreKnown
  <2>4. cfgTopic' \in Seq(Sent)
    <3> DEFINE q == Append(cfgTopic, Executor!Message(r))
    <3>1. q \in Seq(Sent) /\ q # << >>
      BY <1>1, <2>3, AppendProperties
    <3>2. Tail(q) \in Seq(Sent)
      BY <3>1, TopicKeeps
    <3> QED
      BY <2>2, <3>1, <3>2 DEF Publish
  <2> QED
    BY <2>2, <2>4, ManagerRests
<1>4. CASE DeliverAck
  <2>1. PICK r \in ackTopic : Executor!OnAck(r) /\ ackTopic' = ackTopic \ {r}
    BY <1>4 DEF DeliverAck
  <2>2. /\ UNCHANGED <<managerVars, cfgTopic, configs, total, phase, toSend, resend>>
        /\ unacked' = unacked \ {r} /\ r \in acked
    BY <1>4, <2>1 DEF DeliverAck, Executor!OnAck, Inv, Served
  <2>3. /\ Configured' = Configured /\ Sent' = Sent
        /\ UNCHANGED <<expected, totalReceived, received, pending, builder, current,
                       tasks, created, started, acked>>
    BY <2>2, SameMessages DEF Inv, managerVars
  <2>4. Fleet'
    BY <2>2, <2>3 DEF Inv, Fleet, ResendsAreKnown, Configured, Announced
  <2>5. Messages' /\ Building' /\ Apart'
    BY <2>2, <2>3 DEF Inv, Messages, Untouched, Building, Apart, Announced
  <2>6. Served'
    BY <2>1, <2>2, <2>3 DEF Inv, Served, OnlyConfigured, SilentOnlyWhenServed, Configured
  <2>7. Counted'
    BY <2>2, <2>3 DEF Inv, Counted
  <2> QED
    BY <2>4, <2>5, <2>6, <2>7 DEF Inv
<1>5. CASE Arrive
  <2>1. UNCHANGED <<configs, total, managerVars, topics, phase, toSend, resend, unacked>>
    BY <1>5 DEF Arrive, Executor!CheckVehicleStatus
  <2> QED
    BY <1>1, <2>1, ManagerRests DEF topics, Announced
<1> QED
  BY <1>2, <1>3, <1>4, <1>5
(***************************************************************************)
(* The manager.                                                            *)
(***************************************************************************)

\* Steps that move the builder without touching a configuration or a task.
LEMMA BuilderMoves ==
    ASSUME Inv, UNCHANGED <<executorVars, topics, expected, totalReceived, received, pending,
                            current, tasks, created, started, acked>>,
           \/ builder \notin Manager!InSpawnDriver /\ builder' \notin Manager!InSpawnDriver
           \/ builder' = builder
           \/ builder = "construct" /\ builder' = "plan"
    PROVE  Inv'
<1>1. UNCHANGED <<phase, configs, total, toSend, unacked, resend, cfgTopic, ackTopic>>
  BY DEF executorVars, topics
<1>2. Configured' = Configured /\ Sent' = Sent
  BY <1>1, SameMessages DEF Inv
<1>3. Fleet' /\ Messages'
  BY <1>1, <1>2 DEF Inv, Fleet, Messages, Untouched, ResendsAreKnown, Announced, Configured
<1>4. Building'
  BY DEF Inv, Building, Manager!InSpawnDriver
<1>5. Apart' /\ Counted'
  BY <1>1, <1>2 DEF Inv, Apart, Counted
<1>6. Served'
  BY <1>1, <1>2 DEF Inv, Served, OnlyConfigured, SilentOnlyWhenServed, Configured
<1> QED
  BY <1>3, <1>4, <1>5, <1>6 DEF Inv

\* VehicleConfigCallback
LEMMA DeliverKeeps == ASSUME Inv, Deliver PROVE Inv'
<1> DEFINE m == Head(cfgTopic)
<1>1. /\ cfgTopic # << >> /\ cfgTopic' = Tail(cfgTopic) /\ Announced
      /\ UNCHANGED <<phase, configs, total, toSend, unacked, resend, ackTopic>>
      /\ Manager!VehicleConfigCallback(m)
  BY DEF Deliver, executorVars, Inv, Messages, Untouched
<1>2. /\ UNCHANGED <<builder, current, tasks, created, started, acked>>
      /\ Manager!TakeTotal(m)
      /\ \/ UNCHANGED <<received, pending>>
         \/ /\ m.role \notin received
            /\ received' = received \cup {m.role}
            /\ pending' = pending \cup {m}
  BY <1>1 DEF Manager!VehicleConfigCallback, Manager!IgnoreDuplicate, Manager!Accept, Manager!build
<1>3. m \in Sent /\ cfgTopic' \in Seq(Sent)
  BY <1>1, TopicKeeps DEF Inv, Messages
<1>4. m.total = total
  BY <1>3, MessageIs DEF Inv
<1> HIDE DEF m
<1>5. Configured' = Configured /\ Sent' = Sent
  BY <1>1, SameMessages DEF Inv
<1>6. Fleet'
  BY <1>1, <1>5 DEF Inv, Fleet, ResendsAreKnown, Announced, Configured
<1>7. Messages'
  BY <1>1, <1>2, <1>3, <1>5 DEF Inv, Messages, Announced
<1>8. Building'
  BY <1>2 DEF Inv, Building
<1>9. Apart'
  BY <1>2 DEF Inv, Apart
<1>10. Served'
  BY <1>1, <1>2, <1>5 DEF Inv, Served, OnlyConfigured, SilentOnlyWhenServed, Configured
<1>11. Counted'
  BY <1>1, <1>2, <1>4, <1>5 DEF Inv, Counted, Manager!TakeTotal
<1> QED
  BY <1>6, <1>7, <1>8, <1>9, <1>10, <1>11 DEF Inv

\* The builder takes a configuration, whichever.
LEMMA PickKeeps ==
    ASSUME Inv, NEW c \in pending, Manager!Pick(c), UNCHANGED <<executorVars, topics>>
    PROVE  Inv'
<1>1. /\ builder = "acquire" /\ builder' = "construct"
      /\ pending' = pending \ {c} /\ current' = c
      /\ UNCHANGED <<expected, totalReceived, received, tasks, created, started, acked>>
      /\ UNCHANGED <<phase, configs, total, toSend, unacked, resend, cfgTopic, ackTopic>>
  BY DEF Manager!Pick, Manager!intake, Manager!build, executorVars, topics
<1>2. Configured' = Configured /\ Sent' = Sent
  BY <1>1, SameMessages DEF Inv
<1>3. c \in Sent /\ Announced
  BY DEF Inv, Messages, Untouched
<1>4. c # NoConfig
  BY <1>3, MessageIs DEF Inv
<1>5. \A d \in pending : d.role = c.role => d = c
  <2>1. \A d \in pending : d = Executor!Message(d.role)
    BY MessageIs DEF Inv, Messages
  <2> QED
    BY <2>1
<1>6. Fleet'
  BY <1>1, <1>2 DEF Inv, Fleet, ResendsAreKnown, Announced, Configured
<1>7. Messages'
  BY <1>1, <1>2, <1>3 DEF Inv, Messages, Announced
<1>8. Building'
  BY <1>1, <1>4 DEF Inv, Building, Apart, Manager!InSpawnDriver
<1>9. Apart'
  BY <1>1, <1>5 DEF Inv, Apart
<1>10. Served'
  BY <1>1, <1>2 DEF Inv, Served, OnlyConfigured, SilentOnlyWhenServed, Configured
<1>11. Counted'
  BY <1>1, <1>2 DEF Inv, Counted
<1> QED
  BY <1>6, <1>7, <1>8, <1>9, <1>10, <1>11 DEF Inv

\* The builder lets its configuration go: given up, or after the launch was
\* decided.
LEMMA LetGoKeeps ==
    ASSUME Inv, Manager!GiveUp \/ Manager!Launch, UNCHANGED <<executorVars, topics>>
    PROVE  Inv'
<1>1. /\ builder' = "check" /\ current' = NoConfig
      /\ UNCHANGED <<expected, totalReceived, received, pending, tasks, created, acked>>
      /\ UNCHANGED <<phase, configs, total, toSend, unacked, resend, cfgTopic, ackTopic>>
      /\ started' => started \/ Manager!Complete
      /\ Announced
  <2>1. /\ builder' = "check" /\ current' = NoConfig
        /\ builder \in {"construct", "launch"}
        /\ UNCHANGED <<expected, totalReceived, received, pending, tasks, created, acked>>
        /\ started' = (started \/ Manager!Complete) \/ started' = started
    BY DEF Manager!GiveUp, Manager!Launch, Manager!intake
  <2>2. started' => started \/ Manager!Complete
    BY <2>1, Zenon
  <2>3. Announced
    BY <2>1 DEF Inv, Messages, Untouched, Building, Manager!InSpawnDriver
  <2> QED
    BY <2>1, <2>2, <2>3 DEF executorVars, topics
<1>2. Configured' = Configured /\ Sent' = Sent
  BY <1>1, SameMessages DEF Inv
<1>3. Fleet'
  BY <1>1, <1>2 DEF Inv, Fleet, ResendsAreKnown, Announced, Configured
<1>4. Messages'
  BY <1>1, <1>2 DEF Inv, Messages, Announced
<1>5. Building' /\ Apart'
  BY <1>1 DEF Inv, Building, Apart, Manager!InSpawnDriver
<1>6. Served'
  BY <1>1, <1>2 DEF Inv, Served, OnlyConfigured, SilentOnlyWhenServed, Configured
<1>7. ASSUME Manager!Complete PROVE Configured \subseteq acked
  <2>1. IsFiniteSet(Configured) /\ acked \subseteq Configured
    BY HandshakeAssumption, FS_Subset DEF Inv, Served, Configured, Executor!Configured
  <2>2. total = Cardinality(Configured) /\ total \in Nat
    BY <1>1, <2>1, FS_CardinalityType DEF Inv, Fleet
  <2>3. Cardinality(acked) >= Cardinality(Configured)
    BY <1>7, <2>2 DEF Manager!Complete, Inv, Counted
  <2>4. /\ Cardinality(acked) <= Cardinality(Configured)
        /\ Cardinality(acked) = Cardinality(Configured) => acked = Configured
    BY <2>1, FS_Subset
  <2>5. Cardinality(acked) \in Nat
    BY <2>1, FS_Subset, FS_CardinalityType
  <2> QED
    BY <2>2, <2>3, <2>4, <2>5
<1>8. Counted'
  BY <1>1, <1>2, <1>7 DEF Inv, Counted
<1> QED
  BY <1>3, <1>4, <1>5, <1>6, <1>8 DEF Inv

\* A task is added.
LEMMA AddTaskKeeps ==
    ASSUME Inv, NEW kind \in Manager!Kinds, NEW from, NEW to, Manager!AddTask(kind, from, to),
           \/ kind = "plan" /\ from = "plan" /\ to = "control"
           \/ kind = "control" /\ from = "control" /\ to = "report",
           UNCHANGED <<executorVars, topics>>
    PROVE  Inv'
<1>1. /\ builder = from /\ builder' = to
      /\ tasks' = tasks \cup {<<current.role, current.id, kind>>}
      /\ UNCHANGED <<expected, totalReceived, received, pending, current, created, started, acked>>
      /\ UNCHANGED <<phase, configs, total, toSend, unacked, resend, cfgTopic, ackTopic>>
  BY DEF Manager!AddTask, Manager!intake, executorVars, topics
<1>2. Configured' = Configured /\ Sent' = Sent
  BY <1>1, SameMessages DEF Inv
<1>3. current \in Sent /\ Announced
  BY <1>1 DEF Inv, Messages, Untouched, Building, Manager!InSpawnDriver
<1>4. current.role \in Configured /\ current.id = configs[current.role]
  BY <1>3, MessageIs DEF Inv
<1>5. Fleet'
  BY <1>1, <1>2 DEF Inv, Fleet, ResendsAreKnown, Announced, Configured
<1>6. Messages'
  BY <1>1, <1>2, <1>3 DEF Inv, Messages, Announced
<1>7. Building'
  BY <1>1 DEF Inv, Building, Manager!InSpawnDriver
<1>8. Apart' /\ Counted'
  BY <1>1, <1>2 DEF Inv, Apart, Counted
<1>9. OnlyConfigured'
  <2>1. \A t \in tasks' : t \in tasks \/ t = <<current.role, current.id, kind>>
    BY <1>1
  <2> QED
    BY <1>1, <1>2, <1>4, <2>1 DEF Inv, Served, OnlyConfigured, Configured
<1>10. Served'
  BY <1>1, <1>2, <1>9 DEF Inv, Served, SilentOnlyWhenServed, Configured
<1> QED
  BY <1>5, <1>6, <1>7, <1>8, <1>10 DEF Inv

\* The driver is counted and its ACK published, or lost.
LEMMA AcksKeep == ASSUME Inv, ManagerAcks PROVE Inv'
<1>1. /\ builder = "report" /\ builder' = "launch"
      /\ created' = created + 1 /\ acked' = acked \cup {current.role}
      /\ ackTopic' \subseteq ackTopic \cup {current.role}
      /\ UNCHANGED <<expected, totalReceived, received, pending, current, tasks, started>>
      /\ UNCHANGED <<phase, configs, total, toSend, unacked, resend, cfgTopic>>
  BY DEF ManagerAcks, Manager!Report, Manager!intake, executorVars
<1>2. Configured' = Configured /\ Sent' = Sent
  BY <1>1, SameMessages DEF Inv
<1>3. /\ current \in Sent /\ current # NoConfig /\ Announced
      /\ current.role \notin acked /\ current.role \in received
  BY <1>1 DEF Inv, Messages, Untouched, Building, Apart, Manager!InSpawnDriver
<1>4. current.role \in Configured /\ current.id = configs[current.role]
  BY <1>3, MessageIs DEF Inv
<1>5. Fleet'
  BY <1>1, <1>2 DEF Inv, Fleet, ResendsAreKnown, Announced, Configured
<1>6. Messages'
  BY <1>1, <1>2, <1>3 DEF Inv, Messages, Announced
<1>7. Building' /\ Apart'
  BY <1>1, <1>3 DEF Inv, Building, Apart, Manager!InSpawnDriver
<1>8. \A r \in acked', kind \in Manager!Kinds : <<r, configs[r], kind>> \in tasks
  BY <1>1, <1>4 DEF Inv, Served, Building, Manager!Kinds
<1>9. Served'
  BY <1>1, <1>2, <1>4, <1>8 DEF Inv, Served, OnlyConfigured, SilentOnlyWhenServed, Configured
<1>10. Counted'
  <2>1. IsFiniteSet(acked)
    BY HandshakeAssumption, FS_Subset DEF Inv, Served, Configured, Executor!Configured
  <2>2. Cardinality(acked') = Cardinality(acked) + 1
    BY <1>1, <1>3, <2>1, FS_AddElement
  <2> QED
    BY <1>1, <1>2, <2>2 DEF Inv, Counted
<1> QED
  BY <1>5, <1>6, <1>7, <1>9, <1>10 DEF Inv

LEMMA ManagerKeeps == ASSUME Inv, ManagerNotifies \/ ManagerWorks \/ ManagerWakes PROVE Inv'
<1>1. UNCHANGED <<executorVars, topics>>
  BY DEF ManagerNotifies, ManagerWorks, ManagerWakes
<1>2. CASE Manager!NotifyBuilder \/ Manager!Check \/ Manager!Doze \/ Manager!Block
           \/ Manager!Construct \/ Manager!SpuriousWakeup
  <2>1. UNCHANGED <<expected, totalReceived, received, pending, current, tasks, created,
                    started, acked>>
    BY <1>2 DEF Manager!NotifyBuilder, Manager!Check, Manager!Doze, Manager!Block,
                Manager!Construct, Manager!SpuriousWakeup, Manager!intake, Manager!build
  <2>2. \/ builder \notin Manager!InSpawnDriver /\ builder' \notin Manager!InSpawnDriver
        \/ builder' = builder
        \/ builder = "construct" /\ builder' = "plan"
    BY <1>2 DEF Manager!NotifyBuilder, Manager!Check, Manager!Doze, Manager!Block,
                Manager!Construct, Manager!SpuriousWakeup, Manager!Notified, Manager!InSpawnDriver
  <2> QED
    BY <1>1, <2>1, <2>2, BuilderMoves
<1>3. CASE \E c \in pending : Manager!Pick(c)
  BY <1>1, <1>3, PickKeeps
<1>4. CASE Manager!GiveUp \/ Manager!Launch
  BY <1>1, <1>4, LetGoKeeps
<1>5. CASE Manager!AddPlanTask
  BY <1>1, <1>5, AddTaskKeeps DEF Manager!AddPlanTask, Manager!Kinds
<1>6. CASE Manager!AddControlTask
  BY <1>1, <1>6, AddTaskKeeps DEF Manager!AddControlTask, Manager!Kinds
<1> QED
  BY <1>2, <1>3, <1>4, <1>5, <1>6 DEF ManagerNotifies, ManagerWorks, ManagerWakes

LEMMA StepInv == Inv /\ [Next]_vars => Inv'
<1> SUFFICES ASSUME Inv, [Next]_vars PROVE Inv'
  OBVIOUS
<1>1. CASE Next
  BY <1>1, ExecutorKeeps, DeliverKeeps, AcksKeep, ManagerKeeps DEF Next
<1>2. CASE UNCHANGED vars
  <2>1. cfgTopic \in Seq(Sent)
    BY DEF Inv, Messages
  <2> QED
    BY <1>2, <2>1, ManagerRests DEF vars, executorVars, topics, Announced
<1> QED
  BY <1>1, <1>2

-----------------------------------------------------------------------------
\* When the scheduler starts every configured vehicle has both tasks, for the
\* actor its configuration names (spawnDriver's count against total_vehicles).
THEOREM VehiclesStartTogether == Spec => []StartTogether
<1>1. Inv => StartTogether
  BY DEF Inv, Counted, Served, StartTogether, Configured
<1> QED
  BY <1>1, InitInv, StepInv, PTL DEF Spec

\* Nothing is driven that was not spawned and announced.
THEOREM DrivenIsConfigured == Spec => []OnlyConfigured
<1>1. Inv => OnlyConfigured
  BY DEF Inv, Served
<1> QED
  BY <1>1, InitInv, StepInv, PTL DEF Spec

\* The executor does not fall silent about a vehicle that has no driver
\* (_on_ack, resend_unacked).
THEOREM SilenceIsSafe == Spec => []SilentOnlyWhenServed
<1>1. Inv => SilentOnlyWhenServed
  BY DEF Inv, Served
<1> QED
  BY <1>1, InitInv, StepInv, PTL DEF Spec

\* resend_unacked finds a configuration for every role it is to send.
THEOREM ResendFindsItsConfiguration == Spec => []ResendsAreKnown
<1>1. Inv => ResendsAreKnown
  BY DEF Inv, Fleet
<1> QED
  BY <1>1, InitInv, StepInv, PTL DEF Spec

\* Every configuration that leaves carries an actor and the final number of
\* vehicles (spawn_vehicles_from_vehicles).
THEOREM NumberIsFinal == Spec => NumberIsReachable
<1> DEFINE Holds == \A r \in Roles :
                       Executor!Leaves(r) => configs[r] # 0 /\ total = Cardinality(Executor!Configured)
<1>1. ASSUME Inv, [Next]_vars, NEW r \in Roles, Executor!Leaves(r)
      PROVE  configs[r] # 0 /\ total = Cardinality(Executor!Configured)
  <2>1. r \in toSend \cup resend
    BY <1>1 DEF Executor!Leaves
  <2>2. r \in Configured /\ Announced
    BY <1>1, <2>1 DEF Inv, Fleet, ResendsAreKnown, Configured
  <2> QED
    BY <1>1, <2>2 DEF Inv, Fleet, Configured, Executor!Configured
<1>2. Inv /\ [Next]_vars => [Holds]_vars
  BY <1>1
<1> QED
  BY <1>2, InitInv, StepInv, PTL DEF Spec, NumberIsReachable

-----------------------------------------------------------------------------
(***************************************************************************)
(* The two nodes implement FleetLaunch.                                    *)
(***************************************************************************)
AbsFleet == IF Announced THEN Configured ELSE {}
AbsVars == <<Announced, AbsFleet, Manager!Tasked("control"), started>>

\* A step that neither fixes the fleet, nor adds a task, nor starts the
\* scheduler is invisible.
LEMMA Invisible ==
    ASSUME UNCHANGED <<tasks, started>>, Announced' = Announced,
           Announced => UNCHANGED configs
    PROVE  UNCHANGED AbsVars
<1>1. AbsFleet' = AbsFleet
  BY DEF AbsFleet, Configured, Executor!Configured
<1>2. Manager!Tasked("control")' = Manager!Tasked("control")
  BY DEF Manager!Tasked
<1> QED
  BY <1>1, <1>2 DEF AbsVars

LEMMA LaunchIs ==
    /\ Launch!Init <=> Announced = FALSE /\ AbsFleet = {}
                       /\ Manager!Tasked("control") = {} /\ started = FALSE
    /\ Launch!Announce <=> /\ ~Announced /\ Announced' = TRUE
                           /\ AbsFleet' \in SUBSET Roles
                           /\ UNCHANGED <<Manager!Tasked("control"), started>>
    /\ \A v : Launch!Equip(v) <=>
                 /\ ~started /\ v \in AbsFleet \ Manager!Tasked("control")
                 /\ Manager!Tasked("control")' = Manager!Tasked("control") \cup {v}
                 /\ UNCHANGED <<Announced, AbsFleet, started>>
    /\ Launch!Go <=> /\ Manager!Tasked("control") = AbsFleet /\ AbsFleet # {}
                     /\ started' = TRUE
                     /\ UNCHANGED <<Announced, AbsFleet, Manager!Tasked("control")>>
BY DEF Launch!Init, Launch!Announce, Launch!Equip, Launch!Go, AbsFleet, Announced, Configured

LEMMA ExecutorImplements ==
    ASSUME Inv, ExecutorStep \/ ExecutorPublishes \/ DeliverAck \/ Arrive
    PROVE  Launch!Announce \/ UNCHANGED AbsVars
<1>1. UNCHANGED <<tasks, started>>
  BY DEF ExecutorStep, ExecutorPublishes, PublishOf, DeliverAck, Arrive, managerVars
<1>2. CASE Executor!Announce
  <2>1. phase = "spawning" /\ phase' = "publishing" /\ configs' = configs
    BY <1>2 DEF Executor!Announce
  <2>2. ~Announced /\ Announced' = TRUE
    BY <2>1 DEF Announced
  <2>3. AbsFleet' \in SUBSET Roles
    BY DEF AbsFleet, Configured, Executor!Configured
  <2>4. Manager!Tasked("control")' = Manager!Tasked("control")
    BY <1>1 DEF Manager!Tasked
  <2> QED
    BY <1>1, <2>2, <2>3, <2>4, LaunchIs
<1>3. CASE ~Executor!Announce
  <2>1. Announced' = Announced /\ (Announced => UNCHANGED configs)
    BY <1>3
    DEF ExecutorStep, ExecutorPublishes, PublishOf, DeliverAck, Arrive, Announced,
        Executor!Spawn, Executor!SpawnRefused, Executor!SpawnAccepted, Executor!SpawnAborts,
        Executor!StartTimer, Executor!TimerFires, Executor!PublishInitial, Executor!Resend,
        Executor!OnAck, Executor!CheckVehicleStatus
  <2> QED
    BY <1>1, <2>1, Invisible
<1> QED
  BY <1>2, <1>3

\* A vehicle is equipped when its control task is added, before the start.
LEMMA EquipImplements ==
    ASSUME Inv, Manager!AddControlTask, UNCHANGED <<executorVars, topics>>
    PROVE  (\E v \in Roles : Launch!Equip(v)) \/ UNCHANGED AbsVars
<1> DEFINE v == current.role
<1>1. /\ builder = "control" /\ tasks' = tasks \cup {<<v, current.id, "control">>}
      /\ started' = started /\ UNCHANGED <<phase, configs>>
  BY DEF Manager!AddControlTask, Manager!AddTask, executorVars
<1>2. current \in Sent /\ Announced /\ v \notin acked
  BY <1>1 DEF Inv, Messages, Untouched, Building, Manager!InSpawnDriver
<1>3. v \in Configured /\ v \in Roles
  BY <1>2, MessageIs DEF Inv, Configured, Executor!Configured
<1>4. ~started
  BY <1>2, <1>3 DEF Inv, Counted
<1>5. Manager!Tasked("control")' = Manager!Tasked("control") \cup {v}
  <2> DEFINE new == <<v, current.id, "control">>
  <2>1. new[1] = v /\ new[3] = "control" /\ tasks' = tasks \cup {new}
    BY <1>1
  <2> HIDE DEF new
  <2> QED
    BY <2>1 DEF Manager!Tasked
<1>6. Announced' = Announced /\ AbsFleet' = AbsFleet /\ v \in AbsFleet
  BY <1>1, <1>2, <1>3 DEF Announced, AbsFleet, Configured, Executor!Configured
<1>7. CASE v \in Manager!Tasked("control")
  BY <1>1, <1>5, <1>6, <1>7 DEF AbsVars
<1>8. CASE v \notin Manager!Tasked("control")
  <2> HIDE DEF v
  <2>1. Launch!Equip(v)
    BY <1>1, <1>4, <1>5, <1>6, <1>8, LaunchIs
  <2> QED
    BY <1>3, <2>1
<1> QED
  BY <1>7, <1>8

\* The scheduler is started or not.
Flag == started \in BOOLEAN

LEMMA InitFlag == Init => Flag
BY DEF Init, Manager!Init, Flag

LEMMA StepFlag == Flag /\ [Next]_vars => Flag'
<1> SUFFICES ASSUME Flag, [Next]_vars PROVE Flag'
  OBVIOUS
<1>1. started' = started \/ Manager!Launch
  BY DEF Next, ExecutorStep, ExecutorPublishes, PublishOf, Deliver, ManagerAcks, ManagerNotifies,
         ManagerWorks, ManagerWakes, DeliverAck, Arrive, vars, managerVars,
         Manager!VehicleConfigCallback, Manager!IgnoreDuplicate, Manager!Accept, Manager!build,
         Manager!Report, Manager!NotifyBuilder, Manager!SpuriousWakeup, Manager!Check,
         Manager!Doze, Manager!Block, Manager!Pick, Manager!GiveUp, Manager!Construct,
         Manager!AddPlanTask, Manager!AddControlTask, Manager!AddTask
<1>2. Manager!Launch => started' = (started \/ Manager!Complete)
  BY DEF Manager!Launch
<1> QED
  BY <1>1, <1>2, Zenon DEF Flag

\* The scheduler starts when the whole fleet is equipped.
LEMMA GoImplements ==
    ASSUME Inv, Flag, Manager!Launch, UNCHANGED <<executorVars, topics>>
    PROVE  Launch!Go \/ UNCHANGED AbsVars
<1>1. /\ builder = "launch" /\ started' = (started \/ Manager!Complete)
      /\ tasks' = tasks /\ UNCHANGED <<phase, configs>>
  BY DEF Manager!Launch, executorVars
<1>2. CASE started' = started
  BY <1>1, <1>2, Invisible DEF Announced
<1>3. CASE started' # started
  <2>1. started' = TRUE
    BY <1>1, <1>3, Zenon DEF Flag
  <2>2. Inv'
    BY LetGoKeeps
  <2>3. /\ acked' = acked /\ Configured' = Configured
    BY <1>1 DEF Manager!Launch, Configured, Executor!Configured
  <2>4. Configured \subseteq acked
    BY <2>1, <2>2, <2>3 DEF Inv, Counted
  <2>5. current \in Sent /\ Announced
    BY <1>1 DEF Inv, Messages, Untouched, Building, Manager!InSpawnDriver
  <2>6. current.role \in Configured
    BY <2>5, MessageIs DEF Inv
  <2>7. Configured \subseteq Manager!Tasked("control")
    <3> SUFFICES ASSUME NEW r \in Configured PROVE r \in Manager!Tasked("control")
      OBVIOUS
    <3>1. <<r, configs[r], "control">> \in tasks
      BY <2>4 DEF Inv, Served, Manager!Kinds
    <3> QED
      BY <3>1 DEF Manager!Tasked
  <2>8. Manager!Tasked("control") \subseteq Configured
    BY DEF Inv, Served, OnlyConfigured, Configured, Manager!Tasked
  <2>9. /\ AbsFleet = Configured /\ AbsFleet' = AbsFleet /\ Announced' = Announced
        /\ Manager!Tasked("control")' = Manager!Tasked("control")
    BY <1>1, <2>3, <2>5 DEF AbsFleet, Announced, Manager!Tasked
  <2> QED
    BY <2>1, <2>6, <2>7, <2>8, <2>9, LaunchIs
<1> QED
  BY <1>2, <1>3

\* Through losses, repetitions and failures the two nodes launch a fleet.
THEOREM FleetIsLaunched == Spec => ImplementsFleetLaunch
<1>1. Init => Launch!Init
  <2> SUFFICES ASSUME Init PROVE Launch!Init
    OBVIOUS
  <2>1. phase = "spawning" /\ tasks = {} /\ started = FALSE
    BY DEF Init, Executor!Init, Manager!Init
  <2>2. ~Announced
    BY <2>1 DEF Announced
  <2>3. Manager!Tasked("control") = {}
    BY <2>1 DEF Manager!Tasked
  <2> QED
    BY <2>1, <2>2, <2>3, LaunchIs DEF AbsFleet
<1>2. ASSUME Inv, Flag, [Next]_vars PROVE Launch!Next \/ UNCHANGED AbsVars
  <2>1. CASE ExecutorStep \/ ExecutorPublishes \/ DeliverAck \/ Arrive
    BY <1>2, <2>1, ExecutorImplements DEF Launch!Next
  <2>2. CASE Deliver \/ ManagerAcks \/ ManagerNotifies \/ ManagerWakes
    <3>1. UNCHANGED <<tasks, started, phase, configs>>
      BY <2>2
      DEF Deliver, ManagerAcks, ManagerNotifies, ManagerWakes, executorVars,
          Manager!VehicleConfigCallback, Manager!IgnoreDuplicate, Manager!Accept,
          Manager!Report, Manager!NotifyBuilder, Manager!SpuriousWakeup, Manager!build
    <3> QED
      BY <3>1, Invisible DEF Announced
  <2>3. CASE ManagerWorks
    <3>1. UNCHANGED <<executorVars, topics>>
      BY <2>3 DEF ManagerWorks
    <3>2. CASE Manager!AddControlTask
      BY <1>2, <3>1, <3>2, EquipImplements DEF Launch!Next
    <3>3. CASE Manager!Launch
      BY <1>2, <3>1, <3>3, GoImplements DEF Launch!Next
    <3>4. CASE Manager!AddPlanTask
      <4>1. /\ tasks' = tasks \cup {<<current.role, current.id, "plan">>}
            /\ UNCHANGED <<started, phase, configs>>
        BY <3>1, <3>4 DEF Manager!AddPlanTask, Manager!AddTask, executorVars
      <4>2. Manager!Tasked("control")' = Manager!Tasked("control")
        BY <4>1 DEF Manager!Tasked
      <4> QED
        BY <4>1, <4>2 DEF AbsVars, AbsFleet, Announced, Configured, Executor!Configured
    <3>5. CASE \/ Manager!Check \/ Manager!Doze \/ Manager!Block
               \/ (\E c \in pending : Manager!Pick(c)) \/ Manager!GiveUp \/ Manager!Construct
      <4>1. UNCHANGED <<tasks, started, phase, configs>>
        BY <3>1, <3>5
        DEF Manager!Check, Manager!Doze, Manager!Block, Manager!Pick, Manager!GiveUp,
            Manager!Construct, Manager!build, executorVars
      <4> QED
        BY <4>1, Invisible DEF Announced
    <3> QED
      BY <2>3, <3>2, <3>3, <3>4, <3>5 DEF ManagerWorks
  <2>4. CASE UNCHANGED vars
    BY <2>4, Invisible DEF vars, executorVars, managerVars, Announced
  <2> QED
    BY <1>2, <2>1, <2>2, <2>3, <2>4 DEF Next
<1>3. Inv /\ Flag /\ [Next]_vars => [Launch!Next]_AbsVars
  BY <1>2
<1> QED
  BY <1>1, <1>3, InitInv, StepInv, InitFlag, StepFlag, PTL
  DEF Spec, ImplementsFleetLaunch, Launch!Spec, AbsVars, AbsFleet, Announced, Configured
-----------------------------------------------------------------------------
(***************************************************************************)
(* The manager in the company of the executor.  Vehicle ids are given to   *)
(* one role each, so there are no more configurations than entries, and    *)
(* the manager meets here only what its own module lets happen to it: what *)
(* is proved of it there holds here.                                       *)
(***************************************************************************)
ManagerAlone == INSTANCE DriverModelManager_proofs
                    WITH Ids <- 1..N, Totals <- 0..N

\* No actor is announced for two roles.
OneRolePerActor == \A r \in Configured : configs[r] \in 1..N /\ RoleName[configs[r]] = r

Bounded ==
    /\ Executor!TypeOK
    /\ OneRolePerActor
    /\ total <= N
    /\ Len(cfgTopic) <= Depth
    /\ lost \subseteq Roles

\* There are no more configurations than entries.
LEMMA ConfiguredIsFew ==
    ASSUME OneRolePerActor, Fleet
    PROVE  IsFiniteSet(Configured) /\ Cardinality(Configured) \in 0..N
<1> DEFINE f == [r \in Configured |-> configs[r]]
<1>1. f \in [Configured -> 1..N]
  BY DEF OneRolePerActor
<1>2. \A r, q \in Configured : f[r] = f[q] => r = q
  BY DEF OneRolePerActor
<1>3. f \in Injection(Configured, 1..N)
  BY <1>1, <1>2 DEF Injection, IsInjective
<1>4. IsFiniteSet(1..N) /\ Cardinality(1..N) = N
  BY HandshakeAssumption, FS_Interval
<1>5. IsFiniteSet(Configured) /\ Cardinality(Configured) <= N
  BY <1>3, <1>4, FS_Injection
<1> QED
  BY <1>5, FS_CardinalityType, HandshakeAssumption

LEMMA InitBounded == Init => Bounded
<1> SUFFICES ASSUME Init PROVE Bounded
  OBVIOUS
<1>1. Executor!Init /\ cfgTopic = << >> /\ lost = {}
  BY DEF Init
<1>2. 1 \in 1..(N + 1) /\ 0 \in 0..N /\ 0 <= Depth
  BY HandshakeAssumption
<1>3. Executor!TypeOK
  BY <1>1, <1>2 DEF Executor!Init, Executor!TypeOK
<1>4. Configured = {}
  BY <1>1 DEF Configured, Executor!Configured, Executor!Init
<1> QED
  BY <1>1, <1>2, <1>3, <1>4 DEF Bounded, OneRolePerActor, Executor!Init

\* The executor and the topic stay within their bounds.
LEMMA SpawnBounded ==
    ASSUME Bounded, Executor!Spawn
    PROVE  Executor!TypeOK' /\ OneRolePerActor' /\ total' = total
<1>1. next \in 1..(N + 1) /\ configs \in [Roles -> 0..N] /\ total' = total
  BY DEF Bounded, Executor!TypeOK, Executor!Spawn, Executor!SpawnRefused,
         Executor!SpawnAccepted, Executor!SpawnAborts
<1>2. CASE Executor!SpawnRefused
  <2>1. next + 1 \in 1..(N + 1)
    BY <1>1, <1>2, HandshakeAssumption DEF Executor!SpawnRefused
  <2>2. Executor!TypeOK'
    BY <1>2, <2>1 DEF Bounded, Executor!TypeOK, Executor!SpawnRefused
  <2>3. OneRolePerActor'
    BY <1>2 DEF Bounded, OneRolePerActor, Configured, Executor!Configured, Executor!SpawnRefused
  <2> QED
    BY <1>1, <2>2, <2>3
<1>3. CASE Executor!SpawnAccepted
  <2>1. next \in 1..N /\ next + 1 \in 1..(N + 1) /\ RoleName[next] \in Roles
    BY <1>1, <1>3, HandshakeAssumption DEF Executor!SpawnAccepted
  <2>2. next \in 0..N /\ configs' = [configs EXCEPT ![RoleName[next]] = next]
    BY <1>3, <2>1 DEF Executor!SpawnAccepted
  <2>3. Executor!TypeOK'
    BY <1>1, <1>3, <2>1, <2>2 DEF Bounded, Executor!TypeOK, Executor!SpawnAccepted
  <2>4. OneRolePerActor'
    BY <1>1, <2>1, <2>2 DEF Bounded, OneRolePerActor, Configured, Executor!Configured
  <2> QED
    BY <1>1, <2>3, <2>4
<1>4. CASE Executor!SpawnAborts
  <2>1. next \in 1..N
    BY <1>4, HandshakeAssumption DEF Executor!SpawnAborts
  <2>2. Executor!TypeOK'
    BY <1>4, <2>1 DEF Bounded, Executor!TypeOK, Executor!SpawnAborts
  <2>3. OneRolePerActor'
    BY <1>4 DEF Bounded, OneRolePerActor, Configured, Executor!Configured, Executor!SpawnAborts
  <2> QED
    BY <1>1, <2>2, <2>3
<1> QED
  BY <1>2, <1>3, <1>4 DEF Executor!Spawn

LEMMA ExecutorBounded ==
    ASSUME Inv, Bounded,
           \/ Executor!Announce \/ Executor!StartTimer \/ Executor!TimerFires
           \/ \E r \in Roles : Executor!PublishInitial(r) \/ Executor!Resend(r) \/ Executor!OnAck(r)
           \/ \E i \in 1..N : Executor!CheckVehicleStatus(i)
    PROVE  Executor!TypeOK' /\ OneRolePerActor' /\ total' \in Nat /\ total' <= N
<1>1. configs' = configs
  BY DEF Executor!Announce, Executor!StartTimer, Executor!TimerFires, Executor!PublishInitial,
         Executor!Resend, Executor!OnAck, Executor!CheckVehicleStatus
<1>2. OneRolePerActor'
  BY <1>1 DEF Bounded, OneRolePerActor, Configured, Executor!Configured
<1>3. CASE Executor!Announce
  <2>1. total' = Executor!Cardinality(Configured)
    BY <1>3 DEF Executor!Announce, Configured
  <2>2. Executor!Cardinality(Configured) = Cardinality(Configured)
    BY Zenon DEF Executor!Cardinality, Cardinality
  <2>3. total' \in 0..N
    BY <2>1, <2>2, ConfiguredIsFew DEF Bounded, Inv
  <2>4. total' \in Nat /\ total' <= N
    BY <2>3, HandshakeAssumption
  <2>5. Executor!TypeOK'
    BY <1>3, <2>4 DEF Bounded, Executor!TypeOK, Executor!Announce, Executor!Configured
  <2> QED
    BY <1>2, <2>4, <2>5
<1>4. CASE Executor!StartTimer \/ Executor!TimerFires
  BY <1>2, <1>4 DEF Bounded, Executor!TypeOK, Executor!StartTimer, Executor!TimerFires
<1>5. CASE \E r \in Roles : Executor!PublishInitial(r) \/ Executor!Resend(r) \/ Executor!OnAck(r)
  BY <1>2, <1>5 DEF Bounded, Executor!TypeOK, Executor!PublishInitial, Executor!Resend, Executor!OnAck
<1>6. CASE \E i \in 1..N : Executor!CheckVehicleStatus(i)
  BY <1>2, <1>6 DEF Bounded, Executor!TypeOK, Executor!CheckVehicleStatus
<1> QED
  BY <1>3, <1>4, <1>5, <1>6

LEMMA StillBounded ==
    ASSUME Bounded, UNCHANGED executorVars
    PROVE  Executor!TypeOK' /\ OneRolePerActor' /\ total' <= N
BY DEF Bounded, executorVars, Executor!TypeOK, OneRolePerActor, Configured, Executor!Configured

LEMMA StepBounded ==
    ASSUME Inv, Bounded, [Next]_vars
    PROVE  Bounded'
<1>1. cfgTopic \in Seq(Sent) /\ Len(cfgTopic) \in Nat /\ Depth \in Nat \ {0}
  BY LenProperties, HandshakeAssumption DEF Inv, Messages
<1>2. CASE ExecutorStep
  BY <1>2, SpawnBounded, ExecutorBounded DEF ExecutorStep, Bounded, topics
<1>3. CASE ExecutorPublishes
  <2>1. PICK r \in Roles : PublishOf(r)
    BY <1>3 DEF ExecutorPublishes
  <2>2. Executor!TypeOK' /\ OneRolePerActor' /\ total' <= N /\ lost' = lost
    BY <2>1, ExecutorBounded DEF PublishOf
  <2>3. Executor!Message(r) \in Sent
    BY <2>1 DEF PublishOf, Executor!PublishInitial, Executor!Resend, Sent, Configured,
                Inv, Fleet, ResendsAreKnown
  <2>4. Len(cfgTopic') <= Depth
    <3> DEFINE q == Append(cfgTopic, Executor!Message(r))
    <3>1. q \in Seq(Sent) /\ q # << >> /\ Len(q) = Len(cfgTopic) + 1
      BY <1>1, <2>3, AppendProperties
    <3>2. Len(Tail(q)) = Len(q) - 1
      BY <3>1, HeadTailProperties
    <3>3. cfgTopic' = IF Len(q) > Depth THEN Tail(q) ELSE q
      BY <2>1 DEF PublishOf, Publish
    <3> HIDE DEF q
    <3> QED
      BY <1>1, <3>1, <3>2, <3>3 DEF Bounded
  <2> QED
    BY <2>2, <2>4 DEF Bounded
<1>4. CASE Deliver
  <2>1. cfgTopic # << >> /\ cfgTopic' = Tail(cfgTopic) /\ lost' = lost
    BY <1>4 DEF Deliver
  <2>2. Len(cfgTopic') = Len(cfgTopic) - 1
    BY <1>1, <2>1, HeadTailProperties
  <2>3. Len(cfgTopic') <= Depth
    BY <1>1, <2>2 DEF Bounded
  <2> QED
    BY <1>4, <2>1, <2>3, StillBounded DEF Bounded, Deliver
<1>5. CASE ManagerAcks
  <2>1. current \in Sent
    BY <1>5 DEF ManagerAcks, Manager!Report, Inv, Messages, Building, Manager!InSpawnDriver
  <2>2. current.role \in Roles
    BY <2>1, MessageIs DEF Inv, Configured, Executor!Configured
  <2>3. lost' \subseteq Roles /\ cfgTopic' = cfgTopic
    BY <1>5, <2>2 DEF ManagerAcks, Bounded
  <2> QED
    BY <1>5, <2>3, StillBounded DEF Bounded, ManagerAcks
<1>6. CASE ManagerNotifies \/ ManagerWorks \/ ManagerWakes
  BY <1>6, StillBounded DEF Bounded, ManagerNotifies, ManagerWorks, ManagerWakes, topics
<1>7. CASE DeliverAck
  <2>1. \E r \in Roles : Executor!OnAck(r)
    BY <1>7 DEF DeliverAck, Inv, Served, Configured, Executor!Configured
  <2> QED
    BY <1>7, <2>1, ExecutorBounded DEF Bounded, DeliverAck
<1>8. CASE Arrive
  BY <1>8, ExecutorBounded DEF Bounded, Arrive, topics
<1>9. CASE UNCHANGED vars
  BY <1>9, StillBounded DEF Bounded, vars, topics
<1> QED
  BY <1>2, <1>3, <1>4, <1>5, <1>6, <1>7, <1>8, <1>9 DEF Next

\* The manager's assumptions hold of the constants it is given here.
LEMMA ManagerIsGiven == ManagerAlone!ManagerAssumption
<1>1. 0..N \subseteq Nat \cup {-1}
  BY HandshakeAssumption
<1>2. NoConfig \notin ManagerAlone!Config
  <2>1. 0..N \subseteq Nat /\ 1..N \subseteq 0..N
    BY HandshakeAssumption
  <2> QED
    BY <2>1, HandshakeAssumption DEF ManagerAlone!Config
<1> QED
  BY <1>1, <1>2, HandshakeAssumption DEF ManagerAlone!ManagerAssumption

\* What arrives is a configuration the manager is made for.
LEMMA SentIsConfig ==
    ASSUME Inv, Bounded, Announced, NEW c \in Sent
    PROVE  c \in Manager!Config
<1>1. PICK r \in Configured : c = [role |-> r, id |-> configs[r], total |-> total]
  BY DEF Sent, Executor!Message
<1>2. r \in Roles /\ configs[r] \in 1..N
  BY DEF Bounded, OneRolePerActor, Configured, Executor!Configured
<1>3. total \in 0..N
  BY ConfiguredIsFew DEF Inv, Fleet, Bounded
<1> QED
  BY <1>1, <1>2, <1>3 DEF Manager!Config

LEMMA ManagerSteps ==
    ASSUME Inv, Bounded, [Next]_vars
    PROVE  [Manager!Next]_(Manager!vars)
<1>1. CASE UNCHANGED managerVars
  BY <1>1 DEF managerVars, Manager!vars
<1>2. CASE Deliver
  <2>1. cfgTopic # << >> /\ cfgTopic \in Seq(Sent) /\ Announced
    BY <1>2 DEF Deliver, Inv, Messages, Untouched
  <2>2. Head(cfgTopic) \in Manager!Config
    BY <2>1, TopicKeeps, SentIsConfig
  <2> QED
    BY <1>2, <2>2 DEF Deliver, Manager!Next
<1>3. CASE ManagerAcks
  BY <1>3 DEF ManagerAcks, Manager!Next, Manager!Internal, Manager!Builder
<1>4. CASE ManagerNotifies \/ ManagerWorks \/ ManagerWakes
  BY <1>4 DEF ManagerNotifies, ManagerWorks, ManagerWakes,
              Manager!Next, Manager!Internal, Manager!Builder
<1>5. CASE ExecutorStep \/ ExecutorPublishes \/ DeliverAck \/ Arrive \/ UNCHANGED vars
  <2>1. UNCHANGED managerVars
    BY <1>5 DEF ExecutorStep, ExecutorPublishes, PublishOf, DeliverAck, Arrive, vars
  <2> QED
    BY <1>1, <2>1
<1> QED
  BY <1>2, <1>3, <1>4, <1>5 DEF Next

\* Whatever the executor sends, loses and repeats, the manager runs as in its
\* own module, with configurations of one of 1..N actors and a total of 0..N.
THEOREM ManagerRunsAsAlone == Spec => Manager!Spec
<1>1. Init => Manager!Init
  BY DEF Init
<1>2. Inv /\ Bounded /\ [Next]_vars => [Manager!Next]_(Manager!vars)
  BY ManagerSteps
<1>3. Inv /\ Bounded /\ [Next]_vars => Inv' /\ Bounded'
  BY StepInv, StepBounded
<1> QED
  BY <1>1, <1>2, <1>3, InitInv, InitBounded, PTL DEF Spec, Manager!Spec

\* The two instances of the manager's module are the same manager.
LEMMA SameInit == Manager!Init => ManagerAlone!Init
BY DEF Manager!Init, ManagerAlone!Init

LEMMA SameNext == [Manager!Next]_(Manager!vars) => [ManagerAlone!Next]_(ManagerAlone!vars)
<1>1. Manager!Config = ManagerAlone!Config
  BY DEF Manager!Config, ManagerAlone!Config
<1> USE DEF Manager!intake, ManagerAlone!intake, Manager!build, ManagerAlone!build,
            Manager!exit, ManagerAlone!exit, Manager!stop, ManagerAlone!stop,
            Manager!Notified, ManagerAlone!Notified
<1>2. \A m : Manager!VehicleConfigCallback(m) => ManagerAlone!VehicleConfigCallback(m)
  BY DEF Manager!VehicleConfigCallback, ManagerAlone!VehicleConfigCallback,
         Manager!IgnoreDuplicate, ManagerAlone!IgnoreDuplicate, Manager!Accept, ManagerAlone!Accept,
         Manager!CanReceive, ManagerAlone!CanReceive, Manager!TakeTotal, ManagerAlone!TakeTotal
<1>3. Manager!NotifyBuilder => ManagerAlone!NotifyBuilder
  BY DEF Manager!NotifyBuilder, ManagerAlone!NotifyBuilder
<1>4. Manager!SpuriousWakeup => ManagerAlone!SpuriousWakeup
  BY DEF Manager!SpuriousWakeup, ManagerAlone!SpuriousWakeup
<1>5. Manager!Builder => ManagerAlone!Builder
  <2>1. Manager!Check \/ Manager!Doze \/ Manager!Block \/ Manager!Quit => ManagerAlone!Builder
    BY DEF Manager!Check, ManagerAlone!Check, Manager!Doze, ManagerAlone!Doze,
           Manager!Block, ManagerAlone!Block, Manager!Quit, ManagerAlone!Quit, ManagerAlone!Builder
  <2>2. (\E c \in pending : Manager!Pick(c)) \/ Manager!GiveUp \/ Manager!Construct
           => ManagerAlone!Builder
    BY DEF Manager!Pick, ManagerAlone!Pick, Manager!GiveUp, ManagerAlone!GiveUp,
           Manager!Construct, ManagerAlone!Construct, ManagerAlone!Builder
  <2>3. Manager!AddPlanTask \/ Manager!AddControlTask => ManagerAlone!Builder
    BY DEF Manager!AddPlanTask, ManagerAlone!AddPlanTask, Manager!AddControlTask,
           ManagerAlone!AddControlTask, Manager!AddTask, ManagerAlone!AddTask, ManagerAlone!Builder
  <2>4. Manager!Report \/ Manager!Launch => ManagerAlone!Builder
    BY DEF Manager!Report, ManagerAlone!Report, Manager!Launch, ManagerAlone!Launch,
           Manager!Complete, ManagerAlone!Complete, ManagerAlone!Builder
  <2> QED
    BY <2>1, <2>2, <2>3, <2>4 DEF Manager!Builder
<1>6. Manager!Destroy => ManagerAlone!Destroy
  BY DEF Manager!Destroy, ManagerAlone!Destroy, Manager!DestroyStop, ManagerAlone!DestroyStop,
         Manager!DestroyNotify, ManagerAlone!DestroyNotify,
         Manager!DestroyJoin, ManagerAlone!DestroyJoin
<1>7. Manager!Shutdown \/ Manager!Done => ManagerAlone!Shutdown \/ ManagerAlone!Done
  BY DEF Manager!Shutdown, ManagerAlone!Shutdown, Manager!Done, ManagerAlone!Done,
         Manager!vars, ManagerAlone!vars
<1>8. UNCHANGED Manager!vars => UNCHANGED ManagerAlone!vars
  BY DEF Manager!vars, ManagerAlone!vars
<1> QED
  BY <1>1, <1>2, <1>3, <1>4, <1>5, <1>6, <1>7, <1>8
     DEF Manager!Next, ManagerAlone!Next, Manager!Internal, ManagerAlone!Internal

LEMMA SameInvariant ==
    ASSUME ManagerAlone!IInv
    PROVE  /\ Manager!TypeOK /\ Manager!Stations /\ Manager!OneDriverPerRole
           /\ Manager!StartsWhenComplete /\ Manager!PendingIsLookedAfter
<1> USE DEF ManagerAlone!IInv
<1>1. Manager!TypeOK
  BY DEF Manager!TypeOK, ManagerAlone!TypeOK, Manager!Config, ManagerAlone!Config,
         Manager!Points, ManagerAlone!Points, Manager!Kinds, ManagerAlone!Kinds
<1>2. Manager!Stations
  BY DEF Manager!Stations, ManagerAlone!Stations, Manager!PendingRoles, ManagerAlone!PendingRoles,
         Manager!InHand, ManagerAlone!InHand
<1>3. Manager!OneDriverPerRole
  BY DEF Manager!OneDriverPerRole, ManagerAlone!OneDriverPerRole, Manager!Tasked, ManagerAlone!Tasked,
         Manager!Kinds, ManagerAlone!Kinds, Manager!InHand, ManagerAlone!InHand
<1>4. Manager!StartsWhenComplete
  BY DEF Manager!StartsWhenComplete, ManagerAlone!StartsWhenComplete,
         Manager!Complete, ManagerAlone!Complete
<1>5. Manager!PendingIsLookedAfter
  BY DEF Manager!PendingIsLookedAfter, ManagerAlone!PendingIsLookedAfter
<1> QED
  BY <1>1, <1>2, <1>3, <1>4, <1>5

\* What is proved of the manager in any environment holds beside the executor:
\* a vehicle has one driver, no configuration is slept over, and the start is
\* decided once, however the repetitions and losses fall.
ManagerKeepsItsPromises ==
    /\ Manager!Stations
    /\ Manager!OneDriverPerRole
    /\ Manager!StartsWhenComplete
    /\ Manager!PendingIsLookedAfter

LEMMA ManagerInvariant == Spec => [](Manager!TypeOK /\ ManagerKeepsItsPromises)
<1>1. Spec => ManagerAlone!Spec
  BY ManagerRunsAsAlone, SameInit, SameNext, PTL DEF Manager!Spec, ManagerAlone!Spec
<1>2. Spec => []ManagerAlone!IInv
  BY <1>1, ManagerAlone!Safety, ManagerIsGiven, PTL
<1>3. ManagerAlone!IInv => Manager!TypeOK /\ ManagerKeepsItsPromises
  BY SameInvariant DEF ManagerKeepsItsPromises
<1> QED
  BY <1>2, <1>3, PTL

\* spawnDriver, builderLoop and VehicleConfigCallback keep their invariants
\* with the executor's messages as with any others.
THEOREM ManagerIsReliable == Spec => []ManagerKeepsItsPromises
BY ManagerInvariant, PTL

\* No two vehicles are announced with one actor (spawn_vehicles_from_vehicles),
\* although entries repeat each other's role names and replace each other.
THEOREM ActorsHaveOneRole == Spec => []OneRolePerActor
<1>1. Bounded => OneRolePerActor
  BY DEF Bounded
<1> QED
  BY <1>1, InitInv, InitBounded, StepInv, StepBounded, PTL DEF Spec

\* Every variable of both nodes and the topics keeps its type; the topic never
\* holds more than its depth.
THEOREM TypeCorrect == Spec => []TypeOK
<1>1. ASSUME Inv, Bounded, Manager!TypeOK PROVE TypeOK
  <2>1. Sent \subseteq Manager!Config \/ ~Announced
    BY <1>1, SentIsConfig
  <2>2. cfgTopic \in Seq(Manager!Config)
    <3>1. CASE ~Announced
      BY <1>1, <3>1 DEF Inv, Messages, Untouched
    <3>2. CASE Sent \subseteq Manager!Config
      <4>1. cfgTopic \in Seq(Sent)
        BY <1>1 DEF Inv, Messages
      <4>2. Len(cfgTopic) \in Nat /\ cfgTopic = [i \in 1..Len(cfgTopic) |-> cfgTopic[i]]
        BY <4>1
      <4>3. \A i \in 1..Len(cfgTopic) : cfgTopic[i] \in Manager!Config
        BY <3>2, <4>1
      <4> QED
        BY <4>2, <4>3
    <3> QED
      BY <2>1, <3>1, <3>2
  <2>3. ackTopic \subseteq Roles
    BY <1>1 DEF Inv, Served, Configured, Executor!Configured
  <2> QED
    BY <1>1, <2>2, <2>3 DEF TypeOK, Bounded
<1> QED
  BY <1>1, InitInv, InitBounded, StepInv, StepBounded, ManagerInvariant, PTL DEF Spec
-----------------------------------------------------------------------------
(***************************************************************************)
(* What is sent repeatedly, and what is sent once.                         *)
(***************************************************************************)
Waits == unacked \cup resend

\* Once the fleet is announced, a role the executor has fallen silent about is
\* never sent again (resend_unacked): the repetitions only become fewer.
SilenceIsKept == [][Announced => unacked' \subseteq unacked /\ Waits' \subseteq Waits]_vars

\* The one ACK of a vehicle is published, or lost, when its driver is complete,
\* and nothing the executor repeats brings another (spawnDriver).
AckIsSentOnce ==
    [][\A r : r \in (ackTopic' \ ackTopic) \cup (lost' \ lost) =>
          r \notin acked /\ acked' = acked \cup {r}]_vars

LEMMA WaitsShrink ==
    ASSUME [Next]_vars, Announced
    PROVE  unacked' \subseteq unacked /\ Waits' \subseteq Waits
<1> USE DEF Waits
<1>1. CASE UNCHANGED <<unacked, resend>>
  BY <1>1
<1>2. CASE ExecutorStep
  BY <1>2 DEF ExecutorStep, Announced, Executor!Spawn, Executor!SpawnRefused, Executor!SpawnAccepted,
              Executor!SpawnAborts, Executor!Announce, Executor!StartTimer, Executor!TimerFires
<1>3. CASE ExecutorPublishes
  BY <1>3 DEF ExecutorPublishes, PublishOf, Executor!PublishInitial, Executor!Resend
<1>4. CASE DeliverAck
  BY <1>4 DEF DeliverAck, Executor!OnAck
<1>5. CASE Arrive
  BY <1>1, <1>5 DEF Arrive, Executor!CheckVehicleStatus
<1>6. CASE Deliver \/ ManagerAcks \/ ManagerNotifies \/ ManagerWorks \/ ManagerWakes \/ UNCHANGED vars
  <2>1. UNCHANGED executorVars
    BY <1>6 DEF Deliver, ManagerAcks, ManagerNotifies, ManagerWorks, ManagerWakes, vars
  <2> QED
    BY <1>1, <2>1 DEF executorVars
<1> QED
  BY <1>2, <1>3, <1>4, <1>5, <1>6 DEF Next

\* The repetitions are never taken up again (_on_ack, resend_unacked).
THEOREM SilenceIsFinal == Spec => SilenceIsKept
<1>1. [Next]_vars => [Announced => unacked' \subseteq unacked /\ Waits' \subseteq Waits]_vars
  BY WaitsShrink
<1> QED
  BY <1>1, PTL DEF Spec, SilenceIsKept

LEMMA AckIsNew ==
    ASSUME Inv, [Next]_vars, NEW r, r \in (ackTopic' \ ackTopic) \cup (lost' \ lost)
    PROVE  r \notin acked /\ acked' = acked \cup {r}
<1>1. CASE ManagerAcks
  <2>1. /\ builder = "report" /\ acked' = acked \cup {current.role}
        /\ ackTopic' \subseteq ackTopic \cup {current.role}
        /\ lost' \subseteq lost \cup {current.role}
    BY <1>1 DEF ManagerAcks, Manager!Report
  <2>2. current.role \notin acked
    BY <2>1 DEF Inv, Building
  <2> QED
    BY <2>1, <2>2
<1>2. CASE ~ManagerAcks
  <2>1. ackTopic' \subseteq ackTopic /\ lost' = lost
    BY <1>2 DEF Next, ExecutorStep, ExecutorPublishes, PublishOf, Deliver, ManagerNotifies,
                ManagerWorks, ManagerWakes, DeliverAck, Arrive, topics, vars
  <2> QED
    BY <2>1
<1> QED
  BY <1>1, <1>2

\* Each vehicle is acknowledged once, lost or not (spawnDriver).
THEOREM AcksAreNotRepeated == Spec => AckIsSentOnce
<1>1. Inv /\ [Next]_vars =>
        [\A r : r \in (ackTopic' \ ackTopic) \cup (lost' \ lost) =>
            r \notin acked /\ acked' = acked \cup {r}]_vars
  BY AckIsNew
<1> QED
  BY <1>1, InitInv, StepInv, PTL DEF Spec, AckIsSentOnce
=============================================================================
