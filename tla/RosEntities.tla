---------------------------- MODULE RosEntities ----------------------------
(***************************************************************************)
(* The micro-ROS entities of the firmware (firmware/src/main.cpp,          *)
(* createRosEntities and destroyRosEntities) and the agent check that      *)
(* creates them when the agent answers and destroys them when it does not. *)
(*                                                                         *)
(* Each entity lives in a global handle and takes a place in one of the    *)
(* client library's static pools.  A creation that fails half way returns  *)
(* at once; the next one initialises the same handles again.               *)
(***************************************************************************)
EXTENDS Naturals, Sequences, FiniteSetsExt

CONSTANTS
  PUBLISH_RAW_ODOM_TF,  \* is there a /tf publisher?
  Capacity,             \* places per kind of entity in the library's pools
  MaxFailures           \* bound: creations that a bad link interrupts

Subscriptions == {"cmd_sub", "rpm_cmd_sub", "pid_config_sub", "calibrate_mag_sub"}

\* The order of creation.  The four subscriptions added to the executor at
\* the end fill the four handles its initialisation made room for, and so
\* cannot fail after it.
CreationOrder ==
  <<"support", "node", "cmd_sub", "rpm_cmd_sub", "pid_config_sub",
    "calibrate_mag_sub", "wheel_pub", "rpm_feedback_pub", "imu_pub", "mag_pub",
    "odom_pub", "imu_status_pub", "mag_status_pub">>
  \o (IF PUBLISH_RAW_ODOM_TF THEN <<"tf_pub">> ELSE <<>>)
  \o <<"executor">>

Steps    == Len(CreationOrder)
Entities == {CreationOrder[i] : i \in 1 .. Steps}

Kind(e) == CASE e = "support"          -> "session"
             [] e = "node"             -> "node"
             [] e \in Subscriptions    -> "subscription"
             [] e = "executor"         -> "heap"
             [] OTHER                  -> "publisher"

Kinds == {"session", "node", "subscription", "publisher", "heap"}

OfKind == [kind \in Kinds |-> {e \in Entities : Kind(e) = kind}]

\* The first n entities, and how many there are of each kind among them.
FirstSteps == [n \in 0 .. Steps |-> {CreationOrder[i] : i \in 1 .. n}]
Wanted     == [n \in 0 .. Steps |->
                [kind \in Kinds |-> Cardinality(FirstSteps[n] \cap OfKind[kind])]]

ASSUME EntityAssumption ==
  /\ PUBLISH_RAW_ODOM_TF \in BOOLEAN
  /\ Capacity \in [Kinds -> Nat]
  /\ MaxFailures \in Nat

VARIABLES
  agent,     \* g_agent_state
  created,   \* g_ros_entities_created
  handles,   \* entities whose handle is initialised
  held,      \* places of the pools each entity's initialisations still hold
  link,      \* "down", "lossy" or "good": how the agent answers
  failures   \* history: creations that failed after taking a session

vars == <<agent, created, handles, held, link, failures>>

Init ==
  /\ agent = "Waiting"
  /\ created = FALSE
  /\ handles = {}
  /\ held = [e \in Entities |-> 0]
  /\ link \in {"down", "lossy", "good"}
  /\ failures = 0

-----------------------------------------------------------------------------

LinkBecomes(quality) ==
  /\ link' = quality
  /\ UNCHANGED <<agent, created, handles, held, failures>>

InUse(kind) == MapThenSumSet(LAMBDA e : held[e], OfKind[kind])

\* Do the pools have room for the first n entities?
Room(n) ==
  \A kind \in Kinds :
    Wanted[n][kind] > 0 => InUse(kind) + Wanted[n][kind] <= Capacity[kind]

\* createRosEntities up to its first n entities.  It goes on to the next one
\* unless the pools are full or the agent fails to answer.
CreateRosEntities(n) ==
  /\ agent = "Waiting"
  /\ link # "down"
  /\ Room(n)
  /\ n < Steps => ~Room(n + 1) \/ (link = "lossy" /\ failures < MaxFailures)
  /\ handles' = handles \cup FirstSteps[n]
  /\ held' = [e \in Entities |-> IF e \in FirstSteps[n] THEN held[e] + 1 ELSE held[e]]
  /\ created' = (n = Steps)
  /\ agent' = IF created' THEN "Connected" ELSE "Waiting"
  /\ failures' = IF n \in 1 .. (Steps - 1) THEN failures + 1 ELSE failures
  /\ UNCHANGED link

\* What destroyRosEntities finishes.  Variants: it forgets the support
\* object, and with it the session; it forgets one publisher.
FinishedButSession   == Entities \ {"support"}
FinishedButPublisher == Entities \ {"mag_status_pub"}
Finished             == Entities

\* The ping is not answered while connected: on a bad link, or by bad luck.
DestroyRosEntities ==
  /\ agent = "Connected"
  /\ link # "good"
  /\ agent' = "Waiting"
  /\ IF created
       THEN /\ handles' = handles \ Finished
            /\ held' = [e \in Entities |-> IF e \in Finished THEN held[e] - 1 ELSE held[e]]
            /\ created' = FALSE
       ELSE UNCHANGED <<handles, held, created>>
  /\ UNCHANGED <<link, failures>>

AgentCheck == DestroyRosEntities \/ \E n \in 0 .. Steps : CreateRosEntities(n)

Next == AgentCheck \/ \E quality \in {"down", "lossy", "good"} : LinkBecomes(quality)

Spec == Init /\ [][Next]_vars

\* The agent is checked every 500 ms for ever.
FairSpec == Spec /\ WF_vars(AgentCheck)

-----------------------------------------------------------------------------

\* Every variable holds a value of its kind; nothing is finished twice.
TypeOK ==
  /\ agent \in {"Waiting", "Connected"}
  /\ created \in BOOLEAN
  /\ handles \subseteq Entities
  /\ held \in [Entities -> 0 .. (failures + 1)]
  /\ link \in {"down", "lossy", "good"}
  /\ failures \in Nat

\* The loop spins the executor and publishes only through handles of the
\* session it is connected with: connected means a complete creation.
ConnectedIsComplete ==
  agent = "Connected" => created /\ handles = Entities

\* Connecting and disconnecting, however often, leaks nothing; only a
\* creation that failed half way does, one place per entity it had reached.
OnlyFailuresLeak ==
  \A e \in Entities : held[e] <= failures + (IF created THEN 1 ELSE 0)

\* What the loop holds of the client library is what it takes itself to hold.
EntitiesAccounted == ConnectedIsComplete /\ OnlyFailuresLeak

\* As long as fewer creations fail half way than there are spare sessions,
\* an agent that answers reliably is connected to, and stays so.
Reconnects == <>[](link = "good") => <>[](agent = "Connected")

=============================================================================
