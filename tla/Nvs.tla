-------------------------------- MODULE Nvs --------------------------------
(***************************************************************************)
(* What survives a power cut: the PID gains (namespace "pid") and the      *)
(* magnetometer offsets (namespace "mag"), each three floats that          *)
(* firmware/src/pid.cpp and imu.cpp put one key at a time into the flash   *)
(* and read back in setup().                                               *)
(*                                                                         *)
(* A value is the number of the configuration it belongs to; 0 is the      *)
(* compiled-in default, and in the flash a key that is missing.  The       *)
(* Preferences library is external: it commits every put by itself, and    *)
(* begin or a put may fail, which the code ignores.                        *)
(***************************************************************************)
EXTENDS Naturals

CONSTANT MaxConfigs   \* bound: configurations in a behaviour

ASSUME ConfigAssumption == MaxConfigs \in Nat

Namespaces == {"pid", "mag"}
Keys       == 1 .. 3     \* kp, ki, kd and offx, offy, offz
Idle       == "idle"

VARIABLES
  flash,    \* the keys of both namespaces
  ram,      \* the gains of both motors, the offsets
  powered,  \* FALSE until setup() has loaded the configuration
  saving,   \* the namespace being saved, or Idle
  key,      \* the key that is put next
  configs,  \* history: configurations so far
  faulty,   \* history: namespaces with a failed begin or put since the last
            \* boot or undisturbed save
  putFailed \* history: has a put ever failed?

vars == <<flash, ram, powered, saving, key, configs, faulty, putFailed>>

Whole(n) == [k \in Keys |-> n]

Init ==
  /\ flash = [ns \in Namespaces |-> Whole(0)]
  /\ ram = [ns \in Namespaces |-> Whole(0)]
  /\ powered = FALSE
  /\ saving = Idle
  /\ key = 1
  /\ configs = 0
  /\ faulty = {}
  /\ putFailed = FALSE

\* The gains are taken only when all three keys are there.  Variant: key by
\* key, a missing one replaced by its default.
GainsByKey  == flash["pid"]
LoadedGains == IF \E k \in Keys : flash["pid"][k] = 0 THEN Whole(0) ELSE flash["pid"]

\* A missing offset is replaced by its default, the others are taken.
LoadedOffsets == flash["mag"]

Loaded(ns) == IF ns = "pid" THEN LoadedGains ELSE LoadedOffsets

\* setup(): a namespace that cannot be opened keeps its defaults.
Boot(opened) ==
  /\ ~powered
  /\ powered' = TRUE
  /\ ram' = [ns \in Namespaces |-> IF ns \in opened THEN Loaded(ns) ELSE Whole(0)]
  /\ faulty' = Namespaces \ opened
  /\ UNCHANGED <<flash, saving, key, configs, putFailed>>

\* The power goes, between two operations or in the middle of a save.
PowerCut ==
  /\ powered
  /\ powered' = FALSE
  /\ saving' = Idle
  /\ UNCHANGED <<flash, ram, key, configs, faulty, putFailed>>

\* The first key of a save.  Variant: one too late.
SecondKey == 2
FirstKey  == 1

\* pidConfigCallback, or finishMagCalibration with samples: the new values
\* apply at once, to both motors, and are then saved if begin succeeds.
Configure(ns, begun) ==
  /\ powered
  /\ saving = Idle
  /\ configs < MaxConfigs
  /\ configs' = configs + 1
  /\ ram' = [ram EXCEPT ![ns] = Whole(configs + 1)]
  /\ key' = FirstKey
  /\ saving' = IF begun THEN ns ELSE Idle
  /\ faulty' = IF begun THEN faulty \ {ns} ELSE faulty \cup {ns}
  /\ UNCHANGED <<flash, powered, putFailed>>

\* putFloat of one key; end() after the last.  Variant: the order reversed.
LastFirst(k) == 4 - k
InOrder(k)   == k

\* Variant: the save does not stop at its third key.
NextKeyUnbounded(k) == k + 1
NextKey(k)          == IF k = 3 THEN 1 ELSE k + 1

PutFloat(ok) ==
  /\ saving # Idle
  /\ flash' = IF ok THEN [flash EXCEPT ![saving][InOrder(key)] = ram[saving][InOrder(key)]]
                    ELSE flash
  /\ faulty' = IF ok THEN faulty ELSE faulty \cup {saving}
  /\ putFailed' = (putFailed \/ ~ok)
  /\ saving' = IF key = 3 THEN Idle ELSE saving
  /\ key' = NextKey(key)
  /\ UNCHANGED <<ram, powered, configs>>

Next ==
  \/ \E opened \in SUBSET Namespaces : Boot(opened)
  \/ PowerCut
  \/ \E ns \in Namespaces, begun \in BOOLEAN : Configure(ns, begun)
  \/ \E ok \in BOOLEAN : PutFloat(ok)

Spec == Init /\ [][Next]_vars

-----------------------------------------------------------------------------

Values == [Namespaces -> [Keys -> Nat]]

\* Every variable holds a value of its kind, and only a running program saves.
TypeOK ==
  /\ flash \in Values
  /\ ram \in Values
  /\ powered \in BOOLEAN
  /\ saving \in Namespaces \cup {Idle}
  /\ saving # Idle => powered
  /\ key \in Keys
  /\ configs \in Nat
  /\ faulty \subseteq Namespaces
  /\ putFailed \in BOOLEAN

\* A reboot changes nothing: unless a library call failed, the values the
\* robot runs with are the ones setup() would load, whatever was cut off in
\* earlier saves.
RebootKeeps ==
  \A ns \in Namespaces :
    (powered /\ saving # ns /\ ns \notin faulty) => Loaded(ns) = ram[ns]

\* The robot never runs with gains that are partly configured and partly
\* defaults, also when its very first save was cut off.
GainsNotMixedWithDefaults ==
  powered => \A k \in Keys : (ram["pid"][k] = 0) = (ram["pid"][1] = 0)

\* Torn saves only ever leave older values behind newer ones: the first key
\* holds the newest configuration that reached the flash, and what follows a
\* key is not newer than it.
TornInOrder ==
  ~putFailed =>
    \A ns \in Namespaces : flash[ns][1] >= flash[ns][2] /\ flash[ns][2] >= flash[ns][3]

=============================================================================
