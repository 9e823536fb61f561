----------------------------- MODULE NvsProofs -----------------------------
(***************************************************************************)
(* What survives a power cut, for any number of configurations.  The       *)
(* argument: while a save runs, ram holds the newest configuration in all  *)
(* three keys (SavedIsNewest) and the flash already agrees with it below   *)
(* `key` unless a put failed (PrefixSaved); so a save that ends leaves     *)
(* flash = ram, and one that is cut off leaves a newer prefix before an    *)
(* older rest.                                                             *)
(***************************************************************************)
EXTENDS Nvs, TLAPS

SavedIsNewest ==
  saving # Idle => configs > 0 /\ \A k \in Keys : ram[saving][k] = configs

PrefixSaved ==
  saving # Idle /\ saving \notin faulty =>
    \A k \in Keys : k < key => flash[saving][k] = ram[saving][k]

NewestPrefix ==
  saving # Idle /\ ~putFailed =>
    \A k \in Keys : k < key => flash[saving][k] = configs

NothingNewer == \A ns \in Namespaces : \A k \in Keys : flash[ns][k] <= configs

IInv ==
  /\ TypeOK
  /\ SavedIsNewest
  /\ PrefixSaved
  /\ NewestPrefix
  /\ NothingNewer
  /\ RebootKeeps
  /\ GainsNotMixedWithDefaults
  /\ TornInOrder

LEMMA LoadedType ==
  ASSUME flash \in Values, NEW ns \in Namespaces
  PROVE  /\ Loaded(ns) \in [Keys -> Nat]
         /\ \A k \in Keys : (Loaded("pid")[k] = 0) = (Loaded("pid")[1] = 0)
BY DEF Loaded, LoadedGains, LoadedOffsets, Values, Whole, Keys, Namespaces

LEMMA InitHolds == Init => IInv
<1> SUFFICES ASSUME Init PROVE IInv
  OBVIOUS
<1>1. TypeOK
  <2>1. flash \in Values /\ ram \in Values
    BY DEF Init, Values, Whole
  <2>2. powered \in BOOLEAN /\ putFailed \in BOOLEAN
    BY DEF Init
  <2>3. /\ saving \in Namespaces \cup {Idle}
        /\ saving # Idle => powered
        /\ key \in Keys /\ configs \in Nat
        /\ faulty \subseteq Namespaces
    BY DEF Init, Keys
  <2> QED
    BY <2>1, <2>2, <2>3 DEF TypeOK
<1>2. SavedIsNewest /\ PrefixSaved /\ NewestPrefix
  BY DEF Init, SavedIsNewest, PrefixSaved, NewestPrefix
<1>3. NothingNewer /\ TornInOrder
  BY DEF Init, NothingNewer, TornInOrder, Whole, Namespaces, Keys
<1>4. RebootKeeps /\ GainsNotMixedWithDefaults
  BY DEF Init, RebootKeeps, GainsNotMixedWithDefaults
<1> QED
  BY <1>1, <1>2, <1>3, <1>4 DEF IInv

LEMMA BootStep ==
  ASSUME IInv, NEW opened \in SUBSET Namespaces, Boot(opened)
  PROVE  IInv'
<1> USE DEF IInv, Boot
<1>1. ram' \in Values
  BY LoadedType DEF TypeOK, Values, Whole, Keys, Namespaces
<1>2. TypeOK'
  BY <1>1 DEF TypeOK, Namespaces
<1>3. saving = Idle
  BY DEF TypeOK
<1>4. SavedIsNewest' /\ PrefixSaved' /\ NewestPrefix' /\ NothingNewer' /\ TornInOrder'
  BY <1>3 DEF SavedIsNewest, PrefixSaved, NewestPrefix, NothingNewer, TornInOrder
<1>5. RebootKeeps'
  <2> SUFFICES ASSUME NEW ns \in Namespaces, ns \notin faulty'
               PROVE  Loaded(ns)' = ram'[ns]
    BY DEF RebootKeeps
  <2>1. ns \in opened
    OBVIOUS
  <2> QED
    BY <2>1 DEF Loaded, LoadedGains, LoadedOffsets, Namespaces
<1>6. GainsNotMixedWithDefaults'
  BY LoadedType DEF GainsNotMixedWithDefaults, TypeOK, Namespaces, Whole, Keys
<1> QED
  BY <1>2, <1>4, <1>5, <1>6

LEMMA PowerCutStep ==
  ASSUME IInv, PowerCut
  PROVE  IInv'
BY DEF IInv, PowerCut, TypeOK, SavedIsNewest, PrefixSaved, NewestPrefix,
       NothingNewer, RebootKeeps, GainsNotMixedWithDefaults, TornInOrder

LEMMA ConfigureStep ==
  ASSUME IInv, NEW ns \in Namespaces, NEW begun \in BOOLEAN, Configure(ns, begun)
  PROVE  IInv'
<1> USE DEF IInv, Configure
<1>1. ram' \in Values /\ configs + 1 \in Nat
  BY DEF TypeOK, Values, Whole, Keys
<1>2. TypeOK'
  BY <1>1 DEF TypeOK, Namespaces, Keys, FirstKey, Idle
<1>3. \A k \in Keys : ram'[ns][k] = configs'
  BY DEF TypeOK, Values, Whole
<1>4. \A other \in Namespaces : other # ns => ram'[other] = ram[other]
  BY DEF TypeOK, Values
<1>5. SavedIsNewest'
  BY <1>1, <1>3 DEF SavedIsNewest, TypeOK
<1>6. PrefixSaved' /\ NewestPrefix'
  BY DEF PrefixSaved, NewestPrefix, FirstKey, Keys
<1>7. NothingNewer'
  BY DEF NothingNewer, TypeOK, Values
<1>8. TornInOrder'
  BY DEF TornInOrder
<1>9. RebootKeeps'
  <2> SUFFICES ASSUME NEW other \in Namespaces, saving' # other, other \notin faulty'
               PROVE  Loaded(other)' = ram'[other]
    BY DEF RebootKeeps
  <2>1. other # ns
    BY DEF Namespaces
  <2>2. saving # other /\ other \notin faulty
    BY <2>1 DEF Idle, Namespaces
  <2>3. Loaded(other) = ram[other]
    BY <2>2 DEF RebootKeeps
  <2> QED
    BY <1>4, <2>1, <2>3 DEF Loaded, LoadedGains, LoadedOffsets, Namespaces
<1>10. GainsNotMixedWithDefaults'
  <2>1. CASE ns = "pid"
    BY <1>3, <2>1 DEF GainsNotMixedWithDefaults, Keys
  <2>2. CASE ns # "pid"
    BY <1>4, <2>2 DEF GainsNotMixedWithDefaults, Keys, Namespaces
  <2> QED
    BY <2>1, <2>2
<1> QED
  BY <1>2, <1>5, <1>6, <1>7, <1>8, <1>9, <1>10

LEMMA PutFloatStep ==
  ASSUME IInv, NEW ok \in BOOLEAN, PutFloat(ok)
  PROVE  IInv'
<1> USE DEF IInv, PutFloat, InOrder
<1>1. /\ saving \in Namespaces
      /\ key \in Keys
      /\ flash \in Values /\ ram \in Values
  BY DEF TypeOK
<1>2. flash' \in Values
  BY <1>1 DEF Values
<1>3. TypeOK'
  BY <1>1, <1>2 DEF TypeOK, Keys, NextKey
<1>4. \A k \in Keys : k # key => flash'[saving][k] = flash[saving][k]
  BY <1>1 DEF Values
<1>5. \A other \in Namespaces : other # saving => flash'[other] = flash[other]
  BY <1>1 DEF Values
<1>6. ok => flash'[saving][key] = ram[saving][key]
  BY <1>1 DEF Values
<1>7. ~ok => flash' = flash
  OBVIOUS
<1>8. ram[saving][key] = configs
  BY <1>1 DEF SavedIsNewest
<1>9. SavedIsNewest'
  BY DEF SavedIsNewest
<1>10. saving \notin faulty' => ok /\ saving \notin faulty
  OBVIOUS
<1>11. saving \notin faulty' =>
         \A k \in Keys : k <= key => flash'[saving][k] = ram[saving][k]
  BY <1>1, <1>4, <1>6, <1>10 DEF PrefixSaved, Keys
<1>12. PrefixSaved'
  BY <1>1, <1>11 DEF PrefixSaved, Keys, NextKey
<1>13. ~putFailed' =>
         \A k \in Keys : k <= key => flash'[saving][k] = configs
  <2>1. ~putFailed' => ok /\ ~putFailed
    OBVIOUS
  <2>2. ~putFailed => \A k \in Keys : k < key => flash[saving][k] = configs
    BY DEF NewestPrefix
  <2> QED
    BY <1>1, <1>4, <1>6, <1>8, <2>1, <2>2 DEF Keys
<1>14. NewestPrefix'
  BY <1>1, <1>13 DEF NewestPrefix, Keys, NextKey
<1>15. NothingNewer'
  BY <1>1, <1>4, <1>5, <1>6, <1>7, <1>8 DEF NothingNewer, TypeOK
<1>16. TornInOrder'
  <2> SUFFICES ASSUME ~putFailed', NEW ns \in Namespaces
               PROVE  flash'[ns][1] >= flash'[ns][2] /\ flash'[ns][2] >= flash'[ns][3]
    BY DEF TornInOrder
  <2>1. CASE ns # saving
    BY <1>5, <2>1 DEF TornInOrder
  <2>2. CASE ns = saving
    <3>1. flash[ns][1] >= flash[ns][2] /\ flash[ns][2] >= flash[ns][3]
      BY DEF TornInOrder
    <3>2. flash'[ns] \in [Keys -> Nat] /\ configs \in Nat
      BY <1>2 DEF Values, TypeOK
    <3>3. \A k \in Keys : flash'[ns][k] <= configs
      BY <1>15 DEF NothingNewer
    <3> QED
      BY <1>1, <1>4, <1>13, <2>2, <3>1, <3>2, <3>3 DEF Keys
  <2> QED
    BY <2>1, <2>2
<1>17. RebootKeeps'
  <2> SUFFICES ASSUME NEW ns \in Namespaces, saving' # ns, ns \notin faulty', powered'
               PROVE  Loaded(ns)' = ram'[ns]
    BY DEF RebootKeeps
  <2>1. CASE ns # saving
    <3>1. Loaded(ns) = ram[ns]
      BY <2>1 DEF RebootKeeps
    <3> QED
      BY <1>5, <2>1, <3>1 DEF Loaded, LoadedGains, LoadedOffsets, Namespaces
  <2>2. CASE ns = saving
    <3>1. key = 3
      BY <2>2
    <3>2. \A k \in Keys : flash'[ns][k] = ram[ns][k]
      BY <1>11, <2>2, <3>1 DEF Keys
    <3>3. flash'[ns] = ram[ns]
      BY <1>1, <1>2, <3>2 DEF Values
    <3>4. \A k \in Keys : flash'[ns][k] # 0
      BY <2>2, <3>2 DEF SavedIsNewest, TypeOK
    <3> QED
      BY <3>3, <3>4 DEF Loaded, LoadedGains, LoadedOffsets, Namespaces
  <2> QED
    BY <2>1, <2>2
<1>18. GainsNotMixedWithDefaults'
  BY DEF GainsNotMixedWithDefaults
<1> QED
  BY <1>3, <1>9, <1>12, <1>14, <1>15, <1>16, <1>17, <1>18

\* The conjunction of the named parts is inductive.
THEOREM Inductive == Spec => []IInv
<1>1. IInv /\ [Next]_vars => IInv'
  <2> SUFFICES ASSUME IInv, [Next]_vars PROVE IInv'
    OBVIOUS
  <2>1. CASE \E opened \in SUBSET Namespaces : Boot(opened)
    BY <2>1, BootStep
  <2>2. CASE PowerCut
    BY <2>2, PowerCutStep
  <2>3. CASE \E ns \in Namespaces, begun \in BOOLEAN : Configure(ns, begun)
    BY <2>3, ConfigureStep
  <2>4. CASE \E ok \in BOOLEAN : PutFloat(ok)
    BY <2>4, PutFloatStep
  <2>5. CASE UNCHANGED vars
    BY <2>5 DEF vars, IInv, TypeOK, SavedIsNewest, PrefixSaved, NewestPrefix,
                NothingNewer, RebootKeeps, Loaded, LoadedGains, LoadedOffsets,
                GainsNotMixedWithDefaults,
                TornInOrder
  <2> QED
    BY <2>1, <2>2, <2>3, <2>4, <2>5 DEF Next
<1> QED
  BY <1>1, InitHolds, PTL DEF Spec

\* However saves and power cuts follow each other, every variable keeps a
\* value of its kind.
THEOREM TypeCorrect == Spec => []TypeOK
BY Inductive, PTL DEF IInv

\* The configuration the robot runs with is the one it would boot with.
THEOREM RebootChangesNothing == Spec => []RebootKeeps
BY Inductive, PTL DEF IInv

\* The robot never runs with half of a configuration and half of the defaults.
THEOREM GainsStayWhole == Spec => []GainsNotMixedWithDefaults
BY Inductive, PTL DEF IInv

\* Cut-off saves leave older values only behind newer ones.
THEOREM TornSavesInOrder == Spec => []TornInOrder
BY Inductive, PTL DEF IInv

=============================================================================
