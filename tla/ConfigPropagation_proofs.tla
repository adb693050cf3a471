---------------------- MODULE ConfigPropagation_proofs ----------------------
(***************************************************************************)
(* Theorems about ConfigPropagation, for every set of keys, values and     *)
(* callers.                                                                *)
(***************************************************************************)
EXTENDS ConfigPropagation, TLAPS

USE ConfigAssumption

-----------------------------------------------------------------------------
(* Lemmas about patches and idle threads *)

(* A patched store is a store again; only the patched keys change. *)
LEMMA PatchedTyped ==
  ASSUME NEW s \in Settings, NEW p \in Patches
  PROVE  /\ Patched(s, p) \in Settings
         /\ \A k \in Keys : Patched(s, p)[k] = IF k \in DOMAIN p THEN p[k] ELSE s[k]
<1>1. PICK S \in SUBSET Keys : p \in [S -> Values]
  BY DEF Patches
<1>2. \A k \in DOMAIN p : p[k] \in Values
  BY <1>1
<1> QED BY <1>2 DEF Patched, Settings

(* An idle thread is well typed. *)
LEMMA IdleTyped ==
  /\ IdleCaller \in CallerStates
  /\ IdleCaller.pc = "idle"
  /\ IdleWatcher \in [pc : {"sleep", "load", "publish"}, dirty : BOOLEAN]
  /\ IdleWatcher.pc = "sleep" /\ IdleWatcher.dirty = FALSE
<1>1. NoPatch \in [{} -> Values]
  BY DEF NoPatch
<1>2. NoPatch \in Patches
  BY <1>1 DEF Patches
<1> QED BY <1>2 DEF IdleCaller, IdleWatcher, CallerStates

(* A patch a setter or a bulk update starts with is well typed. *)
LEMMA BusyTyped ==
  ASSUME NEW p \in Patches, NEW x \in {"save", "saveBulk"}
  PROVE  [IdleCaller EXCEPT !.pc = x, !.patch = p] \in CallerStates
<1>1. IdleCaller \in CallerStates
  BY IdleTyped
<1> QED BY <1>1 DEF CallerStates, IdleCaller

(* What an observer reads has the keys of the patch. *)
LEMMA ReadTyped ==
  ASSUME NEW s \in Settings, NEW p \in Patches
  PROVE  /\ [k \in DOMAIN p |-> s[k]] \in Patches
         /\ DOMAIN [k \in DOMAIN p |-> s[k]] = DOMAIN p
<1>1. PICK S \in SUBSET Keys : p \in [S -> Values]
  BY DEF Patches
<1>2. [k \in DOMAIN p |-> s[k]] \in [S -> Values]
  BY <1>1 DEF Settings
<1> QED BY <1>2 DEF Patches

(* One key's patch is a patch. *)
LEMMA SingleKey ==
  ASSUME NEW k \in Keys, NEW p \in [{k} -> Values]
  PROVE  p \in Patches /\ DOMAIN p = {k}
BY DEF Patches

(* Writing a file keeps the files and the watcher well typed. *)
LEMMA WriteTyped ==
  ASSUME TypeOK, NEW p \in Paths, NEW content \in Contents, Write(p, content)
  PROVE  /\ file' \in [Paths -> Contents]
         /\ stale' \in BOOLEAN
         /\ watcher' \in [pc : {"sleep", "load", "publish"}, dirty : BOOLEAN]
<1>1. file' \in [Paths -> Contents]
  BY DEF Write, TypeOK
<1>2. CASE p = Watched
  <2>1. DEFINE d == watcher.pc # "sleep"
  <2>2. d \in BOOLEAN
    OBVIOUS
  <2>3. watcher' = [watcher EXCEPT !.dirty = d] /\ stale' = TRUE
    BY <1>2 DEF Write
  <2> HIDE DEF d
  <2> QED BY <1>1, <2>2, <2>3 DEF TypeOK
<1>3. CASE p # Watched
  BY <1>1, <1>3 DEF Write, TypeOK
<1> QED BY <1>2, <1>3

-----------------------------------------------------------------------------
(* Type correctness, the store and the files included: whatever is loaded,
   patched or saved, the store never holds what does not parse. *)
THEOREM TypeCorrect == Spec => []TypeOK
<1>1. Init => TypeOK
  BY IdleTyped DEF Init, TypeOK, Contents, Paths
<1>2. TypeOK /\ [Next]_vars => TypeOK'
  <2> SUFFICES ASSUME TypeOK, [Next]_vars PROVE TypeOK'
    OBVIOUS
  <2>1. ASSUME NEW p \in Paths, EditFile(p) PROVE TypeOK'
    BY <2>1, WriteTyped DEF EditFile, TypeOK
  <2>2. CASE Boot
    BY <2>2 DEF Boot, TypeOK, Contents
  <2>3. CASE StartWatching \/ StartObserver
    BY <2>3 DEF StartWatching, StartObserver, TypeOK
  <2>4. CASE Crash
    <3>1. OwnFile \in Paths /\ BulkTarget \in Paths /\ Broken \in Contents
      BY DEF Paths, BulkTarget, Contents
    <3>2. file' \in [Paths -> Contents]
      BY <2>4, <3>1 DEF Crash, SavesTo, TypeOK
    <3> QED BY <2>4, <3>2, IdleTyped DEF Crash, TypeOK
  <2>5. ASSUME NEW c \in Callers, Setter(c) PROVE TypeOK'
    <3>0. PICK k \in Keys : \E patch \in [{k} -> Values] :
            /\ memory' = Patched(memory, patch)
            /\ caller' = [caller EXCEPT ![c] = [IdleCaller EXCEPT !.pc = "save", !.patch = patch]]
      BY <2>5 DEF Setter
    <3>1. PICK patch \in [{k} -> Values] :
            /\ memory' = Patched(memory, patch)
            /\ caller' = [caller EXCEPT ![c] = [IdleCaller EXCEPT !.pc = "save", !.patch = patch]]
      BY <3>0
    <3>2. memory' \in Settings /\ caller' \in [Callers -> CallerStates]
      BY <3>1, SingleKey, PatchedTyped, BusyTyped DEF TypeOK
    <3> QED BY <2>5, <3>2 DEF Setter, TypeOK
  <2>6. ASSUME NEW c \in Callers, BulkUpdate(c) PROVE TypeOK'
    <3>1. PICK patch \in Patches :
            /\ memory' = Patched(memory, patch)
            /\ caller' = [caller EXCEPT ![c] = [IdleCaller EXCEPT !.pc = "saveBulk", !.patch = patch]]
      BY <2>6 DEF BulkUpdate
    <3>2. memory' \in Settings /\ caller' \in [Callers -> CallerStates]
      BY <3>1, PatchedTyped, BusyTyped DEF TypeOK
    <3> QED BY <2>6, <3>2 DEF BulkUpdate, TypeOK
  <2>7. ASSUME NEW c \in Callers, SetterSave(c) \/ BulkSave(c) PROVE TypeOK'
    <3>1. caller' \in [Callers -> CallerStates]
      BY <2>7 DEF SetterSave, BulkSave, TypeOK, CallerStates
    <3>2. OwnFile \in Paths /\ BulkTarget \in Paths /\ memory \in Contents
      BY DEF Paths, BulkTarget, TypeOK, Contents
    <3> QED BY <2>7, <3>1, <3>2, WriteTyped DEF SetterSave, BulkSave, TypeOK
  <2>8. ASSUME NEW c \in Callers, SetterNotify(c) PROVE TypeOK'
    <3> DEFINE read == [k \in DOMAIN caller[c].patch |-> memory[k]]
    <3>1. read \in Patches /\ DOMAIN read = DOMAIN caller[c].patch
      BY ReadTyped DEF TypeOK, CallerStates
    <3>2. caller' = [caller EXCEPT ![c] = [caller[c] EXCEPT !.pc = "store", !.got = read]]
      BY <2>8 DEF SetterNotify, TypeOK
    <3> HIDE DEF read
    <3>3. [caller[c] EXCEPT !.pc = "store", !.got = read] \in CallerStates
      <4>1. caller[c] \in CallerStates
        BY DEF TypeOK
      <4> QED BY <3>1, <4>1 DEF CallerStates
    <3> QED BY <2>8, <3>2, <3>3 DEF SetterNotify, TypeOK
  <2>9. ASSUME NEW c \in Callers, SetterStore(c) PROVE TypeOK'
    <3>0. caller[c] \in CallerStates
      BY DEF TypeOK
    <3>1. caller[c].got \in Patches /\ seen \in Settings
      BY <3>0 DEF TypeOK, CallerStates
    <3>2. Patched(seen, caller[c].got) \in Settings
      BY <3>1, PatchedTyped
    <3>3. seen' \in Settings
      BY <2>9, <3>2 DEF SetterStore
    <3> QED BY <2>9, <3>3, IdleTyped DEF SetterStore, TypeOK
  <2>10. ASSUME NEW c \in Callers, BulkPublish(c) PROVE TypeOK'
    BY <2>10, IdleTyped DEF BulkPublish, TypeOK
  <2>11. CASE WatchStep
    <3>1. CASE WatchStat
      BY <3>1 DEF WatchStat, TypeOK
    <3>2. CASE WatchLoad
      <4>1. file[Watched] \in Contents
        BY DEF TypeOK, Paths, Watched
      <4>2. [watcher EXCEPT !.pc = "publish"] \in [pc : {"sleep", "load", "publish"}, dirty : BOOLEAN]
        BY DEF TypeOK
      <4> QED BY <3>2, <4>1, <4>2, IdleTyped DEF WatchLoad, TypeOK, Contents
    <3>3. CASE WatchPublish
      <4>1. watcher.dirty \in BOOLEAN
        BY DEF TypeOK
      <4> QED BY <3>3, <4>1, IdleTyped DEF WatchPublish, TypeOK
    <3> QED BY <2>11, <3>1, <3>2, <3>3 DEF WatchStep
  <2>12. CASE UNCHANGED vars
    BY <2>12 DEF vars, TypeOK
  <2> QED
    BY <2>1, <2>2, <2>3, <2>4, <2>5, <2>6, <2>7, <2>8, <2>9, <2>10, <2>11, <2>12
    DEF Next, BootStep, SetterStep, BulkStep
<1> QED BY <1>1, <1>2, PTL DEF Spec

-----------------------------------------------------------------------------
(* The setters: what the observers and the file catch up with *)

(* The store matches the file and the observers when the process starts. *)
LEMMA SettersStart == Init => SettersInv
<1> SUFFICES ASSUME Init PROVE SettersInv
  OBVIOUS
<1>1. file[OwnFile] # Broken
  BY DEF Init, Settings
<1> QED BY <1>1, IdleTyped
    DEF Init, SettersInv, ObserversFollow, StoringCurrent, SavedOnceReturned

(* A setter's update makes it the one that carries the key. *)
LEMMA SetterKeeps ==
  ASSUME TypeOK, TypeOK', SettersInv, NEW c \in Callers, Setter(c)
  PROVE  SettersInv'
<1>0. PICK k \in Keys : \E patch \in [{k} -> Values] :
        /\ memory' = Patched(memory, patch)
        /\ caller' = [caller EXCEPT ![c] = [IdleCaller EXCEPT !.pc = "save", !.patch = patch]]
  BY DEF Setter
<1>1. PICK patch \in [{k} -> Values] :
        /\ memory' = Patched(memory, patch)
        /\ caller' = [caller EXCEPT ![c] = [IdleCaller EXCEPT !.pc = "save", !.patch = patch]]
  BY <1>0
<1>2. patch \in Patches /\ DOMAIN patch = {k}
  BY SingleKey
<1>3. \A j \in Keys : j # k => memory'[j] = memory[j]
  BY <1>1, <1>2, PatchedTyped DEF TypeOK
<1>4. /\ caller'[c].pc = "save" /\ k \in DOMAIN caller'[c].patch
      /\ \A d \in Callers : d # c => caller'[d] = caller[d]
  BY <1>1, <1>2, IdleTyped DEF TypeOK, IdleCaller
<1>5. phase = "up" /\ caller[c].pc = "idle" /\ UNCHANGED <<phase, file, stale, watcher, seen>>
  BY DEF Setter
<1>6. \A d \in Callers, j \in Keys : InFlight(d, j) => d # c /\ InFlight(d, j)'
  BY <1>4, <1>5 DEF InFlight
<1>7. InFlight(c, k)'
  BY <1>4 DEF InFlight
<1>8. ObserversFollow'
  BY <1>3, <1>5, <1>6, <1>7 DEF ObserversFollow, SettersInv
<1>9. SavedOnceReturned'
  BY <1>3, <1>4, <1>5, <1>6, <1>7 DEF SavedOnceReturned, SettersInv
<1>10. StoringCurrent'
  <2> SUFFICES ASSUME NEW d \in Callers, caller'[d].pc = "store",
                      NEW j \in DOMAIN caller'[d].got, caller'[d].got[j] # memory'[j]
               PROVE  \E e \in Callers : InFlight(e, j)' /\ caller'[e].pc \in {"save", "publish"}
    BY DEF StoringCurrent
  <2>1. d # c /\ caller'[d] = caller[d]
    BY <1>4
  <2>2. CASE j = k
    BY <2>2, <1>4, <1>7
  <2>3. CASE j # k
    <3>1. j \in Keys
      <4>1. caller[d] \in CallerStates
        BY DEF TypeOK
      <4>2. caller[d].got \in Patches
        BY <4>1 DEF CallerStates
      <4> QED BY <2>1, <4>2 DEF Patches
    <3>2. PICK e \in Callers : InFlight(e, j) /\ caller[e].pc \in {"save", "publish"}
      BY <2>1, <2>3, <3>1, <1>3 DEF SettersInv, StoringCurrent
    <3> QED BY <3>1, <3>2, <1>4, <1>6
  <2> QED BY <2>2, <2>3
<1> QED BY <1>4, <1>5, <1>8, <1>9, <1>10 DEF SettersInv

(* After a save the file is the store, for every caller. *)
LEMMA SaveKeeps ==
  ASSUME SettersOnly, TypeOK, TypeOK', SettersInv, NEW c \in Callers, SetterSave(c)
  PROVE  SettersInv'
<1>1. /\ caller[c].pc = "save" /\ Write(OwnFile, memory)
      /\ caller' = [caller EXCEPT ![c].pc = "publish"] /\ UNCHANGED <<phase, memory, seen>>
  BY DEF SetterSave, SettersOnly
<1>2. /\ file' = [file EXCEPT ![OwnFile] = memory]
      /\ OwnFile # Watched => UNCHANGED <<stale, watcher>>
      /\ watcher'.pc = watcher.pc
  BY <1>1 DEF Write, TypeOK
<1>3. /\ \A d \in Callers : caller'[d].patch = caller[d].patch /\ caller'[d].got = caller[d].got
      /\ \A d \in Callers : d # c => caller'[d].pc = caller[d].pc
      /\ caller'[c].pc = "publish"
  BY <1>1 DEF TypeOK, CallerStates
<1>4. phase = "up"
  BY <1>1 DEF SettersInv, TypeOK
<1>5. \A d \in Callers, k \in Keys : InFlight(d, k) => InFlight(d, k)'
  BY <1>3 DEF InFlight
<1>6. file'[OwnFile] # Broken
  BY <1>2 DEF TypeOK, Settings
<1>7. SavedOnceReturned'
  BY <1>1, <1>2 DEF SavedOnceReturned, TypeOK
<1>8. ObserversFollow'
  BY <1>1, <1>5 DEF ObserversFollow, SettersInv
<1>9. StoringCurrent'
  <2> SUFFICES ASSUME NEW d \in Callers, caller'[d].pc = "store",
                      NEW k \in DOMAIN caller'[d].got, caller'[d].got[k] # memory'[k]
               PROVE  \E e \in Callers : InFlight(e, k)' /\ caller'[e].pc \in {"save", "publish"}
    BY DEF StoringCurrent
  <2>1. PICK e \in Callers : InFlight(e, k) /\ caller[e].pc \in {"save", "publish"}
    BY <1>1, <1>3 DEF SettersInv, StoringCurrent
  <2> QED BY <2>1, <1>3 DEF InFlight
<1> QED BY <1>1, <1>2, <1>3, <1>4, <1>6, <1>7, <1>8, <1>9 DEF SettersInv

(* What an observer has just read is what is configured. *)
LEMMA NotifyKeeps ==
  ASSUME TypeOK, TypeOK', SettersInv, NEW c \in Callers, SetterNotify(c)
  PROVE  SettersInv'
<1> DEFINE read == [k \in DOMAIN caller[c].patch |-> memory[k]]
<1>1. /\ caller[c].pc = "publish" /\ ObserversFree
      /\ UNCHANGED <<phase, memory, file, stale, watcher, seen>>
      /\ caller' = [caller EXCEPT ![c] = [caller[c] EXCEPT !.pc = "store", !.got = read]]
  BY DEF SetterNotify, TypeOK
<1>2. \A k \in DOMAIN read : read[k] = memory[k]
  OBVIOUS
<1> HIDE DEF read
<1>3. /\ \A d \in Callers : d # c => caller'[d] = caller[d]
      /\ caller'[c].pc = "store" /\ caller'[c].patch = caller[c].patch /\ caller'[c].got = read
  <2>1. caller[c] \in CallerStates
    BY DEF TypeOK
  <2> QED BY <1>1, <2>1 DEF TypeOK, CallerStates
<1>4. \A d \in Callers, k \in Keys : InFlight(d, k) => InFlight(d, k)'
  BY <1>3 DEF InFlight
<1>5. phase = "up"
  BY <1>1 DEF SettersInv, TypeOK
<1>6. ObserversFollow'
  BY <1>1, <1>4 DEF ObserversFollow, SettersInv
<1>7. SavedOnceReturned'
  BY <1>1, <1>3, <1>4 DEF SavedOnceReturned, SettersInv
<1>8. StoringCurrent'
  BY <1>1, <1>2, <1>3 DEF StoringCurrent, ObserversFree
<1> QED BY <1>1, <1>3, <1>5, <1>6, <1>7, <1>8 DEF SettersInv

(* What an observer stores is current, or somebody else carries the key. *)
LEMMA StoreKeeps ==
  ASSUME TypeOK, TypeOK', SettersInv, NEW c \in Callers, SetterStore(c)
  PROVE  SettersInv'
<1>1. /\ caller[c].pc = "store" /\ UNCHANGED <<phase, memory, file, stale, watcher>>
      /\ seen' = Patched(seen, caller[c].got)
      /\ caller' = [caller EXCEPT ![c] = IdleCaller]
  BY DEF SetterStore
<1>2. /\ \A d \in Callers : d # c => caller'[d] = caller[d]
      /\ caller'[c].pc = "idle"
  BY <1>1, IdleTyped DEF TypeOK
<1>3. /\ caller[c].got \in Patches /\ DOMAIN caller[c].got = DOMAIN caller[c].patch
  <2>1. caller[c] \in CallerStates
    BY DEF TypeOK
  <2> QED BY <1>1, <2>1 DEF CallerStates
<1>4. seen \in Settings
  BY DEF TypeOK
<1>5. \A k \in Keys : seen'[k] = IF k \in DOMAIN caller[c].got THEN caller[c].got[k] ELSE seen[k]
  BY <1>1, <1>3, <1>4, PatchedTyped
<1>6. phase = "up"
  BY <1>1 DEF SettersInv, TypeOK
<1>7. \A d \in Callers, k \in Keys : d # c /\ InFlight(d, k) => InFlight(d, k)'
  BY <1>2 DEF InFlight
<1>8. ObserversFollow'
  <2> SUFFICES ASSUME NEW k \in Keys, seen'[k] # memory'[k]
               PROVE  \E d \in Callers : InFlight(d, k)'
    BY DEF ObserversFollow
  <2>1. CASE k \in DOMAIN caller[c].got
    <3>1. caller[c].got[k] # memory[k]
      BY <2>1, <1>1, <1>5
    <3>2. PICK d \in Callers : InFlight(d, k) /\ caller[d].pc \in {"save", "publish"}
      BY <2>1, <3>1, <1>1 DEF SettersInv, StoringCurrent
    <3> QED BY <3>2, <1>1, <1>7
  <2>2. CASE k \notin DOMAIN caller[c].got
    <3>1. PICK d \in Callers : InFlight(d, k)
      BY <2>2, <1>1, <1>5, <1>6 DEF SettersInv, ObserversFollow
    <3>2. d # c
      BY <2>2, <3>1, <1>3 DEF InFlight
    <3> QED BY <3>1, <3>2, <1>7
  <2> QED BY <2>1, <2>2
<1>9. SavedOnceReturned'
  BY <1>1, <1>2, <1>7 DEF SavedOnceReturned, SettersInv
<1>10. StoringCurrent'
  <2> SUFFICES ASSUME NEW d \in Callers, caller'[d].pc = "store",
                      NEW k \in DOMAIN caller'[d].got, caller'[d].got[k] # memory'[k]
               PROVE  \E e \in Callers : InFlight(e, k)' /\ caller'[e].pc \in {"save", "publish"}
    BY DEF StoringCurrent
  <2>1. PICK e \in Callers : InFlight(e, k) /\ caller[e].pc \in {"save", "publish"}
    BY <1>1, <1>2 DEF SettersInv, StoringCurrent
  <2> QED BY <2>1, <1>1, <1>2 DEF InFlight
<1> QED BY <1>1, <1>2, <1>6, <1>8, <1>9, <1>10 DEF SettersInv

(* A load only reverts what a setter has yet to save, and that setter will
   notify the observers. *)
LEMMA WatchKeeps ==
  ASSUME TypeOK, TypeOK', SettersInv, WatchStep
  PROVE  SettersInv'
<1>1. CASE WatchStat \/ WatchPublish
  BY <1>1, IdleTyped
  DEF WatchStat, WatchPublish, SettersInv, ObserversFollow, StoringCurrent, SavedOnceReturned, InFlight
<1>2. CASE WatchLoad
  <2>1. /\ watcher.pc = "load" /\ memory' = file[Watched] /\ watcher'.pc = "publish"
        /\ UNCHANGED <<phase, file, stale, caller, seen>>
    <3>1. file[Watched] # Broken
      BY <1>2 DEF WatchLoad, SettersInv
    <3> QED BY <1>2, <3>1 DEF WatchLoad, TypeOK
  <2>2. OwnFile = Watched /\ phase \in {"watching", "up"}
    BY <2>1 DEF SettersInv, TypeOK
  <2>3. ASSUME NEW k \in Keys, phase = "up"
        PROVE  \/ memory'[k] = memory[k]
               \/ \E d \in Callers : InFlight(d, k)' /\ caller'[d].pc = "save"
    BY <2>1, <2>2, <2>3 DEF SettersInv, SavedOnceReturned, InFlight
  <2>4. ObserversFollow'
    BY <2>1, <2>3 DEF ObserversFollow, SettersInv, InFlight
  <2>5. SavedOnceReturned'
    BY <2>1, <2>2 DEF SavedOnceReturned
  <2>6. StoringCurrent'
    <3> SUFFICES ASSUME NEW d \in Callers, caller'[d].pc = "store",
                        NEW k \in DOMAIN caller'[d].got, caller'[d].got[k] # memory'[k]
                 PROVE  \E e \in Callers : InFlight(e, k)' /\ caller'[e].pc \in {"save", "publish"}
      BY DEF StoringCurrent
    <3>1. k \in Keys
      <4>1. caller[d] \in CallerStates
        BY DEF TypeOK
      <4>2. caller[d].got \in Patches
        BY <4>1 DEF CallerStates
      <4> QED BY <2>1, <4>2 DEF Patches
    <3>2. phase = "up"
      BY <2>1, <2>2 DEF SettersInv
    <3> QED BY <2>1, <2>3, <3>1, <3>2 DEF SettersInv, StoringCurrent, InFlight
  <2> QED BY <2>1, <2>2, <2>4, <2>5, <2>6 DEF SettersInv
<1> QED BY <1>1, <1>2 DEF WatchStep

(* Starting and dying leave no request behind. *)
LEMMA PhaseKeeps ==
  ASSUME TypeOK, SettersInv, BootStep \/ Crash
  PROVE  SettersInv'
<1>1. CASE Boot
  BY <1>1 DEF Boot, SettersInv, ObserversFollow, StoringCurrent, SavedOnceReturned
<1>2. CASE StartWatching
  BY <1>2 DEF StartWatching, SettersInv, ObserversFollow, StoringCurrent, SavedOnceReturned
<1>3. CASE StartObserver
  BY <1>3 DEF StartObserver, SettersInv, ObserversFollow, StoringCurrent, SavedOnceReturned
<1>4. CASE Crash
  BY <1>4, IdleTyped DEF Crash, SettersInv, ObserversFollow, StoringCurrent, SavedOnceReturned
<1> QED BY <1>1, <1>2, <1>3, <1>4 DEF BootStep

(* When only the setters write, an observer's copy that is out of date is
   about to be corrected, and the file the next start loads holds whatever
   the store holds once the setters have returned: the watcher, which keeps
   loading the file they write, does neither any harm. *)
THEOREM SettersPropagate ==
  ASSUME SettersOnly
  PROVE  Spec => [](ObserversFollow /\ SavedOnceReturned)
<1>1. Init => SettersInv
  BY SettersStart
<1>2. TypeOK /\ TypeOK' /\ SettersInv /\ [Next]_vars => SettersInv'
  <2> SUFFICES ASSUME TypeOK, TypeOK', SettersInv, [Next]_vars PROVE SettersInv'
    OBVIOUS
  <2>1. ASSUME NEW p \in Paths PROVE ~EditFile(p)
    BY SettersOnly DEF EditFile, SettersOnly
  <2>2. ASSUME NEW c \in Callers PROVE ~BulkUpdate(c) /\ ~BulkStep(c)
    BY SettersOnly DEF BulkUpdate, BulkStep, BulkSave, BulkPublish, SettersOnly, SettersInv
  <2>3. CASE UNCHANGED vars
    BY <2>3 DEF vars, SettersInv, ObserversFollow, StoringCurrent, SavedOnceReturned, InFlight
  <2> QED
    BY <2>1, <2>2, <2>3, SettersOnly, SetterKeeps, SaveKeeps, NotifyKeeps, StoreKeeps, WatchKeeps, PhaseKeeps
    DEF Next, SetterStep
<1>3. SettersInv => ObserversFollow /\ SavedOnceReturned
  BY DEF SettersInv
<1> QED BY <1>1, <1>2, <1>3, TypeCorrect, PTL DEF Spec

(* Once the setters have returned the file holds what the store holds, the
   watcher loading that very file or not: PocoConfigAdapter's setters, its
   persistChanges and its watching thread. *)
THEOREM SettersSave ==
  ASSUME SettersOnly
  PROVE  Spec => []SavedOnceReturned
BY SettersPropagate, PTL

-----------------------------------------------------------------------------
(* One file: nobody forgets that memory and file differ *)

(* A write of config.json is noticed, by a watcher under way as well. *)
LEMMA WriteNoticed ==
  ASSUME TypeOK, NEW content, Write(Watched, content)
  PROVE  /\ stale' /\ file'[Watched] = content
         /\ watcher'.pc = watcher.pc
         /\ watcher.pc # "sleep" => watcher'.dirty
<1>1. Watched \in Paths
  BY DEF Watched, Paths
<1> DEFINE d == watcher.pc # "sleep"
<1>2. watcher' = [watcher EXCEPT !.dirty = d] /\ stale' = TRUE /\ file' = [file EXCEPT ![Watched] = content]
  BY DEF Write
<1>3. watcher'.pc = watcher.pc /\ watcher'.dirty = d
  <2> HIDE DEF d
  <2> QED BY <1>2 DEF TypeOK
<1> QED BY <1>1, <1>2, <1>3 DEF TypeOK

(* A write of another file changes nothing the watcher looks at. *)
LEMMA WriteElsewhere ==
  ASSUME TypeOK, NEW p \in Paths, p # Watched, NEW content, Write(p, content)
  PROVE  file'[Watched] = file[Watched] /\ UNCHANGED <<stale, watcher>>
BY DEF Write, TypeOK, Watched, Paths

(* Requests keep it: they save, or are about to. *)
LEMMA RequestsReconcile ==
  ASSUME OneFile, TypeOK, ReconcilingInv, NEW c \in Callers,
         Setter(c) \/ SetterStep(c) \/ BulkUpdate(c) \/ BulkStep(c)
  PROVE  ReconcilingInv'
<1>1. phase = "up" /\ phase' = phase
  BY DEF ReconcilingInv, TypeOK, Setter, SetterStep, SetterSave, SetterNotify, SetterStore,
         BulkUpdate, BulkStep, BulkSave, BulkPublish
<1>2. CASE Setter(c) \/ BulkUpdate(c)
  <2>1. UNCHANGED <<phase, file, stale, watcher>> /\ caller'[c].pc \in {"save", "saveBulk"}
    <3>1. ASSUME NEW x, NEW patch,
                 caller' = [caller EXCEPT ![c] = [IdleCaller EXCEPT !.pc = x, !.patch = patch]]
          PROVE  caller'[c].pc = x
      BY <3>1 DEF TypeOK, IdleCaller
    <3>2. CASE Setter(c)
      BY <3>1, <3>2 DEF Setter
    <3>3. CASE BulkUpdate(c)
      BY <3>1, <3>3 DEF BulkUpdate
    <3> QED BY <1>2, <3>2, <3>3
  <2> QED BY <1>1, <2>1 DEF ReconcilingInv, Reconciling, OutOfStep
<1>3. CASE SetterSave(c) \/ BulkSave(c)
  <2>1. Write(Watched, memory) /\ UNCHANGED <<phase, memory>>
    BY <1>3 DEF SetterSave, BulkSave, OneFile, BulkTarget, Watched
  <2>2. file'[Watched] = memory' /\ watcher'.pc = watcher.pc
    BY <2>1, WriteNoticed
  <2> QED BY <1>1, <2>1, <2>2 DEF ReconcilingInv, Reconciling, OutOfStep
<1>4. CASE SetterNotify(c) \/ SetterStore(c) \/ BulkPublish(c)
  <2>1. /\ UNCHANGED <<phase, memory, file, stale, watcher>>
        /\ \A d \in Callers : caller[d].pc \in {"save", "saveBulk"} =>
              caller'[d].pc \in {"save", "saveBulk"}
    <3>1. CASE SetterNotify(c)
      <4>1. \A d \in Callers : d # c => caller'[d] = caller[d]
        BY <3>1 DEF SetterNotify, TypeOK
      <4> QED BY <3>1, <4>1 DEF SetterNotify
    <3>2. CASE SetterStore(c) \/ BulkPublish(c)
      BY <3>2 DEF SetterStore, BulkPublish, TypeOK
    <3> QED BY <1>4, <3>1, <3>2
  <2> QED BY <1>1, <2>1 DEF ReconcilingInv, Reconciling, OutOfStep
<1> QED BY <1>2, <1>3, <1>4 DEF SetterStep, BulkStep

(* So does the watcher: it forgets a difference only when it has loaded the
   file and nothing was written since. *)
LEMMA WatcherReconciles ==
  ASSUME TypeOK, ReconcilingInv, WatchStep
  PROVE  ReconcilingInv'
<1>1. CASE WatchStat
  <2>1. watcher'.pc = "load" /\ stale /\ phase \in {"watching", "up"}
        /\ UNCHANGED <<phase, memory, file, stale, caller>>
    BY <1>1 DEF WatchStat
  <2> QED BY <2>1 DEF ReconcilingInv, Reconciling, OutOfStep
<1>2. CASE WatchLoad
  <2>1. CASE file[Watched] = Broken
    <3>1. watcher'.pc = "sleep" /\ UNCHANGED <<phase, memory, file, stale, caller>>
      BY <1>2, <2>1, IdleTyped DEF WatchLoad
    <3> QED BY <2>1, <3>1 DEF ReconcilingInv, Reconciling, OutOfStep
  <2>2. CASE file[Watched] # Broken
    <3>1. memory' = file'[Watched] /\ watcher.pc = "load" /\ UNCHANGED <<phase, file, stale, caller>>
      BY <1>2, <2>2 DEF WatchLoad
    <3> QED BY <3>1 DEF ReconcilingInv, Reconciling, OutOfStep
  <2> QED BY <2>1, <2>2
<1>3. CASE WatchPublish
  <2>1. watcher.pc = "publish" /\ stale' = watcher.dirty /\ watcher'.pc = "sleep"
        /\ UNCHANGED <<phase, memory, file, caller>>
    BY <1>3, IdleTyped DEF WatchPublish
  <2>2. phase # "down" /\ OutOfStep => stale'
    BY <2>1 DEF ReconcilingInv
  <2> QED BY <2>1, <2>2 DEF ReconcilingInv, Reconciling, OutOfStep
<1> QED BY <1>1, <1>2, <1>3 DEF WatchStep

(* With one configuration file that can be written, and no edit between the
   first load and the first stat, the watcher never loses track: whenever
   memory and file differ, it or a request is still going to act. *)
THEOREM NothingForgotten ==
  ASSUME OneFile
  PROVE  Spec => []Reconciling
<1>1. Init => ReconcilingInv
  BY IdleTyped DEF Init, ReconcilingInv, Reconciling, OutOfStep, OneFile
<1>2. TypeOK /\ ReconcilingInv /\ [Next]_vars => ReconcilingInv'
  <2> SUFFICES ASSUME TypeOK, ReconcilingInv, [Next]_vars PROVE ReconcilingInv'
    OBVIOUS
  <2>1. ASSUME NEW p \in Paths, EditFile(p) PROVE ReconcilingInv'
    <3>1. PICK content \in Contents : Write(p, content)
      BY <2>1 DEF EditFile
    <3>2. phase # "loaded" /\ UNCHANGED <<phase, memory, caller>>
      BY <2>1 DEF EditFile, OneFile
    <3>3. CASE p = Watched
      BY <3>1, <3>2, <3>3, WriteNoticed DEF ReconcilingInv, Reconciling, OutOfStep
    <3>4. CASE p # Watched
      BY <3>1, <3>2, <3>4, WriteElsewhere DEF ReconcilingInv, Reconciling, OutOfStep
    <3> QED BY <3>3, <3>4
  <2>2. CASE BootStep \/ Crash
    <3>1. CASE Boot
      BY <3>1 DEF Boot, ReconcilingInv, Reconciling, OutOfStep, OneFile
    <3>2. CASE StartWatching
      BY <3>2 DEF StartWatching, ReconcilingInv, Reconciling, OutOfStep
    <3>3. CASE StartObserver
      BY <3>3 DEF StartObserver, ReconcilingInv, Reconciling, OutOfStep
    <3>4. CASE Crash
      BY <3>4, IdleTyped DEF Crash, ReconcilingInv, Reconciling, OutOfStep
    <3> QED BY <2>2, <3>1, <3>2, <3>3, <3>4 DEF BootStep
  <2>3. CASE UNCHANGED vars
    BY <2>3 DEF vars, ReconcilingInv, Reconciling, OutOfStep
  <2> QED
    BY <2>1, <2>2, <2>3, OneFile, RequestsReconcile, WatcherReconciles DEF Next
<1>3. ReconcilingInv => Reconciling
  BY DEF ReconcilingInv
<1> QED BY <1>1, <1>2, <1>3, TypeCorrect, PTL DEF Spec
=============================================================================
