----------------------- MODULE ProcessingPasses_proofs -----------------------
(***************************************************************************)
(* Theorems about ProcessingPasses, for any number of files, modes, passes *)
(* and callers of the other claims.                                        *)
(***************************************************************************)
EXTENDS ProcessingPasses, FiniteSetTheorems, TLAPS

USE PassesAssumption

FlagTables == [Files -> [Modes -> FlagValues]]

-----------------------------------------------------------------------------
(* Lemmas about the operators on the flags *)

LEMMA FlagConstants ==
  /\ InProgress \in FlagValues /\ Todo \in FlagValues
  /\ Done \in FlagValues /\ Error \in FlagValues
  /\ InProgress # Todo /\ InProgress # Done /\ InProgress # Error
  /\ Todo # Done /\ Todo # Error
BY DEF FlagValues, InProgress, Todo, Done, Error

LEMMA PairParts ==
  ASSUME NEW y \in Files \X Modes PROVE \E f \in Files, m \in Modes : y = <<f, m>>
<1>1. y = <<y[1], y[2]>> /\ y[1] \in Files /\ y[2] \in Modes
  OBVIOUS
<1> QED BY <1>1

(* Marking the pairs of a claim. *)
LEMMA MarkedFlags ==
  ASSUME flag \in FlagTables, NEW P \in SUBSET Pairs
  PROVE  /\ MarkInProgress(flag, P) \in FlagTables
         /\ \A f \in Files, m \in Modes :
              MarkInProgress(flag, P)[f][m] =
                IF <<f, m>> \in TodoPairs(P) THEN InProgress ELSE flag[f][m]
<1>1. \A f \in Files, m \in Modes :
        <<f, m>> \in TodoPairs(P) <=> <<f, m>> \in P /\ flag[f][m] = Todo
  BY DEF TodoPairs
<1>2. \A f \in Files, m \in Modes :
        MarkInProgress(flag, P)[f][m] =
          IF <<f, m>> \in P /\ flag[f][m] = Todo THEN InProgress ELSE flag[f][m]
  BY DEF MarkInProgress
<1>3. MarkInProgress(flag, P) \in FlagTables
  BY FlagConstants DEF FlagTables, MarkInProgress
<1> QED BY <1>1, <1>2, <1>3

(* Marking one pair: whatever it was, it is neither to do nor in progress
   afterwards. *)
LEMMA SetFlags ==
  ASSUME flag \in FlagTables, NEW f \in Files, NEW m \in Modes,
         NEW new \in Marks(f, m)
  PROVE  /\ new \in FlagTables
         /\ new[f][m] \notin {Todo, InProgress}
         /\ \A g \in Files, n \in Modes : g # f \/ n # m => new[g][n] = flag[g][n]
BY FlagConstants DEF FlagTables, Marks, SetProcessingFlag, SetProcessingFlagError, FlagValues

LEMMA FreshTable == [f \in Files |-> FreshFlags] \in FlagTables
BY FlagConstants DEF FlagTables, FreshFlags

-----------------------------------------------------------------------------
(* The inductive invariant *)

(* The pairs a pass in the state r has still to process. *)
WorkOf(r) ==
  {x \in Pairs : /\ r.pc # "idle"
                 /\ \/ r.left[x[1]] > 0 /\ x[2] \in r.modes
                    \/ r.file = x[1] /\ x[2] \in r.marks}

More(left, n) == {f \in Files : left[f] >= n}

LeftOver(left) == Cardinality(More(left, 1)) + Cardinality(More(left, 2))

(* A pass has a file in hand exactly between two files, and what it has
   reported, has in hand and has left is what its claim has listed. *)
Sound(r) ==
  /\ r \in PassStates
  /\ r.pc \in {"idle", "files"} => r.file = NoFile /\ r.marks = {}
  /\ r.pc \in {"mode", "mark"} => r.file \in Files /\ r.marks # {}
  /\ r.pc # "idle" =>
       /\ r.modes # {}
       /\ r.events + LeftOver(r.left) + (IF r.file = NoFile THEN 0 ELSE 1) = r.listed

PassesSound == pass \in [Passes -> PassStates] /\ \A p \in Passes : Sound(pass[p])

Tables == flag \in FlagTables /\ held \in [Claimers -> SUBSET Pairs]

(* What is owned has been claimed, so that no claim takes it, unless a scan
   has put it back since. *)
OwnedIsClaimed ==
  \A x \in Passes \cup Claimers, f \in Files, m \in Modes :
    <<f, m>> \in Owned(x) \ reopened => flag[f][m] # Todo

(* As long as there was no trouble, nothing is cancelled or disabled, and
   the timer, which cancels when it is stopped, does not run. *)
NoTrouble == troubles = 0 => ~cancelled /\ ~running /\ enabled = Files

PassesInv ==
  TypeOK /\ PassesSound /\ Tables /\ OwnedIsClaimed /\ Exclusive /\ NoTrouble /\ NothingStranded

-----------------------------------------------------------------------------
(* Lemmas about one pass *)

LEMMA WorkIs ==
  ASSUME NEW p \in Passes
  PROVE  /\ Work(p) = WorkOf(pass[p])
         /\ Work(p)' = WorkOf(pass'[p])
BY DEF Work, WorkOf

LEMMA MoreFinite ==
  ASSUME NEW left, NEW n
  PROVE  IsFiniteSet(More(left, n)) /\ Cardinality(More(left, n)) \in Nat
<1>1. More(left, n) \subseteq Files
  BY DEF More
<1> QED BY <1>1, FS_Subset, FS_CardinalityType

LEMMA NoneLeft ==
  ASSUME NEW left \in [Files -> 0 .. 2], \A f \in Files : left[f] = 0
  PROVE  LeftOver(left) = 0
<1>1. More(left, 1) = {} /\ More(left, 2) = {}
  BY DEF More
<1> QED BY <1>1, FS_EmptySet DEF LeftOver

(* Taking a file from what is left. *)
LEMMA OneFewer ==
  ASSUME NEW left \in [Files -> 0 .. 2], NEW f \in Files, left[f] > 0
  PROVE  LeftOver([left EXCEPT ![f] = @ - 1]) = LeftOver(left) - 1
<1> DEFINE l == [left EXCEPT ![f] = @ - 1]
<1>1. CASE left[f] = 1
  <2>1. More(l, 1) = More(left, 1) \ {f} /\ More(l, 2) = More(left, 2) /\ f \in More(left, 1)
    BY <1>1 DEF More
  <2>2. Cardinality(More(l, 1)) = Cardinality(More(left, 1)) - 1
    <3>1. IsFiniteSet(More(left, 1))
      BY MoreFinite
    <3>2. Cardinality(More(left, 1) \ {f}) = Cardinality(More(left, 1)) - 1
      BY <2>1, <3>1, FS_RemoveElement
    <3> QED BY <2>1, <3>2
  <2> HIDE DEF l
  <2>3. LeftOver(l) = LeftOver(left) - 1
    BY <2>1, <2>2, MoreFinite DEF LeftOver
  <2> QED BY <2>3 DEF l
<1>2. CASE left[f] = 2
  <2>1. More(l, 1) = More(left, 1) /\ More(l, 2) = More(left, 2) \ {f} /\ f \in More(left, 2)
    <3>1. \A g \in Files : l[g] = IF g = f THEN 1 ELSE left[g]
      BY <1>2
    <3>2. \A g \in Files : (l[g] >= 1 <=> left[g] >= 1) /\ (l[g] >= 2 <=> left[g] >= 2 /\ g # f)
      BY <1>2, <3>1
    <3> HIDE DEF l
    <3> QED BY <1>2, <3>2 DEF More
  <2>2. Cardinality(More(l, 2)) = Cardinality(More(left, 2)) - 1
    <3>1. IsFiniteSet(More(left, 2))
      BY MoreFinite
    <3>2. Cardinality(More(left, 2) \ {f}) = Cardinality(More(left, 2)) - 1
      BY <2>1, <3>1, FS_RemoveElement
    <3> QED BY <2>1, <3>2
  <2> HIDE DEF l
  <2>3. LeftOver(l) = LeftOver(left) - 1
    BY <2>1, <2>2, MoreFinite DEF LeftOver
  <2> QED BY <2>3 DEF l
<1> QED BY <1>1, <1>2

(* What a claim lists: a row may come twice, and is counted twice. *)
LEMMA ClaimListed ==
  ASSUME NEW M \in SUBSET Modes, NEW c \in Selections(enabled, flag, M), enabled \subseteq Files
  PROVE  /\ Selected(c) \subseteq Files
         /\ [f \in Files |-> Listed(c, f)] \in [Files -> 0 .. 2]
         /\ \A f \in Files : f \in Selected(c) <=> Listed(c, f) > 0
         /\ LeftOver([f \in Files |-> Listed(c, f)])
              = Cardinality(c.stuck) + Cardinality(c.pending)
         /\ Cardinality(c.stuck) + Cardinality(c.pending) \in 0 .. BatchSize
<1> DEFINE left == [f \in Files |-> Listed(c, f)]
<1>1. /\ c.stuck \subseteq Files /\ c.pending \subseteq Files
      /\ Cardinality(c.pending) <= BatchSize - Cardinality(c.stuck)
  BY DEF Selections, Limit, Stuck, Pending
<1>2. /\ IsFiniteSet(c.stuck) /\ IsFiniteSet(c.pending)
      /\ Cardinality(c.stuck) \in Nat /\ Cardinality(c.pending) \in Nat
  BY <1>1, FS_Subset, FS_CardinalityType
<1>3. /\ left \in [Files -> 0 .. 2]
      /\ \A f \in Files : f \in Selected(c) <=> Listed(c, f) > 0
      /\ Selected(c) \subseteq Files
  BY <1>1 DEF Listed, Selected
<1>4. More(left, 1) = c.stuck \cup c.pending /\ More(left, 2) = c.stuck \cap c.pending
  BY <1>1 DEF More, Listed
<1>5. /\ Cardinality(c.stuck \cup c.pending)
           = Cardinality(c.stuck) + Cardinality(c.pending) - Cardinality(c.stuck \cap c.pending)
      /\ Cardinality(c.stuck \cup c.pending) \in Nat
      /\ Cardinality(c.stuck \cap c.pending) \in Nat
  <2>1. IsFiniteSet(c.stuck \cup c.pending) /\ IsFiniteSet(c.stuck \cap c.pending)
    BY <1>1, FS_Subset
  <2> QED BY <1>2, <2>1, FS_Union, FS_CardinalityType
<1> HIDE DEF left
<1>6. LeftOver(left) = Cardinality(c.stuck) + Cardinality(c.pending)
  <2>1. Cardinality(More(left, 1))
          = Cardinality(c.stuck) + Cardinality(c.pending) - Cardinality(c.stuck \cap c.pending)
    BY <1>4, <1>5
  <2>2. Cardinality(More(left, 2)) = Cardinality(c.stuck \cap c.pending)
    BY <1>4
  <2> QED BY <1>2, <1>5, <2>1, <2>2 DEF LeftOver
<1> QED BY <1>1, <1>2, <1>3, <1>6 DEF left

LEMMA IdleIsSound == Sound(IdlePass) /\ WorkOf(IdlePass) = {} /\ IdlePass.pc = "idle"
BY DEF Sound, IdlePass, PassStates, WorkOf

LEMMA BeginTyped ==
  ASSUME NEW M \in SUBSET Modes, NEW left \in [Files -> 0 .. 2], NEW took \in SUBSET Pairs,
         NEW listed \in 0 .. BatchSize
  PROVE  [pc |-> "files", modes |-> M, left |-> left, file |-> NoFile, marks |-> {},
          took |-> took, listed |-> listed, events |-> 0] \in PassStates
BY DEF PassStates

(* A pass that begins. *)
Begun(M, c, took) ==
  [IdlePass EXCEPT !.pc = "files", !.modes = M, !.took = took,
                   !.left = [f \in Files |-> Listed(c, f)],
                   !.listed = Cardinality(c.stuck) + Cardinality(c.pending)]

LEMMA BeginIsSound ==
  ASSUME NEW M \in SUBSET Modes, M # {},
         NEW c \in Selections(enabled, flag, M), enabled \subseteq Files,
         NEW took \in SUBSET Pairs
  PROVE  /\ Sound(Begun(M, c, took)) /\ Begun(M, c, took).took = took
         /\ \A f \in Files, m \in Modes :
              <<f, m>> \in WorkOf(Begun(M, c, took)) <=> f \in Selected(c) /\ m \in M
<1> DEFINE r == Begun(M, c, took)
           left == [f \in Files |-> Listed(c, f)]
           listed == Cardinality(c.stuck) + Cardinality(c.pending)
<1>1. /\ left \in [Files -> 0 .. 2] /\ LeftOver(left) = listed /\ listed \in 0 .. BatchSize
      /\ \A f \in Files : f \in Selected(c) <=> left[f] > 0
  BY ClaimListed
<1>2. /\ r.pc = "files" /\ r.modes = M /\ r.took = took /\ r.left = left /\ r.listed = listed
      /\ r.file = NoFile /\ r.marks = {} /\ r.events = 0
  BY DEF Begun, IdlePass
<1>3. r = [pc |-> "files", modes |-> M, left |-> left, file |-> NoFile, marks |-> {},
           took |-> took, listed |-> listed, events |-> 0]
  <2>1. r = [IdlePass EXCEPT !.pc = "files", !.modes = M, !.took = took, !.left = left,
                             !.listed = listed]
    BY DEF Begun
  <2> HIDE DEF r, left, listed
  <2> QED BY <2>1 DEF IdlePass
<1> HIDE DEF left, listed, r
<1>4. r \in PassStates
  <2>1. left \in [Files -> 0 .. 2] /\ listed \in 0 .. BatchSize /\ 0 \in 0 .. BatchSize
    BY <1>1
  <2>2. [pc |-> "files", modes |-> M, left |-> left, file |-> NoFile, marks |-> {},
         took |-> took, listed |-> listed, events |-> 0] \in PassStates
    BY <2>1, BeginTyped
  <2> QED BY <1>3, <2>2, Zenon
<1>5. Sound(r)
  BY <1>1, <1>2, <1>4 DEF Sound
<1>6. \A f \in Files, m \in Modes : <<f, m>> \in WorkOf(r) <=> f \in Selected(c) /\ m \in M
  BY <1>1, <1>2 DEF WorkOf, Pairs
<1> QED BY <1>2, <1>5, <1>6 DEF r

-----------------------------------------------------------------------------
(* The steps of a pass *)

(* What every step of a pass does to it: the work shrinks, and without
   trouble a pair that leaves it is settled or waits for its transcoding. *)
Advances(p, r) ==
  /\ Move(p, r)
  /\ Sound(r)
  /\ WorkOf(r) \subseteq WorkOf(pass[p])
  /\ r.pc # "idle" => r.took = pass[p].took
  /\ troubles' = 0 =>
       \A f \in Files, m \in Modes :
         <<f, m>> \in WorkOf(pass[p]) /\ <<f, m>> \notin WorkOf(r) =>
           f \in Raw \/ flag'[f][m] # InProgress

(* What it does to the flags: nothing is claimed and nothing given back. *)
OnlySettles ==
  /\ flag' \in FlagTables
  /\ \A f \in Files, m \in Modes :
       /\ flag'[f][m] = Todo => flag[f][m] = Todo
       /\ flag'[f][m] = InProgress => flag[f][m] = InProgress

(* Where nothing is left the work is done. *)
LEMMA NoWork ==
  ASSUME NEW r, Sound(r), r.pc = "files", \A f \in Files : r.left[f] = 0
  PROVE  WorkOf(r) = {}
BY DEF Sound, WorkOf, Pairs

(* The next file in hand, or passed over. *)
LEMMA FileTaken ==
  ASSUME NEW r, Sound(r), r.pc = "files", NEW f \in Files, r.left[f] > 0,
         NEW t, \/ t = [r EXCEPT !.pc = "mode", !.file = f, !.marks = r.modes, !.left[f] = @ - 1]
                \/ t = [r EXCEPT !.left[f] = @ - 1, !.events = @ + 1]
  PROVE  /\ Sound(t) /\ WorkOf(t) \subseteq WorkOf(r) /\ t.took = r.took
         /\ t.pc = "mode" => WorkOf(t) = WorkOf(r)
<1> DEFINE l == [r.left EXCEPT ![f] = @ - 1]
<1>1. r \in PassStates /\ r.file = NoFile /\ r.marks = {} /\ r.modes # {}
  BY DEF Sound
<1>2. /\ r.left \in [Files -> 0 .. 2] /\ r.listed \in 0 .. BatchSize
      /\ r.events \in 0 .. BatchSize
      /\ r.events + LeftOver(r.left) = r.listed
      /\ LeftOver(r.left) \in Nat
  <2>1. /\ r.left \in [Files -> 0 .. 2] /\ r.listed \in 0 .. BatchSize
        /\ r.events \in 0 .. BatchSize
    BY <1>1 DEF PassStates
  <2>2. LeftOver(r.left) \in Nat
    BY MoreFinite DEF LeftOver
  <2>3. r.events + LeftOver(r.left) + 0 = r.listed
    BY <1>1 DEF Sound
  <2> QED BY <2>1, <2>2, <2>3
<1>3. /\ l \in [Files -> 0 .. 2] /\ LeftOver(l) = LeftOver(r.left) - 1
      /\ \A g \in Files : l[g] > 0 => r.left[g] > 0
      /\ \A g \in Files \ {f} : l[g] = r.left[g]
  BY <1>2, OneFewer
<1>4. LeftOver(l) \in Nat
  BY MoreFinite DEF LeftOver
<1>5. r.events + 1 \in 0 .. BatchSize
  BY <1>2, <1>3, <1>4
<1>6. CASE t = [r EXCEPT !.pc = "mode", !.file = f, !.marks = r.modes, !.left[f] = @ - 1]
  <2>1. /\ t.pc = "mode" /\ t.file = f /\ t.marks = r.modes /\ t.left = l /\ t.took = r.took
        /\ t.modes = r.modes /\ t.events = r.events /\ t.listed = r.listed
    BY <1>1, <1>6 DEF PassStates
  <2>2. t \in PassStates
    BY <1>1, <1>3, <1>6 DEF PassStates
  <2> HIDE DEF l
  <2>3. t.events + LeftOver(t.left) + 1 = t.listed
    BY <1>2, <1>3, <1>4, <2>1
  <2>5. Sound(t)
    BY <1>1, <2>1, <2>2, <2>3 DEF Sound
  <2>4. WorkOf(t) = WorkOf(r)
    BY <1>1, <1>2, <1>3, <2>1 DEF WorkOf, Pairs
  <2> QED BY <2>1, <2>4, <2>5
<1>7. CASE t = [r EXCEPT !.left[f] = @ - 1, !.events = @ + 1]
  <2>1. /\ t.pc = "files" /\ t.file = NoFile /\ t.marks = {} /\ t.left = l /\ t.took = r.took
        /\ t.modes = r.modes /\ t.events = r.events + 1 /\ t.listed = r.listed
    BY <1>1, <1>7 DEF PassStates
  <2>2. t \in PassStates
    BY <1>1, <1>3, <1>5, <1>7 DEF PassStates
  <2> HIDE DEF l
  <2>3. t.events + LeftOver(t.left) + 0 = t.listed
    BY <1>2, <1>3, <1>4, <2>1
  <2>5. Sound(t)
    BY <1>1, <2>1, <2>2, <2>3 DEF Sound
  <2>4. WorkOf(t) \subseteq WorkOf(r)
    BY <1>1, <1>2, <1>3, <2>1 DEF WorkOf, Pairs
  <2> QED BY <2>1, <2>4, <2>5
<1> QED BY <1>6, <1>7

(* The file in hand is through, whatever modes it has left. *)
FileOver(r) == [r EXCEPT !.pc = "files", !.marks = {}, !.file = NoFile, !.events = @ + 1]

LEMMA FileThrough ==
  ASSUME NEW r, Sound(r), r.pc \in {"mode", "mark"}, NEW t, t = FileOver(r)
  PROVE  /\ Sound(t) /\ WorkOf(t) \subseteq WorkOf(r) /\ t.took = r.took /\ t.pc = "files"
         /\ \A f \in Files, n \in Modes :
              <<f, n>> \in WorkOf(r) /\ <<f, n>> \notin WorkOf(t) => f = r.file /\ n \in r.marks
<1>1. r \in PassStates /\ r.file \in Files /\ r.marks # {}
  BY DEF Sound
<1>2. /\ r.events + LeftOver(r.left) + 1 = r.listed /\ LeftOver(r.left) \in Nat
      /\ r.events \in 0 .. BatchSize /\ r.listed \in 0 .. BatchSize
  BY <1>1, MoreFinite DEF Sound, PassStates, LeftOver
<1>3. /\ t.pc = "files" /\ t.marks = {} /\ t.file = NoFile /\ t.events = r.events + 1
      /\ t.left = r.left /\ t.modes = r.modes /\ t.took = r.took /\ t.listed = r.listed
  BY <1>1 DEF PassStates, FileOver
<1>4. t \in PassStates
  <2>1. r.events + 1 \in 0 .. BatchSize
    BY <1>2
  <2> QED BY <1>1, <2>1 DEF PassStates, FileOver
<1>5. Sound(t)
  BY <1>2, <1>3, <1>4 DEF Sound
<1>6. WorkOf(t) \subseteq WorkOf(r)
  BY <1>3 DEF WorkOf, Pairs
<1>7. \A f \in Files, n \in Modes :
        <<f, n>> \in WorkOf(r) /\ <<f, n>> \notin WorkOf(t) => f = r.file /\ n \in r.marks
  BY <1>3 DEF WorkOf, Pairs
<1> QED BY <1>3, <1>5, <1>6, <1>7

(* One mode of the file in hand is through. *)
LEMMA ModeThrough ==
  ASSUME NEW p \in Passes, Sound(pass[p]), pass[p].pc \in {"mode", "mark"},
         NEW m \in Modes, NextInLine(p, m), NextMode(p, m)
  PROVE  \E t : /\ Move(p, t) /\ Sound(t) /\ WorkOf(t) \subseteq WorkOf(pass[p])
                /\ t.took = pass[p].took
                /\ \A f \in Files, n \in Modes :
                     <<f, n>> \in WorkOf(pass[p]) /\ <<f, n>> \notin WorkOf(t) =>
                       f = pass[p].file /\ n = m
<1> DEFINE r == pass[p]
<1>1. r \in PassStates /\ r.file \in Files /\ r.marks # {} /\ m \in r.marks
  BY DEF Sound, NextInLine
<1>2. /\ r.events + LeftOver(r.left) + 1 = r.listed /\ LeftOver(r.left) \in Nat
      /\ r.events \in 0 .. BatchSize /\ r.listed \in 0 .. BatchSize
  BY <1>1, MoreFinite DEF Sound, PassStates, LeftOver
<1>3. CASE r.marks = {m}
  <2> DEFINE t == FileOver(r)
  <2>1. Move(p, t)
    BY <1>3 DEF NextMode, FileOver
  <2>2. /\ Sound(t) /\ WorkOf(t) \subseteq WorkOf(r) /\ t.took = r.took
        /\ \A f \in Files, n \in Modes :
             <<f, n>> \in WorkOf(r) /\ <<f, n>> \notin WorkOf(t) => f = r.file /\ n \in r.marks
    BY FileThrough
  <2> HIDE DEF t
  <2> QED BY <1>3, <2>1, <2>2
<1>4. CASE r.marks # {m}
  <2> DEFINE t == [r EXCEPT !.pc = "mode", !.marks = @ \ {m}]
  <2>1. /\ t.pc = "mode" /\ t.marks = r.marks \ {m} /\ t.file = r.file /\ t.events = r.events
        /\ t.left = r.left /\ t.modes = r.modes /\ t.took = r.took /\ t.listed = r.listed
    BY <1>1 DEF PassStates
  <2>2. t \in PassStates
    BY <1>1 DEF PassStates
  <2>3. Move(p, t)
    BY <1>4 DEF NextMode
  <2>4. r.marks \ {m} # {}
    BY <1>1, <1>4
  <2> HIDE DEF t
  <2>5. Sound(t)
    BY <1>1, <1>2, <2>1, <2>2, <2>4 DEF Sound
  <2>6. WorkOf(t) \subseteq WorkOf(r)
    BY <2>1 DEF WorkOf, Pairs
  <2>7. \A f \in Files, n \in Modes :
          <<f, n>> \in WorkOf(r) /\ <<f, n>> \notin WorkOf(t) => f = r.file /\ n = m
    BY <2>1 DEF WorkOf, Pairs
  <2> QED BY <2>1, <2>3, <2>5, <2>6, <2>7
<1> QED BY <1>3, <1>4

LEMMA TroubleCounts ==
  ASSUME TypeOK, Trouble PROVE troubles' \in 0 .. MaxTroubles /\ troubles' # 0
<1>1. scans \in Nat /\ troubles \in Nat /\ MaxTroubles \in Nat
  BY DEF TypeOK
<1>2. troubles + scans < MaxTroubles /\ troubles' = troubles + 1
  BY DEF Trouble
<1> QED BY <1>1, <1>2

LEMMA PassStepFrame ==
  ASSUME TypeOK, NEW p \in Passes, PassStep(p)
  PROVE  /\ UNCHANGED <<transcoded, enabled, cancelled, held, scanning, timing, claims>>
         /\ UNCHANGED troubles \/ Trouble
         /\ troubles' = 0 => troubles = 0
<1>1. CASE PassQuits(p) \/ PassDone(p)
  BY <1>1 DEF PassQuits, PassDone
<1>2. ASSUME NEW f \in Files, PassFile(p, f)
      PROVE  /\ UNCHANGED <<transcoded, enabled, cancelled, held, scanning, timing, claims>>
             /\ UNCHANGED troubles
  BY <1>2 DEF PassFile
<1>3. ASSUME NEW m \in Modes, PassProcess(p, m) \/ PassMark(p, m)
      PROVE  /\ UNCHANGED <<transcoded, enabled, cancelled, held, scanning, timing, claims>>
             /\ UNCHANGED troubles \/ Trouble
  BY <1>3 DEF PassProcess, PassMark
<1>4. ASSUME PassThrow(p)
      PROVE  UNCHANGED <<transcoded, enabled, cancelled, held, scanning, timing, claims>> /\ Trouble
  BY <1>4 DEF PassThrow
<1> QED BY <1>1, <1>2, <1>3, <1>4, TroubleCounts DEF PassStep

LEMMA PassStepAdvances ==
  ASSUME PassesInv, NEW p \in Passes, PassStep(p)
  PROVE  (\E t : Advances(p, t)) /\ OnlySettles
<1> DEFINE r == pass[p]
<1>1. Sound(r) /\ r \in PassStates /\ flag \in FlagTables
  BY DEF PassesInv, PassesSound, Tables
<1>2. troubles' = 0 => troubles = 0
  BY PassStepFrame DEF PassesInv
<1>3. troubles' = 0 => ~cancelled /\ enabled = Files
  BY <1>2 DEF PassesInv, NoTrouble
<1>4. ASSUME UNCHANGED flag PROVE OnlySettles
  BY <1>1, <1>4 DEF OnlySettles
<1>5. CASE PassQuits(p)
  <2>1. Advances(p, IdlePass)
    BY <1>3, <1>5, IdleIsSound DEF PassQuits, Advances
  <2> QED BY <1>4, <1>5, <2>1 DEF PassQuits
<1>6. CASE PassDone(p)
  <2>1. WorkOf(r) = {}
    BY <1>1, <1>6, NoWork DEF PassDone
  <2>2. Advances(p, IdlePass)
    BY <1>6, <2>1, IdleIsSound DEF PassDone, Advances
  <2> QED BY <1>4, <1>6, <2>2 DEF PassDone
<1>7. ASSUME NEW f \in Files, PassFile(p, f)
      PROVE  (\E t : Advances(p, t)) /\ OnlySettles
  <2>1. r.pc = "files" /\ r.left[f] > 0
    BY <1>7 DEF PassFile
  <2>2. CASE f \in enabled
    <3> DEFINE t == [r EXCEPT !.pc = "mode", !.file = f, !.marks = r.modes, !.left[f] = @ - 1]
    <3>1. t.pc = "mode" /\ Move(p, t)
      BY <1>1, <1>7, <2>2 DEF PassFile, PassStates
    <3>2. Sound(t) /\ WorkOf(t) = WorkOf(r) /\ t.took = r.took
      BY <1>1, <2>1, <3>1, FileTaken
    <3> HIDE DEF t
    <3>3. Advances(p, t)
      BY <3>1, <3>2 DEF Advances
    <3> QED BY <1>4, <1>7, <3>3 DEF PassFile
  <2>3. CASE f \notin enabled
    <3> DEFINE t == [r EXCEPT !.left[f] = @ - 1, !.events = @ + 1]
    <3>1. Move(p, t)
      BY <1>7, <2>3 DEF PassFile
    <3>2. Sound(t) /\ WorkOf(t) \subseteq WorkOf(r) /\ t.took = r.took
      BY <1>1, <2>1, FileTaken
    <3> HIDE DEF t
    <3>3. Advances(p, t)
      BY <1>3, <2>3, <3>1, <3>2 DEF Advances
    <3> QED BY <1>4, <1>7, <3>3 DEF PassFile
  <2> QED BY <2>2, <2>3
<1>8. ASSUME NEW m \in Modes, PassProcess(p, m)
      PROVE  (\E t : Advances(p, t)) /\ OnlySettles
  <2>1. r.pc = "mode" /\ NextInLine(p, m)
    BY <1>8 DEF PassProcess
  <2>2. CASE Move(p, [r EXCEPT !.pc = "mark"])
    <3> DEFINE t == [r EXCEPT !.pc = "mark"]
    <3>1. /\ t \in PassStates /\ t.pc = "mark" /\ t.file = r.file /\ t.marks = r.marks
          /\ t.left = r.left /\ t.modes = r.modes /\ t.took = r.took
          /\ t.listed = r.listed /\ t.events = r.events
      BY <1>1 DEF PassStates
    <3>2. Move(p, t)
      BY <2>2
    <3> HIDE DEF t
    <3>3. Sound(t)
      BY <1>1, <2>1, <3>1 DEF Sound
    <3>4. WorkOf(t) = WorkOf(r)
      BY <2>1, <3>1 DEF WorkOf, Pairs
    <3>5. Advances(p, t)
      BY <3>1, <3>2, <3>3, <3>4 DEF Advances
    <3> QED BY <1>4, <1>8, <3>5 DEF PassProcess
  <2>3. CASE NextMode(p, m) /\ (r.file \in Raw \/ Trouble)
    <3>1. PICK t : /\ Move(p, t) /\ Sound(t) /\ WorkOf(t) \subseteq WorkOf(r)
                   /\ t.took = r.took
                   /\ \A f \in Files, n \in Modes :
                        <<f, n>> \in WorkOf(r) /\ <<f, n>> \notin WorkOf(t) =>
                          f = r.file /\ n = m
      BY <1>1, <2>1, <2>3, ModeThrough
    <3>2. Trouble => troubles' # 0
      BY TroubleCounts DEF PassesInv
    <3>3. Advances(p, t)
      BY <2>3, <3>1, <3>2 DEF Advances
    <3> QED BY <1>4, <1>8, <3>3 DEF PassProcess
  <2> QED BY <1>8, <2>2, <2>3 DEF PassProcess
<1>9. ASSUME NEW m \in Modes, PassMark(p, m)
      PROVE  (\E t : Advances(p, t)) /\ OnlySettles
  <2>1. r.pc = "mark" /\ NextInLine(p, m) /\ r.file \in Files
    BY <1>1, <1>9 DEF PassMark, Sound
  <2>2. OnlySettles
    <3>1. CASE UNCHANGED flag
      BY <1>4, <3>1
    <3>2. CASE flag' \in Marks(r.file, m)
      BY <1>1, <2>1, <3>2, SetFlags DEF OnlySettles
    <3> QED BY <1>9, <3>1, <3>2 DEF PassMark
  <2>3. troubles' = 0 => flag'[r.file][m] # InProgress
    <3>1. Trouble => troubles' # 0
      BY TroubleCounts DEF PassesInv
    <3>2. flag' \in Marks(r.file, m) => flag'[r.file][m] # InProgress
      BY <1>1, <2>1, SetFlags
    <3> QED BY <1>9, <3>1, <3>2 DEF PassMark
  <2>4. CASE NextMode(p, m)
    <3>1. PICK t : /\ Move(p, t) /\ Sound(t) /\ WorkOf(t) \subseteq WorkOf(r)
                   /\ t.took = r.took
                   /\ \A f \in Files, n \in Modes :
                        <<f, n>> \in WorkOf(r) /\ <<f, n>> \notin WorkOf(t) =>
                          f = r.file /\ n = m
      BY <1>1, <2>1, <2>4, ModeThrough
    <3>2. Advances(p, t)
      BY <2>3, <3>1 DEF Advances
    <3> QED BY <2>2, <3>2
  <2>5. CASE cancelled /\ Move(p, IdlePass)
    <3>1. Advances(p, IdlePass)
      BY <1>3, <2>5, IdleIsSound DEF Advances
    <3> QED BY <2>2, <3>1
  <2> QED BY <1>9, <2>4, <2>5 DEF PassMark
<1>10. CASE PassThrow(p)
  <2> DEFINE t == FileOver(r)
  <2>1. r.pc \in {"mode", "mark"} /\ Move(p, t) /\ troubles' # 0
    BY <1>10, TroubleCounts DEF PassThrow, PassesInv, FileOver
  <2>2. Sound(t) /\ WorkOf(t) \subseteq WorkOf(r) /\ t.took = r.took
    BY <1>1, <2>1, FileThrough
  <2> HIDE DEF t
  <2>3. Advances(p, t)
    BY <2>1, <2>2 DEF Advances
  <2> QED BY <1>4, <1>10, <2>3 DEF PassThrow
<1> QED BY <1>5, <1>6, <1>7, <1>8, <1>9, <1>10 DEF PassStep

-----------------------------------------------------------------------------
(* The invariant is kept *)

(* What a step does to the work, stated for what follows: a pair that is
   owned after the step was owned before, or was to do and now is in
   progress; and a pair that was owned is still, unless it is settled. *)
LEMMA PassStepKeeps ==
  ASSUME PassesInv, NEW p \in Passes, PassStep(p)
  PROVE  PassesSound' /\ Tables' /\ OwnedIsClaimed' /\ Exclusive' /\ NoTrouble'
         /\ NothingStranded'
<1>1. PICK t : Advances(p, t)
  BY PassStepAdvances
<1>2. OnlySettles
  BY PassStepAdvances
<1>3. /\ UNCHANGED <<enabled, cancelled, held, running, reopened>>
      /\ troubles' = 0 => troubles = 0
  BY PassStepFrame DEF PassesInv, timing, scanning
<1>4. pass \in [Passes -> PassStates] /\ pass' = [pass EXCEPT ![p] = t] /\ Sound(t)
  BY <1>1 DEF Advances, Move, PassesInv, PassesSound
<1>5. PassesSound'
  BY <1>4 DEF PassesInv, PassesSound, Sound
<1>6. Tables'
  BY <1>2, <1>3 DEF Tables, OnlySettles, PassesInv
<1>7. \A q \in Passes : Work(q)' = IF q = p THEN WorkOf(t) ELSE Work(q)
  BY <1>4, WorkIs
<1>8. Work(p) = WorkOf(pass[p]) /\ WorkOf(t) \subseteq WorkOf(pass[p])
  BY <1>1, WorkIs DEF Advances
<1>9. \A x \in Passes \cup Claimers : Owned(x)' \subseteq Owned(x)
  <2>1. ASSUME NEW x \in Claimers PROVE Owned(x)' \subseteq Owned(x)
    BY <1>3, <2>1 DEF Owned
  <2>2. ASSUME NEW x \in Passes \ {p} PROVE Owned(x)' \subseteq Owned(x)
    BY <1>4, <1>7, <2>2 DEF Owned
  <2>3. Owned(p)' \subseteq Owned(p)
    <3>1. p \notin Claimers /\ pass'[p] = t
      BY <1>4
    <3>2. Owned(p)' = WorkOf(t) \cap t.took /\ Owned(p) = Work(p) \cap pass[p].took
      BY <1>7, <3>1 DEF Owned
    <3>3. CASE t.pc = "idle"
      BY <3>2, <3>3 DEF WorkOf
    <3>4. CASE t.pc # "idle"
      BY <1>1, <1>8, <3>2, <3>4 DEF Advances
    <3> QED BY <3>3, <3>4
  <2> QED BY <2>1, <2>2, <2>3
<1>10. OwnedIsClaimed'
  BY <1>2, <1>3, <1>9 DEF OwnedIsClaimed, OnlySettles, PassesInv
<1>11. Exclusive'
  BY <1>3, <1>9 DEF Exclusive, PassesInv
<1>12. NoTrouble'
  BY <1>3 DEF NoTrouble, PassesInv
<1>13. NothingStranded'
  <2> SUFFICES ASSUME troubles' = 0, NEW f \in Files, NEW m \in Modes, flag'[f][m] = InProgress
               PROVE  \/ \E q \in Passes : <<f, m>> \in Work(q)'
                      \/ \E c \in Claimers : <<f, m>> \in held'[c]
                      \/ f \in Raw
    BY DEF NothingStranded
  <2>1. \/ \E q \in Passes : <<f, m>> \in Work(q)
        \/ \E c \in Claimers : <<f, m>> \in held[c]
        \/ f \in Raw
    BY <1>2, <1>3 DEF NothingStranded, OnlySettles, PassesInv
  <2>2. CASE <<f, m>> \in Work(p)
    BY <1>1, <1>7, <1>8, <2>2 DEF Advances
  <2>3. ASSUME NEW q \in Passes \ {p}, <<f, m>> \in Work(q) PROVE <<f, m>> \in Work(q)'
    BY <1>7, <2>3
  <2> QED BY <1>3, <2>1, <2>2, <2>3
<1> QED BY <1>5, <1>6, <1>10, <1>11, <1>12, <1>13

(* A new batch: nobody else owns what was to do. *)
LEMMA PassBeginKeeps ==
  ASSUME PassesInv, NEW p \in Passes, PassBegin(p)
  PROVE  PassesSound' /\ Tables' /\ OwnedIsClaimed' /\ Exclusive' /\ NoTrouble'
         /\ NothingStranded'
<1>0. /\ flag \in FlagTables /\ enabled \subseteq Files
      /\ pass \in [Passes -> PassStates] /\ pass[p].pc = "idle"
  BY DEF PassBegin, PassesInv, PassesSound, Tables, TypeOK
<1> DEFINE Claimed(M, c, P) ==
        flag' = MarkInProgress(flag, P) /\ Move(p, Begun(M, c, TodoPairs(P)))
<1>a. PICK M \in Workloads :
        \E d \in Selections(enabled, flag, M) : \E U \in SUBSET (Selected(d) \X M) : Claimed(M, d, U)
  BY DEF PassBegin, Begun
<1>b. PICK c \in Selections(enabled, flag, M) :
        \E U \in SUBSET (Selected(c) \X M) : Claimed(M, c, U)
  BY <1>a
<1>c. PICK P \in SUBSET (Selected(c) \X M) : Claimed(M, c, P)
  BY <1>b
<1>1. flag' = MarkInProgress(flag, P) /\ Move(p, Begun(M, c, TodoPairs(P)))
  BY <1>c
<1> HIDE DEF Claimed
<1>2. /\ cancelled' = FALSE /\ UNCHANGED <<transcoded, enabled, held, scanning, timing>>
      /\ UNCHANGED troubles \/ Trouble
  BY DEF PassBegin
<1>3. troubles' = 0 => troubles = 0
  BY <1>2, TroubleCounts DEF PassesInv
<1>4. M \in SUBSET Modes /\ M # {}
  BY DEF Workloads
<1>5. P \in SUBSET Pairs
  <2>1. Selected(c) \subseteq Files
    BY <1>0, <1>4, ClaimListed
  <2> QED BY <1>4, <2>1 DEF Pairs
<1>6. TodoPairs(P) \in SUBSET Pairs /\ TodoPairs(P) \subseteq Selected(c) \X M
  BY <1>5 DEF TodoPairs
<1>7. /\ flag' \in FlagTables
      /\ \A f \in Files, m \in Modes :
           flag'[f][m] = IF <<f, m>> \in TodoPairs(P) THEN InProgress ELSE flag[f][m]
  BY <1>0, <1>1, <1>5, MarkedFlags
<1> DEFINE t == Begun(M, c, TodoPairs(P))
<1>8. /\ Sound(t) /\ t.took = TodoPairs(P)
      /\ \A f \in Files, m \in Modes : <<f, m>> \in WorkOf(t) <=> f \in Selected(c) /\ m \in M
  BY <1>0, <1>4, <1>6, BeginIsSound
<1>9. pass' = [pass EXCEPT ![p] = t]
  BY <1>1 DEF Move
<1> HIDE DEF t
<1>10. PassesSound'
  BY <1>0, <1>8, <1>9 DEF PassesInv, PassesSound, Sound
<1>11. Tables'
  BY <1>2, <1>7 DEF Tables, PassesInv
<1>12. Owned(p)' \subseteq TodoPairs(P)
  BY <1>0, <1>8, <1>9 DEF Owned
<1>13. \A x \in (Passes \cup Claimers) \ {p} : Owned(x)' = Owned(x)
  <2>1. ASSUME NEW x \in Claimers PROVE Owned(x)' = Owned(x)
    BY <1>2, <2>1 DEF Owned
  <2>2. ASSUME NEW x \in Passes \ {p} PROVE Owned(x)' = Owned(x)
    <3>1. pass'[x] = pass[x]
      BY <1>0, <1>9, <2>2
    <3> QED BY <2>2, <3>1, WorkIs DEF Owned
  <2> QED BY <2>1, <2>2
<1>14. \A f \in Files, m \in Modes : <<f, m>> \in TodoPairs(P) =>
          flag[f][m] = Todo /\ flag'[f][m] # Todo
  BY <1>7, FlagConstants DEF TodoPairs
<1>15. OwnedIsClaimed' /\ reopened' = reopened
  <2>1. reopened' = reopened
    BY <1>2 DEF scanning
  <2> QED BY <2>1, <1>7, <1>12, <1>13, <1>14, FlagConstants DEF OwnedIsClaimed, PassesInv
<1>16. \A x \in (Passes \cup Claimers) \ {p} : Owned(x) \cap TodoPairs(P) \subseteq reopened
  <2> SUFFICES ASSUME NEW x \in (Passes \cup Claimers) \ {p}, NEW y \in TodoPairs(P),
                      y \in Owned(x)
               PROVE  y \in reopened
    OBVIOUS
  <2>1. PICK f \in Files, m \in Modes : y = <<f, m>>
    BY <1>6, PairParts DEF Pairs
  <2> QED BY <1>14, <2>1 DEF OwnedIsClaimed, PassesInv
<1>17. Exclusive'
  BY <1>12, <1>13, <1>15, <1>16 DEF Exclusive, PassesInv
<1>18. NoTrouble'
  BY <1>2, <1>3 DEF NoTrouble, PassesInv, timing
<1>19. NothingStranded'
  <2> SUFFICES ASSUME troubles' = 0, NEW f \in Files, NEW m \in Modes, flag'[f][m] = InProgress
               PROVE  \/ \E q \in Passes : <<f, m>> \in Work(q)'
                      \/ \E d \in Claimers : <<f, m>> \in held'[d]
                      \/ f \in Raw
    BY DEF NothingStranded
  <2>1. CASE <<f, m>> \in TodoPairs(P)
    <3>1. f \in Selected(c) /\ m \in M
      BY <1>6, <2>1
    <3>2. pass'[p] = t
      BY <1>0, <1>9
    <3>3. <<f, m>> \in Work(p)'
      BY <1>8, <3>1, <3>2, WorkIs
    <3> QED BY <3>3
  <2>2. CASE <<f, m>> \notin TodoPairs(P)
    <3>1. \/ \E q \in Passes : <<f, m>> \in Work(q)
          \/ \E d \in Claimers : <<f, m>> \in held[d]
          \/ f \in Raw
      BY <1>3, <1>7, <2>2 DEF NothingStranded, PassesInv
    <3>2. ASSUME NEW q \in Passes, <<f, m>> \in Work(q) PROVE <<f, m>> \in Work(q)'
      <4>1. q # p
        BY <1>0, <3>2 DEF Work
      <4>2. pass'[q] = pass[q]
        BY <1>0, <1>9, <4>1
      <4> QED BY <3>2, <4>2, WorkIs
    <3> QED BY <1>2, <3>1, <3>2
  <2> QED BY <2>1, <2>2
<1> QED BY <1>10, <1>11, <1>15, <1>17, <1>18, <1>19

(* A claim without priority: the caller had nothing and now holds pairs that
   were to do. *)
LEMMA ClaimKeeps ==
  ASSUME PassesInv, NEW c \in Claimers, held[c] = {}, NEW new \in SUBSET Pairs,
         held' = [held EXCEPT ![c] = new], flag' \in FlagTables,
         \A f \in Files, m \in Modes :
           /\ <<f, m>> \in new => flag[f][m] = Todo
           /\ flag'[f][m] = IF <<f, m>> \in new THEN InProgress ELSE flag[f][m],
         UNCHANGED <<enabled, cancelled, pass, scanning, timing, troubles>>
  PROVE  PassesSound' /\ Tables' /\ OwnedIsClaimed' /\ Exclusive' /\ NoTrouble'
         /\ NothingStranded'
<1>1. PassesSound' /\ NoTrouble' /\ Tables'
  BY DEF PassesInv, PassesSound, NoTrouble, Tables, timing
<1>2. held \in [Claimers -> SUBSET Pairs]
  BY DEF PassesInv, Tables
<1>3. Owned(c)' = new
  BY <1>2 DEF Owned
<1>4. \A x \in (Passes \cup Claimers) \ {c} : Owned(x)' = Owned(x)
  BY <1>2 DEF Owned, Work
<1>5. \A x \in (Passes \cup Claimers) \ {c} : Owned(x) \cap new \subseteq reopened
  <2> SUFFICES ASSUME NEW x \in (Passes \cup Claimers) \ {c}, NEW y \in new, y \in Owned(x)
               PROVE  y \in reopened
    OBVIOUS
  <2>0. y \in Files \X Modes
    BY DEF Pairs
  <2>1. PICK f \in Files, m \in Modes : y = <<f, m>>
    BY <2>0, PairParts
  <2> QED BY <2>1 DEF OwnedIsClaimed, PassesInv
<1>6. Exclusive'
  BY <1>3, <1>4, <1>5 DEF Exclusive, PassesInv, scanning
<1>7. OwnedIsClaimed'
  BY <1>3, <1>4, FlagConstants DEF OwnedIsClaimed, PassesInv, scanning
<1>8. NothingStranded'
  <2> SUFFICES ASSUME troubles' = 0, NEW f \in Files, NEW m \in Modes, flag'[f][m] = InProgress
               PROVE  \/ \E q \in Passes : <<f, m>> \in Work(q)'
                      \/ \E d \in Claimers : <<f, m>> \in held'[d]
                      \/ f \in Raw
    BY DEF NothingStranded
  <2>1. CASE <<f, m>> \in new
    BY <1>2, <2>1
  <2>2. CASE <<f, m>> \notin new
    <3>1. \/ \E q \in Passes : <<f, m>> \in Work(q)
          \/ \E d \in Claimers : <<f, m>> \in held[d]
          \/ f \in Raw
      BY <2>2 DEF NothingStranded, PassesInv
    <3>2. \A q \in Passes : Work(q)' = Work(q)
      BY DEF Work
    <3>3. \A d \in Claimers : held[d] \subseteq held'[d]
      BY <1>2
    <3> QED BY <3>1, <3>2, <3>3
  <2> QED BY <2>1, <2>2
<1> QED BY <1>1, <1>6, <1>7, <1>8

LEMMA ClaimerStepKeeps ==
  ASSUME PassesInv, NEW c \in Claimers, ClaimerStep(c)
  PROVE  PassesSound' /\ Tables' /\ OwnedIsClaimed' /\ Exclusive' /\ NoTrouble'
         /\ NothingStranded'
<1>0. flag \in FlagTables /\ held \in [Claimers -> SUBSET Pairs] /\ enabled \subseteq Files
  BY DEF PassesInv, Tables, TypeOK
<1>1. CASE ClaimBatch(c)
  <2>1. PICK M \in {{m} : m \in Modes} \cup {Modes} : \E S \in BatchClaims(M) :
          /\ flag' = MarkInProgress(flag, S \X M)
          /\ held' = [held EXCEPT ![c] = TodoPairs(S \X M)]
    BY <1>1 DEF ClaimBatch
  <2>2. PICK S \in BatchClaims(M) :
          /\ flag' = MarkInProgress(flag, S \X M)
          /\ held' = [held EXCEPT ![c] = TodoPairs(S \X M)]
    BY <2>1
  <2>3. M \subseteq Modes /\ S \subseteq Files
    BY <1>0 DEF BatchClaims, Limit, Pending
  <2>4. TodoPairs(S \X M) \in SUBSET Pairs
    BY <2>3 DEF TodoPairs, Pairs
  <2>5. \A f \in Files, m \in Modes :
          /\ <<f, m>> \in TodoPairs(S \X M) => flag[f][m] = Todo
          /\ flag'[f][m] = IF <<f, m>> \in TodoPairs(S \X M) THEN InProgress ELSE flag[f][m]
    <3>1. \A f \in Files, m \in Modes : <<f, m>> \in TodoPairs(S \X M) => flag[f][m] = Todo
      BY DEF TodoPairs
    <3>2. \A f \in Files, m \in Modes :
            MarkInProgress(flag, S \X M)[f][m] =
              IF <<f, m>> \in TodoPairs(S \X M) THEN InProgress ELSE flag[f][m]
      <4>1. S \X M \in SUBSET Pairs /\ flag \in FlagTables
        BY <1>0, <2>3 DEF Pairs
      <4> QED BY <4>1, MarkedFlags, Zenon
    <3>3. \A f \in Files, m \in Modes :
            flag'[f][m] = IF <<f, m>> \in TodoPairs(S \X M) THEN InProgress ELSE flag[f][m]
      BY <2>2, <3>2
    <3> QED BY <3>1, <3>3
  <2>6. flag' \in FlagTables
    <3>1. S \X M \in SUBSET Pairs
      BY <2>3 DEF Pairs
    <3> QED BY <1>0, <2>2, <3>1, MarkedFlags
  <2>7. held[c] = {} /\ UNCHANGED <<enabled, cancelled, pass, scanning, timing, troubles>>
    BY <1>1 DEF ClaimBatch
  <2> QED BY <2>2, <2>4, <2>5, <2>6, <2>7, ClaimKeeps
<1>2. CASE ClaimOne(c)
  <2>1. PICK f \in Files, m \in Modes :
          /\ Lockable(f, m)
          /\ flag' = [flag EXCEPT ![f][m] = InProgress]
          /\ held' = [held EXCEPT ![c] = {<<f, m>>}]
    BY <1>2 DEF ClaimOne
  <2>2. \A g \in Files, n \in Modes :
          /\ <<g, n>> \in {<<f, m>>} => flag[g][n] = Todo
          /\ flag'[g][n] = IF <<g, n>> \in {<<f, m>>} THEN InProgress ELSE flag[g][n]
    BY <1>0, <2>1 DEF Lockable, FlagTables
  <2>3. flag' \in FlagTables
    BY <1>0, <2>1, FlagConstants DEF FlagTables
  <2>4. {<<f, m>>} \in SUBSET Pairs
    BY DEF Pairs
  <2>5. held[c] = {} /\ UNCHANGED <<enabled, cancelled, pass, scanning, timing, troubles>>
    BY <1>2 DEF ClaimOne
  <2> QED BY <2>1, <2>2, <2>3, <2>4, <2>5, ClaimKeeps
<1>3. CASE ClaimerMark(c)
  <2>1. PICK f \in Files, m \in Modes :
          /\ <<f, m>> \in held[c]
          /\ flag' \in {SetProcessingFlag(flag, f, m), [flag EXCEPT ![f][m] = Todo]}
          /\ held' = [held EXCEPT ![c] = @ \ {<<f, m>>}]
    BY <1>3 DEF ClaimerMark
  <2>2. UNCHANGED <<enabled, cancelled, pass, scanning, timing, troubles>>
    BY <1>3 DEF ClaimerMark
  <2>3. /\ flag' \in FlagTables /\ flag'[f][m] # InProgress
        /\ \A g \in Files, n \in Modes : g # f \/ n # m => flag'[g][n] = flag[g][n]
    <3>1. CASE flag' = SetProcessingFlag(flag, f, m)
      <4>1. flag' \in Marks(f, m)
        BY <3>1 DEF Marks
      <4> QED BY <1>0, <4>1, SetFlags
    <3>2. CASE flag' = [flag EXCEPT ![f][m] = Todo]
      BY <1>0, <3>2, FlagConstants DEF FlagTables
    <3> QED BY <2>1, <3>1, <3>2
  <2>4. PassesSound' /\ NoTrouble' /\ Tables'
    <3>1. held' \in [Claimers -> SUBSET Pairs]
      BY <1>0, <2>1
    <3> QED BY <2>2, <2>3, <3>1 DEF PassesInv, PassesSound, NoTrouble, Tables, timing
  <2>5. Owned(c)' = Owned(c) \ {<<f, m>>} /\ <<f, m>> \in Owned(c)
    BY <1>0, <2>1 DEF Owned
  <2>6. \A x \in (Passes \cup Claimers) \ {c} : Owned(x)' = Owned(x)
    BY <1>0, <2>1, <2>2 DEF Owned, Work
  <2>7. Exclusive'
    BY <2>2, <2>5, <2>6 DEF Exclusive, PassesInv, scanning
  <2>8. \A x \in Passes \cup Claimers : <<f, m>> \in Owned(x)' => <<f, m>> \in reopened
    BY <2>5, <2>6 DEF Exclusive, PassesInv
  <2>9. OwnedIsClaimed'
    <3> SUFFICES ASSUME NEW x \in Passes \cup Claimers, NEW g \in Files, NEW n \in Modes,
                        <<g, n>> \in Owned(x)' \ reopened
                 PROVE  flag'[g][n] # Todo
      BY <2>2 DEF OwnedIsClaimed, scanning
    <3>1. <<g, n>> # <<f, m>>
      BY <2>8
    <3>2. <<g, n>> \in Owned(x)
      BY <2>5, <2>6
    <3> QED BY <2>3, <3>1, <3>2 DEF OwnedIsClaimed, PassesInv
  <2>10. NothingStranded'
    <3> SUFFICES ASSUME troubles' = 0, NEW g \in Files, NEW n \in Modes,
                        flag'[g][n] = InProgress
                 PROVE  \/ \E q \in Passes : <<g, n>> \in Work(q)'
                        \/ \E d \in Claimers : <<g, n>> \in held'[d]
                        \/ g \in Raw
      BY DEF NothingStranded
    <3>1. <<g, n>> # <<f, m>>
      BY <2>3
    <3>2. \/ \E q \in Passes : <<g, n>> \in Work(q)
          \/ \E d \in Claimers : <<g, n>> \in held[d]
          \/ g \in Raw
      BY <2>2, <2>3, <3>1 DEF NothingStranded, PassesInv
    <3>3. \A q \in Passes : Work(q)' = Work(q)
      BY <2>2 DEF Work
    <3>4. \A d \in Claimers : <<g, n>> \in held[d] => <<g, n>> \in held'[d]
      BY <1>0, <2>1, <3>1
    <3> QED BY <3>2, <3>3, <3>4
  <2> QED BY <2>4, <2>7, <2>9, <2>10
<1> QED BY <1>1, <1>2, <1>3 DEF ClaimerStep

(* The steps that leave flags, passes and claims alone. *)
LEMMA OtherStepKeeps ==
  ASSUME PassesInv, UNCHANGED <<flag, pass, held, scanning>>,
         troubles' = 0 => troubles = 0 /\ NoTrouble'
  PROVE  PassesSound' /\ Tables' /\ OwnedIsClaimed' /\ Exclusive' /\ NoTrouble'
         /\ NothingStranded'
<1>1. PassesSound' /\ Tables'
  BY DEF PassesInv, PassesSound, Tables
<1>2. \A x \in Passes \cup Claimers : Owned(x)' = Owned(x)
  BY DEF Owned, Work
<1>3. OwnedIsClaimed' /\ Exclusive'
  BY <1>2 DEF OwnedIsClaimed, Exclusive, PassesInv, scanning
<1>4. \A q \in Passes : Work(q)' = Work(q)
  BY DEF Work
<1>5. NothingStranded' /\ NoTrouble'
  BY <1>4 DEF NothingStranded, NoTrouble, PassesInv
<1> QED BY <1>1, <1>3, <1>5

(* A scan that finds a file changed: what is taken of it is reopened. *)
LEMMA RescanKeeps ==
  ASSUME PassesInv, NEW f \in Files, Rescan(f)
  PROVE  PassesSound' /\ Tables' /\ OwnedIsClaimed' /\ Exclusive' /\ NoTrouble'
         /\ NothingStranded'
<1>0. flag \in FlagTables /\ UNCHANGED <<enabled, cancelled, pass, held, running, troubles>>
  BY DEF PassesInv, Tables, Rescan, timing
<1>1. /\ flag' \in FlagTables
      /\ \A g \in Files, m \in Modes : flag'[g][m] = IF g = f THEN Todo ELSE flag[g][m]
  BY <1>0, FlagConstants DEF Rescan, FreshFlags, FlagTables
<1>2. PassesSound' /\ Tables' /\ NoTrouble'
  BY <1>0, <1>1 DEF PassesInv, PassesSound, Tables, NoTrouble
<1>3. \A x \in Passes \cup Claimers : Owned(x)' = Owned(x)
  BY <1>0 DEF Owned, Work
<1>4. \A x \in Passes \cup Claimers : \A y \in Owned(x) :
        y \in reopened \cup ({f} \X Modes) => y \in reopened'
  BY DEF Rescan
<1>5. Exclusive'
  BY <1>3, <1>4 DEF Exclusive, PassesInv
<1>6. OwnedIsClaimed'
  <2> SUFFICES ASSUME NEW x \in Passes \cup Claimers, NEW g \in Files, NEW m \in Modes,
                      <<g, m>> \in Owned(x), <<g, m>> \notin reopened'
               PROVE  flag'[g][m] # Todo
    BY <1>3 DEF OwnedIsClaimed
  <2>1. <<g, m>> \notin reopened /\ g # f
    BY <1>4
  <2> QED BY <1>1, <2>1 DEF OwnedIsClaimed, PassesInv
<1>7. NothingStranded'
  <2>1. \A g \in Files, m \in Modes : flag'[g][m] = InProgress => flag[g][m] = InProgress
    BY <1>1, FlagConstants
  <2>2. \A q \in Passes : Work(q)' = Work(q)
    BY <1>0 DEF Work
  <2> QED BY <1>0, <2>1, <2>2 DEF NothingStranded, PassesInv
<1> QED BY <1>2, <1>5, <1>6, <1>7

(* The variables that only have a type. *)
LEMMA RestTyped ==
  ASSUME PassesInv, [Next]_vars
  PROVE  /\ transcoded' \subseteq Raw /\ enabled' \subseteq Files /\ cancelled' \in BOOLEAN
         /\ mutex' \in {"free", "timer", "stop"}
         /\ timer' \in {"off", "top", "checked", "hung"} /\ running' \in BOOLEAN
         /\ scans' \in 0 .. MaxTroubles /\ reopened' \subseteq Pairs
         /\ claims' \in 0 .. MaxClaims /\ troubles' \in 0 .. MaxTroubles
<1> DEFINE Rest ==
      /\ transcoded \subseteq Raw /\ enabled \subseteq Files /\ cancelled \in BOOLEAN
      /\ mutex \in {"free", "timer", "stop"}
      /\ timer \in {"off", "top", "checked", "hung"} /\ running \in BOOLEAN
      /\ scans \in 0 .. MaxTroubles /\ reopened \subseteq Pairs
      /\ claims \in 0 .. MaxClaims /\ troubles \in 0 .. MaxTroubles
<1>0. TypeOK /\ Rest
  BY DEF PassesInv, TypeOK
<1>1. Claims => claims' \in 0 .. MaxClaims
  BY <1>0 DEF Claims
<1>2. Trouble => troubles' \in 0 .. MaxTroubles
  BY <1>0, TroubleCounts
<1>3. CASE UNCHANGED vars
  BY <1>0, <1>3 DEF vars, timing, scanning
<1>4. ASSUME NEW f \in Files, Transcode(f) \/ Disable(f) PROVE Rest'
  BY <1>0, <1>2, <1>4 DEF Transcode, Disable, timing, scanning
<1>5. CASE Cancel
  BY <1>0, <1>2, <1>5 DEF Cancel, timing, scanning
<1>6. ASSUME NEW p \in Passes, PassBegin(p) PROVE Rest'
  BY <1>0, <1>1, <1>2, <1>6 DEF PassBegin, timing, scanning
<1>7. ASSUME NEW p \in Passes, PassStep(p) PROVE Rest'
  BY <1>0, <1>2, <1>7, PassStepFrame DEF timing, scanning
<1>8. ASSUME NEW c \in Claimers, ClaimerStep(c) PROVE Rest'
  BY <1>0, <1>1, <1>8 DEF ClaimerStep, ClaimBatch, ClaimOne, ClaimerMark, timing, scanning
<1>9. CASE StartTimer \/ StopTimer \/ TimerStep
  BY <1>0, <1>2, <1>9 DEF StartTimer, StopTimer, TimerStep, TimerCheck, TimerRun, StopReturn, scanning
<1>10. ASSUME NEW f \in Files, Rescan(f) PROVE Rest'
  <2>1. reopened' \subseteq Pairs
    BY <1>0, <1>10 DEF Rescan, Pairs
  <2>2. scans' \in 0 .. MaxTroubles
    <3>1. troubles + scans < MaxTroubles /\ scans' = scans + 1
      BY <1>10 DEF Rescan
    <3> QED BY <1>0, <3>1
  <2> QED BY <1>0, <1>10, <2>1, <2>2 DEF Rescan, timing
<1> QED BY <1>10, <1>3, <1>4, <1>5, <1>6, <1>7, <1>8, <1>9 DEF Next

-----------------------------------------------------------------------------
(* Theorems *)

(* The invariant from which the others follow. *)
THEOREM PassesInvariant == Spec => []PassesInv
<1>1. Init => PassesInv
  <2> SUFFICES ASSUME Init PROVE PassesInv
    OBVIOUS
  <2>1. flag \in FlagTables /\ \A f \in Files, m \in Modes : flag[f][m] = Todo
    BY FreshTable DEF Init, FreshFlags
  <2>2. PassesSound
    BY IdleIsSound DEF Init, PassesSound, Sound
  <2>3. Tables
    BY <2>1 DEF Init, Tables
  <2>4. /\ claims \in 0 .. MaxClaims /\ troubles \in 0 .. MaxTroubles
        /\ scans \in 0 .. MaxTroubles /\ reopened \subseteq Pairs
    BY DEF Init
  <2>5. TypeOK
    BY <2>1, <2>2, <2>4 DEF Init, TypeOK, PassesSound, FlagTables
  <2>6. \A x \in Passes \cup Claimers : Owned(x) = {}
    <3>1. ASSUME NEW x \in Passes \ Claimers PROVE Owned(x) = {}
      BY IdleIsSound, WorkIs, <3>1 DEF Init, Owned
    <3>2. ASSUME NEW x \in Claimers PROVE Owned(x) = {}
      BY <3>2 DEF Init, Owned
    <3> QED BY <3>1, <3>2
  <2>7. OwnedIsClaimed /\ Exclusive
    BY <2>6 DEF OwnedIsClaimed, Exclusive
  <2>8. NoTrouble /\ NothingStranded
    BY <2>1, FlagConstants DEF Init, NoTrouble, NothingStranded
  <2> QED BY <2>2, <2>3, <2>5, <2>7, <2>8 DEF PassesInv
<1>2. PassesInv /\ [Next]_vars => PassesInv'
  <2> SUFFICES ASSUME PassesInv, [Next]_vars PROVE PassesInv'
    OBVIOUS
  <2> DEFINE Kept == PassesSound /\ Tables /\ OwnedIsClaimed /\ Exclusive /\ NoTrouble
                     /\ NothingStranded
  <2>0. NoTrouble /\ TypeOK
    BY DEF PassesInv
  <2>1. ASSUME UNCHANGED vars PROVE Kept'
    BY <2>0, <2>1, OtherStepKeeps DEF vars, timing, scanning, NoTrouble
  <2>2. ASSUME NEW f \in Files, Transcode(f) \/ Disable(f) PROVE Kept'
    BY <2>0, <2>2, TroubleCounts, OtherStepKeeps DEF Transcode, Disable, timing, scanning, NoTrouble
  <2>3. ASSUME Cancel PROVE Kept'
    BY <2>0, <2>3, TroubleCounts, OtherStepKeeps DEF Cancel, timing, scanning, NoTrouble
  <2>4. ASSUME NEW p \in Passes, PassBegin(p) \/ PassStep(p) PROVE Kept'
    BY <2>4, PassBeginKeeps, PassStepKeeps
  <2>5. ASSUME NEW c \in Claimers, ClaimerStep(c) PROVE Kept'
    BY <2>5, ClaimerStepKeeps
  <2>6. ASSUME StartTimer PROVE Kept'
    BY <2>0, <2>6, TroubleCounts, OtherStepKeeps DEF StartTimer, scanning, NoTrouble
  <2>7. ASSUME StopTimer PROVE Kept'
    BY <2>0, <2>7, OtherStepKeeps DEF StopTimer, scanning, NoTrouble
  <2>8. ASSUME TimerStep PROVE Kept'
    BY <2>0, <2>8, OtherStepKeeps DEF TimerStep, TimerCheck, TimerRun, StopReturn, scanning, NoTrouble
  <2>11. ASSUME NEW f \in Files, Rescan(f) PROVE Kept'
    BY <2>11, RescanKeeps
  <2>9. Kept'
    BY <2>11, <2>1, <2>2, <2>3, <2>4, <2>5, <2>6, <2>7, <2>8 DEF Next
  <2>10. TypeOK'
    BY <2>9, RestTyped DEF TypeOK, PassesSound, Tables, FlagTables
  <2> QED BY <2>9, <2>10 DEF PassesInv
<1> QED BY <1>1, <1>2, PTL DEF Spec

(* Type correctness. *)
THEOREM TypeCorrect == Spec => []TypeOK
<1>1. PassesInv => TypeOK
  BY DEF PassesInv
<1> QED BY <1>1, PassesInvariant, PTL

(* No pair of a file and a mode is taken by two callers, whichever of the
   claims they use and however passes overlap, but the pairs that a scan put
   back to do while somebody had them. *)
THEOREM ClaimsExclude == Spec => []Exclusive
<1>1. PassesInv => Exclusive
  BY DEF PassesInv
<1> QED BY <1>1, PassesInvariant, PTL

(* Without cancellation, disabled types, failing statements and exceptions no
   flag is left in progress that nobody will come to, whatever the scans put
   back to do. *)
THEOREM NoneStranded == Spec => []NothingStranded
<1>1. PassesInv => NothingStranded
  BY DEF PassesInv
<1> QED BY <1>1, PassesInvariant, PTL

(* A pass that completes has reported every row its claim has listed, those
   that were listed twice included. *)
THEOREM AllReported == Spec => []EveryFileReported
<1>1. PassesInv => EveryFileReported
  <2> SUFFICES ASSUME PassesInv, NEW p \in Passes, pass[p].pc # "idle",
                      \A f \in Files : pass[p].left[f] = 0, pass[p].file = NoFile
               PROVE  pass[p].events = pass[p].listed
    BY DEF EveryFileReported
  <2>1. Sound(pass[p]) /\ pass[p] \in PassStates
    BY DEF PassesInv, PassesSound
  <2>2. /\ pass[p].left \in [Files -> 0 .. 2]
        /\ pass[p].events \in Int
    BY <2>1 DEF PassStates
  <2>3. LeftOver(pass[p].left) = 0
    BY <2>2, NoneLeft
  <2>4. pass[p].events + 0 + 0 = pass[p].listed
    BY <2>1, <2>3 DEF Sound
  <2> QED BY <2>2, <2>4
<1> QED BY <1>1, PassesInvariant, PTL
=============================================================================
