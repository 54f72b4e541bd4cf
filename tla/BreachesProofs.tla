---------------------------- MODULE BreachesProofs ----------------------------
(***************************************************************************)
(* Whatever the developer, the database and the signals do, and however    *)
(* many breaches there are and edits are made, the script never takes a    *)
(* breach for source, leaves none behind but when it is killed, and        *)
(* reports success only of breaches it tried.                              *)
(***************************************************************************)
EXTENDS Breaches, WellFoundedInduction, TLAPS

\* The inductive invariant.  Before a breach is planted none is in the tree;
\* while its tests run it is in the one file that is about to be restored,
\* and what will be written there is clean; HEAD never has one.
TreeOK ==
    /\ \A file \in Files : head[file].planted = None
    /\ pc \in {"next", "plant"} => NothingPlanted
    /\ pc \in {"test", "restore"} =>
           \A file \in Files : file # File => tree[file].planted = None
    /\ pc = "idle" => NothingPlanted \/ exit \in {Killed, 2}

OriginalOK ==
    IF pc \in {"plant", "test", "restore"}
      THEN todo # {} /\ original \in Content(File) /\ original.planted = None
      ELSE original = None

BInv == BreachesTypeOK /\ TreeOK /\ OriginalOK

-----------------------------------------------------------------------------
\* A set of breaches that is not empty has a first one.
LEMMA FirstOfSome ==
    ASSUME NEW S, S \subseteq Nat, S # {}
    PROVE  \E n \in S : \A m \in S : n <= m
<1> DEFINE Less == {pair \in Nat \X Nat : pair[1] < pair[2]}
<1>1. IsWellFoundedOn(Less, Nat)
  BY NatLessThanWellFounded, Zenon DEF OpToRel
<1>2. PICK n \in S : \A m \in S : ~ (<<m, n>> \in Less)
  BY <1>1, WFMin, Zenon
<1>3. ASSUME NEW m \in S PROVE n <= m
  <2>1. <<m, n>> \in Nat \X Nat /\ <<m, n>>[1] = m /\ <<m, n>>[2] = n
    OBVIOUS
  <2>2. <<m, n>> \notin Less
    BY <1>2
  <2>3. ~ (m < n)
    BY <2>1, <2>2
  <2>4. QED
    BY <2>1, <2>3
<1>4. QED
  BY <1>3

LEMMA CurrentIsTodo ==
    ASSUME todo \subseteq Numbers, todo # {}
    PROVE  Current \in todo /\ Current \in Numbers /\ File \in Files /\ Current \in In(File)
<1>1. todo \subseteq Nat
  BY BreachesAssumption DEF BREACHES
<1>2. \E n \in todo : \A m \in todo : n <= m
  BY <1>1, FirstOfSome
<1>3. Current \in todo
  BY <1>2 DEF Current
<1>4. QED
  BY <1>3 DEF File, Files, In

LEMMA InitBInv == Init => BInv
<1> SUFFICES ASSUME Init PROVE BInv
  OBVIOUS
<1>1. \A file \in Files :
          [count |-> [n \in In(file) |-> 1], planted |-> None] \in Content(file)
  BY DEF Content
<1>2. BreachesTypeOK
  BY <1>1 DEF Init, BreachesTypeOK
<1>3. TreeOK /\ OriginalOK
  BY DEF Init, TreeOK, OriginalOK, NothingPlanted
<1>4. QED
  BY <1>2, <1>3 DEF BInv

\* Planting and editing change one file, and keep it a file.
LEMMA FileChange ==
    ASSUME BreachesTypeOK, NEW file \in Files, NEW content \in Content(file),
           tree' = [tree EXCEPT ![file] = content]
    PROVE  /\ tree' \in [Files -> UNION {Content(f) : f \in Files}]
           /\ \A f \in Files : tree'[f] \in Content(f)
           /\ tree'[file] = content
           /\ \A f \in Files : f # file => tree'[f] = tree[f]
BY DEF BreachesTypeOK

\* The developer's steps, from any point of the script: a breach is only ever
\* taken away.
LEMMA DeveloperKeeps ==
    ASSUME BInv, UNCHANGED script,
           tree' \in [Files -> UNION {Content(f) : f \in Files}],
           head' \in [Files -> UNION {Content(f) : f \in Files}],
           \A f \in Files : tree'[f] \in Content(f) /\ head'[f] \in Content(f),
           \A f \in Files : tree'[f].planted \in {tree[f].planted, None},
           \A f \in Files : head'[f].planted = None
    PROVE  BInv'
<1>1. BreachesTypeOK'
  BY DEF BInv, BreachesTypeOK, script
<1>2. File' = File
  BY DEF script, File, Current
<1>3. TreeOK'
  BY <1>2 DEF BInv, TreeOK, script, NothingPlanted
<1>4. OriginalOK'
  BY <1>2 DEF BInv, OriginalOK, script
<1>5. QED
  BY <1>1, <1>3, <1>4 DEF BInv

LEMMA EditKeeps ==
    ASSUME BInv, NEW file \in Files, NEW n \in In(file), NEW count \in 0..2,
           Edit(file, n, count)
    PROVE  BInv'
<1> DEFINE edited == [tree[file] EXCEPT !.count[n] = count]
<1>1. tree[file] \in Content(file)
  BY DEF BInv, BreachesTypeOK
<1>2. edited \in Content(file) /\ edited.planted = tree[file].planted
  BY <1>1 DEF Content
<1>3. tree' = [tree EXCEPT ![file] = edited]
  BY DEF Edit
<1>4. BreachesTypeOK
  BY DEF BInv
<1> HIDE DEF edited
<1>5. /\ tree' \in [Files -> UNION {Content(f) : f \in Files}]
      /\ \A f \in Files : tree'[f] \in Content(f)
      /\ tree'[file] = edited
      /\ \A f \in Files : f # file => tree'[f] = tree[f]
  BY <1>2, <1>3, <1>4, FileChange
<1>6. \A f \in Files : tree'[f].planted \in {tree[f].planted, None}
  BY <1>2, <1>5
<1>7. UNCHANGED script /\ head' = head
  BY DEF Edit
<1>8. QED
  BY <1>4, <1>5, <1>6, <1>7, DeveloperKeeps DEF BInv, BreachesTypeOK, TreeOK

LEMMA CommitKeeps ==
    ASSUME BInv, Commit PROVE BInv'
BY DeveloperKeeps DEF Commit, BInv, BreachesTypeOK, NothingPlanted

LEMMA CheckoutKeeps ==
    ASSUME BInv, NEW files \in SUBSET Files, Checkout(files) PROVE BInv'
BY DeveloperKeeps DEF Checkout, CheckedOut, BInv, BreachesTypeOK, TreeOK

-----------------------------------------------------------------------------
LEMMA StartKeeps ==
    ASSUME BInv, NEW only \in Selections, Start(only) PROVE BInv'
<1>1. only \subseteq Numbers /\ pc = "idle" /\ UNCHANGED world
  BY DEF Start, Selections
<1>2. CASE Dirty \/ only = {}
  <2>1. Exits(2)
    BY <1>2 DEF Start
  <2>2. BreachesTypeOK'
    BY <1>1, <2>1 DEF BInv, BreachesTypeOK, Exits, world
  <2>3. TreeOK' /\ OriginalOK'
    BY <1>1, <2>1 DEF BInv, TreeOK, OriginalOK, Exits, world
  <2>4. QED
    BY <2>2, <2>3 DEF BInv
<1>3. CASE ~ (Dirty \/ only = {})
  <2>1. Begins(only)
    BY <1>3 DEF Start
  <2>2. BreachesTypeOK'
    BY <1>1, <2>1 DEF BInv, BreachesTypeOK, Begins, world
  <2>3. NothingPlanted
    BY <1>3 DEF BInv, TreeOK, Dirty, NothingPlanted
  <2>4. TreeOK'
    BY <1>1, <2>1, <2>3 DEF BInv, TreeOK, Begins, world, NothingPlanted
  <2>5. OriginalOK'
    BY <2>1 DEF OriginalOK, Begins
  <2>6. QED
    BY <2>2, <2>4, <2>5 DEF BInv
<1>4. QED
  BY <1>2, <1>3

LEMMA ReadKeeps ==
    ASSUME BInv, Read PROVE BInv'
<1>1. pc = "next" /\ todo # {} /\ UNCHANGED world /\ NothingPlanted
  BY DEF Read, BInv, TreeOK
<1>2. Current \in Numbers /\ File \in Files
  BY <1>1, CurrentIsTodo DEF BInv, BreachesTypeOK
<1>3. CASE tree[File].count[Current] = 1
  <2>1. /\ pc' = "plant" /\ original' = tree[File]
        /\ UNCHANGED <<todo, holes, exit, selected>>
    BY <1>3 DEF Read
  <2>2. BreachesTypeOK'
    BY <1>1, <2>1 DEF BInv, BreachesTypeOK, world
  <2>3. TreeOK'
    BY <1>1, <2>1 DEF BInv, TreeOK, world, NothingPlanted
  <2>4. File' = File
    BY <2>1 DEF File, Current
  <2>5. tree[File] \in Content(File) /\ tree[File].planted = None
    BY <1>1, <1>2 DEF BInv, BreachesTypeOK, NothingPlanted
  <2>6. OriginalOK'
    BY <1>1, <2>1, <2>4, <2>5 DEF OriginalOK
  <2>7. QED
    BY <2>2, <2>3, <2>6 DEF BInv
<1>4. CASE tree[File].count[Current] # 1
  <2>1. /\ holes' = holes \cup {Current} /\ todo' = todo \ {Current}
        /\ UNCHANGED <<pc, original, exit, selected>>
    BY <1>4 DEF Read
  <2>2. BreachesTypeOK'
    BY <1>1, <1>2, <2>1 DEF BInv, BreachesTypeOK, world
  <2>3. TreeOK' /\ OriginalOK'
    BY <1>1, <2>1 DEF BInv, TreeOK, OriginalOK, world, NothingPlanted
  <2>4. QED
    BY <2>2, <2>3 DEF BInv
<1>5. QED
  BY <1>3, <1>4

\* A file with a breach planted in it is still a file.
LEMMA PlantedIsContent ==
    ASSUME NEW file, NEW n \in In(file), NEW content \in Content(file)
    PROVE  Planted(content, n) \in Content(file)
<1>1. content.count \in [In(file) -> 0..2]
  BY DEF Content
<1>2. [content.count EXCEPT ![n] = 0] \in [In(file) -> 0..2]
  BY <1>1
<1>3. QED
  BY <1>2 DEF Planted, Content

LEMMA PlantKeeps ==
    ASSUME BInv, Plant PROVE BInv'
<1>1. pc = "plant" /\ NothingPlanted /\ todo # {} /\ original \in Content(File)
  BY DEF Plant, BInv, TreeOK, OriginalOK
<1>2. Current \in In(File) /\ File \in Files
  BY <1>1, CurrentIsTodo DEF BInv, BreachesTypeOK
<1>3. Planted(original, Current) \in Content(File)
  BY <1>1, <1>2, PlantedIsContent
<1>4. tree' = [tree EXCEPT ![File] = Planted(original, Current)]
  BY DEF Plant
<1>5. /\ pc' = "test"
      /\ UNCHANGED <<head, todo, original, holes, exit, selected>>
  BY DEF Plant
<1>6. /\ tree' \in [Files -> UNION {Content(f) : f \in Files}]
      /\ \A f \in Files : tree'[f] \in Content(f)
      /\ \A f \in Files : f # File => tree'[f] = tree[f]
  BY <1>2, <1>3, <1>4, FileChange DEF BInv
<1>7. BreachesTypeOK'
  BY <1>5, <1>6 DEF BInv, BreachesTypeOK
<1>8. File' = File
  BY <1>5 DEF File, Current
<1>9. TreeOK'
  BY <1>1, <1>5, <1>6, <1>8 DEF BInv, TreeOK, NothingPlanted
<1>10. OriginalOK'
  BY <1>1, <1>5, <1>8 DEF BInv, OriginalOK
<1>11. QED
  BY <1>7, <1>9, <1>10 DEF BInv

LEMMA RunTestsKeeps ==
    ASSUME BInv, RunTests PROVE BInv'
<1>1. /\ pc = "test" /\ pc' = "restore"
      /\ UNCHANGED <<tree, head, todo, original, holes, exit, selected>>
  BY DEF RunTests, world
<1>2. File' = File
  BY <1>1 DEF File, Current
<1>3. BreachesTypeOK' /\ TreeOK' /\ OriginalOK'
  BY <1>1, <1>2 DEF BInv, BreachesTypeOK, TreeOK, OriginalOK
<1>4. QED
  BY <1>3 DEF BInv

LEMMA RestoreKeeps ==
    ASSUME BInv, Restore PROVE BInv'
<1>1. /\ pc = "restore" /\ todo # {}
      /\ original \in Content(File) /\ original.planted = None
  BY DEF Restore, BInv, OriginalOK
<1>2. Current \in Numbers /\ File \in Files
  BY <1>1, CurrentIsTodo DEF BInv, BreachesTypeOK
<1>3. tree' = [tree EXCEPT ![File] = original] /\ head' = head
  BY DEF Restore
<1>4. /\ tree' \in [Files -> UNION {Content(f) : f \in Files}]
      /\ \A f \in Files : tree'[f] \in Content(f)
      /\ tree'[File] = original
      /\ \A f \in Files : f # File => tree'[f] = tree[f]
  BY <1>1, <1>2, <1>3, FileChange DEF BInv
<1>5. NothingPlanted'
  BY <1>1, <1>4 DEF BInv, TreeOK, NothingPlanted
<1>6. /\ pc' \in {"idle", "next"} /\ original' = None /\ todo' \subseteq todo
      /\ holes' \subseteq holes \cup {Current} /\ selected' = selected
  BY DEF Restore, Exits
<1>7. BreachesTypeOK'
  BY <1>2, <1>3, <1>4, <1>6 DEF BInv, BreachesTypeOK
<1>8. TreeOK' /\ OriginalOK'
  BY <1>3, <1>5, <1>6 DEF BInv, TreeOK, OriginalOK, NothingPlanted
<1>9. QED
  BY <1>7, <1>8 DEF BInv

\* A process that ends, for whatever reason, where it may.
LEMMA EndKeeps ==
    ASSUME BInv, NEW status, Exits(status), UNCHANGED world,
           pc \in {"next", "plant"} \/ status = Killed
    PROVE  BInv'
<1>1. BreachesTypeOK'
  BY DEF BInv, BreachesTypeOK, Exits, world
<1>2. TreeOK' /\ OriginalOK'
  BY DEF BInv, TreeOK, OriginalOK, Exits, world, NothingPlanted
<1>3. QED
  BY <1>1, <1>2 DEF BInv

LEMMA InterruptKeeps ==
    ASSUME BInv, Interrupt PROVE BInv'
<1>1. CASE pc = "test"
  <2>1. /\ pc' = "restore"
        /\ UNCHANGED <<tree, head, todo, original, holes, exit, selected>>
    BY <1>1 DEF Interrupt, world
  <2>2. File' = File
    BY <2>1 DEF File, Current
  <2>3. BreachesTypeOK' /\ TreeOK' /\ OriginalOK'
    BY <1>1, <2>1, <2>2 DEF BInv, BreachesTypeOK, TreeOK, OriginalOK
  <2>4. QED
    BY <2>3 DEF BInv
<1>2. CASE pc # "test"
  BY <1>2, EndKeeps DEF Interrupt
<1>3. QED
  BY <1>1, <1>2

LEMMA StepKeeps ==
    ASSUME BInv, [Next]_vars PROVE BInv'
<1>1. ASSUME NEW only \in Selections, Start(only) PROVE BInv'
  BY <1>1, StartKeeps
<1>2. CASE Read
  BY <1>2, ReadKeeps
<1>3. CASE Plant
  BY <1>3, PlantKeeps
<1>4. CASE RunTests
  BY <1>4, RunTestsKeeps
<1>5. CASE Restore
  BY <1>5, RestoreKeeps
<1>6. CASE Finish
  BY <1>6, EndKeeps DEF Finish
<1>7. CASE Interrupt
  BY <1>7, InterruptKeeps
<1>8. CASE Kill
  BY <1>8, EndKeeps DEF Kill
<1>9. ASSUME NEW file \in Files, NEW n \in In(file), NEW count \in 0..2, Edit(file, n, count)
      PROVE  BInv'
  BY <1>9, EditKeeps
<1>10. CASE Commit
  BY <1>10, CommitKeeps
<1>11. CASE Checkout(UnderSrc) \/ Checkout(Files)
  BY <1>11, CheckoutKeeps DEF UnderSrc
<1>12. CASE DatabaseUpOrDown \/ UNCHANGED vars
  BY <1>12, DeveloperKeeps
     DEF DatabaseUpOrDown, vars, world, BInv, BreachesTypeOK, TreeOK
<1>13. QED
  BY <1>1, <1>2, <1>3, <1>4, <1>5, <1>6, <1>7, <1>8, <1>9, <1>10, <1>11, <1>12 DEF Next

LEMMA BInvHolds == Spec => []BInv
BY InitBInv, StepKeeps, PTL DEF Spec

-----------------------------------------------------------------------------
\* What the script reads as source has no breach planted in it: it starts from
\* a clean tree only, and plants in a clean tree only (plant_breaches.py,
\* _dirty and _run).
THEOREM SourceIsSource == Spec => []ABreachIsNeverTakenForSource
<1>1. BInv => ABreachIsNeverTakenForSource
  BY DEF BInv, OriginalOK, ABreachIsNeverTakenForSource
<1>2. QED
  BY <1>1, BInvHolds, PTL

\* No verdict and no Ctrl-C leaves a breach in the tree: the file is restored
\* on every way out of the try block but a kill, after which the script refuses
\* to run until the tree is clean.
THEOREM BreachesAreTakenBack == Spec => []OnlyAKillLeavesABreach
<1>1. BInv => OnlyAKillLeavesABreach
  BY DEF BInv, BreachesTypeOK, TreeOK, OnlyAKillLeavesABreach
<1>2. QED
  BY <1>1, BInvHolds, PTL

-----------------------------------------------------------------------------
\* The books of a run.  A breach whose turn is over is a hole, or was tried: its
\* tests noticed it or could not have passed; and a verdict of 1 that is still
\* to be judged stands for one that was.
Tried(n) == met[n] # None /\ (met[n].noticed \/ met[n].broken)

BooksOK ==
    /\ met = [n \in Numbers |-> met[n]]
    /\ pc # "idle" => exit = None /\ todo \subseteq selected
    /\ pc # "idle" => \A n \in selected \ todo : n \in holes \/ Tried(n)
    /\ pc = "restore" => code \in {None, 0, 1} /\ (code = 1 => Tried(Current))
    /\ pc = "idle" /\ exit = 0 => \A n \in selected : Tried(n)

LEMMA NoneIsNoCode == None # 0 /\ None # 1 /\ None # 2 /\ None # 130 /\ None # 137
BY BreachesAssumption

LEMMA InitBooks == Init => BooksOK
<1>. SUFFICES ASSUME Init PROVE BooksOK
  OBVIOUS
<1>1. pc = "idle" /\ exit = None /\ met = [n \in Numbers |-> None]
  BY DEF Init
<1>2. met = [n \in Numbers |-> met[n]]
  BY <1>1
<1>. QED  BY <1>1, <1>2, NoneIsNoCode DEF BooksOK

\* Whoever does not touch the script does not touch its books.
LEMMA BooksStand ==
    ASSUME BooksOK, UNCHANGED script PROVE BooksOK'
<1>1. Current' = Current /\ \A n : Tried(n)' <=> Tried(n)
  BY DEF script, Current, Tried
<1>. QED  BY <1>1 DEF script, BooksOK

LEMMA BooksAtAnEnd ==
    ASSUME BooksOK, NEW status, Exits(status), status # 0 PROVE BooksOK'
BY DEF BooksOK, Exits

LEMMA StartBooks ==
    ASSUME BooksOK, NEW only, Start(only) PROVE BooksOK'
<1>1. CASE Exits(2)
  BY <1>1, BooksAtAnEnd
<1>2. CASE Begins(only)
  <2>1. pc' = "next" /\ exit' = None /\ todo' = only /\ selected' = only
        /\ met' = [n \in Numbers |-> None]
    BY <1>2 DEF Begins
  <2>. QED  BY <2>1 DEF BooksOK
<1>. QED  BY <1>1, <1>2 DEF Start

LEMMA ReadBooks ==
    ASSUME BooksOK, Read PROVE BooksOK'
<1>1. pc = "next" /\ pc' \in {"next", "plant"} /\ UNCHANGED <<exit, selected, met>>
  BY DEF Read, BooksOK
<1>2. \/ todo' = todo /\ holes' = holes
      \/ todo' = todo \ {Current} /\ holes' = holes \cup {Current}
  BY DEF Read
<1>3. \A n : Tried(n)' <=> Tried(n)
  BY <1>1 DEF Tried
<1>. QED  BY <1>1, <1>2, <1>3 DEF BooksOK

\* The tests are run of a breach whose turn it is, so no other's book changes.
LEMMA RunTestsBooks ==
    ASSUME BInv, BooksOK, RunTests PROVE BooksOK'
<1>1. /\ pc = "test" /\ pc' = "restore"
      /\ UNCHANGED <<todo, holes, exit, selected>>
  BY DEF RunTests
<1>2. Current \in todo /\ Current \in Numbers /\ Current' = Current
  BY <1>1, CurrentIsTodo DEF BInv, BreachesTypeOK, OriginalOK, Current
<1>5. met' = [met EXCEPT ![Current] = [noticed |-> Noticed(Current), broken |-> Broken(Current)]]
  BY DEF RunTests
<1>6. \A n \in Numbers : n # Current => met'[n] = met[n]
  BY <1>5 DEF BooksOK
<1>7. met'[Current] = [noticed |-> Noticed(Current), broken |-> Broken(Current)]
  BY <1>2, <1>5 DEF BooksOK
<1>8. code' = IF Noticed(Current) \/ Broken(Current) THEN 1 ELSE 0
  BY DEF RunTests
<1>9. code' = 1 => Tried(Current)'
  <2>1. SUFFICES ASSUME code' = 1 PROVE met'[Current] # None /\ (met'[Current].noticed \/ met'[Current].broken)
    BY <1>2 DEF Tried
  <2>2. Noticed(Current) \/ Broken(Current)
    BY <1>8, <2>1
  <2>3. met'[Current].noticed \/ met'[Current].broken
    BY <1>7, <2>2
  <2>4. met'[Current] \in [noticed : BOOLEAN, broken : BOOLEAN]
    BY <1>7 DEF Noticed, Broken
  <2>. QED  BY <2>3, <2>4, BreachesAssumption
<1>10. \A n \in selected \ todo : n \in holes' \/ Tried(n)'
  BY <1>1, <1>2, <1>6 DEF BooksOK, Tried, BInv, BreachesTypeOK
<1>11. met' = [n \in Numbers |-> met'[n]]
  BY <1>5 DEF BooksOK
<1>. QED  BY <1>1, <1>8, <1>9, <1>10, <1>11 DEF BooksOK

\* A verdict of 0 makes a hole, a verdict of 1 stands for a breach that was tried.
LEMMA RestoreBooks ==
    ASSUME BInv, BooksOK, Restore PROVE BooksOK'
<1>1. CASE code = None
  <2>1. Exits(Interrupted)
    BY <1>1 DEF Restore
  <2>. QED  BY <2>1, BooksAtAnEnd DEF Interrupted
<1>2. CASE code # None
  <2>1. /\ pc = "restore" /\ pc' = "next" /\ todo' = todo \ {Current}
        /\ holes' = IF code = 0 THEN holes \cup {Current} ELSE holes
        /\ UNCHANGED <<exit, selected, met>>
    BY <1>2 DEF Restore
  <2>2. Current \in holes' \/ Tried(Current)
    BY <1>2, <2>1 DEF BooksOK
  <2>3. \A n : Tried(n)' <=> Tried(n)
    BY <2>1 DEF Tried
  <2>. QED  BY <2>1, <2>2, <2>3 DEF BooksOK
<1>. QED  BY <1>1, <1>2

\* 0 is reported when every turn is over and there is no hole.
LEMMA FinishBooks ==
    ASSUME BooksOK, Finish PROVE BooksOK'
<1>1. PICK status : Exits(status) /\ (status = 0 => holes = {}) /\ pc = "next" /\ todo = {}
  <2>1. Exits(IF Dirty THEN 2 ELSE IF holes # {} THEN 1 ELSE 0) /\ pc = "next" /\ todo = {}
    BY DEF Finish
  <2>. QED  BY <2>1
<1>2. pc' = "idle" /\ exit' = status /\ UNCHANGED <<selected, met>>
  BY <1>1 DEF Exits
<1>3. status = 0 => \A n \in selected : Tried(n)
  BY <1>1 DEF BooksOK
<1>. QED  BY <1>2, <1>3 DEF BooksOK, Tried

LEMMA InterruptBooks ==
    ASSUME BooksOK, Interrupt PROVE BooksOK'
<1>1. CASE pc = "test"
  <2>1. pc' = "restore" /\ code' = None /\ UNCHANGED <<todo, holes, exit, selected, met>>
    BY <1>1 DEF Interrupt, BooksOK
  <2>2. \A n : Tried(n)' <=> Tried(n)
    BY <2>1 DEF Tried
  <2>. QED  BY <1>1, <2>1, <2>2, NoneIsNoCode DEF BooksOK
<1>2. CASE pc # "test"
  <2>1. Exits(Interrupted)
    BY <1>2 DEF Interrupt
  <2>. QED  BY <2>1, BooksAtAnEnd DEF Interrupted
<1>. QED  BY <1>1, <1>2

LEMMA BooksStep ==
    ASSUME BInv, BooksOK, [Next]_vars PROVE BooksOK'
<1>1. ASSUME NEW only \in Selections, Start(only) PROVE BooksOK'
  BY <1>1, StartBooks
<1>2. CASE Read \/ RunTests \/ Restore \/ Finish \/ Interrupt
  BY <1>2, ReadBooks, RunTestsBooks, RestoreBooks, FinishBooks, InterruptBooks
<1>3. CASE Plant
  <2>1. pc = "plant" /\ pc' = "test" /\ UNCHANGED <<todo, holes, exit, selected, met>>
    BY <1>3 DEF Plant
  <2>2. \A n : Tried(n)' <=> Tried(n)
    BY <2>1 DEF Tried
  <2>. QED  BY <2>1, <2>2 DEF BooksOK
<1>4. CASE Kill
  <2>1. Exits(Killed)
    BY <1>4 DEF Kill
  <2>. QED  BY <2>1, BooksAtAnEnd DEF Killed
<1>5. CASE \/ \E file \in Files : \E n \in In(file), count \in 0..2 : Edit(file, n, count)
           \/ Commit \/ Checkout(UnderSrc) \/ Checkout(Files) \/ DatabaseUpOrDown
           \/ UNCHANGED vars
  <2>1. UNCHANGED script
    BY <1>5 DEF Edit, Commit, Checkout, DatabaseUpOrDown, vars
  <2>. QED  BY <2>1, BooksStand
<1>. QED  BY <1>1, <1>2, <1>3, <1>4, <1>5 DEF Next

\* When the script reports that every control is load-bearing, the tests of
\* every breach it was asked for were run, and each run noticed the breach or
\* could not have passed: none was skipped because its anchor had moved.
THEOREM ZeroMeansAll == Spec => []ZeroMeansEveryBreachWasTried
<1>1. Init => BInv /\ BooksOK
  BY InitBInv, InitBooks
<1>2. BInv /\ BooksOK /\ [Next]_vars => (BInv /\ BooksOK)'
  BY StepKeeps, BooksStep
<1>3. BooksOK => ZeroMeansEveryBreachWasTried
  BY NoneIsNoCode DEF BooksOK, Tried, ZeroMeansEveryBreachWasTried
<1>. QED  BY <1>1, <1>2, <1>3, PTL DEF Spec
===============================================================================
