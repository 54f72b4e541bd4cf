------------------------------ MODULE BootProofs ------------------------------
(***************************************************************************)
(* What the boots of a fleet leave in the database, for any number of      *)
(* containers, of processes that run create_all, and of crashes.           *)
(*                                                                         *)
(* Nothing is needed of what create_all has still to create: a table it    *)
(* commits is either unknown to the revisions or one that makes the        *)
(* upgrades that also create it fail.  What is needed of an upgrade is     *)
(* that it creates the whole of every revision it will stamp itself.       *)
(***************************************************************************)
EXTENDS Boot, SequenceTheorems, TLAPS

HeadTables == TablesUpTo(HeadRevision) \cup {VERSION_TABLE}

\* What a list of statements has still to create.
ToCreate(statements) ==
    {statements[k].what : k \in {k \in 1..Len(statements) : statements[k].op = "create"}}

Statements ==
    {Create(table) : table \in HeadTables} \cup {Stamp(r) : r \in 1..HeadRevision}

\* The plan of an upgrade: it ends on the head's stamp.
EndsAtHead(statements, r) ==
    IF statements = <<>> THEN r = HeadRevision
    ELSE statements[Len(statements)] = Stamp(HeadRevision)

\* An open transaction has what it has created apart from what is committed
\* and from what the others have created.
Apart ==
    /\ \A p \in Processes : mine[p] \cap tables = {}
    /\ \A p, q \in Processes : p # q => mine[p] \cap mine[q] = {}
    /\ \A p \in Processes : pc[p] # "migrating" => mine[p] = {}
    /\ unstamped \subseteq tables

\* Of what the head needs and is not committed, an upgrade has all done or
\* ahead of it, and the tables of an unstamped revision it creates itself.
UnderWay(i) ==
    /\ todo[i] \in Seq(Statements)
    /\ mine[i] \subseteq HeadTables
    /\ HeadTables \subseteq tables \cup mine[i] \cup ToCreate(todo[i])
    /\ \A r \in (revision + 1)..HeadRevision : TablesOf(r) \subseteq mine[i] \cup ToCreate(todo[i])
    /\ EndsAtHead(todo[i], stamp[i])

AtHead == revision = HeadRevision /\ HeadTables \subseteq tables

Shapes ==
    /\ pc \in [Processes -> {"down", "migrating", "migrated", "serving"}]
    /\ todo = [p \in Processes |-> todo[p]]
    /\ mine = [p \in Processes |-> mine[p]]
    /\ stamp = [p \in Processes |-> stamp[p]]
    /\ revision \in 0..HeadRevision

BootInv ==
    /\ Shapes
    /\ Apart
    /\ NeverHalfMigrated
    /\ \A i \in Instances :
          /\ pc[i] = "migrating" => UnderWay(i)
          /\ pc[i] \in {"migrated", "serving"} => AtHead

-----------------------------------------------------------------------------
\* The two revisions and their tables, spelled out.
LEMMA TheRevisions ==
    /\ HeadRevision = 2
    /\ REVISIONS[1] = <<"approval", "audit_event", "irreversible_effect">>
    /\ REVISIONS[2] = <<"rate_limit_counter">>
    /\ TablesOf(1) = {"approval", "audit_event", "irreversible_effect"}
    /\ TablesOf(2) = {"rate_limit_counter"}
    /\ TablesUpTo(0) = {}
    /\ TablesUpTo(1) = TablesOf(1)
    /\ TablesUpTo(2) = TablesOf(1) \cup TablesOf(2)
    /\ VERSION_TABLE \notin TablesOf(1) \cup TablesOf(2)
<1>1. HeadRevision = 2 /\ REVISIONS[1] = <<"approval", "audit_event", "irreversible_effect">>
        /\ REVISIONS[2] = <<"rate_limit_counter">>
  BY DEF HeadRevision, REVISIONS
<1>2. TablesOf(1) = {"approval", "audit_event", "irreversible_effect"}
  BY <1>1 DEF TablesOf, ToSet
<1>3. TablesOf(2) = {"rate_limit_counter"}
  BY <1>1 DEF TablesOf, ToSet
<1>4. TablesUpTo(0) = {} /\ TablesUpTo(1) = TablesOf(1) /\ TablesUpTo(2) = TablesOf(1) \cup TablesOf(2)
  <2>1. 1..0 = {} /\ 1..1 = {1} /\ 1..2 = {1, 2}
    OBVIOUS
  <2>. QED  BY <2>1 DEF TablesUpTo
<1>5. VERSION_TABLE \notin TablesOf(1) \cup TablesOf(2)
  BY <1>2, <1>3 DEF VERSION_TABLE
<1>. QED  BY <1>1, <1>2, <1>3, <1>4, <1>5

\* What is created is a table of the head's, and a stamp creates nothing.
LEMMA TheStatements ==
    /\ \A table \in HeadTables : Create(table) \in Statements
    /\ \A r \in 1..HeadRevision : Stamp(r) \in Statements
    /\ \A st \in Statements : st.op = "create" => st.what \in HeadTables /\ st = Create(st.what)
    /\ \A table : Create(table).op = "create" /\ Create(table).what = table
    /\ \A r : Stamp(r).op = "stamp" /\ Stamp(r).to = r
<1>1. \A table : Create(table).op = "create" /\ Create(table).what = table
  BY DEF Create
<1>2. \A r : Stamp(r).op = "stamp" /\ Stamp(r).to = r
  BY DEF Stamp
<1>3. ASSUME NEW st \in Statements, st.op = "create"
      PROVE  st.what \in HeadTables /\ st = Create(st.what)
  <2>1. ~ \E r \in 1..HeadRevision : st = Stamp(r)
    BY <1>2, <1>3
  <2>2. PICK table \in HeadTables : st = Create(table)
    BY <1>3, <2>1 DEF Statements
  <2>. QED  BY <1>1, <2>2
<1>4. (\A table \in HeadTables : Create(table) \in Statements) /\ \A r \in 1..HeadRevision : Stamp(r) \in Statements
  BY DEF Statements
<1>. QED  BY <1>1, <1>2, <1>3, <1>4

\* Statements that follow one another create what both create, and end as the
\* later ones end.
LEMMA OneAfterTheOther ==
    ASSUME NEW S, NEW s \in Seq(S), NEW t \in Seq(S)
    PROVE  /\ s \o t \in Seq(S)
           /\ ToCreate(s \o t) = ToCreate(s) \cup ToCreate(t)
           /\ t # <<>> => s \o t # <<>> /\ (s \o t)[Len(s \o t)] = t[Len(t)]
<1>1. s \o t \in Seq(S) /\ Len(s \o t) = Len(s) + Len(t) /\ Len(s) \in Nat /\ Len(t) \in Nat
  BY ConcatProperties, LenProperties
<1>2. \A k \in 1..Len(s) : k \in 1..Len(s \o t) /\ (s \o t)[k] = s[k]
  BY <1>1, ConcatProperties
<1>3. \A k \in 1..Len(t) : Len(s) + k \in 1..Len(s \o t) /\ (s \o t)[Len(s) + k] = t[k]
  BY <1>1, ConcatProperties
<1>4. ASSUME NEW k \in 1..Len(s \o t), k \notin 1..Len(s)
      PROVE  k - Len(s) \in 1..Len(t) /\ (s \o t)[k] = t[k - Len(s)]
  <2>1. k \in Nat /\ k > Len(s) /\ k <= Len(s) + Len(t)
    BY <1>1, <1>4
  <2>2. (s \o t)[k] = IF k <= Len(s) THEN s[k] ELSE t[k - Len(s)]
    BY <1>1, ConcatProperties
  <2>. QED  BY <1>1, <2>1, <2>2
<1>5. ToCreate(s) \cup ToCreate(t) \subseteq ToCreate(s \o t)
  <2>1. ToCreate(s) \subseteq ToCreate(s \o t)
    BY <1>2 DEF ToCreate
  <2>2. ToCreate(t) \subseteq ToCreate(s \o t)
    BY <1>3 DEF ToCreate
  <2>. QED  BY <2>1, <2>2
<1>6. ToCreate(s \o t) \subseteq ToCreate(s) \cup ToCreate(t)
  BY <1>2, <1>4 DEF ToCreate
<1>7. t # <<>> => s \o t # <<>> /\ (s \o t)[Len(s \o t)] = t[Len(t)]
  <2>1. SUFFICES ASSUME t # <<>> PROVE s \o t # <<>> /\ (s \o t)[Len(s \o t)] = t[Len(t)]
    OBVIOUS
  <2>2. Len(t) \in 1..Len(t)
    BY <2>1, <1>1, EmptySeq
  <2>3. Len(s \o t) # 0
    BY <2>2, <1>1
  <2>. QED  BY <2>2, <2>3, <1>1, <1>3
<1>. QED  BY <1>1, <1>5, <1>6, <1>7

\* One revision's upgrade creates its tables and stamps it.
LEMMA AnUpgrade ==
    ASSUME NEW r \in 1..HeadRevision
    PROVE  /\ Upgrade(r) \in Seq(Statements) /\ Upgrade(r) # <<>>
           /\ ToCreate(Upgrade(r)) = TablesOf(r)
           /\ Upgrade(r)[Len(Upgrade(r))] = Stamp(r)
<1>. DEFINE names == REVISIONS[r]
            made == Creates(names)
<1>1. r \in {1, 2} /\ names \in Seq(TablesOf(r)) /\ TablesOf(r) \subseteq HeadTables
        /\ TablesOf(r) = {names[k] : k \in 1..Len(names)}
  <2>1. r \in {1, 2}
    BY TheRevisions
  <2>2. TablesOf(r) = {names[k] : k \in DOMAIN names}
    BY DEF TablesOf, ToSet
  <2>3. CASE r = 1
    <3>1. names = <<"approval", "audit_event", "irreversible_effect">>
      BY <2>3, TheRevisions
    <3>2. names \in Seq(TablesOf(r)) /\ DOMAIN names = 1..Len(names)
      BY <3>1, <2>3, TheRevisions
    <3>. QED  BY <2>1, <2>2, <2>3, <3>2, TheRevisions DEF HeadTables
  <2>4. CASE r = 2
    <3>1. names = <<"rate_limit_counter">>
      BY <2>4, TheRevisions
    <3>2. names \in Seq(TablesOf(r)) /\ DOMAIN names = 1..Len(names)
      BY <3>1, <2>4, TheRevisions
    <3>. QED  BY <2>1, <2>2, <2>4, <3>2, TheRevisions DEF HeadTables
  <2>. QED  BY <2>1, <2>3, <2>4
<1>. HIDE DEF names
<1>2. Len(names) \in Nat /\ DOMAIN names = 1..Len(names)
  BY <1>1, LenProperties
<1>3. made = [k \in 1..Len(names) |-> Create(names[k])]
  BY <1>2 DEF Creates
<1>4. \A k \in 1..Len(names) : names[k] \in HeadTables
  BY <1>1, <1>2
<1>5. made \in Seq(Statements) /\ Len(made) = Len(names)
  <2>1. made \in [1..Len(names) -> Statements]
    BY <1>3, <1>4, TheStatements
  <2>. QED  BY <2>1, <1>2, <1>3, LenProperties
<1>. HIDE DEF made
<1>6. Upgrade(r) = Append(made, Stamp(r)) /\ Stamp(r) \in Statements
  BY TheStatements DEF Upgrade, made, names
<1>7. /\ Upgrade(r) \in Seq(Statements) /\ Len(Upgrade(r)) = Len(names) + 1
      /\ \A k \in 1..Len(names) : Upgrade(r)[k] = Create(names[k])
      /\ Upgrade(r)[Len(names) + 1] = Stamp(r)
  <2>1. /\ Append(made, Stamp(r)) \in Seq(Statements)
        /\ Len(Append(made, Stamp(r))) = Len(made) + 1
        /\ \A k \in 1..Len(made) : Append(made, Stamp(r))[k] = made[k]
        /\ Append(made, Stamp(r))[Len(made) + 1] = Stamp(r)
    BY <1>5, <1>6, AppendProperties
  <2>. QED  BY <2>1, <1>3, <1>5, <1>6
<1>8. ToCreate(Upgrade(r)) = TablesOf(r)
  <2>1. \A k \in 1..Len(names) : k \in 1..Len(Upgrade(r)) /\ Upgrade(r)[k].op = "create"
                                   /\ Upgrade(r)[k].what = names[k]
    BY <1>2, <1>7, TheStatements
  <2>2. \A k \in 1..Len(Upgrade(r)) : Upgrade(r)[k].op = "create" => k \in 1..Len(names)
    BY <1>2, <1>7, TheStatements
  <2>3. ToCreate(Upgrade(r)) \subseteq TablesOf(r)
    BY <1>1, <2>1, <2>2 DEF ToCreate
  <2>4. TablesOf(r) \subseteq ToCreate(Upgrade(r))
    <3>1. SUFFICES ASSUME NEW k \in 1..Len(names)
                   PROVE  names[k] \in ToCreate(Upgrade(r))
      BY <1>1
    <3>2. QED
      BY <2>1 DEF ToCreate
  <2>. QED  BY <2>3, <2>4
<1>. QED  BY <1>2, <1>7, <1>8, EmptySeq

\* From whatever revision it finds, `alembic upgrade head` has planned every
\* table of the later ones, and the version table when there is none.
LEMMA ThePlan ==
    ASSUME NEW r \in 0..HeadRevision
    PROVE  /\ UpgradeHead(r) \in Seq(Statements)
           /\ \A q \in (r + 1)..HeadRevision : TablesOf(q) \subseteq ToCreate(UpgradeHead(r))
           /\ r = 0 => VERSION_TABLE \in ToCreate(UpgradeHead(r))
           /\ EndsAtHead(UpgradeHead(r), r)
<1>1. r \in {0, 1, 2} /\ HeadRevision = 2
  BY TheRevisions
<1>2. CASE r = 0
  <2>. DEFINE first == <<Create(VERSION_TABLE)>>
              both == first \o Upgrade(1)
  <2>1. first \in Seq(Statements) /\ ToCreate(first) = {VERSION_TABLE}
    <3>1. first \in Seq(Statements) /\ Len(first) = 1 /\ first[1] = Create(VERSION_TABLE)
      BY TheStatements DEF HeadTables
    <3>. QED  BY <3>1, TheStatements DEF ToCreate
  <2>2. /\ Upgrade(1) \in Seq(Statements) /\ ToCreate(Upgrade(1)) = TablesOf(1)
        /\ Upgrade(2) \in Seq(Statements) /\ ToCreate(Upgrade(2)) = TablesOf(2)
        /\ Upgrade(2) # <<>> /\ Upgrade(2)[Len(Upgrade(2))] = Stamp(2)
    BY <1>1, AnUpgrade
  <2>3. UpgradeHead(0) = both \o Upgrade(2)
    BY <1>1 DEF UpgradeHead
  <2>. HIDE DEF first
  <2>4. both \in Seq(Statements) /\ ToCreate(both) = ToCreate(first) \cup TablesOf(1)
    BY <2>1, <2>2, OneAfterTheOther
  <2>. HIDE DEF both
  <2>. DEFINE whole == both \o Upgrade(2)
  <2>5. /\ whole \in Seq(Statements)
        /\ ToCreate(whole) = ToCreate(both) \cup TablesOf(2)
        /\ whole # <<>> /\ whole[Len(whole)] = Stamp(2)
    <3>1. /\ whole \in Seq(Statements)
          /\ ToCreate(whole) = ToCreate(both) \cup ToCreate(Upgrade(2))
      BY <2>2, <2>4, OneAfterTheOther
    <3>2. whole # <<>> /\ whole[Len(whole)] = Upgrade(2)[Len(Upgrade(2))]
      BY <2>2, <2>4, OneAfterTheOther, Zenon
    <3>. QED  BY <3>1, <3>2, <2>2
  <2>. HIDE DEF whole
  <2>6. \A q \in 1..2 : q \in {1, 2}
    OBVIOUS
  <2>7. whole = UpgradeHead(r) /\ r + 1 = 1
    BY <1>2, <2>3 DEF whole
  <2>8. EndsAtHead(whole, r)
    BY <1>1, <2>5 DEF EndsAtHead
  <2>9. \A q \in 1..2 : TablesOf(q) \subseteq ToCreate(whole)
    BY <2>1, <2>4, <2>5, <2>6
  <2>10. VERSION_TABLE \in ToCreate(whole)
    BY <2>1, <2>4, <2>5
  <2>. QED  BY <1>1, <2>5, <2>7, <2>8, <2>9, <2>10
<1>3. CASE r = 1
  <2>1. UpgradeHead(1) = Upgrade(2) /\ \A q \in 2..2 : q = 2
    BY <1>1 DEF UpgradeHead
  <2>2. /\ Upgrade(2) \in Seq(Statements) /\ ToCreate(Upgrade(2)) = TablesOf(2)
        /\ Upgrade(2) # <<>> /\ Upgrade(2)[Len(Upgrade(2))] = Stamp(2)
    BY <1>1, AnUpgrade
  <2>. QED  BY <1>1, <1>3, <2>1, <2>2 DEF EndsAtHead
<1>4. CASE r = 2
  <2>1. UpgradeHead(2) = <<>> /\ \A q \in 3..2 : FALSE
    BY <1>1 DEF UpgradeHead
  <2>2. <<>> \in Seq(Statements)
    BY EmptySeq
  <2>3. EndsAtHead(UpgradeHead(r), r)
    BY <1>1, <1>4, <2>1 DEF EndsAtHead
  <2>4. \A q \in (r + 1)..HeadRevision : TablesOf(q) \subseteq ToCreate(UpgradeHead(r))
    BY <1>1, <1>4, <2>1
  <2>5. UpgradeHead(r) \in Seq(Statements)
    BY <1>4, <2>1, <2>2, Zenon
  <2>. QED  BY <1>4, <2>3, <2>4, <2>5
<1>. QED  BY <1>1, <1>2, <1>3, <1>4

-----------------------------------------------------------------------------
LEMMA BootInit == Init => BootInv
<1>. SUFFICES ASSUME Init PROVE BootInv
  OBVIOUS
<1>1. Shapes
  BY DEF Init, Shapes
<1>2. Apart
  BY DEF Init, Apart
<1>3. NeverHalfMigrated
  BY DEF Init, NeverHalfMigrated
<1>4. \A i \in Instances : pc[i] = "down"
  BY DEF Init, Processes
<1>. QED  BY <1>1, <1>2, <1>3, <1>4 DEF BootInv

\* The revisions to come are fewer the later the stamped one is.
LEMMA ThoseToCome ==
    ASSUME NEW now \in 0..HeadRevision, NEW later \in now..HeadRevision
    PROVE  \A r \in (later + 1)..HeadRevision : r \in (now + 1)..HeadRevision
  BY TheRevisions

\* What a process that does nothing keeps while another creates a table of its
\* own, or commits.
LEMMA TheOthersGoOn ==
    ASSUME BootInv, NEW i \in Instances, pc[i] = "migrating",
           todo'[i] = todo[i], mine'[i] = mine[i], stamp'[i] = stamp[i],
           tables \subseteq tables', revision' \in revision..HeadRevision
    PROVE  UnderWay(i)'
<1>1. UnderWay(i) /\ revision \in 0..HeadRevision
  BY DEF BootInv, Shapes
<1>2. PICK now : now = revision' /\ now \in revision..HeadRevision
  OBVIOUS
<1>3. \A r \in (now + 1)..HeadRevision : r \in (revision + 1)..HeadRevision
  BY <1>1, <1>2, ThoseToCome
<1>. QED  BY <1>1, <1>2, <1>3 DEF UnderWay

\* What a process goes on from: rolled back, it holds nothing.
LEMMA SomeEnd ==
    ASSUME BootInv, NEW procs \in SUBSET Processes, Ends(procs), UNCHANGED schema
    PROVE  BootInv'
<1>1. /\ \A p \in Processes : p \in procs => pc'[p] = "down" /\ mine'[p] = {}
      /\ \A p \in Processes : p \notin procs => pc'[p] = pc[p] /\ mine'[p] = mine[p]
                                  /\ todo'[p] = todo[p] /\ stamp'[p] = stamp[p]
  BY DEF Ends
<1>2. UNCHANGED <<tables, revision, unstamped>>
  BY DEF schema
<1>3. Shapes'
  BY <1>2 DEF BootInv, Shapes, Ends
<1>4. Apart'
  BY <1>1, <1>2 DEF BootInv, Apart
<1>5. NeverHalfMigrated'
  BY <1>2 DEF BootInv, NeverHalfMigrated
<1>6. ASSUME NEW i \in Instances, pc'[i] = "migrating" PROVE UnderWay(i)'
  <2>1. i \in Processes /\ i \notin procs
    BY <1>1, <1>6 DEF Processes
  <2>2. revision' \in revision..HeadRevision
    BY <1>2, TheRevisions DEF BootInv, Shapes
  <2>. QED  BY <1>1, <1>2, <1>6, <2>1, <2>2, TheOthersGoOn
<1>7. ASSUME NEW i \in Instances, pc'[i] \in {"migrated", "serving"} PROVE AtHead'
  <2>1. i \in Processes /\ i \notin procs
    BY <1>1, <1>7 DEF Processes
  <2>. QED  BY <1>1, <1>2, <1>7, <2>1 DEF BootInv, AtHead
<1>. QED  BY <1>3, <1>4, <1>5, <1>6, <1>7 DEF BootInv

\* An upgrade begins with its plan for the revision that is stamped.
LEMMA ABoot ==
    ASSUME BootInv, NEW i \in Instances, Boot(i)
    PROVE  BootInv'
<1>1. /\ pc[i] = "down" /\ i \in Processes
      /\ pc' = [pc EXCEPT ![i] = "migrating"]
      /\ todo' = [todo EXCEPT ![i] = UpgradeHead(revision)]
      /\ stamp' = [stamp EXCEPT ![i] = revision]
      /\ UNCHANGED <<mine, tables, revision, unstamped>>
  BY DEF Boot, Begins, schema, Processes
<1>2. Shapes /\ revision \in 0..HeadRevision /\ NeverHalfMigrated /\ unstamped \subseteq tables
  BY DEF BootInv, Shapes, Apart
<1>3. Shapes'
  BY <1>1, <1>2 DEF Shapes
<1>4. Apart' /\ NeverHalfMigrated'
  BY <1>1 DEF BootInv, Apart, NeverHalfMigrated
<1>5. todo'[i] = UpgradeHead(revision) /\ stamp'[i] = revision /\ mine[i] = {}
  BY <1>1, <1>2 DEF Shapes, BootInv, Apart
<1>6. UnderWay(i)'
  <2>1. /\ UpgradeHead(revision) \in Seq(Statements)
        /\ EndsAtHead(UpgradeHead(revision), revision)
        /\ \A r \in (revision + 1)..HeadRevision : TablesOf(r) \subseteq ToCreate(UpgradeHead(revision))
        /\ revision = 0 => VERSION_TABLE \in ToCreate(UpgradeHead(revision))
    BY <1>2, ThePlan
  <2>2. HeadTables \subseteq tables \cup ToCreate(UpgradeHead(revision))
    <3>1. TablesUpTo(revision) \subseteq tables /\ (revision # 0 => VERSION_TABLE \in tables)
      BY <1>2 DEF NeverHalfMigrated
    <3>2. \A q \in 1..HeadRevision : q \in 1..revision \/ q \in (revision + 1)..HeadRevision
      BY <1>2, TheRevisions
    <3>3. \A q \in 1..revision : TablesOf(q) \subseteq tables
      BY <3>1 DEF TablesUpTo
    <3>. QED  BY <2>1, <3>1, <3>2, <3>3 DEF HeadTables, TablesUpTo
  <2>. QED  BY <1>1, <1>5, <2>1, <2>2 DEF UnderWay
<1>7. ASSUME NEW j \in Instances, j # i, pc'[j] = "migrating" PROVE UnderWay(j)'
  <2>1. pc[j] = "migrating" /\ todo'[j] = todo[j] /\ stamp'[j] = stamp[j] /\ mine'[j] = mine[j]
    BY <1>1, <1>2, <1>7 DEF Shapes, Processes
  <2>2. revision' \in revision..HeadRevision
    BY <1>1, <1>2, TheRevisions
  <2>. QED  BY <1>1, <2>1, <2>2, TheOthersGoOn
<1>8. ASSUME NEW j \in Instances, pc'[j] \in {"migrated", "serving"} PROVE AtHead'
  <2>1. pc[j] = pc'[j]
    BY <1>1, <1>2, <1>8 DEF Shapes, Processes
  <2>. QED  BY <1>1, <1>8, <2>1 DEF BootInv, AtHead
<1>. QED  BY <1>3, <1>4, <1>6, <1>7, <1>8 DEF BootInv

\* create_all begins with whatever it finds missing.
LEMMA ACreateAll ==
    ASSUME BootInv, NEW l \in Labs, CreateAll(l)
    PROVE  BootInv'
<1>1. /\ pc[l] = "down" /\ l \in Processes /\ l \notin Instances
      /\ pc' = [pc EXCEPT ![l] = "migrating"]
      /\ \E list : todo' = [todo EXCEPT ![l] = list]
      /\ stamp' = [stamp EXCEPT ![l] = revision]
      /\ UNCHANGED <<mine, tables, revision, unstamped>>
  BY BootAssumption DEF CreateAll, Begins, schema, Processes
<1>2. Shapes
  BY DEF BootInv
<1>3. Shapes'
  BY <1>1, <1>2 DEF Shapes
<1>4. Apart' /\ NeverHalfMigrated'
  BY <1>1, <1>2 DEF BootInv, Apart, NeverHalfMigrated, Shapes
<1>5. \A j \in Instances : pc'[j] = pc[j] /\ todo'[j] = todo[j] /\ stamp'[j] = stamp[j] /\ mine'[j] = mine[j]
  BY <1>1, <1>2 DEF Shapes, Processes
<1>6. revision' \in revision..HeadRevision
  BY <1>1, <1>2, TheRevisions DEF Shapes
<1>7. \A j \in Instances : pc'[j] = "migrating" => UnderWay(j)'
  BY <1>1, <1>5, <1>6, TheOthersGoOn
<1>8. \A j \in Instances : pc'[j] \in {"migrated", "serving"} => AtHead'
  BY <1>1, <1>5 DEF BootInv, AtHead
<1>. QED  BY <1>3, <1>4, <1>7, <1>8 DEF BootInv

\* The list without its first statement: what is to be created is that one, if
\* it creates, and the rest.
LEMMA TheRest ==
    ASSUME NEW list \in Seq(Statements), list # <<>>
    PROVE  /\ Head(list) \in Statements /\ Tail(list) \in Seq(Statements)
           /\ ToCreate(list) \subseteq ToCreate(Tail(list)) \cup
                  (IF Head(list).op = "create" THEN {Head(list).what} ELSE {})
           /\ Tail(list) = <<>> => Head(list) = list[Len(list)]
           /\ Tail(list) # <<>> => Tail(list)[Len(Tail(list))] = list[Len(list)]
<1>1. /\ Head(list) \in Statements /\ Tail(list) \in Seq(Statements)
      /\ Len(Tail(list)) = Len(list) - 1
      /\ \A k \in 1..Len(Tail(list)) : Tail(list)[k] = list[k + 1]
  BY HeadTailProperties
<1>2. Len(list) \in Nat \ {0} /\ Head(list) = list[1]
  BY EmptySeq
<1>3. ASSUME NEW k \in 1..Len(list), k # 1
      PROVE  k - 1 \in 1..Len(Tail(list)) /\ Tail(list)[k - 1] = list[k]
  BY <1>1, <1>2, <1>3
<1>4. ToCreate(list) \subseteq ToCreate(Tail(list)) \cup
                  (IF Head(list).op = "create" THEN {Head(list).what} ELSE {})
  BY <1>2, <1>3 DEF ToCreate
<1>5. Tail(list) = <<>> => Head(list) = list[Len(list)]
  <2>1. Tail(list) = <<>> => Len(Tail(list)) = 0
    BY EmptySeq
  <2>. QED  BY <1>1, <1>2, <2>1
<1>6. Tail(list) # <<>> => Tail(list)[Len(Tail(list))] = list[Len(list)]
  <2>1. Tail(list) # <<>> => Len(Tail(list)) \in Nat \ {0}
    BY <1>1, EmptySeq
  <2>. QED  BY <1>1, <1>2, <2>1
<1>. QED  BY <1>1, <1>4, <1>5, <1>6

-----------------------------------------------------------------------------
\* A table that is created: the statement names a table of the head, nobody
\* else has created it, and it is not committed unless it is the version table.
LEMMA ACreation ==
    ASSUME BootInv, NEW p \in Processes, CreateTable(p)
    PROVE  BootInv'
<1>. DEFINE table == Statement(p).what
<1>1. /\ pc[p] = "migrating" /\ todo[p] # <<>> /\ Statement(p).op = "create"
      /\ \A q \in Processes : q # p => table \notin mine[q]
      /\ UNCHANGED <<tables, revision, unstamped, schema>>
  BY DEF CreateTable, Waits, schema
<1>2. CASE table \in tables \ {VERSION_TABLE}
  <2>1. Ends({p}) /\ UNCHANGED schema
    BY <1>1, <1>2 DEF CreateTable, Fails
  <2>. QED  BY <2>1, SomeEnd
<1>3. CASE table \notin tables \ {VERSION_TABLE}
  <2>1. /\ todo' = [todo EXCEPT ![p] = Tail(todo[p])]
        /\ mine' = [mine EXCEPT ![p] = mine[p] \cup ({table} \ tables)]
        /\ UNCHANGED <<pc, stamp>>
    BY <1>3 DEF CreateTable
  <2>2. Shapes /\ revision \in 0..HeadRevision
    BY DEF BootInv, Shapes
  <2>3. /\ todo'[p] = Tail(todo[p]) /\ mine'[p] = mine[p] \cup ({table} \ tables)
        /\ \A q \in Processes : q # p => todo'[q] = todo[q] /\ mine'[q] = mine[q]
    BY <2>1, <2>2 DEF Shapes
  <2>. HIDE DEF table
  <2>4. Shapes'
    BY <1>1, <2>1, <2>2 DEF Shapes
  <2>5. Apart'
    BY <1>1, <2>1, <2>3 DEF BootInv, Apart
  <2>6. NeverHalfMigrated'
    BY <1>1 DEF BootInv, NeverHalfMigrated
  <2>7. ASSUME p \in Instances PROVE UnderWay(p)'
    <3>1. UnderWay(p) /\ Head(todo[p]) = Statement(p)
      BY <1>1, <2>7 DEF BootInv, Statement
    <3>2. /\ Statement(p) \in Statements /\ Tail(todo[p]) \in Seq(Statements)
          /\ ToCreate(todo[p]) \subseteq ToCreate(Tail(todo[p])) \cup {table}
          /\ Tail(todo[p]) = <<>> => Statement(p) = todo[p][Len(todo[p])]
          /\ Tail(todo[p]) # <<>> => Tail(todo[p])[Len(Tail(todo[p]))] = todo[p][Len(todo[p])]
      BY <1>1, <3>1, TheRest DEF UnderWay, table
    <3>3. table \in HeadTables
      BY <1>1, <3>2, TheStatements DEF table
    <3>4. Tail(todo[p]) # <<>>
      BY <1>1, <3>1, <3>2, TheStatements DEF UnderWay, EndsAtHead
    <3>5. EndsAtHead(Tail(todo[p]), stamp[p])
      BY <1>1, <3>1, <3>2, <3>4 DEF UnderWay, EndsAtHead
    <3>6. HeadTables \subseteq tables \cup mine'[p] \cup ToCreate(Tail(todo[p]))
      BY <2>3, <3>1, <3>2 DEF UnderWay
    <3>7. ASSUME NEW r \in (revision + 1)..HeadRevision
          PROVE  TablesOf(r) \subseteq mine'[p] \cup ToCreate(Tail(todo[p]))
      <4>1. VERSION_TABLE \notin TablesOf(r)
        <5>1. r = 1 \/ r = 2
          BY <2>2, TheRevisions
        <5>. QED  BY <5>1, TheRevisions
      <4>2. TablesOf(r) \subseteq mine[p] \cup ToCreate(todo[p])
        BY <3>1 DEF UnderWay
      <4>. QED  BY <1>3, <2>3, <3>2, <4>1, <4>2
    <3>. QED  BY <1>1, <2>1, <2>3, <3>1, <3>2, <3>3, <3>5, <3>6, <3>7 DEF UnderWay
  <2>8. ASSUME NEW j \in Instances, j # p, pc'[j] = "migrating" PROVE UnderWay(j)'
    <3>1. j \in Processes /\ revision' \in revision..HeadRevision
      BY <1>1, <2>2, TheRevisions DEF Processes
    <3>. QED  BY <1>1, <2>1, <2>3, <2>8, <3>1, TheOthersGoOn
  <2>9. \A j \in Instances : pc'[j] \in {"migrated", "serving"} => AtHead'
    BY <1>1, <2>1 DEF BootInv, AtHead
  <2>. QED  BY <2>4, <2>5, <2>6, <2>7, <2>8, <2>9 DEF BootInv
<1>. QED  BY <1>2, <1>3

LEMMA AStamp ==
    ASSUME BootInv, NEW p \in Processes, StampRevision(p)
    PROVE  BootInv'
<1>1. /\ pc[p] = "migrating" /\ todo[p] # <<>> /\ Statement(p).op = "stamp"
      /\ todo' = [todo EXCEPT ![p] = Tail(todo[p])]
      /\ stamp' = [stamp EXCEPT ![p] = Statement(p).to]
      /\ UNCHANGED <<pc, mine, tables, revision, unstamped>>
  BY DEF StampRevision, schema
<1>2. Shapes /\ revision \in 0..HeadRevision
  BY DEF BootInv, Shapes
<1>3. /\ todo'[p] = Tail(todo[p]) /\ stamp'[p] = Statement(p).to
      /\ \A q \in Processes : q # p => todo'[q] = todo[q] /\ stamp'[q] = stamp[q]
  BY <1>1, <1>2 DEF Shapes
<1>4. Shapes'
  BY <1>1, <1>2 DEF Shapes
<1>5. Apart' /\ NeverHalfMigrated'
  BY <1>1 DEF BootInv, Apart, NeverHalfMigrated
<1>6. ASSUME p \in Instances PROVE UnderWay(p)'
  <2>1. UnderWay(p) /\ Head(todo[p]) = Statement(p)
    BY <1>1, <1>6 DEF BootInv, Statement
  <2>2. /\ Statement(p) \in Statements /\ Tail(todo[p]) \in Seq(Statements)
        /\ ToCreate(todo[p]) \subseteq ToCreate(Tail(todo[p]))
        /\ Tail(todo[p]) = <<>> => Statement(p) = todo[p][Len(todo[p])]
        /\ Tail(todo[p]) # <<>> => Tail(todo[p])[Len(Tail(todo[p]))] = todo[p][Len(todo[p])]
    BY <1>1, <2>1, TheRest DEF UnderWay
  <2>3. EndsAtHead(Tail(todo[p]), Statement(p).to)
    BY <1>1, <2>1, <2>2, TheStatements DEF UnderWay, EndsAtHead
  <2>. QED  BY <1>1, <1>3, <2>1, <2>2, <2>3 DEF UnderWay
<1>7. ASSUME NEW j \in Instances, j # p, pc'[j] = "migrating" PROVE UnderWay(j)'
  <2>1. j \in Processes /\ revision' \in revision..HeadRevision
    BY <1>1, <1>2, TheRevisions DEF Processes
  <2>. QED  BY <1>1, <1>3, <1>7, <2>1, TheOthersGoOn
<1>8. \A j \in Instances : pc'[j] \in {"migrated", "serving"} => AtHead'
  BY <1>1 DEF BootInv, AtHead
<1>. QED  BY <1>4, <1>5, <1>6, <1>7, <1>8 DEF BootInv

\* An upgrade that commits has the whole of what the head needs, and creates
\* itself every table of a revision that was not stamped.
LEMMA AnUpgradeCommits ==
    ASSUME BootInv, NEW p \in Instances, Commit(p)
    PROVE  /\ p \in Processes /\ p \notin Labs
           /\ revision' = HeadRevision /\ unstamped' = unstamped
           /\ tables' = tables \cup mine[p]
           /\ mine[p] \subseteq HeadTables /\ HeadTables \subseteq tables'
           /\ \A r \in (revision + 1)..HeadRevision : TablesOf(r) \cap tables = {}
           /\ pc' = [pc EXCEPT ![p] = "migrated"]
<1>1. /\ pc[p] = "migrating" /\ todo[p] = <<>> /\ p \in Processes /\ p \notin Labs
      /\ tables' = tables \cup mine[p] /\ revision' = stamp[p] /\ unstamped' = unstamped
      /\ pc' = [pc EXCEPT ![p] = "migrated"]
  BY BootAssumption DEF Commit, Processes
<1>2. UnderWay(p) /\ Apart
  BY <1>1 DEF BootInv
<1>3. ToCreate(todo[p]) = {}
  <2>1. Len(todo[p]) = 0
    BY <1>1, EmptySeq
  <2>. QED  BY <2>1 DEF ToCreate
<1>4. stamp[p] = HeadRevision
  BY <1>1, <1>2 DEF UnderWay, EndsAtHead
<1>5. mine[p] \subseteq HeadTables /\ HeadTables \subseteq tables'
  BY <1>1, <1>2, <1>3 DEF UnderWay
<1>6. \A r \in (revision + 1)..HeadRevision : TablesOf(r) \cap tables = {}
  BY <1>1, <1>2, <1>3 DEF UnderWay, Apart
<1>. QED  BY <1>1, <1>4, <1>5, <1>6

LEMMA ACommit ==
    ASSUME BootInv, NEW p \in Processes, Commit(p)
    PROVE  BootInv'
<1>1. /\ pc[p] = "migrating"
      /\ tables' = tables \cup mine[p]
      /\ mine' = [mine EXCEPT ![p] = {}]
      /\ stamp' = [stamp EXCEPT ![p] = 0]
      /\ todo' = todo
      /\ \/ pc' = [pc EXCEPT ![p] = "migrated"]
         \/ pc' = [pc EXCEPT ![p] = "down"]
  BY DEF Commit
<1>2. Shapes /\ Apart /\ NeverHalfMigrated /\ revision \in 0..HeadRevision
  BY DEF BootInv, Shapes
<1>3. /\ mine'[p] = {} /\ pc'[p] \in {"migrated", "down"}
      /\ \A q \in Processes : q # p => mine'[q] = mine[q] /\ stamp'[q] = stamp[q] /\ pc'[q] = pc[q]
  BY <1>1, <1>2 DEF Shapes
<1>4. \/ /\ p \in Instances /\ revision' = HeadRevision /\ unstamped' = unstamped
         /\ mine[p] \subseteq HeadTables /\ HeadTables \subseteq tables'
      \/ /\ p \notin Instances /\ revision' = revision /\ unstamped' = unstamped \cup mine[p]
  BY AnUpgradeCommits, BootAssumption DEF Commit
<1>5. revision' \in revision..HeadRevision /\ revision' \in 0..HeadRevision
  BY <1>2, <1>4, TheRevisions
<1>6. Shapes'
  BY <1>1, <1>2, <1>5 DEF Shapes
<1>7. Apart'
  <2>1. unstamped' \subseteq tables'
    BY <1>1, <1>2, <1>4 DEF Apart
  <2>. QED  BY <1>1, <1>2, <1>3, <2>1 DEF Apart
<1>8. NeverHalfMigrated'
  <2>1. CASE p \in Instances
    <3>1. tables \subseteq HeadTables \cup unstamped
      <4>1. TablesUpTo(revision) \subseteq HeadTables
        BY <1>2, TheRevisions DEF HeadTables, TablesUpTo
      <4>. QED  BY <1>2, <4>1 DEF NeverHalfMigrated, HeadTables
    <3>2. tables' \ unstamped' = HeadTables \ unstamped'
      BY <1>1, <1>4, <2>1, <3>1
    <3>3. HeadTables = TablesUpTo(revision') \cup (IF revision' = 0 THEN {} ELSE {VERSION_TABLE})
      BY <1>4, <2>1, TheRevisions DEF HeadTables
    <3>. QED  BY <3>2, <3>3 DEF NeverHalfMigrated
  <2>2. CASE p \notin Instances
    <3>1. revision' = revision /\ unstamped' = unstamped \cup mine[p]
      BY <1>4, <2>2
    <3>2. tables' \ unstamped' = (tables \ unstamped) \ mine[p]
      BY <1>1, <3>1
    <3>. QED  BY <1>2, <3>1, <3>2 DEF NeverHalfMigrated
  <2>. QED  BY <2>1, <2>2
<1>9. ASSUME NEW j \in Instances, pc'[j] = "migrating" PROVE UnderWay(j)'
  <2>1. j \in Processes /\ j # p
    BY <1>3, <1>9 DEF Processes
  <2>2. pc[j] = "migrating" /\ todo'[j] = todo[j] /\ mine'[j] = mine[j] /\ stamp'[j] = stamp[j]
    BY <1>1, <1>3, <1>9, <2>1
  <2>3. tables \subseteq tables'
    BY <1>1
  <2>. QED  BY <1>5, <2>2, <2>3, TheOthersGoOn
<1>10. ASSUME NEW j \in Instances, pc'[j] \in {"migrated", "serving"} PROVE AtHead'
  <2>1. CASE p \in Instances
    BY <1>4, <2>1 DEF AtHead
  <2>2. CASE p \notin Instances
    <3>1. pc[j] = pc'[j]
      BY <1>3, <2>2 DEF Processes
    <3>. QED  BY <1>1, <1>4, <1>10, <2>2, <3>1 DEF BootInv, AtHead
  <2>. QED  BY <2>1, <2>2
<1>. QED  BY <1>6, <1>7, <1>8, <1>9, <1>10 DEF BootInv

LEMMA AServe ==
    ASSUME BootInv, NEW i \in Instances, Serve(i)
    PROVE  BootInv'
<1>1. /\ pc[i] = "migrated" /\ pc' = [pc EXCEPT ![i] = "serving"] /\ i \in Processes
      /\ UNCHANGED <<todo, mine, stamp, tables, revision, unstamped>>
  BY DEF Serve, schema, Processes
<1>2. Shapes /\ Apart /\ revision \in 0..HeadRevision
  BY DEF BootInv, Shapes
<1>3. Shapes' /\ NeverHalfMigrated'
  BY <1>1, <1>2 DEF Shapes, BootInv, NeverHalfMigrated
<1>4. Apart'
  BY <1>1, <1>2 DEF Apart, Shapes
<1>5. ASSUME NEW j \in Instances, pc'[j] = "migrating" PROVE UnderWay(j)'
  <2>1. pc[j] = "migrating" /\ revision' \in revision..HeadRevision
    BY <1>1, <1>2, <1>5, TheRevisions DEF Shapes, Processes
  <2>. QED  BY <1>1, <2>1, TheOthersGoOn
<1>6. ASSUME NEW j \in Instances, pc'[j] \in {"migrated", "serving"} PROVE AtHead'
  <2>1. pc[j] \in {"migrated", "serving"}
    BY <1>1, <1>2, <1>6 DEF Shapes, Processes
  <2>. QED  BY <1>1, <2>1 DEF BootInv, AtHead
<1>. QED  BY <1>3, <1>4, <1>5, <1>6 DEF BootInv

\* Nothing the invariant speaks of changes.
LEMMA NothingMoves ==
    ASSUME BootInv, UNCHANGED <<schema, processes>>
    PROVE  BootInv'
<1>1. UNCHANGED <<tables, revision, unstamped, pc, todo, mine, stamp>>
  BY DEF schema, processes
<1>2. Shapes' /\ Apart' /\ NeverHalfMigrated'
  BY <1>1 DEF BootInv, Shapes, Apart, NeverHalfMigrated
<1>3. \A i \in Instances : (UnderWay(i)' <=> UnderWay(i)) /\ (AtHead' <=> AtHead)
  BY <1>1 DEF UnderWay, AtHead
<1>. QED  BY <1>1, <1>2, <1>3 DEF BootInv

LEMMA BootNext == BootInv /\ [Next]_vars => BootInv'
<1>. SUFFICES ASSUME BootInv, [Next]_vars PROVE BootInv'
  OBVIOUS
<1>1. ASSUME NEW i \in Instances, Boot(i) \/ Serve(i) PROVE BootInv'
  BY <1>1, ABoot, AServe
<1>2. ASSUME NEW l \in Labs, CreateAll(l) PROVE BootInv'
  BY <1>2, ACreateAll
<1>3. ASSUME NEW p \in Processes, Step(p) PROVE BootInv'
  BY <1>3, ACreation, AStamp, ACommit DEF Step
<1>4. ASSUME NEW p \in Processes, Crash(p) PROVE BootInv'
  <2>1. Ends({p}) /\ UNCHANGED schema
    BY <1>4 DEF Crash, schema
  <2>. QED  BY <2>1, SomeEnd
<1>5. CASE DatabaseStops
  <2>1. PICK procs \in SUBSET Processes : Ends(procs) /\ UNCHANGED schema
    BY <1>5 DEF DatabaseStops
  <2>. QED  BY <2>1, SomeEnd
<1>6. CASE DatabaseStarts
  BY <1>6, NothingMoves DEF DatabaseStarts
<1>7. CASE UNCHANGED vars
  BY <1>7, NothingMoves DEF vars
<1>. QED  BY <1>1, <1>2, <1>3, <1>4, <1>5, <1>6, <1>7 DEF Next

-----------------------------------------------------------------------------
THEOREM BootInvariant == Spec => []BootInv
<1>. QED  BY BootInit, BootNext, PTL DEF Spec

\* However many containers boot, crash and race with each other and with
\* create_all, none answers unless the head is stamped and every table of the
\* revisions is there: alembic's one transaction and set -eu (entrypoint.sh).
THEOREM NobodyServesAnOldSchema == Spec => []ServesOnlyAtHead
<1>1. BootInv => ServesOnlyAtHead
  BY DEF BootInv, AtHead, HeadTables, ServesOnlyAtHead
<1>. QED  BY <1>1, BootInvariant, PTL

\* No crash, failed statement or lost race leaves a revision half applied.
THEOREM MigrationsAreWhole == Spec => []NeverHalfMigrated
<1>1. BootInv => NeverHalfMigrated
  BY DEF BootInv
<1>. QED  BY <1>1, BootInvariant, PTL

\* A boot never stamps a revision one of whose tables create_all made: it has
\* to create that table itself, and fails.
THEOREM LabTablesAreNotAdopted == Spec => UnstampedTablesAreNotAdopted
<1>1. ASSUME BootInv, [Next]_vars,
             NEW r \in (revision + 1)..HeadRevision, TablesOf(r) \cap unstamped # {}
      PROVE  revision' < r
  <2>1. revision \in 0..HeadRevision /\ HeadRevision \in Int /\ unstamped \subseteq tables
    BY <1>1, TheRevisions DEF BootInv, Shapes, Apart
  <2>2. ASSUME NEW p \in Instances, Commit(p) PROVE FALSE
    BY <1>1, <2>1, <2>2, AnUpgradeCommits
  <2>3. revision' = revision
    BY <1>1, <2>2 DEF Next, Step, Boot, Begins, Serve, CreateAll, CreateTable, StampRevision,
        Commit, Crash, DatabaseStops, DatabaseStarts, vars, schema, Processes
  <2>. QED  BY <2>1, <2>3
<1>2. BootInv /\ [Next]_vars =>
          [\A r \in (revision + 1)..HeadRevision : TablesOf(r) \cap unstamped # {} => revision' < r]_vars
  BY <1>1
<1>. QED  BY <1>2, BootInvariant, PTL DEF Spec, UnstampedTablesAreNotAdopted
===============================================================================
