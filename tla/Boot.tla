--------------------------------- MODULE Boot ---------------------------------
(***************************************************************************)
(* A container boots (deployment/entrypoint.sh): it brings the schema to   *)
(* head with alembic (migrations/env.py) and only then serves.  Several    *)
(* containers may boot against one database, each may crash anywhere and   *)
(* is started again by the platform, and the demo, the matrix gate and the *)
(* tests may run metadata.create_all on the same database, which creates   *)
(* what tables it misses and stamps no revision.                           *)
(*                                                                         *)
(*   container   down -> migrating -> migrated -> serving                  *)
(*   lab         down -> migrating -> down                                 *)
(***************************************************************************)
EXTENDS Integers, Sequences, SequencesExt

CONSTANTS
    Instances,   \* the containers
    Labs,        \* the processes that run create_all
    MaxCrashes   \* bound on the crashes, of processes and of PostgreSQL

VARIABLES
    tables, revision,  \* what is committed: the tables, and the stamped revision
    unstamped,         \* the tables create_all committed
    pc, todo,          \* of each process, with the statements it has left
    mine, stamp,       \* what its open transaction has created and stamped
    database,          \* PostgreSQL is up
    crashes

schema    == <<tables, revision, unstamped>>
processes == <<pc, todo, mine, stamp>>
vars      == <<schema, processes, database, crashes>>

Processes == Instances \cup Labs

ASSUME BootAssumption == Instances \cap Labs = {} /\ MaxCrashes \in Nat

-----------------------------------------------------------------------------
\* The revisions, oldest first, with the tables each creates in its order.
REVISIONS ==
    << <<"approval", "audit_event", "irreversible_effect">>,  \* 74f132d461a8
       <<"rate_limit_counter">> >>                            \* b7d2c9e41a08

HeadRevision  == Len(REVISIONS)
VERSION_TABLE == "alembic_version"

\* The model classes, in the order create_all creates their tables.
MetadataTables == <<"approval", "audit_event", "irreversible_effect", "rate_limit_counter">>

TablesOf(r)   == ToSet(REVISIONS[r])
TablesUpTo(r) == UNION {TablesOf(q) : q \in 1..r}

Create(table) == [op |-> "create", what |-> table]
Stamp(r)      == [op |-> "stamp", to |-> r]

Creates(names) == [k \in DOMAIN names |-> Create(names[k])]
Upgrade(r)     == Append(Creates(REVISIONS[r]), Stamp(r))

\* The stamp is not looked at.
UpgradeHead_FromScratch(r) == Upgrade(1) \o Upgrade(2)

\* `alembic upgrade head` from revision r: the version table is created when
\* no revision is stamped.
UpgradeHead(r) ==
    CASE r = 0 -> <<Create(VERSION_TABLE)>> \o Upgrade(1) \o Upgrade(2)
      [] r = 1 -> Upgrade(2)
      [] r = HeadRevision -> <<>>

-----------------------------------------------------------------------------
Init ==
    /\ revision \in 0..HeadRevision
    /\ tables = TablesUpTo(revision) \cup (IF revision = 0 THEN {} ELSE {VERSION_TABLE})
    /\ unstamped = {}
    /\ pc = [p \in Processes |-> "down"]
    /\ todo = [p \in Processes |-> <<>>]
    /\ mine = [p \in Processes |-> {}]
    /\ stamp = [p \in Processes |-> 0]
    /\ database \in BOOLEAN
    /\ crashes = 0

Begins(p, statements) ==
    /\ pc' = [pc EXCEPT ![p] = "migrating"]
    /\ todo' = [todo EXCEPT ![p] = statements]
    /\ stamp' = [stamp EXCEPT ![p] = revision]
    /\ UNCHANGED <<mine, schema, database, crashes>>

\* The process ends and its transaction is rolled back.
Ends(procs) ==
    /\ pc' = [p \in Processes |-> IF p \in procs THEN "down" ELSE pc[p]]
    /\ todo' = [p \in Processes |-> IF p \in procs THEN <<>> ELSE todo[p]]
    /\ mine' = [p \in Processes |-> IF p \in procs THEN {} ELSE mine[p]]
    /\ stamp' = [p \in Processes |-> IF p \in procs THEN 0 ELSE stamp[p]]

\* Without set -e the shell would go on to uvicorn.
Fails_ServesAnyway(p) ==
    /\ pc' = [pc EXCEPT ![p] = IF p \in Instances THEN "migrated" ELSE "down"]
    /\ todo' = [todo EXCEPT ![p] = <<>>]
    /\ mine' = [mine EXCEPT ![p] = {}]
    /\ stamp' = [stamp EXCEPT ![p] = 0]

\* set -eu: a failing `alembic upgrade head` ends the container.
Fails(p) == Ends({p})

\* The platform starts the container, and alembic reads the stamp.
Boot(i) ==
    /\ pc[i] = "down" /\ database
    /\ Begins(i, UpgradeHead(revision))

\* create_all looks for every table before it creates the first.
CreateAll(l) ==
    /\ pc[l] = "down" /\ database
    /\ Begins(l, Creates(SelectSeq(MetadataTables, LAMBDA table : table \notin tables)))

\* A statement that creates a table another transaction has created but not
\* committed waits for it, and fails if it commits; all but the version
\* table's, which looks first.
Statement(p) == Head(todo[p])
Waits(p) == \E q \in Processes \ {p} : Statement(p).what \in mine[q]

CreateTable_IfNotExists(p) ==
    /\ pc[p] = "migrating" /\ todo[p] # <<>> /\ Statement(p).op = "create" /\ ~Waits(p)
    /\ todo' = [todo EXCEPT ![p] = Tail(@)]
    /\ mine' = [mine EXCEPT ![p] = @ \cup ({Statement(p).what} \ tables)]
    /\ UNCHANGED <<pc, stamp, schema, database, crashes>>

CreateTable_CommitsItself(p) ==
    /\ pc[p] = "migrating" /\ todo[p] # <<>> /\ Statement(p).op = "create" /\ ~Waits(p)
    /\ IF Statement(p).what \in tables \ {VERSION_TABLE}
         THEN Fails(p) /\ UNCHANGED tables
         ELSE /\ todo' = [todo EXCEPT ![p] = Tail(@)]
              /\ tables' = tables \cup {Statement(p).what}
              /\ UNCHANGED <<pc, mine, stamp>>
    /\ UNCHANGED <<revision, unstamped, database, crashes>>

CreateTable(p) ==
    /\ pc[p] = "migrating" /\ todo[p] # <<>> /\ Statement(p).op = "create" /\ ~Waits(p)
    /\ IF Statement(p).what \in tables \ {VERSION_TABLE}
         THEN Fails(p)
         ELSE /\ todo' = [todo EXCEPT ![p] = Tail(@)]
              /\ mine' = [mine EXCEPT ![p] = @ \cup ({Statement(p).what} \ tables)]
              /\ UNCHANGED <<pc, stamp>>
    /\ UNCHANGED <<schema, database, crashes>>

\* The tables of the revision are this transaction's, so nobody else stamps it.
StampRevision(p) ==
    /\ pc[p] = "migrating" /\ todo[p] # <<>> /\ Statement(p).op = "stamp"
    /\ todo' = [todo EXCEPT ![p] = Tail(@)]
    /\ stamp' = [stamp EXCEPT ![p] = Statement(p).to]
    /\ UNCHANGED <<pc, mine, schema, database, crashes>>

\* One transaction holds every revision.
Commit(p) ==
    /\ pc[p] = "migrating" /\ todo[p] = <<>>
    /\ tables' = tables \cup mine[p]
    /\ mine' = [mine EXCEPT ![p] = {}]
    /\ \/ /\ p \in Instances
          /\ pc' = [pc EXCEPT ![p] = "migrated"]
          /\ revision' = stamp[p]
          /\ UNCHANGED unstamped
       \/ /\ p \in Labs
          /\ pc' = [pc EXCEPT ![p] = "down"]
          /\ unstamped' = unstamped \cup mine[p]
          /\ UNCHANGED revision
    /\ stamp' = [stamp EXCEPT ![p] = 0]
    /\ UNCHANGED <<todo, database, crashes>>

\* exec uvicorn.
Serve(i) ==
    /\ pc[i] = "migrated"
    /\ pc' = [pc EXCEPT ![i] = "serving"]
    /\ UNCHANGED <<todo, mine, stamp, schema, database, crashes>>

Crash(p) ==
    /\ crashes < MaxCrashes /\ crashes' = crashes + 1
    /\ pc[p] # "down"
    /\ Ends({p})
    /\ UNCHANGED <<schema, database>>

\* PostgreSQL stops: whoever has a transaction open fails, a server stays up.
DatabaseStops ==
    /\ database
    /\ crashes < MaxCrashes /\ crashes' = crashes + 1
    /\ database' = FALSE
    /\ Ends({p \in Processes : pc[p] = "migrating"})
    /\ UNCHANGED schema

DatabaseStarts ==
    /\ ~database
    /\ database' = TRUE
    /\ UNCHANGED <<schema, processes, crashes>>

Step(p) == CreateTable(p) \/ StampRevision(p) \/ Commit(p)

Next ==
    \/ \E i \in Instances : Boot(i) \/ Serve(i)
    \/ \E l \in Labs : CreateAll(l)
    \/ \E p \in Processes : Step(p) \/ Crash(p)
    \/ DatabaseStops \/ DatabaseStarts

Spec == Init /\ [][Next]_vars

\* The platform starts what is down and PostgreSQL comes back, every process
\* goes on, and crashes cease (MaxCrashes).
FairSpec ==
    /\ Spec
    /\ WF_vars(DatabaseStarts)
    /\ \A i \in Instances : WF_vars(Boot(i)) /\ WF_vars(Serve(i))
    /\ \A p \in Processes : WF_vars(Step(p))

-----------------------------------------------------------------------------
\* A server that answers has the whole schema under it, whoever else boots,
\* fails, crashes or creates tables (set -eu before exec, entrypoint.sh).
ServesOnlyAtHead ==
    \A i \in Instances :
        pc[i] = "serving" => revision = HeadRevision /\ TablesUpTo(HeadRevision) \subseteq tables

\* No crash and no lost race leaves a revision half applied: but for what
\* create_all made, the tables are those of the stamp (one transaction).
NeverHalfMigrated ==
    tables \ unstamped =
        (TablesUpTo(revision) \cup (IF revision = 0 THEN {} ELSE {VERSION_TABLE})) \ unstamped

\* Tables create_all made of a revision that is not stamped keep every
\* container down: no boot takes them for its own and stamps that revision.
UnstampedTablesAreNotAdopted ==
    [][\A r \in (revision + 1)..HeadRevision :
           TablesOf(r) \cap unstamped # {} => revision' < r]_vars

\* Containers that race for the same DDL all serve in the end: a loser fails,
\* is started again and finds the schema at head.  Only a create_all that came
\* before the migrations can keep them down.
EveryInstanceServes ==
    <>[](\A i \in Instances : pc[i] = "serving") \/ <>(unstamped # {})
===============================================================================
