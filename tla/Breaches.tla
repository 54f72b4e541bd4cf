------------------------------- MODULE Breaches -------------------------------
(***************************************************************************)
(* The planted breaches (scripts/plant_breaches.py): one control at a time *)
(* is removed from a file of the working tree, the tests that must notice  *)
(* are run, and the file is put back.                                      *)
(*                                                                         *)
(*   idle -> next -> (plant -> test -> restore -> next)* -> after -> idle  *)
(*                                                                         *)
(* Meanwhile a developer edits, commits and checks out, the database comes *)
(* and goes, and the script may be interrupted (Ctrl-C) or killed.  A file *)
(* is what the script can tell of it: how often each anchor occurs, and    *)
(* which breach, if any, is planted in it.                                 *)
(***************************************************************************)
EXTENDS Integers, Sequences

CONSTANTS
    Numbers,    \* the breaches of this instance, some of DOMAIN BREACHES
    MaxEdits,   \* bound on the developer's edits
    None

VARIABLES
    tree, head,     \* file |-> content, in the working tree and in HEAD
    noticing,       \* the breaches whose tests notice them
    missing,        \* the breaches whose tests are no longer there
    database,       \* PostgreSQL is up
    edits,          \* edits made so far
    pc, todo, original, code, holes, exit,
    selected, met   \* what this run set out to do, and what its tests met

script   == <<pc, todo, original, code, holes, exit, selected, met>>
world    == <<tree, head, noticing, missing, database, edits>>
vars     == <<world, script>>

-----------------------------------------------------------------------------
\* The twelve breaches: the file edited, and whether a test named for it
\* connects to the database when its fixtures are set up.
AUTHZ     == "src/agent_authz_broker/authz.py"
APPROVALS == "src/agent_authz_broker/approvals.py"
MCP       == "src/agent_authz_broker/mcp_server.py"
APP       == "src/agent_authz_broker/app.py"
TOKENS    == "src/agent_authz_broker/tokens.py"
RATELIMIT == "src/agent_authz_broker/ratelimit.py"
KILL      == "tests/test_kill_criteria.py"

Breach(file, needs_database) == [file |-> file, needs_database |-> needs_database]

BREACHES ==
    << Breach(AUTHZ, TRUE), Breach(AUTHZ, TRUE), Breach(APPROVALS, TRUE),
       Breach(APPROVALS, TRUE), Breach(MCP, FALSE), Breach(APP, FALSE),
       Breach(MCP, TRUE), Breach(TOKENS, FALSE), Breach(KILL, FALSE),
       Breach(KILL, FALSE), Breach(RATELIMIT, TRUE), Breach(APP, FALSE) >>

ASSUME BreachesAssumption ==
    /\ Numbers \subseteq DOMAIN BREACHES
    /\ MaxEdits \in Nat
    /\ None \notin Int
    /\ None \notin [noticed : BOOLEAN, broken : BOOLEAN]

Files      == {BREACHES[n].file : n \in Numbers}
In(file)   == {n \in Numbers : BREACHES[n].file = file}
\* What `git checkout -- src/` reaches, and `git checkout -- src/ tests/`.
UnderSrc   == Files \ {KILL}

\* count: how often the anchor of each of the file's breaches occurs in it.
Content(file) == [count : [In(file) -> 0..2], planted : In(file) \cup {None}]
Planted(content, n) == [count |-> [content.count EXCEPT ![n] = 0], planted |-> n]

Dirty          == \E file \in Files : tree[file] # head[file]
NothingPlanted == \A file \in Files : tree[file].planted = None

-----------------------------------------------------------------------------
Init ==
    /\ head = [file \in Files |-> [count |-> [n \in In(file) |-> 1], planted |-> None]]
    /\ tree = head
    /\ noticing \in SUBSET Numbers /\ missing \in SUBSET Numbers
    /\ database \in BOOLEAN /\ edits = 0
    /\ pc = "idle" /\ todo = {} /\ original = None /\ code = 0
    /\ holes = {} /\ exit = None /\ selected = {}
    /\ met = [n \in Numbers |-> None]

\* What the shell reports of a process that Ctrl-C or a kill ended.
Interrupted == 130
Killed      == 137

Exits(status) ==
    /\ pc' = "idle" /\ exit' = status
    /\ todo' = {} /\ original' = None /\ code' = 0 /\ holes' = {}
    /\ UNCHANGED <<selected, met>>

\* main up to its loop.  only: the breaches --only leaves, all of them
\* without it, none for a number there is no breach of.
Begins(only) ==
    /\ selected' = only
    /\ met' = [n \in Numbers |-> None]
    /\ exit' = None /\ holes' = {} /\ original' = None /\ code' = 0
    /\ pc' = "next" /\ todo' = only

Start_AnyTree(only) ==
    /\ pc = "idle"
    /\ IF only = {} THEN Exits(2) ELSE Begins(only)
    /\ UNCHANGED world

Start(only) ==
    /\ pc = "idle"
    /\ IF Dirty \/ only = {} THEN Exits(2) ELSE Begins(only)
    /\ UNCHANGED world

\* The breaches take their turns in the order of their numbers.
Current == CHOOSE n \in todo : \A m \in todo : n <= m
File    == BREACHES[Current].file

\* An anchor that is not there makes the next breach's turn come.
Read_MovedSourceIsFine ==
    /\ pc = "next" /\ todo # {}
    /\ IF tree[File].count[Current] = 1
         THEN pc' = "plant" /\ original' = tree[File] /\ UNCHANGED <<todo, holes>>
         ELSE todo' = todo \ {Current} /\ UNCHANGED <<pc, original, holes>>
    /\ UNCHANGED <<world, code, exit, selected, met>>

\* _run, its reading half: an anchor that does not occur exactly once is a hole.
Read ==
    /\ pc = "next" /\ todo # {}
    /\ IF tree[File].count[Current] = 1
         THEN pc' = "plant" /\ original' = tree[File] /\ UNCHANGED <<todo, holes>>
         ELSE /\ holes' = holes \cup {Current} /\ todo' = todo \ {Current}
              /\ UNCHANGED <<pc, original>>
    /\ UNCHANGED <<world, code, exit, selected, met>>

\* The first line of the try block.
Plant ==
    /\ pc = "plant"
    /\ tree' = [tree EXCEPT ![File] = Planted(original, Current)]
    /\ pc' = "test"
    /\ UNCHANGED <<head, noticing, missing, database, edits, todo, original, code, holes, exit,
                   selected, met>>

\* pytest exits with a code other than 0 when a test fails, when a fixture
\* raises, and when a test it was told to run is not there.
Noticed(n)  == n \in noticing /\ tree[BREACHES[n].file].planted = n
Broken(n)   == n \in missing \/ (BREACHES[n].needs_database /\ ~database)

RunTests ==
    /\ pc = "test"
    /\ code' = IF Noticed(Current) \/ Broken(Current) THEN 1 ELSE 0
    /\ met' = [met EXCEPT ![Current] =
                   [noticed |-> Noticed(Current), broken |-> Broken(Current)]]
    /\ pc' = "restore"
    /\ UNCHANGED <<world, todo, original, holes, exit, selected>>

\* The finally block is not reached by the exception.
Restore_NotWhenInterrupted ==
    /\ pc = "restore"
    /\ IF code = None
         THEN Exits(Interrupted) /\ UNCHANGED tree
         ELSE /\ tree' = [tree EXCEPT ![File] = original]
              /\ pc' = "next" /\ todo' = todo \ {Current} /\ original' = None /\ code' = 0
              /\ holes' = IF code = 0 THEN holes \cup {Current} ELSE holes
              /\ UNCHANGED <<exit, selected, met>>
    /\ UNCHANGED <<head, noticing, missing, database, edits>>

\* The finally block, and the verdict if nothing was raised.
Restore ==
    /\ pc = "restore"
    /\ tree' = [tree EXCEPT ![File] = original]
    /\ IF code = None
         THEN Exits(Interrupted)
         ELSE /\ pc' = "next" /\ todo' = todo \ {Current} /\ original' = None /\ code' = 0
              /\ holes' = IF code = 0 THEN holes \cup {Current} ELSE holes
              /\ UNCHANGED <<exit, selected, met>>
    /\ UNCHANGED <<head, noticing, missing, database, edits>>

\* main after its loop.
Finish ==
    /\ pc = "next" /\ todo = {}
    /\ Exits(IF Dirty THEN 2 ELSE IF holes # {} THEN 1 ELSE 0)
    /\ UNCHANGED world

\* Ctrl-C: inside the try block the finally block still runs.
Interrupt ==
    \/ /\ pc = "test"
       /\ pc' = "restore" /\ code' = None
       /\ UNCHANGED <<world, todo, original, holes, exit, selected, met>>
    \/ /\ pc \in {"next", "plant"}
       /\ Exits(Interrupted)
       /\ UNCHANGED world

\* A kill runs nothing.
Kill ==
    /\ pc # "idle"
    /\ Exits(Killed)
    /\ UNCHANGED world

-----------------------------------------------------------------------------
\* The developer: an edit moves, doubles or brings back an anchor of a file
\* as it lies in the tree; what is committed was looked at.
Edit(file, n, count) ==
    /\ edits < MaxEdits /\ edits' = edits + 1
    /\ tree[file].planted # n
    /\ tree' = [tree EXCEPT ![file].count[n] = count]
    /\ UNCHANGED <<head, noticing, missing, database, script>>

Commit ==
    /\ Dirty /\ NothingPlanted
    /\ head' = tree
    /\ UNCHANGED <<tree, noticing, missing, database, edits, script>>

CheckedOut(files) == [file \in Files |-> IF file \in files THEN head[file] ELSE tree[file]]

Checkout(files) ==
    /\ tree' = CheckedOut(files)
    /\ UNCHANGED <<head, noticing, missing, database, edits, script>>

DatabaseUpOrDown ==
    /\ database' = ~database
    /\ UNCHANGED <<tree, head, noticing, missing, edits, script>>

Selections == {Numbers, {}} \cup {{n} : n \in Numbers}

Next ==
    \/ \E only \in Selections : Start(only)
    \/ Read \/ Plant \/ RunTests \/ Restore \/ Finish
    \/ Interrupt \/ Kill
    \/ \E file \in Files : \E n \in In(file), count \in 0..2 : Edit(file, n, count)
    \/ Commit \/ Checkout(UnderSrc) \/ Checkout(Files)
    \/ DatabaseUpOrDown

Spec == Init /\ [][Next]_vars

-----------------------------------------------------------------------------
BreachesTypeOK ==
    /\ \A content \in {tree, head} :
           /\ content \in [Files -> UNION {Content(file) : file \in Files}]
           /\ \A file \in Files : content[file] \in Content(file)
    /\ pc \in {"idle", "next", "plant", "test", "restore"}
    /\ todo \subseteq Numbers /\ holes \subseteq Numbers /\ selected \subseteq Numbers

\* What the script takes for source, and will write back, never has a breach
\* planted in it: not after a kill, and not after the edits of a developer
\* (the refusal to start against a dirty tree).
ABreachIsNeverTakenForSource ==
    original # None => original.planted = None

\* A breach stays in the tree only while its tests run or when the script was
\* killed: no verdict and no Ctrl-C leaves one, and a run that finds one only
\* refuses (the finally block and the two looks at git status).  A Ctrl-C that
\* lands inside the finally's own write counts as a kill.
OnlyAKillLeavesABreach ==
    NothingPlanted \/ pc \in {"test", "restore"} \/ exit \in {Killed, 2}

\* A run that reports every control load-bearing has run the tests of every
\* breach it was asked for, none skipped because its anchor moved, and each
\* run noticed the breach or could not have passed (the count of anchors).  A
\* run that broke for want of a database counts as having noticed: this is
\* about breaches that were not tried, not about tests that could not run.
ZeroMeansEveryBreachWasTried ==
    exit = 0 => \A n \in selected : met[n] # None /\ (met[n].noticed \/ met[n].broken)
===============================================================================
