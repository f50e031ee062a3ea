------------------------------- MODULE Provenance -------------------------------
(***************************************************************************)
(* What a row says of the code it measured: discover, repository_identity, *)
(* and the staging, building and running of an adapter.                    *)
(*                                                                         *)
(* An adapter measures a checkout that belongs to somebody else.  Its      *)
(* revision and its dirty flag are asked of git one after the other, and   *)
(* the sources are read later, file by file, by a compiler that is pointed *)
(* at the working tree: the temporary directory holds the adapter's own    *)
(* program and what is built, and only a link to the checkout.  Meanwhile  *)
(* the checkout's owner edits, commits and switches branches.              *)
(*                                                                         *)
(* A commit is identified with the tree it records.                        *)
(***************************************************************************)
EXTENDS Naturals, Sequences

CONSTANTS
    Runners,    \* processes, each at one adapter of one family
    Checkouts,  \* places where a checkout of the family may be
    Siblings,   \* the places beside the harness, in the order discover tries them
    Files,      \* the sources of a checkout
    Contents,   \* what a file may contain
    Dirs,       \* temporary directories
    MaxEdits,   \* bound on the steps of the checkouts' owners
    NoPlace, NoDir, NoRow, Unread

Trees == [Files -> Contents]

ASSUME ProvenanceAssumption ==
    /\ Siblings \in Seq(Checkouts)
    /\ MaxEdits \in Nat
    /\ NoPlace \notin Checkouts /\ NoDir \notin Dirs
    /\ Unread \notin Contents
    /\ NoRow \notin [revision : Trees, dirty : BOOLEAN, code : Trees]

VARIABLES
    override, \* the place the command line names, or NoPlace
    marked,   \* the places that hold the marker file of the family
    tree,     \* the working tree of each checkout
    head,     \* its HEAD commit
    edits,    \* how many steps the owners have taken
    pc,       \* what each runner does next
    tried,    \* the place discover tries next
    path,     \* the checkout that was found
    revision, \* what git rev-parse said
    dirty,    \* what git status said
    dir,      \* the runner's temporary directory
    built,    \* what has been compiled in each directory, by source file
    row,      \* what the adapter printed: identity, and the code it is made of
    seen      \* history: the states of the checkout since its identity was asked

owners == <<override, marked, tree, head, edits>>
vars == <<override, marked, tree, head, edits, pc, tried, path, revision, dirty,
          dir, built, row, seen>>

Following == {"dirty", "stage", "build"}
Pcs == {"probe", "toolchain", "revision", "done", "failed"} \cup Following

States == [tree : Trees, head : Trees]
State(c) == [tree |-> tree[c], head |-> head[c]]
Nothing == [f \in Files |-> Unread]

Init ==
    /\ override \in [Runners -> Checkouts \cup {NoPlace}]
    /\ marked \in SUBSET Checkouts
    /\ tree \in [Checkouts -> Trees] /\ head = tree
    /\ edits = 0
    /\ pc = [p \in Runners |-> "probe"]
    /\ tried = [p \in Runners |-> 1]
    /\ path = [p \in Runners |-> NoPlace]
    /\ revision \in [Runners -> {Nothing}] /\ dirty = [p \in Runners |-> FALSE]
    /\ dir = [p \in Runners |-> NoDir]
    /\ built = [d \in Dirs |-> Nothing]
    /\ row = [p \in Runners |-> NoRow]
    /\ seen = [p \in Runners |-> {}]

Goto(p, l) == pc' = [pc EXCEPT ![p] = l]

--------------------------------------------------------------------------------
(***************************************************************************)
(* A runner.                                                               *)
(***************************************************************************)

\* Counterfactual: the siblings are a second choice to the override.
OverrideFirst(p) ==
    IF override[p] # NoPlace THEN <<override[p]>> \o Siblings ELSE Siblings

Candidates(p) == IF override[p] # NoPlace THEN <<override[p]>> ELSE Siblings

\* One round of the loop in discover, and what its caller does with the result.
Probe(p) ==
    /\ pc[p] = "probe"
    /\ IF tried[p] > Len(Candidates(p))
       THEN Goto(p, "failed") /\ UNCHANGED <<tried, path>>
       ELSE IF Candidates(p)[tried[p]] \in marked
       THEN /\ path' = [path EXCEPT ![p] = Candidates(p)[tried[p]]]
            /\ Goto(p, "toolchain")
            /\ UNCHANGED tried
       ELSE tried' = [tried EXCEPT ![p] = @ + 1] /\ UNCHANGED <<pc, path>>
    /\ UNCHANGED <<owners, revision, dirty, dir, built, row, seen>>

\* The compiler is there and is the version that is wanted.
FindToolchain(p) ==
    /\ pc[p] = "toolchain"
    /\ Goto(p, "revision")
    /\ UNCHANGED <<owners, tried, path, revision, dirty, dir, built, row, seen>>

\* repository_identity asks twice.
ReadRevision(p) ==
    /\ pc[p] = "revision"
    /\ revision' = [revision EXCEPT ![p] = head[path[p]]]
    /\ seen' = [seen EXCEPT ![p] = {State(path[p])}]
    /\ Goto(p, "dirty")
    /\ UNCHANGED <<owners, tried, path, dirty, dir, built, row>>

ReadDirty(p) ==
    /\ pc[p] = "dirty"
    /\ dirty' = [dirty EXCEPT ![p] = tree[path[p]] # head[path[p]]]
    /\ Goto(p, "stage")
    /\ UNCHANGED <<owners, tried, path, revision, dir, built, row, seen>>

\* Counterfactual: every runner builds in the same directory, as cargo does
\* without a CARGO_TARGET_DIR of the run's own.
StageInPlace(p) ==
    /\ pc[p] = "stage"
    /\ dir' = [dir EXCEPT ![p] = CHOOSE d \in Dirs : TRUE]
    /\ Goto(p, "build")
    /\ UNCHANGED <<owners, tried, path, revision, dirty, built, row, seen>>

\* A new, empty temporary directory.
Stage(p) ==
    /\ pc[p] = "stage"
    /\ \E d \in Dirs \ {dir[q] : q \in Runners} :
          /\ dir' = [dir EXCEPT ![p] = d]
          /\ built' = [built EXCEPT ![d] = Nothing]
    /\ Goto(p, "build")
    /\ UNCHANGED <<owners, tried, path, revision, dirty, row, seen>>

\* The compiler reads one source, out of the working tree.
Compile(p, f) ==
    /\ pc[p] = "build" /\ built[dir[p]][f] = Unread
    /\ built' = [built EXCEPT ![dir[p]][f] = tree[path[p]][f]]
    /\ UNCHANGED <<owners, pc, tried, path, revision, dirty, dir, row, seen>>

\* Counterfactual: the directory is not removed.
RunAndLeave(p) ==
    /\ pc[p] = "build" /\ \A f \in Files : built[dir[p]][f] # Unread
    /\ row' = [row EXCEPT ![p] = [revision |-> revision[p], dirty |-> dirty[p],
                                  code |-> built[dir[p]]]]
    /\ Goto(p, "done")
    /\ UNCHANGED <<owners, tried, path, revision, dirty, dir, built, seen>>

\* The program is run with the identity on its command line, and the directory
\* removed.
Run(p) ==
    /\ pc[p] = "build" /\ \A f \in Files : built[dir[p]][f] # Unread
    /\ row' = [row EXCEPT ![p] = [revision |-> revision[p], dirty |-> dirty[p],
                                  code |-> built[dir[p]]]]
    /\ dir' = [dir EXCEPT ![p] = NoDir]
    /\ Goto(p, "done")
    /\ UNCHANGED <<owners, tried, path, revision, dirty, built, seen>>

\* A tool is missing or of another version, or a process ends with an error:
\* the exception leaves the with statement, which removes the directory.
Fail(p) ==
    /\ pc[p] \in {"toolchain", "revision"} \cup Following
    /\ dir' = [dir EXCEPT ![p] = NoDir]
    /\ Goto(p, "failed")
    /\ UNCHANGED <<owners, tried, path, revision, dirty, built, row, seen>>

--------------------------------------------------------------------------------
(***************************************************************************)
(* The owner of a checkout.                                                *)
(***************************************************************************)
Change(c, t, h) ==
    /\ edits < MaxEdits /\ edits' = edits + 1
    /\ tree' = [tree EXCEPT ![c] = t] /\ head' = [head EXCEPT ![c] = h]
    /\ seen' = [p \in Runners |->
                   IF path[p] = c /\ pc[p] \in Following
                   THEN seen[p] \cup {[tree |-> t, head |-> h]} ELSE seen[p]]
    /\ UNCHANGED <<override, marked, pc, tried, path, revision, dirty, dir, built, row>>

Edit(c, f) == \E v \in Contents : Change(c, [tree[c] EXCEPT ![f] = v], head[c])

Commit(c) == tree[c] # head[c] /\ Change(c, tree[c], tree[c])

Switch(c) == tree[c] = head[c] /\ \E t \in Trees : Change(c, t, t)

RunnerStep(p) ==
    \/ Probe(p) \/ FindToolchain(p) \/ ReadRevision(p) \/ ReadDirty(p) \/ Stage(p)
    \/ (\E f \in Files : Compile(p, f)) \/ Run(p) \/ Fail(p)

OwnerStep(c) == (\E f \in Files : Edit(c, f)) \/ Commit(c) \/ Switch(c)

Next == (\E p \in Runners : RunnerStep(p)) \/ (\E c \in Checkouts : OwnerStep(c))

Spec == Init /\ [][Next]_vars
--------------------------------------------------------------------------------
TypeOK ==
    /\ override \in [Runners -> Checkouts \cup {NoPlace}] /\ marked \subseteq Checkouts
    /\ tree \in [Checkouts -> Trees] /\ head \in [Checkouts -> Trees]
    /\ edits \in 0 .. MaxEdits
    /\ pc \in [Runners -> Pcs]
    /\ tried \in [Runners -> Nat \ {0}]
    /\ path \in [Runners -> Checkouts \cup {NoPlace}]
    /\ revision \in [Runners -> Trees \cup {Nothing}] /\ dirty \in [Runners -> BOOLEAN]
    /\ dir \in [Runners -> Dirs \cup {NoDir}]
    /\ \A p \in Runners : dir[p] # NoDir <=> pc[p] = "build"
    /\ built \in [Dirs -> [Files -> Contents \cup {Unread}]]
    /\ row \in [Runners -> [revision : Trees, dirty : BOOLEAN, code : Trees] \cup {NoRow}]
    /\ seen \in [Runners -> SUBSET States]

\* "Override any location explicitly": a runner that measures something
\* measures the place the command line names, which holds a checkout, or else
\* the first of the siblings that does.
SelectedIsMeasured ==
    \A p \in Runners : pc[p] = "done" =>
        /\ path[p] \in marked
        /\ IF override[p] # NoPlace THEN path[p] = override[p]
           ELSE \E i \in DOMAIN Siblings :
                   path[p] = Siblings[i] /\ \A j \in 1 .. (i - 1) : Siblings[j] \notin marked

\* "repository revisions and dirty flags": whatever the owners of the
\* checkouts and other runners do meanwhile, everything a row says or is made
\* of was so, at some moment since the identity was asked, in the checkout that
\* was found: its revision, its dirty flag, and each source that was compiled.
\* Not all of it at one moment: README.md.
EveryClaimWasTrue ==
    \A p \in Runners : pc[p] = "done" =>
        /\ \E s \in seen[p] : row[p].revision = s.head
        /\ \E s \in seen[p] : row[p].dirty = (s.tree # s.head)
        /\ \A f \in Files : \E s \in seen[p] : row[p].code[f] = s.tree[f]

\* If nobody touched the checkout after its identity was asked, the row's
\* revision and dirty flag are those of the code that was measured; a clean
\* row was made from exactly its revision.
UndisturbedRowsAreTrue ==
    \A p \in Runners :
        pc[p] = "done" /\ (\A s, t \in seen[p] : s = t) =>
            /\ row[p].dirty = (row[p].code # row[p].revision)
            /\ \E s \in seen[p] : s = [tree |-> row[p].code, head |-> row[p].revision]
================================================================================
