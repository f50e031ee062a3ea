---------------------------- MODULE ProvenanceProofs ----------------------------
(***************************************************************************)
(* For any number of runners, checkouts and files, and however often the   *)
(* owners of the checkouts interfere: what a row says was true.            *)
(***************************************************************************)
EXTENDS Provenance, TLAPS

USE DEF Trees, States, Following, Pcs, Nothing

--------------------------------------------------------------------------------
\* What discover has established when it returns, and while it looks.
Found(p) ==
    /\ path[p] \in marked
    /\ IF override[p] # NoPlace THEN path[p] = override[p]
       ELSE \E i \in DOMAIN Siblings :
               path[p] = Siblings[i] /\ \A j \in 1 .. (i - 1) : Siblings[j] \notin marked

SearchInv ==
    \A p \in Runners :
        /\ pc[p] = "probe" =>
              \A j \in DOMAIN Siblings :
                  j < tried[p] /\ override[p] = NoPlace => Siblings[j] \notin marked
        /\ pc[p] \notin {"probe", "failed"} => Found(p)

\* No two runners have the same directory.
DirInv == \A p, q \in Runners : p # q /\ dir[p] = dir[q] => dir[p] = NoDir

PrintedRows == [revision : Trees, dirty : BOOLEAN, code : Trees]

\* What may be said of the identity, and of what is built, before the row is there.
Now(p) == pc[p] \in Following => State(path[p]) \in seen[p]
RevisionWas(p) == pc[p] \in Following => \E s \in seen[p] : revision[p] = s.head
DirtyWas(p) ==
    pc[p] \in {"stage", "build"} => \E s \in seen[p] : dirty[p] = (s.tree # s.head)
BuiltWas(p) ==
    pc[p] = "build" =>
        \A f \in Files : \/ built[dir[p]][f] = Unread
                         \/ \E s \in seen[p] : built[dir[p]][f] = s.tree[f]
RowWas(p) ==
    pc[p] = "done" =>
        /\ row[p] \in PrintedRows
        /\ \E s \in seen[p] : row[p].revision = s.head
        /\ \E s \in seen[p] : row[p].dirty = (s.tree # s.head)
        /\ \A f \in Files : \E s \in seen[p] : row[p].code[f] = s.tree[f]

ClaimInv == \A p \in Runners : Now(p) /\ RevisionWas(p) /\ DirtyWas(p) /\ BuiltWas(p) /\ RowWas(p)

Inv == TypeOK /\ SearchInv /\ DirInv /\ ClaimInv

--------------------------------------------------------------------------------
LEMMA InitInv == Init => Inv
<1> SUFFICES ASSUME Init PROVE Inv
  OBVIOUS
<1> USE ProvenanceAssumption DEF Init
<1>1. TypeOK
  <2>1. Nothing \in [Files -> Contents \cup {Unread}] /\ 0 \in 0 .. MaxEdits /\ 1 \in Nat \ {0}
    OBVIOUS
  <2>2. built \in [Dirs -> [Files -> Contents \cup {Unread}]]
    BY <2>1
  <2>3. \A p \in Runners : dir[p] # NoDir <=> pc[p] = "build"
    OBVIOUS
  <2>4. /\ revision \in [Runners -> Trees \cup {Nothing}] /\ dirty \in [Runners -> BOOLEAN]
        /\ row \in [Runners -> PrintedRows \cup {NoRow}]
        /\ seen \in [Runners -> SUBSET States]
    OBVIOUS
  <2>5. /\ pc \in [Runners -> Pcs] /\ tried \in [Runners -> Nat \ {0}]
        /\ path \in [Runners -> Checkouts \cup {NoPlace}]
        /\ dir \in [Runners -> Dirs \cup {NoDir}]
    BY <2>1
  <2> QED BY <2>1, <2>2, <2>3, <2>4, <2>5 DEF TypeOK, PrintedRows
<1>2. SearchInv
  <2>1. \A j \in DOMAIN Siblings : ~(j < 1)
    BY Siblings \in Seq(Checkouts)
  <2>2. \A p \in Runners : pc[p] = "probe" /\ tried[p] = 1
    OBVIOUS
  <2> QED BY <2>1, <2>2 DEF SearchInv
<1>3. DirInv
  BY DEF DirInv
<1>4. ClaimInv
  BY DEF ClaimInv, Now, RevisionWas, DirtyWas, BuiltWas, RowWas
<1> QED BY <1>1, <1>2, <1>3, <1>4 DEF Inv

\* A runner that has found a checkout is at one of the places there are.
LEMMA PathIsCheckout ==
    ASSUME TypeOK, SearchInv, NEW p \in Runners, pc[p] \notin {"probe", "failed"}
    PROVE  path[p] \in Checkouts
BY DEF TypeOK, SearchInv, Found

\* What a runner prints is a row: all that is compiled has been read.
LEMMA RowIsPrinted ==
    ASSUME Inv, NEW p \in Runners, Run(p)
    PROVE  row'[p] \in PrintedRows /\ row' = [row EXCEPT ![p] = row'[p]]
<1> USE DEF Inv
<1>1. dir[p] \in Dirs /\ path[p] \in Checkouts
  BY PathIsCheckout DEF Run, TypeOK
<1>2. built[dir[p]] \in Trees
  BY <1>1 DEF Run, TypeOK
<1>3. revision[p] \in Trees
  <2>1. PICK s \in seen[p] : revision[p] = s.head
    BY DEF Run, ClaimInv, RevisionWas
  <2> QED BY <2>1 DEF TypeOK
<1>4. [revision |-> revision[p], dirty |-> dirty[p], code |-> built[dir[p]]] \in PrintedRows
  BY <1>2, <1>3 DEF TypeOK, PrintedRows
<1> QED BY <1>4 DEF Run, TypeOK

\* The types, one step of a runner after the other.
LEMMA TypeRunner ==
    ASSUME Inv, NEW p \in Runners, RunnerStep(p)
    PROVE  TypeOK'
<1> USE ProvenanceAssumption DEF Inv, owners, Goto
<1>1. CASE Probe(p)
  <2>1. ASSUME tried[p] <= Len(Candidates(p)) PROVE Candidates(p)[tried[p]] \in Checkouts
    <3>1. Candidates(p) \in Seq(Checkouts)
      <4>1. CASE override[p] = NoPlace
        BY <4>1 DEF Candidates
      <4>2. CASE override[p] # NoPlace
        <5>1. override[p] \in Checkouts
          BY <4>2 DEF TypeOK
        <5> QED BY <4>2, <5>1 DEF Candidates
      <4> QED BY <4>1, <4>2
    <3>2. tried[p] \in 1 .. Len(Candidates(p))
      BY <2>1, <3>1 DEF TypeOK
    <3> QED BY <3>1, <3>2
  <2>2. Len(Candidates(p)) \in Nat /\ tried[p] \in Nat \ {0}
    BY DEF TypeOK, Candidates
  <2>3. /\ pc' \in [Runners -> Pcs] /\ tried' \in [Runners -> Nat \ {0}]
        /\ path' \in [Runners -> Checkouts \cup {NoPlace}]
    <3>1. CASE tried[p] > Len(Candidates(p))
      BY <1>1, <3>1 DEF TypeOK, Probe
    <3>2. CASE tried[p] <= Len(Candidates(p)) /\ Candidates(p)[tried[p]] \in marked
      <4>1. /\ path' = [path EXCEPT ![p] = Candidates(p)[tried[p]]]
            /\ pc' = [pc EXCEPT ![p] = "toolchain"] /\ tried' = tried
        BY <1>1, <3>2, <2>2 DEF Probe
      <4> QED BY <4>1, <2>1, <3>2 DEF TypeOK
    <3>3. CASE tried[p] <= Len(Candidates(p)) /\ Candidates(p)[tried[p]] \notin marked
      <4>1. tried' = [tried EXCEPT ![p] = @ + 1] /\ pc' = pc /\ path' = path
        BY <1>1, <3>3, <2>2 DEF Probe
      <4>2. tried[p] + 1 \in Nat \ {0}
        BY <2>2
      <4> QED BY <4>1, <4>2 DEF TypeOK
    <3> QED BY <2>2, <3>1, <3>2, <3>3
  <2>4. \A q \in Runners : dir'[q] # NoDir <=> pc'[q] = "build"
    BY <1>1, <2>2 DEF TypeOK, Probe
  <2> QED BY <1>1, <2>3, <2>4 DEF TypeOK, Probe
<1>2. CASE FindToolchain(p)
  BY <1>2 DEF TypeOK, FindToolchain
<1>3. CASE ReadRevision(p)
  <2>1. path[p] \in Checkouts
    BY <1>3, PathIsCheckout DEF ReadRevision
  <2>2. State(path[p]) \in States /\ head[path[p]] \in Trees
    BY <2>1 DEF TypeOK, State
  <2> QED BY <1>3, <2>2 DEF TypeOK, ReadRevision
<1>4. CASE ReadDirty(p)
  BY <1>4 DEF TypeOK, ReadDirty
<1>5. CASE Stage(p)
  BY <1>5 DEF TypeOK, Stage
<1>6. ASSUME NEW f \in Files, Compile(p, f) PROVE TypeOK'
  <2>1. path[p] \in Checkouts /\ dir[p] \in Dirs
    BY <1>6, PathIsCheckout DEF Compile, TypeOK
  <2>2. tree[path[p]][f] \in Contents
    BY <2>1 DEF TypeOK
  <2>3. built' \in [Dirs -> [Files -> Contents \cup {Unread}]]
    BY <1>6, <2>1, <2>2 DEF TypeOK, Compile
  <2> QED BY <1>6, <2>3 DEF TypeOK, Compile
<1>7. CASE Run(p)
  BY <1>7, RowIsPrinted DEF TypeOK, Run, PrintedRows
<1>8. CASE Fail(p)
  BY <1>8 DEF TypeOK, Fail
<1> QED BY <1>1, <1>2, <1>3, <1>4, <1>5, <1>6, <1>7, <1>8 DEF RunnerStep

\* An owner's step is a change to a tree and a commit that are possible.
LEMMA OwnerChanges ==
    ASSUME TypeOK, NEW c \in Checkouts, OwnerStep(c)
    PROVE  \E t, h \in Trees : Change(c, t, h)
<1>1. CASE \E f \in Files : Edit(c, f)
  <2>1. PICK f \in Files, v \in Contents : Change(c, [tree[c] EXCEPT ![f] = v], head[c])
    BY <1>1 DEF Edit
  <2>2. [tree[c] EXCEPT ![f] = v] \in Trees /\ head[c] \in Trees
    BY DEF TypeOK
  <2> QED BY <2>1, <2>2
<1>2. CASE Commit(c)
  BY <1>2 DEF Commit, TypeOK
<1>3. CASE Switch(c)
  BY <1>3 DEF Switch
<1> QED BY <1>1, <1>2, <1>3 DEF OwnerStep

LEMMA TypeOwner ==
    ASSUME TypeOK, NEW c \in Checkouts, NEW t \in Trees, NEW h \in Trees, Change(c, t, h)
    PROVE  TypeOK'
<1> USE ProvenanceAssumption
<1>1. edits' \in 0 .. MaxEdits
  BY DEF Change, TypeOK
<1>2. seen' \in [Runners -> SUBSET States]
  BY DEF Change, TypeOK
<1> QED BY <1>1, <1>2 DEF Change, TypeOK

--------------------------------------------------------------------------------
LEMMA SearchStep ==
    ASSUME Inv, NEW p \in Runners, RunnerStep(p)
    PROVE  SearchInv'
<1> USE ProvenanceAssumption DEF Inv, owners, Goto
<1>1. CASE Probe(p)
  <2>1. Len(Candidates(p)) \in Nat /\ tried[p] \in Nat \ {0}
    BY DEF TypeOK, Candidates
  <2>2. CASE tried[p] > Len(Candidates(p))
    BY <1>1, <2>2, <2>1 DEF Probe, SearchInv, Found, TypeOK
  <2>3. CASE tried[p] <= Len(Candidates(p)) /\ Candidates(p)[tried[p]] \in marked
    <3>1. path' = [path EXCEPT ![p] = Candidates(p)[tried[p]]] /\ pc'[p] = "toolchain"
      BY <1>1, <2>3, <2>1 DEF Probe, TypeOK
    <3>2. Found(p)'
      <4>1. CASE override[p] # NoPlace
        <5>1. Candidates(p) = <<override[p]>> /\ tried[p] = 1
          BY <4>1, <2>3, <2>1 DEF Candidates
        <5> QED BY <4>1, <5>1, <3>1, <1>1, <2>3 DEF Found, Probe, TypeOK
      <4>2. CASE override[p] = NoPlace
        <5>1. Candidates(p) = Siblings /\ tried[p] \in DOMAIN Siblings
          BY <4>2, <2>3, <2>1 DEF Candidates
        <5>2. \A j \in 1 .. (tried[p] - 1) : Siblings[j] \notin marked
          BY <5>1, <4>2, <1>1, <2>1 DEF SearchInv, Probe
        <5> QED BY <4>2, <5>1, <5>2, <3>1, <1>1, <2>3 DEF Found, Probe, TypeOK
      <4> QED BY <4>1, <4>2
    <3> QED BY <3>1, <3>2, <1>1 DEF SearchInv, Probe, Found, TypeOK
  <2>4. CASE tried[p] <= Len(Candidates(p)) /\ Candidates(p)[tried[p]] \notin marked
    <3>1. tried' = [tried EXCEPT ![p] = @ + 1] /\ UNCHANGED <<pc, path, marked, override>>
      BY <1>1, <2>4, <2>1 DEF Probe
    <3>2. \A j \in DOMAIN Siblings :
             j < tried[p] + 1 /\ override[p] = NoPlace => Siblings[j] \notin marked
      BY <2>4, <2>1, <1>1 DEF Candidates, SearchInv, Probe
    <3> QED BY <3>1, <3>2 DEF SearchInv, Found, TypeOK
  <2> QED BY <2>1, <2>2, <2>3, <2>4
<1>2. CASE FindToolchain(p)
  BY <1>2 DEF FindToolchain, SearchInv, Found, TypeOK
<1>3. CASE ReadRevision(p)
  BY <1>3 DEF ReadRevision, SearchInv, Found, TypeOK
<1>4. CASE ReadDirty(p)
  BY <1>4 DEF ReadDirty, SearchInv, Found, TypeOK
<1>5. CASE Stage(p)
  BY <1>5 DEF Stage, SearchInv, Found, TypeOK
<1>6. ASSUME NEW f \in Files, Compile(p, f) PROVE SearchInv'
  BY <1>6 DEF Compile, SearchInv, Found, TypeOK
<1>7. CASE Run(p)
  BY <1>7 DEF Run, SearchInv, Found, TypeOK
<1>8. CASE Fail(p)
  BY <1>8 DEF Fail, SearchInv, Found, TypeOK
<1> QED BY <1>1, <1>2, <1>3, <1>4, <1>5, <1>6, <1>7, <1>8 DEF RunnerStep

LEMMA DirStep ==
    ASSUME Inv, NEW p \in Runners, RunnerStep(p)
    PROVE  DirInv'
<1> USE DEF Inv, owners, Goto, DirInv, TypeOK
<1>1. CASE Stage(p)
  BY <1>1 DEF Stage
<1>2. CASE Run(p) \/ Fail(p)
  BY <1>2 DEF Run, Fail
<1>3. ASSUME UNCHANGED dir PROVE DirInv'
  BY <1>3
<1> QED
  BY <1>1, <1>2, <1>3
  DEF RunnerStep, Probe, FindToolchain, ReadRevision, ReadDirty, Compile

\* A runner that stands aside keeps what is said of it.
LEMMA Aside ==
    ASSUME Inv, NEW p \in Runners, RunnerStep(p), NEW q \in Runners, q # p
    PROVE  (Now(q) /\ RevisionWas(q) /\ DirtyWas(q) /\ BuiltWas(q) /\ RowWas(q))'
<1>1. /\ pc'[q] = pc[q] /\ path'[q] = path[q] /\ revision'[q] = revision[q]
      /\ dirty'[q] = dirty[q] /\ dir'[q] = dir[q] /\ row'[q] = row[q] /\ seen'[q] = seen[q]
      /\ tree' = tree /\ head' = head
  BY DEF Inv, TypeOK, RunnerStep, Probe, FindToolchain, ReadRevision, ReadDirty, Stage,
         Compile, Run, Fail, Goto, owners
<1>2. pc[q] = "build" => built'[dir[q]] = built[dir[q]]
  <2> SUFFICES ASSUME pc[q] = "build" PROVE built'[dir[q]] = built[dir[q]]
    OBVIOUS
  <2>1. dir[q] \in Dirs /\ dir[q] # NoDir
    BY DEF Inv, TypeOK
  <2>2. CASE Stage(p)
    BY <2>2, <2>1 DEF Inv, TypeOK, Stage
  <2>3. ASSUME NEW f \in Files, Compile(p, f) PROVE built'[dir[q]] = built[dir[q]]
    <3>1. dir[p] # dir[q]
      BY <2>1 DEF Inv, DirInv
    <3> QED BY <2>3, <3>1, <2>1 DEF Inv, TypeOK, Compile
  <2> QED
    BY <2>2, <2>3 DEF RunnerStep, Probe, FindToolchain, ReadRevision, ReadDirty, Run, Fail
<1>3. Now(q) /\ RevisionWas(q) /\ DirtyWas(q) /\ BuiltWas(q) /\ RowWas(q)
  BY DEF Inv, ClaimInv
<1>4. Now(q)'
  BY <1>1, <1>3 DEF Now, State
<1>5. BuiltWas(q)'
  BY <1>1, <1>2, <1>3 DEF BuiltWas
<1> QED BY <1>1, <1>3, <1>4, <1>5 DEF RevisionWas, DirtyWas, RowWas

\* What is said of the runner that takes the step.
LEMMA Itself ==
    ASSUME Inv, NEW p \in Runners, RunnerStep(p)
    PROVE  (Now(p) /\ RevisionWas(p) /\ DirtyWas(p) /\ BuiltWas(p) /\ RowWas(p))'
<1> DEFINE Said == Now(p) /\ RevisionWas(p) /\ DirtyWas(p) /\ BuiltWas(p) /\ RowWas(p)
<1>1. Said
  BY DEF Inv, ClaimInv
<1>t. TypeOK /\ p \in Runners
  BY DEF Inv
<1> USE <1>1, <1>t DEF Now, RevisionWas, DirtyWas, BuiltWas, RowWas, owners, Goto
<1>2. CASE Probe(p)
  BY <1>2 DEF Probe, TypeOK
<1>3. CASE FindToolchain(p)
  BY <1>3 DEF FindToolchain, TypeOK
<1>4. CASE ReadRevision(p)
  <2>1. /\ seen'[p] = {State(path[p])} /\ revision'[p] = head[path[p]]
        /\ pc'[p] = "dirty" /\ path' = path /\ tree' = tree /\ head' = head
    BY <1>4 DEF ReadRevision, TypeOK
  <2> QED BY <2>1 DEF State
<1>5. CASE ReadDirty(p)
  <2>1. /\ seen'[p] = seen[p] /\ dirty'[p] = (tree[path[p]] # head[path[p]])
        /\ pc[p] = "dirty" /\ pc'[p] = "stage" /\ revision' = revision
        /\ path' = path /\ tree' = tree /\ head' = head
    BY <1>5 DEF ReadDirty, TypeOK
  <2>2. State(path[p]) \in seen[p]
    BY <2>1
  <2>3. dirty'[p] = (State(path[p]).tree # State(path[p]).head)
    BY <2>1 DEF State
  <2>4. DirtyWas(p)'
    BY <2>1, <2>2, <2>3
  <2>5. Now(p)'
    BY <2>1, <2>2 DEF State
  <2> QED BY <2>1, <2>4, <2>5
<1>6. CASE Stage(p)
  <2>1. /\ UNCHANGED <<path, seen, revision, dirty, tree, head>>
        /\ pc[p] = "stage" /\ pc'[p] = "build"
        /\ dir'[p] \in Dirs /\ built'[dir'[p]] = Nothing
    BY <1>6 DEF Stage, TypeOK
  <2>2. BuiltWas(p)'
    BY <2>1
  <2>3. Now(p)'
    BY <2>1 DEF State
  <2> QED BY <2>1, <2>2, <2>3
<1>7. ASSUME NEW f \in Files, Compile(p, f) PROVE Said'
  <2>1. /\ UNCHANGED <<pc, path, seen, revision, dirty, tree, head, dir, row>>
        /\ pc[p] = "build" /\ dir[p] \in Dirs
    BY <1>7 DEF Compile, TypeOK
  <2>2. State(path[p]) \in seen[p]
    BY <2>1
  <2>3. \A g \in Files : built'[dir[p]][g] = IF g = f THEN State(path[p]).tree[f]
                                             ELSE built[dir[p]][g]
    BY <1>7, <2>1 DEF Compile, TypeOK, State
  <2>4. BuiltWas(p)'
    BY <2>1, <2>2, <2>3
  <2>5. Now(p)'
    BY <2>1, <2>2 DEF State
  <2> QED BY <2>1, <2>4, <2>5
<1>8. CASE Run(p)
  <2>1. /\ UNCHANGED seen /\ pc[p] = "build" /\ pc'[p] = "done"
        /\ \A f \in Files : built[dir[p]][f] # Unread
        /\ row'[p] = [revision |-> revision[p], dirty |-> dirty[p], code |-> built[dir[p]]]
    BY <1>8 DEF Run, TypeOK
  <2>2. row'[p] \in PrintedRows
    BY <1>8, RowIsPrinted
  <2>3. RowWas(p)'
    BY <2>1, <2>2
  <2> QED BY <2>1, <2>3
<1>9. CASE Fail(p)
  BY <1>9 DEF Fail, TypeOK
<1> QED BY <1>2, <1>3, <1>4, <1>5, <1>6, <1>7, <1>8, <1>9 DEF RunnerStep

LEMMA ClaimStep ==
    ASSUME Inv, NEW p \in Runners, RunnerStep(p)
    PROVE  ClaimInv'
BY Aside, Itself DEF ClaimInv

\* Owners add to the history of those who follow the checkout, and to no other.
LEMMA OwnerStays ==
    ASSUME Inv, NEW c \in Checkouts, NEW t \in Trees, NEW h \in Trees, Change(c, t, h)
    PROVE  SearchInv' /\ DirInv' /\ ClaimInv'
<1>1. SearchInv' /\ DirInv'
  BY DEF Inv, Change, SearchInv, Found, DirInv
<1>2. ASSUME NEW q \in Runners
      PROVE  (Now(q) /\ RevisionWas(q) /\ DirtyWas(q) /\ BuiltWas(q) /\ RowWas(q))'
  <2>1. /\ UNCHANGED <<pc, path, revision, dirty, dir, built, row>>
        /\ seen[q] \subseteq seen'[q]
    BY DEF Inv, TypeOK, Change
  <2>2. Now(q)'
    <3> SUFFICES ASSUME pc[q] \in Following PROVE State(path[q])' \in seen'[q]
      BY <2>1 DEF Now
    <3>1. path[q] \in Checkouts /\ State(path[q]) \in seen[q]
      BY PathIsCheckout DEF Inv, ClaimInv, Now
    <3>2. CASE path[q] = c
      BY <3>2, <2>1 DEF Inv, TypeOK, Change, State
    <3>3. CASE path[q] # c
      BY <3>3, <3>1, <2>1 DEF Inv, TypeOK, Change, State
    <3> QED BY <3>2, <3>3
  <2>3. RevisionWas(q) /\ DirtyWas(q) /\ BuiltWas(q) /\ RowWas(q)
    BY DEF Inv, ClaimInv
  <2>4. RevisionWas(q)' /\ DirtyWas(q)'
    BY <2>1, <2>3 DEF RevisionWas, DirtyWas
  <2>5. BuiltWas(q)'
    BY <2>1, <2>3 DEF BuiltWas
  <2>6. RowWas(q)'
    BY <2>1, <2>3 DEF RowWas
  <2> QED BY <2>2, <2>4, <2>5, <2>6
<1> QED BY <1>1, <1>2 DEF ClaimInv

LEMMA NextInv == Inv /\ [Next]_vars => Inv'
<1> SUFFICES ASSUME Inv, [Next]_vars PROVE Inv'
  OBVIOUS
<1>1. ASSUME NEW p \in Runners, RunnerStep(p) PROVE Inv'
  BY <1>1, TypeRunner, SearchStep, DirStep, ClaimStep DEF Inv
<1>2. ASSUME NEW c \in Checkouts, OwnerStep(c) PROVE Inv'
  <2>1. PICK t \in Trees, h \in Trees : Change(c, t, h)
    BY <1>2, OwnerChanges DEF Inv
  <2> QED BY <2>1, TypeOwner, OwnerStays DEF Inv
<1>3. CASE UNCHANGED vars
  <2> USE <1>3 DEF vars, Inv
  <2>1. TypeOK'
    BY DEF TypeOK
  <2>2. SearchInv' /\ DirInv'
    BY DEF SearchInv, Found, DirInv
  <2>3. ASSUME NEW p \in Runners
        PROVE  (Now(p) /\ RevisionWas(p) /\ DirtyWas(p) /\ BuiltWas(p) /\ RowWas(p))'
    BY DEF ClaimInv, Now, RevisionWas, DirtyWas, BuiltWas, RowWas, State
  <2> QED BY <2>1, <2>2, <2>3 DEF ClaimInv
<1> QED BY <1>1, <1>2, <1>3 DEF Next

LEMMA Invariance == Spec => []Inv
BY InitInv, NextInv, PTL DEF Spec

--------------------------------------------------------------------------------
\* Every state of the runners, the checkouts and the directories is well typed,
\* and a runner has a directory exactly while it builds and runs.
THEOREM TypeCorrect == Spec => []TypeOK
<1>1. Inv => TypeOK
  BY DEF Inv
<1> QED BY <1>1, Invariance, PTL

\* A runner measures what the command line names, or the first sibling found.
THEOREM SelectedMeasured == Spec => []SelectedIsMeasured
<1>1. Inv => SelectedIsMeasured
  BY DEF Inv, SearchInv, Found, SelectedIsMeasured
<1> QED BY <1>1, Invariance, PTL

\* Revision, dirty flag and every source of a row are those of the checkout at
\* some moment since its identity was asked, whoever interferes.
THEOREM ClaimsWereTrue == Spec => []EveryClaimWasTrue
<1>1. Inv => EveryClaimWasTrue
  BY DEF Inv, ClaimInv, RowWas, EveryClaimWasTrue
<1> QED BY <1>1, Invariance, PTL

\* If nobody touched the checkout meanwhile, the row describes the code it measured.
THEOREM UndisturbedTrue == Spec => []UndisturbedRowsAreTrue
<1>1. Inv => UndisturbedRowsAreTrue
  <2> SUFFICES ASSUME Inv, NEW p \in Runners, pc[p] = "done", \A s, t \in seen[p] : s = t
               PROVE  /\ row[p].dirty = (row[p].code # row[p].revision)
                      /\ \E s \in seen[p] : s = [tree |-> row[p].code, head |-> row[p].revision]
    BY DEF UndisturbedRowsAreTrue
  <2>1. PICK s \in seen[p] : row[p].revision = s.head
    BY DEF Inv, ClaimInv, RowWas
  <2>2. s \in States
    BY DEF Inv, TypeOK
  <2>3. row[p].dirty = (s.tree # s.head) /\ \A f \in Files : row[p].code[f] = s.tree[f]
    BY DEF Inv, ClaimInv, RowWas
  <2>4. row[p].code \in Trees
    BY DEF Inv, ClaimInv, RowWas, PrintedRows
  <2>5. row[p].code = s.tree
    BY <2>2, <2>3, <2>4
  <2> QED BY <2>1, <2>2, <2>3, <2>5
<1> QED BY <1>1, Invariance, PTL
================================================================================
