------------------------------ MODULE AdaptersProofs ------------------------------
(***************************************************************************)
(* Theorems about Adapters, for any set of checks an implementation may    *)
(* fail and any set of workloads during which the clock may stand still.   *)
(***************************************************************************)
EXTENDS Adapters, ListFacts

--------------------------------------------------------------------------------
(***************************************************************************)
(* Lists put together.                                                     *)
(***************************************************************************)
LEMMA Joined ==
    ASSUME NEW A, NEW s \in Seq(A), NEW t \in Seq(A)
    PROVE  /\ s \o t \in Seq(A) /\ Len(s \o t) = Len(s) + Len(t)
           /\ \A i \in 1 .. Len(s) : (s \o t)[i] = s[i]
           /\ \A i \in Len(s) + 1 .. Len(s) + Len(t) : (s \o t)[i] = t[i - Len(s)]
<1> DEFINE m == Len(s)
           n == Len(t)
           both == s \o t
<1>1. /\ m \in Nat /\ n \in Nat
      /\ both \in Seq(A) /\ Len(both) = m + n
      /\ \A i \in 1 .. m + n : both[i] = IF i <= m THEN s[i] ELSE t[i - m]
  BY ConcatProperties
<1> HIDE DEF both, m, n
<1>2. \A i \in 1 .. m : both[i] = s[i]
  BY <1>1
<1>3. \A i \in m + 1 .. m + n : both[i] = t[i - m]
  BY <1>1
<1> QED
  BY <1>1, <1>2, <1>3 DEF both, m, n

LEMMA ThreeJoined ==
    ASSUME NEW A, NEW a \in Seq(A), NEW b \in Seq(A), NEW c \in Seq(A)
    PROVE  LET p == Len(a)
               q == Len(a) + Len(b)
               r == Len(a) + Len(b) + Len(c)
               abc == (a \o b) \o c
           IN  /\ abc \in Seq(A) /\ Len(abc) = r
               /\ \A i \in 1 .. p : abc[i] = a[i]
               /\ \A i \in p + 1 .. q : abc[i] = b[i - p]
               /\ \A i \in q + 1 .. r : abc[i] = c[i - q]
<1> DEFINE p == Len(a)
           q == Len(a) + Len(b)
           r == Len(a) + Len(b) + Len(c)
           ab == a \o b
           abc == ab \o c
<1>1. p \in Nat /\ q \in Nat /\ r \in Nat /\ p <= q /\ q <= r /\ r = q + Len(c)
  BY LenProperties
<1>2. /\ ab \in Seq(A) /\ Len(ab) = q
      /\ \A i \in 1 .. p : ab[i] = a[i]
      /\ \A i \in p + 1 .. q : ab[i] = b[i - p]
  BY Joined
<1> HIDE DEF ab
<1>3. /\ abc \in Seq(A) /\ Len(abc) = Len(ab) + Len(c)
      /\ \A i \in 1 .. Len(ab) : abc[i] = ab[i]
      /\ \A i \in Len(ab) + 1 .. Len(ab) + Len(c) : abc[i] = c[i - Len(ab)]
  <2>1. ab \in Seq(A)
    BY <1>2
  <2> QED
    BY <2>1, Joined
<1> HIDE DEF abc, p, q, r
<1>4. /\ Len(abc) = r
      /\ \A i \in 1 .. q : abc[i] = ab[i]
      /\ \A i \in q + 1 .. r : abc[i] = c[i - q]
  BY <1>1, <1>2, <1>3
<1>5. \A i \in 1 .. p : abc[i] = a[i]
  BY <1>1, <1>2, <1>4
<1>6. \A i \in p + 1 .. q : abc[i] = b[i - p]
  BY <1>1, <1>2, <1>4
<1> QED
  BY <1>3, <1>4, <1>5, <1>6 DEF abc, ab, p, q, r

(***************************************************************************)
(* The manifest.                                                           *)
(***************************************************************************)
LEMMA WorkloadNames ==
    /\ Workloads = {"dense", "orthogonal", "orthogonal_conversion", "motor", "sandwich",
                    "outer", "rotor", "translator", "fk", "jacobian", "inertia", "transform"}
                   \cup Batches
    /\ Batches = {"motors16", "motors256", "motors4096", "points16", "points256", "points4096"}
    /\ \E number : \A i \in 1 .. 18 : Ids[i] \in Workloads /\ number[Ids[i]] = i
    /\ \A w \in Workloads : \E i \in 1 .. 18 : Ids[i] = w
    /\ Len(Ids) = 18
<1>1. Len(ScalarIds) = 12 /\ Len(BatchIds) = 6
  BY DEF ScalarIds, BatchIds
<1> DEFINE Names == {"dense", "orthogonal", "orthogonal_conversion", "motor", "sandwich",
                     "outer", "rotor", "translator", "fk", "jacobian", "inertia",
                     "transform", "motors16", "motors256", "motors4096", "points16",
                     "points256", "points4096"}
<1>2. ScalarIds \in Seq(Names) /\ BatchIds \in Seq(Names)
  BY DEF ScalarIds, BatchIds
<1> HIDE DEF Names
<1>3. /\ Len(Ids) = 18 /\ DOMAIN Ids = 1 .. 18
      /\ \A i \in 1 .. 12 : Ids[i] = ScalarIds[i]
      /\ \A i \in 13 .. 18 : Ids[i] = BatchIds[i - 12]
  <2>1. /\ Ids \in Seq(Names) /\ Len(Ids) = 12 + 6
        /\ \A i \in 1 .. 12 : Ids[i] = ScalarIds[i]
        /\ \A i \in 12 + 1 .. 12 + 6 : Ids[i] = BatchIds[i - 12]
    <3>1. /\ Ids \in Seq(Names) /\ Len(Ids) = Len(ScalarIds) + Len(BatchIds)
          /\ \A i \in 1 .. Len(ScalarIds) : Ids[i] = ScalarIds[i]
          /\ \A i \in Len(ScalarIds) + 1 .. Len(ScalarIds) + Len(BatchIds) :
                Ids[i] = BatchIds[i - Len(ScalarIds)]
      BY <1>2, Joined DEF Ids
    <3> QED
      BY <1>1, <3>1
  <2> QED
    BY <2>1
<1>4. /\ Ids[1] = "dense" /\ Ids[2] = "orthogonal" /\ Ids[3] = "orthogonal_conversion"
      /\ Ids[4] = "motor" /\ Ids[5] = "sandwich" /\ Ids[6] = "outer" /\ Ids[7] = "rotor"
      /\ Ids[8] = "translator" /\ Ids[9] = "fk" /\ Ids[10] = "jacobian"
      /\ Ids[11] = "inertia" /\ Ids[12] = "transform"
  BY <1>3 DEF ScalarIds
<1>5. /\ Ids[13] = "motors16" /\ Ids[14] = "motors256" /\ Ids[15] = "motors4096"
      /\ Ids[16] = "points16" /\ Ids[17] = "points256" /\ Ids[18] = "points4096"
  BY <1>3 DEF BatchIds
<1>6. Batches = {"motors16", "motors256", "motors4096", "points16", "points256", "points4096"}
  BY DEF Batches, Batch
<1>7. Workloads = {Ids[i] : i \in 1 .. 18}
  BY <1>3 DEF Workloads
<1>8. Workloads = {"dense", "orthogonal", "orthogonal_conversion", "motor", "sandwich",
                    "outer", "rotor", "translator", "fk", "jacobian", "inertia", "transform"}
                   \cup Batches
  BY <1>4, <1>5, <1>6, <1>7
<1>9. \E number : \A i \in 1 .. 18 : number[Ids[i]] = i
  <2> DEFINE number == 
         [dense |-> 1, orthogonal |-> 2, orthogonal_conversion |-> 3, motor |-> 4,
          sandwich |-> 5, outer |-> 6, rotor |-> 7, translator |-> 8, fk |-> 9,
          jacobian |-> 10, inertia |-> 11, transform |-> 12, motors16 |-> 13,
          motors256 |-> 14, motors4096 |-> 15, points16 |-> 16, points256 |-> 17,
          points4096 |-> 18]
  <2>1. \A i \in 1 .. 18 : number[Ids[i]] = i
    BY <1>4, <1>5
  <2> QED
    BY <2>1
<1> QED
  BY <1>3, <1>6, <1>7, <1>8, <1>9

--------------------------------------------------------------------------------
(***************************************************************************)
(* The programs.                                                           *)
(***************************************************************************)
ProgramSteps ==
    {Check(w) : w \in Workloads} \cup {Measure(w) : w \in Workloads} \cup {Gap(w) : w \in Workloads}

LEMMA StepKinds ==
    /\ \A w \in Workloads :
          Check(w) \in ProgramSteps /\ Measure(w) \in ProgramSteps /\ Gap(w) \in ProgramSteps
    /\ \A c \in ProgramSteps :
          /\ c.id \in Workloads /\ c.does \in {"check", "measure", "gap"}
          /\ c.does = "measure" => c = Measure(c.id)
    /\ \A w : /\ Check(w).does = "check" /\ Check(w).id = w
              /\ Measure(w).does = "measure" /\ Measure(w).id = w
              /\ Gap(w).does = "gap" /\ Gap(w).id = w
<1>1. \A w : /\ Check(w).does = "check" /\ Check(w).id = w
             /\ Measure(w).does = "measure" /\ Measure(w).id = w
             /\ Gap(w).does = "gap" /\ Gap(w).id = w
  BY DEF Check, Measure, Gap
<1>2. \A w \in Workloads :
         Check(w) \in ProgramSteps /\ Measure(w) \in ProgramSteps /\ Gap(w) \in ProgramSteps
  BY DEF ProgramSteps
<1>3. ASSUME NEW c \in ProgramSteps
      PROVE  /\ c.id \in Workloads /\ c.does \in {"check", "measure", "gap"}
             /\ c.does = "measure" => c = Measure(c.id)
  <2>1. PICK w \in Workloads : c = Check(w) \/ c = Measure(w) \/ c = Gap(w)
    BY DEF ProgramSteps
  <2> QED
    BY <1>1, <2>1
<1> QED
  BY <1>1, <1>2, <1>3

LEMMA ListedSteps ==
    ASSUME NEW ids \in Seq(Workloads)
    PROVE  /\ Gaps(ids) \in Seq(ProgramSteps) /\ Len(Gaps(ids)) = Len(ids)
           /\ \A i \in 1 .. Len(ids) : Gaps(ids)[i] = Gap(ids[i])
           /\ Measures(ids) \in Seq(ProgramSteps) /\ Len(Measures(ids)) = Len(ids)
           /\ \A i \in 1 .. Len(ids) : Measures(ids)[i] = Measure(ids[i])
<1> DEFINE n == Len(ids)
           g == Gaps(ids)
           m == Measures(ids)
<1>1. n \in Nat /\ DOMAIN ids = 1 .. n /\ \A i \in 1 .. n : ids[i] \in Workloads
  BY ElementOfSeq
<1>2. \A i \in 1 .. n : Gap(ids[i]) \in ProgramSteps /\ Measure(ids[i]) \in ProgramSteps
  BY <1>1, StepKinds
<1>3. g = [i \in 1 .. n |-> Gap(ids[i])] /\ m = [i \in 1 .. n |-> Measure(ids[i])]
  BY <1>1 DEF Gaps, Measures
<1> HIDE DEF n, g, m
<1>4. g \in Seq(ProgramSteps) /\ Len(g) = n
  BY <1>1, <1>2, <1>3
<1>5. m \in Seq(ProgramSteps) /\ Len(m) = n
  BY <1>1, <1>2, <1>3
<1> QED
  BY <1>3, <1>4, <1>5 DEF n, g, m

\* A workload is measured, or reported as a gap, in one place at most.
OncePerWorkload(P) ==
    \A k, l \in DOMAIN P : P[k].does # "check" /\ P[l].does # "check" /\ P[k].id = P[l].id => k = l

LEMMA CppSteps ==
    /\ CppProgram \in Seq(ProgramSteps) /\ Len(CppProgram) = 19
    /\ OncePerWorkload(CppProgram)
    /\ CppProgram[19].does # "check"
<1> DEFINE names == <<"dense", "motor", "sandwich", "outer", "rotor", "translator", "fk",
                      "jacobian">>
           a == <<Check("fk"), Check("jacobian")>>
           b == Measures(names)
           c == <<Check("inertia"), Measure("inertia"), Measure("transform")>>
           d == Gaps(BatchIds)
           abc == (a \o b) \o c
           P == abc \o d
           place == [dense |-> 3, motor |-> 4, sandwich |-> 5, outer |-> 6, rotor |-> 7,
                     translator |-> 8, fk |-> 9, jacobian |-> 10, inertia |-> 12,
                     transform |-> 13, motors16 |-> 14, motors256 |-> 15, motors4096 |-> 16,
                     points16 |-> 17, points256 |-> 18, points4096 |-> 19]
<1>1. P = CppProgram
  BY DEF CppProgram
<1>2. /\ names \in Seq(Workloads) /\ Len(names) = 8
      /\ BatchIds \in Seq(Workloads) /\ Len(BatchIds) = 6
  BY WorkloadNames DEF BatchIds
<1>3. /\ a \in Seq(ProgramSteps) /\ Len(a) = 2
      /\ c \in Seq(ProgramSteps) /\ Len(c) = 3
  BY WorkloadNames, StepKinds
<1>4. /\ a[1].does = "check" /\ a[2].does = "check" /\ c[1].does = "check"
      /\ c[2] = Measure("inertia") /\ c[3] = Measure("transform")
  BY StepKinds
<1>5. \A k \in 1 .. 8 : place[names[k]] = k + 2
  OBVIOUS
<1>6. \A k \in 1 .. 6 : place[BatchIds[k]] = k + 13
  BY DEF BatchIds
<1>7. place["inertia"] = 12 /\ place["transform"] = 13
  OBVIOUS
<1> HIDE DEF names, place, a, c
<1>8. /\ b \in Seq(ProgramSteps) /\ Len(b) = 8
      /\ d \in Seq(ProgramSteps) /\ Len(d) = 6
      /\ \A k \in 1 .. 8 : b[k] = Measure(names[k])
      /\ \A k \in 1 .. 6 : d[k] = Gap(BatchIds[k])
  BY <1>2, ListedSteps
<1> HIDE DEF b, d
<1>9. /\ abc \in Seq(ProgramSteps) /\ Len(abc) = 13
      /\ \A k \in 1 .. 2 : abc[k] = a[k]
      /\ \A k \in 3 .. 10 : abc[k] = b[k - 2]
      /\ \A k \in 11 .. 13 : abc[k] = c[k - 10]
  <2>1. /\ abc \in Seq(ProgramSteps) /\ Len(abc) = Len(a) + Len(b) + Len(c)
        /\ \A i \in 1 .. Len(a) : abc[i] = a[i]
        /\ \A i \in Len(a) + 1 .. Len(a) + Len(b) : abc[i] = b[i - Len(a)]
        /\ \A i \in Len(a) + Len(b) + 1 .. Len(a) + Len(b) + Len(c) :
              abc[i] = c[i - (Len(a) + Len(b))]
    <3>1. a \in Seq(ProgramSteps) /\ b \in Seq(ProgramSteps) /\ c \in Seq(ProgramSteps)
      BY <1>3, <1>8
    <3> QED
      BY <3>1, ThreeJoined
  <2>2. Len(a) = 2 /\ Len(b) = 8 /\ Len(c) = 3
    BY <1>3, <1>8
  <2> HIDE DEF abc
  <2> QED
    BY <2>1, <2>2
<1> HIDE DEF abc
<1>10. /\ P \in Seq(ProgramSteps) /\ Len(P) = 19
       /\ \A k \in 1 .. 13 : P[k] = abc[k]
       /\ \A k \in 14 .. 19 : P[k] = d[k - 13]
  <2>1. /\ P \in Seq(ProgramSteps) /\ Len(P) = Len(abc) + Len(d)
        /\ \A i \in 1 .. Len(abc) : P[i] = abc[i]
        /\ \A i \in Len(abc) + 1 .. Len(abc) + Len(d) : P[i] = d[i - Len(abc)]
    <3>1. abc \in Seq(ProgramSteps) /\ d \in Seq(ProgramSteps)
      BY <1>8, <1>9
    <3> QED
      BY <3>1, Joined
  <2>2. Len(abc) = 13 /\ Len(d) = 6
    BY <1>8, <1>9
  <2> HIDE DEF P
  <2> QED
    BY <2>1, <2>2
<1> HIDE DEF P
<1>11. /\ \A k \in 1 .. 2 : P[k].does = "check"
       /\ \A k \in 3 .. 10 : P[k] = Measure(names[k - 2])
       /\ P[11].does = "check"
       /\ P[12] = Measure("inertia") /\ P[13] = Measure("transform")
       /\ \A k \in 14 .. 19 : P[k] = Gap(BatchIds[k - 13])
  <2>1. /\ \A k \in 1 .. 2 : P[k] = a[k]
        /\ \A k \in 3 .. 10 : P[k] = b[k - 2]
    BY <1>9, <1>10
  <2>2. P[11] = c[1] /\ P[12] = c[2] /\ P[13] = c[3]
    <3>1. abc[11] = c[1] /\ abc[12] = c[2] /\ abc[13] = c[3]
      BY <1>9
    <3> QED
      BY <1>10, <3>1
  <2>3. ASSUME NEW k \in 14 .. 19 PROVE P[k] = Gap(BatchIds[k - 13])
    <3>1. k - 13 \in 1 .. 6
      OBVIOUS
    <3>2. P[k] = d[k - 13]
      BY <1>10
    <3> QED
      BY <1>8, <3>1, <3>2
  <2>4. ASSUME NEW k \in 3 .. 10 PROVE P[k] = Measure(names[k - 2])
    <3>1. k - 2 \in 1 .. 8 /\ P[k] = b[k - 2]
      BY <2>1
    <3> QED
      BY <1>8, <3>1
  <2>5. \A k \in 1 .. 2 : P[k].does = "check"
    BY <1>4, <2>1
  <2>6. P[11].does = "check" /\ P[12] = Measure("inertia") /\ P[13] = Measure("transform")
    BY <1>4, <2>2
  <2> QED
    BY <2>3, <2>4, <2>5, <2>6
<1>12. ASSUME NEW k \in 1 .. 19, P[k].does # "check" PROVE place[P[k].id] = k
  <2>1. CASE k \in 3 .. 10
    <3>1. k - 2 \in 1 .. 8 /\ P[k].id = names[k - 2]
      BY <1>11, <2>1, StepKinds
    <3> QED
      BY <1>5, <3>1
  <2>2. CASE k \in 14 .. 19
    <3>1. k - 13 \in 1 .. 6 /\ P[k].id = BatchIds[k - 13]
      BY <1>11, <2>2, StepKinds
    <3> QED
      BY <1>6, <3>1
  <2>3. CASE k \in {12, 13}
    BY <1>7, <1>11, <2>3, StepKinds
  <2>4. k \notin 1 .. 2 /\ k # 11
    BY <1>11, <1>12
  <2> QED
    BY <2>1, <2>2, <2>3, <2>4
<1>13. P[19].does # "check"
  BY <1>11, StepKinds
<1>14. OncePerWorkload(P)
  <2>1. DOMAIN P = 1 .. 19
    BY <1>10
  <2> QED
    BY <1>12, <2>1 DEF OncePerWorkload
<1> QED
  BY <1>1, <1>10, <1>13, <1>14

LEMMA IdrisSteps ==
    /\ IdrisProgram \in Seq(ProgramSteps) /\ Len(IdrisProgram) = 16
    /\ OncePerWorkload(IdrisProgram)
    /\ IdrisProgram[16].does # "check"
    /\ \A k \in 1 .. 16 : IdrisProgram[k].does = "measure" => IdrisProgram[k].id \notin Batches
<1> DEFINE names == <<"dense", "motor", "sandwich", "outer", "rotor", "fk">>
           others == BatchIds \o <<"transform">>
           a == Measures(names)
           b == <<Check("jacobian"), Measure("jacobian"), Measure("inertia")>>
           c == Gaps(others)
           P == (a \o b) \o c
           place == [dense |-> 1, motor |-> 2, sandwich |-> 3, outer |-> 4, rotor |-> 5,
                     fk |-> 6, jacobian |-> 8, inertia |-> 9, motors16 |-> 10,
                     motors256 |-> 11, motors4096 |-> 12, points16 |-> 13, points256 |-> 14,
                     points4096 |-> 15, transform |-> 16]
<1>1. P = IdrisProgram
  BY DEF IdrisProgram
<1>2. names \in Seq(Workloads) /\ Len(names) = 6
  BY WorkloadNames
<1>3. /\ others \in Seq(Workloads) /\ Len(others) = 7
      /\ \A k \in 1 .. 6 : others[k] = BatchIds[k]
      /\ others[7] = "transform"
  <2> DEFINE last == <<"transform">>
  <2>1. /\ BatchIds \in Seq(Workloads) /\ Len(BatchIds) = 6
        /\ last \in Seq(Workloads) /\ Len(last) = 1 /\ last[1] = "transform"
    BY WorkloadNames DEF BatchIds
  <2> HIDE DEF last
  <2>2. BatchIds \in Seq(Workloads) /\ last \in Seq(Workloads)
    BY <2>1
  <2>3. /\ BatchIds \o last \in Seq(Workloads)
        /\ Len(BatchIds \o last) = Len(BatchIds) + Len(last)
        /\ \A i \in 1 .. Len(BatchIds) : (BatchIds \o last)[i] = BatchIds[i]
        /\ \A i \in Len(BatchIds) + 1 .. Len(BatchIds) + Len(last) :
              (BatchIds \o last)[i] = last[i - Len(BatchIds)]
    BY <2>2, Joined
  <2>4. others = BatchIds \o last
    BY DEF last
  <2> HIDE DEF others
  <2> QED
    BY <2>1, <2>3, <2>4
<1>4. b \in Seq(ProgramSteps) /\ Len(b) = 3
  BY WorkloadNames, StepKinds
<1>5. b[1].does = "check" /\ b[2] = Measure("jacobian") /\ b[3] = Measure("inertia")
  BY StepKinds
<1>6. \A k \in 1 .. 6 : place[names[k]] = k /\ names[k] \notin Batches
  BY WorkloadNames
<1>7. \A k \in 1 .. 7 : place[others[k]] = k + 9
  <2>1. place["transform"] = 16 /\ \A k \in 1 .. 6 : place[BatchIds[k]] = k + 9
    BY DEF BatchIds
  <2> HIDE DEF place, others
  <2> QED
    BY <1>3, <2>1
<1>8. /\ place["jacobian"] = 8 /\ place["inertia"] = 9
      /\ "jacobian" \notin Batches /\ "inertia" \notin Batches
  BY WorkloadNames
<1> HIDE DEF names, others, place, b
<1>9. /\ a \in Seq(ProgramSteps) /\ Len(a) = 6
      /\ c \in Seq(ProgramSteps) /\ Len(c) = 7
      /\ \A k \in 1 .. 6 : a[k] = Measure(names[k])
      /\ \A k \in 1 .. 7 : c[k] = Gap(others[k])
  BY <1>2, <1>3, ListedSteps
<1> HIDE DEF a, c
<1>10. /\ P \in Seq(ProgramSteps) /\ Len(P) = 16
       /\ \A k \in 1 .. 6 : P[k] = a[k]
       /\ \A k \in 7 .. 9 : P[k] = b[k - 6]
       /\ \A k \in 10 .. 16 : P[k] = c[k - 9]
  <2>1. /\ P \in Seq(ProgramSteps) /\ Len(P) = Len(a) + Len(b) + Len(c)
        /\ \A i \in 1 .. Len(a) : P[i] = a[i]
        /\ \A i \in Len(a) + 1 .. Len(a) + Len(b) : P[i] = b[i - Len(a)]
        /\ \A i \in Len(a) + Len(b) + 1 .. Len(a) + Len(b) + Len(c) :
              P[i] = c[i - (Len(a) + Len(b))]
    <3>1. a \in Seq(ProgramSteps) /\ b \in Seq(ProgramSteps) /\ c \in Seq(ProgramSteps)
      BY <1>4, <1>9
    <3> QED
      BY <3>1, ThreeJoined
  <2>2. Len(a) = 6 /\ Len(b) = 3 /\ Len(c) = 7
    BY <1>4, <1>9
  <2> HIDE DEF P
  <2> QED
    BY <2>1, <2>2
<1> HIDE DEF P
<1>11. /\ \A k \in 1 .. 6 : P[k] = Measure(names[k])
       /\ P[7].does = "check"
       /\ P[8] = Measure("jacobian") /\ P[9] = Measure("inertia")
       /\ \A k \in 10 .. 16 : P[k] = Gap(others[k - 9])
  BY <1>5, <1>9, <1>10
<1>12. ASSUME NEW k \in 1 .. 16, P[k].does # "check"
       PROVE  place[P[k].id] = k /\ (P[k].does = "measure" => P[k].id \notin Batches)
  <2>1. CASE k \in 1 .. 6
    BY <1>6, <1>11, <2>1, StepKinds
  <2>2. CASE k \in 10 .. 16
    <3>1. k - 9 \in 1 .. 7 /\ P[k].id = others[k - 9] /\ P[k].does = "gap"
      BY <1>11, <2>2, StepKinds
    <3> QED
      BY <1>7, <3>1
  <2>3. CASE k \in {8, 9}
    BY <1>8, <1>11, <2>3, StepKinds
  <2>4. k # 7
    BY <1>11, <1>12
  <2> QED
    BY <2>1, <2>2, <2>3, <2>4
<1>13. P[16].does # "check"
  BY <1>11, StepKinds
<1>14. OncePerWorkload(P)
  <2>1. DOMAIN P = 1 .. 16
    BY <1>10
  <2> QED
    BY <1>12, <2>1 DEF OncePerWorkload
<1> QED
  BY <1>1, <1>10, <1>12, <1>13, <1>14

LEMMA RustSteps ==
    /\ RustProgram \in Seq(ProgramSteps) /\ Len(RustProgram) = 20
    /\ OncePerWorkload(RustProgram)
    /\ RustProgram[20].does # "check"
    /\ \A w \in Workloads : \E k \in 1 .. 20 : RustProgram[k].does # "check" /\ RustProgram[k].id = w
<1> DEFINE names == <<"orthogonal", "orthogonal_conversion", "motor", "sandwich", "outer",
                      "rotor", "translator", "fk", "jacobian">>
           a == <<Check("fk"), Gap("dense")>>
           b == Measures(names)
           c == <<Check("inertia"), Measure("inertia"), Measure("transform")>>
           d == Measures(BatchIds)
           abc == (a \o b) \o c
           P == abc \o d
           place == [dense |-> 2, orthogonal |-> 3, orthogonal_conversion |-> 4, motor |-> 5,
                     sandwich |-> 6, outer |-> 7, rotor |-> 8, translator |-> 9, fk |-> 10,
                     jacobian |-> 11, inertia |-> 13, transform |-> 14, motors16 |-> 15,
                     motors256 |-> 16, motors4096 |-> 17, points16 |-> 18, points256 |-> 19,
                     points4096 |-> 20]
<1>1. P = RustProgram
  BY DEF RustProgram
<1>2. /\ names \in Seq(Workloads) /\ Len(names) = 9
      /\ BatchIds \in Seq(Workloads) /\ Len(BatchIds) = 6
  BY WorkloadNames DEF BatchIds
<1>3. /\ a \in Seq(ProgramSteps) /\ Len(a) = 2
      /\ c \in Seq(ProgramSteps) /\ Len(c) = 3
  BY WorkloadNames, StepKinds
<1>4. /\ a[1].does = "check" /\ a[2] = Gap("dense") /\ c[1].does = "check"
      /\ c[2] = Measure("inertia") /\ c[3] = Measure("transform")
  BY StepKinds
<1>5. \A k \in 1 .. 9 : place[names[k]] = k + 2
  OBVIOUS
<1>6. \A k \in 1 .. 6 : place[BatchIds[k]] = k + 14
  BY DEF BatchIds
<1>7. place["dense"] = 2 /\ place["inertia"] = 13 /\ place["transform"] = 14
  OBVIOUS
<1>8. \A w \in Workloads : \/ w \in {"dense", "inertia", "transform"}
                           \/ \E k \in 1 .. 9 : names[k] = w
                           \/ \E k \in 1 .. 6 : BatchIds[k] = w
  <2>1. \A w \in Batches : \E k \in 1 .. 6 : BatchIds[k] = w
    BY WorkloadNames DEF BatchIds
  <2>2. /\ names[1] = "orthogonal" /\ names[2] = "orthogonal_conversion"
        /\ names[3] = "motor" /\ names[4] = "sandwich" /\ names[5] = "outer"
        /\ names[6] = "rotor" /\ names[7] = "translator" /\ names[8] = "fk"
        /\ names[9] = "jacobian"
    OBVIOUS
  <2>3. /\ 1 \in 1 .. 9 /\ 2 \in 1 .. 9 /\ 3 \in 1 .. 9 /\ 4 \in 1 .. 9 /\ 5 \in 1 .. 9
        /\ 6 \in 1 .. 9 /\ 7 \in 1 .. 9 /\ 8 \in 1 .. 9 /\ 9 \in 1 .. 9
    OBVIOUS
  <2> HIDE DEF names
  <2>4. \A w \in {"orthogonal", "orthogonal_conversion", "motor", "sandwich", "outer",
                  "rotor", "translator", "fk", "jacobian"} : \E k \in 1 .. 9 : names[k] = w
    BY <2>2, <2>3
  <2> QED
    BY <2>1, <2>4, WorkloadNames
<1> HIDE DEF names, place, a, c
<1>9. /\ b \in Seq(ProgramSteps) /\ Len(b) = 9
      /\ d \in Seq(ProgramSteps) /\ Len(d) = 6
      /\ \A k \in 1 .. 9 : b[k] = Measure(names[k])
      /\ \A k \in 1 .. 6 : d[k] = Measure(BatchIds[k])
  BY <1>2, ListedSteps
<1> HIDE DEF b, d
<1>10. /\ abc \in Seq(ProgramSteps) /\ Len(abc) = 14
       /\ \A k \in 1 .. 2 : abc[k] = a[k]
       /\ \A k \in 3 .. 11 : abc[k] = b[k - 2]
       /\ \A k \in 12 .. 14 : abc[k] = c[k - 11]
  <2>1. /\ abc \in Seq(ProgramSteps) /\ Len(abc) = Len(a) + Len(b) + Len(c)
        /\ \A i \in 1 .. Len(a) : abc[i] = a[i]
        /\ \A i \in Len(a) + 1 .. Len(a) + Len(b) : abc[i] = b[i - Len(a)]
        /\ \A i \in Len(a) + Len(b) + 1 .. Len(a) + Len(b) + Len(c) :
              abc[i] = c[i - (Len(a) + Len(b))]
    <3>1. a \in Seq(ProgramSteps) /\ b \in Seq(ProgramSteps) /\ c \in Seq(ProgramSteps)
      BY <1>3, <1>9
    <3> QED
      BY <3>1, ThreeJoined
  <2>2. Len(a) = 2 /\ Len(b) = 9 /\ Len(c) = 3
    BY <1>3, <1>9
  <2> HIDE DEF abc
  <2> QED
    BY <2>1, <2>2
<1> HIDE DEF abc
<1>11. /\ P \in Seq(ProgramSteps) /\ Len(P) = 20
       /\ \A k \in 1 .. 14 : P[k] = abc[k]
       /\ \A k \in 15 .. 20 : P[k] = d[k - 14]
  <2>1. /\ P \in Seq(ProgramSteps) /\ Len(P) = Len(abc) + Len(d)
        /\ \A i \in 1 .. Len(abc) : P[i] = abc[i]
        /\ \A i \in Len(abc) + 1 .. Len(abc) + Len(d) : P[i] = d[i - Len(abc)]
    <3>1. abc \in Seq(ProgramSteps) /\ d \in Seq(ProgramSteps)
      BY <1>9, <1>10
    <3> QED
      BY <3>1, Joined
  <2>2. Len(abc) = 14 /\ Len(d) = 6
    BY <1>9, <1>10
  <2> HIDE DEF P
  <2> QED
    BY <2>1, <2>2
<1> HIDE DEF P
<1>12. /\ P[1].does = "check" /\ P[2] = Gap("dense")
       /\ \A k \in 3 .. 11 : P[k] = Measure(names[k - 2])
       /\ P[12].does = "check"
       /\ P[13] = Measure("inertia") /\ P[14] = Measure("transform")
       /\ \A k \in 15 .. 20 : P[k] = Measure(BatchIds[k - 14])
  <2>1. /\ \A k \in 1 .. 2 : P[k] = a[k]
        /\ \A k \in 3 .. 11 : P[k] = b[k - 2]
    BY <1>10, <1>11
  <2>2. P[12] = c[1] /\ P[13] = c[2] /\ P[14] = c[3]
    <3>1. abc[12] = c[1] /\ abc[13] = c[2] /\ abc[14] = c[3]
      BY <1>10
    <3> QED
      BY <1>11, <3>1
  <2>3. ASSUME NEW k \in 15 .. 20 PROVE P[k] = Measure(BatchIds[k - 14])
    <3>1. k - 14 \in 1 .. 6
      OBVIOUS
    <3>2. P[k] = d[k - 14]
      BY <1>11
    <3> QED
      BY <1>9, <3>1, <3>2
  <2>4. ASSUME NEW k \in 3 .. 11 PROVE P[k] = Measure(names[k - 2])
    <3>1. k - 2 \in 1 .. 9 /\ P[k] = b[k - 2]
      BY <2>1
    <3> QED
      BY <1>9, <3>1
  <2>5. P[1].does = "check" /\ P[2] = Gap("dense")
    BY <1>4, <2>1
  <2>6. P[12].does = "check" /\ P[13] = Measure("inertia") /\ P[14] = Measure("transform")
    BY <1>4, <2>2
  <2> QED
    BY <2>3, <2>4, <2>5, <2>6
<1>13. ASSUME NEW k \in 1 .. 20, P[k].does # "check" PROVE place[P[k].id] = k
  <2>1. CASE k \in 3 .. 11
    <3>1. k - 2 \in 1 .. 9 /\ P[k].id = names[k - 2]
      BY <1>12, <2>1, StepKinds
    <3> QED
      BY <1>5, <3>1
  <2>2. CASE k \in 15 .. 20
    <3>1. k - 14 \in 1 .. 6 /\ P[k].id = BatchIds[k - 14]
      BY <1>12, <2>2, StepKinds
    <3> QED
      BY <1>6, <3>1
  <2>3. CASE k \in {2, 13, 14}
    BY <1>7, <1>12, <2>3, StepKinds
  <2>4. k # 1 /\ k # 12
    BY <1>12, <1>13
  <2> QED
    BY <2>1, <2>2, <2>3, <2>4
<1>14. P[20].does # "check"
  BY <1>12, StepKinds
<1>15. OncePerWorkload(P)
  <2>1. DOMAIN P = 1 .. 20
    BY <1>11
  <2> QED
    BY <1>13, <2>1 DEF OncePerWorkload
<1>16. ASSUME NEW w \in Workloads PROVE \E k \in 1 .. 20 : P[k].does # "check" /\ P[k].id = w
  <2>1. CASE w \in {"dense", "inertia", "transform"}
    <3>1. 2 \in 1 .. 20 /\ 13 \in 1 .. 20 /\ 14 \in 1 .. 20
      OBVIOUS
    <3>2. /\ P[2].does # "check" /\ P[13].does # "check" /\ P[14].does # "check"
          /\ P[2].id = "dense" /\ P[13].id = "inertia" /\ P[14].id = "transform"
      BY <1>12, StepKinds
    <3> QED
      BY <2>1, <3>1, <3>2
  <2>2. ASSUME NEW k \in 1 .. 9, names[k] = w
        PROVE  \E l \in 1 .. 20 : P[l].does # "check" /\ P[l].id = w
    <3> DEFINE l == k + 2
    <3>1. l \in 1 .. 20 /\ l \in 3 .. 11 /\ l - 2 = k
      OBVIOUS
    <3> HIDE DEF l
    <3>2. P[l].does # "check" /\ P[l].id = w
      BY <1>12, <2>2, <3>1, StepKinds
    <3> QED
      BY <3>1, <3>2
  <2>3. ASSUME NEW k \in 1 .. 6, BatchIds[k] = w
        PROVE  \E l \in 1 .. 20 : P[l].does # "check" /\ P[l].id = w
    <3> DEFINE l == k + 14
    <3>1. l \in 1 .. 20 /\ l \in 15 .. 20 /\ l - 14 = k
      OBVIOUS
    <3> HIDE DEF l
    <3>2. P[l].does # "check" /\ P[l].id = w
      BY <1>12, <2>3, <3>1, StepKinds
    <3> QED
      BY <3>1, <3>2
  <2> QED
    BY <1>8, <2>1, <2>2, <2>3
<1> QED
  BY <1>1, <1>11, <1>14, <1>15, <1>16

LEMMA Programs ==
    ASSUME NEW f \in Families
    PROVE  /\ Program[f] \in Seq(ProgramSteps)
           /\ Len(Program[f]) \in Nat \ {0} /\ DOMAIN Program[f] = 1 .. Len(Program[f])
           /\ \A k \in 1 .. Len(Program[f]) : Program[f][k] \in ProgramSteps
           /\ OncePerWorkload(Program[f])
           /\ Program[f][Len(Program[f])].does # "check"
           /\ f = "idris2" => \A k \in 1 .. Len(Program[f]) :
                 Program[f][k].does = "measure" => Program[f][k].id \notin Batches
           /\ f = "rust" => \A w \in Workloads : \E k \in 1 .. Len(Program[f]) :
                 Program[f][k].does # "check" /\ Program[f][k].id = w
<1> DEFINE P == Program[f]
<1>1. /\ P \in Seq(ProgramSteps) /\ Len(P) \in {16, 19, 20}
      /\ OncePerWorkload(P) /\ P[Len(P)].does # "check"
  <2>1. CASE f = "cpp"
    <3>1. P = CppProgram
      BY <2>1 DEF Program
    <3> QED
      BY <3>1, CppSteps
  <2>2. CASE f = "idris2"
    <3>1. P = IdrisProgram
      BY <2>2 DEF Program
    <3> QED
      BY <3>1, IdrisSteps
  <2>3. CASE f = "rust"
    <3>1. P = RustProgram
      BY <2>3 DEF Program
    <3> QED
      BY <3>1, RustSteps
  <2> QED
    BY <2>1, <2>2, <2>3 DEF Families
<1>2. f = "idris2" => \A k \in 1 .. Len(P) : P[k].does = "measure" => P[k].id \notin Batches
  <2> SUFFICES ASSUME f = "idris2"
               PROVE  \A k \in 1 .. Len(P) : P[k].does = "measure" => P[k].id \notin Batches
    OBVIOUS
  <2>1. P = IdrisProgram
    BY DEF Program
  <2> QED
    BY <2>1, IdrisSteps
<1>3. f = "rust" => \A w \in Workloads : \E k \in 1 .. Len(P) :
                       P[k].does # "check" /\ P[k].id = w
  <2> SUFFICES ASSUME f = "rust"
               PROVE  \A w \in Workloads : \E k \in 1 .. Len(P) :
                         P[k].does # "check" /\ P[k].id = w
    OBVIOUS
  <2>1. P = RustProgram
    BY DEF Program
  <2> QED
    BY <2>1, RustSteps
<1> HIDE DEF P
<1>4. /\ Len(P) \in Nat \ {0} /\ DOMAIN P = 1 .. Len(P)
      /\ \A k \in 1 .. Len(P) : P[k] \in ProgramSteps
  <2>1. P \in Seq(ProgramSteps) /\ Len(P) \in Nat /\ Len(P) # 0
    <3>1. P \in Seq(ProgramSteps) /\ Len(P) \in {16, 19, 20}
      BY <1>1
    <3>2. \A n \in {16, 19, 20} : n \in Nat /\ n # 0
      OBVIOUS
    <3> QED
      BY <3>1, <3>2
  <2> QED
    BY <2>1, ElementOfSeq
<1> QED
  BY <1>1, <1>2, <1>3, <1>4 DEF P

--------------------------------------------------------------------------------
(***************************************************************************)
(* What the programs count is what the harness expects.                    *)
(***************************************************************************)
Counted(s, w) ==
    IF w \notin Batches THEN ProfileOperations[s]
    ELSE Batch[w] * (IF s THEN 1 ELSE AtLeastOne(16384 \div Batch[w]))

Warmed(s, w) ==
    IF w \notin Batches THEN (IF s THEN 8 ELSE 1000)
    ELSE Batch[w] * (IF s THEN 1 ELSE AtLeastOne(4096 \div Batch[w]))

LEMMA BatchCounts ==
    ASSUME NEW w \in Batches
    PROVE  /\ Batch[w] \in {16, 256, 4096}
           /\ Batch[w] * AtLeastOne(16384 \div Batch[w]) = 16384
           /\ Batch[w] * AtLeastOne(4096 \div Batch[w]) = 4096
<1>1. Batch[w] \in {16, 256, 4096}
  BY WorkloadNames DEF Batch
<1> QED
  BY <1>1 DEF AtLeastOne

LEMMA CountsAgree ==
    ASSUME NEW w \in Workloads, smoke \in BOOLEAN, family \in Families,
           family = "idris2" => w \notin Batches
    PROVE  /\ Counted(smoke, w) > 0
           /\ Counted(smoke, w) = Harness!Agreed(w)
           /\ Counted(smoke, w) = Harness!ExpectedOperations(w)
           /\ ~smoke => Warmed(smoke, w) = WarmupOperations[w]
<1>1. /\ ProfileOperations[TRUE] = 1000 /\ ProfileOperations[FALSE] = 10000
      /\ BatchSize[w] = IF w \in Batches THEN Batch[w] ELSE 1
      /\ OperationsPerSample[w] = IF w \in Batches THEN 16384 ELSE 10000
      /\ WarmupOperations[w] = IF w \in Batches THEN 4096 ELSE 1000
  BY DEF ProfileOperations, BatchSize, OperationsPerSample, WarmupOperations
<1>2. /\ Harness!Agreed(w) = IF ~smoke THEN OperationsPerSample[w]
                             ELSE IF w \in Batches THEN BatchSize[w] ELSE ProfileOperations[smoke]
      /\ Harness!ExpectedOperations(w) =
            IF family = "idris2" THEN ProfileOperations[smoke]
            ELSE IF ~smoke THEN OperationsPerSample[w]
            ELSE IF w \in Batches THEN BatchSize[w] ELSE ProfileOperations[smoke]
  BY DEF Harness!Agreed, Harness!ExpectedOperations
<1>3. CASE w \in Batches
  <2>1. Counted(smoke, w) = IF smoke THEN Batch[w] ELSE 16384
    BY <1>3, BatchCounts DEF Counted
  <2>2. ~smoke => Warmed(smoke, w) = 4096
    BY <1>3, BatchCounts DEF Warmed
  <2> QED
    BY <1>1, <1>2, <1>3, <2>1, <2>2, BatchCounts
<1>4. CASE w \notin Batches
  <2>1. smoke = TRUE \/ smoke = FALSE
    OBVIOUS
  <2>2. Counted(smoke, w) = ProfileOperations[smoke]
    BY <1>4 DEF Counted
  <2>3. smoke = FALSE => Warmed(smoke, w) = 1000
    BY <1>4 DEF Warmed
  <2>4. OperationsPerSample[w] = 10000 /\ WarmupOperations[w] = 1000
    BY <1>4 DEF OperationsPerSample, WarmupOperations
  <2>5. ProfileOperations[TRUE] = 1000 /\ ProfileOperations[FALSE] = 10000
    BY <1>1
  <2>6. /\ Harness!Agreed(w) = ProfileOperations[smoke]
        /\ Harness!ExpectedOperations(w) = ProfileOperations[smoke]
    <3>1. CASE smoke
      BY <1>2, <1>4, <3>1, Zenon
    <3>2. CASE ~smoke
      <4>1. smoke = FALSE
        BY <3>2, <2>1
      <4>2. ProfileOperations[smoke] = ProfileOperations[FALSE]
        BY <4>1, Zenon
      <4>3. /\ Harness!Agreed(w) = OperationsPerSample[w]
            /\ \/ Harness!ExpectedOperations(w) = ProfileOperations[smoke]
               \/ Harness!ExpectedOperations(w) = OperationsPerSample[w]
        BY <1>2, <3>2, Zenon
      <4> QED
        BY <2>4, <2>5, <4>2, <4>3
    <3> QED
      BY <3>1, <3>2
  <2>7. ProfileOperations[smoke] > 0
    <3>1. \/ ProfileOperations[smoke] = ProfileOperations[TRUE]
          \/ ProfileOperations[smoke] = ProfileOperations[FALSE]
      BY <2>1, Zenon
    <3> QED
      BY <2>5, <3>1
  <2>8. ASSUME ~smoke PROVE Warmed(smoke, w) = WarmupOperations[w]
    <3>1. smoke = FALSE
      BY <2>1, <2>8
    <3> QED
      BY <2>3, <2>4, <3>1
  <2> QED
    BY <2>2, <2>6, <2>7, <2>8
<1> QED
  BY <1>3, <1>4

(***************************************************************************)
(* The rows a program collects.                                            *)
(***************************************************************************)
GapRow(f, w) ==
    [family |-> f, workload |-> w, status |-> "unsupported",
     time |-> 0, ops |-> 0, warm |-> 0, samples |-> 0,
     oracle |-> [value |-> "nan", full |-> FALSE],
     host |-> Unknown, debug |-> FALSE, exec |-> Legacy, cpu |-> NoDevice, gpu |-> NoDevice]

TimedRow(f, s, w, t) ==
    [family |-> f, workload |-> w, status |-> "supported",
     time |-> t, ops |-> Counted(s, w), warm |-> Warmed(s, w),
     samples |-> IF s THEN 3 ELSE 15,
     oracle |-> [value |-> "right", full |-> FALSE],
     host |-> Unknown, debug |-> FALSE, exec |-> Legacy, cpu |-> NoDevice, gpu |-> NoDevice]

RowSet(f, s) == {GapRow(f, w) : w \in Workloads} \cup {TimedRow(f, s, w, t) : w \in Workloads, t \in Nat}

LEMMA RowFields ==
    /\ \A f, w : LET r == GapRow(f, w)
                 IN  r.family = f /\ r.workload = w /\ r.status = "unsupported" /\ r.exec = Legacy
    /\ \A f, s, w, t : LET r == TimedRow(f, s, w, t)
                       IN  /\ r.family = f /\ r.workload = w /\ r.status = "supported"
                           /\ r.time = t /\ r.ops = Counted(s, w) /\ r.warm = Warmed(s, w)
                           /\ r.samples = (IF s THEN 3 ELSE 15)
                           /\ r.oracle.value = "right" /\ r.exec = Legacy
BY DEF GapRow, TimedRow

LEMMA RowsCollected ==
    ASSUME NEW w
    PROVE  /\ Row(w, "unsupported", Unmeasured) = GapRow(family, w)
           /\ \A t : Row(w, "supported",
                         [time |-> t, ops |-> Operations(w), warm |-> Warmups(w),
                          samples |-> SampleCount, value |-> "right"])
                     = TimedRow(family, smoke, w, t)
<1>1. Operations(w) = Counted(smoke, w) /\ Warmups(w) = Warmed(smoke, w)
  BY DEF Operations, Warmups, Counted, Warmed
<1>2. Row(w, "unsupported", Unmeasured) = GapRow(family, w)
  BY DEF Row, GapRow, Unmeasured
<1>3. \A t, ops, warm, samples :
         Row(w, "supported", [time |-> t, ops |-> ops, warm |-> warm,
                              samples |-> samples, value |-> "right"])
         = [family |-> family, workload |-> w, status |-> "supported",
            time |-> t, ops |-> ops, warm |-> warm, samples |-> samples,
            oracle |-> [value |-> "right", full |-> FALSE],
            host |-> Unknown, debug |-> FALSE, exec |-> Legacy, cpu |-> NoDevice,
            gpu |-> NoDevice]
  BY DEF Row
<1> QED
  BY <1>1, <1>2, <1>3 DEF TimedRow, SampleCount

--------------------------------------------------------------------------------
(***************************************************************************)
(* The inductive invariant.                                                *)
(***************************************************************************)
TypeInv ==
    /\ family \in Families /\ smoke \in BOOLEAN /\ unsound \in SUBSET Suspects
    /\ stage \in Stages
    /\ step \in 1 .. Len(Program[family]) + 1
    /\ taken \in 0 .. SampleCount /\ shortest \in Nat
    /\ stopped \subseteq Quick
    /\ rows \in Seq(RowSet(family, smoke)) /\ Len(rows) < step

\* r is what step c of a program of family f contributes, the clock having stood
\* still for the workloads Z.
Reports(f, s, Z, c, r) ==
    \/ c.does = "gap" /\ r = GapRow(f, c.id)
    \/ /\ c.does = "measure"
       /\ \E t \in Nat : /\ r = TimedRow(f, s, c.id, t)
                         /\ f = "rust" => t > 0
                         /\ t > 0 \/ c.id \in Z

\* One row for every step passed that is not a check of fixture values.
RowsInv ==
    /\ \A i \in 1 .. Len(rows) : \E k \in 1 .. step - 1 :
          Reports(family, smoke, stopped, Program[family][k], rows[i])
    /\ \A k \in 1 .. step - 1 :
          Program[family][k].does # "check" =>
             \E i \in 1 .. Len(rows) : rows[i].workload = Program[family][k].id
    /\ \A i, j \in 1 .. Len(rows) : rows[i].workload = rows[j].workload => i = j

\* Every check passed.
ChecksInv ==
    /\ \A k \in 1 .. step - 1 : Program[family][k] \notin unsound
    /\ stage = "timing" => /\ step <= Len(Program[family])
                           /\ Program[family][step].does = "measure"
                           /\ Program[family][step] \notin unsound

\* A clock that stood still has left a trace.
ClockInv ==
    /\ stage = "timing" /\ taken > 0 =>
          /\ shortest > 0 \/ Program[family][step].id \in stopped
          /\ family = "rust" => shortest > 0
    /\ family = "cpp" /\ stage # "failed" => stopped = {}
    /\ family = "idris2" => \A w \in stopped :
          \/ \E i \in 1 .. Len(rows) : rows[i] = TimedRow(family, smoke, w, 0)
          \/ /\ stage = "timing" /\ taken > 0 /\ shortest = 0
             /\ Program[family][step].id = w

DoneInv == stage = "done" => step = Len(Program[family]) + 1 /\ printed = Emission

IInv == TypeInv /\ RowsInv /\ ChecksInv /\ ClockInv /\ DoneInv

LEMMA SampleCounts == SampleCount \in Nat /\ SampleCount > 0
BY DEF SampleCount

\* A program is run for one request.
LEMMA RequestStays ==
    ASSUME [Next]_vars
    PROVE  /\ family' = family /\ smoke' = smoke /\ unsound' = unsound
           /\ Program[family]' = Program[family] /\ SampleCount' = SampleCount
<1>1. UNCHANGED request
  BY DEF Next, vars, CheckFixture, CheckOracle, TakeSample, FinishRow, ReportGap, Emit, Ended
<1> QED
  BY <1>1 DEF request, SampleCount

LEMMA Initially == Init => IInv
<1> SUFFICES ASSUME Init PROVE IInv
  OBVIOUS
<1> USE DEF Init
<1>1. TypeInv
  BY Programs, SampleCounts DEF TypeInv, Stages
<1>2. RowsInv
  BY DEF RowsInv
<1>3. ChecksInv /\ ClockInv /\ DoneInv
  BY DEF ChecksInv, ClockInv, DoneInv
<1> QED
  BY <1>1, <1>2, <1>3 DEF IInv

(***************************************************************************)
(* A step of the program is done, and adds a row unless it is a check.     *)
(***************************************************************************)
LEMMA RowAdded ==
    ASSUME IInv, step <= Len(Program[family]),
           NEW r, Program[family][step].does # "check",
           Reports(family, smoke, stopped, Program[family][step], r),
           r \in RowSet(family, smoke), r.workload = Program[family][step].id,
           rows' = Append(rows, r), step' = step + 1, stopped' = stopped,
           family' = family, smoke' = smoke
    PROVE  /\ RowsInv'
           /\ rows' \in Seq(RowSet(family, smoke)) /\ Len(rows') < step'
           /\ Len(rows') = Len(rows) + 1 /\ rows'[Len(rows) + 1] = r
           /\ \A i \in 1 .. Len(rows) : i \in 1 .. Len(rows') /\ rows'[i] = rows[i]
<1> DEFINE n == Len(rows)
           P == Program[family]
<1>1. /\ n \in Nat /\ step \in Nat /\ step > 0 /\ n < step
      /\ rows \in Seq(RowSet(family, smoke))
      /\ step \in 1 .. Len(P) /\ Len(P) \in Nat /\ family \in Families
      /\ OncePerWorkload(P) /\ DOMAIN P = 1 .. Len(P)
  BY Programs DEF IInv, TypeInv
<1>2. /\ rows' \in Seq(RowSet(family, smoke)) /\ Len(rows') = n + 1 /\ rows'[n + 1] = r
      /\ \A i \in 1 .. n : i \in 1 .. n + 1 /\ rows'[i] = rows[i]
  BY <1>1, AppendProperties
<1>3. \A i \in 1 .. n + 1 : i \in 1 .. n \/ i = n + 1
  BY <1>1
<1>4. \A k \in 1 .. step' - 1 : k \in 1 .. step - 1 \/ k = step
  BY <1>1
<1>5. \A k \in 1 .. step - 1 : k \in 1 .. step' - 1 /\ k # step /\ k \in 1 .. Len(P)
  BY <1>1
<1>6. step \in 1 .. step' - 1
  BY <1>1
<1> HIDE DEF n, P
<1>7. ASSUME NEW i \in 1 .. n + 1
      PROVE  \E k \in 1 .. step' - 1 : Reports(family, smoke, stopped, P[k], rows'[i])
  <2>1. CASE i \in 1 .. n
    BY <1>2, <1>5, <2>1 DEF IInv, RowsInv, n, P
  <2>2. CASE i = n + 1
    BY <1>2, <1>6, <2>2 DEF P
  <2> QED
    BY <1>3, <2>1, <2>2
<1>8. ASSUME NEW k \in 1 .. step' - 1, P[k].does # "check"
      PROVE  \E i \in 1 .. n + 1 : rows'[i].workload = P[k].id
  <2>1. CASE k \in 1 .. step - 1
    <3>1. PICK i \in 1 .. n : rows[i].workload = P[k].id
      BY <1>8, <2>1 DEF IInv, RowsInv, n, P
    <3> QED
      BY <1>2, <3>1
  <2>2. CASE k = step
    <3>1. n + 1 \in 1 .. n + 1
      BY <1>1 DEF n
    <3> QED
      BY <1>2, <2>2, <3>1 DEF P
  <2> QED
    BY <1>4, <2>1, <2>2
\* No row before it is about the same workload.
<1>9. ASSUME NEW i \in 1 .. n PROVE rows[i].workload # r.workload
  <2>1. PICK k \in 1 .. step - 1 : Reports(family, smoke, stopped, P[k], rows[i])
    BY DEF IInv, RowsInv, n, P
  <2>2. P[k].does # "check" /\ rows[i].workload = P[k].id
    BY <2>1, RowFields DEF Reports
  <2>3. P[k].id # P[step].id
    BY <1>1, <1>5, <2>2 DEF OncePerWorkload, P
  <2> QED
    BY <2>2, <2>3 DEF P
<1>10. ASSUME NEW i \in 1 .. n + 1, NEW j \in 1 .. n + 1,
              rows'[i].workload = rows'[j].workload
       PROVE  i = j
  <2>1. CASE i \in 1 .. n /\ j \in 1 .. n
    BY <1>2, <1>10, <2>1 DEF IInv, RowsInv, n
  <2>2. ~(i \in 1 .. n /\ j = n + 1) /\ ~(j \in 1 .. n /\ i = n + 1)
    BY <1>2, <1>9, <1>10
  <2> QED
    BY <1>3, <2>1, <2>2
<1>11. P' = P /\ Len(rows') = n + 1
  BY <1>2 DEF P
<1>12. RowsInv'
  BY <1>7, <1>8, <1>10, <1>11 DEF RowsInv, P
<1>13. n + 1 < step + 1
  BY <1>1 DEF n
<1> QED
  BY <1>2, <1>12, <1>13 DEF n

\* The process dies, its rows as they are.
LEMMA Dying ==
    ASSUME IInv, [Next]_vars, Fail, taken' = taken, shortest' = shortest,
           stopped' \subseteq Quick, stopped \subseteq stopped',
           family = "idris2" => stopped' = stopped /\ stage = "stepping"
    PROVE  IInv'
<1> DEFINE P == Program[family]
<1>1. /\ stage' = "failed" /\ step' = step /\ rows' = rows
      /\ family' = family /\ smoke' = smoke /\ unsound' = unsound /\ P' = P
      /\ SampleCount' = SampleCount
  BY RequestStays DEF Fail
<1> HIDE DEF P
<1>2. TypeInv'
  BY <1>1 DEF IInv, TypeInv, Stages, P
<1>3. RowsInv'
  <2>1. ASSUME NEW i \in 1 .. Len(rows)
        PROVE  \E k \in 1 .. step - 1 : Reports(family, smoke, stopped', P[k], rows[i])
    <3>1. PICK k \in 1 .. step - 1 : Reports(family, smoke, stopped, P[k], rows[i])
      BY DEF IInv, RowsInv, P
    <3>2. Reports(family, smoke, stopped', P[k], rows[i])
      BY <3>1 DEF Reports
    <3> QED
      BY <3>2
  <2> QED
    BY <1>1, <2>1 DEF IInv, RowsInv, P
<1>4. ChecksInv'
  BY <1>1 DEF IInv, ChecksInv, P
<1>5. ClockInv'
  BY <1>1 DEF IInv, ClockInv, P
<1>6. DoneInv'
  BY <1>1 DEF DoneInv
<1> QED
  BY <1>2, <1>3, <1>4, <1>5, <1>6 DEF IInv

LEMMA CheckFixtureStep == IInv /\ [Next]_vars /\ CheckFixture => IInv'
<1> SUFFICES ASSUME IInv, [Next]_vars, CheckFixture PROVE IInv'
  OBVIOUS
<1> DEFINE P == Program[family]
<1>1. /\ family' = family /\ smoke' = smoke /\ unsound' = unsound /\ P' = P
      /\ SampleCount' = SampleCount
      /\ taken' = taken /\ shortest' = shortest /\ stopped' = stopped
      /\ stage = "stepping" /\ step <= Len(P) /\ P[step].does = "check"
  BY RequestStays DEF CheckFixture, At, Current, timing
<1>2. /\ step \in Nat /\ step > 0 /\ Len(P) \in Nat
      /\ stopped \subseteq Quick
  BY Programs DEF IInv, TypeInv
<1>3. CASE Fail
  BY <1>1, <1>2, <1>3, Dying
<1>4. CASE step' = step + 1 /\ UNCHANGED <<stage, rows>> /\ P[step] \notin unsound
  <2>1. \A k \in 1 .. step' - 1 : k \in 1 .. step - 1 \/ k = step
    BY <1>2, <1>4
  <2>2. \A k \in 1 .. step - 1 : k \in 1 .. step' - 1
    BY <1>2, <1>4
  <2>3. TypeInv'
    BY <1>1, <1>2, <1>4 DEF IInv, TypeInv
  <2> HIDE DEF P
  <2>4. RowsInv'
    BY <1>1, <1>4, <2>1, <2>2 DEF IInv, RowsInv, P
  <2>5. ChecksInv'
    BY <1>1, <1>4, <2>1 DEF IInv, ChecksInv, P
  <2>6. ClockInv' /\ DoneInv'
    BY <1>1, <1>4 DEF IInv, ClockInv, DoneInv
  <2> QED
    BY <2>3, <2>4, <2>5, <2>6 DEF IInv
<1> QED
  BY <1>3, <1>4 DEF CheckFixture, Current

LEMMA CheckOracleStep == IInv /\ [Next]_vars /\ CheckOracle => IInv'
<1> SUFFICES ASSUME IInv, [Next]_vars, CheckOracle PROVE IInv'
  OBVIOUS
<1> DEFINE P == Program[family]
<1>1. /\ family' = family /\ smoke' = smoke /\ unsound' = unsound /\ P' = P
      /\ SampleCount' = SampleCount
      /\ stage = "stepping" /\ step <= Len(P) /\ P[step].does = "measure"
  BY RequestStays DEF CheckOracle, At, Current
<1>2. /\ step \in Nat /\ step > 0 /\ Len(P) \in Nat /\ stopped \subseteq Quick
  BY Programs DEF IInv, TypeInv
<1>3. CASE Fail /\ UNCHANGED timing
  BY <1>1, <1>2, <1>3, Dying DEF timing
<1>4. CASE /\ stage' = "timing" /\ taken' = 0 /\ shortest' = 0
           /\ UNCHANGED <<step, rows, stopped>> /\ P[step] \notin unsound
  <2>1. TypeInv'
    BY <1>1, <1>4, SampleCounts DEF IInv, TypeInv, Stages
  <2> HIDE DEF P
  <2>2. RowsInv'
    BY <1>1, <1>4 DEF IInv, RowsInv, P
  <2>3. ChecksInv'
    BY <1>1, <1>4 DEF IInv, ChecksInv, P
  <2>4. ClockInv'
    <3>1. family = "idris2" => \A w \in stopped :
             \E i \in 1 .. Len(rows) : rows[i] = TimedRow(family, smoke, w, 0)
      BY <1>1 DEF IInv, ClockInv
    <3> QED
      BY <1>1, <1>4, <3>1 DEF IInv, ClockInv
  <2>5. DoneInv'
    BY <1>4 DEF DoneInv
  <2> QED
    BY <2>1, <2>2, <2>3, <2>4, <2>5 DEF IInv
<1> QED
  BY <1>3, <1>4 DEF CheckOracle, Current

LEMMA TakeSampleStep == IInv /\ [Next]_vars /\ TakeSample => IInv'
<1> SUFFICES ASSUME IInv, [Next]_vars, TakeSample PROVE IInv'
  OBVIOUS
<1> DEFINE P == Program[family]
           w == P[step].id
<1>1. /\ family' = family /\ smoke' = smoke /\ unsound' = unsound /\ P' = P
      /\ SampleCount' = SampleCount
      /\ stage = "timing" /\ taken < SampleCount
  BY RequestStays DEF TakeSample
<1>2. /\ taken \in Nat /\ shortest \in Nat /\ stopped \subseteq Quick /\ SampleCount \in Nat
      /\ family \in Families
  BY SampleCounts DEF IInv, TypeInv
<1>3. PICK reading \in Readings(w) :
         /\ stopped' = IF reading = 0 THEN stopped \cup {w} ELSE stopped
         /\ IF family = "cpp" /\ Duration(reading) <= 0
            THEN Fail /\ UNCHANGED <<taken, shortest>>
            ELSE /\ taken' = taken + 1 /\ shortest' = Shorter(Duration(reading))
                 /\ UNCHANGED <<stage, step, rows>>
  BY DEF TakeSample, Current
<1>4. /\ reading \in {0, 1}
      /\ reading = 0 => w \in Quick
      /\ Duration(reading) = IF family = "rust" THEN 1 ELSE reading
  BY DEF Readings, Duration, AtLeastOne
<1>5. stopped \subseteq stopped' /\ stopped' \subseteq Quick
  BY <1>2, <1>3, <1>4
<1>6. CASE family = "cpp" /\ Duration(reading) <= 0
  BY <1>3, <1>5, <1>6, Dying
<1>7. CASE ~(family = "cpp" /\ Duration(reading) <= 0)
  <2> HIDE DEF P, w
  <2>1. /\ taken' = taken + 1 /\ taken' \in 0 .. SampleCount /\ taken' > 0
        /\ stage' = "timing" /\ step' = step /\ rows' = rows
    BY <1>1, <1>2, <1>3, <1>7
  <2>2. /\ shortest' \in Nat
        /\ family = "rust" => Duration(reading) > 0
        /\ shortest' = Duration(reading) \/ (taken > 0 /\ shortest' = shortest)
        /\ Duration(reading) = 0 => shortest' = 0
        /\ taken > 0 /\ shortest = 0 => shortest' = 0
    BY <1>2, <1>3, <1>4, <1>7 DEF Shorter
  <2>3. TypeInv'
    BY <1>1, <1>5, <2>1, <2>2 DEF IInv, TypeInv, P
  <2>4. RowsInv'
    <3>1. ASSUME NEW i \in 1 .. Len(rows)
          PROVE  \E k \in 1 .. step - 1 : Reports(family, smoke, stopped', P[k], rows[i])
      <4>1. PICK k \in 1 .. step - 1 : Reports(family, smoke, stopped, P[k], rows[i])
        BY DEF IInv, RowsInv, P
      <4>2. Reports(family, smoke, stopped', P[k], rows[i])
        BY <1>5, <4>1 DEF Reports
      <4> QED
        BY <4>2
    <3> QED
      BY <1>1, <2>1, <3>1 DEF IInv, RowsInv, P
  <2>5. ChecksInv'
    BY <1>1, <2>1 DEF IInv, ChecksInv, P
  <2>6. DoneInv'
    BY <2>1 DEF DoneInv
  <2>7. /\ shortest' > 0 \/ w \in stopped'
        /\ family = "rust" => shortest' > 0
    <3>1. taken > 0 => /\ shortest > 0 \/ w \in stopped
                       /\ family = "rust" => shortest > 0
      BY <1>1 DEF IInv, ClockInv, P, w
    <3>2. Duration(reading) > 0 \/ w \in stopped'
      BY <1>3, <1>4
    <3> QED
      BY <1>5, <2>2, <3>1, <3>2
  <2>8. family = "cpp" => stopped' = {}
    <3>1. family = "cpp" => stopped = {} /\ reading # 0
      BY <1>1, <1>4, <1>7 DEF IInv, ClockInv
    <3> QED
      BY <1>3, <3>1
  <2>9. ASSUME family = "idris2", NEW v \in stopped'
        PROVE  \/ \E i \in 1 .. Len(rows) : rows[i] = TimedRow(family, smoke, v, 0)
               \/ shortest' = 0 /\ w = v
    <3>1. CASE v \in stopped
      BY <1>1, <2>2, <2>9, <3>1 DEF IInv, ClockInv, P, w
    <3>2. CASE v \notin stopped
      <4>1. reading = 0 /\ v = w
        BY <1>3, <2>9, <3>2
      <4> QED
        BY <1>4, <2>2, <2>9, <4>1
    <3> QED
      BY <3>1, <3>2
  <2>10. ClockInv'
    BY <1>1, <2>1, <2>7, <2>8, <2>9 DEF ClockInv, P, w
  <2> QED
    BY <2>3, <2>4, <2>5, <2>6, <2>10 DEF IInv
<1> QED
  BY <1>6, <1>7

LEMMA FinishRowStep == IInv /\ [Next]_vars /\ FinishRow => IInv'
<1> SUFFICES ASSUME IInv, [Next]_vars, FinishRow PROVE IInv'
  OBVIOUS
<1> DEFINE P == Program[family]
           w == P[step].id
           r == TimedRow(family, smoke, w, shortest)
<1>1. /\ family' = family /\ smoke' = smoke /\ unsound' = unsound /\ P' = P
      /\ SampleCount' = SampleCount
      /\ stage = "timing" /\ taken = SampleCount /\ stage' = "stepping" /\ step' = step + 1
      /\ taken' = taken /\ shortest' = shortest /\ stopped' = stopped
  BY RequestStays DEF FinishRow, timing
<1>2. /\ step \in Nat /\ step > 0 /\ step <= Len(P) /\ Len(P) \in Nat
      /\ shortest \in Nat /\ taken > 0 /\ family \in Families
      /\ P[step] \in ProgramSteps /\ P[step].does = "measure" /\ P[step] \notin unsound
  <2>1. /\ family \in Families /\ step \in 1 .. Len(P) + 1 /\ shortest \in Nat
        /\ step <= Len(P) /\ P[step].does = "measure" /\ P[step] \notin unsound
    BY <1>1 DEF IInv, TypeInv, ChecksInv
  <2>2. Len(P) \in Nat /\ \A k \in 1 .. Len(P) : P[k] \in ProgramSteps
    BY <2>1, Programs
  <2>3. step \in 1 .. Len(P)
    BY <2>1, <2>2
  <2> QED
    BY <1>1, <2>1, <2>2, <2>3, SampleCounts
<1>3. w \in Workloads
  BY <1>2, StepKinds
<1>4. rows' = Append(rows, r)
  BY <1>1, RowsCollected DEF FinishRow, Current
<1>5. /\ r \in RowSet(family, smoke) /\ r.workload = w
      /\ Reports(family, smoke, stopped, P[step], r)
  <2>1. r \in RowSet(family, smoke)
    BY <1>2, <1>3 DEF RowSet
  <2>2. /\ shortest > 0 \/ w \in stopped
        /\ family = "rust" => shortest > 0
    BY <1>1, <1>2 DEF IInv, ClockInv
  <2> HIDE DEF P, r
  <2> QED
    BY <1>2, <2>1, <2>2, RowFields DEF Reports, r
<1> HIDE DEF r
<1>6. /\ RowsInv'
      /\ rows' \in Seq(RowSet(family, smoke)) /\ Len(rows') < step'
      /\ Len(rows') = Len(rows) + 1 /\ rows'[Len(rows) + 1] = r
      /\ \A i \in 1 .. Len(rows) : i \in 1 .. Len(rows') /\ rows'[i] = rows[i]
  BY <1>1, <1>2, <1>4, <1>5, RowAdded
<1>7. TypeInv'
  BY <1>1, <1>2, <1>6 DEF IInv, TypeInv, Stages
<1>8. ChecksInv'
  <2>1. \A k \in 1 .. step' - 1 : k \in 1 .. step - 1 \/ k = step
    BY <1>1, <1>2
  <2> HIDE DEF P
  <2> QED
    BY <1>1, <1>2, <2>1 DEF IInv, ChecksInv, P
<1>9. ClockInv'
  <2>1. Len(rows) + 1 \in 1 .. Len(rows')
    BY <1>6 DEF IInv, TypeInv
  <2>2. family = "cpp" => stopped = {}
    BY <1>1 DEF IInv, ClockInv
  <2>3. ASSUME family = "idris2", NEW v \in stopped
        PROVE  \E i \in 1 .. Len(rows') : rows'[i] = TimedRow(family, smoke, v, 0)
    <3>1. CASE \E i \in 1 .. Len(rows) : rows[i] = TimedRow(family, smoke, v, 0)
      BY <1>6, <3>1
    <3>2. CASE shortest = 0 /\ w = v
      BY <1>6, <2>1, <3>2 DEF r
    <3> QED
      BY <2>3, <3>1, <3>2 DEF IInv, ClockInv
  <2> HIDE DEF P, w
  <2> QED
    BY <1>1, <2>2, <2>3 DEF ClockInv
<1>10. DoneInv'
  BY <1>1 DEF DoneInv
<1> QED
  BY <1>6, <1>7, <1>8, <1>9, <1>10 DEF IInv

LEMMA ReportGapStep == IInv /\ [Next]_vars /\ ReportGap => IInv'
<1> SUFFICES ASSUME IInv, [Next]_vars, ReportGap PROVE IInv'
  OBVIOUS
<1> DEFINE P == Program[family]
           w == P[step].id
           r == GapRow(family, w)
<1>1. /\ family' = family /\ smoke' = smoke /\ unsound' = unsound /\ P' = P
      /\ SampleCount' = SampleCount
      /\ stage = "stepping" /\ stage' = stage /\ step' = step + 1
      /\ step <= Len(P) /\ P[step].does = "gap"
      /\ taken' = taken /\ shortest' = shortest /\ stopped' = stopped
  BY RequestStays DEF ReportGap, At, Current, timing
<1>2. /\ step \in Nat /\ step > 0 /\ Len(P) \in Nat /\ family \in Families
      /\ P[step] \in ProgramSteps
  <2>1. family \in Families /\ step \in 1 .. Len(P) + 1
    BY DEF IInv, TypeInv
  <2>2. Len(P) \in Nat /\ \A k \in 1 .. Len(P) : P[k] \in ProgramSteps
    BY <2>1, Programs
  <2>3. step \in 1 .. Len(P)
    BY <1>1, <2>1, <2>2
  <2> QED
    BY <2>1, <2>2, <2>3
<1>3. w \in Workloads
  BY <1>2, StepKinds
<1>4. rows' = Append(rows, r)
  BY RowsCollected DEF ReportGap, Current
<1>5. /\ r \in RowSet(family, smoke) /\ r.workload = w
      /\ Reports(family, smoke, stopped, P[step], r)
  BY <1>1, <1>3, RowFields DEF RowSet, Reports
<1> HIDE DEF r
<1>6. /\ RowsInv'
      /\ rows' \in Seq(RowSet(family, smoke)) /\ Len(rows') < step'
      /\ \A i \in 1 .. Len(rows) : i \in 1 .. Len(rows') /\ rows'[i] = rows[i]
  BY <1>1, <1>2, <1>4, <1>5, RowAdded
<1>7. TypeInv'
  BY <1>1, <1>2, <1>6 DEF IInv, TypeInv
\* A gap is not among the suspects.
<1>8. P[step] \notin unsound
  <2>1. \A c \in Suspects : c.does # "gap"
    BY SuspectsAssumption, StepKinds
  <2> QED
    BY <1>1, <2>1 DEF IInv, TypeInv
<1>9. ChecksInv'
  <2>1. \A k \in 1 .. step' - 1 : k \in 1 .. step - 1 \/ k = step
    BY <1>1, <1>2
  <2> HIDE DEF P
  <2> QED
    BY <1>1, <1>8, <2>1 DEF IInv, ChecksInv, P
<1>10. ClockInv'
  <2>1. ASSUME family = "idris2", NEW v \in stopped
        PROVE  \E i \in 1 .. Len(rows') : rows'[i] = TimedRow(family, smoke, v, 0)
    <3>1. PICK i \in 1 .. Len(rows) : rows[i] = TimedRow(family, smoke, v, 0)
      BY <1>1, <2>1 DEF IInv, ClockInv
    <3> QED
      BY <1>6, <3>1
  <2>2. family = "cpp" => stopped = {}
    BY <1>1 DEF IInv, ClockInv
  <2> HIDE DEF P, w
  <2> QED
    BY <1>1, <2>1, <2>2 DEF ClockInv
<1>11. DoneInv'
  BY <1>1 DEF DoneInv
<1> QED
  BY <1>6, <1>7, <1>9, <1>10, <1>11 DEF IInv

LEMMA EmitStep == IInv /\ [Next]_vars /\ Emit => IInv'
<1> SUFFICES ASSUME IInv, [Next]_vars, Emit PROVE IInv'
  OBVIOUS
<1> DEFINE P == Program[family]
<1>1. /\ family' = family /\ smoke' = smoke /\ unsound' = unsound /\ P' = P
      /\ SampleCount' = SampleCount
      /\ stage = "stepping" /\ stage' = "done" /\ step > Len(P) /\ step' = step
      /\ taken' = taken /\ shortest' = shortest /\ stopped' = stopped
      /\ rows' = rows /\ printed' = Emission
  BY RequestStays DEF Emit, timing
<1>2. Emission' = Emission
  BY <1>1 DEF Emission
<1>3. step \in 1 .. Len(P) + 1 /\ Len(P) \in Nat
  BY Programs DEF IInv, TypeInv
<1> HIDE DEF P
<1>4. TypeInv'
  BY <1>1 DEF IInv, TypeInv, Stages, P
<1>5. RowsInv'
  BY <1>1 DEF IInv, RowsInv, P
<1>6. ChecksInv'
  BY <1>1 DEF IInv, ChecksInv, P
<1>7. ClockInv'
  BY <1>1 DEF IInv, ClockInv, P
<1>8. DoneInv'
  <2>1. step = Len(P) + 1
    BY <1>1, <1>3
  <2> QED
    BY <1>1, <1>2, <2>1 DEF DoneInv, P
<1> QED
  BY <1>4, <1>5, <1>6, <1>7, <1>8 DEF IInv

LEMMA Stuttering == IInv /\ UNCHANGED vars => IInv'
<1> SUFFICES ASSUME IInv, UNCHANGED vars PROVE IInv'
  OBVIOUS
<1>1. /\ UNCHANGED <<family, smoke, unsound, stage, step, taken, shortest, stopped, rows, printed>>
      /\ SampleCount' = SampleCount /\ Emission' = Emission
  BY DEF vars, request, timing, SampleCount, Emission
<1>2. TypeInv'
  BY <1>1 DEF IInv, TypeInv
<1>3. RowsInv' /\ ChecksInv' /\ ClockInv' /\ DoneInv'
  BY <1>1 DEF IInv, RowsInv, ChecksInv, ClockInv, DoneInv
<1> QED
  BY <1>2, <1>3 DEF IInv

\* Whatever a program does, its rows are those of the steps it has done, its
\* checks have passed, and a clock that stood still has left a trace.
THEOREM RowsAreThoseOfTheSteps == Spec => []IInv
<1>1. Init => IInv
  BY Initially
<1>2. IInv /\ [Next]_vars => IInv'
  <2> SUFFICES ASSUME IInv, [Next]_vars PROVE IInv'
    OBVIOUS
  <2> QED
    BY CheckFixtureStep, CheckOracleStep, TakeSampleStep, FinishRowStep, ReportGapStep,
       EmitStep, Stuttering DEF Next, Ended
<1> QED
  BY <1>1, <1>2, PTL DEF Spec

--------------------------------------------------------------------------------
(***************************************************************************)
(* What is printed.                                                        *)
(***************************************************************************)
LEMMA EmissionPicks ==
    ASSUME NEW A, rows \in Seq(A)
    PROVE  Emission \in Seq(A) /\ Picks(Emission, rows, 1 .. Len(rows))
<1> DEFINE measured == {i \in DOMAIN rows : Measured(rows[i])}
           robotics == {i \in measured : Robotics(rows[i])}
           first == Kept(rows, measured \ robotics)
           second == Kept(rows, robotics)
           third == Kept(rows, DOMAIN rows \ measured)
<1>1. DOMAIN rows = 1 .. Len(rows)
  BY ElementOfSeq
<1>2. CASE family # "idris2"
  <2>1. Emission = rows
    BY <1>2 DEF Emission
  <2>2. Picks(rows, rows, 1 .. Len(rows))
    <3> DEFINE at == [k \in 1 .. Len(rows) |-> k]
    <3>1. /\ at \in [1 .. Len(rows) -> 1 .. Len(rows)]
          /\ \A k \in 1 .. Len(rows) : at[k] = k
      OBVIOUS
    <3> HIDE DEF at
    <3> QED
      BY <3>1 DEF Picks
  <2> QED
    BY <2>1, <2>2
<1>3. CASE family = "idris2"
  <2>1. Emission = (first \o second) \o third
    BY <1>3 DEF Emission
  <2>2. measured \in SUBSET DOMAIN rows /\ robotics \in SUBSET measured
    OBVIOUS
  <2> HIDE DEF measured, robotics
  <2>3. /\ first \in Seq(A) /\ Picks(first, rows, measured \ robotics)
        /\ second \in Seq(A) /\ Picks(second, rows, robotics)
        /\ third \in Seq(A) /\ Picks(third, rows, DOMAIN rows \ measured)
    BY <2>2, KeptPicks
  <2> HIDE DEF first, second, third
  <2>4. /\ first \o second \in Seq(A)
        /\ Picks(first \o second, rows, (measured \ robotics) \cup robotics)
    BY <2>3, PicksJoin
  <2>5. (measured \ robotics) \cup robotics = measured
    BY <2>2
  <2>6. /\ (first \o second) \o third \in Seq(A)
        /\ Picks((first \o second) \o third, rows, measured \cup (DOMAIN rows \ measured))
    BY <2>3, <2>4, <2>5, PicksJoin
  <2>7. measured \cup (DOMAIN rows \ measured) = 1 .. Len(rows)
    BY <1>1, <2>2
  <2> QED
    BY <2>1, <2>6, <2>7
<1> QED
  BY <1>2, <1>3

LEMMA PrintedRows ==
    ASSUME IInv, stage = "done"
    PROVE  LET P == Program[family]
           IN  /\ Len(printed) \in Nat /\ DOMAIN printed = 1 .. Len(printed)
               /\ \A i \in DOMAIN printed : \E k \in DOMAIN P :
                     Reports(family, smoke, stopped, P[k], printed[i])
               /\ \A k \in DOMAIN P : P[k].does # "check" =>
                     \E i \in DOMAIN printed : printed[i].workload = P[k].id
               /\ \A i, j \in DOMAIN printed :
                     printed[i].workload = printed[j].workload => i = j
               /\ family = "idris2" => \A w \in stopped :
                     \E i \in DOMAIN printed : printed[i] = TimedRow(family, smoke, w, 0)
               /\ \A k \in DOMAIN P : P[k] \notin unsound
<1> DEFINE P == Program[family]
           n == Len(rows)
           m == Len(printed)
<1>1. /\ rows \in Seq(RowSet(family, smoke)) /\ printed = Emission
      /\ family \in Families /\ step = Len(P) + 1
  BY DEF IInv, TypeInv, DoneInv
<1>2. /\ printed \in Seq(RowSet(family, smoke)) /\ Picks(printed, rows, 1 .. n)
  BY <1>1, EmissionPicks
<1>3. m \in Nat /\ DOMAIN printed = 1 .. m
  BY <1>2, ElementOfSeq
<1>4. PICK at \in [1 .. m -> 1 .. n] :
         /\ \A i, j \in 1 .. m : at[i] = at[j] => i = j
         /\ \A x \in 1 .. n : \E k \in 1 .. m : at[k] = x
         /\ \A k \in 1 .. m : printed[k] = rows[at[k]]
  BY <1>2 DEF Picks
<1>5. DOMAIN P = 1 .. step - 1
  BY <1>1, Programs
<1> HIDE DEF P, n, m
<1>6. \A i \in 1 .. m : \E k \in DOMAIN P : Reports(family, smoke, stopped, P[k], printed[i])
  BY <1>4, <1>5 DEF IInv, RowsInv, P, n
<1>7. ASSUME NEW k \in DOMAIN P, P[k].does # "check"
      PROVE  \E i \in 1 .. m : printed[i].workload = P[k].id
  <2>1. PICK x \in 1 .. n : rows[x].workload = P[k].id
    BY <1>5, <1>7 DEF IInv, RowsInv, P, n
  <2> QED
    BY <1>4, <2>1
<1>8. \A i, j \in 1 .. m : printed[i].workload = printed[j].workload => i = j
  BY <1>4 DEF IInv, RowsInv, n
<1>9. ASSUME family = "idris2", NEW w \in stopped
      PROVE  \E i \in 1 .. m : printed[i] = TimedRow(family, smoke, w, 0)
  <2>1. PICK x \in 1 .. n : rows[x] = TimedRow(family, smoke, w, 0)
    BY <1>9 DEF IInv, ClockInv, n
  <2> QED
    BY <1>4, <2>1
<1>10. \A k \in DOMAIN P : P[k] \notin unsound
  BY <1>5 DEF IInv, ChecksInv, P
<1> QED
  BY <1>3, <1>6, <1>7, <1>8, <1>9, <1>10 DEF P, m

\* Every printed row, measured or not.
LEMMA PrintedRow ==
    ASSUME IInv, stage = "done", NEW i \in DOMAIN printed
    PROVE  LET r == printed[i]
               w == r.workload
           IN  /\ r.family = family /\ w \in Workloads /\ r.exec = Legacy
               /\ Measured(r) =>
                     /\ r.ops > 0 /\ r.ops = Harness!Agreed(w)
                     /\ r.ops = Harness!ExpectedOperations(w)
                     /\ r.oracle.value = "right" /\ r.samples = SampleCount
                     /\ ~smoke => r.warm = WarmupOperations[w]
                     /\ r.time > 0 \/ w \in stopped
                     /\ family = "rust" => r.time > 0
<1> DEFINE P == Program[family]
           r == printed[i]
           w == r.workload
<1>1. PICK k \in DOMAIN P : Reports(family, smoke, stopped, P[k], r)
  BY PrintedRows
<1>2. family \in Families /\ smoke \in BOOLEAN
  BY DEF IInv, TypeInv
<1>3. /\ P[k] \in ProgramSteps
      /\ family = "idris2" /\ P[k].does = "measure" => P[k].id \notin Batches
  BY <1>2, Programs
<1> HIDE DEF P, r
<1>4. CASE P[k].does = "gap" /\ r = GapRow(family, P[k].id)
  BY <1>3, <1>4, StepKinds, RowFields DEF Measured, r
<1>5. CASE /\ P[k].does = "measure"
           /\ \E t \in Nat : /\ r = TimedRow(family, smoke, P[k].id, t)
                             /\ family = "rust" => t > 0
                             /\ t > 0 \/ P[k].id \in stopped
  <2>1. PICK t \in Nat : /\ r = TimedRow(family, smoke, P[k].id, t)
                         /\ family = "rust" => t > 0
                         /\ t > 0 \/ P[k].id \in stopped
    BY <1>5
  <2>2. /\ r.family = family /\ w = P[k].id /\ r.time = t
        /\ r.ops = Counted(smoke, w) /\ r.warm = Warmed(smoke, w)
        /\ r.samples = SampleCount /\ r.oracle.value = "right" /\ r.exec = Legacy
    BY <2>1, RowFields DEF SampleCount
  <2>3. w \in Workloads /\ (family = "idris2" => w \notin Batches)
    BY <1>3, <1>5, <2>2, StepKinds
  <2>4. /\ Counted(smoke, w) > 0
        /\ Counted(smoke, w) = Harness!Agreed(w)
        /\ Counted(smoke, w) = Harness!ExpectedOperations(w)
        /\ ~smoke => Warmed(smoke, w) = WarmupOperations[w]
    BY <1>2, <2>3, CountsAgree
  <2> QED
    BY <2>1, <2>2, <2>3, <2>4 DEF r
<1> QED
  BY <1>1, <1>4, <1>5 DEF Reports

--------------------------------------------------------------------------------
(***************************************************************************)
(* The theorems.                                                           *)
(***************************************************************************)
\* A program stays within its steps, and takes the profile's samples at most.
THEOREM AdapterTypes == Spec => []TypeOK
<1>1. IInv => TypeOK
  BY DEF IInv, TypeInv, TypeOK
<1> QED
  BY <1>1, RowsAreThoseOfTheSteps, PTL

\* Of no build is a workload printed as measured that failed a check of the program.
THEOREM PrintedRowsAreChecked == Spec => []PrintedMeansChecked
<1>1. IInv => PrintedMeansChecked
  <2> SUFFICES ASSUME IInv, stage = "done", NEW i \in DOMAIN printed, Measured(printed[i])
               PROVE  /\ \A c \in unsound :
                            c \notin {Program[family][k] : k \in DOMAIN Program[family]}
                      /\ printed[i].samples = SampleCount
                      /\ ~smoke => printed[i].warm = WarmupOperations[printed[i].workload]
    BY DEF PrintedMeansChecked
  <2> QED
    BY PrintedRows, PrintedRow
<1> QED
  BY <1>1, RowsAreThoseOfTheSteps, PTL

\* Whichever workloads are too quick for the clock: C++ does not finish, what
\* Idris 2 prints is invalid, and what Rust prints is valid.
THEOREM StoppedClocksShow == Spec => []NoTimeIsNoMeasurement
<1>1. ASSUME IInv, stage = "done", stopped # {} PROVE family # "cpp"
  BY <1>1 DEF IInv, ClockInv
<1>2. ASSUME IInv, stage = "done", stopped # {}, family = "idris2"
      PROVE  \E i \in DOMAIN printed : ~Harness!ValidResult(printed[i])
  <2>1. PICK w : w \in stopped
    BY <1>2
  <2>2. PICK i \in DOMAIN printed : printed[i] = TimedRow(family, smoke, w, 0)
    BY <1>2, <2>1, PrintedRows
  <2>3. printed[i].status = "supported" /\ printed[i].time = 0
    BY <2>2, RowFields
  <2> QED
    BY <2>3 DEF Harness!ValidResult, Harness!Supported
<1>3. ASSUME IInv, stage = "done", family = "rust", NEW i \in DOMAIN printed
      PROVE  Harness!ValidResult(printed[i])
  <2>1. /\ printed[i].exec = Legacy
        /\ Measured(printed[i]) => printed[i].ops > 0 /\ printed[i].time > 0
    BY <1>3, PrintedRow
  <2> QED
    BY <2>1 DEF Harness!ValidResult, Harness!Supported, Harness!Heterogeneous, Measured
<1>4. ASSUME IInv PROVE NoTimeIsNoMeasurement
  <2> SUFFICES ASSUME stage = "done", stopped # {}
               PROVE  CASE family = "cpp" -> FALSE
                        [] family = "idris2" ->
                              \E i \in DOMAIN printed : ~Harness!ValidResult(printed[i])
                        [] family = "rust" ->
                              \A i \in DOMAIN printed : Harness!ValidResult(printed[i])
    BY DEF NoTimeIsNoMeasurement
  <2>1. family \in Families /\ family # "cpp"
    BY <1>1, <1>4 DEF IInv, TypeInv
  <2>2. CASE family = "idris2"
    BY <1>2, <1>4, <2>2
  <2>3. CASE family = "rust"
    BY <1>3, <1>4, <2>3
  <2> QED
    BY <2>1, <2>2, <2>3 DEF Families
<1> QED
  BY <1>4, RowsAreThoseOfTheSteps, PTL

\* The manifest has as many workloads as ids.
LEMMA WorkloadCount == IsFiniteSet(Workloads) /\ Cardinality(Workloads) = Len(Ids)
<1> DEFINE n == Len(Ids)
           f == [i \in 1 .. n |-> Ids[i]]
<1>1. n = 18
  BY WorkloadNames
<1>2. PICK number : \A i \in 1 .. n : Ids[i] \in Workloads /\ number[Ids[i]] = i
  BY <1>1, WorkloadNames
<1>3. \A w \in Workloads : \E i \in 1 .. n : Ids[i] = w
  BY <1>1, WorkloadNames
<1>4. n \in Nat
  BY <1>1
<1> HIDE DEF n
<1>5. f \in [1 .. n -> Workloads] /\ \A i \in 1 .. n : f[i] = Ids[i]
  BY <1>2
<1> HIDE DEF f
<1>6. \A i, j \in 1 .. n : f[i] = f[j] => i = j
  BY <1>2, <1>5
<1>7. f \in Bijection(1 .. n, Workloads)
  BY <1>3, <1>5, <1>6 DEF Bijection, Injection, Surjection, IsInjective
<1>8. IsFiniteSet(1 .. n) /\ Cardinality(1 .. n) = n
  BY <1>4, FS_Interval
<1>9. ExistsBijection(1 .. n, Workloads)
  BY <1>7 DEF ExistsBijection
<1> QED
  BY <1>8, <1>9, FS_Bijection DEF n

LEMMA PresentWorkloads ==
    ASSUME IInv, stage = "done"
    PROVE  /\ IsFiniteSet(Harness!Present(printed)) /\ Harness!Present(printed) \subseteq Workloads
           /\ Cardinality(Harness!Present(printed)) = Len(printed)
<1> DEFINE n == Len(printed)
           S == Harness!Present(printed)
           f == [i \in 1 .. n |-> printed[i].workload]
<1>1. n \in Nat /\ DOMAIN printed = 1 .. n
  BY PrintedRows
<1> HIDE DEF n
<1>2. S = {printed[i].workload : i \in 1 .. n}
  BY <1>1 DEF Harness!Present
<1>3. S \subseteq Workloads
  BY <1>1, <1>2, PrintedRow
<1> HIDE DEF S
<1>4. /\ f \in [1 .. n -> S] /\ \A i \in 1 .. n : f[i] = printed[i].workload
      /\ \A w \in S : \E i \in 1 .. n : f[i] = w
  BY <1>2
<1> HIDE DEF f
<1>5. \A i, j \in 1 .. n : f[i] = f[j] => i = j
  BY <1>1, <1>4, PrintedRows
<1>6. f \in Bijection(1 .. n, S)
  BY <1>4, <1>5 DEF Bijection, Injection, Surjection, IsInjective
<1>7. IsFiniteSet(1 .. n) /\ Cardinality(1 .. n) = n
  BY <1>1, FS_Interval
<1>8. ExistsBijection(1 .. n, S)
  BY <1>6 DEF ExistsBijection
<1> QED
  BY <1>3, <1>7, <1>8, FS_Bijection DEF n, S

LEMMA OutputHonest == IInv => OutputIsHonest
<1> SUFFICES ASSUME IInv, stage = "done", stopped = {}
             PROVE  /\ Harness!Honest(printed)
                    /\ Len(printed) + Cardinality(Harness!Missing(printed)) = Len(Ids)
                    /\ \A i \in DOMAIN printed :
                          Measured(printed[i]) =>
                             printed[i].ops = Harness!ExpectedOperations(printed[i].workload)
  BY DEF OutputIsHonest
<1> DEFINE P == Program[family]
           present == Harness!Present(printed)
<1>1. /\ Len(printed) \in Nat /\ DOMAIN printed = 1 .. Len(printed)
      /\ \A i, j \in DOMAIN printed : printed[i].workload = printed[j].workload => i = j
      /\ \A k \in DOMAIN P : P[k].does # "check" =>
            \E i \in DOMAIN printed : printed[i].workload = P[k].id
  BY PrintedRows
<1>2. /\ family \in Families
      /\ Len(P) \in DOMAIN P /\ P[Len(P)].does # "check"
      /\ family = "rust" => \A w \in Workloads : \E k \in DOMAIN P :
            P[k].does # "check" /\ P[k].id = w
  <2>1. family \in Families
    BY DEF IInv, TypeInv
  <2>2. /\ Len(P) \in Nat \ {0} /\ DOMAIN P = 1 .. Len(P)
        /\ P[Len(P)].does # "check"
        /\ family = "rust" => \A w \in Workloads : \E k \in 1 .. Len(P) :
              P[k].does # "check" /\ P[k].id = w
    BY <2>1, Programs
  <2> QED
    BY <2>1, <2>2
<1> HIDE DEF P
<1>3. DOMAIN printed # {} /\ printed # <<>>
  BY <1>1, <1>2
<1>4. family = "rust" => Workloads \subseteq present
  <2> SUFFICES ASSUME family = "rust", NEW w \in Workloads PROVE w \in present
    OBVIOUS
  <2>1. PICK i \in DOMAIN printed : printed[i].workload = w
    BY <1>1, <1>2
  <2> QED
    BY <2>1 DEF Harness!Present
<1>5. ASSUME NEW i \in DOMAIN printed
      PROVE  /\ printed[i].family = family /\ Harness!Evidence(printed[i])
             /\ Harness!Supported(printed[i]) =>
                   /\ printed[i].ops = Harness!Agreed(printed[i].workload)
                   /\ printed[i].oracle.value = "right"
  <2> DEFINE r == printed[i]
  <2>1. /\ r.family = family /\ r.workload \in Workloads /\ r.exec = Legacy
        /\ Measured(r) => /\ r.ops > 0 /\ r.ops = Harness!Agreed(r.workload)
                          /\ r.oracle.value = "right" /\ r.time > 0
    BY PrintedRow
  <2> HIDE DEF r
  <2>2. Harness!Supported(r) <=> Measured(r)
    BY DEF Harness!Supported, Measured
  <2>3. ~Harness!Heterogeneous(r)
    BY <2>1 DEF Harness!Heterogeneous
  <2>4. Harness!Evidence(r)
    BY <2>1, <2>2, <2>3 DEF Harness!Evidence, Harness!ValidResult, Harness!BoundToWorkload
  <2> QED
    BY <2>1, <2>2, <2>4 DEF r
<1>6. Harness!DistinctKeys(printed)
  BY <1>1 DEF Harness!DistinctKeys, Harness!ReconcileKey
<1>7. Harness!Honest(printed)
  BY <1>2, <1>3, <1>4, <1>5, <1>6 DEF Harness!Honest, Families
<1>8. Len(printed) + Cardinality(Harness!Missing(printed)) = Len(Ids)
  <2>1. Harness!Missing(printed) = Workloads \ present
    BY <1>2, <1>3, <1>4 DEF Harness!Missing, Families
  <2>2. /\ present \subseteq Workloads /\ Cardinality(present) = Len(printed)
    BY PresentWorkloads
  <2> HIDE DEF present
  <2>3. present = Workloads \cap present
    BY <2>2
  <2>4. Cardinality(Workloads \ present) = Cardinality(Workloads) - Cardinality(Workloads \cap present)
    BY WorkloadCount, FS_Difference
  <2>5. Cardinality(Workloads) \in Nat
    BY WorkloadCount, FS_CardinalityType
  <2> DEFINE all == Cardinality(Workloads)
             p == Len(printed)
             q == Cardinality(Harness!Missing(printed))
  <2>6. Cardinality(Workloads \cap present) = p
    BY <2>2, <2>3
  <2>7. q = all - p
    BY <2>1, <2>4, <2>6
  <2>8. all = Len(Ids) /\ p \in Nat
    BY <1>1, WorkloadCount
  <2> HIDE DEF all, p, q
  <2>9. p + q = all
    BY <2>5, <2>7, <2>8 DEF all
  <2> QED
    BY <2>8, <2>9 DEF p, q
<1> QED
  BY <1>7, <1>8, PrintedRow

\* With a clock that always moves, the harness accepts what a program prints:
\* each workload once, counted as the manifest or the family's own rule asks.
THEOREM OutputsAreHonest == Spec => []OutputIsHonest
BY OutputHonest, RowsAreThoseOfTheSteps, PTL
================================================================================
