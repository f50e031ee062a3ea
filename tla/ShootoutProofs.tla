------------------------------ MODULE ShootoutProofs ------------------------------
(***************************************************************************)
(* Theorems about Shootout, for any contract and whatever the members may  *)
(* print, within OutputsAssumption.                                        *)
(***************************************************************************)
EXTENDS Shootout, ListFacts

Times == Int \cup {NoTime, Malformed}

\* The lists read from the members are lists, with a time in each row.
DataInv ==
    /\ data = [m \in Members |-> data[m]]
    /\ \A m \in Members :
          /\ Listed(data[m].rows)
          /\ \A i \in DOMAIN data[m].rows :
                data[m].rows[i].ns \in Times /\ data[m].rows[i].status # "absent"

Early == {"build", "run_cpp", "run_rust"}

\* What main and the wrapper have established where.
StageInv ==
    /\ stage \in Stages /\ benched \in BOOLEAN
    /\ stage \in Early => data["rust"] = Nothing
    /\ stage \in Early \cup {"discover", "machine_ready", "bench"} => ~benched
    /\ (stage = "tabulate" \/ Tabulated) /\ ~benched =>
          data["fstar"] = Bundle(PlaceholderRows("unavailable"))
    /\ stage = "tabulate" /\ Unusable("fstar") => benched /\ host.make

\* The table is that of the data, and every document could be read.
TableBuilt ==
    /\ table = LinesOf(AllBenchmarks)
    /\ \A m \in Members : data[m].text = "rows"
    /\ ~CannotBeShown

FileInv ==
    /\ Tabulated => TableBuilt
    /\ json.state = "whole" => json.of = data /\ TableBuilt
    /\ md.state = "whole" => md.of = table
    /\ md # Earlier => json.state = "whole"
    /\ stage \in {"open_md", "write_md", "done"} => json.state = "whole"
    /\ stage = "done" <=> md.state = "whole"
    /\ stage \notin {"write_json", "open_md", "write_md", "done", "unsaved", "killed"} =>
          json = Earlier /\ md = Earlier

--------------------------------------------------------------------------------
(***************************************************************************)
(* A step changes what the members said, or builds the table, or writes    *)
(* one of the files.                                                       *)
(***************************************************************************)
LEMMA NothingListed == Listed(<<>>) /\ DOMAIN <<>> = {}
<1>1. <<>> \in Seq({}) /\ Len(<<>>) = 0
  BY EmptySeq
<1> QED
  BY <1>1, LenProperties DEF Listed

LEMMA PlaceholdersListed ==
    ASSUME NEW status, status # "absent"
    PROVE  /\ Listed(PlaceholderRows(status))
           /\ DOMAIN PlaceholderRows(status) = DOMAIN ContractIds
           /\ \A i \in DOMAIN PlaceholderRows(status) :
                 LET row == PlaceholderRows(status)[i]
                 IN  /\ row.id = ContractIds[i] /\ row.id # NoKey
                     /\ row.flat = FALSE /\ row.status = status /\ row.ns = NoTime
<1> DEFINE n == Len(ContractIds)
           rows == PlaceholderRows(status)
           T == {rows[i] : i \in 1 .. n}
<1>1. n \in Nat /\ DOMAIN ContractIds = 1 .. n /\ \A i \in DOMAIN ContractIds : ContractIds[i] # NoKey
  BY OutputsAssumption DEF Listed
<1>2. rows = [i \in 1 .. n |-> [id |-> ContractIds[i], flat |-> FALSE,
                                status |-> status, ns |-> NoTime]]
  BY <1>1 DEF PlaceholderRows
<1>3. DOMAIN rows = 1 .. n /\ rows \in [1 .. n -> T]
  BY <1>2
<1>4. rows \in Seq(T)
  BY <1>1, <1>3, SeqDef
<1>5. Len(rows) \in Nat /\ DOMAIN rows = 1 .. Len(rows)
  BY <1>4, LenProperties
<1> QED
  BY <1>1, <1>2, <1>3, <1>5 DEF Listed

\* A document the data may hold.
Document(d) ==
    /\ Listed(d.rows)
    /\ \A i \in DOMAIN d.rows : d.rows[i].ns \in Times /\ d.rows[i].status # "absent"

LEMMA Documents ==
    /\ Document(Nothing) /\ Document(Bundle(<<>>))
    /\ \A status : status # "absent" => Document(Bundle(PlaceholderRows(status)))
    /\ \A out \in NativeOutputs \cup BenchOutputs : Document(out)
    /\ \A out \in BenchOutputs : Document(Printed(out))
    /\ Printed([Nothing EXCEPT !.exit = FALSE]) = Bundle(PlaceholderRows("failed"))
<1>1. Document(Nothing) /\ Document(Bundle(<<>>))
  BY NothingListed DEF Document, Nothing, Bundle
<1>2. ASSUME NEW status, status # "absent" PROVE Document(Bundle(PlaceholderRows(status)))
  <2>1. Bundle(PlaceholderRows(status)).rows = PlaceholderRows(status)
    BY DEF Bundle
  <2>2. NoTime \in Times
    BY DEF Times
  <2>3. /\ Listed(PlaceholderRows(status))
        /\ \A i \in DOMAIN PlaceholderRows(status) :
              PlaceholderRows(status)[i].ns = NoTime /\ PlaceholderRows(status)[i].status = status
    BY <1>2, PlaceholdersListed
  <2> QED
    BY <1>2, <2>1, <2>2, <2>3 DEF Document
<1>3. \A out \in NativeOutputs \cup BenchOutputs : Document(out)
  BY OutputsAssumption DEF Document, Times
<1>4. \A out \in BenchOutputs : Document(Printed(out))
  BY <1>2, <1>3 DEF Printed
<1>5. Printed([Nothing EXCEPT !.exit = FALSE]) = Bundle(PlaceholderRows("failed"))
  BY DEF Printed, Nothing
<1> QED
  BY <1>1, <1>2, <1>3, <1>4, <1>5

LEMMA DataReplaced ==
    ASSUME DataInv, NEW m \in Members, NEW d, Document(d), data' = [data EXCEPT ![m] = d]
    PROVE  DataInv' /\ data'[m] = d /\ \A o \in Members \ {m} : data'[o] = data[o]
<1>1. DOMAIN data = Members
  BY DEF DataInv
<1>2. data'[m] = d /\ \A o \in Members \ {m} : data'[o] = data[o]
  BY <1>1
<1>3. data' = [o \in Members |-> data'[o]]
  BY <1>1
<1>4. \A o \in Members : Document(data'[o])
  BY <1>2 DEF DataInv, Document
<1> QED
  BY <1>2, <1>3, <1>4 DEF DataInv, Document

\* The document of the F* member, once delivered, is one of four.
LEMMA FstarDelivered ==
    ASSUME DataInv, StageInv, Discover \/ MachineReady \/ Bench, stage' = "tabulate"
    PROVE  /\ UNCHANGED <<host, table, files>>
           /\ \E d : /\ Document(d) /\ data' = [data EXCEPT !["fstar"] = d]
                     /\ \/ ~benched' /\ d = Bundle(PlaceholderRows("unavailable"))
                        \/ benched' /\ ~host.make /\ d = Bundle(<<>>)
                        \/ benched' /\ d = Bundle(PlaceholderRows("failed"))
                        \/ benched' /\ host.make /\ d \in {Printed(out) : out \in BenchOutputs}
<1>1. CASE Discover
  BY <1>1, Documents DEF Discover, Delivered, wrapper, StageInv
<1>2. CASE MachineReady
  BY <1>2, Documents DEF MachineReady, Delivered, wrapper, StageInv
<1>3. CASE Bench
  <2>1. CASE ~host.make /\ Delivered(Bundle(<<>>))
    BY <1>3, <2>1, Documents DEF Bench, Delivered
  <2>2. CASE Delivered(Printed([Nothing EXCEPT !.exit = FALSE]))
    BY <1>3, <2>2, Documents DEF Bench, Delivered
  <2>3. CASE host.make /\ \E out \in BenchOutputs : Delivered(Printed(out))
    BY <1>3, <2>3, Documents DEF Bench, Delivered
  <2> QED
    BY <1>3, <2>1, <2>2, <2>3 DEF Bench
<1> QED
  BY <1>1, <1>2, <1>3

\* What running a native member may change.
LEMMA NativeStep ==
    ASSUME DataInv, NEW m \in {"cpp", "rust"}, NEW from, NEW then, RunNative(m, from, then)
    PROVE  /\ DataInv' /\ UNCHANGED <<wrapper, vm, table, files>> /\ stage = from
           /\ \/ stage' = then /\ \A o \in Members \ {m} : data'[o] = data[o]
              \/ stage' = "raised" /\ UNCHANGED data
<1>1. CASE UNCHANGED data
  BY <1>1 DEF RunNative, DataInv, wrapper, files
<1>2. CASE data' # data
  <2>1. PICK out \in NativeOutputs : data' = [data EXCEPT ![m] = out] /\ stage' = then
    BY <1>2 DEF RunNative
  <2>2. Document(out) /\ m \in Members
    BY Documents DEF Members
  <2>3. DataInv' /\ \A o \in Members \ {m} : data'[o] = data[o]
    BY <2>1, <2>2, DataReplaced
  <2> QED
    BY <2>1, <2>3 DEF RunNative
<1> QED
  BY <1>1, <1>2

LEMMA InitInvs == Init => DataInv /\ StageInv /\ FileInv
<1> SUFFICES ASSUME Init PROVE DataInv /\ StageInv /\ FileInv
  OBVIOUS
<1>1. DataInv
  BY Documents DEF Init, DataInv, Document
<1>2. StageInv
  BY DEF Init, StageInv, Stages, Early, Members, Tabulated
<1>3. FileInv
  BY DEF Init, FileInv, Tabulated, Earlier
<1> QED
  BY <1>1, <1>2, <1>3

LEMMA SameDataSameUse ==
    ASSUME UNCHANGED data
    PROVE  \A m : Unusable(m)' <=> Unusable(m)
BY DEF Unusable, Says

LEMMA SameDataSameTable ==
    ASSUME UNCHANGED data
    PROVE  /\ LinesOf(AllBenchmarks)' = LinesOf(AllBenchmarks)
           /\ CannotBeShown' <=> CannotBeShown
<1>1. CannotBeShown' <=> CannotBeShown
  BY DEF AllBenchmarks, Keys, CannotBeShown, RowOf
<1>2. LinesOf(AllBenchmarks)' = LinesOf(AllBenchmarks)
  BY DEF LinesOf, AllBenchmarks, Keys, Line, RowOf
<1> QED
  BY <1>1, <1>2

LEMMA AbsentSaysNothing == Absent.ns = NoTime /\ Absent.flat = FALSE /\ Absent.status = ""
BY DEF Absent

\* Steps after which everything main has read is as before.
LEMMA DataKept ==
    ASSUME DataInv, StageInv, FileInv, UNCHANGED <<data, table>>
    PROVE  DataInv' /\ (TableBuilt' <=> TableBuilt) /\ (\A m : Unusable(m)' <=> Unusable(m))
<1>1. DataInv'
  BY DEF DataInv
<1>2. \A m : Unusable(m)' <=> Unusable(m)
  BY SameDataSameUse
<1>3. TableBuilt' <=> TableBuilt
  BY SameDataSameTable DEF TableBuilt
<1> QED
  BY <1>1, <1>2, <1>3

LEMMA NextDataStage == DataInv /\ StageInv /\ FileInv /\ [Next]_vars => DataInv' /\ StageInv'
<1> SUFFICES ASSUME DataInv, StageInv, FileInv, [Next]_vars PROVE DataInv' /\ StageInv'
  OBVIOUS
<1> USE DEF Early, Stages, Tabulated
<1>1. CASE MachineChanges \/ SaveFails \/ Kill \/ Over \/ UNCHANGED vars
  <2>1. /\ UNCHANGED <<data, table, benched, host>>
        /\ stage' = stage \/ stage' = "unsaved" \/ stage' = "killed"
    BY <1>1 DEF MachineChanges, SaveFails, Kill, Over, vars, wrapper
  <2>2. DataInv' /\ (Unusable("fstar")' <=> Unusable("fstar"))
    BY <2>1, DataKept
  <2> QED
    BY <2>1, <2>2 DEF StageInv
<1>2. CASE Build
  <2>1. UNCHANGED <<data, table, benched, host>> /\ stage = "build" /\ stage' \in {"run_cpp", "raised"}
    BY <1>2 DEF Build, wrapper
  <2> QED
    BY <2>1, DataKept DEF StageInv
<1>3. CASE RunCpp
  <2>1. /\ DataInv' /\ UNCHANGED <<wrapper, vm, table, files>> /\ stage = "run_cpp"
        /\ \/ stage' = "run_rust" /\ \A o \in Members \ {"cpp"} : data'[o] = data[o]
           \/ stage' = "raised" /\ UNCHANGED data
    BY <1>3, NativeStep DEF RunCpp
  <2>2. data'["rust"] = data["rust"]
    BY <2>1 DEF Members
  <2> QED
    BY <2>1, <2>2 DEF StageInv, wrapper
<1>4. CASE RunRust
  <2>1. /\ DataInv' /\ UNCHANGED <<wrapper, vm, table, files>> /\ stage = "run_rust"
        /\ \/ stage' = "discover"
           \/ stage' = "raised" /\ UNCHANGED data
    BY <1>4, NativeStep DEF RunRust
  <2> QED
    BY <2>1 DEF StageInv, wrapper
<1>5. CASE (Discover \/ MachineReady \/ Bench) /\ stage' = "tabulate"
  <2>1. /\ UNCHANGED <<host, table, files>>
        /\ \E d : /\ Document(d) /\ data' = [data EXCEPT !["fstar"] = d]
                  /\ \/ ~benched' /\ d = Bundle(PlaceholderRows("unavailable"))
                     \/ benched' /\ ~host.make /\ d = Bundle(<<>>)
                     \/ benched' /\ d = Bundle(PlaceholderRows("failed"))
                     \/ benched' /\ host.make /\ d \in {Printed(out) : out \in BenchOutputs}
    BY <1>5, FstarDelivered
  <2>2. PICK d : /\ Document(d) /\ data' = [data EXCEPT !["fstar"] = d]
                 /\ \/ ~benched' /\ d = Bundle(PlaceholderRows("unavailable"))
                    \/ benched' /\ ~host.make /\ d = Bundle(<<>>)
                    \/ benched' /\ d = Bundle(PlaceholderRows("failed"))
                    \/ benched' /\ host.make /\ d \in {Printed(out) : out \in BenchOutputs}
    BY <2>1
  <2>3. DataInv' /\ data'["fstar"] = d
    BY <2>2, DataReplaced DEF Members
  <2>4. benched' \in BOOLEAN
    BY <1>5 DEF Discover, MachineReady, Bench, StageInv, wrapper
  <2>5. ~benched' => data'["fstar"] = Bundle(PlaceholderRows("unavailable"))
    BY <2>2, <2>3
  <2>6. Unusable("fstar")' => benched' /\ host'.make
    <3>1. CASE d = Bundle(PlaceholderRows("unavailable")) \/ d = Bundle(PlaceholderRows("failed"))
      <4>1. PICK status \in {"unavailable", "failed"} : d = Bundle(PlaceholderRows(status))
        BY <3>1
      <4>2. data'["fstar"].text = "rows" /\ data'["fstar"].rows = PlaceholderRows(status)
        BY <2>3, <4>1 DEF Bundle
      <4>3. \A i \in DOMAIN PlaceholderRows(status) :
               /\ PlaceholderRows(status)[i].id # NoKey
               /\ PlaceholderRows(status)[i].ns # Malformed
        BY PlaceholdersListed, OutputsAssumption
      <4> QED
        BY <4>2, <4>3 DEF Unusable, ToSet
    <3>2. CASE d = Bundle(<<>>)
      <4>1. data'["fstar"].text = "rows" /\ data'["fstar"].rows = <<>>
        BY <2>3, <3>2 DEF Bundle
      <4> QED
        BY <4>1, NothingListed DEF Unusable, ToSet
    <3>3. CASE benched' /\ host.make
      BY <2>1, <3>3
    <3> QED
      BY <2>2, <3>1, <3>2, <3>3
  <2> QED
    BY <1>5, <2>3, <2>4, <2>5, <2>6 DEF StageInv
<1>6. CASE (Discover \/ MachineReady \/ Bench) /\ stage' # "tabulate"
  <2>1. UNCHANGED <<data, table, benched, host>> /\ stage' \in {"machine_ready", "bench"} /\ ~benched
    BY <1>6 DEF Discover, MachineReady, Bench, Delivered, wrapper, StageInv
  <2> QED
    BY <2>1, DataKept DEF StageInv
<1>7. CASE Tabulate
  <2>1. /\ UNCHANGED <<data, benched, host>>
        /\ stage = "tabulate" /\ stage' \in {"raised", "open_json"}
    BY <1>7 DEF Tabulate, wrapper
  <2> QED
    BY <2>1 DEF StageInv, DataInv
<1>8. CASE OpenJson \/ WriteJson \/ OpenMd \/ WriteMd
  <2>1. /\ UNCHANGED <<data, benched, host>> /\ Tabulated
        /\ stage' \in {"write_json", "open_md", "write_md", "done"}
    BY <1>8 DEF OpenJson, WriteJson, OpenMd, WriteMd, Save, wrapper
  <2> QED
    BY <2>1 DEF StageInv, DataInv
<1> QED
  BY <1>1, <1>2, <1>3, <1>4, <1>5, <1>6, <1>7, <1>8 DEF Next

LEMMA NextFileInv == DataInv /\ StageInv /\ FileInv /\ [Next]_vars => FileInv'
<1> SUFFICES ASSUME DataInv, StageInv, FileInv, [Next]_vars PROVE FileInv'
  OBVIOUS
<1>1. CASE Build \/ RunCpp \/ RunRust \/ Discover \/ MachineReady \/ Bench
  <2>1. /\ json = Earlier /\ md = Earlier /\ json' = json /\ md' = md
        /\ stage' \in {"run_cpp", "run_rust", "discover", "machine_ready", "bench",
                       "tabulate", "raised"}
    BY <1>1 DEF Build, RunCpp, RunRust, RunNative, Discover, MachineReady, Bench, Delivered,
                files, FileInv
  <2> QED
    BY <2>1 DEF FileInv, Tabulated, Earlier
<1>2. CASE Tabulate
  <2>1. json = Earlier /\ md = Earlier /\ json' = json /\ md' = md /\ data' = data
    BY <1>2 DEF Tabulate, files, FileInv
  <2>2. CASE stage' = "raised"
    BY <2>1, <2>2 DEF FileInv, Tabulated, Earlier
  <2>3. CASE stage' # "raised"
    <3>1. /\ \A m \in DOMAIN data : data[m].text = "rows"
          /\ ~CannotBeShown /\ stage' = "open_json"
          /\ table' = LinesOf(AllBenchmarks)
      BY <1>2, <2>3 DEF Tabulate
    <3>2. DOMAIN data = Members
      BY DEF DataInv
    <3>3. LinesOf(AllBenchmarks)' = LinesOf(AllBenchmarks) /\ ~CannotBeShown'
      BY <2>1, <3>1, SameDataSameTable
    <3>4. TableBuilt'
      BY <2>1, <3>1, <3>2, <3>3 DEF TableBuilt
    <3> QED
      BY <2>1, <3>1, <3>4 DEF FileInv, Tabulated, Earlier
  <2> QED
    BY <2>2, <2>3
<1>3. CASE OpenJson \/ WriteJson \/ OpenMd \/ WriteMd
  <2>1. UNCHANGED <<data, table>> /\ Tabulated
    BY <1>3 DEF OpenJson, WriteJson, OpenMd, WriteMd, Save, Tabulated
  <2>2. TableBuilt /\ TableBuilt'
    BY <2>1, DataKept DEF FileInv
  <2>3. CASE OpenJson
    BY <2>1, <2>2, <2>3 DEF OpenJson, Save, FileInv, Tabulated, Truncated, Earlier
  <2>4. CASE WriteJson
    BY <2>1, <2>2, <2>4 DEF WriteJson, Save, FileInv, Tabulated, Whole, Earlier
  <2>5. CASE OpenMd
    BY <2>1, <2>2, <2>5 DEF OpenMd, Save, FileInv, Tabulated, Truncated, Earlier
  <2>6. CASE WriteMd
    BY <2>1, <2>2, <2>6 DEF WriteMd, Save, FileInv, Tabulated, Whole, Earlier
  <2> QED
    BY <1>3, <2>3, <2>4, <2>5, <2>6
<1>4. CASE MachineChanges \/ SaveFails \/ Kill \/ Over \/ UNCHANGED vars
  <2>1. /\ UNCHANGED <<data, table, json, md>>
        /\ \/ stage' = stage
           \/ stage # "done" /\ stage' \in {"unsaved", "killed"}
    BY <1>4 DEF MachineChanges, SaveFails, Kill, Over, Ended, vars, files
  <2>2. TableBuilt' <=> TableBuilt
    BY <2>1, DataKept
  <2> QED
    BY <2>1, <2>2 DEF FileInv, Tabulated
<1> QED
  BY <1>1, <1>2, <1>3, <1>4 DEF Next

LEMMA Invs == Spec => [](DataInv /\ StageInv /\ FileInv)
BY InitInvs, NextDataStage, NextFileInv, PTL DEF Spec

--------------------------------------------------------------------------------
(***************************************************************************)
(* What the table is made of.                                              *)
(***************************************************************************)

\* One line for each workload some member reports.
LEMMA AllBenchmarksShape ==
    ASSUME DataInv
    PROVE  LET B == AllBenchmarks
           IN  /\ DOMAIN B = 1 .. Len(B)
               /\ \A k, l \in DOMAIN B : B[k] = B[l] => k = l
               /\ \A m \in Members : \A i \in DOMAIN data[m].rows :
                     \E k \in DOMAIN B : B[k] = data[m].rows[i].id
               /\ \A k \in DOMAIN B : \E m \in Members : \E i \in DOMAIN data[m].rows :
                     B[k] = data[m].rows[i].id
<1> DEFINE Ids == ToSet(Keys("cpp")) \cup ToSet(Keys("rust")) \cup ToSet(Keys("fstar"))
           n == Cardinality(Ids)
<1>1. \A m \in Members : IsFiniteSet(ToSet(Keys(m)))
  <2> SUFFICES ASSUME NEW m \in Members PROVE IsFiniteSet(ToSet(Keys(m)))
    OBVIOUS
  <2>1. DOMAIN Keys(m) = 1 .. Len(data[m].rows) /\ Len(data[m].rows) \in Nat
    BY DEF Keys, DataInv, Listed
  <2>2. Keys(m) = [i \in DOMAIN Keys(m) |-> Keys(m)[i]]
    BY DEF Keys
  <2> QED
    BY <2>1, <2>2, ListIsFinite
<1>2. IsFiniteSet(Ids)
  BY <1>1, FS_Union DEF Members
<1>3. /\ n \in Nat /\ AllBenchmarks \in [1 .. n -> Ids]
      /\ \A k, l \in 1 .. n : AllBenchmarks[k] = AllBenchmarks[l] => k = l
      /\ \A id \in Ids : \E k \in 1 .. n : AllBenchmarks[k] = id
  BY <1>2, SetToSeqLists DEF AllBenchmarks
<1>4. Len(AllBenchmarks) = n /\ DOMAIN AllBenchmarks = 1 .. n
  BY <1>3, SeqDef, LenProperties
<1>5. \A m \in Members : \A i \in DOMAIN data[m].rows : data[m].rows[i].id \in Ids
  BY DEF Members, Keys, ToSet
<1>6. \A id \in Ids : \E m \in Members : \E i \in DOMAIN data[m].rows : id = data[m].rows[i].id
  BY DEF Members, Keys, ToSet
<1> QED
  BY <1>3, <1>4, <1>5, <1>6

\* A member's row for a key is the last it printed about it, if any.
LEMMA RowOfShape ==
    ASSUME DataInv, NEW m \in Members, NEW id
    PROVE  \/ /\ RowOf(m, id) = Absent
              /\ \A i \in DOMAIN data[m].rows : data[m].rows[i].id # id
           \/ \E i \in DOMAIN data[m].rows :
                 /\ RowOf(m, id) = data[m].rows[i] /\ data[m].rows[i].id = id
                 /\ \A j \in DOMAIN data[m].rows : data[m].rows[j].id = id => j <= i
<1> DEFINE mine == {i \in DOMAIN data[m].rows : data[m].rows[i].id = id}
<1>1. CASE mine = {}
  BY <1>1 DEF RowOf
<1>2. CASE mine # {}
  <2>1. Len(data[m].rows) \in Nat /\ mine \subseteq 1 .. Len(data[m].rows)
    BY DEF DataInv, Listed
  <2>2. Max(mine) \in mine /\ \A j \in mine : j <= Max(mine)
    BY <1>2, <2>1, LastPlace
  <2>3. RowOf(m, id) = data[m].rows[Max(mine)]
    BY <1>2 DEF RowOf
  <2> QED
    BY <2>2, <2>3
<1> QED
  BY <1>1, <1>2

--------------------------------------------------------------------------------
(***************************************************************************)
(* The stages and the files (main, and the wrapper as its child).          *)
(***************************************************************************)
THEOREM StagesAreWellTyped == Spec => []TypeOK
<1>1. DataInv /\ StageInv /\ FileInv => TypeOK
  BY DEF DataInv, StageInv, FileInv, TypeOK, TableBuilt, Earlier
<1> QED
  BY Invs, <1>1, PTL

\* A table that cannot be shown has a row to blame.
LEMMA UnshownIsUnusable ==
    ASSUME DataInv, CannotBeShown
    PROVE  \E m \in Members : Unusable(m)
<1>1. CASE Contains(AllBenchmarks, NoKey)
  <2>1. PICK k \in DOMAIN AllBenchmarks : AllBenchmarks[k] = NoKey
    BY <1>1, AllBenchmarksShape DEF Contains
  <2> QED
    BY <2>1, AllBenchmarksShape DEF Unusable, ToSet
<1>2. ASSUME NEW m \in DOMAIN data, NEW id, RowNsPerOp(RowOf(m, id)) = Malformed
      PROVE  Unusable(m) /\ m \in Members
  <2>1. m \in Members
    BY DEF DataInv
  <2>2. RowOf(m, id) # Absent /\ MayTime(RowOf(m, id)) /\ RowOf(m, id).ns = Malformed
    BY <1>2, OutputsAssumption, AbsentSaysNothing DEF RowNsPerOp, MayTime
  <2>3. PICK i \in DOMAIN data[m].rows :
           /\ RowOf(m, id) = data[m].rows[i] /\ data[m].rows[i].id = id
           /\ \A j \in DOMAIN data[m].rows : data[m].rows[j].id = id => j <= i
    BY <2>1, <2>2, RowOfShape
  <2>4. data[m].rows[i] \in ToSet(data[m].rows) /\ Says(m, id, data[m].rows[i])
    BY <2>3 DEF ToSet, Says
  <2> QED
    BY <2>1, <2>2, <2>3, <2>4 DEF Unusable
<1> QED
  BY <1>1, <1>2 DEF CannotBeShown

\* Only a member's document that cannot be tabulated makes Tabulate fail.
LEMMA NextHarmless ==
    DataInv /\ StageInv /\ FileInv /\ FstarIsHarmless /\ [Next]_vars => FstarIsHarmless'
<1> SUFFICES ASSUME DataInv, StageInv, FileInv, FstarIsHarmless, [Next]_vars,
                    stage' = "raised"
             PROVE  \/ data'["rust"] = Nothing \/ Unusable("cpp")' \/ Unusable("rust")'
                    \/ benched' /\ host'.make /\ Unusable("fstar")'
  BY DEF FstarIsHarmless
<1>1. CASE stage = "raised"
  <2>1. UNCHANGED vars
    BY <1>1 DEF Next, vars, MachineChanges, Build, RunCpp, RunRust, RunNative, Discover,
                MachineReady, Bench, Tabulate, OpenJson, WriteJson, OpenMd, WriteMd, Save,
                SaveFails, Kill, Over, Ended
  <2> QED
    BY <1>1, <2>1, SameDataSameUse DEF vars, wrapper, FstarIsHarmless
<1>2. CASE Build \/ RunCpp \/ RunRust
  <2>1. data' = data /\ stage \in Early
    <3>1. CASE Build
      BY <3>1 DEF Build, Early
    <3>2. CASE RunCpp
      BY <3>2, NativeStep DEF RunCpp, Early
    <3>3. CASE RunRust
      BY <3>3, NativeStep DEF RunRust, Early
    <3> QED
      BY <1>2, <3>1, <3>2, <3>3
  <2> QED
    BY <2>1 DEF StageInv
<1>3. CASE Tabulate
  <2>1. /\ UNCHANGED <<data, host, benched>> /\ stage = "tabulate"
        /\ (\E m \in DOMAIN data : data[m].text # "rows") \/ CannotBeShown
    BY <1>3 DEF Tabulate, wrapper
  <2>2. \E m \in Members : Unusable(m)
    <3>1. CASE \E m \in DOMAIN data : data[m].text # "rows"
      BY <3>1 DEF Unusable, DataInv
    <3>2. CASE CannotBeShown
      BY <3>2, UnshownIsUnusable
    <3> QED
      BY <2>1, <3>1, <3>2
  <2>3. \/ Unusable("cpp") \/ Unusable("rust")
        \/ Unusable("fstar") /\ benched /\ host.make
    BY <2>1, <2>2 DEF Members, StageInv
  <2> QED
    BY <2>1, <2>3, SameDataSameUse
<1> QED
  BY <1>1, <1>2, <1>3 DEF Next, vars, MachineChanges, Discover, MachineReady, Bench,
     Delivered, OpenJson, WriteJson, OpenMd, WriteMd, Save, SaveFails, Kill, Over

(***************************************************************************)
(* A shootout that fails before it saves, once the native members have     *)
(* run, does so on account of a document that one of them printed, or that *)
(* `make bench' printed and the wrapper passed on (main, run_fstar).       *)
(***************************************************************************)
THEOREM FstarDoesNoHarm == Spec => []FstarIsHarmless
<1>1. Init => FstarIsHarmless
  BY DEF Init, FstarIsHarmless
<1> QED
  BY <1>1, Invs, NextHarmless, PTL DEF Spec

(***************************************************************************)
(* Unless `make bench' itself speaks of missing prerequisites, nobody does *)
(* once it has been called (run_fstar.py's split of its three outcomes).   *)
(***************************************************************************)
BenchIsPlain ==
    \A out \in BenchOutputs : \A i \in DOMAIN out.rows : out.rows[i].status # "unavailable"

LEMMA NextNotHidden ==
    ASSUME BenchIsPlain
    PROVE  DataInv /\ StageInv /\ FileInv /\ FailureIsNotHidden /\ [Next]_vars
              => FailureIsNotHidden'
<1> SUFFICES ASSUME DataInv, StageInv, FileInv, FailureIsNotHidden, [Next]_vars, benched'
             PROVE  \A i \in DOMAIN data'["fstar"].rows :
                       data'["fstar"].rows[i].status # "unavailable"
  BY DEF FailureIsNotHidden, ToSet
<1>1. CASE Bench
  <2>1. stage' = "tabulate"
    BY <1>1 DEF Bench, Delivered
  <2>2. PICK d : /\ Document(d) /\ data' = [data EXCEPT !["fstar"] = d]
                 /\ \/ ~benched' /\ d = Bundle(PlaceholderRows("unavailable"))
                    \/ benched' /\ ~host.make /\ d = Bundle(<<>>)
                    \/ benched' /\ d = Bundle(PlaceholderRows("failed"))
                    \/ benched' /\ host.make /\ d \in {Printed(out) : out \in BenchOutputs}
    BY <1>1, <2>1, FstarDelivered
  <2>3. data'["fstar"] = d
    BY <2>2, DataReplaced DEF Members
  <2>4. CASE d = Bundle(<<>>)
    <3>1. d.rows = <<>>
      BY <2>4 DEF Bundle
    <3> QED
      BY <2>3, <3>1, NothingListed
  <2>5. CASE d = Bundle(PlaceholderRows("failed"))
    <3>1. d.rows = PlaceholderRows("failed")
      BY <2>5 DEF Bundle
    <3>2. \A i \in DOMAIN PlaceholderRows("failed") :
             PlaceholderRows("failed")[i].status = "failed"
      BY PlaceholdersListed
    <3> QED
      BY <2>3, <3>1, <3>2
  <2>6. CASE d \in BenchOutputs
    BY <2>3, <2>6 DEF BenchIsPlain
  <2>7. \A out \in BenchOutputs : Printed(out) = Bundle(PlaceholderRows("failed")) \/ Printed(out) = out
    BY DEF Printed
  <2> QED
    BY <2>2, <2>4, <2>5, <2>6, <2>7
<1>2. CASE ~Bench
  <2>1. benched' = benched /\ benched
    BY <1>2 DEF Next, vars, wrapper, MachineChanges, Build, RunCpp, RunRust, RunNative,
                Discover, MachineReady, Tabulate, OpenJson, WriteJson, OpenMd, WriteMd,
                Save, SaveFails, Kill, Over
  <2>2. data' = data
    BY <1>2, <2>1 DEF StageInv, Early, Next, vars, MachineChanges, Build, RunCpp, RunRust,
                RunNative, Discover, MachineReady, Tabulate, OpenJson, WriteJson, OpenMd,
                WriteMd, Save, SaveFails, Kill, Over
  <2> QED
    BY <2>1, <2>2 DEF FailureIsNotHidden, ToSet
<1> QED
  BY <1>1, <1>2

THEOREM FailuresAreShown ==
    ASSUME BenchIsPlain
    PROVE  Spec => []FailureIsNotHidden
<1>1. Init => FailureIsNotHidden
  BY DEF Init, FailureIsNotHidden
<1>2. DataInv /\ StageInv /\ FileInv /\ FailureIsNotHidden /\ [Next]_vars => FailureIsNotHidden'
  BY NextNotHidden
<1> QED
  BY <1>1, <1>2, Invs, PTL DEF Spec

(***************************************************************************)
(* The table, derived from its construction.                               *)
(***************************************************************************)
LEMMA LinesOfTable ==
    ASSUME DataInv, TableBuilt
    PROVE  /\ \A m \in Members : \A i \in DOMAIN data[m].rows :
                 \E k \in DOMAIN table : table[k].id = data[m].rows[i].id
           /\ \A k, l \in DOMAIN table : table[k].id = table[l].id => k = l
           /\ \A k \in DOMAIN table :
                 /\ table[k] = Line(table[k].id) /\ table[k].id # NoKey
                 /\ \E m \in Members : \E i \in DOMAIN data[m].rows :
                       table[k].id = data[m].rows[i].id
<1>1. \A id : Line(id).id = id
  BY DEF Line
<1>2. /\ DOMAIN table = DOMAIN AllBenchmarks
      /\ \A k \in DOMAIN table : table[k] = Line(AllBenchmarks[k])
  BY DEF TableBuilt, LinesOf
<1>3. \A k \in DOMAIN table : table[k].id = AllBenchmarks[k]
  BY <1>1, <1>2
<1>4. \A k \in DOMAIN table : AllBenchmarks[k] # NoKey
  BY <1>2, AllBenchmarksShape DEF TableBuilt, CannotBeShown, Contains
<1> QED
  BY <1>2, <1>3, <1>4, AllBenchmarksShape

\* No cell of a table has a malformed time.
LEMMA LinesCanBeShown ==
    ASSUME DataInv, TableBuilt
    PROVE  \A k \in DOMAIN table : \A m \in Members :
              Cell(RowOf(m, table[k].id)).ns # Malformed
<1> SUFFICES ASSUME NEW k \in DOMAIN table, NEW m \in Members
             PROVE  Cell(RowOf(m, table[k].id)).ns # Malformed
  OBVIOUS
<1>1. table[k].id = AllBenchmarks[k] /\ k \in DOMAIN AllBenchmarks
  BY DEF TableBuilt, LinesOf, Line
<1>2. table[k].id \in ToSet(AllBenchmarks)
  BY <1>1 DEF ToSet
<1>3. RowNsPerOp(RowOf(m, table[k].id)) # Malformed
  BY <1>2 DEF TableBuilt, CannotBeShown, DataInv
<1> QED
  BY <1>3 DEF Cell

\* The cell of each member in a line.
LEMMA CellOfLine ==
    \A id : /\ Line(id)["cpp"] = Cell(RowOf("cpp", id))
            /\ Line(id)["rust"] = Cell(RowOf("rust", id))
            /\ Line(id)["fstar"] = Cell(RowOf("fstar", id))
            /\ Line(id).ratio = Ratio(Cell(RowOf("cpp", id)).ns, Cell(RowOf("rust", id)).ns)
<1>1. \A row : Cell(row).ns = RowNsPerOp(row)
  BY DEF Cell
<1> QED
  BY <1>1 DEF Line

LEMMA CellIsFaithful ==
    ASSUME DataInv, NEW m \in Members, NEW id, id # NoKey
    PROVE  LET cell == Cell(RowOf(m, id))
           IN  IF cell.note = "absent" THEN \A r \in ToSet(data[m].rows) : r.id # id
               ELSE \E r \in ToSet(data[m].rows) :
                       /\ Says(m, id, r)
                       /\ IF IsTiming(r) THEN cell.ns = r.ns ELSE cell.ns = NoTime
<1> DEFINE row == RowOf(m, id)
           cell == Cell(row)
<1>1. CASE /\ row = Absent
           /\ \A i \in DOMAIN data[m].rows : data[m].rows[i].id # id
  <2>1. row = Absent /\ Absent.flat = FALSE /\ Absent.status = ""
    BY <1>1 DEF Absent
  <2>2. RowNsPerOp(Absent) = NoTime /\ RowNote(Absent) = "absent"
    BY <2>1 DEF RowNsPerOp, RowNote
  <2>3. cell.note = "absent"
    BY <2>1, <2>2 DEF Cell
  <2>4. \A r \in ToSet(data[m].rows) : r.id # id
    BY <1>1 DEF ToSet
  <2> QED
    BY <2>3, <2>4
<1>2. ASSUME NEW i \in DOMAIN data[m].rows,
             row = data[m].rows[i], data[m].rows[i].id = id,
             \A j \in DOMAIN data[m].rows : data[m].rows[j].id = id => j <= i
      PROVE  /\ cell.note # "absent"
             /\ \E r \in ToSet(data[m].rows) :
                   /\ Says(m, id, r)
                   /\ IF IsTiming(r) THEN cell.ns = r.ns ELSE cell.ns = NoTime
  <2>1. row \in ToSet(data[m].rows) /\ Says(m, id, row)
    BY <1>2 DEF ToSet, Says
  <2>2. row # Absent /\ row.status # "absent"
    <3>1. row.id # Absent.id
      BY <1>2 DEF Absent
    <3>2. data[m].rows[i].status # "absent"
      BY DEF DataInv
    <3> QED
      BY <1>2, <3>1, <3>2
  <2>3. cell.note # "absent"
    BY <2>2 DEF Cell, RowNote
  <2>4. cell.ns = RowNsPerOp(row)
    BY DEF Cell
  <2>5. IF IsTiming(row) THEN cell.ns = row.ns ELSE cell.ns = NoTime
    BY <2>4 DEF IsTiming, MayTime, RowNsPerOp
  <2> QED
    BY <2>1, <2>3, <2>5
<1> QED
  BY <1>1, <1>2, RowOfShape

\* A timing other than zero in a cell is some member's last word.
LEMMA TimingBehindCell ==
    ASSUME DataInv, NEW m \in Members, NEW id, id # NoKey,
           Cell(RowOf(m, id)).ns \notin {NoTime, Malformed, 0}
    PROVE  \E r \in ToSet(data[m].rows) :
              /\ Says(m, id, r) /\ IsTiming(r) /\ r.ns \in Int /\ r.ns # 0
              /\ r.ns = Cell(RowOf(m, id)).ns
<1>1. Cell(RowOf(m, id)).ns = RowNsPerOp(RowOf(m, id))
  BY DEF Cell
<1>2. RowOf(m, id) # Absent /\ IsTiming(RowOf(m, id)) /\ RowOf(m, id).ns = Cell(RowOf(m, id)).ns
  BY <1>1, AbsentSaysNothing DEF RowNsPerOp, IsTiming, MayTime
<1>3. PICK i \in DOMAIN data[m].rows :
         /\ RowOf(m, id) = data[m].rows[i] /\ data[m].rows[i].id = id
         /\ \A j \in DOMAIN data[m].rows : data[m].rows[j].id = id => j <= i
  BY <1>2, RowOfShape
<1>4. data[m].rows[i] \in ToSet(data[m].rows) /\ Says(m, id, data[m].rows[i])
  BY <1>3 DEF ToSet, Says
<1>5. data[m].rows[i].ns \in Int
  BY <1>2, <1>3 DEF DataInv, Times
<1> QED
  BY <1>2, <1>3, <1>4, <1>5

\* Says speaks of one row only.
LEMMA OneLastWord ==
    ASSUME DataInv, NEW m \in Members, NEW id, NEW r, NEW s, Says(m, id, r), Says(m, id, s)
    PROVE  r = s
<1>1. DOMAIN data[m].rows \subseteq Nat
  BY DEF DataInv, Listed
<1>2. PICK i \in DOMAIN data[m].rows :
         /\ data[m].rows[i] = r /\ r.id = id
         /\ \A k \in DOMAIN data[m].rows : data[m].rows[k].id = id => k <= i
  BY DEF Says
<1>3. PICK j \in DOMAIN data[m].rows :
         /\ data[m].rows[j] = s /\ s.id = id
         /\ \A k \in DOMAIN data[m].rows : data[m].rows[k].id = id => k <= j
  BY DEF Says
<1>4. i <= j /\ j <= i
  BY <1>2, <1>3
<1> QED
  BY <1>1, <1>2, <1>3, <1>4

LEMMA FaithfulFromInvs == DataInv /\ StageInv /\ FileInv => TableIsFaithful
<1> SUFFICES ASSUME DataInv, TableBuilt
             PROVE  /\ \A m \in DOMAIN data : \A i \in DOMAIN data[m].rows :
                          \E k \in DOMAIN table : table[k].id = data[m].rows[i].id
                    /\ \A k, l \in DOMAIN table : table[k].id = table[l].id => k = l
                    /\ \A k \in DOMAIN table : \A m \in DOMAIN data :
                          LET cell == table[k][m]
                          IN  IF cell.note = "absent"
                              THEN \A r \in ToSet(data[m].rows) : r.id # table[k].id
                              ELSE \E r \in ToSet(data[m].rows) :
                                      /\ Says(m, table[k].id, r)
                                      /\ IF IsTiming(r) THEN cell.ns = r.ns
                                         ELSE cell.ns = NoTime
                    /\ \A k \in DOMAIN table :
                          table[k].ratio # "n/a" =>
                              \E c \in ToSet(data["cpp"].rows), r \in ToSet(data["rust"].rows) :
                                  /\ Says("cpp", table[k].id, c) /\ IsTiming(c) /\ c.ns # 0
                                  /\ Says("rust", table[k].id, r) /\ IsTiming(r) /\ r.ns # 0
                                  /\ c.ns > 0 /\ r.ns > 0 =>
                                        (table[k].ratio = "faster" <=> c.ns <= r.ns)
  BY DEF FileInv, TableIsFaithful
<1>1. DOMAIN data = Members
  BY DEF DataInv
<1>2. ASSUME NEW k \in DOMAIN table, NEW m \in Members
      PROVE  table[k][m] = Cell(RowOf(m, table[k].id)) /\ table[k].id # NoKey
  BY <1>2, LinesOfTable, CellOfLine DEF Members
<1>3. ASSUME NEW k \in DOMAIN table, NEW m \in Members
      PROVE  LET cell == table[k][m]
             IN  IF cell.note = "absent"
                 THEN \A r \in ToSet(data[m].rows) : r.id # table[k].id
                 ELSE \E r \in ToSet(data[m].rows) :
                         /\ Says(m, table[k].id, r)
                         /\ IF IsTiming(r) THEN cell.ns = r.ns ELSE cell.ns = NoTime
  BY <1>2, <1>3, CellIsFaithful
<1>4. ASSUME NEW k \in DOMAIN table, table[k].ratio # "n/a"
      PROVE  \E c \in ToSet(data["cpp"].rows), r \in ToSet(data["rust"].rows) :
                /\ Says("cpp", table[k].id, c) /\ IsTiming(c) /\ c.ns # 0
                /\ Says("rust", table[k].id, r) /\ IsTiming(r) /\ r.ns # 0
                /\ c.ns > 0 /\ r.ns > 0 => (table[k].ratio = "faster" <=> c.ns <= r.ns)
  <2> DEFINE id == table[k].id
             cns == Cell(RowOf("cpp", id)).ns
             rns == Cell(RowOf("rust", id)).ns
  <2>1. table[k].ratio = Ratio(cns, rns) /\ id # NoKey
    BY LinesOfTable, CellOfLine
  <2>2. cns \notin {NoTime, 0} /\ rns \notin {NoTime, 0}
    BY <1>4, <2>1 DEF Ratio
  <2>3. cns # Malformed /\ rns # Malformed
    BY LinesCanBeShown DEF Members
  <2>4. PICK c \in ToSet(data["cpp"].rows) :
           /\ Says("cpp", id, c) /\ IsTiming(c) /\ c.ns \in Int /\ c.ns # 0 /\ c.ns = cns
    BY <2>1, <2>2, <2>3, TimingBehindCell DEF Members
  <2>5. PICK r \in ToSet(data["rust"].rows) :
           /\ Says("rust", id, r) /\ IsTiming(r) /\ r.ns \in Int /\ r.ns # 0 /\ r.ns = rns
    BY <2>1, <2>2, <2>3, TimingBehindCell DEF Members
  <2>6. c.ns > 0 /\ r.ns > 0 => (table[k].ratio = "faster" <=> c.ns <= r.ns)
    <3>1. table[k].ratio = Ratio(c.ns, r.ns) /\ {c.ns, r.ns} \cap {NoTime, 0} = {}
      BY <2>1, <2>2, <2>4, <2>5
    <3>2. table[k].ratio = IF (c.ns > 0 /\ r.ns >= c.ns) \/ (c.ns < 0 /\ r.ns <= c.ns)
                           THEN "faster" ELSE "slower"
      BY <3>1 DEF Ratio
    <3> QED
      BY <2>4, <2>5, <3>2
  <2> QED
    BY <2>4, <2>5, <2>6
<1> QED
  BY <1>1, <1>3, <1>4, LinesOfTable

(***************************************************************************)
(* Whatever three members print, the table says what they said: a line for *)
(* every workload, each member's last word on it, a ratio only where both  *)
(* last words are timings other than zero, and one that favours the member *)
(* that takes less where both are positive (the second half of main).      *)
(***************************************************************************)
THEOREM TablesAreFaithful == Spec => []TableIsFaithful
BY Invs, FaithfulFromInvs, PTL

LEMMA VisibleFromInvs == DataInv /\ StageInv /\ FileInv => GapIsVisible
<1> SUFFICES ASSUME DataInv, TableBuilt, NEW i \in DOMAIN ContractIds,
                    data["fstar"] = Bundle(PlaceholderRows("unavailable"))
             PROVE  \E k \in DOMAIN table :
                       table[k].id = ContractIds[i] /\ table[k].fstar.note = "unavailable"
  BY DEF StageInv, FileInv, GapIsVisible
<1> DEFINE rows == PlaceholderRows("unavailable")
<1>0. /\ DOMAIN rows = DOMAIN ContractIds
      /\ \A j \in DOMAIN rows : /\ rows[j].id = ContractIds[j] /\ rows[j].flat = FALSE
                               /\ rows[j].status = "unavailable"
  BY PlaceholdersListed
<1>1. /\ data["fstar"].rows = rows /\ "fstar" \in Members
      /\ i \in DOMAIN rows /\ data["fstar"].rows[i].id = ContractIds[i]
  BY <1>0 DEF Bundle, Members
<1>2. PICK k \in DOMAIN table : table[k].id = ContractIds[i]
  BY <1>1, LinesOfTable
<1>3. table[k]["fstar"] = Cell(RowOf("fstar", ContractIds[i]))
  BY <1>2, LinesOfTable, CellOfLine
<1>4. PICK j \in DOMAIN rows : RowOf("fstar", ContractIds[i]) = rows[j]
  BY <1>1, RowOfShape
<1>5. /\ RowOf("fstar", ContractIds[i]).status = "unavailable"
      /\ RowOf("fstar", ContractIds[i]).flat = FALSE
  BY <1>0, <1>4
<1>6. Cell(RowOf("fstar", ContractIds[i])).note = "unavailable"
  BY <1>5 DEF Cell, RowNsPerOp, RowNote
<1> QED
  BY <1>2, <1>3, <1>6

(***************************************************************************)
(* If the F* member could not be tried, the table says so of every         *)
(* workload of the contract (placeholder_rows, and the union in main).     *)
(***************************************************************************)
THEOREM GapsAreVisible == Spec => []GapIsVisible
BY Invs, VisibleFromInvs, PTL

LEMMA AgreeFromInvs == DataInv /\ StageInv /\ FileInv => SummariesAgree
<1> SUFFICES ASSUME DataInv, StageInv, FileInv PROVE SummariesAgree
  OBVIOUS
<1>1. /\ stage = "raised" => json = Earlier /\ md = Earlier
      /\ md # Earlier => json.state = "whole"
      /\ md.state = "whole" <=> stage = "done"
  BY DEF FileInv
<1>2. ASSUME md.state = "whole"
      PROVE  {md.of[k].id : k \in DOMAIN md.of} =
                UNION {{r.id : r \in ToSet(json.of[m].rows)} : m \in DOMAIN json.of}
  <2>1. json.state = "whole" /\ md.of = table /\ json.of = data /\ TableBuilt
    BY <1>2 DEF FileInv, Earlier
  <2>2. DOMAIN data = Members
    BY DEF DataInv
  <2>3. ASSUME NEW k \in DOMAIN table
        PROVE  \E m \in Members : \E r \in ToSet(data[m].rows) : table[k].id = r.id
    BY <2>1, <2>3, LinesOfTable DEF ToSet
  <2>4. ASSUME NEW m \in Members, NEW r \in ToSet(data[m].rows)
        PROVE  \E k \in DOMAIN table : table[k].id = r.id
    BY <2>1, <2>4, LinesOfTable DEF ToSet
  <2> QED
    BY <2>1, <2>2, <2>3, <2>4
<1> QED
  BY <1>1, <1>2 DEF SummariesAgree

(***************************************************************************)
(* A shootout that fails before it saves leaves the earlier summaries      *)
(* alone; whatever error or kill ends one that saves, the Markdown is      *)
(* never the newer of the two, and it is whole, and about the rows of the  *)
(* JSON, exactly when the shootout has ended well (the end of main).       *)
(***************************************************************************)
THEOREM SummariesAreConsistent == Spec => []SummariesAgree
BY Invs, AgreeFromInvs, PTL
================================================================================
