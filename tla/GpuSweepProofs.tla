----------------------------- MODULE GpuSweepProofs -----------------------------
(***************************************************************************)
(* Theorems about GpuSweep, for any contract file, any command line and    *)
(* any answer of the device.                                               *)
(***************************************************************************)
EXTENDS GpuSweep, TLAPS

\* A larger batch never takes less memory.
LEMMA MoreTakesMore ==
    ASSUME NEW a \in Int, NEW b \in Int, NEW c \in Int, a <= b, c > 0
    PROVE  a * c <= b * c
<1>1. (b - a) * c >= 0
  BY SMT
<1>2. (b - a) * c = b * c - a * c
  BY SMT
<1>3. a * c \in Int /\ b * c \in Int
  BY SMT
<1> QED
  BY <1>1, <1>2, <1>3, SMT

\* The loop invariant: the sizes before next are the batches, and they fit.
SweepInv ==
    /\ stage \in {"hardware", "arguments", "sweep", "planned"} => ValidContract(contract)
    /\ stage \in {"contract", "hardware", "arguments"} =>
          next = 1 /\ batches = <<>> /\ truncation = NoLimit
    /\ stage = "sweep" => available /\ truncation = NoLimit
    /\ stage \in {"sweep", "planned"} => HasOracle
    /\ detected = Unstarted => stage = "error"
    /\ stage = "sweep" \/ (stage = "planned" /\ available) => args.bytes > 0
    /\ stage \in {"sweep", "planned"} /\ available =>
          /\ Len(batches) = next - 1 /\ next <= Len(contract.sizes) + 1
          /\ \A i \in 1 .. (next - 1) : /\ batches[i] = contract.sizes[i]
                                       /\ Fits(contract.sizes[i])
    /\ stage = "planned" /\ available =>
          \/ truncation = NoLimit /\ next = Len(contract.sizes) + 1
          \/ /\ next <= Len(contract.sizes) /\ truncation = contract.sizes[next]
             /\ ~Fits(contract.sizes[next])

IInv == TypeOK /\ SweepInv

LEMMA ContractTypes ==
    ASSUME TypeOK
    PROVE  /\ contract.sizes \in Seq(Int) /\ Len(contract.sizes) \in Nat
           /\ \A i \in 1 .. Len(contract.sizes) : contract.sizes[i] \in Int
           /\ args.bytes \in Int /\ args.memory \in Int \cup {NoLimit}
           /\ detected # Unstarted => Memory \in Int \cup {NoLimit}
<1>1. contract.sizes \in Seq(Int)
  BY GpuSweepAssumption DEF TypeOK
<1>2. args.bytes \in Int /\ args.memory \in Int \cup {NoLimit}
  BY GpuSweepAssumption DEF TypeOK
<1> QED
  BY <1>1, <1>2 DEF TypeOK, Memory

LEMMA InitIInv == Init => IInv
<1> SUFFICES ASSUME Init PROVE IInv
  OBVIOUS
<1>1. TypeOK
  <2>1. available \in BOOLEAN
    BY Zenon DEF Init
  <2>2. batches \in Seq(Int)
    BY DEF Init
  <2> QED
    BY <2>1, <2>2 DEF Init, TypeOK, Stages
<1>2. SweepInv
  BY GpuSweepAssumption DEF Init, SweepInv
<1> QED
  BY <1>1, <1>2 DEF IInv

LEMMA PlanSizeStep == IInv /\ PlanSize => IInv'
<1> SUFFICES ASSUME IInv, PlanSize PROVE IInv'
  OBVIOUS
<1> DEFINE size == contract.sizes[next]
<1>1. /\ stage = "sweep" /\ next <= Len(contract.sizes) /\ next \in Nat \ {0}
      /\ UNCHANGED <<contract, args, available, detected>>
  BY DEF PlanSize, IInv, TypeOK
<1>2. size \in Int
  BY <1>1, ContractTypes DEF IInv
<1>3. /\ batches \in Seq(Int) /\ Len(batches) = next - 1 /\ available
      /\ truncation = NoLimit /\ ValidContract(contract) /\ args.bytes > 0 /\ HasOracle
      /\ detected # Unstarted
      /\ \A i \in 1 .. (next - 1) : /\ batches[i] = contract.sizes[i]
                                   /\ Fits(contract.sizes[i])
  BY <1>1 DEF IInv, TypeOK, SweepInv
<1>4. \A s : Fits(s)' <=> Fits(s)
  BY <1>1 DEF Fits, Memory, Required
<1>5. ValidContract(contract)' /\ HasOracle'
  BY <1>1, <1>3 DEF ValidContract, HasOracle
<1>6. CASE Fits(size)
  <2>1. /\ batches' = Append(batches, size) /\ next' = next + 1
        /\ stage' = "sweep" /\ truncation' = NoLimit
    BY <1>1, <1>3, <1>6 DEF PlanSize
  <2>2. /\ batches' \in Seq(Int) /\ Len(batches') = next
        /\ \A i \in 1 .. (next - 1) : batches'[i] = batches[i]
        /\ batches'[next] = size
    BY <1>1, <1>2, <1>3, <2>1
  <2>3. \A i \in 1 .. (next' - 1) : /\ batches'[i] = contract.sizes[i]
                                   /\ Fits(contract.sizes[i])
    BY <1>1, <1>3, <1>6, <2>1, <2>2
  <2>4. TypeOK'
    BY <1>1, <2>1, <2>2 DEF IInv, TypeOK, Stages
  <2>5. SweepInv'
    BY <1>1, <1>3, <1>4, <1>5, <2>1, <2>2, <2>3, ContractTypes DEF IInv, SweepInv
  <2> QED
    BY <2>4, <2>5 DEF IInv
<1>7. CASE ~Fits(size)
  <2>1. /\ truncation' = size /\ stage' = "planned" /\ UNCHANGED <<batches, next>>
    BY <1>1, <1>7 DEF PlanSize
  <2>2. TypeOK'
    BY <1>1, <1>2, <2>1 DEF IInv, TypeOK, Stages
  <2>3. SweepInv'
    BY <1>1, <1>3, <1>4, <1>5, <1>7, <2>1, ContractTypes DEF IInv, SweepInv
  <2> QED
    BY <2>2, <2>3 DEF IInv
<1> QED
  BY <1>6, <1>7

LEMMA NextIInv == IInv /\ [Next]_vars => IInv'
<1> SUFFICES ASSUME IInv, [Next]_vars PROVE IInv'
  OBVIOUS
<1>1. CASE ReadContract
  BY <1>1 DEF ReadContract, IInv, TypeOK, SweepInv, Stages, ValidContract
<1>2. CASE AskDevice
  <2>1. PICK answer \in Answers :
          \/ /\ answer = NoAnswer
             /\ available' = FALSE /\ detected' = NoLimit /\ stage' = "arguments"
          \/ /\ answer \in Nat
             /\ available' = TRUE /\ detected' = answer * MiB /\ stage' = "arguments"
          \/ /\ answer = Unstarted
             /\ detected' = Unstarted /\ stage' = "error" /\ UNCHANGED available
    BY <1>2 DEF AskDevice
  <2>2. available' \in BOOLEAN
    BY <2>1, Zenon DEF IInv, TypeOK
  <2>3. answer \in Nat => answer * MiB \in Int
    <3>1. MiB \in Int
      BY GpuSweepAssumption
    <3> QED
      BY <3>1
  <2>4. /\ detected' \in Int \cup {NoLimit, Unstarted}
        /\ stage' \in {"arguments", "error"}
        /\ detected' = Unstarted => stage' = "error"
    BY <2>1, <2>3, GpuSweepAssumption
  <2> QED
    BY <1>2, <2>2, <2>4 DEF AskDevice, IInv, TypeOK, SweepInv, Stages, ValidContract
<1>3. CASE TakeDeviceAsGiven
  BY <1>3, GpuSweepAssumption DEF TakeDeviceAsGiven, IInv, TypeOK, SweepInv, Stages, ValidContract
<1>4. CASE CheckArguments
  <2>1. Len(contract.sizes) \in Nat
    BY ContractTypes DEF IInv
  <2>2. /\ UNCHANGED <<contract, args, available, detected, next, batches, truncation>>
        /\ stage' \in {"error", "planned", "sweep"}
        /\ stage' = "planned" => ~available
        /\ stage' = "sweep" => available /\ args.bytes > 0
        /\ stage' # "error" => HasOracle
    BY <1>4, ContractTypes DEF CheckArguments, IInv
  <2> QED
    BY <1>4, <2>1, <2>2 DEF CheckArguments, IInv, TypeOK, SweepInv, Stages, ValidContract, HasOracle
<1>5. CASE PlanSize
  BY <1>5, PlanSizeStep
<1>6. CASE EndOfSizes
  <2>1. Len(contract.sizes) \in Nat
    BY ContractTypes DEF IInv
  <2> QED
    BY <1>6, <2>1
    DEF EndOfSizes, IInv, TypeOK, SweepInv, Stages, ValidContract, HasOracle, Fits, Memory, Required
<1>7. CASE Ended \/ UNCHANGED vars
  <2>1. UNCHANGED <<stage, contract, args, available, detected, next, batches, truncation>>
    BY <1>7 DEF Ended, vars
  <2>2. TypeOK'
    BY <2>1 DEF IInv, TypeOK
  <2>3. \A size : Fits(size)' <=> Fits(size)
    BY <2>1 DEF Fits, Memory, Required
  <2>4. (ValidContract(contract)' <=> ValidContract(contract)) /\ (HasOracle' <=> HasOracle)
    BY <2>1 DEF ValidContract, HasOracle
  <2>5. SweepInv'
    BY <2>1, <2>3, <2>4 DEF IInv, SweepInv
  <2> QED
    BY <2>2, <2>5 DEF IInv
<1> QED
  BY <1>1, <1>2, <1>3, <1>4, <1>5, <1>6, <1>7 DEF Next

\* Once one size does not fit, no later one does: the sizes increase.
LEMMA SuffixDoesNotFit ==
    ASSUME IInv, detected # Unstarted, ValidContract(contract), args.bytes > 0,
           NEW i \in 1 .. Len(contract.sizes), NEW j \in i .. Len(contract.sizes),
           ~Fits(contract.sizes[i])
    PROVE  ~Fits(contract.sizes[j])
<1>1. /\ contract.sizes[i] \in Int /\ contract.sizes[j] \in Int
      /\ args.bytes \in Int /\ Memory \in Int \cup {NoLimit}
  BY ContractTypes DEF IInv
<1>2. contract.sizes[i] <= contract.sizes[j]
  <2>1. i \in Int /\ j \in Int /\ DOMAIN contract.sizes = 1 .. Len(contract.sizes)
    BY ContractTypes DEF IInv
  <2>2. CASE i = j
    BY <1>1, <2>2
  <2>3. CASE i < j
    <3>1. i \in DOMAIN contract.sizes /\ j \in DOMAIN contract.sizes
      BY <2>1, ContractTypes DEF IInv
    <3>2. contract.sizes[i] < contract.sizes[j]
      BY <2>3, <3>1 DEF ValidContract
    <3> QED
      BY <1>1, <3>2
  <2> QED
    BY <2>1, <2>2, <2>3
<1>3. contract.sizes[i] * args.bytes <= contract.sizes[j] * args.bytes
  BY <1>1, <1>2, MoreTakesMore
<1>4. Memory \in Int /\ contract.sizes[i] * args.bytes > Memory
  BY <1>1 DEF Fits, Required
<1>5. contract.sizes[j] * args.bytes > Memory
  <2>1. contract.sizes[i] * args.bytes \in Int /\ contract.sizes[j] * args.bytes \in Int
    BY <1>1, SMT
  <2> QED BY <1>3, <1>4, <2>1
<1>6. Memory # NoLimit
  BY <1>4, GpuSweepAssumption
<1>7. contract.sizes[j] * args.bytes \in Int
  BY <1>1, SMT
<1> QED
  BY <1>4, <1>5, <1>6, <1>7 DEF Fits, Required

LEMMA PlanFromIInv == IInv => PlanIsWhatFits /\ TruncationIsRecorded
<1> SUFFICES ASSUME IInv, stage = "planned", available
             PROVE  PlanIsWhatFits /\ TruncationIsRecorded
  BY DEF PlanIsWhatFits, TruncationIsRecorded
<1>1. /\ ValidContract(contract) /\ args.bytes > 0 /\ detected # Unstarted
      /\ Len(batches) = next - 1 /\ next <= Len(contract.sizes) + 1
      /\ \A i \in 1 .. (next - 1) : /\ batches[i] = contract.sizes[i]
                                   /\ Fits(contract.sizes[i])
      /\ \/ truncation = NoLimit /\ next = Len(contract.sizes) + 1
         \/ /\ next <= Len(contract.sizes) /\ truncation = contract.sizes[next]
            /\ ~Fits(contract.sizes[next])
  BY DEF IInv, SweepInv
<1>2. /\ next \in Nat \ {0} /\ batches \in Seq(Int) /\ contract.sizes \in Seq(Int)
      /\ Len(contract.sizes) \in Nat
      /\ DOMAIN batches = 1 .. (next - 1) /\ DOMAIN contract.sizes = 1 .. Len(contract.sizes)
  BY <1>1, ContractTypes DEF IInv, TypeOK
<1>3. \A j \in next .. Len(contract.sizes) : ~Fits(contract.sizes[j])
  <2> SUFFICES ASSUME NEW j \in next .. Len(contract.sizes) PROVE ~Fits(contract.sizes[j])
    OBVIOUS
  <2>1. next \in 1 .. Len(contract.sizes) /\ j \in next .. Len(contract.sizes)
    BY <1>2
  <2>2. ~Fits(contract.sizes[next])
    BY <1>1, <1>2, <2>1
  <2> QED
    BY <1>1, <2>1, <2>2, SuffixDoesNotFit
<1>4. Sizes = {contract.sizes[i] : i \in 1 .. Len(contract.sizes)}
  BY <1>2 DEF Sizes
<1>5. Planned = {contract.sizes[i] : i \in 1 .. (next - 1)}
  BY <1>1, <1>2 DEF Planned
<1>6. Planned = {s \in Sizes : Fits(s)}
  <2>1. ASSUME NEW s \in Planned PROVE s \in Sizes /\ Fits(s)
    <3>1. PICK i \in 1 .. (next - 1) : s = contract.sizes[i]
      BY <1>5
    <3>2. i \in 1 .. Len(contract.sizes) /\ Fits(contract.sizes[i])
      BY <1>1, <1>2
    <3> QED
      BY <1>4, <3>1, <3>2
  <2>2. ASSUME NEW s \in Sizes, Fits(s) PROVE s \in Planned
    <3>1. PICK i \in 1 .. Len(contract.sizes) : s = contract.sizes[i]
      BY <1>4
    <3>2. i \in 1 .. (next - 1)
      BY <1>2, <1>3, <2>2, <3>1
    <3> QED
      BY <1>5, <3>1, <3>2
  <2> QED
    BY <2>1, <2>2
<1>7. \A s : Fits(s) <=> (Limit \in Int => s * args.bytes <= Limit)
  <2>1. args.memory \in Int \cup {NoLimit} /\ detected \in Int \cup {NoLimit}
    BY <1>1, GpuSweepAssumption DEF IInv, TypeOK
  <2>2. Memory = Limit /\ (Limit \in Int <=> Limit # NoLimit)
    BY <2>1, GpuSweepAssumption DEF Memory, Limit
  <2> QED
    BY <2>2 DEF Fits, Required
<1>8. \A i, j \in 1 .. Len(contract.sizes) : i < j => contract.sizes[i] < contract.sizes[j]
  BY <1>1, <1>2 DEF ValidContract
<1>9. PlanIsWhatFits
  <2>1. ASSUME NEW i \in DOMAIN batches, NEW j \in DOMAIN batches, i < j
        PROVE  batches[i] < batches[j]
    <3>1. i \in 1 .. (next - 1) /\ j \in 1 .. (next - 1)
      BY <1>2
    <3>2. i \in 1 .. Len(contract.sizes) /\ j \in 1 .. Len(contract.sizes)
      <4>1. next \in Int /\ next <= Len(contract.sizes) + 1 /\ Len(contract.sizes) \in Int
        BY <1>1, <1>2
      <4> QED
        BY <3>1, <4>1
    <3>3. batches[i] = contract.sizes[i] /\ batches[j] = contract.sizes[j]
      BY <1>1, <3>1
    <3> QED
      BY <1>8, <2>1, <3>2, <3>3
  <2> QED
    BY <1>6, <1>7, <2>1 DEF PlanIsWhatFits
<1>10. TruncationIsRecorded
  <2>1. CASE truncation = NoLimit
    <3>1. next = Len(contract.sizes) + 1
      <4>1. next <= Len(contract.sizes) => contract.sizes[next] \in Int
        BY <1>2
      <4> QED
        BY <1>1, <2>1, <4>1, GpuSweepAssumption
    <3>2. Planned = Sizes
      BY <1>2, <1>4, <1>5, <3>1
    <3> QED
      BY <2>1, <3>2 DEF TruncationIsRecorded
  <2>2. CASE truncation # NoLimit
    <3>1. next \in 1 .. Len(contract.sizes) /\ truncation = contract.sizes[next]
      BY <1>1, <1>2, <2>2
    <3>2. truncation \in Sizes \ Planned
      BY <1>1, <1>4, <1>6, <2>2, <3>1
    <3>3. ASSUME NEW s \in Sizes \ Planned PROVE truncation <= s
      <4>1. PICK i \in 1 .. Len(contract.sizes) : s = contract.sizes[i]
        BY <1>4
      <4>2. next <= i
        BY <1>2, <1>5, <4>1
      <4> QED
        BY <1>2, <1>8, <3>1, <4>1, <4>2
    <3> QED
      BY <2>2, <3>2, <3>3 DEF TruncationIsRecorded
  <2> QED
    BY <2>1, <2>2
<1> QED
  BY <1>9, <1>10

(***************************************************************************)
(* The plan for a device has exactly the sizes whose buffers fit into the  *)
(* limit, in increasing order: leaving the loop of plan_gpu_sweep at the   *)
(* first size that does not fit omits nothing that would have fitted.      *)
(***************************************************************************)
THEOREM SweepsAreExact == Spec => []PlanIsWhatFits
<1>1. IInv => PlanIsWhatFits
  BY PlanFromIInv
<1> QED
  BY InitIInv, NextIInv, <1>1, PTL DEF Spec

(***************************************************************************)
(* A plan is marked as truncated if and only if a size is missing from it, *)
(* and then it names the smallest that is.                                 *)
(***************************************************************************)
THEOREM TruncationsAreRecorded == Spec => []TruncationIsRecorded
<1>1. IInv => TruncationIsRecorded
  BY PlanFromIInv
<1> QED
  BY InitIInv, NextIInv, <1>1, PTL DEF Spec

--------------------------------------------------------------------------------
\* Nothing but the contract and the command line is known before the device is
\* asked, and a device that was asked has a natural number of bytes.
AnswerInv ==
    /\ stage = "arguments" =>
          IF args.cuda = "auto" THEN detected \in Nat \cup {NoLimit} ELSE detected = NoLimit
    /\ DeviceDoesNotMatter

LEMMA AnswerStep == IInv /\ AnswerInv /\ [Next]_vars => AnswerInv'
<1> SUFFICES ASSUME IInv, AnswerInv, [Next]_vars PROVE AnswerInv'
  OBVIOUS
<1>1. CASE ReadContract
  BY <1>1 DEF ReadContract, AnswerInv, DeviceDoesNotMatter
<1>2. CASE AskDevice
  <2>1. PICK answer \in Answers :
          \/ answer = NoAnswer /\ detected' = NoLimit /\ stage' = "arguments"
          \/ answer \in Nat /\ detected' = answer * MiB /\ stage' = "arguments"
          \/ detected' = Unstarted /\ stage' = "error"
    BY <1>2 DEF AskDevice
  <2>2. args' = args /\ args.cuda = "auto"
    BY <1>2 DEF AskDevice
  <2>3. CASE stage' = "arguments"
    <3>1. answer \in Nat => answer * MiB \in Nat
      BY GpuSweepAssumption, SMT
    <3>2. detected' \in Nat \cup {NoLimit}
      BY <2>1, <2>3, <3>1
    <3> QED
      BY <2>2, <2>3, <3>2 DEF AnswerInv, DeviceDoesNotMatter
  <2>4. CASE stage' = "error" /\ detected' = Unstarted
    BY <2>2, <2>4 DEF AnswerInv, DeviceDoesNotMatter
  <2> QED
    BY <2>1, <2>3, <2>4
<1>3. CASE TakeDeviceAsGiven
  <2>1. stage' = "arguments" /\ args' = args /\ args.cuda # "auto" /\ detected' = NoLimit
    BY <1>3 DEF TakeDeviceAsGiven
  <2> QED BY <2>1 DEF AnswerInv, DeviceDoesNotMatter
<1>4. CASE CheckArguments
  <2>1. stage = "arguments" /\ UNCHANGED <<contract, args, detected>> /\ stage' # "arguments"
    BY <1>4 DEF CheckArguments
  <2> SUFFICES ASSUME stage' = "error" PROVE DeviceDoesNotMatter'
    BY <2>1 DEF AnswerInv, DeviceDoesNotMatter
  <2>2. \/ ~args.named \/ args.bytes <= 0 \/ ~HasOracle
        \/ ~ReasonGiven
        \/ Memory # NoLimit /\ Memory <= 0
    BY <1>4 DEF CheckArguments
  <2>3. CASE Memory # NoLimit /\ Memory <= 0
    <3>1. CASE args.memory # NoLimit
      BY <2>1, <2>3, <3>1 DEF Memory, DeviceDoesNotMatter
    <3>2. CASE args.memory = NoLimit
      <4>1. detected \in Nat /\ detected <= 0 /\ args.cuda = "auto"
        BY <2>1, <2>3, <3>2 DEF Memory, AnswerInv
      <4>2. detected = 0
        BY <4>1
      <4> QED BY <2>1, <3>2, <4>1, <4>2 DEF DeviceDoesNotMatter
    <3> QED BY <3>1, <3>2
  <2>4. CASE ~args.named \/ args.bytes <= 0 \/ ~HasOracle \/ ~ReasonGiven
    BY <2>1, <2>4 DEF DeviceDoesNotMatter, HasOracle, ReasonGiven
  <2> QED BY <2>2, <2>3, <2>4
<1>5. CASE PlanSize \/ EndOfSizes
  <2>1. stage' \in {"sweep", "planned"}
    BY <1>5 DEF PlanSize, EndOfSizes
  <2> QED BY <2>1 DEF AnswerInv, DeviceDoesNotMatter
<1>6. CASE Ended \/ UNCHANGED vars
  <2>1. UNCHANGED <<stage, contract, args, detected>>
    BY <1>6 DEF Ended, vars
  <2> QED BY <2>1 DEF AnswerInv, DeviceDoesNotMatter, ValidContract
<1> QED
  BY <1>1, <1>2, <1>3, <1>4, <1>5, <1>6 DEF Next

(***************************************************************************)
(* Planning fails for the contract's or the caller's reasons only, unless  *)
(* the device has nothing free or nvidia-smi cannot be started             *)
(* (cuda_hardware, gpu_plan, plan_gpu_sweep).                              *)
(***************************************************************************)
THEOREM DevicesDoNotMatter == Spec => []DeviceDoesNotMatter
<1>1. Init => AnswerInv
  BY DEF Init, AnswerInv, DeviceDoesNotMatter
<1>2. AnswerInv => DeviceDoesNotMatter
  BY DEF AnswerInv
<1> QED
  BY InitIInv, NextIInv, AnswerStep, <1>1, <1>2, PTL DEF Spec

(***************************************************************************)
(* Every plan, for a device or for none, comes from a contract whose       *)
(* checked parts are in order and which has an oracle to quote             *)
(* (validate_heterogeneous_contract, and the subscript in plan_gpu_sweep). *)
(***************************************************************************)
THEOREM PlansAreFromCheckedContracts == Spec => []PlansComeFromCheckedContracts
<1>1. IInv => PlansComeFromCheckedContracts
  <2> SUFFICES ASSUME IInv, stage = "planned"
               PROVE  /\ contract.flaws = {} /\ contract.oracle \in {"whole", "malformed"}
                      /\ \A tier \in contract.tiers : tier # {} /\ tier \subseteq Sizes
    BY DEF PlansComeFromCheckedContracts
  <2>1. ValidContract(contract) /\ HasOracle
    BY DEF IInv, SweepInv
  <2>2. contract.oracle \in {"whole", "malformed", "missing"}
    BY GpuSweepAssumption DEF IInv, TypeOK
  <2>3. contract.flaws = {} /\ contract.oracle \in {"whole", "malformed"}
    BY <2>1, <2>2 DEF ValidContract, HasOracle
  <2>4. ASSUME NEW tier \in contract.tiers PROVE tier # {} /\ tier \subseteq Sizes
    BY <2>1 DEF ValidContract, Sizes
  <2> QED BY <2>3, <2>4
<1> QED
  BY InitIInv, NextIInv, <1>1, PTL DEF Spec
================================================================================
