-------------------------------- MODULE GpuSweep --------------------------------
(***************************************************************************)
(* plan-gpu: gpu_plan, cuda_hardware and plan_gpu_sweep.  The contract is  *)
(* validated, the device is asked for its free memory unless the caller    *)
(* has decided the matter, and the batch sizes of the sweep are planned in *)
(* order up to the first that does not fit.                                *)
(***************************************************************************)
EXTENDS Integers, Sequences

CONSTANTS
    Contracts, \* what may stand in the contract file:
               \*   [sizes : sequence of numbers, tiers : set of sets of numbers,
               \*    oracle : "whole", "malformed" or "missing",
               \*    flaws : the other parts that are missing or malformed]
    Arguments, \* command lines: [cuda : "auto", "available" or "unavailable",
               \*   bytes : bytes per item, memory : device memory or NoLimit,
               \*   named : are operation and layout given?
               \*   blank : is the reason for unavailability empty?]
    Answers,   \* what nvidia-smi may say: free MiB, NoAnswer or Unstarted
    NoAnswer,  \* no nvidia-smi, or it fails, is late, or cannot be read
    Unstarted, \* nvidia-smi is there and cannot be started
    MiB,       \* bytes in one of them
    NoLimit    \* no memory limit is known

\* The parts validate_heterogeneous_contract looks at, next to the sweep: the
\* oracle is not among them.
Checked == {"dimensions", "truncation_policy", "precision_experiments", "measurements",
            "operation_count"}

ASSUME GpuSweepAssumption ==
    /\ \A c \in Contracts : /\ c.sizes \in Seq(Int) /\ c.flaws \subseteq Checked
                            /\ c.oracle \in {"whole", "malformed", "missing"}
    /\ \A a \in Arguments : /\ a.bytes \in Int /\ a.memory \in Int \cup {NoLimit}
                            /\ a.cuda \in {"auto", "available", "unavailable"}
    /\ Answers \subseteq Nat \cup {NoAnswer, Unstarted}
    /\ MiB \in Nat \ {0}
    /\ NoAnswer \notin Int /\ Unstarted \notin Int /\ NoLimit \notin Int
    /\ Unstarted \notin {NoAnswer, NoLimit}

VARIABLES
    stage,      \* what is being done
    contract,   \* the contract file
    args,       \* the command line
    available,  \* is there a device?
    detected,   \* its free memory, as far as it was asked, or Unstarted
    next,       \* the size planned next
    batches,    \* the batches planned
    truncation  \* the first size left out, or NoLimit

vars == <<stage, contract, args, available, detected, next, batches, truncation>>

Stages == {"contract", "hardware", "arguments", "sweep", "planned", "error"}

Init ==
    /\ stage = "contract"
    /\ contract \in Contracts /\ args \in Arguments
    /\ available = FALSE /\ detected = NoLimit
    /\ next = 1 /\ batches = <<>> /\ truncation = NoLimit

--------------------------------------------------------------------------------
\* Counterfactual: the sizes are checked to be positive and distinct only.
DistinctSizes(c) ==
    /\ c.flaws = {}
    /\ c.sizes # <<>>
    /\ \A i \in DOMAIN c.sizes : c.sizes[i] > 0
    /\ \A i, j \in DOMAIN c.sizes : c.sizes[i] = c.sizes[j] => i = j
    /\ \A tier \in c.tiers : tier # {} /\ \A s \in tier : \E i \in DOMAIN c.sizes : c.sizes[i] = s

\* sizes == sorted(set(sizes)), all positive, every tier a part of them, and
\* nothing else amiss that is looked at.
ValidContract(c) ==
    /\ c.flaws = {}
    /\ c.sizes # <<>>
    /\ \A i \in DOMAIN c.sizes : c.sizes[i] > 0
    /\ \A i, j \in DOMAIN c.sizes : i < j => c.sizes[i] < c.sizes[j]
    /\ \A tier \in c.tiers : tier # {} /\ \A s \in tier : \E i \in DOMAIN c.sizes : c.sizes[i] = s

ReadContract ==
    /\ stage = "contract"
    /\ stage' = IF ValidContract(contract) THEN "hardware" ELSE "error"
    /\ UNCHANGED <<contract, args, available, detected, next, batches, truncation>>

\* cuda_hardware: without an answer there is no device.  The OSError of a program
\* that cannot be started is not among the exceptions it catches.
AskDevice ==
    /\ stage = "hardware" /\ args.cuda = "auto"
    /\ \E answer \in Answers :
          \/ /\ answer = NoAnswer
             /\ available' = FALSE /\ detected' = NoLimit /\ stage' = "arguments"
          \/ /\ answer \in Nat
             /\ available' = TRUE /\ detected' = answer * MiB /\ stage' = "arguments"
          \/ /\ answer = Unstarted
             /\ detected' = Unstarted /\ stage' = "error" /\ UNCHANGED available
    /\ UNCHANGED <<contract, args, next, batches, truncation>>

TakeDeviceAsGiven ==
    /\ stage = "hardware" /\ args.cuda # "auto"
    /\ available' = (args.cuda = "available") /\ detected' = NoLimit
    /\ stage' = "arguments"
    /\ UNCHANGED <<contract, args, next, batches, truncation>>

\* A limit the caller declares wins over what the device says.
Memory == IF args.memory # NoLimit THEN args.memory ELSE detected

\* Counterfactual: the caller's reason is used for whatever failure.
CallersReason == ~args.blank

\* A device that was asked and is not there comes with a reason of its own.
ReasonGiven == args.cuda = "auto" \/ ~args.blank

\* Counterfactual: checked.get("oracle").
AnyOracle == TRUE

\* checked["oracle"] raises KeyError where there is none, and takes what there is.
HasOracle == contract.oracle # "missing"

CheckArguments ==
    /\ stage = "arguments"
    /\ stage' = IF ~args.named \/ args.bytes <= 0 \/ ~HasOracle THEN "error"
                ELSE IF ~available THEN IF ReasonGiven THEN "planned" ELSE "error"
                ELSE IF Memory # NoLimit /\ Memory <= 0 THEN "error"
                ELSE "sweep"
    /\ UNCHANGED <<contract, args, available, detected, next, batches, truncation>>

Required(size) == size * args.bytes

Fits(size) == Memory = NoLimit \/ Required(size) <= Memory

\* Counterfactual: the sweep goes on after a size that does not fit.
PlanSizeAndGoOn ==
    /\ stage = "sweep" /\ next <= Len(contract.sizes)
    /\ LET size == contract.sizes[next]
       IN  IF Fits(size)
           THEN batches' = Append(batches, size) /\ UNCHANGED truncation
           ELSE truncation' = size /\ UNCHANGED batches
    /\ next' = next + 1
    /\ UNCHANGED <<stage, contract, args, available, detected>>

\* One round of the loop over the sizes, with its break.
PlanSize ==
    /\ stage = "sweep" /\ next <= Len(contract.sizes)
    /\ LET size == contract.sizes[next]
       IN  IF Fits(size)
           THEN /\ batches' = Append(batches, size)
                /\ next' = next + 1
                /\ UNCHANGED <<stage, truncation>>
           ELSE /\ truncation' = size
                /\ stage' = "planned"
                /\ UNCHANGED <<batches, next>>
    /\ UNCHANGED <<contract, args, available, detected>>

EndOfSizes ==
    /\ stage = "sweep" /\ next > Len(contract.sizes)
    /\ stage' = "planned"
    /\ UNCHANGED <<contract, args, available, detected, next, batches, truncation>>

Ended == stage \in {"planned", "error"} /\ UNCHANGED vars

Next == \/ ReadContract \/ AskDevice \/ TakeDeviceAsGiven \/ CheckArguments
        \/ PlanSize \/ EndOfSizes \/ Ended

Spec == Init /\ [][Next]_vars
--------------------------------------------------------------------------------
TypeOK ==
    /\ stage \in Stages
    /\ contract \in Contracts /\ args \in Arguments
    /\ available \in BOOLEAN /\ detected \in Int \cup {NoLimit, Unstarted}
    /\ next \in Nat \ {0} /\ batches \in Seq(Int) /\ truncation \in Int \cup {NoLimit}

Sizes == {contract.sizes[i] : i \in DOMAIN contract.sizes}
Planned == {batches[i] : i \in DOMAIN batches}

\* The memory a plan has to respect: what the caller declares, and what the
\* device has only if the caller declares nothing.
Limit == IF args.memory \in Int THEN args.memory ELSE detected

\* "A device-memory limit may omit only the unavailable suffix": the plan for a
\* device has exactly the sizes whose buffers fit, in increasing order.
PlanIsWhatFits ==
    stage = "planned" /\ available =>
        /\ Planned = {s \in Sizes : Limit \in Int => s * args.bytes <= Limit}
        /\ \A i, j \in DOMAIN batches : i < j => batches[i] < batches[j]

\* "record the first omitted size": a plan is marked as truncated if and only if
\* a size is missing from it, and names the smallest.
TruncationIsRecorded ==
    stage = "planned" /\ available =>
        IF truncation = NoLimit THEN Planned = Sizes
        ELSE /\ truncation \in Sizes \ Planned
             /\ \A s \in Sizes \ Planned : truncation <= s

\* A plan, be it for a device or for none, comes from a contract all of whose
\* checked parts are in order and which has an oracle to quote, although nobody
\* checks that: whether it is a sound one is not known.
PlansComeFromCheckedContracts ==
    stage = "planned" =>
        /\ contract.flaws = {} /\ contract.oracle \in {"whole", "malformed"}
        /\ \A tier \in contract.tiers : tier # {} /\ tier \subseteq Sizes

\* "Report CUDA visibility without making CUDA a local test dependency": what a
\* device answers does not make the command fail, unless it has nothing free or
\* the program that should ask it cannot be started.
DeviceDoesNotMatter ==
    stage = "error" =>
        \/ ~ValidContract(contract) \/ contract.oracle = "missing"
        \/ ~args.named \/ args.bytes <= 0
        \/ args.memory # NoLimit /\ args.memory <= 0
        \/ args.cuda # "auto" /\ args.blank
        \/ args.cuda = "auto" /\ args.memory = NoLimit /\ detected = 0
        \/ args.cuda = "auto" /\ detected = Unstarted
================================================================================
