---------------------------- MODULE HiddenNeuron ----------------------------
(***************************************************************************)
(* The hidden neuron of the FPGA (neuron.v): the state machines of         *)
(* hidden_neuron, the accumulator Z it enables and the memory of its       *)
(* weights (miscellaneous.v), all clocked by one edge.  An action is one   *)
(* rising edge; the driver may change neuron_state and neuron_enable at    *)
(* any of them, in the middle of an operation too.                         *)
(*                                                                         *)
(* The blocks write with = what the others read at the same edge.  In the  *)
(* FPGA they see it at the next one.  In a simulation it depends on which  *)
(* block runs first, which the language leaves open, edge by edge; and     *)
(* there the read side of the memory moves with the address only, where    *)
(* in the FPGA it is a latch, open while write_enable is 0.                *)
(* Numbers are integers for floats.                                        *)
(***************************************************************************)
EXTENDS Integers

CONSTANTS
  NUM_INPUTS,
  AddressSpace,  \* values of data_counter, of $clog2(NUM_INPUTS) bits
  Input,         \* inputdata, by address
  Bias,
  Step,          \* alpha * deltafunction_value
  Unknown,       \* what is read at an address beyond NUM_INPUTS
  MaxUpdates,    \* bound: back-propagations
  MaxBreaks      \* bound: edges at which the driver breaks off a feedforward or is careless

ASSUME NeuronAssumption ==
  /\ {NUM_INPUTS, AddressSpace, MaxUpdates, MaxBreaks} \subseteq Nat
  /\ 1 < NUM_INPUTS /\ NUM_INPUTS <= AddressSpace
  /\ {Bias, Step, Unknown} \subseteq Int
  /\ Input \in [0..(NUM_INPUTS - 1) -> Int]

VARIABLES
  simulated,     \* a simulator runs the blocks, not the FPGA
  mem, MEM_OUT, write_enable,
  data_counter,  \* AddressSpace when a simulator does not know it yet
  enable_Z, z_counter, Z, index, Z_RELU,
  feedforward, deltafunction, backpropagation,   \* the three state registers
  a, weight_out,
  updates, breaks,
  begin,      \* index when Z was last enabled
  whole,      \* since then nothing interrupted the feedforward
  due,        \* what it should give
  expected,   \* the weights as the updates asked for should leave them
  careless    \* the driver was wrong about the memory

memoryVars == <<mem, MEM_OUT>>
zVars      == <<Z, index, Z_RELU>>
stateVars  == <<feedforward, deltafunction, backpropagation>>
driverVars == <<begin, whole, due, breaks, careless>>
updateVars == <<updates, expected>>
neuronVars == <<simulated, memoryVars, write_enable, data_counter, enable_Z, z_counter, zVars,
                stateVars, a, weight_out, driverVars, updateVars>>

Address == 0..(NUM_INPUTS - 1)
Read(m, d) == IF d \in Address THEN m[d] ELSE Unknown
MUX_OUT == IF data_counter \in Address THEN Input[data_counter] ELSE Unknown
ReLU(z) == IF z < 0 THEN 0 ELSE z

\* The sum of the first n inputs, weighted by w.
WeightedInputs(w) ==
  LET sum[n \in 0..NUM_INPUTS] == IF n = 0 THEN 0 ELSE sum[n - 1] + w[n - 1] * Input[n - 1]
  IN  sum

\* What Z adds up from an empty accumulator.  Enabled by a block that ran before its
\* own, it takes the first input twice and never comes to the last one.
Summed(w, ahead) ==
  IF ahead THEN w[0] * Input[0] + WeightedInputs(w)[NUM_INPUTS - 1]
  ELSE WeightedInputs(w)[NUM_INPUTS]

\* Registers without an initial value come up with any.
NeuronInit ==
  /\ simulated \in BOOLEAN
  /\ mem = [d \in Address |-> 1]
  /\ data_counter \in IF simulated THEN {AddressSpace} ELSE 0..(AddressSpace - 1)
  /\ MEM_OUT = Read(mem, data_counter) /\ write_enable = 0
  /\ enable_Z = 0 /\ z_counter = 0 /\ Z = 0 /\ index = 0 /\ Z_RELU = 0
  /\ feedforward = 0 /\ deltafunction = 0 /\ backpropagation = 0 /\ a = 0 /\ weight_out = 0
  /\ begin = 0 /\ whole = FALSE /\ due = 0
  /\ updates = 0 /\ breaks = 0 /\ expected = mem /\ careless = FALSE

-----------------------------------------------------------------------------
\* The block of hidden_neuron runs before those of Z and of the memory, or not.
Orders == IF simulated THEN BOOLEAN ELSE {FALSE}

\* The accumulator at an edge: NUM_INPUTS products, then the bias.
ZEdge(ahead) ==
  IF (IF ahead THEN enable_Z' ELSE enable_Z) = 0 THEN UNCHANGED zVars
  ELSE IF index < NUM_INPUTS
       THEN Z' = Z + MEM_OUT * MUX_OUT /\ index' = index + 1 /\ UNCHANGED Z_RELU
       ELSE Z_RELU' = Z + Bias /\ Z' = 0 /\ index' = 0

\* The memory at an edge, and what is read from it once the new address is there.
MemoryEdge(ahead) ==
  LET writes == IF ahead THEN write_enable' ELSE write_enable
      at     == IF ahead THEN data_counter' ELSE data_counter
  IN  /\ mem' = IF writes = 1 /\ at \in Address
                THEN [mem EXCEPT ![at] = MEM_OUT + Step * MUX_OUT] ELSE mem
      /\ MEM_OUT' = IF write_enable' = 0 /\ (simulated => data_counter' # data_counter)
                    THEN Read(mem', data_counter') ELSE MEM_OUT

Clock(ahead) == ZEdge(ahead) /\ MemoryEdge(ahead) /\ UNCHANGED simulated

\* An address moves wrongly that is still written to, and so does a weight that was just
\* written and is read where it is.
IsWrongMove(d) == write_enable = 1 \/ (d = data_counter /\ MEM_OUT # Read(mem, d))

\* The driver turns to something else, which breaks off a feedforward that is at one of
\* these states, or is wrong about the memory.
Drives(states, wrong) ==
  /\ IF wrong \/ (states # {} /\ feedforward # 0)
     THEN breaks < MaxBreaks /\ breaks' = breaks + 1 ELSE UNCHANGED breaks
  /\ whole' = (whole /\ feedforward \notin states)
  /\ careless' = (careless \/ wrong)
  /\ UNCHANGED <<begin, due>>

Initialise(ahead) ==
  /\ feedforward = 0
  /\ data_counter' = 0
  /\ z_counter' = 0
  /\ feedforward' = 1
  /\ Drives({}, IsWrongMove(0))
  /\ UNCHANGED <<write_enable, enable_Z, deltafunction, backpropagation, a, weight_out, updateVars>>
  /\ Clock(ahead)

\* The feedforward is whole that finds Z at rest and the address at the first input.
EnableZ(ahead) ==
  /\ feedforward = 1
  /\ enable_Z' = 1
  /\ feedforward' = 2
  /\ begin' = index
  /\ whole' = (enable_Z = 0 /\ data_counter = 0)
  /\ due' = ReLU(Summed(expected, ahead) + Bias)
  /\ UNCHANGED <<write_enable, data_counter, z_counter, deltafunction, backpropagation, a,
                 weight_out, updateVars, breaks, careless>>
  /\ Clock(ahead)

\* Slip: the counter stops an edge earlier, with the result.
CountsToResult == z_counter < NUM_INPUTS

KeepsCounting == z_counter <= NUM_INPUTS

NextAddress == (data_counter + 1) % AddressSpace

CountInputs(ahead) ==
  /\ feedforward = 2
  /\ IF KeepsCounting
     THEN /\ z_counter' = z_counter + 1
          /\ data_counter' = NextAddress
          /\ Drives({}, IsWrongMove(NextAddress))
          /\ UNCHANGED <<enable_Z, feedforward>>
     ELSE /\ enable_Z' = 0
          /\ feedforward' = 3
          /\ UNCHANGED <<z_counter, data_counter, driverVars>>
  /\ UNCHANGED <<write_enable, deltafunction, backpropagation, a, weight_out, updateVars>>
  /\ Clock(ahead)

RELU_OUT == ReLU(Z_RELU)

Activate(ahead) ==
  /\ feedforward = 3
  /\ a' = RELU_OUT
  /\ feedforward' = 0
  /\ UNCHANGED <<write_enable, data_counter, enable_Z, z_counter, deltafunction, backpropagation,
                 weight_out, driverVars, updateVars>>
  /\ Clock(ahead)

-----------------------------------------------------------------------------
\* deltafunction: a weight is read for the layer below, in two edges.
SetAddress(d, ahead) ==
  /\ deltafunction = 0
  /\ data_counter' = d
  /\ deltafunction' = 1
  /\ Drives({2}, IsWrongMove(d))
  /\ UNCHANGED <<write_enable, enable_Z, z_counter, feedforward, backpropagation, a, weight_out,
                 updateVars>>
  /\ Clock(ahead)

ReadWeight(ahead) ==
  /\ deltafunction = 1
  /\ weight_out' = MEM_OUT
  /\ deltafunction' = 0
  /\ Drives({2}, FALSE)
  /\ UNCHANGED <<write_enable, data_counter, enable_Z, z_counter, feedforward, backpropagation, a,
                 updateVars>>
  /\ Clock(ahead)

WriteEnabled == 1

\* backpropagation: the weight at an address is moved, in two edges.  What is read no
\* longer changes with the new address, so that it must be there already.
SetWriteAddress(d, ahead) ==
  /\ backpropagation = 0 /\ updates < MaxUpdates
  /\ data_counter' = d
  /\ write_enable' = WriteEnabled
  /\ backpropagation' = 1
  /\ updates' = updates + 1
  /\ expected' = [expected EXCEPT ![d] = @ + Step * Input[d]]
  /\ Drives({2}, d # data_counter \/ IsWrongMove(d))
  /\ UNCHANGED <<enable_Z, z_counter, feedforward, deltafunction, a, weight_out>>
  /\ Clock(ahead)

WriteWeight(ahead) ==
  /\ backpropagation = 1
  /\ weight_out' = MEM_OUT
  /\ backpropagation' = 0
  /\ Drives({2}, FALSE)
  /\ UNCHANGED <<write_enable, data_counter, enable_Z, z_counter, feedforward, deltafunction, a,
                 updateVars>>
  /\ Clock(ahead)

\* The idle state ends every operation, and the writing.  Z stays enabled if it was.
Idle(ahead) ==
  /\ feedforward' = 0 /\ deltafunction' = 0 /\ backpropagation' = 0
  /\ write_enable' = 0
  /\ Drives({2, 3}, simulated /\ backpropagation = 1)
  /\ UNCHANGED <<data_counter, enable_Z, z_counter, a, weight_out, updateVars>>
  /\ Clock(ahead)

\* neuron_enable is 0: the neuron stands still, Z and the memory are clocked.
Disabled(ahead) ==
  /\ Drives({2}, FALSE)
  /\ UNCHANGED <<write_enable, data_counter, enable_Z, z_counter, stateVars, a, weight_out,
                 updateVars>>
  /\ Clock(ahead)

NeuronNext ==
  \E ahead \in Orders :
    \/ Initialise(ahead) \/ EnableZ(ahead) \/ CountInputs(ahead) \/ Activate(ahead)
    \/ (\E d \in Address : SetAddress(d, ahead) \/ SetWriteAddress(d, ahead))
    \/ ReadWeight(ahead) \/ WriteWeight(ahead) \/ Idle(ahead) \/ Disabled(ahead)

NeuronSpec == NeuronInit /\ [][NeuronNext]_neuronVars

-----------------------------------------------------------------------------
NeuronTypeOK ==
  /\ {write_enable, enable_Z, deltafunction, backpropagation} \subseteq 0..1
  /\ feedforward \in 0..3 /\ data_counter \in 0..AddressSpace
  /\ z_counter \in 0..(NUM_INPUTS + 1) /\ {index, begin} \subseteq 0..NUM_INPUTS
  /\ mem \in [Address -> Int] /\ expected \in [Address -> Int]
  /\ {MEM_OUT, Z, Z_RELU, a, weight_out, due} \subseteq Int
  /\ {simulated, whole, careless} \subseteq BOOLEAN

\* A feedforward that is not interrupted disables Z, but after one edge more than a
\* sum takes: it leaves the accumulator of the FPGA one input further on.
EveryRunLeavesOneInput ==
  /\ index = 0 => Z = 0
  /\ (whole /\ feedforward # 2) =>
       enable_Z = 0 /\ (~simulated => index = (begin + 1) % (NUM_INPUTS + 1))

\* One that begins with an empty accumulator gives the activation of the weights as
\* they should be by then; or, in a simulator that runs its block first, that of the
\* first input twice and the last one not at all.
AlignedRunIsRight ==
  (whole /\ feedforward \notin {2, 3} /\ begin = 0 /\ ~careless) => a = due

\* A driver that reads a weight before it moves it, idles after that, and does not
\* read it again before it has read another one, moves this weight by its own step
\* and no other.
UpdatesOwnWeight == (write_enable = 0 /\ ~careless) => mem = expected

\* What the neuron is after any sequence of its operations, broken off or not.
NeuronRunsRight == EveryRunLeavesOneInput /\ AlignedRunIsRight /\ UpdatesOwnWeight
=============================================================================
