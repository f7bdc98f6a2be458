----------------------------- MODULE CommandLine -----------------------------
(***************************************************************************)
(* The options of akbench: the numbers of getopt_utils.h, with the width of*)
(* their integers, and the validation of main in akbench.cc.  A text given *)
(* on the command line is empty, a decimal number, a shift "b << s" or     *)
(* anything else.                                                          *)
(***************************************************************************)
EXTENDS Integers

CONSTANTS Width,           \* bits of a uint64_t
          IntMax,          \* the largest int
          CHECKSUM_SIZE, DEFAULT_BUFFER_SIZE,
          Default,         \* the values of the g_ variables at the start
          Null, Invalid    \* std::nullopt, an exception

ASSUME CommandLineAssumption == /\ Width \in Nat \ {0}
                                /\ IntMax \in Nat \ {0}
                                /\ CHECKSUM_SIZE \in Nat
                                /\ DEFAULT_BUFFER_SIZE \in Nat \ {0}

Uint64 == 0 .. 2^Width - 1
Int32  == -IntMax - 1 .. IntMax

Empty        == [kind |-> "empty"]
Junk         == [kind |-> "junk"]
Number(n)    == [kind |-> "number", value |-> n]
Shift(b, s)  == [kind |-> "shift", base |-> b, shift |-> s]

Levels == {"DEBUG", "INFO", "WARNING", "ERROR"}

\* The g_ variables have values of their types at the start.
ASSUME DefaultAssumption ==
    Default \in [num_iterations : Int32, num_warmups : Int32, data_size : Uint64,
                loop_size : Uint64 \cup {Null}, buffer_size : Uint64 \cup {Null},
                num_threads : Uint64 \cup {Null}, log_level : Levels]
-----------------------------------------------------------------------------
\* base << shift loses the bits above the width; from the width on it is
\* undefined, and a build masks the shift or folds the expression to 0.
ShiftLeft(base, shift) ==
    {(base * 2^(shift % Width)) % 2^Width} \cup (IF shift < Width THEN {} ELSE {0})

\* The possible results for a text.
ParseUint64(text) ==
    CASE text.kind = "empty" -> {Null}
      [] text.kind = "number" /\ text.value \in Uint64 -> {text.value}
      [] text.kind = "shift" /\ text.base \in Uint64 /\ text.shift \in Uint64 ->
             ShiftLeft(text.base, text.shift)
      [] OTHER -> {Invalid}

ParseInt(text) ==
    IF text.kind = "number" /\ text.value \in Int32 THEN {text.value} ELSE {Invalid}

\* ParseUint64(optarg).value() throws bad_optional_access on std::nullopt.
ParseSize(text) == {IF v = Null THEN Invalid ELSE v : v \in ParseUint64(text)}

Parse(option, text) ==
    CASE option \in {"num_iterations", "num_warmups"} -> ParseInt(text)
      [] option \in {"loop_size", "buffer_size", "num_threads"} -> ParseUint64(text)
      [] option = "data_size" -> ParseSize(text)
      [] option = "log_level" -> {text}
-----------------------------------------------------------------------------
Latencies == {"latency_atomic", "latency_atomic_rel_acq", "latency_barrier",
              "latency_condition_variable", "latency_semaphore", "latency_statfs",
              "latency_fstatfs", "latency_getpid"}
Memcpys == {"bandwidth_memcpy", "bandwidth_memcpy_mt"}
Transfers == {"bandwidth_tcp", "bandwidth_uds", "bandwidth_pipe", "bandwidth_fifo",
              "bandwidth_mq", "bandwidth_mmap", "bandwidth_shm"}

\* type.find("latency_") == 0 and type.find("bandwidth_") == 0; a misspelt TYPE
\* may begin like that, too.
LatencyTypes   == Latencies \cup {"latency_all", "latency_misspelt"}
BandwidthTypes == Memcpys \cup Transfers \cup {"bandwidth_all", "bandwidth_misspelt"}
Types == LatencyTypes \cup BandwidthTypes \cup {"all", "misspelt", ""}

buffer_size(o) == IF o.buffer_size = Null THEN DEFAULT_BUFFER_SIZE ELSE o.buffer_size

TooFewIterations(o) == o.num_iterations < 3

WrongOption(type, o) == \/ type \in Memcpys /\ o.buffer_size # Null
                        \/ type # "bandwidth_memcpy_mt" /\ o.num_threads # Null

WrongBuffer(type, o) == /\ type \in BandwidthTypes \ Memcpys
                        /\ \/ buffer_size(o) = 0
                           \/ buffer_size(o) > o.data_size

WrongData(type, o) == type \in BandwidthTypes \cup {"all"} /\ o.data_size <= CHECKSUM_SIZE

\* Mutant: num_threads is not validated.
Rejected_NotThreads(type, o) == \/ type = ""
                                \/ TooFewIterations(o)
                                \/ WrongOption(type, o)
                                \/ WrongBuffer(type, o)
                                \/ WrongData(type, o)

\* What main rejects before it sets the log level.  It validates neither
\* num_warmups and loop_size, nor the buffer of TYPE all.
Rejected(type, o) == \/ type = ""
                     \/ TooFewIterations(o)
                     \/ WrongOption(type, o)
                     \/ o.num_threads = 0
                     \/ WrongBuffer(type, o)
                     \/ WrongData(type, o)
=============================================================================
