------------------------------ MODULE MCAkbench ------------------------------
\* An instance of Akbench for TLC: integers of four bits, and for every option
\* the values around each of the limits it is compared with.
EXTENDS Akbench

MCDefault == [num_iterations |-> 4, num_warmups |-> 1, loop_size |-> Null,
              data_size |-> 8, buffer_size |-> Null, num_threads |-> Null,
              log_level |-> "WARNING"]

\* -8 is INT_MIN, 7 INT_MAX, 8 out of range; 4 + -5 < 0, 4 + -4 = 0, 4 + -3 = 1;
\* 2 is CHECKSUM_SIZE, 1 << 4 drops its bit and 1 << 5 is undefined.
MCArguments ==
    [num_iterations |-> {Empty, Number(2), Number(3), Number(7), Number(8)},
     num_warmups    |-> {Junk, Number(-8), Number(-5), Number(-4), Number(-3), Number(-1),
                         Number(0), Number(4)},
     loop_size      |-> {Empty, Number(0), Number(2)},
     data_size      |-> {Empty, Junk, Number(2), Number(3), Shift(1, 3), Shift(1, 4),
                         Shift(1, 5)},
     buffer_size    |-> {Empty, Number(0), Number(3), Number(9), Number(16)},
     num_threads    |-> {Empty, Number(0), Number(3), Number(-1)},
     log_level      |-> {"DEBUG", "ERROR", "FATAL"}]
=============================================================================
