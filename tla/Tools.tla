-------------------------------- MODULE Tools --------------------------------
(***************************************************************************)
(* The command line tools: spwrmap performs one read or write, and         *)
(* spwrmap_speedtest writes a pattern into a target's memory in chunks and *)
(* then reads it back ntimes, measuring. Both connect, run the loop in a   *)
(* thread of their own, and shut down and join it before they return.      *)
(*                                                                         *)
(* The node under the tool is reduced to what it does for a caller: an     *)
(* operation is executed by the target and answered, or fails, or, read    *)
(* asynchronously, is never answered. A reply comes within the timeout of  *)
(* its try or never; Transactions treats the late ones, and Link what the  *)
(* shutdown of a running loop may meet.                                    *)
(*                                                                         *)
(* A byte of the pattern is its index. Latencies are small numbers, and    *)
(* what is halved in the statistics is kept doubled.                       *)
(***************************************************************************)
EXTENDS Integers, Sequences, FiniteSets, FiniteSetsExt, Functions

CONSTANTS
    MemSize,   \* 2^32, the size of the address space
    ChunkSize, \* kChunkSize
    LenRange,  \* 2^24, the range of the data length of a command
    MaxBytes,  \* bound: --nbytes
    MaxTimes,  \* bound: --ntimes
    Latencies, \* what a measurement can yield
    None

ASSUME ToolsAssumption ==
    /\ MemSize \in Nat \ {0} /\ ChunkSize \in Nat \ {0}
    /\ LenRange \in Nat \ {0}
    /\ MaxBytes \in Nat /\ MaxTimes \in Nat
    /\ Latencies \subseteq Nat
    /\ None \notin {0, 1}

VARIABLES
    tool,   \* which of the two runs
    opts,   \* start address, number of bytes, number of reads
    pc,     \* where main is
    off,    \* offset of the write loop
    memory, \* what the target's memory holds: old, or a byte of the pattern
    buffer, \* read_buffer
    fresh,  \* reads whose data the callback has copied
    lat,    \* latencies_us
    stats,  \* what is printed
    link,   \* the connection: none, up, shut by the tool, or lost
    loop,   \* the loop thread: none, running, done, joined
    exit    \* the exit code

vars == <<tool, opts, pc, off, memory, buffer, fresh, lat, stats, link, loop,
          exit>>

\* Contents that are no byte of the pattern
Old     == -1
Zero    == -2
Damaged == -3

Addresses == 0 .. MemSize - 1
Pattern   == [i \in 1 .. opts.nbytes |-> i - 1]

Init ==
    /\ tool \in {"spwrmap", "spwrmap_speedtest"}
    /\ opts \in [base : Addresses, nbytes : 1 .. MaxBytes,
                 ntimes : 1 .. MaxTimes]
    /\ pc = "check"
    /\ off = 0
    /\ memory = [a \in Addresses |-> Old]
    /\ buffer = [i \in 1 .. opts.nbytes |-> Zero]
    /\ fresh = 0
    /\ lat = <<>>
    /\ stats = None
    /\ link = "none"
    /\ loop = "none"
    /\ exit = None

-----------------------------------------------------------------------------
(* Statistics over sorted sequences, as twice their value.                 *)

\* The places of the values that do not exceed v
AtMost(xs, v) == {i \in DOMAIN xs : xs[i] <= v}

\* sort: the k-th is the least of the values that k of them do not exceed.
Sorted(xs) ==
    [k \in DOMAIN xs |->
       Min({v \in Range(xs) : Cardinality(AtMost(xs, v)) >= k})]

\* medianSorted
Median2(xs) ==
    LET n == Len(xs)
    IN  IF n % 2 = 1 THEN 2 * xs[n \div 2 + 1]
                     ELSE xs[n \div 2] + xs[n \div 2 + 1]

\* The upper half starts at mid also when mid is the median itself.
UpperWithMedian(xs) == SubSeq(xs, Len(xs) \div 2 + 1, Len(xs))

\* lower and upper: the median of an odd number of values is in neither.
Lower(xs) == SubSeq(xs, 1, Len(xs) \div 2)
Upper(xs) == SubSeq(xs, (Len(xs) + 1) \div 2 + 1, Len(xs))

\* computeQuartiles
Quartiles(ys) ==
    LET xs == Sorted(ys)
    IN  [min    |-> 2 * Head(xs),
         q1     |-> IF Lower(xs) = <<>> THEN 2 * Head(xs)
                                        ELSE Median2(Lower(xs)),
         median |-> Median2(xs),
         q3     |-> IF Upper(xs) = <<>> THEN 2 * xs[Len(xs)]
                                        ELSE Median2(Upper(xs)),
         max    |-> 2 * xs[Len(xs)]]

-----------------------------------------------------------------------------
(* main                                                                    *)

Goto(p) == pc' = p
Return(code) == exit' = code /\ pc' = "done"

\* range_end is compared with 2^32 in 64 bits; spwrmap has no such check.
RangeFits == tool = "spwrmap" \/ opts.base + opts.nbytes <= MemSize

CheckRange ==
    /\ pc = "check"
    /\ \/ RangeFits /\ Goto("connect") /\ UNCHANGED exit
       \/ ~RangeFits /\ Return(1)
    /\ UNCHANGED <<tool, opts, off, memory, buffer, fresh, lat, stats, link,
                   loop>>

\* connect; on success the loop thread is started.
Connect ==
    /\ pc = "connect"
    /\ \/ /\ link' = "up"
          /\ loop' = "running"
          /\ Goto(IF tool = "spwrmap" THEN "operate" ELSE "write")
          /\ UNCHANGED exit
       \/ /\ Return(1)
          /\ UNCHANGED <<link, loop>>
    /\ UNCHANGED <<tool, opts, off, memory, buffer, fresh, lat, stats>>

\* performRead or performWrite of spwrmap: the exit code waits for shutdown.
Operate ==
    /\ pc = "operate"
    /\ Goto("shutdown")
    /\ \/ link = "up" /\ UNCHANGED exit
       \/ exit' = 1
    /\ UNCHANGED <<tool, opts, off, memory, buffer, fresh, lat, stats, link,
                   loop>>

\* The chunk is not cut at the end of the pattern.
ChunkUncut == ChunkSize

Chunk == Min({ChunkSize, opts.nbytes - off})

\* The target stores a chunk, at addresses computed in 32 bits.
Stored ==
    LET Offset(a) == (a - opts.base) % MemSize
    IN  [a \in Addresses |->
           IF Offset(a) \in off .. off + Chunk - 1 THEN Offset(a)
                                                   ELSE memory[a]]

\* write of one chunk, with its retries. A write that fails may have been
\* executed; the tool then shuts down and gives up.
WriteChunk ==
    /\ pc = "write" /\ off < opts.nbytes
    /\ \/ /\ link = "up"
          /\ memory' = Stored
          /\ off' = off + ChunkSize
          /\ UNCHANGED pc
       \/ /\ memory' \in {memory, Stored}
          /\ Goto("giveUp")
          /\ UNCHANGED off
    /\ UNCHANGED <<tool, opts, buffer, fresh, lat, stats, link, loop, exit>>

\* The whole pattern is written.
WritesDone ==
    /\ pc = "write" /\ off >= opts.nbytes
    /\ Goto("read")
    /\ UNCHANGED <<tool, opts, off, memory, buffer, fresh, lat, stats, link,
                   loop, exit>>

\* readAsync: the command is sent and future.wait() entered, or sending fails.
Read ==
    /\ pc = "read" /\ Len(lat) < opts.ntimes
    /\ \/ Goto("wait") \/ Goto("giveUp")
    /\ UNCHANGED <<tool, opts, off, memory, buffer, fresh, lat, stats, link,
                   loop, exit>>

\* What the target returns: as many bytes as the length field of the command
\* asks for, from its memory, or anything else.
Returned ==
    LET right == [i \in 1 .. (opts.nbytes % LenRange) |->
                    memory[(opts.base + i - 1) % MemSize]]
    IN  {right, <<>>} \union
          {[right EXCEPT ![i] = Damaged] : i \in DOMAIN right}

\* The callback copies whatever has come.
CallbackUnchecked(data) ==
    /\ buffer' = [i \in 1 .. opts.nbytes |->
                    IF i <= Len(data) THEN data[i] ELSE buffer[i]]
    /\ fresh' = IF Len(data) = opts.nbytes THEN fresh + 1 ELSE fresh
    /\ Goto("compare")

\* The callback assigns what has come, whatever its size.
CallbackResizes(data) ==
    /\ buffer' = data
    /\ fresh' = fresh + 1
    /\ Goto("compare")

\* The callback refuses data of another size, which cancels the operation;
\* the future is set either way.
Callback(data) ==
    \/ /\ Len(data) = opts.nbytes
       /\ buffer' = data
       /\ fresh' = fresh + 1
       /\ Goto("compare")
    \/ /\ Len(data) # opts.nbytes
       /\ Goto("giveUp")
       /\ UNCHANGED <<buffer, fresh>>

\* The loop thread dispatches the reply and future.get() returns.
Answered ==
    /\ pc = "wait" /\ loop = "running"
    /\ \E data \in Returned : Callback(data)
    /\ UNCHANGED <<tool, opts, off, memory, lat, stats, link, loop, exit>>

\* The data is compared with the pattern; a match is measured.
Compare ==
    /\ pc = "compare"
    /\ \/ /\ buffer = Pattern
          /\ \E d \in Latencies : lat' = Append(lat, d)
          /\ Goto("read")
       \/ /\ buffer # Pattern
          /\ Goto("giveUp")
          /\ UNCHANGED lat
    /\ UNCHANGED <<tool, opts, off, memory, buffer, fresh, stats, link, loop,
                   exit>>

\* After the last read the statistics are printed.
Report ==
    /\ pc = "read" /\ Len(lat) = opts.ntimes
    /\ stats' = Quartiles(lat)
    /\ Goto("shutdown")
    /\ UNCHANGED <<tool, opts, off, memory, buffer, fresh, lat, link, loop,
                   exit>>

\* A failure returns at once.
GiveUpUnjoined ==
    /\ pc = "giveUp"
    /\ Return(1)
    /\ UNCHANGED <<tool, opts, off, memory, buffer, fresh, lat, stats, link,
                   loop>>

\* A failure joins the loop thread without shutting the connection down.
GiveUpConnected ==
    /\ pc = "giveUp"
    /\ exit' = 1
    /\ Goto("join")
    /\ UNCHANGED <<tool, opts, off, memory, buffer, fresh, lat, stats, link,
                   loop>>

\* A failure of the speed test: shutdown, whose result is ignored.
GiveUp ==
    /\ pc = "giveUp"
    /\ link' = IF link = "up" THEN "shut" ELSE link
    /\ exit' = 1
    /\ Goto("join")
    /\ UNCHANGED <<tool, opts, off, memory, buffer, fresh, lat, stats, loop>>

\* client.shutdown(), which may fail on a connection that is lost.
Shutdown ==
    /\ pc = "shutdown"
    /\ \/ /\ link' = "shut"
          /\ UNCHANGED exit
       \/ /\ link = "lost"
          /\ exit' = 1
          /\ UNCHANGED link
    /\ Goto("join")
    /\ UNCHANGED <<tool, opts, off, memory, buffer, fresh, lat, stats, loop>>

\* joinLoop, return
Join ==
    /\ pc = "join" /\ loop = "done"
    /\ loop' = "joined"
    /\ Return(IF exit = None THEN 0 ELSE exit)
    /\ UNCHANGED <<tool, opts, off, memory, buffer, fresh, lat, stats, link>>

-----------------------------------------------------------------------------
(* The loop thread and the connection.                                     *)

ConnectionLost ==
    /\ link = "up" /\ link' = "lost"
    /\ UNCHANGED <<tool, opts, pc, off, memory, buffer, fresh, lat, stats,
                   loop, exit>>

\* runLoop returns once the connection is shut down or lost.
LoopReturns ==
    /\ loop = "running" /\ link \in {"shut", "lost"}
    /\ loop' = "done"
    /\ UNCHANGED <<tool, opts, pc, off, memory, buffer, fresh, lat, stats,
                   link, exit>>

\* A step of main that waits for nobody.
MainStep ==
    \/ CheckRange \/ Connect \/ Operate \/ WriteChunk \/ WritesDone \/ Read
    \/ Compare \/ Report \/ GiveUp \/ Shutdown \/ Join

\* main has returned, or waits for a reply no loop will dispatch.
Stopped ==
    /\ pc = "done" \/ (pc = "wait" /\ loop = "done")
    /\ UNCHANGED vars

Next == MainStep \/ Answered \/ ConnectionLost \/ LoopReturns \/ Stopped

Spec == Init /\ [][Next]_vars

\* main and the loop thread are scheduled; nothing obliges the target to
\* answer or the connection to break.
FairSpec == Spec /\ WF_vars(MainStep) /\ WF_vars(LoopReturns)

-----------------------------------------------------------------------------
(* Properties.                                                             *)

\* One type invariant for the whole state.
TypeOK ==
    /\ tool \in {"spwrmap", "spwrmap_speedtest"}
    /\ opts \in [base : Addresses, nbytes : 1 .. MaxBytes,
                 ntimes : 1 .. MaxTimes]
    /\ pc \in {"check", "connect", "operate", "write", "read", "wait",
               "compare", "giveUp", "shutdown", "join", "done"}
    /\ off \in 0 .. opts.nbytes + ChunkSize - 1
    /\ DOMAIN memory = Addresses
    /\ DOMAIN buffer = 1 .. opts.nbytes
    /\ fresh \in 0 .. opts.ntimes
    /\ lat \in Seq(Latencies)
    /\ link \in {"none", "up", "shut", "lost"}
    /\ loop \in {"none", "running", "done", "joined"}
    /\ exit \in {None, 0, 1}

\* The chunks of the speed test cover exactly the bytes it was asked to write,
\* each with its byte of the pattern, up to the last address there is: no
\* chunk reaches beyond the pattern or wraps around the address space.
PatternExact ==
    tool = "spwrmap_speedtest" =>
        \A a \in Addresses :
            /\ memory[a] # Old =>
                 a - opts.base \in 0 .. opts.nbytes - 1
                 /\ memory[a] = a - opts.base
            /\ pc \in {"read", "wait", "compare"}
               /\ a - opts.base \in 0 .. opts.nbytes - 1
                 => memory[a] # Old

\* The speed test exits with 0 only after ntimes reads, each of which brought
\* the whole pattern back: a reply that is too short, wrong or missing never
\* counts, although the buffer still holds the data of the read before.
SuccessMeansRead ==
    pc = "done" /\ exit = 0 /\ tool = "spwrmap_speedtest" =>
        fresh = opts.ntimes /\ Len(lat) = opts.ntimes /\ buffer = Pattern

\* Neither main returns with its loop thread joinable, which would end the
\* process in std::terminate.
LoopJoined == pc = "done" => loop \in {"none", "joined"}

\* The five numbers printed are in order, half of the latencies lie on either
\* side of the median, and they are those of the mirrored latencies, mirrored:
\* the two halves are cut alike.
SummaryRight ==
    stats # None =>
        LET top    == stats.max
            mirror == Quartiles([i \in DOMAIN lat |-> top - lat[i]])
            Few(S) == 2 * Cardinality(S) <= Len(lat)
        IN  /\ stats.min <= stats.q1 /\ stats.q1 <= stats.median
            /\ stats.median <= stats.q3 /\ stats.q3 <= stats.max
            /\ Few({i \in DOMAIN lat : 2 * lat[i] < stats.median})
            /\ Few({i \in DOMAIN lat : 2 * lat[i] > stats.median})
            /\ stats.q1 + mirror.q3 = 2 * top
            /\ stats.q3 + mirror.q1 = 2 * top
            /\ stats.median + mirror.median = 2 * top

\* Both mains return, whatever fails, unless they wait for a read that is
\* never answered: future.wait() has no timeout.
Returns == pc # "wait" ~> pc \in {"wait", "done"}

=============================================================================
