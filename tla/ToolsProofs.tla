----------------------------- MODULE ToolsProofs -----------------------------
(***************************************************************************)
(* Proofs about the command line tools, for an address space, chunks and   *)
(* counts of any size: what the speed test writes, what its exit code      *)
(* means, that no loop thread is left behind, and that the statistics it   *)
(* prints are right.                                                       *)
(***************************************************************************)
EXTENDS Tools, FiniteSetTheorems, WellFoundedInduction, TLAPS

\* The speed test writes and reads only in a range that fits the address
\* space, and reads only once all is written.
Progress ==
    /\ pc \in {"check", "connect"} => off = 0
    /\ pc = "operate" => tool = "spwrmap"
    /\ pc \in {"write", "read", "wait", "compare", "giveUp"} =>
         tool = "spwrmap_speedtest"
    /\ tool = "spwrmap_speedtest" /\ pc \notin {"check", "done"} =>
         opts.base + opts.nbytes <= MemSize
    /\ pc \in {"read", "wait", "compare"} => off >= opts.nbytes

\* The bytes before off are written.
Written ==
    pc \in {"write", "read", "wait", "compare"} =>
        \A a \in Addresses :
            a - opts.base \in 0 .. opts.nbytes - 1 /\ a - opts.base < off
                => memory[a] # Old

\* As many latencies as reads that brought the pattern back
Counted ==
    /\ Len(lat) <= opts.ntimes
    /\ pc \in {"check", "connect", "operate", "write"} =>
         fresh = 0 /\ lat = <<>>
    /\ pc \in {"read", "wait"} => fresh = Len(lat)
    /\ pc \in {"wait", "compare"} => Len(lat) < opts.ntimes
    /\ pc = "compare" => fresh = Len(lat) + 1
    /\ pc = "read" /\ Len(lat) > 0 => buffer = Pattern
    /\ tool = "spwrmap_speedtest" /\ pc \in {"shutdown", "join"} /\ exit = None =>
         fresh = opts.ntimes /\ Len(lat) = opts.ntimes /\ buffer = Pattern

\* The loop thread exists from connect to join, and only join returns 0.
Threads ==
    /\ pc # "done" => exit \in {None, 1}
    /\ pc \in {"check", "connect"} => loop = "none"
    /\ pc \notin {"check", "connect", "done"} => loop \in {"running", "done"}

\* The inductive invariant
TInv ==
    /\ TypeOK
    /\ Progress
    /\ Written
    /\ Counted
    /\ Threads
    /\ PatternExact
    /\ SuccessMeansRead
    /\ LoopJoined

\* The smaller of two numbers
LEMMA MinPair ==
    ASSUME NEW a \in Int, NEW b \in Int
    PROVE  Min({a, b}) = IF a <= b THEN a ELSE b
BY DEF Min

\* The remainder of a number less than the divisor away from 0
LEMMA SmallMod ==
    ASSUME NEW m \in Nat \ {0}, NEW x \in Int
    PROVE  /\ x \in 0 .. m - 1 => x % m = x
           /\ x \in -m .. -1 => x % m = x + m
           /\ x % m \in 0 .. m - 1
BY SMTT(20)

\* The types of the options
LEMMA OptsTyped ==
    ASSUME TypeOK
    PROVE  /\ opts.base \in Nat /\ opts.base <= MemSize - 1
           /\ opts.nbytes \in Nat /\ opts.nbytes >= 1
           /\ opts.ntimes \in Nat /\ opts.ntimes >= 1
           /\ off \in Nat /\ fresh \in Nat /\ Len(lat) \in Nat
           /\ MemSize \in Nat /\ ChunkSize \in Nat /\ ChunkSize >= 1
BY ToolsAssumption DEF TypeOK, Addresses

\* The target stores a chunk of the pattern where it belongs and touches
\* nothing else, as long as the range fits the address space.
LEMMA ChunkStored ==
    ASSUME TypeOK, off < opts.nbytes, opts.base + opts.nbytes <= MemSize,
           NEW a \in Addresses
    PROVE  /\ Chunk \in 1 .. ChunkSize /\ off + Chunk <= opts.nbytes
           /\ off + Chunk = opts.nbytes \/ Chunk = ChunkSize
           /\ a - opts.base \in off .. off + Chunk - 1 => Stored[a] = a - opts.base
           /\ a - opts.base \notin off .. off + Chunk - 1 => Stored[a] = memory[a]
<1> DEFINE b == opts.base
           n == opts.nbytes
           Offset == (a - b) % MemSize
<1>1. /\ b \in Nat /\ b <= MemSize - 1 /\ n \in Nat /\ n >= 1 /\ off \in Nat
      /\ MemSize \in Nat /\ ChunkSize \in Nat /\ ChunkSize >= 1
      /\ off < n /\ b + n <= MemSize
  BY OptsTyped
<1>2. a \in Nat /\ a <= MemSize - 1
  BY <1>1 DEF Addresses
<1> HIDE DEF b, n
<1>3. /\ Chunk \in 1 .. ChunkSize /\ off + Chunk <= n
      /\ off + Chunk = n \/ Chunk = ChunkSize
  <2>1. Chunk = IF ChunkSize <= n - off THEN ChunkSize ELSE n - off
    BY <1>1, MinPair DEF Chunk, n
  <2> QED
    BY <1>1, <2>1
<1>4. Stored[a] = IF Offset \in off .. off + Chunk - 1 THEN Offset ELSE memory[a]
  BY DEF Stored, b
<1> HIDE DEF Offset
<1>5. Offset \in off .. off + Chunk - 1 <=> a - b \in off .. off + Chunk - 1
  <2>1. CASE a >= b
    <3>1. a - b \in 0 .. MemSize - 1
      BY <1>1, <1>2, <2>1
    <3>2. Offset = a - b
      <4>1. MemSize \in Nat \ {0} /\ a - b \in Int
        BY <1>1, <1>2
      <4> QED
        BY Zenon, <3>1, <4>1, SmallMod DEF Offset
    <3> QED
      BY <3>2
  <2>2. CASE a < b
    <3>1. a - b \in -MemSize .. -1
      BY <1>1, <1>2, <2>2
    <3>2. Offset = a - b + MemSize
      BY <1>1, <3>1, SmallMod DEF Offset
    <3>3. Offset >= n
      BY <1>1, <1>2, <3>2
    <3> QED
      BY <1>1, <1>2, <1>3, <2>2, <3>2, <3>3
  <2> QED
    BY <1>1, <1>2, <2>1, <2>2
<1>6. a - b \in off .. off + Chunk - 1 => Offset = a - b
  <2> SUFFICES ASSUME a - b \in off .. off + Chunk - 1
               PROVE  Offset = a - b
    OBVIOUS
  <2>1. a - b \in 0 .. MemSize - 1
    BY <1>1, <1>2, <1>3
  <2> QED
    BY <1>1, <2>1, SmallMod DEF Offset
<1> QED
  BY <1>3, <1>4, <1>5, <1>6 DEF b, n

\* Data of the expected length fills the buffer exactly.
LEMMA ReturnedLength ==
    ASSUME TypeOK, NEW data \in Returned, Len(data) = opts.nbytes
    PROVE  DOMAIN data = 1 .. opts.nbytes
<1> DEFINE m == opts.nbytes % LenRange
           S == {memory[a] : a \in Addresses} \union {Damaged}
           right == [i \in 1 .. m |-> memory[(opts.base + i - 1) % MemSize]]
<1>1. m \in Nat
  <2>1. LenRange \in Nat \ {0} /\ opts.nbytes \in Int
    BY OptsTyped, ToolsAssumption
  <2>2. m \in 0 .. LenRange - 1
    BY Zenon, <2>1, SmallMod
  <2> QED
    BY <2>1, <2>2
<1>2. right \in [1 .. m -> S]
  <2>1. \A i \in 1 .. m : (opts.base + i - 1) % MemSize \in Addresses
    <3> SUFFICES ASSUME NEW i \in 1 .. m
                 PROVE  (opts.base + i - 1) % MemSize \in Addresses
      OBVIOUS
    <3>1. MemSize \in Nat \ {0} /\ opts.base + i - 1 \in Int
      BY <1>1, OptsTyped, ToolsAssumption
    <3> QED
      BY Zenon, <3>1, SmallMod DEF Addresses
  <2> QED
    BY <2>1
<1>3. data \in {right, <<>>} \union {[right EXCEPT ![i] = Damaged] : i \in DOMAIN right}
  BY DEF Returned
<1>4. Damaged \in S
  OBVIOUS
<1> HIDE DEF S, right, m
<1>5. data \in Seq(S)
  <2>1. \A f \in [1 .. m -> S] : f \in Seq(S)
    BY <1>1
  <2>2. \A i \in DOMAIN right : [right EXCEPT ![i] = Damaged] \in [1 .. m -> S]
    BY <1>2, <1>4
  <2>3. <<>> \in Seq(S)
    OBVIOUS
  <2> QED
    BY Zenon, <1>2, <1>3, <2>1, <2>2, <2>3
<1> QED
  BY <1>5

-----------------------------------------------------------------------------

\* It holds when main starts.
LEMMA InitTInv == Init => TInv
<1> SUFFICES ASSUME Init
             PROVE  TInv
  OBVIOUS
<1>1. TypeOK
  BY ToolsAssumption DEF Init, TypeOK, Addresses
<1>2. Progress /\ Threads /\ LoopJoined /\ SuccessMeansRead /\ Written
  BY DEF Init, Progress, Threads, LoopJoined, SuccessMeansRead, Written
<1>3. Counted
  BY <1>1, OptsTyped DEF Init, Counted
<1>4. PatternExact
  BY DEF Init, PatternExact
<1> QED
  BY <1>1, <1>2, <1>3, <1>4 DEF TInv

\* A step of main other than a write leaves what is written as it is.
LEMMA SameMemory ==
    ASSUME TInv, UNCHANGED <<tool, opts, memory>>,
           pc' \in {"read", "wait", "compare"} => pc \in {"read", "wait", "compare"}
    PROVE  PatternExact'
BY DEF TInv, PatternExact

\* Every step of main, of the loop thread and of the connection keeps it.
LEMMA StepTInv == TInv /\ [Next]_vars => TInv'
<1> SUFFICES ASSUME TInv, [Next]_vars
             PROVE  TInv'
  OBVIOUS
<1> USE ToolsAssumption
<1>0. TypeOK /\ Progress /\ Written /\ Counted /\ Threads /\ PatternExact
      /\ SuccessMeansRead /\ LoopJoined
  BY DEF TInv
<1>1. CASE CheckRange
  <2>1. TypeOK'
    BY <1>0, <1>1 DEF CheckRange, Goto, Return, TypeOK
  <2>2. Progress' /\ Threads' /\ LoopJoined'
    BY <1>0, <1>1 DEF CheckRange, Goto, Return, Progress, Threads, LoopJoined, TypeOK, RangeFits
  <2>3. Written'
    BY <1>0, <1>1 DEF CheckRange, Goto, Return, Written
  <2>4. Counted' /\ SuccessMeansRead'
    BY <1>0, <1>1, OptsTyped DEF CheckRange, Goto, Return, Counted, SuccessMeansRead, Threads, Pattern
  <2>5. PatternExact'
    BY <1>1, SameMemory DEF CheckRange, Goto, Return
  <2> QED
    BY <2>1, <2>2, <2>3, <2>4, <2>5 DEF TInv
<1>2. CASE Connect
  <2>1. TypeOK'
    BY <1>0, <1>2 DEF Connect, Goto, Return, TypeOK
  <2>2. Progress' /\ Threads' /\ LoopJoined'
    BY <1>0, <1>2 DEF Connect, Goto, Return, Progress, Threads, LoopJoined, TypeOK
  <2>3. Written'
    BY <1>0, <1>2 DEF Connect, Goto, Return, Written, Progress
  <2>4. Counted' /\ SuccessMeansRead'
    BY <1>0, <1>2, OptsTyped DEF Connect, Goto, Return, Counted, SuccessMeansRead, Threads, Pattern
  <2>5. PatternExact'
    BY <1>2, SameMemory DEF Connect, Goto, Return
  <2> QED
    BY <2>1, <2>2, <2>3, <2>4, <2>5 DEF TInv
<1>3. CASE Operate
  <2>1. TypeOK'
    BY <1>0, <1>3 DEF Operate, Goto, TypeOK
  <2>2. Progress' /\ Threads' /\ LoopJoined'
    BY <1>0, <1>3 DEF Operate, Goto, Progress, Threads, LoopJoined, TypeOK
  <2>3. Written'
    BY <1>0, <1>3 DEF Operate, Goto, Written
  <2>4. Counted' /\ SuccessMeansRead'
    BY <1>0, <1>3, OptsTyped DEF Operate, Goto, Counted, SuccessMeansRead, Progress, Pattern
  <2>5. PatternExact'
    BY <1>3, SameMemory DEF Operate, Goto
  <2> QED
    BY <2>1, <2>2, <2>3, <2>4, <2>5 DEF TInv
<1>4. CASE Read
  <2>1. TypeOK'
    BY <1>0, <1>4 DEF Read, Goto, TypeOK
  <2>2. Progress' /\ Threads' /\ LoopJoined'
    BY <1>0, <1>4 DEF Read, Goto, Progress, Threads, LoopJoined, TypeOK
  <2>3. Written'
    BY <1>0, <1>4 DEF Read, Goto, Written
  <2>4. Counted' /\ SuccessMeansRead'
    BY <1>0, <1>4, OptsTyped DEF Read, Goto, Counted, SuccessMeansRead, Threads, Pattern
  <2>5. PatternExact'
    BY <1>4, SameMemory DEF Read, Goto
  <2> QED
    BY <2>1, <2>2, <2>3, <2>4, <2>5 DEF TInv
<1>5. CASE Report
  <2>1. TypeOK'
    BY <1>0, <1>5 DEF Report, Goto, TypeOK
  <2>2. Progress' /\ Threads' /\ LoopJoined'
    BY <1>0, <1>5 DEF Report, Goto, Progress, Threads, LoopJoined, TypeOK
  <2>3. Written'
    BY <1>0, <1>5 DEF Report, Goto, Written
  <2>4. Counted' /\ SuccessMeansRead'
    BY <1>0, <1>5, OptsTyped DEF Report, Goto, Counted, SuccessMeansRead, Threads, Pattern
  <2>5. PatternExact'
    BY <1>5, SameMemory DEF Report, Goto
  <2> QED
    BY <2>1, <2>2, <2>3, <2>4, <2>5 DEF TInv
<1>6. CASE GiveUp
  <2>1. TypeOK'
    BY <1>0, <1>6 DEF GiveUp, Goto, TypeOK
  <2>2. Progress' /\ Threads' /\ LoopJoined'
    BY <1>0, <1>6 DEF GiveUp, Goto, Progress, Threads, LoopJoined, TypeOK
  <2>3. Written'
    BY <1>0, <1>6 DEF GiveUp, Goto, Written
  <2>4. Counted' /\ SuccessMeansRead'
    BY <1>0, <1>6, OptsTyped DEF GiveUp, Goto, Counted, SuccessMeansRead, Threads, Pattern
  <2>5. PatternExact'
    BY <1>6, SameMemory DEF GiveUp, Goto
  <2> QED
    BY <2>1, <2>2, <2>3, <2>4, <2>5 DEF TInv
<1>7. CASE Shutdown
  <2>1. TypeOK'
    BY <1>0, <1>7 DEF Shutdown, Goto, TypeOK
  <2>2. Progress' /\ Threads' /\ LoopJoined'
    BY <1>0, <1>7 DEF Shutdown, Goto, Progress, Threads, LoopJoined, TypeOK
  <2>3. Written'
    BY <1>0, <1>7 DEF Shutdown, Goto, Written
  <2>4. Counted' /\ SuccessMeansRead'
    BY <1>0, <1>7, OptsTyped DEF Shutdown, Goto, Counted, SuccessMeansRead, Threads, Pattern
  <2>5. PatternExact'
    BY <1>7, SameMemory DEF Shutdown, Goto
  <2> QED
    BY <2>1, <2>2, <2>3, <2>4, <2>5 DEF TInv
<1>8. CASE Join
  <2>1. TypeOK'
    BY <1>0, <1>8 DEF Join, Goto, Return, TypeOK
  <2>2. Progress' /\ Threads' /\ LoopJoined'
    BY <1>0, <1>8 DEF Join, Goto, Return, Progress, Threads, LoopJoined, TypeOK
  <2>3. Written'
    BY <1>0, <1>8 DEF Join, Goto, Return, Written
  <2>4. Counted' /\ SuccessMeansRead'
    BY <1>0, <1>8, OptsTyped DEF Join, Goto, Return, Counted, SuccessMeansRead, Threads, Pattern
  <2>5. PatternExact'
    BY <1>8, SameMemory DEF Join, Goto, Return
  <2> QED
    BY <2>1, <2>2, <2>3, <2>4, <2>5 DEF TInv
<1>9. CASE ConnectionLost
  <2>1. TypeOK'
    BY <1>0, <1>9 DEF ConnectionLost, TypeOK
  <2>2. Progress' /\ Threads' /\ LoopJoined'
    BY <1>0, <1>9 DEF ConnectionLost, Progress, Threads, LoopJoined, TypeOK
  <2>3. Written'
    BY <1>0, <1>9 DEF ConnectionLost, Written
  <2>4. Counted' /\ SuccessMeansRead'
    BY <1>0, <1>9, OptsTyped DEF ConnectionLost, Counted, SuccessMeansRead, Threads, Pattern
  <2>5. PatternExact'
    BY <1>9, SameMemory DEF ConnectionLost
  <2> QED
    BY <2>1, <2>2, <2>3, <2>4, <2>5 DEF TInv
<1>10. CASE LoopReturns
  <2>1. TypeOK'
    BY <1>0, <1>10 DEF LoopReturns, TypeOK
  <2>2. Progress' /\ Threads' /\ LoopJoined'
    BY <1>0, <1>10 DEF LoopReturns, Progress, Threads, LoopJoined, TypeOK
  <2>3. Written'
    BY <1>0, <1>10 DEF LoopReturns, Written
  <2>4. Counted' /\ SuccessMeansRead'
    BY <1>0, <1>10, OptsTyped DEF LoopReturns, Counted, SuccessMeansRead, Threads, Pattern
  <2>5. PatternExact'
    BY <1>10, SameMemory DEF LoopReturns
  <2> QED
    BY <2>1, <2>2, <2>3, <2>4, <2>5 DEF TInv
<1>11. CASE WriteChunk
  <2>1. TypeOK'
    <3>1. DOMAIN Stored = Addresses
      BY DEF Stored
    <3>2. off' \in 0 .. opts.nbytes + ChunkSize - 1
      BY <1>0, <1>11, OptsTyped DEF WriteChunk, TypeOK
    <3> QED
      BY <1>0, <1>11, <3>1, <3>2 DEF WriteChunk, Goto, TypeOK
  <2>2. Progress' /\ Threads' /\ LoopJoined'
    BY <1>0, <1>11 DEF WriteChunk, Goto, Progress, Threads, LoopJoined
  <2>3. Counted' /\ SuccessMeansRead'
    BY <1>0, <1>11 DEF WriteChunk, Goto, Counted, SuccessMeansRead
  <2>4. /\ off < opts.nbytes /\ opts.base + opts.nbytes <= MemSize
        /\ UNCHANGED <<tool, opts>> /\ pc' \notin {"read", "wait", "compare"}
        /\ memory' \in {memory, Stored} /\ tool = "spwrmap_speedtest"
    BY <1>0, <1>11 DEF WriteChunk, Goto, Progress
  <2>5. PatternExact'
    <3> SUFFICES ASSUME NEW a \in Addresses, memory'[a] # Old
                 PROVE  /\ a - opts.base \in 0 .. opts.nbytes - 1
                        /\ memory'[a] = a - opts.base
      BY <2>4 DEF PatternExact
    <3>1. CASE memory'[a] = memory[a]
      BY <1>0, <2>4, <3>1 DEF PatternExact
    <3>2. CASE memory'[a] # memory[a]
      <4>1. memory'[a] = Stored[a]
        BY <2>4, <3>2
      <4>2. a - opts.base \in off .. off + Chunk - 1 /\ Stored[a] = a - opts.base
        BY <1>0, <2>4, <3>2, <4>1, ChunkStored
      <4>3. off + Chunk <= opts.nbytes /\ Chunk \in Nat
        BY <1>0, <2>4, ChunkStored, OptsTyped
      <4> QED
        BY <1>0, <4>1, <4>2, <4>3, OptsTyped, SMTT(30) DEF Addresses
    <3> QED
      BY <3>1, <3>2
  <2>6. Written'
    <3> SUFFICES ASSUME pc' = "write", NEW a \in Addresses,
                        a - opts.base \in 0 .. opts.nbytes - 1, a - opts.base < off'
                 PROVE  memory'[a] # Old
      BY <2>4, <1>0, <1>11 DEF Written, WriteChunk, Goto
    <3>1. memory' = Stored /\ off' = off + ChunkSize
      BY <1>11 DEF WriteChunk, Goto
    <3>2. CASE a - opts.base \in off .. off + Chunk - 1
      <4>1. Stored[a] = a - opts.base
        BY <1>0, <2>4, <3>2, ChunkStored
      <4> QED
        BY <3>1, <4>1 DEF Old
    <3>3. CASE a - opts.base \notin off .. off + Chunk - 1
      <4>1. Stored[a] = memory[a] /\ Chunk \in Nat
            /\ (off + Chunk = opts.nbytes \/ Chunk = ChunkSize)
        BY <1>0, <2>4, <3>3, ChunkStored, OptsTyped, SMTT(30)
      <4>2. a - opts.base < off
        <5> DEFINE x == a - opts.base
        <5>1. /\ x \in 0 .. opts.nbytes - 1 /\ x < off + ChunkSize
              /\ x \notin off .. off + Chunk - 1
          BY <3>1, <3>3
        <5> HIDE DEF x
        <5>2. x < off
          BY <1>0, <4>1, <5>1, OptsTyped, SMTT(30)
        <5> QED
          BY <5>2 DEF x
      <4>3. memory[a] # Old
        BY <1>0, <1>11, <4>2 DEF Written, WriteChunk
      <4> QED
        BY <3>1, <4>1, <4>3
    <3> QED
      BY <3>2, <3>3
  <2> QED
    BY <2>1, <2>2, <2>3, <2>5, <2>6 DEF TInv
<1>12. CASE WritesDone
  <2>1. TypeOK'
    BY <1>0, <1>12 DEF WritesDone, Goto, TypeOK
  <2>2. Progress' /\ Threads' /\ LoopJoined'
    BY <1>0, <1>12 DEF WritesDone, Goto, Progress, Threads, LoopJoined
  <2>3. Written'
    BY <1>0, <1>12 DEF WritesDone, Goto, Written
  <2>4. Counted' /\ SuccessMeansRead'
    <3>1. Len(<<>>) = 0
      OBVIOUS
    <3> QED
      BY <1>0, <1>12, <3>1 DEF WritesDone, Goto, Counted, SuccessMeansRead
  <2>5. PatternExact'
    <3>1. ASSUME NEW a \in Addresses, a - opts.base \in 0 .. opts.nbytes - 1
          PROVE  memory[a] # Old
      BY <1>0, <1>12, <3>1, OptsTyped DEF WritesDone, Written
    <3> QED
      BY <1>0, <1>12, <3>1 DEF WritesDone, PatternExact
  <2> QED
    BY <2>1, <2>2, <2>3, <2>4, <2>5 DEF TInv
<1>13. CASE Answered
  <2>1. PICK data \in Returned : Callback(data)
    BY <1>13 DEF Answered
  <2>2. /\ pc = "wait" /\ UNCHANGED <<tool, opts, off, memory, lat, stats, link, loop, exit>>
        /\ \/ /\ pc' = "compare" /\ fresh' = fresh + 1
              /\ buffer' = data /\ Len(data) = opts.nbytes
           \/ pc' = "giveUp" /\ UNCHANGED <<buffer, fresh>>
    BY <1>13, <2>1 DEF Answered, Callback, Goto
  <2>3. TypeOK'
    <3>1. DOMAIN buffer' = 1 .. opts.nbytes
      BY <1>0, <2>2, ReturnedLength DEF TypeOK
    <3>2. fresh' \in 0 .. opts.ntimes
      BY <1>0, <2>2, OptsTyped DEF Counted, TypeOK
    <3> QED
      BY <1>0, <2>2, <3>1, <3>2 DEF TypeOK
  <2>4. Progress' /\ Threads' /\ LoopJoined'
    BY <1>0, <2>2 DEF Progress, Threads, LoopJoined
  <2>5. Written'
    BY <1>0, <2>2 DEF Written
  <2>6. Counted' /\ SuccessMeansRead'
    BY <1>0, <2>2 DEF Counted, SuccessMeansRead
  <2>7. PatternExact'
    BY <2>2, SameMemory
  <2> QED
    BY <2>3, <2>4, <2>5, <2>6, <2>7 DEF TInv
<1>14. CASE Compare
  <2>1. /\ pc = "compare" /\ UNCHANGED <<tool, opts, off, memory, buffer, fresh, stats, link, loop, exit>>
        /\ \/ /\ buffer = Pattern /\ pc' = "read"
              /\ \E d \in Latencies : lat' = Append(lat, d)
           \/ pc' = "giveUp" /\ UNCHANGED lat
    BY <1>14 DEF Compare, Goto
  <2>2. lat \in Seq(Latencies)
    BY <1>0 DEF TypeOK
  <2>3. lat' \in Seq(Latencies) /\ (pc' = "read" => Len(lat') = Len(lat) + 1)
    BY <2>1, <2>2
  <2>4. TypeOK'
    BY <1>0, <2>1, <2>3 DEF TypeOK
  <2>5. Progress' /\ Threads' /\ LoopJoined'
    BY <1>0, <2>1 DEF Progress, Threads, LoopJoined
  <2>6. Written'
    BY <1>0, <2>1 DEF Written
  <2>7. Counted' /\ SuccessMeansRead'
    <3>1. Pattern' = Pattern
      BY <2>1 DEF Pattern
    <3> QED
      BY <1>0, <2>1, <2>3, <3>1, OptsTyped DEF Counted, SuccessMeansRead
  <2>8. PatternExact'
    BY <2>1, SameMemory
  <2> QED
    BY <2>4, <2>5, <2>6, <2>7, <2>8 DEF TInv
<1>15. CASE UNCHANGED vars
  BY <1>0, <1>15, SMTT(60)
  DEF vars, TInv, TypeOK, Progress, Written, Counted, Threads, PatternExact,
      SuccessMeansRead, LoopJoined, Pattern
<1> QED
  BY <1>1, <1>2, <1>3, <1>4, <1>5, <1>6, <1>7, <1>8, <1>9, <1>10, <1>11, <1>12, <1>13, <1>14,
     <1>15
  DEF Next, MainStep, Stopped

\* The bookkeeping of both tools is well typed, whatever fails.
THEOREM ToolsTypeCorrect == Spec => []TypeOK
<1>1. TInv => TypeOK
  BY DEF TInv
<1> QED
  BY <1>1, InitTInv, StepTInv, PTL DEF Spec

\* Whatever the chunk size, the range and the failures, the speed test writes
\* its pattern exactly where it was asked to and, before it reads, everywhere
\* there.
THEOREM WritesPattern == Spec => []PatternExact
<1>1. TInv => PatternExact
  BY DEF TInv
<1> QED
  BY <1>1, InitTInv, StepTInv, PTL DEF Spec

\* For any number of bytes and reads, exit code 0 of the speed test means that
\* every read brought the pattern back.
THEOREM SuccessIsRead == Spec => []SuccessMeansRead
<1>1. TInv => SuccessMeansRead
  BY DEF TInv
<1> QED
  BY <1>1, InitTInv, StepTInv, PTL DEF Spec

\* No path through either main leaves the loop thread behind.
THEOREM LoopIsJoined == Spec => []LoopJoined
<1>1. TInv => LoopJoined
  BY DEF TInv
<1> QED
  BY <1>1, InitTInv, StepTInv, PTL DEF Spec

-----------------------------------------------------------------------------
(* The statistics.                                                         *)

\* Every set of naturals that is not empty has a least element.
LEMMA NatLeast ==
    ASSUME NEW T, T \subseteq Nat, T # {}
    PROVE  \E x \in T : \A y \in T : x <= y
<1> DEFINE R == OpToRel(<, Nat)
<1>1. \A x, y \in Nat : <<y, x>> \in R <=> y < x
  BY DEF OpToRel
<1>2. IsWellFoundedOn(R, Nat)
  BY Zenon, NatLessThanWellFounded
<1> HIDE DEF R
<1>3. PICK x \in T : \A y \in T : ~(<<y, x>> \in R)
  BY Zenon, <1>2, WFMin
<1>4. \A y \in T : ~(y < x)
  BY Zenon, <1>1, <1>3
<1> QED
  BY <1>3, <1>4

\* The places of the values below v, and of those above it
Below(xs, v) == {i \in DOMAIN xs : xs[i] < v}
Above(xs, v) == {i \in DOMAIN xs : v < xs[i]}

\* v is the k-th of the values in order.
IsNth(xs, k, v) ==
    /\ v \in Range(xs)
    /\ Cardinality(Below(xs, v)) < k
    /\ Cardinality(AtMost(xs, v)) >= k

\* Places are counted by numbers up to the length.
LEMMA Places ==
    ASSUME NEW xs \in Seq(Int), NEW S, S \subseteq DOMAIN xs
    PROVE  IsFiniteSet(S) /\ Cardinality(S) \in Nat
           /\ Cardinality(S) <= Len(xs)
<1>1. DOMAIN xs = 1 .. Len(xs) /\ Len(xs) \in Nat
  OBVIOUS
<1>2. IsFiniteSet(1 .. Len(xs)) /\ Cardinality(1 .. Len(xs)) = Len(xs)
  <2>1. 1 \in Int /\ Len(xs) \in Int
    BY <1>1
  <2>2. /\ IsFiniteSet(1 .. Len(xs))
        /\ Cardinality(1 .. Len(xs)) =
             IF 1 > Len(xs) THEN 0 ELSE Len(xs) - 1 + 1
    BY <2>1, FS_Interval
  <2> QED
    BY <1>1, <2>2
<1>3. S \in SUBSET (1 .. Len(xs))
  BY <1>1
<1>4. IsFiniteSet(S) /\ Cardinality(S) <= Cardinality(1 .. Len(xs))
  BY <1>2, <1>3, FS_Subset
<1>5. Cardinality(S) \in Nat
  BY <1>4, FS_CardinalityType
<1> QED
  BY <1>2, <1>4, <1>5

\* More places are not fewer.
LEMMA MorePlaces ==
    ASSUME NEW xs \in Seq(Int), NEW S, NEW T, S \subseteq T, T \subseteq DOMAIN xs
    PROVE  Cardinality(S) <= Cardinality(T)
<1>1. IsFiniteSet(T) /\ S \in SUBSET T
  BY Places
<1> QED
  BY <1>1, FS_Subset

\* The places above v are the others than those up to it.
LEMMA PlacesAbove ==
    ASSUME NEW xs \in Seq(Int), NEW v \in Int
    PROVE  Cardinality(Above(xs, v)) + Cardinality(AtMost(xs, v)) = Len(xs)
<1> DEFINE D == DOMAIN xs
           A == AtMost(xs, v)
<1>1. D = 1 .. Len(xs) /\ Len(xs) \in Nat /\ \A i \in D : xs[i] \in Int
  OBVIOUS
<1>2. IsFiniteSet(D) /\ Cardinality(D) = Len(xs)
  <2>1. /\ IsFiniteSet(1 .. Len(xs))
        /\ Cardinality(1 .. Len(xs)) =
             IF 1 > Len(xs) THEN 0 ELSE Len(xs) - 1 + 1
    BY <1>1, FS_Interval
  <2> QED
    BY <1>1, <2>1
<1>3. A \subseteq D /\ Above(xs, v) \subseteq D /\ Above(xs, v) = D \ A
      /\ D \cap A = A
  BY <1>1 DEF Above, AtMost
<1>4. IsFiniteSet(A) /\ Cardinality(A) \in Nat
      /\ Cardinality(Above(xs, v)) \in Nat
  BY <1>3, Places
<1>5. Cardinality(D \ A) = Cardinality(D) - Cardinality(D \cap A)
  BY Zenon, <1>2, <1>4, FS_Difference
<1>6. Cardinality(Above(xs, v)) = Len(xs) - Cardinality(A)
  BY Zenon, <1>2, <1>3, <1>5
<1> HIDE DEF A
<1>7. Cardinality(Above(xs, v)) + Cardinality(A) = Len(xs)
  BY <1>1, <1>4, <1>6
<1> QED
  BY Zenon, <1>7 DEF A

\* A value has fewer below it than up to it, and a greater value has at least
\* as many below it.
LEMMA PlacesOrdered ==
    ASSUME NEW xs \in Seq(Int), NEW v \in Int
    PROVE  /\ Cardinality(Below(xs, v)) \in Nat
           /\ Cardinality(AtMost(xs, v)) \in Nat
           /\ v \in Range(xs) =>
                Cardinality(Below(xs, v)) < Cardinality(AtMost(xs, v))
           /\ \A w \in Int : v < w =>
                Cardinality(AtMost(xs, v)) <= Cardinality(Below(xs, w))
<1> DEFINE B == Below(xs, v)
           A == AtMost(xs, v)
<1>1. DOMAIN xs = 1 .. Len(xs) /\ Len(xs) \in Nat
      /\ \A i \in DOMAIN xs : xs[i] \in Int
  OBVIOUS
<1>2. B \subseteq A /\ A \subseteq DOMAIN xs /\ B \subseteq DOMAIN xs
  BY <1>1 DEF Below, AtMost
<1>3. IsFiniteSet(A) /\ Cardinality(A) \in Nat /\ Cardinality(B) \in Nat
  BY Zenon, <1>2, Places
<1>4. ASSUME v \in Range(xs)
      PROVE  Cardinality(B) < Cardinality(A)
  <2>1. PICK i \in DOMAIN xs : xs[i] = v
    BY <1>4 DEF Range
  <2>2. i \in A /\ i \notin B
    BY <1>1, <2>1 DEF Below, AtMost
  <2>3. B \in SUBSET A /\ B # A
    BY Zenon, <1>2, <2>2
  <2>4. Cardinality(B) <= Cardinality(A)
        /\ (Cardinality(B) = Cardinality(A) => B = A)
    BY Zenon, <1>3, <2>3, FS_Subset
  <2> HIDE DEF A, B
  <2> QED
    BY <1>3, <2>3, <2>4
<1>5. ASSUME NEW w \in Int, v < w
      PROVE  Cardinality(A) <= Cardinality(Below(xs, w))
  <2>1. A \subseteq Below(xs, w) /\ Below(xs, w) \subseteq DOMAIN xs
    BY <1>1, <1>5 DEF Below, AtMost
  <2> QED
    BY Zenon, <2>1, MorePlaces
<1> QED
  BY Zenon, <1>3, <1>4, <1>5

\* There is one k-th value at most.
LEMMA NthUnique ==
    ASSUME NEW xs \in Seq(Int), NEW k \in Nat, NEW v \in Int, NEW w \in Int,
           IsNth(xs, k, v), IsNth(xs, k, w)
    PROVE  v = w
<1>1. ASSUME NEW a \in Int, NEW b \in Int, IsNth(xs, k, a), IsNth(xs, k, b),
             a < b
      PROVE  FALSE
  <2>1. Cardinality(AtMost(xs, a)) <= Cardinality(Below(xs, b))
        /\ Cardinality(AtMost(xs, a)) \in Nat
        /\ Cardinality(Below(xs, b)) \in Nat
    BY <1>1, PlacesOrdered
  <2>2. Cardinality(Below(xs, b)) < k /\ Cardinality(AtMost(xs, a)) >= k
    BY Zenon, <1>1 DEF IsNth
  <2> QED
    BY <2>1, <2>2
<1>2. ~(v < w) /\ ~(w < v)
  BY Zenon, <1>1
<1> QED
  BY <1>2

\* Of some of the values one is the least and one the greatest.
LEMMA Extremes ==
    ASSUME NEW xs \in Seq(Int), NEW W, W \subseteq Range(xs), W # {}
    PROVE  /\ \E a \in W : \A v \in W : a <= v
           /\ \E b \in W : \A v \in W : v <= b
<1> DEFINE C(v) == Cardinality(AtMost(xs, v))
           L == Len(xs)
<1>1. Range(xs) \subseteq Int /\ L \in Nat
  BY DEF Range
<1>2. \A v \in Int : C(v) \in Nat /\ C(v) <= L
  <2>1. \A v \in Int : AtMost(xs, v) \subseteq DOMAIN xs
    BY DEF AtMost
  <2> QED
    BY Zenon, <2>1, Places
<1>3. \A v, w \in Range(xs) : v < w => C(v) < C(w)
  <2> SUFFICES ASSUME NEW v \in Range(xs), NEW w \in Range(xs), v < w
               PROVE  C(v) < C(w)
    OBVIOUS
  <2>1. v \in Int /\ w \in Int
    BY <1>1
  <2>2. C(v) <= Cardinality(Below(xs, w)) /\ Cardinality(Below(xs, w)) < C(w)
        /\ Cardinality(Below(xs, w)) \in Nat
    BY Zenon, <2>1, PlacesOrdered
  <2>3. C(v) \in Nat /\ C(w) \in Nat
    BY Zenon, <2>1, <1>2
  <2> HIDE DEF C
  <2> QED
    BY <2>2, <2>3
<1> HIDE DEF C, L
<1>4. \E a \in W : \A v \in W : a <= v
  <2> DEFINE T == {C(v) : v \in W}
  <2>1. T \subseteq Nat /\ T # {}
    BY Zenon, <1>1, <1>2
  <2>2. PICK x \in T : \A y \in T : x <= y
    BY Zenon, <2>1, NatLeast
  <2>3. PICK a \in W : x = C(a)
    BY <2>2
  <2>4. \A v \in W : C(a) <= C(v)
    BY <2>2, <2>3
  <2>5. ASSUME NEW v \in W, v < a PROVE FALSE
    <3>1. C(v) < C(a) /\ C(a) <= C(v)
      BY Zenon, <1>3, <2>4, <2>5
    <3>2. C(v) \in Nat /\ C(a) \in Nat
      BY <1>1, <1>2
    <3> QED
      BY <3>1, <3>2
  <2> QED
    BY <1>1, <2>5
<1>5. \E b \in W : \A v \in W : v <= b
  <2> DEFINE T == {L - C(v) : v \in W}
  <2>0. \A v \in W : C(v) \in Nat /\ L - C(v) \in Nat
    <3> SUFFICES ASSUME NEW v \in W PROVE C(v) \in Nat /\ L - C(v) \in Nat
      OBVIOUS
    <3>1. C(v) \in Nat /\ C(v) <= L
      BY <1>1, <1>2
    <3> QED
      BY <1>1, <3>1
  <2>1. T \subseteq Nat /\ T # {}
    BY <2>0
  <2>2. PICK x \in T : \A y \in T : x <= y
    BY Zenon, <2>1, NatLeast
  <2>3. PICK b \in W : x = L - C(b)
    BY <2>2
  <2>4. \A v \in W : L - C(b) <= L - C(v)
    BY <2>2, <2>3
  <2>5. ASSUME NEW v \in W, b < v PROVE FALSE
    <3>1. C(b) < C(v) /\ L - C(b) <= L - C(v)
      BY Zenon, <1>3, <2>4, <2>5
    <3>2. C(v) \in Nat /\ C(b) \in Nat
      BY <2>0
    <3> QED
      BY <1>1, <3>1, <3>2
  <2> QED
    BY <1>1, <2>5
<1> QED
  BY <1>4, <1>5

\* sort puts the k-th value in the k-th place.
LEMMA SortedNth ==
    ASSUME NEW xs \in Seq(Int), NEW k \in 1 .. Len(xs)
    PROVE  Sorted(xs)[k] \in Int /\ IsNth(xs, k, Sorted(xs)[k])
<1> DEFINE V == {v \in Range(xs) : Cardinality(AtMost(xs, v)) >= k}
           s == Min(V)
<1>1. DOMAIN xs = 1 .. Len(xs) /\ Len(xs) \in Nat /\ k \in Nat /\ k >= 1
      /\ k <= Len(xs) /\ \A i \in DOMAIN xs : xs[i] \in Int
  OBVIOUS
<1>2. Range(xs) \subseteq Int /\ \A i \in DOMAIN xs : xs[i] \in Range(xs)
  BY <1>1 DEF Range
<1>3. V # {}
  <2>1. Range(xs) # {}
    BY <1>1, <1>2
  <2>2. PICK m \in Range(xs) : \A v \in Range(xs) : v <= m
    BY Zenon, <2>1, Extremes
  <2>3. AtMost(xs, m) = DOMAIN xs
    BY Zenon, <1>2, <2>2 DEF AtMost
  <2>4. Cardinality(1 .. Len(xs)) =
          IF 1 > Len(xs) THEN 0 ELSE Len(xs) - 1 + 1
    BY <1>1, FS_Interval
  <2>5. Cardinality(AtMost(xs, m)) = Cardinality(1 .. Len(xs))
    BY Zenon, <1>1, <2>3
  <2>6. Cardinality(AtMost(xs, m)) >= k
    BY <1>1, <2>4, <2>5
  <2> QED
    BY <2>2, <2>6
<1>4. \E a \in V : \A v \in V : a <= v
  BY Zenon, <1>3, Extremes
<1>5. s \in V /\ \A v \in V : s <= v
  <2> HIDE DEF V
  <2> QED
    BY <1>4 DEF Min
<1>6. Sorted(xs)[k] = s
  BY <1>1 DEF Sorted
<1>7. s \in Range(xs) /\ s \in Int /\ Cardinality(AtMost(xs, s)) >= k
  BY <1>2, <1>5
<1>8. ASSUME ~(Cardinality(Below(xs, s)) < k)
      PROVE  FALSE
  <2> DEFINE W == {v \in Range(xs) : v < s}
  <2>1. Cardinality(Below(xs, s)) \in Nat /\ Cardinality(Below(xs, s)) >= k
    <3>1. Cardinality(Below(xs, s)) \in Nat
      BY Zenon, <1>7, PlacesOrdered
    <3> HIDE DEF s
    <3> QED
      BY <1>1, <1>8, <3>1
  <2>2. Below(xs, s) # {}
    <3>1. Cardinality({}) = 0
      BY FS_EmptySet
    <3> HIDE DEF s
    <3>2. ~(0 >= k)
      BY <1>1
    <3> QED
      BY Zenon, <2>1, <3>1, <3>2
  <2>3. W # {}
    BY Zenon, <1>2, <2>2 DEF Below
  <2>4. PICK b \in W : \A v \in W : v <= b
    BY Zenon, <2>3, Extremes
  <2>5. Below(xs, s) \subseteq AtMost(xs, b) /\ AtMost(xs, b) \subseteq DOMAIN xs
    BY <1>2, <2>4 DEF Below, AtMost
  <2>6. Cardinality(Below(xs, s)) <= Cardinality(AtMost(xs, b))
    BY Zenon, <2>5, MorePlaces
  <2>7. b \in Range(xs) /\ b < s /\ b \in Int
    BY <1>2, <2>4
  <2>8. Cardinality(AtMost(xs, b)) \in Nat
    BY Zenon, <2>7, PlacesOrdered
  <2>9. Cardinality(AtMost(xs, b)) >= k
    <3> HIDE DEF s
    <3> QED
      BY <1>1, <2>1, <2>6, <2>8
  <2>10. s <= b
    BY Zenon, <1>5, <2>7, <2>9
  <2> HIDE DEF s
  <2> QED
    BY <1>7, <2>7, <2>10
<1> HIDE DEF s
<1> QED
  BY Zenon, <1>6, <1>7, <1>8 DEF IsNth

\* What is sorted is as long as it was and in order.
LEMMA SortedOrder ==
    ASSUME NEW xs \in Seq(Int)
    PROVE  /\ Sorted(xs) \in Seq(Int) /\ Len(Sorted(xs)) = Len(xs)
           /\ \A i, j \in 1 .. Len(xs) :
                i <= j => Sorted(xs)[i] <= Sorted(xs)[j]
<1> DEFINE s == Sorted(xs)
           n == Len(xs)
<1>1. DOMAIN xs = 1 .. n /\ n \in Nat
  OBVIOUS
<1>2. \E f : s = [k \in 1 .. n |-> f[k]]
  <2>1. s = [k \in 1 .. n |->
               Min({v \in Range(xs) : Cardinality(AtMost(xs, v)) >= k})]
    BY Zenon, <1>1 DEF Sorted
  <2>2. s = [k \in 1 .. n |-> s[k]]
    BY Zenon, <2>1
  <2> QED
    BY Zenon, <2>2
<1>3. \A k \in 1 .. n : s[k] \in Int /\ IsNth(xs, k, s[k])
  BY Zenon, SortedNth
<1> HIDE DEF s
<1>4. s \in Seq(Int) /\ Len(s) = n
  <2>1. s \in [1 .. n -> Int]
    BY <1>2, <1>3
  <2> QED
    BY <1>1, <2>1
<1>5. ASSUME NEW i \in 1 .. n, NEW j \in 1 .. n, i <= j, s[j] < s[i]
      PROVE  FALSE
  <2>1. s[i] \in Int /\ s[j] \in Int
        /\ Cardinality(Below(xs, s[i])) < i
        /\ Cardinality(AtMost(xs, s[j])) >= j
    BY Zenon, <1>3 DEF IsNth
  <2>2. Cardinality(AtMost(xs, s[j])) <= Cardinality(Below(xs, s[i]))
        /\ Cardinality(AtMost(xs, s[j])) \in Nat
        /\ Cardinality(Below(xs, s[i])) \in Nat
    BY Zenon, <1>5, <2>1, PlacesOrdered
  <2> QED
    BY <1>1, <1>5, <2>1, <2>2
<1>6. \A i, j \in 1 .. n : i <= j => s[i] <= s[j]
  BY <1>3, <1>5
<1> QED
  BY <1>4, <1>6 DEF s

\* The values, mirrored at half of top
Mirrored(xs, top) == [i \in DOMAIN xs |-> top - xs[i]]

\* The k-th of the mirrored values is the mirrored k-th from the end.
LEMMA SortedMirrored ==
    ASSUME NEW xs \in Seq(Int), NEW top \in Int, NEW k \in 1 .. Len(xs)
    PROVE  /\ Mirrored(xs, top) \in Seq(Int)
           /\ Len(Mirrored(xs, top)) = Len(xs)
           /\ Sorted(Mirrored(xs, top))[k] = top - Sorted(xs)[Len(xs) + 1 - k]
<1> DEFINE n  == Len(xs)
           ys == Mirrored(xs, top)
           h  == n + 1 - k
           v  == Sorted(xs)[h]
<1>1. DOMAIN xs = 1 .. n /\ n \in Nat /\ k \in Nat /\ h \in 1 .. n /\ h \in Nat
      /\ \A i \in DOMAIN xs : xs[i] \in Int
  OBVIOUS
<1>2. ys \in Seq(Int) /\ Len(ys) = n /\ DOMAIN ys = DOMAIN xs
      /\ \A i \in DOMAIN xs : ys[i] = top - xs[i]
  BY <1>1 DEF Mirrored
<1>3. v \in Int /\ IsNth(xs, h, v)
  BY Zenon, <1>1, SortedNth
<1> HIDE DEF v, ys
<1>4. top - v \in Range(ys)
  <2>1. PICK i \in DOMAIN xs : v = xs[i]
    BY Zenon, <1>3 DEF IsNth, Range
  <2>2. ys[i] = top - v
    BY <1>2, <2>1
  <2> QED
    BY Zenon, <1>2, <2>1, <2>2 DEF Range
<1>5. ASSUME NEW i \in DOMAIN xs
      PROVE  (ys[i] < top - v <=> v < xs[i]) /\ (top - v < ys[i] <=> xs[i] < v)
  <2>1. xs[i] \in Int /\ ys[i] = top - xs[i]
    BY <1>1, <1>2
  <2> QED
    BY <1>3, <2>1
<1>6. Below(ys, top - v) = Above(xs, v)
  BY Zenon, <1>2, <1>5 DEF Below, Above
<1>7. Above(ys, top - v) = Below(xs, v)
  BY Zenon, <1>2, <1>5 DEF Below, Above
<1>8. Cardinality(Below(ys, top - v)) < k
  <2>1. Cardinality(Above(xs, v)) + Cardinality(AtMost(xs, v)) = n
    BY Zenon, <1>3, PlacesAbove
  <2>2. Cardinality(AtMost(xs, v)) \in Nat /\ Cardinality(AtMost(xs, v)) >= h
    BY Zenon, <1>3, PlacesOrdered DEF IsNth
  <2>3. Cardinality(Above(xs, v)) \in Nat
    <3>1. Above(xs, v) \subseteq DOMAIN xs
      BY DEF Above
    <3> QED
      BY Zenon, <3>1, Places
  <2>4. Cardinality(Above(xs, v)) < k
    BY <1>1, <2>1, <2>2, <2>3
  <2> QED
    BY Zenon, <1>6, <2>4
<1>9. Cardinality(AtMost(ys, top - v)) >= k
  <2>1. top - v \in Int
    BY <1>3
  <2>2. Cardinality(Above(ys, top - v)) + Cardinality(AtMost(ys, top - v)) = n
    BY Zenon, <1>2, <2>1, PlacesAbove
  <2>3. Cardinality(AtMost(ys, top - v)) \in Nat
    BY Zenon, <1>2, <2>1, PlacesOrdered
  <2>4. Cardinality(Below(xs, v)) \in Nat /\ Cardinality(Below(xs, v)) < h
    BY Zenon, <1>3, PlacesOrdered DEF IsNth
  <2>5. Cardinality(Below(xs, v)) + Cardinality(AtMost(ys, top - v)) = n
    BY Zenon, <1>7, <2>2
  <2> QED
    BY <1>1, <2>3, <2>4, <2>5
<1>10. IsNth(ys, k, top - v)
  BY Zenon, <1>4, <1>8, <1>9 DEF IsNth
<1>11. k \in 1 .. Len(ys)
  BY <1>2
<1>12. Sorted(ys)[k] \in Int /\ IsNth(ys, k, Sorted(ys)[k])
  BY Zenon, <1>2, <1>11, SortedNth
<1>13. top - v \in Int
  BY <1>3
<1>14. Sorted(ys)[k] = top - v
  BY Zenon, <1>1, <1>2, <1>10, <1>12, <1>13, NthUnique
<1> QED
  BY Zenon, <1>2, <1>14 DEF v, ys

\* The middle of a .. b
Mid(a, b) == (b - a + 1) \div 2

\* Where the middle is
LEMMA MidIs ==
    ASSUME NEW a \in Nat, NEW b \in Nat, a >= 1, a <= b
    PROVE  /\ Mid(a, b) \in Nat
           /\ (b - a + 1) % 2 = 1 => b - a = 2 * Mid(a, b)
           /\ (b - a + 1) % 2 # 1 => b - a + 1 = 2 * Mid(a, b) /\ Mid(a, b) >= 1
BY DEF Mid

\* The median of a part of a sequence, by the places in the sequence
LEMMA MedianPart ==
    ASSUME NEW s \in Seq(Int), NEW a \in 1 .. Len(s), NEW b \in 1 .. Len(s),
           a <= b
    PROVE  /\ SubSeq(s, a, b) # <<>>
           /\ (b - a + 1) % 2 = 1 =>
                Median2(SubSeq(s, a, b)) = 2 * s[a + Mid(a, b)]
           /\ (b - a + 1) % 2 # 1 =>
                Median2(SubSeq(s, a, b)) =
                  s[a - 1 + Mid(a, b)] + s[a + Mid(a, b)]
<1> DEFINE r == SubSeq(s, a, b)
           m == b - a + 1
           h == Mid(a, b)
<1>1. a \in Nat /\ b \in Nat /\ a >= 1 /\ b <= Len(s) /\ Len(s) \in Nat /\ m \in Nat
  OBVIOUS
<1>2. Len(r) = m /\ m >= 1 /\ \A i \in 1 .. m : r[i] = s[a + i - 1]
  OBVIOUS
<1>3. /\ h \in Nat
      /\ m % 2 = 1 => m - 1 = 2 * h
      /\ m % 2 # 1 => m = 2 * h /\ h >= 1
  BY <1>1, MidIs
<1>4. Median2(r) = IF m % 2 = 1 THEN 2 * r[h + 1] ELSE r[h] + r[h + 1]
  BY Zenon, <1>2 DEF Median2, Mid
<1> HIDE DEF r, h
<1>5. h + 1 \in 1 .. m /\ (m % 2 # 1 => h \in 1 .. m)
  BY <1>1, <1>3
<1>6. r[h + 1] = s[a + h] /\ (m % 2 # 1 => r[h] = s[a - 1 + h])
  <2>1. a + (h + 1) - 1 = a + h /\ a + h - 1 = a - 1 + h
    BY <1>1, <1>3
  <2> QED
    BY Zenon, <1>2, <1>5, <2>1
<1>7. r # <<>>
  BY <1>2
<1> QED
  BY Zenon, <1>4, <1>6, <1>7 DEF r, h

\* The sum of two numbers between two others
LEMMA SumBetween ==
    ASSUME NEW p \in Int, NEW q \in Int, NEW u \in Int, NEW v \in Int,
           u <= p, p <= v, u <= q, q <= v
    PROVE  p + q \in Int /\ 2 * u <= p + q /\ p + q <= 2 * v
OBVIOUS

\* A median lies between the first and the last.
LEMMA MedianBetween ==
    ASSUME NEW s \in Seq(Int), NEW a \in 1 .. Len(s), NEW b \in 1 .. Len(s),
           a <= b, \A i, j \in 1 .. Len(s) : i <= j => s[i] <= s[j]
    PROVE  /\ Median2(SubSeq(s, a, b)) \in Int
           /\ 2 * s[a] <= Median2(SubSeq(s, a, b))
           /\ Median2(SubSeq(s, a, b)) <= 2 * s[b]
<1> DEFINE h == Mid(a, b)
           d == Median2(SubSeq(s, a, b))
<1>1. a \in Nat /\ b \in Nat /\ a >= 1 /\ b <= Len(s) /\ Len(s) \in Nat
      /\ \A i \in 1 .. Len(s) : s[i] \in Int
  OBVIOUS
<1>2. /\ h \in Nat
      /\ (b - a + 1) % 2 = 1 => b - a = 2 * h
      /\ (b - a + 1) % 2 # 1 => b - a + 1 = 2 * h /\ h >= 1
  BY <1>1, MidIs
<1>3. /\ (b - a + 1) % 2 = 1 => d = 2 * s[a + h]
      /\ (b - a + 1) % 2 # 1 => d = s[a - 1 + h] + s[a + h]
  BY Zenon, MedianPart
<1> HIDE DEF h, d
<1>4. CASE (b - a + 1) % 2 = 1
  <2>1. a + h \in 1 .. Len(s) /\ a <= a + h /\ a + h <= b
    BY <1>1, <1>2, <1>4
  <2>2. s[a] <= s[a + h] /\ s[a + h] <= s[b] /\ s[a] \in Int /\ s[b] \in Int
        /\ s[a + h] \in Int
    BY Zenon, <1>1, <2>1
  <2>3. d \in Int /\ 2 * s[a] <= d /\ d <= 2 * s[b]
    BY SMTT(20), <1>3, <1>4, <2>2
  <2> QED
    BY Zenon, <2>3 DEF d
<1>5. CASE (b - a + 1) % 2 # 1
  <2>1. /\ a + h \in 1 .. Len(s) /\ a <= a + h /\ a + h <= b
        /\ a - 1 + h \in 1 .. Len(s) /\ a <= a - 1 + h /\ a - 1 + h <= b
    BY <1>1, <1>2, <1>5
  <2>2. /\ s[a] <= s[a + h] /\ s[a + h] <= s[b] /\ s[a] \in Int /\ s[b] \in Int
        /\ s[a + h] \in Int /\ s[a - 1 + h] \in Int
        /\ s[a] <= s[a - 1 + h] /\ s[a - 1 + h] <= s[b]
    BY Zenon, <1>1, <2>1
  <2>3. LET e == s[a - 1 + h] + s[a + h]
        IN  e \in Int /\ 2 * s[a] <= e /\ e <= 2 * s[b]
    BY Zenon, <2>2, SumBetween
  <2>4. d = s[a - 1 + h] + s[a + h]
    BY Zenon, <1>3, <1>5
  <2> QED
    BY Zenon, <2>3, <2>4 DEF d
<1> QED
  BY Zenon, <1>4, <1>5 DEF d

\* The place of the median of an odd part and of the mirrored part
LEMMA MidMirroredOdd ==
    ASSUME NEW n \in Nat, NEW a \in 1 .. n, NEW b \in 1 .. n, NEW h \in Nat,
           b - a = 2 * h
    PROVE  /\ a + h \in 1 .. n /\ n + 1 - b + h \in 1 .. n
           /\ n + 1 - (n + 1 - b + h) = a + h
OBVIOUS

\* The places of the median of an even part and of the mirrored part
LEMMA MidMirroredEven ==
    ASSUME NEW n \in Nat, NEW a \in 1 .. n, NEW b \in 1 .. n, NEW h \in Nat,
           b - a + 1 = 2 * h, h >= 1
    PROVE  /\ a + h \in 1 .. n /\ a - 1 + h \in 1 .. n
           /\ n + 1 - b + h \in 1 .. n
           /\ n + 1 - (n + 1 - b + h) = a - 1 + h
           /\ n + 1 - b - 1 + h \in 1 .. n
           /\ n + 1 - (n + 1 - b - 1 + h) = a + h
OBVIOUS

\* Two numbers and their mirrored ones
LEMMA SumMirrored ==
    ASSUME NEW p \in Int, NEW q \in Int, NEW top \in Int
    PROVE  /\ 2 * p + 2 * (top - p) = 2 * top
           /\ (p + q) + ((top - q) + (top - p)) = 2 * top
OBVIOUS

\* t is s, mirrored and read from the end.
Mirrors(s, t, top) ==
    /\ Len(t) = Len(s)
    /\ \A k \in 1 .. Len(s) : t[k] = top - s[Len(s) + 1 - k]

\* The median of a mirrored part is the mirrored median.
LEMMA MedianMirrored ==
    ASSUME NEW s \in Seq(Int), NEW t \in Seq(Int), NEW top \in Int,
           Mirrors(s, t, top),
           NEW a \in 1 .. Len(s), NEW b \in 1 .. Len(s), a <= b
    PROVE  Median2(SubSeq(s, a, b))
             + Median2(SubSeq(t, Len(s) + 1 - b, Len(s) + 1 - a)) = 2 * top
<1> DEFINE n == Len(s)
           c == n + 1 - b
           d == n + 1 - a
           h == Mid(a, b)
           m == b - a + 1
           x == Median2(SubSeq(s, a, b))
           y == Median2(SubSeq(t, c, d))
<1>1. a \in Nat /\ b \in Nat /\ a >= 1 /\ b <= n /\ n \in Nat
      /\ \A i \in 1 .. n : s[i] \in Int
  OBVIOUS
<1>2. c \in 1 .. n /\ d \in 1 .. n /\ c <= d /\ d - c + 1 = m
  BY <1>1
<1>3. Mid(c, d) = h
  BY Zenon, <1>2 DEF Mid
<1>4. /\ h \in Nat
      /\ m % 2 = 1 => b - a = 2 * h
      /\ m % 2 # 1 => b - a + 1 = 2 * h /\ h >= 1
  BY <1>1, MidIs
<1>5. /\ m % 2 = 1 => x = 2 * s[a + h]
      /\ m % 2 # 1 => x = s[a - 1 + h] + s[a + h]
  BY Zenon, MedianPart
<1>6. /\ m % 2 = 1 => y = 2 * t[c + h]
      /\ m % 2 # 1 => y = t[c - 1 + h] + t[c + h]
  <2>1. c \in 1 .. Len(t) /\ d \in 1 .. Len(t)
    BY Zenon, <1>2 DEF Mirrors
  <2>2. /\ (d - c + 1) % 2 = 1 => y = 2 * t[c + Mid(c, d)]
        /\ (d - c + 1) % 2 # 1 => y = t[c - 1 + Mid(c, d)] + t[c + Mid(c, d)]
    <3> HIDE DEF c, d
    <3> QED
      BY Zenon, <1>2, <2>1, MedianPart DEF y
  <2> QED
    BY Zenon, <1>2, <1>3, <2>2
<1> HIDE DEF h, x, y
<1>7. CASE m % 2 = 1
  <2>0. b - a = 2 * h
    BY Zenon, <1>4, <1>7
  <2>1. c + h \in 1 .. n /\ n + 1 - (c + h) = a + h /\ a + h \in 1 .. n
    <3>1. n \in Nat /\ a \in 1 .. n /\ b \in 1 .. n /\ h \in Nat
      BY Zenon, <1>1, <1>4
    <3> HIDE DEF n
    <3> QED
      BY <2>0, <3>1, MidMirroredOdd
  <2>2. t[c + h] = top - s[a + h] /\ s[a + h] \in Int
    BY Zenon, <1>1, <2>1 DEF Mirrors
  <2>3. x = 2 * s[a + h] /\ y = 2 * (top - s[a + h])
    BY Zenon, <1>5, <1>6, <1>7, <2>2
  <2>4. x + y = 2 * top
    BY Zenon, <2>2, <2>3, SumMirrored
  <2> QED
    BY Zenon, <2>4 DEF x, y
<1>8. CASE m % 2 # 1
  <2>0. b - a + 1 = 2 * h /\ h >= 1
    BY Zenon, <1>4, <1>8
  <2>1. /\ c + h \in 1 .. n /\ n + 1 - (c + h) = a - 1 + h
        /\ c - 1 + h \in 1 .. n /\ n + 1 - (c - 1 + h) = a + h
        /\ a + h \in 1 .. n /\ a - 1 + h \in 1 .. n
    <3>1. n \in Nat /\ a \in 1 .. n /\ b \in 1 .. n /\ h \in Nat
      BY Zenon, <1>1, <1>4
    <3> HIDE DEF n
    <3> QED
      BY <2>0, <3>1, MidMirroredEven
  <2>2. /\ t[c + h] = top - s[a - 1 + h] /\ s[a + h] \in Int
        /\ t[c - 1 + h] = top - s[a + h] /\ s[a - 1 + h] \in Int
    BY Zenon, <1>1, <2>1 DEF Mirrors
  <2>3. x = s[a - 1 + h] + s[a + h]
        /\ y = (top - s[a + h]) + (top - s[a - 1 + h])
    BY Zenon, <1>5, <1>6, <1>8, <2>2
  <2>4. x + y = 2 * top
    BY Zenon, <2>2, <2>3, SumMirrored
  <2> QED
    BY Zenon, <2>4 DEF x, y
<1> QED
  BY Zenon, <1>7, <1>8

\* q1 and q3 of sorted values
Q1(s) == IF Lower(s) = <<>> THEN 2 * Head(s) ELSE Median2(Lower(s))
Q3(s) == IF Upper(s) = <<>> THEN 2 * s[Len(s)] ELSE Median2(Upper(s))

\* Where the halves end and start
LEMMA HalvesAre ==
    ASSUME NEW n \in Nat, n >= 1
    PROVE  LET h == n \div 2
               u == (n + 1) \div 2 + 1
           IN  /\ h \in Nat /\ u \in Nat
               /\ n % 2 = 1 => n = 2 * h + 1 /\ u = h + 2
               /\ n % 2 # 1 => n = 2 * h /\ h >= 1 /\ u = h + 1
OBVIOUS

\* Neither half of one value, and the parts that the halves are otherwise
LEMMA HalfParts ==
    ASSUME NEW s \in Seq(Int), Len(s) >= 1
    PROVE  LET n == Len(s)
               h == n \div 2
               u == (n + 1) \div 2 + 1
           IN  /\ n = 1 => Q1(s) = 2 * s[1] /\ Q3(s) = 2 * s[1]
               /\ n # 1 =>
                    /\ h \in 1 .. n /\ u \in 1 .. n /\ n + 1 - u = h
                    /\ n + 1 - h = u
                    /\ Q1(s) = Median2(SubSeq(s, 1, h))
                    /\ Q3(s) = Median2(SubSeq(s, u, n))
<1> DEFINE n == Len(s)
           h == n \div 2
           u == (n + 1) \div 2 + 1
<1>1. n \in Nat /\ n >= 1 /\ Head(s) = s[1]
  OBVIOUS
<1>2. /\ h \in Nat /\ u \in Nat
      /\ n % 2 = 1 => n = 2 * h + 1 /\ u = h + 2
      /\ n % 2 # 1 => n = 2 * h /\ h >= 1 /\ u = h + 1
  BY Zenon, <1>1, HalvesAre
<1>3. Lower(s) = SubSeq(s, 1, h) /\ Upper(s) = SubSeq(s, u, n)
  BY Zenon DEF Lower, Upper
<1> HIDE DEF h, u
<1>4. ASSUME n = 1
      PROVE  Q1(s) = 2 * s[1] /\ Q3(s) = 2 * s[1]
  <2>1. h = 0 /\ u = 2
    BY <1>1, <1>2, <1>4
  <2>2. SubSeq(s, 1, h) = <<>> /\ SubSeq(s, u, n) = <<>>
    BY <1>4, <2>1
  <2> QED
    BY Zenon, <1>1, <1>3, <1>4, <2>2 DEF Q1, Q3
<1>5. ASSUME n # 1
      PROVE  /\ h \in 1 .. n /\ u \in 1 .. n /\ n + 1 - u = h
             /\ n + 1 - h = u
             /\ Q1(s) = Median2(SubSeq(s, 1, h))
             /\ Q3(s) = Median2(SubSeq(s, u, n))
  <2>1. /\ h \in 1 .. n /\ u \in 1 .. n /\ n + 1 - u = h /\ n + 1 - h = u
        /\ 1 \in 1 .. n /\ n \in 1 .. n /\ 1 <= h /\ u <= n
    <3> HIDE DEF n
    <3> QED
      BY <1>1, <1>2, <1>5
  <2>2. SubSeq(s, 1, h) # <<>> /\ SubSeq(s, u, n) # <<>>
    BY Zenon, <2>1, MedianPart
  <2> QED
    BY Zenon, <1>3, <2>1, <2>2 DEF Q1, Q3
<1> QED
  BY Zenon, <1>4, <1>5 DEF h, u

\* The median, and what it lies between
LEMMA MedianIs ==
    ASSUME NEW s \in Seq(Int), Len(s) >= 1,
           \A i, j \in 1 .. Len(s) : i <= j => s[i] <= s[j]
    PROVE  LET n == Len(s)
               h == n \div 2
           IN  /\ Median2(s) = Median2(SubSeq(s, 1, n))
               /\ Median2(s) \in Int
               /\ h + 1 \in 1 .. n /\ Median2(s) <= 2 * s[h + 1]
               /\ n % 2 = 1 => n = 2 * h + 1 /\ Median2(s) = 2 * s[h + 1]
               /\ n % 2 # 1 =>
                    n = 2 * h /\ h \in 1 .. n /\ 2 * s[h] <= Median2(s)
<1> DEFINE n == Len(s)
           h == n \div 2
           d == Median2(s)
<1>1. n \in Nat /\ n >= 1 /\ \A i \in 1 .. n : s[i] \in Int
  OBVIOUS
<1>2. /\ h \in Nat
      /\ n % 2 = 1 => n = 2 * h + 1
      /\ n % 2 # 1 => n = 2 * h /\ h >= 1
  BY Zenon, <1>1, HalvesAre
<1>3. d = IF n % 2 = 1 THEN 2 * s[h + 1] ELSE s[h] + s[h + 1]
  BY Zenon DEF Median2
<1>4. SubSeq(s, 1, n) = s
  OBVIOUS
<1> HIDE DEF h
<1>5. /\ h + 1 \in 1 .. n
      /\ n % 2 # 1 => h \in 1 .. n /\ h <= h + 1 /\ h + 1 <= h + 1 /\ h <= h
  <2> HIDE DEF n
  <2> QED
    BY <1>1, <1>2
<1>6. s[h + 1] \in Int /\ (n % 2 # 1 => s[h] \in Int)
  BY Zenon, <1>1, <1>5
<1>7. CASE n % 2 = 1
  <2>1. d = 2 * s[h + 1]
    BY Zenon, <1>3, <1>7
  <2> HIDE DEF d
  <2>2. d \in Int /\ d <= 2 * s[h + 1]
    BY <1>6, <2>1
  <2> QED
    BY Zenon, <1>2, <1>4, <1>5, <1>7, <2>1, <2>2 DEF d, h
<1>8. CASE n % 2 # 1
  <2>1. d = s[h] + s[h + 1]
    BY Zenon, <1>3, <1>8
  <2>2. s[h] <= s[h + 1] /\ s[h] <= s[h] /\ s[h + 1] <= s[h + 1]
    BY Zenon, <1>5, <1>8
  <2>3. LET e == s[h] + s[h + 1]
        IN  e \in Int /\ 2 * s[h] <= e /\ e <= 2 * s[h + 1]
    BY Zenon, <1>6, <1>8, <2>2, SumBetween
  <2> QED
    BY Zenon, <1>2, <1>4, <1>5, <1>8, <2>1, <2>3 DEF d, h
<1> QED
  BY Zenon, <1>7, <1>8 DEF d, h

\* The five numbers, by what is sorted
LEMMA QuartilesAre ==
    ASSUME NEW xs \in Seq(Int), Len(xs) >= 1
    PROVE  LET s == Sorted(xs)
               q == Quartiles(xs)
           IN  /\ q.min = 2 * s[1] /\ q.q1 = Q1(s) /\ q.median = Median2(s)
               /\ q.q3 = Q3(s) /\ q.max = 2 * s[Len(xs)]
<1> DEFINE s == Sorted(xs)
<1>1. s \in Seq(Int) /\ Len(s) = Len(xs)
  BY Zenon, SortedOrder
<1>2. Quartiles(xs) = [min |-> 2 * Head(s), q1 |-> Q1(s),
                       median |-> Median2(s), q3 |-> Q3(s),
                       max |-> 2 * s[Len(s)]]
  BY Zenon DEF Quartiles, Q1, Q3
<1> HIDE DEF s
<1>3. Head(s) = s[1]
  BY <1>1
<1> QED
  BY <1>1, <1>2, <1>3 DEF s

\* The five numbers are in order.
LEMMA QuartilesOrdered ==
    ASSUME NEW xs \in Seq(Int), Len(xs) >= 1
    PROVE  LET q == Quartiles(xs)
           IN  /\ q.min <= q.q1 /\ q.q1 <= q.median
               /\ q.median <= q.q3 /\ q.q3 <= q.max
               /\ q.max \in Int
<1> DEFINE s == Sorted(xs)
           n == Len(s)
           h == n \div 2
           u == (n + 1) \div 2 + 1
           Up == \A i, j \in 1 .. Len(s) : i <= j => s[i] <= s[j]
<1>1. s \in Seq(Int) /\ Len(s) = Len(xs) /\ Up
  BY Zenon, SortedOrder
<1>2. /\ Quartiles(xs).min = 2 * s[1] /\ Quartiles(xs).q1 = Q1(s)
      /\ Quartiles(xs).median = Median2(s) /\ Quartiles(xs).q3 = Q3(s)
      /\ Quartiles(xs).max = 2 * s[n]
  BY Zenon, <1>1, QuartilesAre
<1> HIDE DEF s
<1>3. n \in Nat /\ n >= 1 /\ \A i \in 1 .. n : s[i] \in Int
  BY <1>1
<1>4. 1 \in 1 .. n /\ n \in 1 .. n /\ 1 <= n
  BY <1>3
<1>5. s[1] \in Int /\ s[n] \in Int /\ 2 * s[n] \in Int
  BY <1>3, <1>4
<1>6. /\ Median2(s) = Median2(SubSeq(s, 1, n))
      /\ Median2(s) \in Int
      /\ h + 1 \in 1 .. n /\ Median2(s) <= 2 * s[h + 1]
      /\ n % 2 = 1 => n = 2 * h + 1 /\ Median2(s) = 2 * s[h + 1]
      /\ n % 2 # 1 => n = 2 * h /\ h \in 1 .. n /\ 2 * s[h] <= Median2(s)
  BY Zenon, <1>1, <1>3, MedianIs
<1>7. CASE n = 1
  <2>1. Q1(s) = 2 * s[1] /\ Q3(s) = 2 * s[1]
    BY Zenon, <1>1, <1>3, <1>7, HalfParts
  <2>2. Median2(s) >= 2 * s[1] /\ Median2(s) <= 2 * s[1]
    BY Zenon, <1>1, <1>4, <1>6, <1>7, MedianBetween
  <2>3. 2 * s[1] <= Q1(s) /\ Q1(s) <= Median2(s) /\ Median2(s) <= Q3(s)
        /\ Q3(s) <= 2 * s[n]
    BY <1>5, <1>7, <2>1, <2>2
  <2> QED
    BY Zenon, <1>2, <1>5, <2>3
<1>8. CASE n # 1
  <2>1. /\ h \in 1 .. n /\ u \in 1 .. n
        /\ Q1(s) = Median2(SubSeq(s, 1, h))
        /\ Q3(s) = Median2(SubSeq(s, u, n))
    BY Zenon, <1>1, <1>3, <1>8, HalfParts
  <2>2. /\ h \in Nat /\ u \in Nat
        /\ n % 2 = 1 => n = 2 * h + 1 /\ u = h + 2
        /\ n % 2 # 1 => n = 2 * h /\ h >= 1 /\ u = h + 1
    BY Zenon, <1>3, HalvesAre
  <2> HIDE DEF n, h, u
  <2>3. 1 <= h /\ u <= n /\ h <= h + 1 /\ h + 1 <= u
    BY <1>3, <2>1, <2>2
  <2>4. /\ Q1(s) \in Int /\ 2 * s[1] <= Q1(s) /\ Q1(s) <= 2 * s[h]
        /\ Q3(s) \in Int /\ 2 * s[u] <= Q3(s) /\ Q3(s) <= 2 * s[n]
    BY Zenon, <1>1, <1>4, <2>1, <2>3, MedianBetween DEF n
  <2>5. /\ s[h] \in Int /\ s[u] \in Int /\ s[h + 1] \in Int
        /\ s[h] <= s[h + 1] /\ s[h + 1] <= s[u]
    BY Zenon, <1>1, <1>3, <1>6, <2>1, <2>3 DEF n
  <2>6. n % 2 = 1 \/ n % 2 # 1
    OBVIOUS
  <2>7. 2 * s[h] <= Median2(s)
    <3>1. n % 2 = 1 => Median2(s) = 2 * s[h + 1]
      BY Zenon, <1>6
    <3>2. n % 2 # 1 => 2 * s[h] <= Median2(s)
      BY Zenon, <1>6
    <3> QED
      BY <2>5, <3>1, <3>2
  <2>8. Median2(s) <= 2 * s[u]
    BY <1>6, <2>5
  <2>9. Q1(s) <= Median2(s) /\ Median2(s) <= Q3(s)
    <3>1. Median2(s) \in Int
      BY Zenon, <1>6
    <3> QED
      BY <2>4, <2>5, <2>7, <2>8, <3>1
  <2> QED
    BY Zenon, <1>2, <1>5, <2>4, <2>9
<1> QED
  BY Zenon, <1>7, <1>8

\* At most half of the values are below the median, and at most half above.
LEMMA QuartilesHalve ==
    ASSUME NEW xs \in Seq(Int), Len(xs) >= 1
    PROVE  LET d == Quartiles(xs).median
           IN  /\ 2 * Cardinality({i \in DOMAIN xs : 2 * xs[i] < d}) <= Len(xs)
               /\ 2 * Cardinality({i \in DOMAIN xs : 2 * xs[i] > d}) <= Len(xs)
<1> DEFINE s == Sorted(xs)
           n == Len(xs)
           h == n \div 2
           d == Median2(s)
           B == {i \in DOMAIN xs : 2 * xs[i] < d}
           A == {i \in DOMAIN xs : 2 * xs[i] > d}
<1>1. /\ s \in Seq(Int) /\ Len(s) = n
      /\ \A i, j \in 1 .. Len(s) : i <= j => s[i] <= s[j]
  BY Zenon, SortedOrder
<1>2. Quartiles(xs).median = d
  BY Zenon, QuartilesAre
<1>3. n \in Nat /\ \A i \in DOMAIN xs : xs[i] \in Int
  OBVIOUS
<1>4. \A k \in 1 .. n : s[k] \in Int /\ IsNth(xs, k, s[k])
  BY Zenon, SortedNth
<1>5. /\ d \in Int /\ h + 1 \in 1 .. n /\ d <= 2 * s[h + 1]
      /\ n % 2 = 1 => n = 2 * h + 1 /\ d = 2 * s[h + 1]
      /\ n % 2 # 1 => n = 2 * h /\ h \in 1 .. n /\ 2 * s[h] <= d
  BY Zenon, <1>1, MedianIs
<1>6. h \in Nat
  BY <1>3
<1> HIDE DEF s, d, h
<1>7. B \subseteq DOMAIN xs /\ A \subseteq DOMAIN xs
  BY Zenon
<1>8. Cardinality(B) \in Nat /\ Cardinality(A) \in Nat
  BY Zenon, <1>7, Places
<1>9. 2 * Cardinality(B) <= n
  <2> DEFINE v == s[h + 1]
  <2>1. v \in Int /\ Cardinality(Below(xs, v)) < h + 1
        /\ Cardinality(Below(xs, v)) \in Nat
    BY Zenon, <1>4, <1>5, PlacesOrdered DEF IsNth
  <2>2. B \subseteq Below(xs, v) /\ Below(xs, v) \subseteq DOMAIN xs
    <3> HIDE DEF v
    <3>1. d \in Int /\ d <= 2 * v
      BY Zenon, <1>5 DEF v
    <3>2. \A i \in DOMAIN xs : 2 * xs[i] < d => xs[i] < v
      BY <1>3, <2>1, <3>1
    <3> QED
      BY Zenon, <3>2 DEF Below
  <2>3. Cardinality(B) <= Cardinality(Below(xs, v))
    BY Zenon, <2>2, MorePlaces
  <2>4. 2 * h <= n
    BY <1>3, <1>5, <1>6
  <2> HIDE DEF B, v, n
  <2> QED
    BY <1>3, <1>6, <1>8, <2>1, <2>3, <2>4
<1>10. 2 * Cardinality(A) <= n
  <2>1. PICK k \in 1 .. n : 2 * s[k] <= d /\ n <= 2 * k
    <3>1. CASE n % 2 = 1
      <4>1. d = 2 * s[h + 1] /\ n = 2 * h + 1 /\ s[h + 1] \in Int
        BY Zenon, <1>4, <1>5, <3>1
      <4>2. 2 * s[h + 1] <= d
        BY <4>1
      <4>3. n <= 2 * (h + 1)
        BY <1>6, <4>1
      <4> QED
        BY Zenon, <1>5, <4>2, <4>3
    <3>2. CASE n % 2 # 1
      <4>1. n <= 2 * h
        BY SMTT(20), <1>3, <1>5, <1>6, <3>2
      <4> QED
        BY Zenon, <1>5, <3>2, <4>1
    <3> QED
      BY Zenon, <3>1, <3>2
  <2> DEFINE v == s[k]
  <2>2. v \in Int /\ Cardinality(AtMost(xs, v)) >= k
        /\ Cardinality(AtMost(xs, v)) \in Nat
    BY Zenon, <1>4, PlacesOrdered DEF IsNth
  <2>3. Cardinality(Above(xs, v)) + Cardinality(AtMost(xs, v)) = n
    BY Zenon, <2>2, PlacesAbove
  <2>4. A \subseteq Above(xs, v) /\ Above(xs, v) \subseteq DOMAIN xs
    <3>1. 2 * v <= d
      BY Zenon, <2>1
    <3> HIDE DEF v
    <3>2. \A i \in DOMAIN xs : 2 * xs[i] > d => v < xs[i]
      BY <1>3, <1>5, <2>2, <3>1
    <3> QED
      BY <3>2 DEF Above
  <2>5. Cardinality(A) <= Cardinality(Above(xs, v))
        /\ Cardinality(Above(xs, v)) \in Nat
    BY Zenon, <2>4, MorePlaces, Places
  <2>6. k \in Nat
    OBVIOUS
  <2> HIDE DEF A, v, n
  <2> QED
    BY <1>3, <1>8, <2>1, <2>2, <2>3, <2>5, <2>6
<1> QED
  BY Zenon, <1>2, <1>9, <1>10

\* The quartiles of the mirrored values are the mirrored quartiles.
LEMMA QuartilesMirrored ==
    ASSUME NEW xs \in Seq(Int), Len(xs) >= 1, NEW top \in Int
    PROVE  LET q == Quartiles(xs)
               m == Quartiles(Mirrored(xs, top))
           IN  /\ q.q1 + m.q3 = 2 * top
               /\ q.q3 + m.q1 = 2 * top
               /\ q.median + m.median = 2 * top
<1> DEFINE n  == Len(xs)
           ys == Mirrored(xs, top)
           s  == Sorted(xs)
           t  == Sorted(ys)
           h == n \div 2
           u == (n + 1) \div 2 + 1
<1>1. n \in Nat /\ n >= 1 /\ 1 \in 1 .. n /\ n \in 1 .. n
  OBVIOUS
<1>2. ys \in Seq(Int) /\ Len(ys) = n
      /\ \A k \in 1 .. n : t[k] = top - s[n + 1 - k]
  BY Zenon, <1>1, SortedMirrored
<1>3. /\ s \in Seq(Int) /\ Len(s) = n /\ t \in Seq(Int) /\ Len(t) = n
      /\ \A i, j \in 1 .. Len(s) : i <= j => s[i] <= s[j]
      /\ \A i, j \in 1 .. Len(t) : i <= j => t[i] <= t[j]
  BY Zenon, <1>2, SortedOrder
<1>4. Mirrors(s, t, top)
  BY Zenon, <1>2, <1>3 DEF Mirrors
<1>5. /\ Quartiles(xs).q1 = Q1(s) /\ Quartiles(xs).median = Median2(s)
      /\ Quartiles(xs).q3 = Q3(s)
  BY Zenon, <1>1, QuartilesAre
<1>6. /\ Quartiles(ys).q1 = Q1(t) /\ Quartiles(ys).median = Median2(t)
      /\ Quartiles(ys).q3 = Q3(t)
  BY Zenon, <1>1, <1>2, QuartilesAre
<1> HIDE DEF s, t, ys
<1>7. \A a, b \in 1 .. n :
        a <= b => Median2(SubSeq(s, a, b))
                    + Median2(SubSeq(t, n + 1 - b, n + 1 - a)) = 2 * top
  <2>1. \A a, b \in 1 .. Len(s) :
          a <= b =>
            Median2(SubSeq(s, a, b))
              + Median2(SubSeq(t, Len(s) + 1 - b, Len(s) + 1 - a)) = 2 * top
    BY Zenon, <1>3, <1>4, MedianMirrored
  <2> QED
    BY Zenon, <1>3, <2>1
<1>8. Median2(s) + Median2(t) = 2 * top
  <2>1. n + 1 - n = 1 /\ n + 1 - 1 = n
    BY <1>1
  <2>2. Median2(SubSeq(s, 1, n)) + Median2(SubSeq(t, n + 1 - n, n + 1 - 1))
          = 2 * top
    BY Zenon, <1>1, <1>7
  <2>3. Median2(s) = Median2(SubSeq(s, 1, n))
        /\ Median2(t) = Median2(SubSeq(t, 1, n))
    BY Zenon, <1>1, <1>3, MedianIs
  <2> QED
    BY Zenon, <2>1, <2>2, <2>3
<1>9. Q1(s) + Q3(t) = 2 * top /\ Q3(s) + Q1(t) = 2 * top
  <2>1. CASE n = 1
    <3>1. Q1(s) = 2 * s[1] /\ Q3(s) = 2 * s[1] /\ Q1(t) = 2 * t[1]
          /\ Q3(t) = 2 * t[1]
      BY Zenon, <1>1, <1>3, <2>1, HalfParts
    <3>2. t[1] = top - s[1] /\ s[1] \in Int
      <4>1. n + 1 - 1 = 1
        BY <2>1
      <4>2. t[1] = top - s[n + 1 - 1]
        BY Zenon, <1>1, <1>2
      <4>3. s[1] \in Int
        BY <1>1, <1>3
      <4> QED
        BY Zenon, <4>1, <4>2, <4>3
    <3> QED
      BY <3>1, <3>2
  <2>2. CASE n # 1
    <3>1. /\ h \in 1 .. n /\ u \in 1 .. n /\ n + 1 - u = h /\ n + 1 - h = u
          /\ Q1(s) = Median2(SubSeq(s, 1, h))
          /\ Q3(s) = Median2(SubSeq(s, u, n))
          /\ Q1(t) = Median2(SubSeq(t, 1, h))
          /\ Q3(t) = Median2(SubSeq(t, u, n))
      BY Zenon, <1>1, <1>3, <2>2, HalfParts
    <3> HIDE DEF h, u
    <3>2. n + 1 - n = 1 /\ n + 1 - 1 = n /\ 1 <= h /\ u <= n
      BY <1>1, <3>1
    <3>3. Median2(SubSeq(s, 1, h)) + Median2(SubSeq(t, n + 1 - h, n + 1 - 1))
            = 2 * top
      BY Zenon, <1>1, <1>7, <3>1, <3>2
    <3>4. Median2(SubSeq(s, u, n)) + Median2(SubSeq(t, n + 1 - n, n + 1 - u))
            = 2 * top
      BY Zenon, <1>1, <1>7, <3>1, <3>2
    <3> QED
      BY Zenon, <3>1, <3>2, <3>3, <3>4
  <2> QED
    BY Zenon, <2>1, <2>2
<1> QED
  BY Zenon, <1>5, <1>6, <1>8, <1>9 DEF ys

-----------------------------------------------------------------------------
(* What is reported.                                                       *)

\* What is printed is computed from all latencies, of which there is one at
\* least, and none is added afterwards.
Reported ==
    stats # None =>
        /\ pc \in {"shutdown", "join", "done"}
        /\ stats = Quartiles(lat)
        /\ Len(lat) >= 1

\* Nothing but the report prints, and nothing measures behind it.
LEMMA StepReported == TInv /\ Reported /\ [Next]_vars => Reported'
<1> SUFFICES ASSUME TInv, Reported, [Next]_vars
             PROVE  Reported'
  OBVIOUS
<1>1. TypeOK
  BY DEF TInv
<1>2. CASE Report
  <2>1. /\ stats' = Quartiles(lat) /\ lat' = lat /\ pc' = "shutdown"
        /\ Len(lat) = opts.ntimes
    BY <1>2 DEF Report, Goto
  <2>2. Len(lat) >= 1
    BY <1>1, <2>1, OptsTyped
  <2> QED
    BY Zenon, <2>1, <2>2 DEF Reported
<1>3. CASE Compare
  <2>1. pc = "compare" /\ UNCHANGED stats
    BY <1>3 DEF Compare
  <2> QED
    BY <2>1 DEF Reported
<1>4. CASE \/ CheckRange \/ Connect \/ Operate \/ WriteChunk \/ WritesDone
           \/ Read \/ Answered
  <2>1. /\ pc \in {"check", "connect", "operate", "write", "read", "wait"}
        /\ UNCHANGED stats
    BY Zenon, <1>4
    DEF CheckRange, Connect, Operate, WriteChunk, WritesDone, Read, Answered
  <2> QED
    BY <2>1 DEF Reported
<1>5. CASE GiveUp \/ Shutdown \/ Join
  <2>1. UNCHANGED <<stats, lat>> /\ pc' \in {"join", "done"}
    BY <1>5 DEF GiveUp, Shutdown, Join, Goto, Return
  <2> QED
    BY Zenon, <2>1 DEF Reported
<1>6. CASE ConnectionLost \/ LoopReturns \/ UNCHANGED vars
  <2>1. UNCHANGED <<stats, lat, pc>>
    BY <1>6 DEF ConnectionLost, LoopReturns, vars
  <2> QED
    BY Zenon, <2>1 DEF Reported
<1> QED
  BY <1>2, <1>3, <1>4, <1>5, <1>6 DEF Next, MainStep, Stopped

\* For any number of reads and any latencies, the five numbers that the speed
\* test prints are in order, at most half of the latencies lie on either side
\* of the median, and mirroring the latencies mirrors the quartiles.
THEOREM SummaryIsRight == Spec => []SummaryRight
<1>1. Init => Reported
  BY DEF Init, Reported
<1>2. TInv /\ Reported => SummaryRight
  <2> SUFFICES ASSUME TInv, Reported, stats # None
               PROVE  SummaryRight
    BY DEF SummaryRight
  <2> DEFINE top == stats.max
             ys == [i \in DOMAIN lat |-> top - lat[i]]
  <2>1. lat \in Seq(Int) /\ Len(lat) >= 1
    <3>1. Latencies \subseteq Int /\ lat \in Seq(Latencies)
      BY ToolsAssumption DEF TInv, TypeOK
    <3>2. Len(lat) >= 1
      BY Zenon DEF Reported
    <3>3. lat \in Seq(Int)
      <4>1. Len(lat) \in Nat /\ lat \in [1 .. Len(lat) -> Latencies]
        BY <3>1
      <4>2. lat \in [1 .. Len(lat) -> Int]
        BY Zenon, <3>1, <4>1
      <4> QED
        BY <4>1, <4>2
    <3> QED
      BY <3>2, <3>3
  <2>2. stats = Quartiles(lat)
    BY Zenon DEF Reported
  <2>3. /\ stats.min <= stats.q1 /\ stats.q1 <= stats.median
        /\ stats.median <= stats.q3 /\ stats.q3 <= stats.max
        /\ top \in Int
    BY Zenon, <2>1, <2>2, QuartilesOrdered
  <2>4. /\ 2 * Cardinality({i \in DOMAIN lat : 2 * lat[i] < stats.median})
             <= Len(lat)
        /\ 2 * Cardinality({i \in DOMAIN lat : 2 * lat[i] > stats.median})
             <= Len(lat)
    BY Zenon, <2>1, <2>2, QuartilesHalve
  <2>5. ys = Mirrored(lat, top)
    BY Zenon DEF Mirrored
  <2>6. /\ stats.q1 + Quartiles(ys).q3 = 2 * top
        /\ stats.q3 + Quartiles(ys).q1 = 2 * top
        /\ stats.median + Quartiles(ys).median = 2 * top
    <3> HIDE DEF ys, top
    <3>1. LET m == Quartiles(Mirrored(lat, top))
          IN  /\ stats.q1 + m.q3 = 2 * top
              /\ stats.q3 + m.q1 = 2 * top
              /\ stats.median + m.median = 2 * top
      BY Zenon, <2>1, <2>2, <2>3, QuartilesMirrored
    <3> QED
      BY Zenon, <2>5, <3>1
  <2> QED
    BY Zenon, <2>3, <2>4, <2>6 DEF SummaryRight
<1> QED
  BY <1>1, <1>2, InitTInv, StepTInv, StepReported, PTL DEF Spec
=============================================================================
