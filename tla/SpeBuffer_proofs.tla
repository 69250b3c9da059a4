----------------------------- MODULE SpeBuffer_proofs -----------------------------
(* The safety of SpeBuffer, proved for any cores, any size of the buffer and any    *)
(* number of clients.                                                               *)
EXTENDS SpeBuffer, SequenceTheorems, TLAPS

\* Where lastCopiedPtr, spe_bytesToCopy and the pointer are to each other.
Positions ==
    /\ pc # "idle" => core \in Cores
    /\ pc \in {"inited", "armed", "zeroed"} =>
         lastCopied = 0 /\ bytesToCopy = 0 /\ buffer = << >> /\ trace = << >>
    /\ pc \in Pointed => lastCopied <= ptr[core]
    /\ pc \in Pointed \ {"sized", "last_sized"} => bytesToCopy = 0
    /\ pc \in {"sized", "last_sized"} => lastCopied + size <= ptr[core]

\* A client that has stopped sampling has nothing more to come.
Halted ==
    /\ pc \in {"halted", "stopped", "last_sized", "fetched"} => ~enabled[core]
    /\ pc = "last_sized" => lastCopied + size = ptr[core]
    /\ pc = "fetched" => lastCopied = ptr[core]

\* Unless START found one writing, no core but the client's writes.
Alone ==
    pc \in Pointed /\ ~strayed => \A d \in Cores \ {core} : enabled[d] => full[d]

\* Records are numbered in the order they are written.
Contents ==
    pc \in Pointed =>
        /\ Len(trace) = ptr[core]
        /\ Len(buffer) = lastCopied
        /\ \A i \in 1..Len(trace) : trace[i] = i
        /\ ~strayed => /\ \A i \in 1..lastCopied : buffer[i] = i
                       /\ \A i \in (lastCopied + 1)..ptr[core] : mem[i] = i

BufferInv == TypeOK /\ Positions /\ Halted /\ Alone /\ Contents /\ NotCutShort

USE SpeAssumption

\* The test of the DPC, unsigned, is only passed at the limit.
LEMMA OnlyAtLimit ==
    ASSUME TypeOK, NEW c \in Cores, BufferFull(c)
    PROVE  ptr[c] = Limit
<1> DEFINE d == ptr[c] - Limit
<1>1. d \in (-Limit)..0 /\ Width \in Nat /\ Limit \in Nat \ {0} /\ Threshold \in Nat
    BY DEF TypeOK
<1>2. Limit + Threshold < Width
    OBVIOUS
<1>3. (d % Width) <= Threshold
    BY DEF BufferFull
<1> HIDE DEF d
<1>4. CASE d < 0
  <2>1. d + Width \in 0..(Width - 1) /\ d + Width > Threshold
    BY <1>1, <1>2, <1>4
  <2>2. (d % Width) = d + Width
    BY <1>1, <2>1, <1>4
  <2> QED
    BY <1>3, <2>1, <2>2, <1>1
<1>5. CASE d = 0
    BY <1>5 DEF d, TypeOK
<1> QED
    BY <1>1, <1>4, <1>5

\* Where the values assigned most often lie.
LEMMA Ranges == /\ << >> \in Seq(Int) /\ << >> \in Seq(Nat)
                /\ 0 \in 0..Limit /\ 0 \in 0..MaxSessions
    OBVIOUS

\* spe_setup leaves a buffer that is in order.
LEMMA InitHolds == Init => BufferInv
<1> SUFFICES ASSUME Init PROVE BufferInv
    OBVIOUS
<1>1. TypeOK
  <2>1. mem \in [1..Limit -> Int] /\ buffer \in Seq(Int) /\ trace \in Seq(Nat)
    BY Ranges DEF Init, Zero
  <2>2. /\ ptr \in [Cores -> 0..Limit] /\ sessions \in 0..MaxSessions
        /\ size \in 0..Limit /\ lastCopied \in 0..Limit /\ bytesToCopy \in 0..Limit
    BY Ranges DEF Init
  <2>3. /\ enabled \in [Cores -> BOOLEAN] /\ full \in [Cores -> BOOLEAN]
        /\ profiling_running \in [Cores -> BOOLEAN] /\ timer \in [Cores -> BOOLEAN]
        /\ queued \in [Cores -> BOOLEAN] /\ strayed \in BOOLEAN
    BY DEF Init
  <2>4. pc \in {"idle", "inited", "armed", "zeroed"} \union Pointed /\ core \in Cores \union {None}
    BY DEF Init
  <2> QED
    BY <2>1, <2>2, <2>3, <2>4 DEF TypeOK
<1>2. Positions /\ Halted /\ Alone /\ Contents /\ NotCutShort
    BY DEF Init, Positions, Halted, Alone, Contents, NotCutShort, Pointed, InSession
<1> QED
    BY <1>1, <1>2 DEF BufferInv

\* A write, by the client's core or by one that strays.
LEMMA WriteKeeps ==
    ASSUME BufferInv, NEW c \in Cores, Write(c)
    PROVE  BufferInv'
<1> USE DEF BufferInv
<1> DEFINE mine == c = core /\ pc \in Pointed
<1>1. TypeOK'
  <2>1. ptr' \in [Cores -> 0..Limit]
    BY DEF TypeOK, Write
  <2>2. mem' \in [1..Limit -> Int] /\ trace' \in Seq(Nat)
    <3>1. Len(trace) + 1 \in Nat
        BY LenProperties DEF TypeOK
    <3>2. trace' = trace \/ trace' = Append(trace, Len(trace) + 1)
        BY DEF Write
    <3>3. trace' \in Seq(Nat)
      <4>1. trace \in Seq(Nat)
        BY DEF TypeOK
      <4>2. Append(trace, Len(trace) + 1) \in Seq(Nat)
        BY <3>1, <4>1, AppendProperties, Zenon
      <4> QED
        BY <3>2, <4>1, <4>2
    <3>4. \/ mem' = mem
          \/ mem' = [mem EXCEPT ![ptr[c] + 1] = Len(trace) + 1]
          \/ mem' = [mem EXCEPT ![ptr[c] + 1] = -1]
        BY DEF Write, Stray
    <3> QED
        BY <3>1, <3>3, <3>4 DEF TypeOK
  <2>3. full' \in [Cores -> BOOLEAN]
    <3> DEFINE b == ptr'[c] = Limit
    <3>1. full' = [full EXCEPT ![c] = b] /\ b \in BOOLEAN
        BY DEF Write
    <3> HIDE DEF b
    <3> QED
        BY <3>1 DEF TypeOK
  <2> QED
    BY <2>1, <2>2, <2>3 DEF TypeOK, Write, client, copying, watch, fetched, Pointed
<1>2. CASE ptr[c] < Limit /\ mine
  <2>1. /\ mem' = [mem EXCEPT ![ptr[c] + 1] = Len(trace) + 1]
        /\ ptr' = [ptr EXCEPT ![c] = @ + 1]
        /\ trace' = Append(trace, Len(trace) + 1)
        /\ enabled[c] /\ ~full[c]
        /\ full' = [full EXCEPT ![c] = ptr'[c] = Limit]
        /\ UNCHANGED <<pc, core, lastCopied, bytesToCopy, enabled, size, buffer, strayed>>
    BY <1>2 DEF Write, client, copying, fetched
  <2>2. ptr[c] \in 0..Limit /\ ptr'[core] = ptr[core] + 1
    BY <1>2, <2>1 DEF TypeOK
  <2>3. Positions'
    BY <2>1, <2>2, <1>2 DEF Positions, TypeOK, Pointed
  <2>4. Halted'
    BY <2>1, <1>2 DEF Halted
  <2>5. Alone'
    BY <2>1, <1>2 DEF Alone, TypeOK
  <2>6. Contents'
    <3>1. /\ Len(trace') = Len(trace) + 1
          /\ \A i \in 1..Len(trace) : trace'[i] = trace[i]
          /\ trace'[Len(trace) + 1] = Len(trace) + 1
        BY <2>1, AppendProperties, LenProperties DEF TypeOK
    <3>2. Len(trace') = ptr'[core] /\ \A i \in 1..Len(trace') : trace'[i] = i
      <4>1. Len(trace) \in Nat /\ Len(trace) = ptr[core] /\ \A i \in 1..Len(trace) : trace[i] = i
        BY <1>2, LenProperties DEF Contents, TypeOK
      <4>2. Len(trace') = ptr'[core]
        BY <4>1, <3>1, <2>2
      <4>3. ASSUME NEW i \in 1..(Len(trace) + 1) PROVE trace'[i] = i
        BY <4>1, <3>1
      <4> QED
        BY <4>2, <4>3, <3>1
    <3>3. ASSUME ~strayed, NEW i \in (lastCopied + 1)..ptr'[core]
          PROVE  mem'[i] = i
        BY <3>3, <2>1, <2>2, <1>2 DEF Contents, TypeOK
    <3> QED
        BY <3>2, <3>3, <2>1 DEF Contents
  <2>7. NotCutShort'
    BY <2>1, <1>2, <1>1 DEF NotCutShort, TypeOK
  <2> QED
    BY <1>1, <2>3, <2>4, <2>5, <2>6, <2>7
<1>3. CASE ~(ptr[c] < Limit /\ mine)
  <2>1. /\ UNCHANGED <<pc, core, lastCopied, bytesToCopy, enabled, size, buffer, trace, strayed>>
        /\ full' = [full EXCEPT ![c] = ptr'[c] = Limit]
        /\ \A d \in Cores \ {c} : ptr'[d] = ptr[d] /\ full'[d] = full[d]
        /\ mine => UNCHANGED <<mem, ptr>>
    BY <1>3 DEF Write, client, copying, fetched, TypeOK
  <2>2. pc \in Pointed => core \in Cores /\ ptr'[core] = ptr[core]
    BY <2>1 DEF Positions, Pointed
  <2>3. pc \in Pointed /\ ~strayed => mine
    BY DEF Write, Alone
  <2>4. Positions' /\ Halted'
    BY <2>1, <2>2 DEF Positions, Halted, Pointed
  <2>5. Alone'
    BY <2>1, <2>3 DEF Alone, TypeOK
  <2>6. Contents'
    BY <2>1, <2>2, <2>3 DEF Contents
  <2>7. NotCutShort'
    <3> SUFFICES ASSUME pc \in InSession, ptr[core] < Limit
                 PROVE  enabled[core] /\ ~full'[core]
        BY <2>1, <2>2 DEF NotCutShort, InSession, Pointed
    <3>1. c # core
        BY <1>3 DEF InSession, Pointed
    <3> QED
        BY <3>1, <2>1 DEF NotCutShort, Positions, InSession
  <2> QED
    BY <1>1, <2>4, <2>5, <2>6, <2>7
<1> QED
    BY <1>2, <1>3

\* A DPC, of this client or an earlier one.
LEMMA DpcKeeps ==
    ASSUME BufferInv, NEW c \in Cores, dpc_spe_overflow(c)
    PROVE  BufferInv'
<1> USE DEF BufferInv
<1>1. TypeOK'
    BY DEF TypeOK, dpc_spe_overflow, client, copying, fetched, history
<1>2. /\ UNCHANGED <<client, mem, copying, ptr, fetched, history>>
      /\ \A d \in Cores : enabled'[d] => enabled[d] /\ full'[d] = full[d]
      /\ \A d \in Cores : ptr[d] < Limit => enabled'[d] = enabled[d] /\ full'[d] = full[d]
  <2>1. ASSUME BufferFull(c) PROVE ~(ptr[c] < Limit)
    BY <2>1, OnlyAtLimit DEF TypeOK
  <2> QED
    BY <2>1 DEF dpc_spe_overflow, TypeOK
<1>3. Positions' /\ Contents'
    BY <1>2 DEF Positions, Contents, client, copying, fetched, history
<1>4. Halted'
    BY <1>2 DEF Halted, Positions, client, copying, fetched
<1>5. Alone'
    BY <1>2 DEF Alone, client, history
<1>6. NotCutShort'
    BY <1>2 DEF NotCutShort, Positions, InSession, client
<1> QED
    BY <1>1, <1>3, <1>4, <1>5, <1>6

\* GET_BUFFER appends what lies behind lastCopiedPtr.
LEMMA GetBufferKeeps ==
    ASSUME BufferInv, GetBuffer
    PROVE  BufferInv'
<1> USE DEF BufferInv
<1> DEFINE copy == SubSeq(mem, lastCopied + 1, lastCopied + size)
<1>1. /\ pc \in {"sized", "last_sized"} /\ core \in Cores
      /\ lastCopied \in Nat /\ size \in Nat /\ lastCopied + size <= ptr[core]
      /\ ptr[core] \in 0..Limit
    BY DEF GetBuffer, Positions, TypeOK
<1>2. \A i \in (lastCopied + 1)..(lastCopied + size) : mem[i] \in Int
    BY <1>1 DEF TypeOK
<1>3. /\ copy \in Seq(Int) /\ Len(copy) = size
      /\ \A i \in 1..size : copy[i] = mem[lastCopied + i]
  <2> DEFINE m == lastCopied + 1
             n == lastCopied + size
  <2>1. m \in Int /\ n \in Int /\ n - m + 1 = size /\ (m <= n <=> size # 0)
    BY <1>1
  <2>2. \A i \in m..n : mem[i] \in Int
    BY <1>2
  <2> HIDE DEF m, n
  <2>3. /\ SubSeq(mem, m, n) \in Seq(Int)
        /\ Len(SubSeq(mem, m, n)) = IF m <= n THEN n - m + 1 ELSE 0
        /\ \A i \in 1..(n - m + 1) : SubSeq(mem, m, n)[i] = mem[m + i - 1]
    BY <2>1, <2>2, SubSeqProperties
  <2>4. Len(SubSeq(mem, m, n)) = size
    BY <2>1, <2>3, <1>1
  <2>5. \A i \in 1..size : m + i - 1 = lastCopied + i
    BY <1>1 DEF m
  <2>6. \A i \in 1..size : SubSeq(mem, m, n)[i] = mem[lastCopied + i]
    BY <2>1, <2>3, <2>5
  <2> QED
    BY <2>3, <2>4, <2>6 DEF m, n
<1> HIDE DEF copy
<1>4. /\ buffer' = buffer \o copy /\ lastCopied' = lastCopied + size /\ bytesToCopy' = 0
      /\ pc' = (IF pc = "sized" THEN "sampling" ELSE "fetched")
      /\ UNCHANGED <<core, sessions, mem, unit, watch, size, history>>
    BY DEF GetBuffer, copy
<1>11. /\ buffer \o copy \in Seq(Int) /\ Len(buffer \o copy) = Len(buffer) + Len(copy)
       /\ \A i \in 1..(Len(buffer) + Len(copy)) :
            (buffer \o copy)[i] = IF i <= Len(buffer) THEN buffer[i] ELSE copy[i - Len(buffer)]
  <2>1. buffer \in Seq(Int)
    BY DEF TypeOK
  <2> QED
    BY <1>3, <2>1, ConcatProperties, Zenon
<1>5. /\ buffer' \in Seq(Int) /\ Len(buffer') = Len(buffer) + size
      /\ \A i \in 1..(Len(buffer) + size) :
           buffer'[i] = IF i <= Len(buffer) THEN buffer[i] ELSE copy[i - Len(buffer)]
    BY <1>3, <1>4, <1>11, Zenon
<1>6. TypeOK'
    BY <1>1, <1>4, <1>5 DEF TypeOK, unit, watch, history, Pointed
<1>7. Positions' /\ Halted'
    BY <1>1, <1>4 DEF Positions, Halted, Pointed, unit, TypeOK
<1>8. Alone'
    BY <1>1, <1>4 DEF Alone, Pointed, unit, history
<1>9. Contents'
  <2>1. Len(trace) = ptr[core] /\ Len(buffer) = lastCopied /\ \A i \in 1..Len(trace) : trace[i] = i
    BY <1>1 DEF Contents, Pointed
  <2>2. Len(buffer') = lastCopied'
    BY <2>1, <1>4, <1>5
  <2>3. ASSUME ~strayed, NEW i \in 1..lastCopied'
        PROVE  buffer'[i] = i
    <3>1. /\ \A j \in 1..lastCopied : buffer[j] = j
          /\ \A j \in (lastCopied + 1)..ptr[core] : mem[j] = j
        BY <2>3, <1>1 DEF Contents, Pointed
    <3>2. CASE i <= lastCopied
        BY <3>1, <3>2, <2>1, <1>4, <1>5, <1>1
    <3>3. CASE ~(i <= lastCopied)
      <4>1. i - lastCopied \in 1..size /\ lastCopied + (i - lastCopied) = i
        BY <3>3, <1>1, <1>4
      <4>2. buffer'[i] = mem[i]
        BY <4>1, <3>3, <2>1, <1>1, <1>3, <1>4, <1>5
      <4>3. i \in (lastCopied + 1)..ptr[core]
        BY <3>3, <1>1, <1>4
      <4> QED
        BY <4>2, <4>3, <3>1
    <3> QED
        BY <3>2, <3>3
  <2>4. ASSUME ~strayed, NEW i \in (lastCopied' + 1)..ptr[core]
        PROVE  mem[i] = i
    BY <2>4, <1>1, <1>4 DEF Contents, Pointed
  <2> QED
    BY <2>1, <2>2, <2>3, <2>4, <1>4 DEF Contents, unit, history
<1>10. NotCutShort'
    BY <1>1, <1>4 DEF NotCutShort, InSession, unit
<1> QED
    BY <1>6, <1>7, <1>8, <1>9, <1>10

\* Every request, write, expiry and DPC keeps it so.
LEMMA NextKeeps == BufferInv /\ [Next]_vars => BufferInv'
<1> SUFFICES ASSUME BufferInv, [Next]_vars PROVE BufferInv'
    OBVIOUS
<1> USE DEF BufferInv, client, copying, unit, watch, fetched, history
<1>1. ASSUME NEW c \in Cores, SpeInit(c) PROVE BufferInv'
  <2>1. TypeOK'
    <3>1. buffer' \in Seq(Int) /\ trace' \in Seq(Nat) /\ size' \in 0..Limit
        BY <1>1, Ranges DEF SpeInit
    <3>2. lastCopied' \in 0..Limit /\ bytesToCopy' \in 0..Limit
        BY <1>1, Ranges DEF SpeInit
    <3>3. sessions' \in 0..MaxSessions /\ strayed' \in BOOLEAN
      <4>1. /\ sessions \in Nat /\ sessions < MaxSessions /\ MaxSessions \in Nat
            /\ sessions' = sessions + 1 /\ strayed' = FALSE
        BY <1>1 DEF SpeInit, TypeOK
      <4>2. sessions + 1 \in 0..MaxSessions
        BY <4>1
      <4>3. sessions' \in 0..MaxSessions
        BY <4>1, <4>2, Zenon
      <4> QED
        BY <4>1, <4>3
    <3> QED
        BY <1>1, <3>1, <3>2, <3>3 DEF SpeInit, TypeOK
  <2> QED
    BY <1>1, <2>1 DEF SpeInit, Positions, Halted, Alone, Contents, NotCutShort, Pointed, InSession
<1>2. CASE StartArm
  <2>1. TypeOK'
    BY <1>2 DEF StartArm, TypeOK
  <2> QED
    BY <1>2, <2>1 DEF StartArm, Positions, Halted, Alone, Contents, NotCutShort, Pointed, InSession
<1>3. CASE StartZero
  <2>1. TypeOK'
    BY <1>3 DEF StartZero, TypeOK, Zero
  <2> QED
    BY <1>3, <2>1 DEF StartZero, Positions, Halted, Alone, Contents, NotCutShort, Pointed, InSession
<1>4. CASE StartPointer
  <2>1. TypeOK'
    <3>1. ptr' \in [Cores -> 0..Limit]
        BY <1>4, Ranges DEF StartPointer, TypeOK
    <3>2. strayed' \in BOOLEAN
        BY <1>4, Zenon DEF StartPointer
    <3> QED
        BY <1>4, <3>1, <3>2 DEF StartPointer, TypeOK, Pointed
  <2>2. core \in Cores /\ lastCopied = 0 /\ ptr'[core] = 0 /\ buffer = << >> /\ trace = << >>
    BY <1>4 DEF StartPointer, Positions, TypeOK
  <2>3. Positions' /\ Halted' /\ NotCutShort'
    BY <1>4, <2>2 DEF StartPointer, Positions, Halted, NotCutShort, Pointed, InSession
  <2>4. Alone'
    BY <1>4 DEF StartPointer, Alone
  <2>5. Contents'
    BY <1>4, <2>2 DEF StartPointer, Contents
  <2> QED
    BY <2>1, <2>3, <2>4, <2>5
<1>5. CASE StartEnable
  <2>1. TypeOK'
    <3>1. enabled' \in [Cores -> BOOLEAN] /\ full' \in [Cores -> BOOLEAN]
        BY <1>5 DEF StartEnable, TypeOK
    <3>2. size' \in 0..Limit
        BY <1>5 DEF StartEnable
    <3> QED
        BY <1>5, <3>1, <3>2 DEF StartEnable, TypeOK, Pointed
  <2>2. Positions' /\ Halted'
    BY <1>5 DEF StartEnable, Positions, Halted, Pointed
  <2>3. Alone' /\ NotCutShort'
    BY <1>5 DEF StartEnable, Alone, NotCutShort, Positions, Pointed, TypeOK
  <2>4. Contents'
    BY <1>5 DEF StartEnable, Contents, Pointed
  <2> QED
    BY <2>1, <2>2, <2>3, <2>4
<1>6. CASE GetSize
  <2>1. pc \in {"sampling", "stopped"} /\ core \in Cores /\ bytesToCopy = 0
    BY <1>6 DEF GetSize, Positions, Pointed
  <2>2. /\ ptr[core] - lastCopied \in 0..Limit
        /\ bytesToCopy' = ptr[core] - lastCopied /\ size' = ptr[core] - lastCopied
    BY <1>6, <2>1 DEF GetSize, TypeOK, Positions, Pointed
  <2>3. TypeOK'
    BY <1>6, <2>2 DEF GetSize, TypeOK, Pointed
  <2>4. Positions' /\ Halted'
    BY <1>6, <2>1, <2>2 DEF GetSize, Positions, Halted, Pointed, TypeOK
  <2>5. Alone' /\ NotCutShort' /\ Contents'
    BY <1>6 DEF GetSize, Alone, NotCutShort, Contents, Pointed, InSession
  <2> QED
    BY <2>3, <2>4, <2>5
<1>7. CASE GetBuffer
    BY <1>7, GetBufferKeeps
<1>8. CASE StopUnit
  <2>1. TypeOK'
    BY <1>8 DEF StopUnit, TypeOK, Pointed
  <2>2. Positions' /\ Halted'
    BY <1>8 DEF StopUnit, Positions, Halted, Pointed, TypeOK
  <2>3. Alone' /\ NotCutShort' /\ Contents'
    BY <1>8 DEF StopUnit, Alone, NotCutShort, Contents, Pointed, InSession, TypeOK
  <2> QED
    BY <2>1, <2>2, <2>3
<1>9. CASE StopTimer
  <2>1. TypeOK'
    BY <1>9 DEF StopTimer, TypeOK, Pointed
  <2>2. Positions' /\ Halted' /\ Alone' /\ NotCutShort' /\ Contents'
    BY <1>9 DEF StopTimer, Positions, Halted, Alone, NotCutShort, Contents, Pointed, InSession
  <2> QED
    BY <2>1, <2>2
<1>10. CASE Leave
  <2>1. TypeOK'
    <3>1. buffer' \in Seq(Int) /\ trace' \in Seq(Nat) /\ size' \in 0..Limit /\ strayed' \in BOOLEAN
        BY <1>10, Ranges DEF Leave
    <3> QED
        BY <1>10, <3>1 DEF Leave, TypeOK
  <2> QED
    BY <1>10, <2>1 DEF Leave, Positions, Halted, Alone, Contents, NotCutShort, Pointed, InSession
<1>11. ASSUME NEW c \in Cores, Write(c) PROVE BufferInv'
    BY <1>11, WriteKeeps
<1>12. ASSUME NEW c \in Cores, Expire(c) PROVE BufferInv'
  <2>1. TypeOK'
    BY <1>12 DEF Expire, TypeOK
  <2> QED
    BY <1>12, <2>1 DEF Expire, Positions, Halted, Alone, Contents, NotCutShort
<1>13. ASSUME NEW c \in Cores, dpc_spe_overflow(c) PROVE BufferInv'
    BY <1>13, DpcKeeps
<1>14. CASE UNCHANGED vars
    BY <1>14 DEF vars, TypeOK, Positions, Halted, Alone, Contents, NotCutShort
<1> QED
    BY <1>1, <1>2, <1>3, <1>4, <1>5, <1>6, <1>7, <1>8, <1>9, <1>10, <1>11, <1>12, <1>13, <1>14
    DEF Next

\* BufferInv is an invariant of spe.c with any number of clients and of cores.
THEOREM Inductive == Spec => []BufferInv
    BY InitHolds, NextKeeps, PTL DEF Spec

\* Every variable stays in its range; spe_bytesToCopy never exceeds the buffer.
THEOREM Typing == Spec => []TypeOK
    BY Inductive, PTL DEF BufferInv

\* What is fetched and what is left to fetch is what the client's core wrote.
THEOREM NothingLost == Spec => []Conserved
<1>1. BufferInv => Conserved
  <2> SUFFICES ASSUME BufferInv, pc \in Pointed, ~strayed
               PROVE  buffer \o SubSeq(mem, lastCopied + 1, ptr[core]) = trace
    BY DEF Conserved
  <2> DEFINE m == lastCopied + 1
             n == ptr[core]
             rest == SubSeq(mem, m, n)
  <2>1. /\ core \in Cores /\ lastCopied \in 0..Limit /\ n \in 0..Limit /\ lastCopied <= n
        /\ Len(buffer) = lastCopied /\ Len(trace) = n
        /\ \A i \in 1..lastCopied : buffer[i] = i
        /\ \A i \in 1..n : trace[i] = i
        /\ \A i \in m..n : mem[i] = i
        /\ buffer \in Seq(Int) /\ trace \in Seq(Nat) /\ mem \in [1..Limit -> Int]
    BY DEF BufferInv, TypeOK, Positions, Contents, Pointed
  <2>2. m \in Int /\ n \in Int /\ n - m + 1 = n - lastCopied /\ \A i \in m..n : mem[i] \in Int
    BY <2>1
  <2> HIDE DEF m, n
  <2>3. /\ rest \in Seq(Int) /\ Len(rest) = (IF m <= n THEN n - m + 1 ELSE 0)
        /\ \A i \in 1..(n - m + 1) : rest[i] = mem[m + i - 1]
    BY <2>2, SubSeqProperties
  <2>4. /\ Len(rest) = n - lastCopied
        /\ \A i \in 1..(n - lastCopied) : rest[i] = lastCopied + i
    BY <2>1, <2>2, <2>3 DEF m
  <2> HIDE DEF rest
  <2>5. /\ buffer \o rest \in Seq(Int) /\ Len(buffer \o rest) = Len(buffer) + Len(rest)
        /\ \A i \in 1..(Len(buffer) + Len(rest)) :
             (buffer \o rest)[i] = IF i <= Len(buffer) THEN buffer[i] ELSE rest[i - Len(buffer)]
    <3>1. buffer \in Seq(Int) /\ rest \in Seq(Int)
        BY <2>1, <2>3
    <3> QED
        BY <3>1, ConcatProperties, Zenon
  <2>6. Len(buffer \o rest) = Len(trace) /\ \A i \in 1..Len(trace) : (buffer \o rest)[i] = trace[i]
    <3>1. Len(buffer) + Len(rest) = n /\ Len(buffer) = lastCopied /\ Len(trace) = n
        BY <2>1, <2>4
    <3>2. ASSUME NEW i \in 1..n PROVE (buffer \o rest)[i] = i
      <4>1. CASE i <= lastCopied
        BY <4>1, <3>1, <2>1, <2>5
      <4>2. CASE ~(i <= lastCopied)
        <5>1. i - lastCopied \in 1..(n - lastCopied) /\ lastCopied + (i - lastCopied) = i
            BY <4>2, <2>1
        <5> QED
            BY <5>1, <4>2, <3>1, <2>4, <2>5
      <4> QED
        BY <4>1, <4>2
    <3> QED
        BY <3>1, <3>2, <2>1, <2>5
  <2>7. trace \in Seq(Int)
    BY <2>1
  <2> QED
    BY <2>5, <2>6, <2>7, SeqEqual DEF rest, m, n
<1> QED
    BY <1>1, Inductive, PTL

\* GET_BUFFER stays within the buffer.
THEOREM NoOverrun == Spec => []CopiesInBounds
<1>1. BufferInv => CopiesInBounds
    BY DEF BufferInv, CopiesInBounds, Positions, TypeOK
<1> QED
    BY <1>1, Inductive, PTL

\* Sampling goes on as long as there is room.
THEOREM SamplingGoesOn == Spec => []NotCutShort
    BY Inductive, PTL DEF BufferInv

\* The two requests after STOP fetch the rest.
THEOREM Complete == Spec => []FetchedAll
<1>1. BufferInv => FetchedAll
  <2> SUFFICES ASSUME BufferInv, pc = "fetched", ~strayed PROVE buffer = trace
    BY DEF FetchedAll
  <2>1. Len(buffer) = Len(trace) /\ \A i \in 1..Len(trace) : buffer[i] = trace[i]
    BY DEF BufferInv, Halted, Contents, Pointed
  <2>2. buffer \in Seq(Int) /\ trace \in Seq(Int)
    BY DEF BufferInv, TypeOK
  <2> QED
    BY <2>1, <2>2, SeqEqual
<1> QED
    BY <1>1, Inductive, PTL
=================================================================================
