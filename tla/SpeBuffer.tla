-------------------------------- MODULE SpeBuffer --------------------------------
(* The driver's profiling buffer for the Statistical Profiling Extension (spe.c).   *)
(* A core's profiling unit writes records at PMBPTR_EL1, a client of wperf fetches  *)
(* them with pairs of GET_SIZE and GET_BUFFER, and a timer's DPC on the sampled      *)
(* core stops sampling when the buffer is full.  There is one buffer, one            *)
(* lastCopiedPtr and one spe_bytesToCopy for all cores.                              *)
(* Positions are counted in records from SpeMemoryBuffer, so that position p is      *)
(* mem[p + 1].  One client at a time uses SPE: what several do to each other for     *)
(* want of a lock is the subject of DriverLock.                                      *)
EXTENDS Integers, Sequences

CONSTANTS
    Cores,          \* cores with a profiling unit
    Limit,          \* SpeMemoryBufferLimit, in records
    Threshold,      \* SPE_BUFFER_THRESHOLD, in records
    Width,          \* addresses are unsigned numbers below Width
    MaxSessions,    \* bound: how many clients come one after another
    None            \* no core

ASSUME SpeAssumption ==
    /\ Limit \in Nat \ {0}
    /\ Threshold \in Nat
    /\ Width \in Nat
    /\ Limit + Threshold < Width
    /\ MaxSessions \in Nat
    /\ None \notin Cores

VARIABLES
    pc,                 \* where the client, or the driver on its behalf, is
    core,               \* the core the client samples
    sessions,           \* clients so far
    mem,                \* SpeMemoryBuffer
    lastCopied,         \* lastCopiedPtr
    bytesToCopy,        \* spe_bytesToCopy
    ptr,                \* PMBPTR_EL1 of each core
    enabled,            \* PMBLIMITR_EL1.E and PMSCR_EL1.{E0SPE,E1SPE} of each core
    full,               \* PMBSR_EL1.S of each core
    profiling_running,  \* spe_info[].profiling_running
    timer,              \* spe_info[].timer_running, and the timer is set
    queued,             \* spe_info[].dpc_overflow is in the core's DPC queue
    size,               \* the client's m_spe_size_to_copy
    buffer,             \* the client's m_spe_buffer
    trace,              \* history: what the client's core wrote since its START
    strayed             \* history: START found another core still writing

client == <<pc, core, sessions>>
copying == <<lastCopied, bytesToCopy>>
unit == <<ptr, enabled, full>>
watch == <<profiling_running, timer, queued>>
fetched == <<size, buffer>>
history == <<trace, strayed>>
vars == <<client, mem, copying, unit, watch, fetched, history>>

\* A zeroed record, and one written on behalf of an earlier client.
Zero == 0
Stray == -1

\* START has moved the pointer of the client's core to the start of the buffer.
Pointed == {"pointed", "sampling", "sized", "halted", "stopped", "last_sized", "fetched"}

\* The client is between START and STOP.
InSession == {"sampling", "sized"}

TypeOK ==
    /\ pc \in {"idle", "inited", "armed", "zeroed"} \union Pointed
    /\ core \in Cores \union {None}
    /\ sessions \in 0..MaxSessions
    /\ mem \in [1..Limit -> Int]
    /\ lastCopied \in 0..Limit
    /\ bytesToCopy \in 0..Limit
    /\ ptr \in [Cores -> 0..Limit]
    /\ enabled \in [Cores -> BOOLEAN]
    /\ full \in [Cores -> BOOLEAN]
    /\ profiling_running \in [Cores -> BOOLEAN]
    /\ timer \in [Cores -> BOOLEAN]
    /\ queued \in [Cores -> BOOLEAN]
    /\ size \in 0..Limit
    /\ buffer \in Seq(Int)
    /\ trace \in Seq(Nat)
    /\ strayed \in BOOLEAN

\* spe_setup: nothing runs.
Init ==
    /\ pc = "idle" /\ core = None /\ sessions = 0
    /\ mem = [i \in 1..Limit |-> Zero]
    /\ lastCopied = 0 /\ bytesToCopy = 0
    /\ ptr = [c \in Cores |-> 0]
    /\ enabled = [c \in Cores |-> FALSE]
    /\ full = [c \in Cores |-> FALSE]
    /\ profiling_running = [c \in Cores |-> FALSE]
    /\ timer = [c \in Cores |-> FALSE]
    /\ queued = [c \in Cores |-> FALSE]
    /\ size = 0 /\ buffer = << >>
    /\ trace = << >> /\ strayed = FALSE

---------------------------------------------------------------------------------
(* The client and the requests it makes.                                            *)

\* Mutant: a new client goes on where the last one stopped.
SpeInitContinues(c) ==
    /\ pc = "idle" /\ sessions < MaxSessions
    /\ pc' = "inited" /\ core' = c /\ sessions' = sessions + 1
    /\ bytesToCopy' = 0
    /\ size' = 0 /\ buffer' = << >>
    /\ trace' = << >> /\ strayed' = FALSE
    /\ UNCHANGED <<mem, lastCopied, unit, watch>>

\* A client comes; SPE_INIT is the first request it makes.
SpeInit(c) ==
    /\ pc = "idle" /\ sessions < MaxSessions
    /\ pc' = "inited" /\ core' = c /\ sessions' = sessions + 1
    /\ lastCopied' = 0 /\ bytesToCopy' = 0
    /\ size' = 0 /\ buffer' = << >>
    /\ trace' = << >> /\ strayed' = FALSE
    /\ UNCHANGED <<mem, unit, watch>>

\* SPE_START on the queue's thread: a timer still running is cancelled, which
\* leaves a DPC it has queued where it is, and set anew.
StartArm ==
    /\ pc = "inited"
    /\ pc' = "armed"
    /\ timer' = [timer EXCEPT ![core] = TRUE]
    /\ profiling_running' = [profiling_running EXCEPT ![core] = TRUE]
    /\ UNCHANGED <<core, sessions, mem, copying, unit, queued, fetched, history>>

\* SPE_START's work item zeroes the buffer,
StartZero ==
    /\ pc = "armed"
    /\ pc' = "zeroed"
    /\ mem' = [i \in 1..Limit |-> Zero]
    /\ UNCHANGED <<core, sessions, copying, unit, watch, fetched, history>>

\* then moves the pointer, with the unit in whatever state it was left,
StartPointer ==
    /\ pc = "zeroed"
    /\ pc' = "pointed"
    /\ ptr' = [ptr EXCEPT ![core] = 0]
    /\ strayed' = \E d \in Cores \ {core} : enabled[d] /\ ~full[d]
    /\ UNCHANGED <<core, sessions, mem, copying, enabled, full, watch, fetched, trace>>

\* and, filters set, clears the status and enables the unit.
StartEnable ==
    /\ pc = "pointed"
    /\ pc' = "sampling"
    /\ full' = [full EXCEPT ![core] = FALSE]
    /\ enabled' = [enabled EXCEPT ![core] = TRUE]
    /\ size' = 0
    /\ UNCHANGED <<core, sessions, mem, copying, ptr, watch, buffer, history>>

\* Mutant: the size is the distance from the start of the buffer.
GetSizeFromStart ==
    /\ \/ pc = "sampling" /\ pc' = "sized"
       \/ pc = "stopped" /\ pc' = "last_sized"
    /\ bytesToCopy' = bytesToCopy + ptr[core]
    /\ size' = bytesToCopy'
    /\ UNCHANGED <<core, sessions, mem, lastCopied, unit, watch, buffer, history>>

\* SPE_GET_SIZE, every second while sampling and once more after STOP.
GetSize ==
    /\ \/ pc = "sampling" /\ pc' = "sized"
       \/ pc = "stopped" /\ pc' = "last_sized"
    /\ bytesToCopy' = bytesToCopy + (ptr[core] - lastCopied)
    /\ size' = bytesToCopy'
    /\ UNCHANGED <<core, sessions, mem, lastCopied, unit, watch, buffer, history>>

\* Mutant: the running total is not cleared.
GetBufferKeepsTotal ==
    /\ \/ pc = "sized" /\ pc' = "sampling"
       \/ pc = "last_sized" /\ pc' = "fetched"
    /\ buffer' = buffer \o SubSeq(mem, lastCopied + 1, lastCopied + size)
    /\ lastCopied' = lastCopied + size
    /\ UNCHANGED <<core, sessions, mem, bytesToCopy, unit, watch, size, history>>

\* SPE_GET_BUFFER copies as much as the client asks for.
GetBuffer ==
    /\ \/ pc = "sized" /\ pc' = "sampling"
       \/ pc = "last_sized" /\ pc' = "fetched"
    /\ buffer' = buffer \o SubSeq(mem, lastCopied + 1, lastCopied + size)
    /\ lastCopied' = lastCopied + size
    /\ bytesToCopy' = 0
    /\ UNCHANGED <<core, sessions, mem, unit, watch, size, history>>

\* Mutant: the work item leaves the unit enabled.
StopUnitStatusOnly ==
    /\ pc = "sampling"
    /\ pc' = "halted"
    /\ full' = [full EXCEPT ![core] = FALSE]
    /\ UNCHANGED <<core, sessions, mem, copying, ptr, enabled, watch, fetched, history>>

\* SPE_STOP's work item disables the unit,
StopUnit ==
    /\ pc = "sampling"
    /\ pc' = "halted"
    /\ enabled' = [enabled EXCEPT ![core] = FALSE]
    /\ full' = [full EXCEPT ![core] = FALSE]
    /\ UNCHANGED <<core, sessions, mem, copying, ptr, watch, fetched, history>>

\* then the queue's thread cancels the timer, but not a DPC it has queued.
StopTimer ==
    /\ pc = "halted"
    /\ pc' = "stopped"
    /\ profiling_running' = [profiling_running EXCEPT ![core] = FALSE]
    /\ timer' = [timer EXCEPT ![core] = FALSE]
    /\ UNCHANGED <<core, sessions, mem, copying, unit, queued, fetched, history>>

\* The client exits, or dies between two requests; the driver does nothing about
\* SPE when a file is closed.
Leave ==
    /\ pc \in {"inited", "stopped", "last_sized", "fetched"} \union InSession
    /\ pc' = "idle" /\ core' = None
    /\ size' = 0 /\ buffer' = << >>
    /\ trace' = << >> /\ strayed' = FALSE
    /\ UNCHANGED <<sessions, mem, copying, unit, watch>>

---------------------------------------------------------------------------------
(* The cores.                                                                       *)

\* An enabled profiling unit writes a record and raises the buffer full event when
\* that was the last for which there is room (the Arm architecture's, not the driver's).
Write(c) ==
    LET mine == c = core /\ pc \in Pointed IN
    /\ enabled[c] /\ ~full[c]
    /\ IF ptr[c] < Limit
       THEN /\ mem' = [mem EXCEPT ![ptr[c] + 1] = IF mine THEN Len(trace) + 1 ELSE Stray]
            /\ ptr' = [ptr EXCEPT ![c] = @ + 1]
            /\ trace' = IF mine THEN Append(trace, Len(trace) + 1) ELSE trace
       ELSE UNCHANGED <<mem, ptr, trace>>
    /\ full' = [full EXCEPT ![c] = ptr'[c] = Limit]
    /\ UNCHANGED <<client, copying, enabled, watch, fetched, strayed>>

\* The periodic timer expires.
Expire(c) ==
    /\ timer[c] /\ ~queued[c]
    /\ queued' = [queued EXCEPT ![c] = TRUE]
    /\ UNCHANGED <<client, mem, copying, unit, profiling_running, timer, fetched, history>>

\* Mutant: the operands are swapped.
BufferNearlyFull(c) == ((Limit - ptr[c]) % Width) <= Threshold

\* currentBufferPtr - SpeMemoryBufferLimit <= SPE_BUFFER_THRESHOLD, unsigned.
BufferFull(c) == ((ptr[c] - Limit) % Width) <= Threshold

\* dpc_spe_overflow.
dpc_spe_overflow(c) ==
    /\ queued[c]
    /\ queued' = [queued EXCEPT ![c] = FALSE]
    /\ IF profiling_running[c] /\ BufferFull(c)
       THEN /\ enabled' = [enabled EXCEPT ![c] = FALSE]
            /\ full' = [full EXCEPT ![c] = FALSE]
            /\ profiling_running' = [profiling_running EXCEPT ![c] = FALSE]
       ELSE UNCHANGED <<enabled, full, profiling_running>>
    /\ UNCHANGED <<client, mem, copying, ptr, timer, fetched, history>>

Next ==
    \/ \E c \in Cores : SpeInit(c)
    \/ StartArm
    \/ StartZero
    \/ StartPointer
    \/ StartEnable
    \/ GetSize
    \/ GetBuffer
    \/ StopUnit
    \/ StopTimer
    \/ Leave
    \/ \E c \in Cores : Write(c)
    \/ \E c \in Cores : Expire(c)
    \/ \E c \in Cores : dpc_spe_overflow(c)

Spec == Init /\ [][Next]_vars

---------------------------------------------------------------------------------
(* Properties.                                                                      *)

\* What the client has fetched, followed by what lies between lastCopiedPtr and the
\* pointer, is what its core has written since START: no record is lost, fetched
\* twice, overwritten or left from an earlier client, however requests, writes and
\* DPCs interleave and wherever earlier clients died.  Exempt: a core that a dead
\* client left running writes into the one buffer while another core is sampled.
Conserved ==
    pc \in Pointed /\ ~strayed =>
        buffer \o SubSeq(mem, lastCopied + 1, ptr[core]) = trace

\* The last GET_SIZE and GET_BUFFER, after STOP, bring everything: wperf reports all
\* its core has written.
FetchedAll == pc = "fetched" /\ ~strayed => buffer = trace

\* GET_BUFFER never copies from beyond the limit, although the position it copies
\* from and the length come from different requests.
CopiesInBounds == pc \in {"sized", "last_sized"} => lastCopied + size <= Limit

\* While a client is in session its core samples as long as there is room: neither
\* the DPC, nor one left over from an earlier client, nor the status a full buffer
\* left behind cuts its sampling short.
NotCutShort ==
    pc \in InSession /\ ptr[core] < Limit => enabled[core] /\ ~full[core]
=================================================================================
