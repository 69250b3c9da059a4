---------------------- MODULE MultiplexDevice_proofs ----------------------
(***************************************************************************)
(* Two parts of the driver that share no state: event multiplexing, proved *)
(* for any number of counters and of events and for measurements of any    *)
(* length; and the life cycle of the device, for any number of cores and   *)
(* of files.                                                               *)
(***************************************************************************)
EXTENDS Multiplex, DeviceLife, FiniteSetTheorems, TLAPS

-----------------------------------------------------------------------------
(* Arithmetic of the rotating window.                                      *)

\* A count of turns, divided by the number of events.
LEMMA Division ==
  ASSUME NEW t \in Nat, NEW n \in Nat \ {0}
  PROVE  /\ t \div n \in Nat
         /\ (t % n) \in 0 .. (n - 1)
         /\ t = n * (t \div n) + (t % n)
<1>1. t \div n \in Nat
  OBVIOUS
<1>2. (t % n) \in 0 .. (n - 1)
  OBVIOUS
<1>3. t = n * (t \div n) + (t % n)
  BY Z3
<1> QED
  BY <1>1, <1>2, <1>3

\* Quotient and remainder are the only numbers of that kind.
LEMMA DivisionUnique ==
  ASSUME NEW n \in Nat \ {0}, NEW q \in Nat, NEW s \in 0 .. (n - 1)
  PROVE  (n * q + s) % n = s /\ (n * q + s) \div n = q
<1>1. (n * q + s) % n = s
  OBVIOUS
<1>2. (n * q + s) \div n = q
  OBVIOUS
<1> QED
  BY <1>1, <1>2

\* Advancing by fewer turns than there are events wraps at most once.
LEMMA Advance ==
  ASSUME NEW n \in Nat \ {0}, NEW t \in Nat, NEW g \in 0 .. (n - 1)
  PROVE  IF (t % n) + g < n
           THEN (t + g) % n = (t % n) + g /\ (t + g) \div n = t \div n
           ELSE (t + g) % n = (t % n) + g - n /\ (t + g) \div n = t \div n + 1
<1> DEFINE q == t \div n
           s == (t % n)
<1>1. q \in Nat /\ s \in 0 .. (n - 1) /\ t = n * q + s
  BY Division
<1> HIDE DEF q, s
<1>2. CASE s + g < n
  <2>1. t + g = n * q + (s + g) /\ s + g \in 0 .. (n - 1)
    BY <1>1, <1>2
  <2>2. (t + g) % n = s + g /\ (t + g) \div n = q
    BY <1>1, <2>1, DivisionUnique
  <2> QED
    BY <1>2, <2>2 DEF q, s
<1>3. CASE ~(s + g < n)
  <2> DEFINE p == q + 1
             r == s + g - n
  <2>1. p \in Nat /\ r \in 0 .. (n - 1) /\ t + g = n * p + r
    BY <1>1, <1>3
  <2> HIDE DEF p, r
  <2>2. (t + g) % n = r /\ (t + g) \div n = p
    BY <2>1, DivisionUnique
  <2> QED
    BY <1>3, <2>2 DEF q, s, p, r
<1> QED
  BY <1>2, <1>3

\* Counter turns handed out so far.
Turns == numFreeGPC * timer_round

\* The window of a round is numFreeGPC events in a row, wrapped round.
LEMMA WindowMembers ==
  ASSUME numEvents \in Nat, numEvents > numFreeGPC, timer_round \in Nat,
         NEW e \in 0 .. (numEvents - 1)
  PROVE  (\E i \in GPCs : Window(timer_round, i) = e) <=>
           \/ (Turns % numEvents) <= e /\ e < (Turns % numEvents) + numFreeGPC
           \/ e + numEvents < (Turns % numEvents) + numFreeGPC
<1> DEFINE n == numEvents
           s == (Turns % numEvents)
<1>1. /\ n \in Nat \ {0} /\ s \in 0 .. (n - 1) /\ numFreeGPC \in Nat \ {0}
      /\ n > numFreeGPC /\ e \in 0 .. (n - 1)
  <2>1. n \in Nat \ {0} /\ Turns \in Nat
    BY numFreeGPCAssumption DEF Turns
  <2> QED
    BY <2>1, Division, numFreeGPCAssumption
<1>2. \A i \in GPCs : Window(timer_round, i) = (s + i) % n
  BY DEF Window, Turns
<1> HIDE DEF n, s
<1>3. \A i \in GPCs : Window(timer_round, i) = IF s + i < n THEN s + i ELSE s + i - n
  <2> TAKE i \in GPCs
  <2>1. i \in 0 .. (n - 1)
    BY <1>1 DEF GPCs
  <2>2. s \in Nat /\ (s % n) = s
    BY <1>1
  <2>3. (s + i) % n = IF (s % n) + i < n THEN (s % n) + i ELSE (s % n) + i - n
    BY <1>1, <2>1, <2>2, Advance
  <2> QED
    BY <1>2, <2>2, <2>3
<1>4. ASSUME s <= e, e < s + numFreeGPC PROVE \E i \in GPCs : Window(timer_round, i) = e
  <2>1. e - s \in GPCs /\ s + (e - s) = e
    BY <1>1, <1>4 DEF GPCs
  <2> QED
    BY <1>1, <1>3, <2>1
<1>5. ASSUME e + n < s + numFreeGPC PROVE \E i \in GPCs : Window(timer_round, i) = e
  <2>1. e + n - s \in GPCs /\ s + (e + n - s) = e + n
    BY <1>1, <1>5 DEF GPCs
  <2> QED
    BY <1>1, <1>3, <2>1
<1>6. ASSUME NEW i \in GPCs, Window(timer_round, i) = e
      PROVE  (s <= e /\ e < s + numFreeGPC) \/ e + n < s + numFreeGPC
  BY <1>1, <1>3, <1>6 DEF GPCs
<1> QED
  BY <1>1, <1>4, <1>5, <1>6 DEF n, s

-----------------------------------------------------------------------------
\* Whatever is assigned, in whatever order measurements, clients and ticks
\* come, every register and count keeps its type: in particular no window
\* reaches past the assigned events.
THEOREM Typing == MultiplexSpec => []MultiplexTypes
<1>1. MultiplexInit => MultiplexTypes
  BY numFreeGPCAssumption, MaxEventsAssumption DEF MultiplexInit, MultiplexTypes
<1>2. MultiplexTypes /\ [MultiplexNext]_multiplexVars => MultiplexTypes'
  <2> SUFFICES ASSUME MultiplexTypes, [MultiplexNext]_multiplexVars PROVE MultiplexTypes'
    OBVIOUS
  <2> USE numFreeGPCAssumption, MaxEventsAssumption DEF MultiplexTypes
  <2>1. ASSUME NEW n \in 1 .. MaxEvents, AssignEvents(n) PROVE MultiplexTypes'
    BY <2>1 DEF AssignEvents, Events, GPCs
  <2>2. CASE Reset
    BY <2>2 DEF Reset
  <2>3. CASE Start
    BY <2>3 DEF Start
  <2>4. ASSUME Credit
        PROVE  /\ scheduled' \in [Events -> Nat]
               /\ value' \in [Events -> SUBSET (Events \cup {Default})]
    BY <2>4 DEF Credit
  <2>5. CASE MultiplexTick
    <3>1. \A i \in GPCs : Window(timer_round + 1, i) \in 0 .. (numEvents - 1)
      <4> TAKE i \in GPCs
      <4>1. numFreeGPC * (timer_round + 1) \in Nat
        OBVIOUS
      <4>2. (numFreeGPC * (timer_round + 1)) % numEvents \in Nat
        BY <4>1, Division
      <4>3. ((numFreeGPC * (timer_round + 1)) % numEvents) + i \in Nat
        BY <4>2 DEF GPCs
      <4> QED
        BY <4>3, Division DEF Window
    <3>2. 0 .. (numEvents - 1) \subseteq Events
      BY DEF Events
    <3> QED
      BY <2>4, <2>5, <3>1, <3>2 DEF MultiplexTick
  <2>6. CASE OverflowTick
    BY <2>4, <2>6 DEF OverflowTick
  <2>7. CASE Stop
    BY <2>7 DEF Stop
  <2>8. CASE NextClient
    BY <2>8 DEF NextClient
  <2>9. CASE TakeOver
    BY <2>9 DEF TakeOver
  <2>10. CASE UNCHANGED multiplexVars
    BY <2>10 DEF multiplexVars
  <2> QED
    BY <2>1, <2>2, <2>3, <2>5, <2>6, <2>7, <2>8, <2>9, <2>10 DEF MultiplexNext
<1> QED
  BY <1>1, <1>2, PTL DEF MultiplexSpec

-----------------------------------------------------------------------------
\* The exact number of rounds an event has been counted in: the inductive
\* invariant behind FairShare.
ShareInv == Measured /\ Multiplexing =>
              \A e \in Assigned :
                 scheduled[e] = (Turns \div numEvents) + (IF e < (Turns % numEvents) THEN 1 ELSE 0)

\* A tick moves the quotient and the remainder exactly as the window moves.
LEMMA TickKeepsShare ==
  ASSUME MultiplexTypes, ShareInv, MultiplexTick
  PROVE  ShareInv'
<1> USE numFreeGPCAssumption
<1> DEFINE n == numEvents
           t == Turns
           s == (t % n)
           q == t \div n
<1>1. n \in Nat \ {0} /\ n > numFreeGPC /\ numFreeGPC \in 0 .. (n - 1) /\ n <= MaxEvents
  BY MaxEventsAssumption DEF MultiplexTypes, MultiplexTick, Multiplexing
<1>2. t \in Nat /\ timer_round \in Nat
  BY DEF MultiplexTypes, Turns
<1>3. q \in Nat /\ s \in 0 .. (n - 1)
  BY <1>1, <1>2, Division
<1>4. Turns' = t + numFreeGPC /\ numEvents' = n
  BY <1>2 DEF MultiplexTick, Turns
<1>5. ASSUME NEW e \in 0 .. (n - 1)
      PROVE  scheduled'[e] = (Turns' \div n) + (IF e < (Turns' % n) THEN 1 ELSE 0)
  <2> DEFINE counted == \/ s <= e /\ e < s + numFreeGPC
                        \/ e + n < s + numFreeGPC
  <2>1. (\E i \in GPCs : CountedBy(timer_round, e, i)) <=> counted
    <3>1. (\E i \in GPCs : Window(timer_round, i) = e) <=> counted
      BY <1>1, <1>2, WindowMembers
    <3> QED
      BY <3>1 DEF CountedBy, MultiplexTick
  <2>2. e \in Events /\ e \in Assigned
    BY <1>1, MaxEventsAssumption DEF Events, Assigned
  <2>3. scheduled[e] = q + (IF e < s THEN 1 ELSE 0)
    BY <2>2 DEF ShareInv, MultiplexTick, Measured
  <2>4. scheduled'[e] = IF counted THEN scheduled[e] + 1 ELSE scheduled[e]
    BY <2>1, <2>2 DEF MultiplexTick, Credit
  <2>5. IF s + numFreeGPC < n
          THEN (Turns' % n) = s + numFreeGPC /\ Turns' \div n = q
          ELSE (Turns' % n) = s + numFreeGPC - n /\ Turns' \div n = q + 1
    BY <1>1, <1>2, <1>4, Advance
  <2> HIDE DEF n, s, q
  <2> QED
    BY <1>1, <1>3, <2>3, <2>4, <2>5
<1> QED
  BY <1>4, <1>5 DEF ShareInv, Assigned

LEMMA ShareInvStep == MultiplexTypes /\ ShareInv /\ [MultiplexNext]_multiplexVars => ShareInv'
<1> SUFFICES ASSUME MultiplexTypes, ShareInv, [MultiplexNext]_multiplexVars PROVE ShareInv'
  OBVIOUS
<1>1. ASSUME NEW n \in 1 .. MaxEvents, AssignEvents(n) PROVE ShareInv'
  BY <1>1 DEF AssignEvents, ShareInv, Measured
<1>2. CASE Reset
  <2>1. Turns' = 0 /\ numEvents' = numEvents /\ numEvents \in Nat \ {0} /\ MaxEvents \in Nat
    BY <1>2, numFreeGPCAssumption, MaxEventsAssumption DEF Reset, Turns, MultiplexTypes
  <2>2. Turns' \div numEvents = 0 /\ (Turns' % numEvents) = 0
    BY <2>1
  <2>3. \A e \in Assigned : e \in Events /\ scheduled'[e] = 0 /\ ~(e < 0)
    BY <1>2, <2>1 DEF Reset, Assigned, Events, MultiplexTypes
  <2> QED
    BY <2>1, <2>2, <2>3 DEF ShareInv, Assigned
<1>3. CASE Start
  BY <1>3 DEF Start, ShareInv, Measured, Multiplexing, Assigned, Turns
<1>4. CASE MultiplexTick
  BY <1>4, TickKeepsShare
<1>5. CASE OverflowTick
  BY <1>5 DEF OverflowTick, ShareInv, Multiplexing
<1>6. CASE Stop
  BY <1>6 DEF Stop, ShareInv, Measured, Multiplexing, Assigned, Turns
<1>7. CASE NextClient \/ TakeOver
  BY <1>7 DEF NextClient, TakeOver, ShareInv, Measured
<1>8. CASE UNCHANGED multiplexVars
  BY <1>8 DEF multiplexVars, ShareInv, Measured, Multiplexing, Assigned, Turns
<1> QED
  BY <1>1, <1>2, <1>3, <1>4, <1>5, <1>6, <1>7, <1>8 DEF MultiplexNext

\* Multiplexing shares the counters evenly among any number of events, at any
\* moment of a measurement of any length: no event starves and the ratio the
\* scaled value uses is off by less than one round.
THEOREM Fairness == MultiplexSpec => []FairShare
<1>1. MultiplexInit => ShareInv
  BY DEF MultiplexInit, ShareInv, Measured
<1>2. MultiplexTypes /\ ShareInv => FairShare
  <2> SUFFICES ASSUME MultiplexTypes, ShareInv, Measured, Multiplexing, NEW e \in Assigned
               PROVE  /\ numEvents * scheduled[e] < numFreeGPC * timer_round + numEvents
                      /\ numEvents * scheduled[e] > numFreeGPC * timer_round - numEvents
    BY DEF FairShare
  <2> DEFINE n == numEvents
             q == Turns \div n
             s == (Turns % n)
  <2>1. n \in Nat \ {0} /\ Turns \in Nat /\ Turns = numFreeGPC * timer_round
    BY numFreeGPCAssumption, MaxEventsAssumption DEF MultiplexTypes, Turns
  <2>2. q \in Nat /\ s \in 0 .. (n - 1) /\ Turns = n * q + s
    BY <2>1, Division
  <2>3. e \in Nat /\ scheduled[e] = q + (IF e < s THEN 1 ELSE 0)
    BY <2>1 DEF ShareInv, Assigned
  <2> HIDE DEF n, q, s
  <2>4. CASE e < s
    <3>1. n * scheduled[e] = n * q + n
      BY <2>1, <2>2, <2>3, <2>4
    <3> QED
      BY <2>1, <2>2, <2>3, <2>4, <3>1 DEF n
  <2>5. CASE ~(e < s)
    <3>1. n * scheduled[e] = n * q
      BY <2>2, <2>3, <2>5
    <3> QED
      BY <2>1, <2>2, <2>3, <2>5, <3>1 DEF n
  <2> QED
    BY <2>4, <2>5
<1> QED
  BY <1>1, <1>2, ShareInvStep, Typing, PTL DEF MultiplexSpec

-----------------------------------------------------------------------------
\* A boundary between groups of f separates no two members of a group.
LEMMA GroupBoundary ==
  ASSUME NEW f \in Nat \ {0}, NEW k \in Int, NEW d \in Nat
  PROVE  d < f * k <=> d \div f < k
<1> DEFINE a == d \div f
           b == d % f
<1>1. a \in Nat /\ b \in 0 .. (f - 1) /\ d = f * a + b
  BY Division
<1> HIDE DEF a, b
<1>2. CASE a < k
  <2>1. k - a - 1 \in Nat
    BY <1>1, <1>2
  <2>2. f * (k - a - 1) >= 0
    BY <2>1
  <2>3. f * (k - a - 1) = f * k - f * a - f
    BY <1>1
  <2> QED
    BY <1>1, <1>2, <2>2, <2>3 DEF a
<1>3. CASE a >= k
  <2>1. f * (a - k) >= 0
    BY <1>1, <1>3
  <2>2. f * (a - k) = f * a - f * k
    BY <1>1
  <2> QED
    BY <1>1, <1>3, <2>1, <2>2 DEF a
<1> QED
  BY <1>1, <1>2, <1>3

\* When the events come in whole groups of numFreeGPC the window only ever begins
\* where a group begins, for any number of groups and rounds: the events of a
\* group, a metric's for example, are counted in the same rounds.
THEOREM GroupsStayTogether == MultiplexSpec => []GroupsCountTogether
<1>1. MultiplexInit => ShareInv
  BY DEF MultiplexInit, ShareInv, Measured
<1>2. MultiplexTypes /\ ShareInv => GroupsCountTogether
  <2> SUFFICES ASSUME MultiplexTypes, ShareInv, Measured, Multiplexing, (numEvents % numFreeGPC) = 0,
                      NEW d \in Assigned, NEW e \in Assigned,
                      d \div numFreeGPC = e \div numFreeGPC
               PROVE  scheduled[d] = scheduled[e]
    BY DEF GroupsCountTogether
  <2> DEFINE f == numFreeGPC
             n == numEvents
             g == n \div f
             q == Turns \div n
             s == (Turns % n)
             k == timer_round - g * q
  <2>1. /\ f \in Nat \ {0} /\ n \in Nat \ {0} /\ timer_round \in Nat
        /\ Turns \in Nat /\ Turns = f * timer_round
    BY numFreeGPCAssumption, MaxEventsAssumption DEF MultiplexTypes, Turns
  <2>2. g \in Nat /\ n = f * g
    <3>1. n \div f \in Nat /\ n = f * (n \div f) + (n % f) /\ (n % f) = 0
      <4> HIDE DEF n, f
      <4>1. n \div f \in Nat /\ n = f * (n \div f) + (n % f)
        BY <2>1, Division
      <4> QED
        BY <4>1 DEF n, f
    <3> HIDE DEF n, f
    <3>2. f * (n \div f) \in Nat
      BY <2>1, <3>1
    <3> QED
      BY <2>1, <3>1, <3>2
  <2>3. q \in Nat /\ Turns = n * q + s /\ s \in Nat
    <3> HIDE DEF n
    <3>1. /\ Turns \div n \in Nat /\ (Turns % n) \in 0 .. (n - 1)
          /\ Turns = n * (Turns \div n) + (Turns % n)
      BY <2>1, Division
    <3> QED
      BY <2>1, <3>1
  <2>4. d \in Nat /\ e \in Nat
    BY DEF Assigned
  <2>5. /\ scheduled[d] = q + (IF d < s THEN 1 ELSE 0)
        /\ scheduled[e] = q + (IF e < s THEN 1 ELSE 0)
    BY DEF ShareInv
  <2> HIDE DEF f, n, g, q, s
  <2>6. k \in Int /\ s = f * k
    <3>1. f * (timer_round - g * q) = f * timer_round - (f * g) * q
      BY <2>1, <2>2, <2>3
    <3> QED
      BY <2>1, <2>2, <2>3, <3>1
  <2>7. d < s <=> e < s
    <3> HIDE DEF k
    <3>1. (d < f * k <=> d \div f < k) /\ (e < f * k <=> e \div f < k)
      BY <2>1, <2>4, <2>6, GroupBoundary
    <3> QED
      BY <2>6, <3>1 DEF f
  <2> QED
    BY <2>5, <2>7
<1> QED
  BY <1>1, <1>2, ShareInvStep, Typing, PTL DEF MultiplexSpec

-----------------------------------------------------------------------------
\* In a single measurement the counters are always programmed for the window
\* the driver will credit next: the strengthening TrueCounts needs.
WindowInv ==
  /\ TrueCounts
  /\ phase \in {"ready", "reset"} => \A i \in GPCs : i < numEvents => programmed[i] = i
  /\ phase = "reset" => timer_round = 0
  /\ phase = "counting" =>
       \A i \in GPCs : IF Multiplexing THEN programmed[i] = Window(timer_round, i)
                                       ELSE i < numEvents => programmed[i] = i

\* A credit of counters programmed for this round is a true one.
LEMMA CreditIsTrue ==
  ASSUME MultiplexTypes, WindowInv, phase = "counting", Credit
  PROVE  TrueCounts'
<1> SUFFICES ASSUME NEW e \in Events PROVE value'[e] \subseteq {e}
  BY DEF TrueCounts
<1>1. value[e] \subseteq {e}
  BY DEF WindowInv, TrueCounts
<1>2. ASSUME NEW i \in GPCs, e \in Assigned, CountedBy(timer_round, e, i)
      PROVE  programmed[i] = e
  <2>1. e < numEvents
    BY <1>2 DEF Assigned, MultiplexTypes
  <2> QED
    BY <1>2, <2>1 DEF CountedBy, WindowInv
<1>3. value'[e] = value[e] \cup
        {programmed[i] : i \in {j \in GPCs : e \in Assigned /\ CountedBy(timer_round, e, j)}}
  BY DEF Credit
<1> QED
  BY <1>1, <1>2, <1>3

LEMMA WindowInvStep ==
  ASSUME ~Timeline
  PROVE  MultiplexTypes /\ WindowInv /\ [MultiplexNext]_multiplexVars => WindowInv'
<1> SUFFICES ASSUME MultiplexTypes, WindowInv, [MultiplexNext]_multiplexVars PROVE WindowInv'
  OBVIOUS
<1>1. ASSUME NEW n \in 1 .. MaxEvents, AssignEvents(n) PROVE WindowInv'
  BY <1>1 DEF AssignEvents, WindowInv, TrueCounts, MultiplexTypes
<1>2. CASE Reset
  BY <1>2 DEF Reset, WindowInv, TrueCounts, MultiplexTypes
<1>3. CASE Start
  <2>1. timer_round = 0 /\ \A i \in GPCs : i < numEvents => programmed[i] = i
    BY <1>3 DEF Start, WindowInv
  <2>2. ASSUME Multiplexing, NEW i \in GPCs PROVE i < numEvents /\ Window(0, i) = i
    <3>1. /\ numEvents \in Nat \ {0} /\ numFreeGPC \in Nat \ {0} /\ numFreeGPC < numEvents
          /\ i \in 0 .. (numEvents - 1)
      BY <2>2, numFreeGPCAssumption, MaxEventsAssumption DEF MultiplexTypes, Multiplexing, GPCs
    <3>2. (numFreeGPC * 0) % numEvents = 0 /\ (0 + i) % numEvents = i
      BY <3>1
    <3> QED
      BY <3>1, <3>2 DEF Window
  <2>3. TrueCounts' /\ phase' = "counting"
    BY <1>3 DEF Start, WindowInv, TrueCounts
  <2>4. \A i \in GPCs : IF Multiplexing THEN programmed[i] = Window(0, i)
                                        ELSE i < numEvents => programmed[i] = i
    BY <2>1, <2>2
  <2>5. (\A i \in GPCs : IF Multiplexing THEN programmed[i] = Window(timer_round, i)
                                         ELSE i < numEvents => programmed[i] = i)'
    BY <1>3, <2>1, <2>4 DEF Start, Multiplexing, Window
  <2> QED
    BY <2>3, <2>5 DEF WindowInv
<1>4. CASE MultiplexTick
  <2>1. TrueCounts'
    BY <1>4, CreditIsTrue DEF MultiplexTick
  <2>2. (\A i \in GPCs : programmed[i] = Window(timer_round, i))'
    BY <1>4 DEF MultiplexTick, Window
  <2>3. Multiplexing' /\ phase' = "counting"
    BY <1>4 DEF MultiplexTick, Multiplexing
  <2> QED
    BY <2>1, <2>2, <2>3 DEF WindowInv
<1>5. CASE OverflowTick
  <2>1. TrueCounts'
    BY <1>5, CreditIsTrue DEF OverflowTick
  <2> QED
    BY <1>5, <2>1 DEF OverflowTick, WindowInv, Multiplexing
<1>6. CASE Stop \/ TakeOver
  BY <1>6 DEF Stop, TakeOver, WindowInv, TrueCounts
<1>7. CASE NextClient
  BY <1>7 DEF NextClient, WindowInv, TrueCounts
<1>8. CASE UNCHANGED multiplexVars
  BY <1>8 DEF multiplexVars, WindowInv, TrueCounts, Multiplexing, Window
<1> QED
  BY <1>1, <1>2, <1>3, <1>4, <1>5, <1>6, <1>7, <1>8 DEF MultiplexNext

\* wperf stat without -t: every count reported for an event was counted on that
\* event, for any numbers of events and counters.  With -t it does not hold,
\* since RESET winds timer_round back and leaves the counters as they are.
THEOREM Attribution ==
  ASSUME ~Timeline
  PROVE  MultiplexSpec => []TrueCounts
<1>1. MultiplexInit => WindowInv
  BY DEF MultiplexInit, WindowInv, TrueCounts
<1>2. WindowInv => TrueCounts
  BY DEF WindowInv
<1>3. MultiplexTypes /\ WindowInv /\ [MultiplexNext]_multiplexVars => WindowInv'
  BY WindowInvStep
<1> QED
  BY <1>1, <1>2, <1>3, Typing, PTL DEF MultiplexSpec

-----------------------------------------------------------------------------
(* The life cycle of the device: the inductive invariants.                  *)

\* Once the queue is stopped and waited for, its thread is idle and is given
\* nothing more; the cores that IOCleanup has visited stay quiet.
CleanInv ==
  /\ pnp \in {"cancelling", "freeing"} => at < numCores
  /\ pnp \in {"suspending", "leaving", "cleaning", "freeing"} => queue # "started"
  /\ pnp \in {"cleaning", "freeing"} => handler = Idle
  /\ pnp \in {"cleaning", "freeing"} => \A c \in 0 .. (at - 1) : ~armed[c] /\ ~queued[c]
  /\ pnp = "freeing" => ~armed[at]
  /\ core_info = "freed" => pnp = "gone" /\ queue # "started"
  /\ FreedIsQuiet

Held == {f \in Files : file[f] \in {"open", "closing"}}

\* Where no two file callbacks overlapped, at most one is under way, what it has
\* read of InUse is still InUse, and InUse is the number of handles.
CountInv ==
  ~overlapped =>
    /\ \A f, g \in Files : {file[f], file[g]} \subseteq {"creating", "closing"} => f = g
    /\ \A f \in Files : file[f] \in {"creating", "closing"} => loaded[f] = InUse
    /\ InUse = Cardinality(Held)

DeviceInv == TypeOK /\ CleanInv /\ CountInv /\ StallHolds
-----------------------------------------------------------------------------
(* The steps.  Each lemma takes every action on its own, then the stutter.  *)

\* What a USHORT makes of a number.
LEMMA Wraps ==
    ASSUME NEW x \in Int, Width \in Nat \ {0}
    PROVE  /\ (x % Width) \in 0 .. (Width - 1)
           /\ x \in 0 .. (Width - 1) => (x % Width) = x
OBVIOUS

\* There are never as many handles as a USHORT has values.
LEMMA HeldCounts == /\ IsFiniteSet(Held)
                    /\ Cardinality(Held) \in Nat
                    /\ Cardinality(Held) < Width
BY SizesAssumption, FS_Subset, FS_CardinalityType DEF Held

\* However far creation gets, it leaves a device that waits or none.
LEMMA Creation ==
    ASSUME WindowsPerfDeviceCreate
    PROVE  /\ pnp = "absent" /\ pnp' \in {"created", "gone"}
           /\ queue' = "stopped" /\ core_info' \in {"none", "live"}
           /\ queued' \in [Cores -> BOOLEAN]
           /\ UNCHANGED <<at, flagVars, fileVars, handler, status, armed, exec, history>>
<1>1. PICK fails \in {"no PMU", "core_info", "later", "never"} :
        /\ pnp' = IF fails = "never" THEN "created" ELSE "gone"
        /\ core_info' = IF fails \in {"later", "never"} THEN "live" ELSE "none"
        /\ queued' \in [Cores -> BOOLEAN]
    BY DEF WindowsPerfDeviceCreate
<1> QED
    BY <1>1 DEF WindowsPerfDeviceCreate

\* Every action keeps every variable in its range; InUse wraps.
LEMMA TypingStep ==
    ASSUME TypeOK, CleanInv, [Next]_vars
    PROVE  TypeOK'
<1> USE SizesAssumption DEF TypeOK, CleanInv, Cores, Idle, pnpVars, flagVars,
              fileVars, dpcVars, history
<1>1. CASE WindowsPerfDeviceCreate
    BY <1>1, Creation
<1>2. CASE WindowsPerfEvtDeviceSelfManagedIoStart
    BY <1>2 DEF WindowsPerfEvtDeviceSelfManagedIoStart
<1>3. CASE AskRemove
    BY <1>3 DEF AskRemove
<1>4. CASE HandlesClosed
    BY <1>4 DEF HandlesClosed
<1>5. CASE WaitEnds
    BY <1>5 DEF WaitEnds
<1>6. CASE RemoveDpcs
    BY <1>6 DEF RemoveDpcs
<1>7. CASE CancelTimer
    BY <1>7 DEF CancelTimer
<1>8. CASE FlushWorkItem
    BY <1>8 DEF FlushWorkItem
<1>9. CASE CancelRemove
    BY <1>9 DEF CancelRemove
<1>10. CASE BeginSuspend
    BY <1>10 DEF BeginSuspend
<1>11. CASE Suspended
    BY <1>11 DEF Suspended
<1>12. CASE CleanCore
    BY <1>12 DEF CleanCore
<1>13. CASE CleanDpcs
    BY <1>13 DEF CleanDpcs
<1>14. CASE FreeCores
    BY <1>14 DEF FreeCores
<1>15. CASE StartPmu
    BY <1>15 DEF StartPmu
<1>16. CASE StartTimers
    BY <1>16 DEF StartTimers
<1>17. CASE StopTimers
    BY <1>17 DEF StopTimers
<1>18. CASE ReleaseTimers
    BY <1>18 DEF ReleaseTimers
<1>19. ASSUME NEW f \in Files, FileCreate(f) PROVE TypeOK'
    BY <1>19 DEF FileCreate
<1>20. ASSUME NEW f \in Files, FileCreated(f) PROVE TypeOK'
    BY <1>20 DEF FileCreated
<1>21. ASSUME NEW f \in Files, FileClose(f) PROVE TypeOK'
    BY <1>21 DEF FileClose
<1>22. ASSUME NEW f \in Files, FileClosed(f) PROVE TypeOK'
    BY <1>22 DEF FileClosed
<1>23. ASSUME NEW f \in Files, WindowsPerfEvtDeviceControl(f) PROVE TypeOK'
    BY <1>23 DEF WindowsPerfEvtDeviceControl
<1>24. ASSUME NEW c \in Cores, TimerFires(c) PROVE TypeOK'
    BY <1>24 DEF TimerFires
<1>25. ASSUME NEW c \in Cores, DpcBegins(c) PROVE TypeOK'
    BY <1>25 DEF DpcBegins
<1>26. ASSUME NEW c \in Cores, DpcEnds(c) PROVE TypeOK'
    BY <1>26 DEF DpcEnds
<1>27. CASE UNCHANGED vars
    BY <1>27 DEF vars
<1> QED
    BY <1>1, <1>2, <1>3, <1>4, <1>5, <1>6, <1>7, <1>8, <1>9, <1>10, <1>11,
       <1>12, <1>13, <1>14, <1>15, <1>16, <1>17, <1>18, <1>19, <1>20, <1>21,
       <1>22, <1>23, <1>24, <1>25, <1>26, <1>27 DEF Next, Pnp, Handler,
       FileCallback, WindowsPerfDeviceQueryRemove, WindowsPerfDeviceIOCleanup

\* Nothing arms a timer, queues a DPC or takes up an IOCTL behind IOCleanup: the
\* queue is stopped by then, and each core's timer goes before its DPCs.
LEMMA CleanStep ==
    ASSUME TypeOK, CleanInv, [Next]_vars
    PROVE  CleanInv'
<1> USE SizesAssumption DEF TypeOK, CleanInv, FreedIsQuiet, Cores, Idle,
              Present, pnpVars, flagVars, fileVars, dpcVars, history
<1>1. CASE WindowsPerfDeviceCreate
    BY <1>1, Creation
<1>2. CASE WindowsPerfEvtDeviceSelfManagedIoStart
    BY <1>2 DEF WindowsPerfEvtDeviceSelfManagedIoStart
<1>3. CASE AskRemove
    BY <1>3 DEF AskRemove
<1>4. CASE HandlesClosed
    BY <1>4 DEF HandlesClosed
<1>5. CASE WaitEnds
    BY <1>5 DEF WaitEnds
<1>6. CASE RemoveDpcs
    BY <1>6 DEF RemoveDpcs
<1>7. CASE CancelTimer
    BY <1>7 DEF CancelTimer
<1>8. CASE FlushWorkItem
    BY <1>8 DEF FlushWorkItem
<1>9. CASE CancelRemove
    BY <1>9 DEF CancelRemove
<1>10. CASE BeginSuspend
    BY <1>10 DEF BeginSuspend
<1>11. CASE Suspended
    BY <1>11 DEF Suspended
<1>12. CASE CleanCore
    BY <1>12 DEF CleanCore
<1>13. CASE CleanDpcs
    BY <1>13 DEF CleanDpcs
<1>14. CASE FreeCores
    BY <1>14 DEF FreeCores
<1>15. CASE StartPmu
    BY <1>15 DEF StartPmu
<1>16. CASE StartTimers
    BY <1>16 DEF StartTimers
<1>17. CASE StopTimers
    BY <1>17 DEF StopTimers
<1>18. CASE ReleaseTimers
    BY <1>18 DEF ReleaseTimers
<1>19. ASSUME NEW f \in Files, FileCreate(f) PROVE CleanInv'
    BY <1>19 DEF FileCreate
<1>20. ASSUME NEW f \in Files, FileCreated(f) PROVE CleanInv'
    BY <1>20 DEF FileCreated
<1>21. ASSUME NEW f \in Files, FileClose(f) PROVE CleanInv'
    BY <1>21 DEF FileClose
<1>22. ASSUME NEW f \in Files, FileClosed(f) PROVE CleanInv'
    BY <1>22 DEF FileClosed
<1>23. ASSUME NEW f \in Files, WindowsPerfEvtDeviceControl(f) PROVE CleanInv'
    BY <1>23 DEF WindowsPerfEvtDeviceControl
<1>24. ASSUME NEW c \in Cores, TimerFires(c) PROVE CleanInv'
    BY <1>24 DEF TimerFires
<1>25. ASSUME NEW c \in Cores, DpcBegins(c) PROVE CleanInv'
    BY <1>25 DEF DpcBegins
<1>26. ASSUME NEW c \in Cores, DpcEnds(c) PROVE CleanInv'
    BY <1>26 DEF DpcEnds
<1>27. CASE UNCHANGED vars
    BY <1>27 DEF vars
<1> QED
    BY <1>1, <1>2, <1>3, <1>4, <1>5, <1>6, <1>7, <1>8, <1>9, <1>10, <1>11,
       <1>12, <1>13, <1>14, <1>15, <1>16, <1>17, <1>18, <1>19, <1>20, <1>21,
       <1>22, <1>23, <1>24, <1>25, <1>26, <1>27 DEF Next, Pnp, Handler,
       FileCallback, WindowsPerfDeviceQueryRemove, WindowsPerfDeviceIOCleanup

\* A callback that does not overlap another one counts its handle on or off.
LEMMA CountStep ==
    ASSUME TypeOK, CountInv, [Next]_vars
    PROVE  CountInv'
<1> USE SizesAssumption DEF TypeOK, CountInv, Held, Overlaps, pnpVars, flagVars,
              fileVars, dpcVars, history
<1>1. CASE WindowsPerfDeviceCreate
    BY <1>1, Creation
<1>2. CASE WindowsPerfEvtDeviceSelfManagedIoStart
    BY <1>2 DEF WindowsPerfEvtDeviceSelfManagedIoStart
<1>3. CASE AskRemove
    BY <1>3 DEF AskRemove
<1>4. CASE HandlesClosed
    BY <1>4 DEF HandlesClosed
<1>5. CASE WaitEnds
    BY <1>5 DEF WaitEnds
<1>6. CASE RemoveDpcs
    BY <1>6 DEF RemoveDpcs
<1>7. CASE CancelTimer
    BY <1>7 DEF CancelTimer
<1>8. CASE FlushWorkItem
    BY <1>8 DEF FlushWorkItem
<1>9. CASE CancelRemove
    BY <1>9 DEF CancelRemove
<1>10. CASE BeginSuspend
    BY <1>10 DEF BeginSuspend
<1>11. CASE Suspended
    BY <1>11 DEF Suspended
<1>12. CASE CleanCore
    BY <1>12 DEF CleanCore
<1>13. CASE CleanDpcs
    BY <1>13 DEF CleanDpcs
<1>14. CASE FreeCores
    BY <1>14 DEF FreeCores
<1>15. CASE StartPmu
    BY <1>15 DEF StartPmu
<1>16. CASE StartTimers
    BY <1>16 DEF StartTimers
<1>17. CASE StopTimers
    BY <1>17 DEF StopTimers
<1>18. CASE ReleaseTimers
    BY <1>18 DEF ReleaseTimers
<1>19. ASSUME NEW f \in Files, FileCreate(f) PROVE CountInv'
    BY <1>19 DEF FileCreate
<1>20. ASSUME NEW f \in Files, FileCreated(f) PROVE CountInv'
  <2>1. CASE overlapped
    BY <1>20, <2>1 DEF FileCreated
  <2>2. CASE ~overlapped
    <3>1. /\ file[f] = "creating" /\ file' = [file EXCEPT ![f] = "open"]
          /\ InUse' = ((loaded[f] + 1) % Width)
          /\ UNCHANGED <<loaded, overlapped>>
        BY <1>20 DEF FileCreated
    <3>2. Held' = Held \cup {f} /\ f \notin Held
        BY <3>1
    <3>3. Cardinality(Held') = Cardinality(Held) + 1
      <4> HIDE DEF Held
      <4> QED
        BY <3>2, HeldCounts, FS_AddElement
    <3>4. Cardinality(Held) = InUse /\ loaded[f] = InUse
        BY <2>2, <3>1
    <3>5. Cardinality(Held') < Width /\ Cardinality(Held') \in Nat
      <4>1. Held' \subseteq Files
        OBVIOUS
      <4> QED
        BY <4>1, FS_Subset, FS_CardinalityType
    <3>6. InUse' = Cardinality(Held')
        BY <3>1, <3>3, <3>4, <3>5, Wraps
    <3>7. \A g \in Files : g # f => file[g] \notin {"creating", "closing"}
        BY <2>2, <3>1
    <3> QED
        BY <3>1, <3>6, <3>7
  <2> QED
    BY <2>1, <2>2
<1>21. ASSUME NEW f \in Files, FileClose(f) PROVE CountInv'
    BY <1>21 DEF FileClose
<1>22. ASSUME NEW f \in Files, FileClosed(f) PROVE CountInv'
  <2>1. CASE overlapped
    BY <1>22, <2>1 DEF FileClosed
  <2>2. CASE ~overlapped
    <3>1. /\ file[f] = "closing" /\ file' = [file EXCEPT ![f] = "closed"]
          /\ InUse' = ((loaded[f] - 1) % Width)
          /\ UNCHANGED <<loaded, overlapped>>
        BY <1>22 DEF FileClosed
    <3>2. Held' = Held \ {f} /\ f \in Held
        BY <3>1
    <3>3. Cardinality(Held') = Cardinality(Held) - 1
      <4> HIDE DEF Held
      <4> QED
        BY <3>2, HeldCounts, FS_RemoveElement
    <3>4. Cardinality(Held) = InUse /\ loaded[f] = InUse
        BY <2>2, <3>1
    <3>5. Cardinality(Held') \in Nat
        BY <3>2, HeldCounts, FS_RemoveElement, FS_CardinalityType
    <3>6. InUse' = Cardinality(Held')
        BY <3>1, <3>3, <3>4, <3>5, HeldCounts, Wraps
    <3>7. \A g \in Files : g # f => file[g] \notin {"creating", "closing"}
        BY <2>2, <3>1
    <3> QED
        BY <3>1, <3>6, <3>7
  <2> QED
    BY <2>1, <2>2
<1>23. ASSUME NEW f \in Files, WindowsPerfEvtDeviceControl(f) PROVE CountInv'
    BY <1>23 DEF WindowsPerfEvtDeviceControl
<1>24. ASSUME NEW c \in Cores, TimerFires(c) PROVE CountInv'
    BY <1>24 DEF TimerFires
<1>25. ASSUME NEW c \in Cores, DpcBegins(c) PROVE CountInv'
    BY <1>25 DEF DpcBegins
<1>26. ASSUME NEW c \in Cores, DpcEnds(c) PROVE CountInv'
    BY <1>26 DEF DpcEnds
<1>27. CASE UNCHANGED vars
    BY <1>27 DEF vars
<1> QED
    BY <1>1, <1>2, <1>3, <1>4, <1>5, <1>6, <1>7, <1>8, <1>9, <1>10, <1>11,
       <1>12, <1>13, <1>14, <1>15, <1>16, <1>17, <1>18, <1>19, <1>20, <1>21,
       <1>22, <1>23, <1>24, <1>25, <1>26, <1>27 DEF Next, Pnp, Handler,
       FileCallback, WindowsPerfDeviceQueryRemove, WindowsPerfDeviceIOCleanup

\* When the wait finds InUse zero no handle is open; one that opens later is late.
LEMMA StallStep ==
    ASSUME TypeOK, CountInv, StallHolds, [Next]_vars
    PROVE  StallHolds'
<1> USE SizesAssumption DEF TypeOK, StallHolds, Overlaps, Present, pnpVars,
              flagVars, fileVars, dpcVars, history
<1>1. CASE WindowsPerfDeviceCreate
    BY <1>1, Creation
<1>2. CASE WindowsPerfEvtDeviceSelfManagedIoStart
    BY <1>2 DEF WindowsPerfEvtDeviceSelfManagedIoStart
<1>3. CASE AskRemove
    BY <1>3 DEF AskRemove
<1>4. CASE HandlesClosed
  <2>1. CASE overlapped
    BY <1>4, <2>1 DEF HandlesClosed
  <2>2. CASE ~overlapped
    <3>1. Cardinality(Held) = 0
        BY <1>4, <2>2 DEF HandlesClosed, CountInv
    <3>2. Held = {}
        BY <3>1, HeldCounts, FS_EmptySet
    <3> QED
        BY <1>4, <3>2 DEF HandlesClosed, Held
  <2> QED
    BY <2>1, <2>2
<1>5. CASE WaitEnds
    BY <1>5 DEF WaitEnds
<1>6. CASE RemoveDpcs
    BY <1>6 DEF RemoveDpcs
<1>7. CASE CancelTimer
    BY <1>7 DEF CancelTimer
<1>8. CASE FlushWorkItem
    BY <1>8 DEF FlushWorkItem
<1>9. CASE CancelRemove
    BY <1>9 DEF CancelRemove
<1>10. CASE BeginSuspend
    BY <1>10 DEF BeginSuspend
<1>11. CASE Suspended
    BY <1>11 DEF Suspended
<1>12. CASE CleanCore
    BY <1>12 DEF CleanCore
<1>13. CASE CleanDpcs
    BY <1>13 DEF CleanDpcs
<1>14. CASE FreeCores
    BY <1>14 DEF FreeCores
<1>15. CASE StartPmu
    BY <1>15 DEF StartPmu
<1>16. CASE StartTimers
    BY <1>16 DEF StartTimers
<1>17. CASE StopTimers
    BY <1>17 DEF StopTimers
<1>18. CASE ReleaseTimers
    BY <1>18 DEF ReleaseTimers
<1>19. ASSUME NEW f \in Files, FileCreate(f) PROVE StallHolds'
    BY <1>19 DEF FileCreate
<1>20. ASSUME NEW f \in Files, FileCreated(f) PROVE StallHolds'
    BY <1>20 DEF FileCreated
<1>21. ASSUME NEW f \in Files, FileClose(f) PROVE StallHolds'
    BY <1>21 DEF FileClose
<1>22. ASSUME NEW f \in Files, FileClosed(f) PROVE StallHolds'
    BY <1>22 DEF FileClosed
<1>23. ASSUME NEW f \in Files, WindowsPerfEvtDeviceControl(f) PROVE StallHolds'
    BY <1>23 DEF WindowsPerfEvtDeviceControl
<1>24. ASSUME NEW c \in Cores, TimerFires(c) PROVE StallHolds'
    BY <1>24 DEF TimerFires
<1>25. ASSUME NEW c \in Cores, DpcBegins(c) PROVE StallHolds'
    BY <1>25 DEF DpcBegins
<1>26. ASSUME NEW c \in Cores, DpcEnds(c) PROVE StallHolds'
    BY <1>26 DEF DpcEnds
<1>27. CASE UNCHANGED vars
    BY <1>27 DEF vars
<1> QED
    BY <1>1, <1>2, <1>3, <1>4, <1>5, <1>6, <1>7, <1>8, <1>9, <1>10, <1>11,
       <1>12, <1>13, <1>14, <1>15, <1>16, <1>17, <1>18, <1>19, <1>20, <1>21,
       <1>22, <1>23, <1>24, <1>25, <1>26, <1>27 DEF Next, Pnp, Handler,
       FileCallback, WindowsPerfDeviceQueryRemove, WindowsPerfDeviceIOCleanup

-----------------------------------------------------------------------------
(* The theorems.                                                            *)

\* The driver begins with no device, no handle and no timer.
LEMMA InitHolds == Init => DeviceInv
<1> SUFFICES ASSUME Init PROVE DeviceInv
    OBVIOUS
<1>1. Held = {}
    BY DEF Init, Held
<1>2. CountInv
    BY <1>1, FS_EmptySet DEF Init, CountInv
<1>3. Width \in Nat /\ Width > 0
    BY SizesAssumption, FS_CardinalityType
<1>4. TypeOK
  <2>1. 0 \in 0 .. numCores /\ 0 \in 0 .. (Width - 1)
    BY <1>3, SizesAssumption
  <2>2. /\ InUse \in 0 .. (Width - 1)
        /\ file \in [Files -> {"new", "creating", "open", "closing", "closed"}]
        /\ loaded \in [Files -> 0 .. (Width - 1)]
    BY <2>1 DEF Init
  <2>3. /\ armed \in [Cores -> BOOLEAN] /\ queued \in [Cores -> BOOLEAN]
        /\ exec \in [Cores -> BOOLEAN]
    BY DEF Init
  <2> QED
    BY <2>1, <2>2, <2>3 DEF Init, TypeOK
<1>5. CleanInv /\ StallHolds
    BY DEF Init, CleanInv, StallHolds, FreedIsQuiet
<1> QED
    BY <1>2, <1>4, <1>5 DEF DeviceInv

\* The invariant is inductive under everything the PnP manager, the handles, the
\* queue's thread, the timers and the DPCs do, in any order.
THEOREM Inductive == Spec => []DeviceInv
<1>1. DeviceInv /\ [Next]_vars => DeviceInv'
    BY TypingStep, CleanStep, CountStep, StallStep DEF DeviceInv
<1> QED
    BY <1>1, InitHolds, PTL DEF Spec

\* For any number of cores, no timer, no queued DPC and no IOCTL is left when
\* IOCleanup frees the cores' data, whether the removal was asked for or not; and
\* for any number of handles, QueryRemove goes on only when every one that was
\* open has closed, as long as no two of their callbacks overlapped.
THEOREM TearDown == Spec => []TornDownInOrder
<1>1. DeviceInv => TornDownInOrder
    BY DEF DeviceInv, CleanInv, TornDownInOrder
<1> QED
    BY <1>1, Inductive, PTL

\* InUse, which QueryRemove waits for, is the number of handles that are open or
\* on their way to close, as long as no two callbacks of handles overlapped.
THEOREM InUseIsTrue == Spec => [](~overlapped => InUse = Cardinality(Held))
<1>1. DeviceInv => (~overlapped => InUse = Cardinality(Held))
    BY DEF DeviceInv, CountInv
<1> QED
    BY <1>1, Inductive, PTL
=============================================================================
