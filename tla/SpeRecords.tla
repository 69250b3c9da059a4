----------------------------- MODULE SpeRecords -----------------------------
(* spe_device.cpp: the samples wperf finds in the bytes of the Statistical  *)
(* Profiling Extension, one record of packets after another. A payload is   *)
(* the sequence of its bytes, the lowest first; a PC is six of them.        *)
EXTENDS Integers, Sequences, SequencesExt

-----------------------------------------------------------------------------
(* Packets.                                                                *)

\* hdr & MASK_MIDDLE, hdr & MASK_LAST2 and hdr & MASK_LAST3.
Middle(hdr) == (hdr \div 64) * 64 + (hdr % 16)
Last2(hdr)  == hdr - (hdr % 4)
Last3(hdr)  == hdr - (hdr % 8)

get_packet_type(hdr) ==
  CASE hdr = 0            -> "PADDING"
    [] hdr = 1            -> "END"
    [] hdr = 113          -> "TIMESTAMP"
    [] Middle(hdr) = 66   -> "EVENTS"
    [] Middle(hdr) = 67   -> "DATA_SOURCE"
    [] Last2(hdr) = 100   -> "CONTEXT"
    [] Last2(hdr) = 72    -> "OPERATION_TYPE"
    [] Last2(hdr) = 32    -> "LONG_HEADER"
    [] Last3(hdr) = 176   -> "ADDRESS"
    [] Last3(hdr) = 152   -> "COUNTER"
    [] OTHER              -> "UNKNOWN"

\* `seen' is m_bytes_read >= 1, `left' m_bytes_to_read.
NoPacket == [type |-> "UNKNOWN", state |-> "READING_HEADER", seen |-> FALSE, left |-> 0,
             h0 |-> 0, h1 |-> 0, payload |-> <<>>]

\* The bytes that follow a header.
PayloadSize(type, hdr) ==
  CASE type \in {"ADDRESS", "TIMESTAMP"}   -> 8
    [] type = "COUNTER"                    -> 2
    [] type \in {"EVENTS", "DATA_SOURCE"}  -> ((hdr \div 16) % 4) + 1
    [] type = "OPERATION_TYPE"             -> 1
    [] type = "CONTEXT"                    -> 4

\* Bytes of no known type, and padding, only count as read: an address or a
\* counter after them is taken for one with a long header.
AddHeader(p, byte) ==
  LET type == get_packet_type(byte)
      long == p.seen /\ type \in {"ADDRESS", "COUNTER"}
  IN CASE type \in {"PADDING", "UNKNOWN"} -> [p EXCEPT !.seen = TRUE]
       [] type = "LONG_HEADER" -> [p EXCEPT !.seen = TRUE, !.h0 = byte]
       [] type = "END" -> [p EXCEPT !.seen = TRUE, !.h0 = byte, !.type = type, !.state = "FINISHED"]
       [] OTHER -> [p EXCEPT !.seen = TRUE,
                             !.type = IF long THEN type \o "_LONG" ELSE type,
                             !.h0 = IF long THEN @ ELSE byte,
                             !.h1 = IF long THEN byte ELSE @,
                             !.left = PayloadSize(type, byte),
                             !.state = "READING_DATA"]

AddData(p, byte) == [p EXCEPT !.left = @ - 1, !.payload = Append(@, byte),
                              !.state = IF p.left = 1 THEN "FINISHED" ELSE @]

add(p, byte) == IF p.state = "READING_HEADER" THEN AddHeader(p, byte) ELSE AddData(p, byte)

-----------------------------------------------------------------------------
(* Records.                                                                *)

\* AddressPacket: with a long header the index is the truth value of it all.
m_index(p) == IF p.type = "ADDRESS" THEN p.h0 % 8
              ELSE IF (p.h0 % 4) # 0 \/ (p.h1 % 8) # 0 THEN 1 ELSE 0

IsPC(p) == p.type \in {"ADDRESS", "ADDRESS_LONG"} /\ m_index(p) = 0

Bit(payload, n) == (n \div 8) + 1 \in DOMAIN payload
                   /\ ((payload[(n \div 8) + 1] \div (2 ^ (n % 8))) % 2) = 1

\* get_event_desc names these bits, and takes the last character off: with
\* none of them set, off an empty string.
NamedBits == (0 .. 11) \cup {17, 18}
get_event_desc(p) == {n \in NamedBits : Bit(p.payload, n)}

\* OperationTypePacket::get_desc: the class, and what tells its subclasses
\* apart: load or store and the register file, or the kind of branch.
get_desc(p) ==
  LET class == p.h0 % 4
      byte  == p.payload[1]
  IN CASE class = 1 -> <<class, byte % 2, IF byte \div 2 \in {0, 2} THEN byte \div 2 ELSE 1>>
       [] class = 2 -> <<class, byte % 2, (byte \div 2) % 2>>
       [] OTHER     -> <<class>>

NoPC == <<0, 0, 0, 0, 0, 0>>

\* The last packet of a kind counts.
parse_record_data(packets) ==
  LET Latest(P(_), none, F(_)) ==
        LET found == SelectSeq(packets, P) IN IF found = <<>> THEN none ELSE F(found[Len(found)])
      events == SelectSeq(packets, LAMBDA p : p.type = "EVENTS")
  IN [pc     |-> Latest(IsPC, NoPC, LAMBDA p : SubSeq(p.payload, 1, 6)),
      optype |-> Latest(LAMBDA p : p.type = "OPERATION_TYPE", <<>>, get_desc),
      events |-> Latest(LAMBDA p : p.type = "EVENTS", {}, get_event_desc),
      undefined |-> \E i \in DOMAIN events : get_event_desc(events[i]) = {}]

\* What is kept between two bytes.
PacketData == [type : STRING, state : STRING, seen : BOOLEAN, left : Nat, h0 : Nat, h1 : Nat, payload : Seq(Nat)]
RecordData == [pc : Seq(Nat), optype : Seq(Nat), events : SUBSET Nat, undefined : BOOLEAN]
Reader     == [packet : PacketData, packets : Seq(PacketData), records : Seq(RecordData)]

read_spe_buffer(buffer) ==
  LET Read[st \in Reader, byte \in 0 .. 255] ==
        LET p == add(st.packet, byte)
        IN IF p.state # "FINISHED" THEN [st EXCEPT !.packet = p]
           ELSE IF p.type \in {"END", "TIMESTAMP"}
             THEN [packet |-> NoPacket, packets |-> <<>>,
                   records |-> Append(st.records, parse_record_data(Append(st.packets, p)))]
           ELSE [st EXCEPT !.packet = NoPacket, !.packets = Append(@, p)]
      \* Byte by byte; in halves, so that no recursion is as deep as the buffer is long.
      ReadFrom[st \in Reader, first \in 1 .. Len(buffer), last \in 1 .. Len(buffer)] ==
        IF first = last THEN Read[st, buffer[first]]
        ELSE LET middle == (first + last) \div 2
             IN ReadFrom[ReadFrom[st, first, middle], middle + 1, last]
      start == [packet |-> NoPacket, packets |-> <<>>, records |-> <<>>]
  IN IF buffer = <<>> THEN start.records ELSE ReadFrom[start, 1, Len(buffer)].records

-----------------------------------------------------------------------------
(* What the hardware writes.                                               *)

\* A record as the Arm architecture lays it out: a PC, the operation, the
\* events in 2^sz bytes, a latency, and unless it is short a data address;
\* the records are aligned with zeros.
Header(type, long) == IF long THEN <<32, type>> ELSE <<type>>

EventBytes(r) == [i \in 1 .. (2 ^ r.sz) |->
                    MapThenSumSet(LAMBDA b : 2 ^ (b % 8), {b \in r.bits : b \div 8 = i - 1})]

EncodeRecord(r) ==
  Header(176, r.long) \o r.pc \o <<0, 0>>
    \o <<72 + r.class, r.op>>
    \o <<66 + (16 * r.sz)>> \o EventBytes(r)
    \o <<152, 9, 0>>
    \o (IF r.class = 1 THEN <<178, 1, 2, 3, 4, 5, 6, 0, 0>> ELSE <<>>)
    \o (IF r.ts THEN <<113, 1, 0, 0, 0, 0, 0, 0, 0>> ELSE <<1>>)
    \o [i \in 1 .. r.pad |-> 0]

Encode(profile) == FlattenSeq([i \in DOMAIN profile |-> EncodeRecord(profile[i])])

-----------------------------------------------------------------------------
(* Samples.                                                                *)

Desc(rec) == <<rec.optype, rec.events>>

\* Descriptions are numbered in the order they come up.
get_samples(records) ==
  LET Firsts  == {i \in DOMAIN records : \A j \in 1 .. (i - 1) : Desc(records[j]) # Desc(records[i])}
      Index(i) == Cardinality({j \in Firsts : j < Min({k \in Firsts : Desc(records[k]) = Desc(records[i])})})
  IN [i \in DOMAIN records |-> [pc |-> records[i].pc, spe_event_idx |-> Index(i)]]

\* What a number of get_samples stands for: spe_events.
spe_event_map(records) ==
  LET samples == get_samples(records)
  IN [n \in {samples[i].spe_event_idx : i \in DOMAIN samples} |->
        Desc(records[CHOOSE i \in DOMAIN samples : samples[i].spe_event_idx = n])]

Undefined(records) == \E i \in DOMAIN records : records[i].undefined
=============================================================================
