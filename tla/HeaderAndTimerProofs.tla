------------------------ MODULE HeaderAndTimerProofs ------------------------
(***************************************************************************)
(* Proofs about two small parts that stand alone.  The packet header: what *)
(* a receiver may conclude from a datagram that decode_header accepts, for *)
(* the full widths of the fields.  The retransmission timeout: for all     *)
(* bounds MinRto, MaxRto, every set of samples and every sequence of       *)
(* samples and timeouts.                                                   *)
(***************************************************************************)
EXTENDS PacketCodec, Rtt, SequenceTheorems, TLAPS

-----------------------------------------------------------------------------
(* The packet header *)

\* Two bytes hold a uint16_t.
LEMMA Halves ==
    ASSUME NEW v \in U16
    PROVE  Hi(v) \in Byte /\ Lo(v) \in Byte /\ 256 * Hi(v) + Lo(v) = v
  BY SMT DEF U16, Byte, Hi, Lo

\* Two halves hold a uint32_t.
LEMMA Words ==
    ASSUME NEW v \in U32
    PROVE  High(v) \in U16 /\ Low(v) \in U16 /\ 65536 * High(v) + Low(v) = v
PROOF
  <1>1. v \in Nat /\ v < 4294967296
    BY SMT DEF U32
  <1>2. 65536 * (v \div 65536) + (v % 65536) = v
    BY <1>1, SMT
  <1>3. v % 65536 \in Nat /\ v % 65536 < 65536
    BY <1>1, SMT
  <1>4. v \div 65536 \in Nat /\ v \div 65536 < 65536
    BY <1>1, SMT
  <1> QED BY <1>2, <1>3, <1>4, SMT DEF U16, High, Low

\* A header takes HEADER_LEN bytes.
LEMMA EncodedBytes ==
    ASSUME NEW h \in Header
    PROVE  /\ packet_encode_header(h) \in Seq(Byte)
           /\ Len(packet_encode_header(h)) = HEADER_LEN
PROOF
  <1>1. /\ h.magic \in U16 /\ h.payload_len \in U16
        /\ h.version \in Byte /\ h.packet_type \in Byte
        /\ h.delivery_mode \in Byte /\ h.flags \in Byte
        /\ h.session_id \in U32 /\ h.seq_num \in U32
        /\ h.ack_num \in U32 /\ h.sack_mask \in U32
    BY DEF Header
  <1>2. \A v \in U16 : Hi(v) \in Byte /\ Lo(v) \in Byte
    BY Halves
  <1>3. \A v \in U32 : High(v) \in U16 /\ Low(v) \in U16
    BY Words, SMT
  <1> QED BY <1>1, <1>2, <1>3 DEF packet_encode_header, HEADER_LEN

\* The fields of a buffer that starts with an encoded header are the header.
LEMMA FieldsOfEncoded ==
    ASSUME NEW h \in Header, NEW buf,
           \A i \in 1 .. HEADER_LEN : buf[i] = packet_encode_header(h)[i]
    PROVE  HeaderOf(buf) = h
PROOF
  <1> DEFINE e == packet_encode_header(h)
  <1>1. \A v \in U16 : 256 * Hi(v) + Lo(v) = v
    BY Halves
  <1>2. \A v \in U32 : /\ High(v) \in U16 /\ Low(v) \in U16
                       /\ 65536 * High(v) + Low(v) = v
    BY Words, SMT
  <1>3. /\ h.magic \in U16 /\ h.payload_len \in U16
        /\ h.session_id \in U32 /\ h.seq_num \in U32
        /\ h.ack_num \in U32 /\ h.sack_mask \in U32
    BY DEF Header
  <1>4. \A i \in 1 .. 24 : buf[i] = e[i]
    BY DEF HEADER_LEN
  <1>5. /\ buf[1] = Hi(h.magic) /\ buf[2] = Lo(h.magic)
        /\ buf[3] = h.version /\ buf[4] = h.packet_type
        /\ buf[5] = h.delivery_mode /\ buf[6] = h.flags
        /\ buf[7] = Hi(h.payload_len) /\ buf[8] = Lo(h.payload_len)
    BY <1>4 DEF packet_encode_header
  <1>6. /\ buf[9] = Hi(High(h.session_id)) /\ buf[10] = Lo(High(h.session_id))
        /\ buf[11] = Hi(Low(h.session_id)) /\ buf[12] = Lo(Low(h.session_id))
        /\ buf[13] = Hi(High(h.seq_num)) /\ buf[14] = Lo(High(h.seq_num))
        /\ buf[15] = Hi(Low(h.seq_num)) /\ buf[16] = Lo(Low(h.seq_num))
    BY <1>4 DEF packet_encode_header
  <1>7. /\ buf[17] = Hi(High(h.ack_num)) /\ buf[18] = Lo(High(h.ack_num))
        /\ buf[19] = Hi(Low(h.ack_num)) /\ buf[20] = Lo(Low(h.ack_num))
        /\ buf[21] = Hi(High(h.sack_mask)) /\ buf[22] = Lo(High(h.sack_mask))
        /\ buf[23] = Hi(Low(h.sack_mask)) /\ buf[24] = Lo(Low(h.sack_mask))
    BY <1>4 DEF packet_encode_header
  <1>8. ntohs(buf, 0) = h.magic /\ ntohs(buf, 6) = h.payload_len
    BY <1>1, <1>3, <1>5 DEF ntohs
  <1>9. ntohl(buf, 8) = h.session_id /\ ntohl(buf, 12) = h.seq_num
    BY <1>1, <1>2, <1>3, <1>6, SMT DEF ntohs, ntohl
  <1>10. ntohl(buf, 16) = h.ack_num /\ ntohl(buf, 20) = h.sack_mask
    BY <1>1, <1>2, <1>3, <1>7, SMT DEF ntohs, ntohl
  <1>11. h = [magic |-> h.magic, version |-> h.version,
              packet_type |-> h.packet_type, delivery_mode |-> h.delivery_mode,
              flags |-> h.flags, payload_len |-> h.payload_len,
              session_id |-> h.session_id, seq_num |-> h.seq_num,
              ack_num |-> h.ack_num, sack_mask |-> h.sack_mask]
    BY DEF Header
  <1> QED BY <1>5, <1>8, <1>9, <1>10, <1>11 DEF HeaderOf

\* A datagram is its header and as many bytes as the header says.
LEMMA DatagramShape ==
    ASSUME NEW h, NEW payload, Sendable(h, payload)
    PROVE  /\ Datagram(h, payload) \in Seq(Byte)
           /\ Len(Datagram(h, payload)) = 24 + h.payload_len
           /\ h.payload_len \in Nat
           /\ \A i \in 1 .. 24 :
                  Datagram(h, payload)[i] = packet_encode_header(h)[i]
PROOF
  <1> DEFINE e == packet_encode_header(h)
             d == e \o payload
  <1>1. /\ e \in Seq(Byte) /\ Len(e) = 24 /\ payload \in Seq(Byte)
        /\ Len(payload) = h.payload_len
    BY EncodedBytes DEF Sendable, HEADER_LEN
  <1> HIDE DEF e
  <1>2. /\ d \in Seq(Byte) /\ Len(d) = Len(e) + Len(payload)
        /\ Len(payload) \in Nat
    BY <1>1, ConcatProperties, LenProperties
  <1>3. \A i \in 1 .. Len(e) : d[i] = e[i]
    BY <1>1, <1>2, ConcatProperties
  <1> QED BY <1>1, <1>2, <1>3 DEF Datagram, e

\* A datagram that arrives whole is accepted, with the header that was sent
\* (rel4u_packet_encode_header, rel4u_packet_decode_header).
THEOREM RoundTrip ==
    ASSUME NEW h, NEW payload, Sendable(h, payload)
    PROVE  /\ packet_decode_header(Datagram(h, payload)) = 0
           /\ HeaderOf(Datagram(h, payload)) = h
PROOF
  <1> DEFINE d == Datagram(h, payload)
  <1>1. PICK length \in Nat : length = h.payload_len /\ Len(d) = 24 + length
    BY DatagramShape
  <1>2. HeaderOf(d) = h
    BY DatagramShape, FieldsOfEncoded DEF Sendable, HEADER_LEN
  <1> HIDE DEF d
  <1>3. ~(Len(d) < HEADER_LEN)
    BY <1>1 DEF HEADER_LEN
  <1>4. ~(Len(d) < HEADER_LEN + length)
    BY <1>1 DEF HEADER_LEN
  <1>5. packet_decode_header(d) = 0
    BY <1>1, <1>2, <1>3, <1>4, Zenon DEF packet_decode_header, Sendable
  <1> QED BY <1>2, <1>5 DEF d

\* A datagram cut short, by whatever number of bytes, is refused: the payload a
\* receiver reads never reaches past what arrived (the last test of
\* rel4u_packet_decode_header).
THEOREM CutIsRefused ==
    ASSUME NEW h, NEW payload, Sendable(h, payload),
           NEW n \in Nat, n < HEADER_LEN + h.payload_len
    PROVE  packet_decode_header(SubSeq(Datagram(h, payload), 1, n)) < 0
PROOF
  <1> DEFINE d == Datagram(h, payload)
             e == packet_encode_header(h)
             cut == SubSeq(d, 1, n)
  <1>1. /\ d \in Seq(Byte)
        /\ \A i \in 1 .. 24 : d[i] = e[i]
    BY DatagramShape
  <1>2. PICK length \in Nat : length = h.payload_len /\ Len(d) = 24 + length
    BY DatagramShape
  <1> HIDE DEF d, e
  <1>3. n < HEADER_LEN + length
    BY <1>2, Zenon
  <1>4. Len(cut) = n /\ \A i \in 1 .. n : cut[i] = d[i]
    <2>1. n \in 0 .. Len(d)
      BY <1>2, <1>3 DEF HEADER_LEN
    <2>2. ASSUME NEW i \in 1 .. n PROVE d[i] \in Byte
      <3>1. i \in 1 .. Len(d)
        <4>1. Len(d) \in Nat
          BY <1>2
        <4> QED BY <2>1, <4>1
      <3> QED BY <1>1, <3>1, ElementOfSeq
    <2>3. /\ Len(cut) = IF 1 <= n THEN n - 1 + 1 ELSE 0
          /\ \A i \in 1 .. n - 1 + 1 : cut[i] = d[1 + i - 1]
      BY <2>2, SubSeqProperties
    <2> HIDE DEF cut
    <2> QED BY <2>3
  <1> HIDE DEF cut
  <1>5. ASSUME n < 24
        PROVE  packet_decode_header(cut) < 0
    <2>1. Len(cut) < HEADER_LEN
      BY <1>4, <1>5 DEF HEADER_LEN
    <2>2. packet_decode_header(cut) = -1
      BY <2>1, Zenon DEF packet_decode_header
    <2> QED BY <2>2
  <1>6. ASSUME n >= 24
        PROVE  packet_decode_header(cut) < 0
    <2>1. \A i \in 1 .. 24 : cut[i] = e[i]
      <3> TAKE i \in 1 .. 24
      <3>1. i \in 1 .. n
        BY <1>6
      <3> QED BY <1>1, <1>4, <3>1, Zenon
    <2>2. HeaderOf(cut) = h
      BY <2>1, FieldsOfEncoded DEF Sendable, HEADER_LEN, e
    <2>3. ~(Len(cut) < HEADER_LEN) /\ Len(cut) < HEADER_LEN + length
      BY <1>3, <1>4, <1>6 DEF HEADER_LEN
    <2>4. packet_decode_header(cut) = -4
      BY <1>2, <2>2, <2>3, Zenon DEF packet_decode_header, Sendable
    <2> QED BY <2>4
  <1>7. packet_decode_header(cut) < 0
    BY <1>5, <1>6
  <1> QED BY <1>7 DEF cut, d

-----------------------------------------------------------------------------
(* The retransmission timeout *)

\* The invariant all properties of the timer follow from.
RttInv == TypeOK /\ RtoBounded /\ EstimateInRange /\ RtoAboveEstimate
          /\ lowest <= highest

\* Clamp returns a value within the bounds, and the value itself unless a
\* bound forbids it (the clamping at the end of rel4u_rtt_update_sample).
LEMMA ClampBounds ==
    ASSUME NEW x \in Nat
    PROVE  /\ Clamp(x) \in MinRto .. MaxRto
           /\ Clamp(x) >= x \/ Clamp(x) = MaxRto
  BY RttAssumption DEF Clamp

\* Smoothing with integer division keeps the estimate between the old one and
\* the sample, and the variation below the larger of the two
\* (rel4u_rtt_update_sample).
LEMMA SmoothingBounds ==
    ASSUME NEW s \in Nat, NEW v \in Nat, NEW sample \in Nat,
           NEW lo \in Nat, NEW hi \in Nat,
           s \in lo .. hi, sample \in lo .. hi, v <= AtLeastOne(hi)
    PROVE  /\ (7 * s + sample) \div 8 \in lo .. hi
           /\ AtLeastOne((3 * v + Distance(s, sample)) \div 4)
                \in 1 .. AtLeastOne(hi)
  BY DEF AtLeastOne, Distance

\* The timer starts in a state that satisfies the invariant (rel4u_rtt_init).
LEMMA RttInit == Init => RttInv
  BY RttAssumption
     DEF Init, RttInv, TypeOK, RtoBounded, EstimateInRange, RtoAboveEstimate,
         rtt_init, Clamp

\* A round-trip sample keeps the invariant (rel4u_rtt_update_sample).
LEMMA RttSample ==
    ASSUME RttInv, NEW sample \in Samples, UpdateSample(sample)
    PROVE  RttInv'
PROOF
  <1> DEFINE s == Smoothed(rtt, sample)
  <1>1. sample \in Nat
    BY RttAssumption
  <1>2. lowest' \in Nat /\ highest' \in Nat /\ sample \in lowest' .. highest'
    BY <1>1 DEF RttInv, TypeOK, UpdateSample
  <1>3. s.srtt \in lowest' .. highest' /\ s.rttvar \in 1 .. AtLeastOne(highest')
    <2>1. CASE ~rtt.has_sample
      <3>1. s = [srtt |-> sample, rttvar |-> AtLeastOne(sample \div 2)]
        BY <2>1 DEF Smoothed
      <3>2. AtLeastOne(sample \div 2) \in 1 .. AtLeastOne(highest')
        BY <1>1, <1>2 DEF AtLeastOne
      <3> QED BY <1>2, <3>1, <3>2
    <2>2. CASE rtt.has_sample
      <3>1. /\ rtt.srtt \in lowest' .. highest'
            /\ rtt.rttvar <= AtLeastOne(highest')
        BY <1>1, <2>2 DEF RttInv, TypeOK, EstimateInRange, UpdateSample, AtLeastOne
      <3>2. /\ s.srtt = (7 * rtt.srtt + sample) \div 8
            /\ s.rttvar =
                 AtLeastOne((3 * rtt.rttvar + Distance(rtt.srtt, sample)) \div 4)
        BY <2>2 DEF Smoothed
      <3>3. rtt.srtt \in Nat /\ rtt.rttvar \in Nat
        BY DEF RttInv, TypeOK
      <3>4. /\ (7 * rtt.srtt + sample) \div 8 \in lowest' .. highest'
            /\ AtLeastOne((3 * rtt.rttvar + Distance(rtt.srtt, sample)) \div 4)
                 \in 1 .. AtLeastOne(highest')
        BY <1>1, <1>2, <3>1, <3>3, SmoothingBounds
      <3> QED BY <3>2, <3>4
    <2> QED BY <2>1, <2>2
  <1> DEFINE rto == s.srtt + AtLeastOne(4 * s.rttvar)
  <1>4. rtt' = [rto |-> Clamp(rto), srtt |-> s.srtt, rttvar |-> s.rttvar,
                has_sample |-> TRUE]
    BY DEF UpdateSample, rtt_update_sample
  <1> HIDE DEF s
  <1>5. s.srtt \in Nat /\ s.rttvar \in Nat /\ rto \in Nat /\ rto > s.srtt
    BY <1>2, <1>3 DEF AtLeastOne
  <1>6. /\ Clamp(rto) \in MinRto .. MaxRto
        /\ Clamp(rto) >= rto \/ Clamp(rto) = MaxRto
    BY <1>5, ClampBounds
  <1> HIDE DEF rto
  <1>7. Clamp(rto) \in Nat
    BY <1>6, RttAssumption
  <1>8. Clamp(rto) > s.srtt \/ Clamp(rto) = MaxRto
    BY <1>5, <1>6, <1>7
  <1> QED
    BY <1>2, <1>3, <1>4, <1>5, <1>6, <1>7, <1>8
       DEF RttInv, TypeOK, RtoBounded, EstimateInRange, RtoAboveEstimate

\* A retransmission timeout keeps the invariant (rel4u_rtt_on_timeout).
LEMMA RttTimeout == RttInv /\ OnTimeout => RttInv'
PROOF
  <1> SUFFICES ASSUME RttInv, OnTimeout PROVE RttInv'
    OBVIOUS
  <1> DEFINE doubled == IF 2 * rtt.rto > MaxRto THEN MaxRto ELSE 2 * rtt.rto
  <1>1. rtt' = [rtt EXCEPT !.rto = doubled]
    BY DEF OnTimeout, rtt_on_timeout
  <1>2. rtt.rto \in MinRto .. MaxRto
    BY DEF RttInv, RtoBounded
  <1>3. doubled \in MinRto .. MaxRto /\ (doubled >= rtt.rto)
    BY <1>2, RttAssumption
  <1> HIDE DEF doubled
  <1> QED
    BY <1>1, <1>2, <1>3, RttAssumption
       DEF RttInv, TypeOK, RtoBounded, EstimateInRange, RtoAboveEstimate, OnTimeout

\* RttInv holds in every state of the timer.
THEOREM RttInvariant == Spec => []RttInv
PROOF
  <1>1. RttInv /\ [Next]_vars => RttInv'
    <2> SUFFICES ASSUME RttInv, [Next]_vars PROVE RttInv'
      OBVIOUS
    <2>1. CASE UNCHANGED vars
      BY <2>1 DEF vars, RttInv, TypeOK, RtoBounded, EstimateInRange,
                  RtoAboveEstimate
    <2>2. CASE Next
      BY <2>2, RttSample, RttTimeout DEF Next
    <2> QED BY <2>1, <2>2
  <1> QED BY <1>1, RttInit, PTL DEF Spec

\* The retransmission timer is always within its bounds.
THEOREM RtoAlwaysBounded == Spec => []RtoBounded
  BY RttInvariant, PTL DEF RttInv

\* The estimate of the round trip never leaves the range of the samples.
THEOREM EstimateAlwaysInRange == Spec => []EstimateInRange
  BY RttInvariant, PTL DEF RttInv

\* The timer never runs out before the estimated round trip, MaxRto allowing.
THEOREM RtoAlwaysAboveEstimate == Spec => []RtoAboveEstimate
  BY RttInvariant, PTL DEF RttInv

=============================================================================
