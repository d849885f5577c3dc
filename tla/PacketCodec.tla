---------------------------- MODULE PacketCodec ----------------------------
(***************************************************************************)
(* The header of every datagram (src/src/core/rel4u_packet.{h,c}): fields  *)
(* of fixed width at fixed offsets, in network byte order.  A buffer is a  *)
(* sequence of bytes; offset o of the code is index o + 1.                 *)
(***************************************************************************)
EXTENDS Integers, Sequences

Byte == {v \in Nat : v < 256}
U16 == {v \in Nat : v < 65536}
U32 == {v \in Nat : v < 4294967296}

MAGIC == 13397          \* 0x3455
VERSION == 1
HEADER_LEN == 24

\* rel4u_header_t
Header == [magic : U16, version : Byte, packet_type : Byte,
           delivery_mode : Byte, flags : Byte, payload_len : U16,
           session_id : U32, seq_num : U32, ack_num : U32, sack_mask : U32]

\* The two bytes of a uint16_t, and the two halves of a uint32_t.
Hi(v) == v \div 256
Lo(v) == v % 256
High(v) == v \div 65536
Low(v) == v % 65536

\* The number at offset o of a buffer: the most significant byte comes first.
ntohs(buf, o) == 256 * buf[o + 1] + buf[o + 2]
ntohl(buf, o) == 65536 * ntohs(buf, o) + ntohs(buf, o + 2)

\* What is written into a buffer of at least HEADER_LEN bytes.
packet_encode_header(hdr) ==
    LET session_id == hdr.session_id
        seq_num == hdr.seq_num
        ack_num == hdr.ack_num
        sack_mask == hdr.sack_mask
    IN  <<Hi(hdr.magic), Lo(hdr.magic),
          hdr.version, hdr.packet_type, hdr.delivery_mode, hdr.flags,
          Hi(hdr.payload_len), Lo(hdr.payload_len),
          Hi(High(session_id)), Lo(High(session_id)),
          Hi(Low(session_id)), Lo(Low(session_id)),
          Hi(High(seq_num)), Lo(High(seq_num)),
          Hi(Low(seq_num)), Lo(Low(seq_num)),
          Hi(High(ack_num)), Lo(High(ack_num)),
          Hi(Low(ack_num)), Lo(Low(ack_num)),
          Hi(High(sack_mask)), Lo(High(sack_mask)),
          Hi(Low(sack_mask)), Lo(Low(sack_mask))>>

\* The fields of a buffer of at least HEADER_LEN bytes.
HeaderOf(buf) ==
    [magic |-> ntohs(buf, 0), version |-> buf[3], packet_type |-> buf[4],
     delivery_mode |-> buf[5], flags |-> buf[6], payload_len |-> ntohs(buf, 6),
     session_id |-> ntohl(buf, 8), seq_num |-> ntohl(buf, 12),
     ack_num |-> ntohl(buf, 16), sack_mask |-> ntohl(buf, 20)]

\* The value returned; out_hdr is HeaderOf(buf) when it is 0.
packet_decode_header(buf) ==
    IF Len(buf) < HEADER_LEN THEN -1
    ELSE IF HeaderOf(buf).magic # MAGIC THEN -2
    ELSE IF HeaderOf(buf).version # VERSION THEN -3
    ELSE IF Len(buf) < HEADER_LEN + HeaderOf(buf).payload_len THEN -4
    ELSE 0

\* What client_send_packet and server_send_packet put into a datagram.
Datagram(hdr, payload) == packet_encode_header(hdr) \o payload

\* The headers they fill in for a payload.
Sendable(hdr, payload) ==
    /\ hdr \in Header /\ hdr.magic = MAGIC /\ hdr.version = VERSION
    /\ payload \in Seq(Byte) /\ Len(payload) = hdr.payload_len
=============================================================================
