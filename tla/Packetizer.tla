----------------------------- MODULE Packetizer -----------------------------
(***************************************************************************)
(* Packets over a network on chip (noc/simulation/packetizer): at every    *)
(* source a DePacketizer cuts packets into flits; at the sink a Packetizer *)
(* collects the flits of each source until their tail arrives.  The        *)
(* network in between keeps the flits of a source in order, see NocNetwork,*)
(* and interleaves those of different sources.                             *)
(*                                                                         *)
(* Of the data of a flit, the packet it belongs to and the bits it stands  *)
(* for are kept.                                                           *)
(***************************************************************************)
EXTENDS Integers, SequencesExt

CONSTANTS
  Source,                  \* source indices, numbers from 0
  flit_payload_bit_count, source_index_bit_count, max_packet_bit_count,
  max_outstanding_packets, \* of the Packetizer
  PacketBits,              \* bound: sizes of the packets sent, from 1 to max_packet_bit_count
  MaxPackets               \* bound: packets of a source

Store == 0..(max_outstanding_packets - 1)

VARIABLES
  packet,                   \* source -> packets it was given, by their sizes
  bits_left_to_send,        \* source -> of the last packet
  network,                  \* source -> its flits on the way to the sink
  partial_packets,          \* store -> data of the flits received so far
  partial_packet_index_map, \* source -> its store, for some sources
  received_packets,         \* the packets completed, in order
  status                    \* of the last AcceptNewFlit

vars == <<packet, bits_left_to_send, network, partial_packets,
          partial_packet_index_map, received_packets, status>>

-----------------------------------------------------------------------------
(* DePacketizer. *)

IsIdle(s) == bits_left_to_send[s] = 0

GetReservedFlitPayloadBitCount ==
  IF flit_payload_bit_count >= max_packet_bit_count THEN 0 ELSE source_index_bit_count

AcceptNewPacket(s, bits) ==
  /\ IsIdle(s) /\ Len(packet[s]) < MaxPackets
  /\ packet' = [packet EXCEPT ![s] = Append(@, bits)]
  /\ bits_left_to_send' = [bits_left_to_send EXCEPT ![s] = bits]
  /\ UNCHANGED <<network, partial_packets, partial_packet_index_map,
                 received_packets, status>>

(* Low bits first. *)
ComputeNextFlit(s) ==
  LET max_bits_to_send == flit_payload_bit_count - GetReservedFlitPayloadBitCount
      already == Last(packet[s]) - bits_left_to_send[s]
      isTail  == bits_left_to_send[s] <= max_bits_to_send
      n       == IF isTail THEN bits_left_to_send[s] ELSE max_bits_to_send
  IN  /\ ~IsIdle(s)
      /\ network' = [network EXCEPT ![s] = Append(@,
           [tail |-> isTail,
            data |-> [source |-> s, packet |-> Len(packet[s]),
                      bits |-> already .. (already + n - 1)]])]
      /\ bits_left_to_send' = [bits_left_to_send EXCEPT ![s] = @ - n]
      /\ UNCHANGED <<packet, partial_packets, partial_packet_index_map,
                     received_packets, status>>

-----------------------------------------------------------------------------
(* Packetizer. *)

EmptyStores == {i \in Store : partial_packets[i] = <<>>}

(* The store of source s, if there is one for it. *)
AllocateOrRetrievePartialPacketStore(s) ==
  IF s \in DOMAIN partial_packet_index_map THEN {partial_packet_index_map[s]}
  ELSE IF EmptyStores = {} THEN {} ELSE {Min(EmptyStores)}

(* What remains of map when the packet of source s is complete: the entry  *)
(* that is erased is the one of the store's number.                        *)
DeallocatePartialPacketStore(map, s) ==
  [t \in DOMAIN map \ {map[s]} |-> map[t]]

AcceptNewFlit(s) ==
  /\ status = "ok" /\ network[s] # <<>>
  /\ network' = [network EXCEPT ![s] = Tail(@)]
  /\ LET flit   == Head(network[s])
         stores == AllocateOrRetrievePartialPacketStore(s)
     IN  \/ /\ stores = {}
            /\ status' = "unable to allocate buffer for next packet"
            /\ UNCHANGED <<partial_packets, partial_packet_index_map, received_packets>>
         \/ \E i \in stores :
              LET data == Append(partial_packets[i], flit.data)
                  map  == [t \in DOMAIN partial_packet_index_map \cup {s} |->
                             IF t = s THEN i ELSE partial_packet_index_map[t]]
              IN  /\ IF flit.tail
                       THEN /\ partial_packets' = [partial_packets EXCEPT ![i] = <<>>]
                            /\ partial_packet_index_map' = DeallocatePartialPacketStore(map, s)
                            /\ received_packets' = Append(received_packets,
                                 [source |-> s, data |-> data])
                       ELSE /\ partial_packets' = [partial_packets EXCEPT ![i] = data]
                            /\ partial_packet_index_map' = map
                            /\ UNCHANGED received_packets
                  /\ UNCHANGED status
  /\ UNCHANGED <<packet, bits_left_to_send>>

Init ==
  /\ packet = [s \in Source |-> <<>>]
  /\ bits_left_to_send = [s \in Source |-> 0]
  /\ network = [s \in Source |-> <<>>]
  /\ partial_packets = [i \in Store |-> <<>>]
  /\ partial_packet_index_map = [s \in {} |-> 0]
  /\ received_packets = <<>>
  /\ status = "ok"

Next ==
  \E s \in Source :
    \/ \E bits \in PacketBits : AcceptNewPacket(s, bits)
    \/ ComputeNextFlit(s)
    \/ AcceptNewFlit(s)

Spec == Init /\ [][Next]_vars

-----------------------------------------------------------------------------
(* A packet that is received is one that its source was given, complete    *)
(* and in order: flits of different sources are collected apart            *)
(* (packetizer.h: a source has at most one outstanding packet, and         *)
(* partial_packet_index_map_ leads from the source to its flits).          *)
PacketsIntact ==
  \A i \in DOMAIN received_packets :
    LET p == received_packets[i]
        d == p.data
    IN  /\ \A k \in DOMAIN d : d[k].source = p.source /\ d[k].packet = d[1].packet
        /\ UNION {d[k].bits : k \in DOMAIN d} = 0..(packet[p.source][d[1].packet] - 1)
        /\ \A k \in 2..Len(d) : \A a \in d[k - 1].bits, b \in d[k].bits : a < b
=============================================================================
