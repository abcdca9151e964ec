SPECIFICATION Spec
CONSTANTS
  Source = {0, 1}
  flit_payload_bit_count = 3
  source_index_bit_count = 1
  max_packet_bit_count = 4
  max_outstanding_packets = 2
  PacketBits = {1, 4}
  MaxPackets = 2
INVARIANT
  PacketsIntact
CHECK_DEADLOCK FALSE
