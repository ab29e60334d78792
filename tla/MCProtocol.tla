----------------------------- MODULE MCProtocol ------------------------------
(* Two objects, three blocks, and messages with 0, 2 and 4 bytes.           *)
EXTENDS Protocol, TLC

Symmetry == Permutations(Objects) \cup Permutations(Blocks)

Peers == {
  [head |-> NPDProtocolHead, slength |-> SIZE, type |-> 1, count |-> 2,
   payloadlength |-> Len(d) % LENGTHS, data |-> d, tState |-> 1, run |-> 0, cmd |-> 7,
   CRC32 |-> 9, reserve |-> 5, end |-> NPDProtocolEnd] : d \in {<<>>, <<2, 1>>, <<1, 2, 1, 2>>}}

Arguments == {<<0, 0>>, <<0, 2>>, <<1, 1>>, <<1, 4>>, <<2, 2>>, <<7, 2>>}
=============================================================================
