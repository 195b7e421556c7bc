------------------------------ MODULE MCPairing ------------------------------
(* Instances of Pairing for TLC. Devices are interchangeable.              *)
EXTENDS Pairing, TLC

CONSTANTS mac, phone, signal, imessage, page, watcher, cli

TwoPeers   == {mac, phone}
TwoSources == {signal, imessage}
OneSource  == {signal}
Pages      == {page}

PeerSymmetry == Permutations(Peer)
=============================================================================
