------------------------------ MODULE MCWebRTC ------------------------------
(* Instance of WebRTC for TLC: with a UDP relay, and with audio.            *)
EXTENDS WebRTC

RelayAndAudio == {[udp |-> TRUE, packets |-> 0], [udp |-> FALSE, packets |-> 1]}
=============================================================================
