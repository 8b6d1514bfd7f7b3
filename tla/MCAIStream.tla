----------------------------- MODULE MCAIStream -----------------------------
(* AIStream on small instances.                                            *)
EXTENDS AIStream, TLC

BothConfigs == {DefaultConfig, ToAIConfig}
=============================================================================
