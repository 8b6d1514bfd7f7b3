---------------------------- MODULE MCMediaPath ----------------------------
(* Instance of MediaPath for TLC.  Rates are in samples per second of a    *)
(* clock of its own, small enough for a few packets to fill chunks.        *)
EXTENDS MediaPath

Base == [codec |-> "PCMU", file |-> <<>>, count |-> 0, loop |-> FALSE,
         seq |-> 3, ts |-> 12, tsIncr |-> 2, inRate |-> 1, inCh |-> 1,
         outRate |-> 2, chunkMs |-> 1500, ssrc |-> TRUE, addr |-> FALSE,
         rough |-> FALSE, language |-> ""]

With(over) == over @@ Base

(* Every byte of G.711, upsampled by two into chunks of three.             *)
Bytes ==
  {With([codec |-> c, file |-> <<<<b, 255 - b>>, <<(b + 128) % 256, b>>>>]) :
     c \in {"PCMU", "PCMA"}, b \in 0 .. 255}

(* Every frame type of AMR-WB with either quality, beside NO_DATA and SID. *)
AmrFrame(ft, q) == <<ft * 8 + q * 4>> \o [i \in 1 .. AmrWBFrameBytes[ft + 1] |-> ft + i]

Frames ==
  {With([codec |-> "AMR-WB", outRate |-> 1, chunkMs |-> 2000, language |-> "en",
         file |-> <<AmrFrame(ft, q), AmrFrame(15, 1), AmrFrame(9, 0)>>]) :
     ft \in 0 .. 15, q \in {0, 1}}
  \cup {With([codec |-> "AMR", file |-> <<AmrFrame(0, 1)>>])}

(* Stereo and rates that do not divide each other, with some packets that  *)
(* produce nothing and some that span several chunks.                      *)
Rates ==
  {With([codec |-> "OPUS", inRate |-> r[1], inCh |-> 2, outRate |-> r[2],
         chunkMs |-> r[3], tsIncr |-> 1, language |-> "en",
         file |-> <<<<5, -8, 700, -3>>, <<-7, -2, 90, 30>>,
                    <<-32768, -32768, 32767, 32767>>, <<1, 0, -1, 0>>>>]) :
     r \in {<<3, 1, 1000>>, <<3, 1, 2000>>, <<2, 3, 1000>>, <<5, 3, 700>>, <<1, 4, 500>>}}

(* A bad network, a closing session and a monitor, with a looped file.     *)
Rough ==
  {With([codec |-> "PCMA", file |-> <<<<0, 200>>, <<9, 90>>>>, loop |-> TRUE,
         count |-> 3, ssrc |-> a = 1, addr |-> a = 2, rough |-> TRUE]) : a \in 0 .. 2}

MCConfigs == Bytes \cup Frames \cup Rates \cup Rough
=============================================================================
