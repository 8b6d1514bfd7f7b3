------------------------------- MODULE Audio -------------------------------
(***************************************************************************)
(* The pure part of the media path: internal/codec (G.711 and the framing  *)
(* of AMR) and internal/audio (down-mix, resampler, chunker, S16LE).       *)
(*                                                                         *)
(* Bytes are 0 .. 255, samples are integers of the int16 range, and every  *)
(* loop of the code is written as the sequence it builds.                  *)
(*                                                                         *)
(* A definition X_Bug is X with a bug that the runs are known to find; no  *)
(* operator uses it.                                                       *)
(***************************************************************************)
EXTENDS Integers, Sequences, FiniteSets

LOCAL INSTANCE Functions

Samples == {n \in Int : -32768 <= n /\ n <= 32767}     \* int16

(* Go's integer division, which truncates towards zero; b is positive.     *)
Quot(a, b) == IF a >= 0 THEN a \div b ELSE -((-a) \div b)

Total(f) == FoldFunction(+, 0, f)

-----------------------------------------------------------------------------
(* G.711: a byte is a sign, an exponent of 3 bits and a mantissa of 4.     *)

Exponent(b) == (b % 128) \div 16
Mantissa(b) == b % 16

ExpLut == <<0, 132, 396, 924, 1980, 4092, 8316, 16764>>

DecodeUlaw(wire) ==
  LET u == 255 - wire
      mag == ExpLut[Exponent(u) + 1] + Mantissa(u) * 2^(Exponent(u) + 3)
  IN IF u >= 128 THEN mag ELSE -mag

(* x with its bits 0 and 2 flipped: what XOR with 0x55 does to the exponent*)
(* and to the mantissa; the sign is not changed by it.                     *)
Flip5(x) == x + (IF x % 2 = 0 THEN 1 ELSE -1)
              + (IF (x \div 4) % 2 = 0 THEN 4 ELSE -4)

DecodeAlaw_NoBias(wire) ==
  LET exp == Flip5(Exponent(wire))
      mag == (Flip5(Mantissa(wire)) * 16 + 8) * (IF exp = 0 THEN 1 ELSE 2^(exp - 1))
  IN IF wire >= 128 THEN mag ELSE -mag

DecodeAlaw(wire) ==
  LET exp == Flip5(Exponent(wire))
      man == Flip5(Mantissa(wire))
      mag == IF exp = 0 THEN man * 16 + 8 ELSE (man * 16 + 264) * 2^(exp - 1)
  IN IF wire >= 128 THEN mag ELSE -mag

-----------------------------------------------------------------------------
(* AMR: the bytes of a frame by its type, and an octet-aligned payload:    *)
(* a request byte, a table of contents whose last entry has no F bit, and  *)
(* the frames.                                                             *)

AmrNBFrameBytes == <<12, 13, 15, 17, 19, 20, 26, 31, 5, 0, 0, 0, 0, 0, 0, 0>>
AmrWBFrameBytes == <<17, 23, 32, 36, 40, 46, 50, 58, 60, 5, 0, 0, 0, 0, 0, 0>>

FT(entry) == (entry \div 8) % 16
Quality(entry) == (entry \div 4) % 2 = 1

ParseAMRFrames(payload, table) ==
  LET Last(i) == i = Len(payload) \/ payload[i] < 128
      end == CHOOSE i \in 2 .. Len(payload) :
               Last(i) /\ \A j \in 2 .. i - 1 : ~Last(j)
      Size(j) == table[FT(payload[j + 1]) + 1]
      Start(j) == end + Total([k \in 1 .. j - 1 |-> Size(k)])
      Fits(j) == \A k \in 1 .. j : Start(k) + Size(k) <= Len(payload)
      Frame(j) == [ft |-> FT(payload[j + 1]), quality |-> Quality(payload[j + 1]),
                   payload |-> SubSeq(payload, Start(j) + 1, Start(j) + Size(j))]
  IN IF Len(payload) < 2 THEN <<>>
     ELSE [j \in 1 .. Cardinality({k \in 1 .. end - 1 : Fits(k)}) |-> Frame(j)]

-----------------------------------------------------------------------------
(* Resampler.                                                              *)

(* One channel or two: a session is created with one, and the Opus decoder *)
(* takes no more than two.                                                 *)
ToMono(in, inCh) ==
  IF inCh = 1 THEN in
  ELSE [i \in 1 .. Len(in) \div 2 |-> Quot(in[2 * i - 1] + in[2 * i], 2)]

(* How many samples come out of n, when the first is at the phase given.   *)
Produced_Extra(n, phase, inRate, outRate) ==
  IF phase >= n * outRate THEN 0 ELSE (n * outRate - phase) \div inRate + 1
Produced(n, phase, inRate, outRate) ==
  IF phase >= n * outRate THEN 0
  ELSE (n * outRate - phase + inRate - 1) \div inRate

PhaseAfter_Reset(n, phase, inRate, outRate) == 0
PhaseAfter(n, phase, inRate, outRate) ==
  phase + Produced(n, phase, inRate, outRate) * inRate - n * outRate

(* A packet without a sample gives none.  The code would fail on it (mono  *)
(* at n - 1), but process returns before, as a session has one channel.    *)
LinearResample(mono, phase, inRate, outRate) ==
  LET n == Len(mono)
      Sample(at) ==
        LET idx == at \div outRate
            s0 == mono[idx + 1]
        IN IF idx >= n - 1 THEN mono[n]                \* hold the last sample
           ELSE s0 + Quot((mono[idx + 2] - s0) * (at % outRate), outRate)
  IN [k \in 1 .. Produced(n, phase, inRate, outRate) |->
        Sample(phase + (k - 1) * inRate)]

(* What Resample returns, and the phase it keeps for the next packet.      *)
Resample(in, phase, inRate, inCh, outRate) ==
  LET mono == ToMono(in, inCh) IN
  IF inRate = outRate THEN [out |-> mono, phase |-> 0]
  ELSE [out |-> LinearResample(mono, phase, inRate, outRate),
        phase |-> PhaseAfter(Len(mono), phase, inRate, outRate)]

-----------------------------------------------------------------------------
(* S16LE.                                                                  *)

Int16ToS16LE(samples) ==
  [i \in 1 .. 2 * Len(samples) |->
     LET u == samples[(i + 1) \div 2] % 65536
     IN IF i % 2 = 1 THEN u % 256 ELSE u \div 256]

S16LEToInt16(b) ==
  [i \in 1 .. Len(b) \div 2 |->
     LET u == b[2 * i - 1] + 256 * b[2 * i]
     IN IF u >= 32768 THEN u - 65536 ELSE u]

-----------------------------------------------------------------------------
(* Chunker: c has the samples kept (buf) and curRTPTs (cur).               *)

EmptyChunker == [buf |-> <<>>, cur |-> 0]

ChunkSamps(rate, chunkMs) == (rate * chunkMs) \div 1000

(* A chunk; the pipeline says whether it is the last of its stream.        *)
Emit(samples, ts, rate, last) ==
  [PCM |-> Int16ToS16LE(samples), SampleRate |-> rate, Channels |-> 1,
   RTPTimestamp |-> ts, DurationMs |-> (Len(samples) * 1000) \div rate,
   EndOfStream |-> last]

(* The timestamp of the chunk after j chunks of a Push: that of the packet *)
(* its first sample is from, an earlier one as long as old samples are left*)
ChunkTs_Newest(c, j, size, ts) == ts
ChunkTs(c, j, size, ts) == IF Len(c.buf) > j * size THEN c.cur ELSE ts

(* What Push returns, and the chunker it leaves.                           *)
Push(c, pcm, ts, size, rate) ==
  LET all == c.buf \o pcm
      k == Len(all) \div size
  IN IF pcm = <<>> THEN [chunks |-> <<>>, chunker |-> c]
     ELSE [chunks  |-> [j \in 1 .. k |->
                          Emit(SubSeq(all, (j - 1) * size + 1, j * size),
                               ChunkTs(c, j - 1, size, ts), rate, FALSE)],
           chunker |-> [buf |-> SubSeq(all, k * size + 1, Len(all)),
                        cur |-> ChunkTs(c, k, size, ts)]]
=============================================================================
