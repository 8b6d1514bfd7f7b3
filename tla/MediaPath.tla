------------------------------ MODULE MediaPath ------------------------------
(***************************************************************************)
(* Audio from a file to an AI worker: cmd/mock-rtp-sender, the shared RTP  *)
(* ingress (internal/ingress/rawrtp), the session's audio pipeline with    *)
(* the operators of Audio, the protobuf messages of internal/ai on one     *)
(* side and cmd/mock-ai-worker on the other, and the worker's results.     *)
(*                                                                         *)
(* One sender and one session.  The network may lose and damage datagrams, *)
(* the session may be closed at any time, and a monitor reads the ingress  *)
(* counters while packets are counted.  Packets stay in order here and     *)
(* chunks reach the worker: jitter buffer, worker pool and AI stream have  *)
(* modules of their own.                                                   *)
(*                                                                         *)
(* A definition X_Bug is X with a bug that the runs are known to find; no  *)
(* action uses it.                                                         *)
(***************************************************************************)
EXTENDS Audio, SequencesExt

CONSTANTS
  Configs,       \* the files, codecs and rates that are run: see ConfigOK
  QueueCap,      \* capacity of Session.PacketQueue
  PartialEvery,  \* chunks of a partial result (3 in the mock worker)
  FinalEvery,    \* chunks of a final result (6)
  SeqWrap,        \* 2^16 in the program: RTP sequence numbers wrap there
  TsWrap          \* 2^32 in the program: RTP timestamps wrap there

FrameTable(codec) == IF codec = "AMR" THEN AmrNBFrameBytes ELSE AmrWBFrameBytes

IsAMR(codec) == codec \in {"AMR", "AMR-WB"}

(* readFrame: the payload of a frame, or <<>> for one that is not sent.    *)
Payload(codec, frame) ==
  IF ~IsAMR(codec) THEN frame
  ELSE IF FrameTable(codec)[FT(frame[1]) + 1] = 0 THEN <<>>
  ELSE <<240, frame[1] % 128>> \o Tail(frame)

(* The Opus and AMR-WB libraries are external: a payload of Opus is taken  *)
(* for its samples, and a frame of AMR-WB for two samples that tell which  *)
(* frame it is.  Without the library AMR is not decoded at all.            *)
Synthesis(frame) == <<frame.ft * 100 + frame.payload[1], IF frame.quality THEN 1 ELSE 0>>

DecodeAMRWB(payload) ==
  FlattenSeq([j \in DOMAIN ParseAMRFrames(payload, AmrWBFrameBytes) |->
    LET frame == ParseAMRFrames(payload, AmrWBFrameBytes)[j] IN
      IF frame.ft >= 14 THEN <<>>
      ELSE IF frame.payload = <<>> THEN <<0, 0>> ELSE Synthesis(frame)])

Decode(codec, payload) ==
  CASE codec = "PCMU" -> [i \in DOMAIN payload |-> DecodeUlaw(payload[i])]
    [] codec = "PCMA" -> [i \in DOMAIN payload |-> DecodeAlaw(payload[i])]
    [] codec = "OPUS" -> payload
    [] codec = "AMR-WB" -> DecodeAMRWB(payload)
    [] codec = "AMR" -> <<>>                           \* ErrAMRNotAvailable

(* What the sender is given (file to tsIncr), the session's side (ssrc and *)
(* addr tell whether the ingress can find it by them) and whether network, *)
(* monitor and session are unquiet.  A decoder returns a slice of int16.   *)
ConfigOK(c) ==
  /\ c.codec \in {"PCMU", "PCMA", "OPUS", "AMR", "AMR-WB"}
  /\ Len(c.file) \in Nat \ {0}
  /\ \A i \in DOMAIN c.file : Decode(c.codec, Payload(c.codec, c.file[i])) \in Seq(Samples)
  /\ c.count \in Nat /\ c.loop \in BOOLEAN
  /\ c.seq \in Nat /\ c.ts \in Nat /\ c.tsIncr \in Nat
  /\ c.inRate \in Nat \ {0} /\ c.inCh \in {1, 2} /\ c.outRate \in Nat \ {0}
  /\ c.chunkMs \in Nat /\ ChunkSamps(c.outRate, c.chunkMs) > 0
  /\ c.ssrc \in BOOLEAN /\ c.addr \in BOOLEAN /\ c.rough \in BOOLEAN

ASSUME MediaAssumption ==
  /\ \A c \in Configs : ConfigOK(c)
  /\ QueueCap \in Nat \ {0}
  /\ PartialEvery \in Nat \ {0} /\ FinalEvery \in Nat \ {0}
  /\ SeqWrap \in Nat \ {0} /\ TsWrap \in Nat \ {0}

VARIABLES
  cfg,      \* the configuration
  tx,       \* the sender: place in the file, next seq and ts, packets sent,
            \* and (for the properties) frames read
  net,      \* the datagram on its way, if any; nth, for the properties: how
            \* many frames the sender had read before its own
  rx,       \* Ingress.serve: its step and the packet it holds, if any
  cnt,      \* the counters of Ingress
  snap,     \* Ingress.Stats: the counters loaded so far
  queue,    \* Session.PacketQueue
  open,     \* is the session open
  pipe,     \* resampler phase and chunker of the session's pipeline
  fed,      \* a record of the past: timestamp, nth and PCM of the packets decoded,
            \* and how many samples there were in all up to the end of each
  chunks,   \* the chunks the pipeline has put out
  heard,    \* the chunks the worker has decoded
  ai,       \* the worker: chunks seen, last result's seq, start of the span
  results   \* the results, as the worker made and the gateway decoded them

mediaVars == <<cfg, tx, net, rx, cnt, snap, queue, open, pipe, fed, chunks, heard,
               ai, results>>

netVars == <<net, rx, cnt, queue>>
pipeVars == <<pipe, fed, chunks>>
aiVars == <<heard, ai, results>>

CounterOrder == <<"received", "routed", "parse", "unknown", "full">>

MediaInit ==
  /\ cfg \in Configs
  /\ tx = [pos |-> 1, seq |-> cfg.seq % SeqWrap, ts |-> cfg.ts % TsWrap, sent |-> 0,
           read |-> 0]
  /\ net = <<>>
  /\ rx = [step |-> "reading", pkt |-> <<>>]
  /\ cnt = [n \in ToSet(CounterOrder) |-> 0]
  /\ snap = <<>>
  /\ queue = <<>>
  /\ open = TRUE
  /\ pipe = [phase |-> 0, chunker |-> EmptyChunker]
  /\ fed = <<>>
  /\ chunks = <<>>
  /\ heard = <<>>
  /\ ai = [count |-> 0, seq |-> 0, start |-> 0, language |-> ""]
  /\ results = <<>>

-----------------------------------------------------------------------------
(* The sender.                                                             *)

NextTs == (tx.ts + cfg.tsIncr) % TsWrap

AfterSkip_Still == [tx EXCEPT !.pos = @ + 1, !.read = @ + 1]
AfterSkip == [tx EXCEPT !.pos = @ + 1, !.read = @ + 1, !.ts = NextTs]

Counted == cfg.count > 0 /\ tx.sent >= cfg.count

SendFrame ==
  /\ ~Counted
  /\ tx.pos <= Len(cfg.file)
  /\ LET payload == Payload(cfg.codec, cfg.file[tx.pos]) IN
     IF payload = <<>>
     THEN /\ tx' = AfterSkip
          /\ UNCHANGED net
     ELSE /\ net = <<>>
          /\ net' = <<[seq |-> tx.seq, ts |-> tx.ts, payload |-> payload,
                      bad |-> FALSE, nth |-> tx.read]>>
          /\ tx' = [AfterSkip EXCEPT !.ts = NextTs, !.seq = (@ + 1) % SeqWrap, !.sent = @ + 1]
  /\ UNCHANGED <<cfg, rx, cnt, snap, queue, open, pipeVars, aiVars>>

Rewind ==
  /\ ~Counted
  /\ tx.pos > Len(cfg.file)
  /\ cfg.loop
  /\ tx' = [tx EXCEPT !.pos = 1]
  /\ UNCHANGED <<cfg, netVars, snap, open, pipeVars, aiVars>>

-----------------------------------------------------------------------------
(* The network, the monitor and the session's end.                         *)

Lose ==
  /\ cfg.rough
  /\ net # <<>>
  /\ net' = <<>>
  /\ UNCHANGED <<cfg, tx, rx, cnt, snap, queue, open, pipeVars, aiVars>>

Damage ==
  /\ cfg.rough
  /\ net # <<>>
  /\ net' = <<[net[1] EXCEPT !.bad = TRUE]>>
  /\ UNCHANGED <<cfg, tx, rx, cnt, snap, queue, open, pipeVars, aiVars>>

(* Stats loads one counter after the other.                                *)
LoadOrder_ReceivedLast == <<"routed", "parse", "unknown", "full", "received">>
LoadOrder == CounterOrder

LoadCounter ==
  /\ cfg.rough
  /\ Len(snap) < Len(LoadOrder)
  /\ snap' = Append(snap, cnt[LoadOrder[Len(snap) + 1]])
  /\ UNCHANGED <<cfg, tx, netVars, open, pipeVars, aiVars>>

(* The flush: what the chunker c keeps goes out behind the chunks sent if  *)
(* the AudioQueue has room for it.                                         *)
Flush(sent, c) ==
  {sent} \cup IF c.buf = <<>> THEN {}
              ELSE {Append(sent, Emit(c.buf, c.cur, cfg.outRate, TRUE))}

(* The session is closed and its pipeline flushed.                         *)
CloseSession ==
  /\ cfg.rough
  /\ open
  /\ open' = FALSE
  /\ chunks' \in Flush(chunks, pipe.chunker)
  /\ pipe' = [pipe EXCEPT !.chunker.buf = <<>>]
  /\ UNCHANGED <<cfg, tx, netVars, snap, fed, aiVars>>

-----------------------------------------------------------------------------
(* Ingress.serve and handle.                                               *)

Count(name) == cnt' = [cnt EXCEPT ![name] = @ + 1]

Reading == [step |-> "reading", pkt |-> <<>>]

IngressStep(step, pkt) ==
  /\ rx' = [step |-> step, pkt |-> pkt]
  /\ UNCHANGED <<cfg, tx, snap, open, pipeVars, aiVars>>

Receive ==
  /\ rx.step = "reading"
  /\ net # <<>>
  /\ net' = <<>>
  /\ Count("received")
  /\ IngressStep("parsing", net)
  /\ UNCHANGED queue

ParseFails ==
  /\ rx.step = "parsing"
  /\ rx.pkt[1].bad
  /\ Count("parse")
  /\ IngressStep("reading", <<>>)
  /\ UNCHANGED <<net, queue>>

(* RouteBySSRC, tried unless the packet's SSRC is zero.                    *)
RouteBySSRC ==
  /\ rx.step = "parsing"
  /\ ~rx.pkt[1].bad
  /\ IngressStep(IF cfg.ssrc /\ open THEN "queueing" ELSE "routing", rx.pkt)
  /\ UNCHANGED <<net, cnt, queue>>

RouteByAddr ==
  /\ rx.step = "routing"
  /\ cfg.addr /\ open
  /\ IngressStep("queueing", rx.pkt)
  /\ UNCHANGED <<net, cnt, queue>>

Unroutable == Count("unknown")

DropUnknown ==
  /\ rx.step = "routing"
  /\ ~(cfg.addr /\ open)
  /\ Unroutable
  /\ IngressStep("reading", <<>>)
  /\ UNCHANGED <<net, queue>>

Enqueue_Both ==
  /\ rx.step = "queueing"
  /\ queue' = IF Len(queue) < QueueCap THEN queue \o rx.pkt ELSE queue
  /\ cnt' = [cnt EXCEPT !["routed"] = @ + 1, !["full"] = @ + Len(queue) \div QueueCap]
  /\ IngressStep("reading", <<>>)
  /\ UNCHANGED net

Enqueue ==
  /\ rx.step = "queueing"
  /\ IF Len(queue) < QueueCap
     THEN queue' = queue \o rx.pkt /\ Count("routed")
     ELSE UNCHANGED queue /\ Count("full")
  /\ IngressStep("reading", <<>>)
  /\ UNCHANGED net

-----------------------------------------------------------------------------
(* The pipeline: sessionPipeline.process of the next packet.               *)

ChunkSize == ChunkSamps(cfg.outRate, cfg.chunkMs)

(* The samples of one channel that the packets decoded so far have held.   *)
Input == IF fed = <<>> THEN 0 ELSE fed[Len(fed)].upto

(* What decoder, resampler and chunker make of a packet.                   *)
Cut(pkt) ==
  LET pcm == Decode(cfg.codec, pkt.payload)
      res == Resample(pcm, pipe.phase, cfg.inRate, cfg.inCh, cfg.outRate)
      psh == Push(pipe.chunker, res.out, pkt.ts, ChunkSize, cfg.outRate)
  IN [entry |-> [ts |-> pkt.ts, nth |-> pkt.nth, pcm |-> pcm,
                 upto |-> Input + Len(ToMono(pcm, cfg.inCh))],
      phase |-> res.phase, chunker |-> psh.chunker, chunks |-> psh.chunks]

Process ==
  /\ queue # <<>>
  /\ queue' = Tail(queue)
  /\ LET cut == Cut(Head(queue)) IN
     IF ~open \/ cut.entry.pcm = <<>> THEN UNCHANGED pipeVars
     ELSE /\ pipe' = [phase |-> cut.phase, chunker |-> cut.chunker]
          /\ fed' = Append(fed, cut.entry)
          /\ chunks' = chunks \o cut.chunks
  /\ UNCHANGED <<cfg, tx, net, rx, cnt, snap, open, aiVars>>

(* The session is closed while the chunks of a packet are put out: the     *)
(* select takes Done, the chunks left over are dropped, and the flush has  *)
(* the lock next.  CloseSession is a close after the last of them.         *)
ProcessCancelled ==
  /\ cfg.rough
  /\ open
  /\ queue # <<>>
  /\ queue' = Tail(queue)
  /\ open' = FALSE
  /\ LET cut == Cut(Head(queue)) IN
     /\ \E n \in 0 .. Len(cut.chunks) - 1 :
          chunks' \in Flush(chunks \o SubSeq(cut.chunks, 1, n), cut.chunker)
     /\ pipe' = [phase |-> cut.phase, chunker |-> [cut.chunker EXCEPT !.buf = <<>>]]
     /\ fed' = Append(fed, cut.entry)
  /\ UNCHANGED <<cfg, tx, net, rx, cnt, snap, aiVars>>

-----------------------------------------------------------------------------
(* The messages: field numbers with name, wire type and the value that is  *)
(* not sent.  Either program has a codec of its own for each message.      *)

Field(name, type, zero) == [name |-> name, type |-> type, zero |-> zero]

(* marshalAudioChunk of the gateway.                                       *)
ChunkOut_Swapped ==
  <<Field("SessionID", "bytes", ""), Field("StreamID", "bytes", ""),
    Field("PCM", "bytes", <<>>), Field("Channels", "varint", 0),
    Field("SampleRate", "varint", 0), Field("RTPTimestamp", "varint", 0),
    Field("DurationMs", "varint", 0), Field("EndOfStream", "varint", FALSE),
    Field("Language", "bytes", ""), Field("Task", "bytes", "")>>
ChunkOut ==
  <<Field("SessionID", "bytes", ""), Field("StreamID", "bytes", ""),
    Field("PCM", "bytes", <<>>), Field("SampleRate", "varint", 0),
    Field("Channels", "varint", 0), Field("RTPTimestamp", "varint", 0),
    Field("DurationMs", "varint", 0), Field("EndOfStream", "varint", FALSE),
    Field("Language", "bytes", ""), Field("Task", "bytes", "")>>

(* unmarshalAudioChunk of the worker.                                      *)
ChunkIn ==
  <<Field("SessionID", "bytes", ""), Field("StreamID", "bytes", ""),
    Field("PCM", "bytes", <<>>), Field("SampleRate", "varint", 0),
    Field("Channels", "varint", 0), Field("RTPTimestamp", "varint", 0),
    Field("DurationMs", "varint", 0), Field("EndOfStream", "varint", FALSE),
    Field("Language", "bytes", ""), Field("Task", "bytes", "")>>

(* marshalRecognitionResult of the worker; confidence in hundredths.       *)
ResultOut ==
  <<Field("SessionID", "bytes", ""), Field("StreamID", "bytes", ""),
    Field("Text", "bytes", ""), Field("IsFinal", "varint", FALSE),
    Field("TsStart", "varint", 0), Field("TsEnd", "varint", 0),
    Field("Confidence", "fixed32", 0), Field("Language", "bytes", ""),
    Field("Seq", "varint", 0)>>

(* unmarshalRecognitionResult of the gateway.                              *)
ResultIn ==
  <<Field("SessionID", "bytes", ""), Field("StreamID", "bytes", ""),
    Field("Text", "bytes", ""), Field("IsFinal", "varint", FALSE),
    Field("TsStart", "varint", 0), Field("TsEnd", "varint", 0),
    Field("Confidence", "fixed32", 0), Field("Language", "bytes", ""),
    Field("Seq", "varint", 0)>>

(* What is sent: type and value by field number; a field that has its zero *)
(* value is not.                                                           *)
Marshal(fields, m) ==
  [n \in {k \in DOMAIN fields : m[fields[k].name] # fields[k].zero} |->
     [type |-> fields[n].type, val |-> m[fields[n].name]]]

(* A field that did not come has its zero value; numbers and types that    *)
(* are not known are skipped.                                              *)
Unmarshal(fields, b) ==
  [name \in {fields[n].name : n \in DOMAIN fields} |->
     LET n == CHOOSE k \in DOMAIN fields : fields[k].name = name
     IN IF n \in DOMAIN b /\ b[n].type = fields[n].type
        THEN b[n].val ELSE fields[n].zero]

(* grpcStreamClient.Send adds what it was dialled with.                    *)
Wired(chunk) ==
  [SessionID |-> "s", StreamID |-> "s", PCM |-> chunk.PCM,
   SampleRate |-> chunk.SampleRate, Channels |-> chunk.Channels,
   RTPTimestamp |-> chunk.RTPTimestamp, DurationMs |-> chunk.DurationMs,
   EndOfStream |-> chunk.EndOfStream, Language |-> cfg.language, Task |-> ""]

-----------------------------------------------------------------------------
(* The worker.                                                             *)

Result(text, final, conf, w, ts) ==
  [SessionID |-> "s", StreamID |-> "s", Text |-> text, IsFinal |-> final,
   TsStart |-> w.start, TsEnd |-> ts, Confidence |-> conf,
   Language |-> w.language, Seq |-> w.seq]

SpanAfter_End(w, ts) == w
SpanAfter(w, ts) == [w EXCEPT !.start = ts]

(* What recognizeHandler answers to a chunk, and the state it is then in.  *)
Recognize(c) ==
  LET first == ai.count = 0
      w0 == [ai EXCEPT !.count = @ + 1,
                       !.start = IF first THEN c.RTPTimestamp ELSE @,
                       !.language = IF ~first THEN @
                                    ELSE IF c.Language = "" THEN "vi" ELSE c.Language]
      Tick(w, due) == IF due THEN [w EXCEPT !.seq = @ + 1] ELSE w
      partial == w0.count % PartialEvery = 0
      w1 == Tick(w0, partial)
      final == w0.count % FinalEvery = 0
      w2 == Tick(w1, final)
      w3 == IF final THEN SpanAfter(w2, c.RTPTimestamp) ELSE w2
      w4 == Tick(w3, c.EndOfStream)
      Say(due, r) == IF due THEN <<r>> ELSE <<>>
  IN [state |-> w4,
      out |-> Say(partial, Result("partial", FALSE, 0, w1, c.RTPTimestamp))
              \o Say(final, Result("final", TRUE, 92, w2, c.RTPTimestamp))
              \o Say(c.EndOfStream, Result("end", TRUE, 95, w4, c.RTPTimestamp))]

(* A chunk is sent and decoded, and its results come back.                 *)
Transmit ==
  /\ Len(heard) < Len(chunks)
  /\ LET c == Unmarshal(ChunkIn, Marshal(ChunkOut, Wired(chunks[Len(heard) + 1])))
         answer == Recognize(c)
     IN /\ heard' = Append(heard, c)
        /\ ai' = answer.state
        /\ results' = results \o
             [k \in DOMAIN answer.out |->
                [sent |-> answer.out[k],
                 got  |-> Unmarshal(ResultIn, Marshal(ResultOut, answer.out[k]))]]
  /\ UNCHANGED <<cfg, tx, netVars, snap, open, pipeVars>>

-----------------------------------------------------------------------------

MediaNext ==
  \/ SendFrame
  \/ Rewind
  \/ Lose
  \/ Damage
  \/ LoadCounter
  \/ CloseSession
  \/ Receive
  \/ ParseFails
  \/ RouteBySSRC
  \/ RouteByAddr
  \/ DropUnknown
  \/ Enqueue
  \/ Process
  \/ ProcessCancelled
  \/ Transmit

MediaSpec == MediaInit /\ [][MediaNext]_mediaVars

-----------------------------------------------------------------------------
(* Properties.                                                             *)

MediaTypeOK ==
  /\ cfg \in Configs
  /\ tx \in [pos : 1 .. Len(cfg.file) + 1, seq : 0 .. SeqWrap - 1,
             ts : 0 .. TsWrap - 1, sent : Nat, read : Nat]
  /\ Len(net) <= 1 /\ Len(rx.pkt) <= 1 /\ Len(queue) <= QueueCap
  /\ rx.step \in {"reading", "parsing", "routing", "queueing"}
  /\ rx.step = "reading" <=> rx.pkt = <<>>
  /\ cnt \in [ToSet(CounterOrder) -> Nat]
  /\ pipe.phase \in 0 .. cfg.inRate - 1
  /\ Len(pipe.chunker.buf) < ChunkSize
  /\ Len(heard) <= Len(chunks)

(* Sample i (from 1) of the whole input: packet PacketOf(i) holds it.      *)
PacketStart(k) == IF k = 1 THEN 0 ELSE fed[k - 1].upto

PacketOf(i) == CHOOSE k \in DOMAIN fed : PacketStart(k) < i /\ i <= fed[k].upto

InputSample(i) ==
  ToMono(fed[PacketOf(i)].pcm, cfg.inCh)[i - PacketStart(PacketOf(i))]

Ends == {fed[k].upto : k \in DOMAIN fed}

(* Sample n (from 0) of the output by definition: the value of the whole   *)
(* input at the time n / outRate, on the line between two neighbours of    *)
(* one packet, or level after the last sample of a packet.                 *)
At(n) == (n * cfg.inRate) \div cfg.outRate + 1

RefSample(n) ==
  LET i == At(n)
      frac == (n * cfg.inRate) % cfg.outRate
  IN IF i \in Ends THEN InputSample(i)
     ELSE InputSample(i) + Quot((InputSample(i + 1) - InputSample(i)) * frac, cfg.outRate)

(* How many samples the output has for n of the input.                     *)
OutFor(n) == (n * cfg.outRate + cfg.inRate - 1) \div cfg.inRate

RefCount == OutFor(Input)

PcmOf(k) == S16LEToInt16(chunks[k].PCM)

(* Where in the output chunk k begins: chunk after chunk, but for the one  *)
(* flushed, which is what is left over after the last full chunk.          *)
ChunkStart(k) ==
  IF chunks[k].EndOfStream THEN (RefCount \div ChunkSize) * ChunkSize
  ELSE (k - 1) * ChunkSize

ChunkEnd(k) == ChunkStart(k) + Len(PcmOf(k))

(* The chunks that were full before the last packet was decoded.           *)
Filled ==
  IF fed = <<>> THEN 0 ELSE OutFor(PacketStart(Len(fed))) \div ChunkSize

(* However the audio is cut into packets, what the pipeline puts out and   *)
(* still keeps is the whole input resampled as one piece: no sample is     *)
(* lost, doubled or shifted where packets or chunks meet, and the phase    *)
(* does not drift.  Only the close of the session may lose audio, and then *)
(* no more than chunks that its last packet filled and the part kept: the  *)
(* full chunks of all packets before are there, and a chunk that is        *)
(* flushed is the end of the output.                                       *)
AudioIsReference ==
  LET buf == pipe.chunker.buf
      kept == Len(chunks) * ChunkSize
  IN /\ \A k \in DOMAIN chunks : \A j \in DOMAIN PcmOf(k) :
          PcmOf(k)[j] = RefSample(ChunkStart(k) + j - 1)
     /\ \A k \in DOMAIN chunks :
          /\ ChunkEnd(k) <= RefCount
          /\ chunks[k].EndOfStream => ChunkEnd(k) = RefCount
     /\ \A k \in 1 .. Filled : k \in DOMAIN chunks /\ ~chunks[k].EndOfStream
     /\ \A j \in DOMAIN buf : buf[j] = RefSample(kept + j - 1)
     /\ open => kept + Len(buf) = RefCount

(* Every chunk but a flushed one, which is the last, is full, and carries  *)
(* the timestamp of the packet its first sample comes from.                *)
ChunksAreTimed ==
  \A k \in DOMAIN chunks :
    /\ \/ Len(chunks[k].PCM) = 2 * ChunkSize
       \/ chunks[k].EndOfStream /\ k = Len(chunks)
    /\ chunks[k].RTPTimestamp = fed[PacketOf(At(ChunkStart(k)))].ts

(* What the frames of the file hold, by the definition of their codec; one *)
(* that is not sent holds nothing.  In ITU-T G.711 the first bit of a byte *)
(* on the wire is 1 for a positive sample, in both laws.                   *)
RefUlaw(b) ==
  LET u == 255 - b
      mag == (8 * Mantissa(u) + 132) * 2^Exponent(u) - 132
  IN IF b >= 128 THEN mag ELSE -mag

(* A-law by its intervals: a segment doubles the step of the one before.   *)
RefAlaw(b) ==
  LET x == Flip5(Exponent(b)) * 16 + Flip5(Mantissa(b))
      Step(i) == IF i < 32 THEN 16 ELSE 16 * 2^(i \div 16 - 1)
      mag == Total([i \in 1 .. x |-> Step(i - 1)]) + Step(x) \div 2
  IN IF b >= 128 THEN mag ELSE -mag

RefFrame(frame) ==
  CASE Payload(cfg.codec, frame) = <<>> -> <<>>
    [] cfg.codec = "PCMU" -> [i \in DOMAIN frame |-> RefUlaw(frame[i])]
    [] cfg.codec = "PCMA" -> [i \in DOMAIN frame |-> RefAlaw(frame[i])]
    [] cfg.codec = "OPUS" -> frame
    [] OTHER -> <<FT(frame[1]) * 100 + frame[2], IF Quality(frame[1]) THEN 1 ELSE 0>>

FrameOf(k) == cfg.file[(fed[k].nth % Len(cfg.file)) + 1]

(* A timestamp says where in the file its audio was: the packet that the   *)
(* pipeline decodes holds the frame that lies as many steps into the file  *)
(* as its timestamp is after the first one, with frames skipped, packets   *)
(* lost, the file begun again and timestamps that wrap in between.         *)
TimestampsPlaceAudio ==
  \A k \in DOMAIN fed :
    /\ fed[k].ts = (cfg.ts + fed[k].nth * cfg.tsIncr) % TsWrap
    /\ fed[k].pcm = Decode(cfg.codec, Payload(cfg.codec, FrameOf(k)))

(* What is decoded is what the frame holds by the definition of its codec. *)
(* For mu-law the code departs from its codec: decodeUlaw takes the sign   *)
(* bit after the complement for that of a positive sample (g711.go:47),    *)
(* against ITU-T G.711, which it names, so every sample is the negative of *)
(* what the frame holds.                                                   *)
FramesAreDecoded ==
  \A k \in DOMAIN fed :
    LET held == RefFrame(FrameOf(k))
    IN fed[k].pcm = IF cfg.codec = "PCMU" THEN [i \in DOMAIN held |-> -held[i]] ELSE held

(* Every field of every chunk and of every result is the same at the far   *)
(* end, the ones with a zero value included, though each program encodes   *)
(* and decodes with field numbers of its own.                              *)
MessagesArriveIntact ==
  /\ \A k \in DOMAIN heard : heard[k] = Wired(chunks[k])
  /\ \A k \in DOMAIN results : results[k].got = results[k].sent

(* The spans of the final results follow one another from the first chunk  *)
(* on, and a partial result lies at the start of the span to come.         *)
SpansAreContiguous ==
  \A k \in DOMAIN results :
    LET r == results[k].got
        finals == {j \in 1 .. k - 1 : results[j].got.IsFinal}
    IN /\ r.Seq = k
       /\ r.TsStart = IF finals = {} THEN heard[1].RTPTimestamp
                      ELSE results[CHOOSE j \in finals : \A i \in finals : i <= j].got.TsEnd

Dropped == cnt["parse"] + cnt["unknown"] + cnt["full"]

(* Every datagram received is counted once more, as routed or under one of *)
(* the reasons for a drop, except the one that is being handled.           *)
EveryPacketCounted ==
  cnt["received"] = cnt["routed"] + Dropped + Len(rx.pkt)

(* A snapshot is not taken at one moment, yet it never shows a datagram as *)
(* lost: what it says was routed or dropped covers what it says was        *)
(* received, but for the one being handled.                                *)
SnapshotCovers ==
  Len(snap) = Len(LoadOrder) =>
    LET Of(name) == snap[CHOOSE i \in DOMAIN LoadOrder : LoadOrder[i] = name]
    IN Of("routed") + Of("parse") + Of("unknown") + Of("full") >= Of("received") - 1

(* What holds of the counts and times at any moment: every datagram has one    *)
(* outcome, also in a snapshot, chunks carry the time at which they begin,     *)
(* messages arrive as they were sent, and the spans of results follow each     *)
(* other.                                                                      *)
MediaPathInv ==
  /\ MediaTypeOK
  /\ EveryPacketCounted
  /\ SnapshotCovers
  /\ ChunksAreTimed
  /\ MessagesArriveIntact
  /\ SpansAreContiguous
=============================================================================
