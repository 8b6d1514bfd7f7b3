---------------------------- MODULE AIStreamProofs ----------------------------
(***************************************************************************)
(* The order of audio and results and the books of an AI stream, for       *)
(* queues of any capacity, any worker and any number of retries.           *)
(*                                                                         *)
(* A chunk passes five places, a result four.  Marks stand between the     *)
(* places: what lies in one is later than the mark before it and not later *)
(* than the mark after it.  A step that hands something on moves one mark; *)
(* a lost connection only takes something away, and its successor begins   *)
(* after the last mark.                                                    *)
(***************************************************************************)
EXTENDS AIStream, TLAPS, SequenceTheorems

(* Chunks that follow each other, after lo and up to hi.                   *)
Between(s, lo, hi) ==
  /\ \A i \in DOMAIN s : lo < s[i].n /\ s[i].n <= hi
  /\ \A i, j \in DOMAIN s : i < j => s[i].n < s[j].n

HeardUpTo(hi) ==
  /\ \A i \in DOMAIN heard : heard[i] <= hi
  /\ \A i, j \in DOMAIN heard : i < j => heard[i] < heard[j]

AudioMarks ==
  \E a, b, c, d \in 0..made :
    /\ a <= b /\ b <= c /\ c <= d
    /\ HeardUpTo(a)
    /\ Between(conn.up, a, b)
    /\ snd.at = "send" => b < snd.chunk.n /\ snd.chunk.n <= c
    /\ Between(queue, c, d)
    /\ Between(audio, d, made)

(* The order of results: by connection, then by place.                     *)
Earlier(r, t) == r.conn < t.conn \/ (r.conn = t.conn /\ r.seq < t.seq)
NotLater(r, t) == r.conn < t.conn \/ (r.conn = t.conn /\ r.seq <= t.seq)

Inside(s, lo, hi) ==
  /\ \A i \in DOMAIN s : Earlier(lo, s[i]) /\ NotLater(s[i], hi)
  /\ \A i, j \in DOMAIN s : i < j => Earlier(s[i], s[j])

Origin == [conn |-> 0, seq |-> 0, final |-> FALSE]
Newest == [conn |-> conn.n, seq |-> conn.seq, final |-> FALSE]

ResultMarks ==
  \E a, b, c \in Results :
    /\ NotLater(a, b) /\ NotLater(b, c) /\ NotLater(c, Newest)
    /\ Inside(got, Origin, a)
    /\ Inside(out, a, b)
    /\ rcv.at = "offer" => Earlier(b, rcv.result) /\ NotLater(rcv.result, c)
    /\ Inside(conn.down, c, Newest)

(* What a loop has in hand is there.                                       *)
InPlace ==
  /\ snd.at \in {"send", "sent"} => snd.chunk # None
  /\ rcv.at = "offer" <=> rcv.result # None

(* Between two pairs no goroutine of a pair is left.                       *)
LoopsLeft == sup # "pair" => fwd = "done" /\ snd.at = "done" /\ rcv.at = "done"

(* Only the flush of a session that has ended marks a chunk as the last.   *)
EndsMarked ==
  ctx = "live" =>
    /\ \A i \in DOMAIN audio : ~audio[i].end
    /\ \A i \in DOMAIN queue : ~queue[i].end
    /\ snd.at \in {"send", "sent"} => ~snd.chunk.end
    /\ ~snd.eos

(* While the session is open no goroutine of a pair leaves without a       *)
(* reason for the others to know.                                          *)
LeftForAReason ==
  sup = "pair" /\ (st.cancelled \/ fwd = "done" \/ snd.at \in {"close", "cancel", "done"}) =>
    ctx # "live" \/ st.err # None \/ st.timedOut

(* The reaper has the stream's counters or has not.                        *)
Books ==
  IF sup \in {"pair", "backoff", "returned"} THEN totals = Zero /\ entry
  ELSE totals = counts /\ (sup = "counted" <=> entry)

(* Retry has counted the connection to come and forgotten the error.       *)
Redials == sup = "backoff" => conn.n <= counts.retries /\ st.err = None

IInv ==
  /\ TypeOK /\ InPlace /\ LoopsLeft /\ AudioMarks /\ ResultMarks /\ EndsMarked
  /\ LeftForAReason /\ Books /\ Redials /\ ReconnectsAsConfigured

-----------------------------------------------------------------------------
(* Sequences of chunks.                                                    *)

(* A chunk that is later than all joins at the end.                        *)
LEMMA ChunkJoins ==
  ASSUME NEW s \in Seq(Chunks), NEW x \in Chunks, NEW lo \in Nat, NEW hi \in Nat,
         Between(s, lo, hi), lo <= hi, hi < x.n
  PROVE  Append(s, x) \in Seq(Chunks) /\ Between(Append(s, x), lo, x.n)
<1>1. /\ Append(s, x) \in Seq(Chunks) /\ DOMAIN Append(s, x) = 1..Len(s) + 1
      /\ \A i \in 1..Len(s) : Append(s, x)[i] = s[i]
      /\ Append(s, x)[Len(s) + 1] = x
  BY AppendProperties
<1>2. /\ x.n \in Nat /\ Len(s) \in Nat /\ DOMAIN s = 1..Len(s)
      /\ \A i \in 1..Len(s) : s[i].n \in Nat /\ lo < s[i].n /\ s[i].n <= hi
  <2>1. \A i \in 1..Len(s) : s[i] \in Chunks
    OBVIOUS
  <2>2. \A y \in Chunks : y.n \in Nat
    BY DEF Chunks
  <2>3. Len(s) \in Nat /\ DOMAIN s = 1..Len(s)
    OBVIOUS
  <2> QED
    BY <2>1, <2>2, <2>3 DEF Between
<1>3. \A i, j \in 1..Len(s) : i < j => s[i].n < s[j].n
  BY <1>2 DEF Between
<1> DEFINE t == Append(s, x)
<1>4. \A i \in 1..Len(s) + 1 : i \in 1..Len(s) \/ i = Len(s) + 1
  BY <1>2
<1> HIDE DEF t
<1>5. \A i \in DOMAIN t : lo < t[i].n /\ t[i].n <= x.n
  BY <1>1, <1>2, <1>4 DEF t
<1>6. \A i, j \in DOMAIN t : i < j => t[i].n < t[j].n
  BY <1>1, <1>2, <1>3, <1>4 DEF t
<1> QED
  BY <1>1, <1>5, <1>6 DEF Between, t

(* The first chunk is the mark of those that remain.                       *)
LEMMA ChunkTaken ==
  ASSUME NEW s \in Seq(Chunks), s # <<>>, NEW lo \in Nat, NEW hi \in Nat, Between(s, lo, hi)
  PROVE  /\ Head(s) \in Chunks /\ Tail(s) \in Seq(Chunks) /\ Len(Tail(s)) = Len(s) - 1
         /\ lo < Head(s).n /\ Head(s).n <= hi /\ Head(s).n \in Nat
         /\ Between(Tail(s), Head(s).n, hi)
<1>1. /\ Head(s) \in Chunks /\ Tail(s) \in Seq(Chunks) /\ Len(Tail(s)) = Len(s) - 1
      /\ \A i \in 1..Len(Tail(s)) : Tail(s)[i] = s[i + 1]
  BY HeadTailProperties
<1>2. Head(s) = s[1] /\ 1 \in DOMAIN s /\ DOMAIN s = 1..Len(s) /\ Len(s) \in Nat
  OBVIOUS
<1>3. DOMAIN Tail(s) = 1..Len(s) - 1 /\ \A i \in DOMAIN Tail(s) : i \in Nat /\ i + 1 \in DOMAIN s /\ 1 < i + 1
  BY <1>1, <1>2
<1>4. Head(s).n \in Nat
  BY <1>1 DEF Chunks
<1>5. \A i \in DOMAIN Tail(s) : Tail(s)[i] = s[i + 1]
  BY <1>1, <1>3
<1> DEFINE t == Tail(s)
<1> HIDE DEF t
<1>6. \A i \in DOMAIN t : s[1].n < t[i].n /\ t[i].n <= hi
  BY <1>2, <1>3, <1>5 DEF t, Between
<1>7. \A i, j \in DOMAIN t : i < j => i + 1 < j + 1
  BY <1>3 DEF t
<1>8. \A i, j \in DOMAIN t : i < j => t[i].n < t[j].n
  BY <1>3, <1>5, <1>7 DEF t, Between
<1> QED
  BY <1>1, <1>2, <1>3, <1>4, <1>5, <1>6, <1>8 DEF Between, t

(* Chunks up to a mark before chunks after it.                             *)
LEMMA ChunksMeet ==
  ASSUME NEW s \in Seq(Chunks), NEW t \in Seq(Chunks), NEW lo \in Nat, NEW m \in Nat, NEW hi \in Nat,
         Between(s, lo, m), Between(t, m, hi), lo <= m, m <= hi
  PROVE  s \o t \in Seq(Chunks) /\ Between(s \o t, lo, hi)
<1> DEFINE u == s \o t
<1>1. /\ u \in Seq(Chunks) /\ DOMAIN u = 1..Len(s) + Len(t)
      /\ \A i \in 1..Len(s) + Len(t) : u[i] = IF i <= Len(s) THEN s[i] ELSE t[i - Len(s)]
  BY ConcatProperties
<1>2. Len(s) \in Nat /\ Len(t) \in Nat /\ DOMAIN s = 1..Len(s) /\ DOMAIN t = 1..Len(t)
  OBVIOUS
<1>3. /\ \A i \in DOMAIN s : s[i].n \in Nat /\ lo < s[i].n /\ s[i].n <= m
      /\ \A i \in DOMAIN t : t[i].n \in Nat /\ m < t[i].n /\ t[i].n <= hi
  <2>1. /\ \A i \in DOMAIN s : s[i] \in Chunks
        /\ \A i \in DOMAIN t : t[i] \in Chunks
    BY <1>2
  <2>2. \A y \in Chunks : y.n \in Nat
    BY DEF Chunks
  <2> QED
    BY <2>1, <2>2 DEF Between
<1>4. \A i \in DOMAIN u : \/ i \in DOMAIN s /\ u[i] = s[i]
                          \/ i - Len(s) \in DOMAIN t /\ u[i] = t[i - Len(s)] /\ ~(i <= Len(s))
  BY <1>1, <1>2
<1> HIDE DEF u
<1>5. \A i \in DOMAIN u : lo < u[i].n /\ u[i].n <= hi
  BY <1>3, <1>4
<1>6. ASSUME NEW i \in DOMAIN u, NEW j \in DOMAIN u, i < j PROVE u[i].n < u[j].n
  <2>1. CASE j <= Len(s)
    <3>1. i \in DOMAIN s /\ j \in DOMAIN s /\ u[i] = s[i] /\ u[j] = s[j]
      BY <1>1, <1>2, <1>4, <1>6, <2>1
    <3> QED
      BY <1>6, <3>1 DEF Between
  <2>2. CASE i <= Len(s) /\ ~(j <= Len(s))
    <3>1. i \in DOMAIN s /\ u[i] = s[i] /\ j - Len(s) \in DOMAIN t /\ u[j] = t[j - Len(s)]
      BY <1>1, <1>2, <1>4, <2>2
    <3> QED
      BY <1>3, <3>1
  <2>3. CASE ~(i <= Len(s)) /\ ~(j <= Len(s))
    <3>1. /\ i - Len(s) \in DOMAIN t /\ u[i] = t[i - Len(s)]
          /\ j - Len(s) \in DOMAIN t /\ u[j] = t[j - Len(s)]
      BY <1>1, <1>2, <1>4, <2>3
    <3>2. i - Len(s) < j - Len(s)
      BY <1>1, <1>2, <1>6
    <3> QED
      BY <3>1, <3>2 DEF Between
  <2>4. i \in Int /\ j \in Int
    BY <1>1, <1>2
  <2> QED
    BY <1>2, <1>6, <2>1, <2>2, <2>3, <2>4
<1> QED
  BY <1>1, <1>5, <1>6 DEF Between, u

-----------------------------------------------------------------------------
(* Sequences of results.                                                   *)

(* The order of results is a total order of their marks.                   *)
LEMMA ResultOrder ==
  \A r, s, t \in Results :
    /\ NotLater(r, r)
    /\ Earlier(r, s) => NotLater(r, s)
    /\ NotLater(r, s) /\ NotLater(s, t) => NotLater(r, t)
    /\ Earlier(r, s) /\ NotLater(s, t) => Earlier(r, t)
    /\ NotLater(r, s) /\ Earlier(s, t) => Earlier(r, t)
<1> SUFFICES ASSUME NEW r \in Results, NEW s \in Results, NEW t \in Results
             PROVE  /\ NotLater(r, r)
                    /\ Earlier(r, s) => NotLater(r, s)
                    /\ NotLater(r, s) /\ NotLater(s, t) => NotLater(r, t)
                    /\ Earlier(r, s) /\ NotLater(s, t) => Earlier(r, t)
                    /\ NotLater(r, s) /\ Earlier(s, t) => Earlier(r, t)
  OBVIOUS
<1>1. /\ r.conn \in Nat /\ r.seq \in Nat /\ s.conn \in Nat /\ s.seq \in Nat
      /\ t.conn \in Nat /\ t.seq \in Nat
  BY DEF Results
<1> QED
  BY <1>1 DEF Earlier, NotLater

(* Nothing lies between two marks that follow each other.                  *)
LEMMA InsideEmpty == \A lo, hi : Inside(<<>>, lo, hi)
BY DEF Inside

(* Results up to a mark before results after it.                           *)
LEMMA ResultsMeet ==
  ASSUME NEW s \in Seq(Results), NEW t \in Seq(Results),
         NEW lo \in Results, NEW m \in Results, NEW hi \in Results,
         Inside(s, lo, m), Inside(t, m, hi), NotLater(lo, m), NotLater(m, hi)
  PROVE  s \o t \in Seq(Results) /\ Inside(s \o t, lo, hi)
<1> DEFINE u == s \o t
<1>1. /\ u \in Seq(Results) /\ DOMAIN u = 1..Len(s) + Len(t)
      /\ \A i \in 1..Len(s) + Len(t) : u[i] = IF i <= Len(s) THEN s[i] ELSE t[i - Len(s)]
  BY ConcatProperties
<1>2. Len(s) \in Nat /\ Len(t) \in Nat /\ DOMAIN s = 1..Len(s) /\ DOMAIN t = 1..Len(t)
  OBVIOUS
<1>3. /\ \A i \in DOMAIN s : s[i] \in Results /\ Earlier(lo, s[i]) /\ NotLater(s[i], m)
      /\ \A i \in DOMAIN t : t[i] \in Results /\ Earlier(m, t[i]) /\ NotLater(t[i], hi)
  BY <1>2 DEF Inside
<1>4. \A i \in DOMAIN u : \/ i \in DOMAIN s /\ u[i] = s[i]
                          \/ i - Len(s) \in DOMAIN t /\ u[i] = t[i - Len(s)] /\ ~(i <= Len(s))
  BY <1>1, <1>2
<1> HIDE DEF u
<1>5. \A i \in DOMAIN u : Earlier(lo, u[i]) /\ NotLater(u[i], hi)
  BY <1>3, <1>4, ResultOrder
<1>6. ASSUME NEW i \in DOMAIN u, NEW j \in DOMAIN u, i < j PROVE Earlier(u[i], u[j])
  <2>0. i \in Int /\ j \in Int
    BY <1>1, <1>2
  <2>1. CASE j <= Len(s)
    <3>1. i \in DOMAIN s /\ j \in DOMAIN s /\ u[i] = s[i] /\ u[j] = s[j]
      BY <1>1, <1>2, <1>4, <1>6, <2>1
    <3> QED
      BY <1>6, <3>1 DEF Inside
  <2>2. CASE i <= Len(s) /\ ~(j <= Len(s))
    <3>1. i \in DOMAIN s /\ u[i] = s[i] /\ j - Len(s) \in DOMAIN t /\ u[j] = t[j - Len(s)]
      BY <1>1, <1>2, <1>4, <2>2
    <3> QED
      BY <1>3, <3>1, ResultOrder
  <2>3. CASE ~(i <= Len(s)) /\ ~(j <= Len(s))
    <3>1. /\ i - Len(s) \in DOMAIN t /\ u[i] = t[i - Len(s)]
          /\ j - Len(s) \in DOMAIN t /\ u[j] = t[j - Len(s)]
      BY <1>1, <1>2, <1>4, <2>3
    <3>2. i - Len(s) < j - Len(s)
      BY <1>1, <1>2, <1>6
    <3> QED
      BY <3>1, <3>2 DEF Inside
  <2> QED
    BY <1>2, <1>6, <2>0, <2>1, <2>2, <2>3
<1> QED
  BY <1>1, <1>5, <1>6 DEF Inside, u

(* One result lies between a mark before it and itself.                    *)
LEMMA OneResult ==
  ASSUME NEW r \in Results, NEW lo \in Results, Earlier(lo, r)
  PROVE  <<r>> \in Seq(Results) /\ Inside(<<r>>, lo, r)
<1>1. <<r>> \in Seq(Results) /\ DOMAIN <<r>> = {1} /\ <<r>>[1] = r
  OBVIOUS
<1> QED
  BY <1>1, ResultOrder DEF Inside

(* A result that is later than all joins at the end.                       *)
LEMMA ResultJoins ==
  ASSUME NEW s \in Seq(Results), NEW r \in Results, NEW lo \in Results, NEW hi \in Results,
         Inside(s, lo, hi), NotLater(lo, hi), Earlier(hi, r)
  PROVE  Append(s, r) \in Seq(Results) /\ Inside(Append(s, r), lo, r)
<1>1. <<r>> \in Seq(Results) /\ Inside(<<r>>, hi, r) /\ NotLater(hi, r)
  BY OneResult, ResultOrder
<1>2. s \o <<r>> \in Seq(Results) /\ Inside(s \o <<r>>, lo, r)
  BY <1>1, ResultsMeet
<1> QED
  BY <1>2, AppendIsConcat

(* A part of the results, from some place to another.                      *)
LEMMA ResultsCut ==
  ASSUME NEW s \in Seq(Results), NEW k \in 0..Len(s), NEW lo \in Results, NEW hi \in Results,
         Inside(s, lo, hi)
  PROVE  SubSeq(s, 1, k) \in Seq(Results) /\ Inside(SubSeq(s, 1, k), lo, hi)
<1>1. Len(s) \in Nat /\ k \in Nat /\ \A i \in 1..k : s[i] \in Results /\ i \in DOMAIN s
  OBVIOUS
<1>2. /\ SubSeq(s, 1, k) \in Seq(Results)
      /\ Len(SubSeq(s, 1, k)) = IF 1 <= k THEN k - 1 + 1 ELSE 0
      /\ \A i \in 1..k - 1 + 1 : SubSeq(s, 1, k)[i] = s[1 + i - 1]
  BY <1>1, SubSeqProperties
<1> DEFINE t == SubSeq(s, 1, k)
<1>3. DOMAIN t = 1..k /\ \A i \in 1..k : t[i] = s[i]
  BY <1>1, <1>2
<1> HIDE DEF t
<1> QED
  BY <1>1, <1>2, <1>3 DEF Inside, t

(* The first result is the mark of those that remain.                      *)
LEMMA ResultTaken ==
  ASSUME NEW s \in Seq(Results), s # <<>>, NEW lo \in Results, NEW hi \in Results,
         Inside(s, lo, hi)
  PROVE  /\ Head(s) \in Results /\ Tail(s) \in Seq(Results) /\ Len(Tail(s)) = Len(s) - 1
         /\ Earlier(lo, Head(s)) /\ NotLater(Head(s), hi)
         /\ Inside(Tail(s), Head(s), hi)
<1>1. /\ Head(s) \in Results /\ Tail(s) \in Seq(Results) /\ Len(Tail(s)) = Len(s) - 1
      /\ \A i \in 1..Len(Tail(s)) : Tail(s)[i] = s[i + 1]
  BY HeadTailProperties
<1>2. Head(s) = s[1] /\ 1 \in DOMAIN s /\ DOMAIN s = 1..Len(s) /\ Len(s) \in Nat
  OBVIOUS
<1>3. DOMAIN Tail(s) = 1..Len(s) - 1
      /\ \A i \in DOMAIN Tail(s) : i \in Nat /\ i + 1 \in DOMAIN s /\ 1 < i + 1
  BY <1>1, <1>2
<1>4. \A i \in DOMAIN Tail(s) : Tail(s)[i] = s[i + 1]
  BY <1>1, <1>3
<1> DEFINE t == Tail(s)
<1> HIDE DEF t
<1>5. \A i \in DOMAIN t : Earlier(s[1], t[i]) /\ NotLater(t[i], hi)
  BY <1>2, <1>3, <1>4 DEF t, Inside
<1>6. \A i, j \in DOMAIN t : i < j => i + 1 < j + 1
  BY <1>3 DEF t
<1>7. \A i, j \in DOMAIN t : i < j => Earlier(t[i], t[j])
  BY <1>3, <1>4, <1>6 DEF t, Inside
<1> QED
  BY <1>1, <1>2, <1>5, <1>7 DEF Inside, t

(* The worker numbers its answers from the last one it gave.               *)
LEMMA AnswersFollow ==
  ASSUME NEW k, NEW last \in BOOLEAN, conn.n \in Nat, conn.seq \in Nat
  PROVE  LET answers == Answers(k, last)
             next == [conn |-> conn.n, seq |-> conn.seq + Len(answers), final |-> FALSE]
         IN /\ answers \in Seq(Results) /\ Len(answers) \in Nat
            /\ Inside(answers, Newest, next) /\ NotLater(Newest, next)
            /\ next \in Results /\ Newest \in Results
<1> DEFINE finals == (IF k % PartialEvery = 0 THEN <<FALSE>> ELSE <<>>) \o
                     (IF k % FinalEvery = 0 THEN <<TRUE>> ELSE <<>>) \o
                     (IF last THEN <<TRUE>> ELSE <<>>)
           answers == Answers(k, last)
           next == [conn |-> conn.n, seq |-> conn.seq + Len(answers), final |-> FALSE]
<1>1. finals \in Seq(BOOLEAN)
  <2>1. /\ (IF k % PartialEvery = 0 THEN <<FALSE>> ELSE <<>>) \in Seq(BOOLEAN)
        /\ (IF k % FinalEvery = 0 THEN <<TRUE>> ELSE <<>>) \in Seq(BOOLEAN)
        /\ (IF last THEN <<TRUE>> ELSE <<>>) \in Seq(BOOLEAN)
    <3>1. <<FALSE>> \in Seq(BOOLEAN) /\ <<TRUE>> \in Seq(BOOLEAN) /\ <<>> \in Seq(BOOLEAN)
      OBVIOUS
    <3> QED
      BY <3>1, Zenon
  <2>2. \A s, t \in Seq(BOOLEAN) : s \o t \in Seq(BOOLEAN)
    BY ConcatProperties
  <2> QED
    BY <2>1, <2>2
<1>2. answers = [j \in DOMAIN finals |-> [conn |-> conn.n, seq |-> conn.seq + j, final |-> finals[j]]]
  BY DEF Answers
<1> HIDE DEF finals, answers
<1>3. Len(finals) \in Nat /\ DOMAIN finals = 1..Len(finals)
      /\ \A j \in 1..Len(finals) : finals[j] \in BOOLEAN
  BY <1>1
<1>4. \A j \in 1..Len(finals) : answers[j] \in Results /\ answers[j].conn = conn.n
                                /\ answers[j].seq = conn.seq + j
  BY <1>2, <1>3 DEF Results
<1>5. answers \in [1..Len(finals) -> Results]
  BY <1>2, <1>3, <1>4
<1>6. answers \in Seq(Results) /\ Len(answers) = Len(finals) /\ DOMAIN answers = 1..Len(finals)
  BY <1>3, <1>5
<1>7. next \in Results /\ Newest \in Results /\ NotLater(Newest, next)
  BY <1>3, <1>6 DEF Results, Newest, NotLater
<1>8. Inside(answers, Newest, next)
  <2>1. \A i \in 1..Len(finals) : Earlier(Newest, answers[i]) /\ NotLater(answers[i], next)
    BY <1>3, <1>4, <1>6 DEF Earlier, NotLater, Newest
  <2>2. \A i, j \in 1..Len(finals) : i < j => Earlier(answers[i], answers[j])
    BY <1>3, <1>4 DEF Earlier
  <2> QED
    BY <1>6, <2>1, <2>2 DEF Inside
<1> QED
  BY <1>3, <1>6, <1>7, <1>8 DEF answers

-----------------------------------------------------------------------------
(* Types.                                                                  *)

Counters == [retries : Nat, send : Nat, recv : Nat]
Shared == [err : Errors \cup {None}, cancelled : BOOLEAN, timedOut : BOOLEAN]
Senders == [at : {"select", "send", "sent", "close", "cancel", "done"},
            chunk : Chunks \cup {None}, armed : BOOLEAN, eos : BOOLEAN]
Receivers == [at : {"recv", "offer", "done"}, result : Results \cup {None}]

SessionTyped ==
  /\ cfg \in Configs /\ ctx \in {"live", "expired", "closed"} /\ made \in Nat /\ entry \in BOOLEAN
  /\ audio \in Seq(Chunks) /\ Len(audio) <= AudioCap
  /\ out \in Seq(Results) /\ Len(out) <= ResultCap
  /\ got \in Seq(Results) /\ heard \in Seq(Nat)
CountsTyped ==
  /\ sup \in {"pair", "backoff", "returned", "counted", "reaped"}
  /\ counts \in Counters /\ totals \in Counters
PairTyped ==
  /\ st \in Shared /\ fwd \in {"run", "done"}
  /\ queue \in Seq(Chunks) /\ Len(queue) <= QueueSize
  /\ snd \in Senders /\ rcv \in Receivers

(* The type invariant in parts.                                            *)
LEMMA TypeParts ==
  TypeOK <=> SessionTyped /\ CountsTyped /\ PairTyped /\ conn \in Connections
BY DEF TypeOK, SessionTyped, CountsTyped, PairTyped, Counters, Shared, Senders, Receivers

(* The same of the state after a step.                                     *)
LEMMA TypePartsNext ==
  SessionTyped' /\ CountsTyped' /\ PairTyped' /\ conn' \in Connections => TypeOK'
BY DEF TypeOK, SessionTyped, CountsTyped, PairTyped, Counters, Shared, Senders, Receivers

(* An error is recorded only where there is none yet.                      *)
LEMMA ErrorRecorded ==
  ASSUME st \in Shared, NEW e \in Errors
  PROVE  SetErr(e) \in Shared /\ SetErr(e).err # None /\ SetErr(e).timedOut = st.timedOut
         /\ SetErr(e).cancelled = st.cancelled
<1>1. None \notin Errors
  BY StreamAssumption
<1> QED
  BY <1>1 DEF SetErr, Shared

(* A counter counts.                                                       *)
LEMMA Counted ==
  ASSUME counts \in Counters, NEW k \in {"retries", "send", "recv"}, Count(k)
  PROVE  counts' \in Counters
BY DEF Count, Counters

(* What a new pair begins with.                                            *)
LEMMA FreshPair ==
  ASSUME cfg \in Configs
  PROVE  NewSender \in Senders /\ NewReceiver \in Receivers /\ NoError \in Shared
<1>1. cfg.firstChunk \in BOOLEAN
  BY StreamAssumption
<1> QED
  BY <1>1 DEF NewSender, NewReceiver, NoError, Senders, Receivers, Shared

(* The first chunk and those behind it.                                    *)
LEMMA TailElements ==
  ASSUME NEW s \in Seq(Chunks), s # <<>>
  PROVE  /\ Head(s) \in Chunks /\ Head(s) = s[1] /\ 1 \in DOMAIN s
         /\ \A i \in DOMAIN Tail(s) : i + 1 \in DOMAIN s /\ Tail(s)[i] = s[i + 1]
<1>1. /\ Head(s) \in Chunks /\ Tail(s) \in Seq(Chunks) /\ Len(Tail(s)) = Len(s) - 1
      /\ \A i \in 1..Len(Tail(s)) : Tail(s)[i] = s[i + 1]
  BY HeadTailProperties
<1>2. Head(s) = s[1] /\ 1 \in DOMAIN s /\ DOMAIN s = 1..Len(s) /\ Len(s) \in Nat
  OBVIOUS
<1>3. DOMAIN Tail(s) = 1..Len(s) - 1 /\ \A i \in DOMAIN Tail(s) : i \in Nat /\ i + 1 \in DOMAIN s
  BY <1>1, <1>2
<1> QED
  BY <1>1, <1>2, <1>3

(* A new connection is one.                                                *)
LEMMA NewConnections == \A n \in Nat : NewConnection(n) \in Connections
<1>1. <<>> \in Seq(Chunks) /\ <<>> \in Seq(Results)
  BY EmptySeq
<1> QED
  BY <1>1 DEF NewConnection, Connections

(* The session's steps keep the types.                                     *)
LEMMA SessionTypes ==
  ASSUME TypeOK, SessionStep(MakeChunk) \/ SessionStep(ContextEnds) \/ SessionStep(PumpTakes)
  PROVE  TypeOK'
<1>0. SessionTyped /\ CountsTyped /\ PairTyped /\ conn \in Connections
  BY TypeParts
<1>1. CountsTyped' /\ PairTyped' /\ conn' \in Connections
  BY <1>0 DEF SessionStep, supVars, pairVars, CountsTyped, PairTyped
<1>2. CASE SessionStep(MakeChunk)
  <2>1. /\ UNCHANGED <<cfg, ctx, out, got, heard, entry>> /\ Len(audio) < AudioCap
        /\ made' = made + 1
        /\ audio' = Append(audio, [n |-> made', end |-> ctx = "closed"])
    BY <1>2 DEF SessionStep, MakeChunk, supVars
  <2>2. [n |-> made', end |-> ctx = "closed"] \in Chunks /\ made' \in Nat
    BY <1>0, <2>1 DEF SessionTyped, Chunks
  <2>3. audio' \in Seq(Chunks) /\ Len(audio') = Len(audio) + 1 /\ Len(audio) \in Nat
    BY <1>0, <2>1, <2>2, AppendProperties DEF SessionTyped
  <2>4. Len(audio') <= AudioCap
    BY <2>1, <2>3, StreamAssumption
  <2>5. SessionTyped'
    BY <1>0, <2>1, <2>2, <2>3, <2>4 DEF SessionTyped
  <2> QED
    BY <1>1, <2>5, TypePartsNext
<1>3. CASE SessionStep(ContextEnds)
  <2>1. SessionTyped'
    BY <1>0, <1>3 DEF SessionStep, ContextEnds, StreamTimesOut, SessionCloses, SessionTyped, supVars
  <2> QED
    BY <1>1, <2>1, TypePartsNext
<1>4. CASE SessionStep(PumpTakes)
  <2>1. /\ UNCHANGED <<cfg, ctx, made, audio, heard, entry>> /\ out # <<>>
        /\ out' = Tail(out) /\ got' = Append(got, Head(out))
    BY <1>4 DEF SessionStep, PumpTakes, supVars
  <2>2. Head(out) \in Results /\ Tail(out) \in Seq(Results) /\ Len(Tail(out)) = Len(out) - 1
        /\ Len(out) \in Nat
    BY <1>0, <2>1, HeadTailProperties DEF SessionTyped
  <2>3. got' \in Seq(Results)
    BY <1>0, <2>1, <2>2, AppendProperties DEF SessionTyped
  <2>4. Len(out') <= ResultCap
    BY <1>0, <2>1, <2>2, StreamAssumption DEF SessionTyped
  <2>5. SessionTyped'
    BY <1>0, <2>1, <2>2, <2>3, <2>4 DEF SessionTyped
  <2> QED
    BY <1>1, <2>5, TypePartsNext
<1> QED
  BY <1>2, <1>3, <1>4

(* The forwarder's steps keep the types.                                   *)
LEMMA ForwarderTypes ==
  ASSUME TypeOK, ForwarderStep
  PROVE  TypeOK'
<1>0. SessionTyped /\ CountsTyped /\ PairTyped /\ conn \in Connections
  BY TypeParts
<1>1. UNCHANGED <<sessionVars, out, heard, supVars, st, counts, snd, rcv, conn>>
  BY DEF ForwarderStep
<1>2. CountsTyped' /\ conn' \in Connections
  BY <1>0, <1>1 DEF CountsTyped, supVars
<1>3. CASE ForwarderEnds
  <2>1. SessionTyped' /\ PairTyped'
    BY <1>0, <1>1, <1>3 DEF ForwarderEnds, SessionTyped, PairTyped, sessionVars, supVars
  <2> QED
    BY <1>2, <2>1, TypePartsNext
<1>4. CASE Forward
  <2>1. /\ audio # <<>> /\ audio' = Tail(audio) /\ UNCHANGED fwd
        /\ queue' = IF Len(queue) < QueueSize THEN Append(queue, Head(audio)) ELSE queue
    BY <1>4 DEF Forward
  <2>2. Head(audio) \in Chunks /\ Tail(audio) \in Seq(Chunks) /\ Len(Tail(audio)) = Len(audio) - 1
        /\ Len(audio) \in Nat /\ Len(queue) \in Nat
    BY <1>0, <2>1, HeadTailProperties DEF SessionTyped, PairTyped
  <2>3. Append(queue, Head(audio)) \in Seq(Chunks) /\ Len(Append(queue, Head(audio))) = Len(queue) + 1
    BY <1>0, <2>2, AppendProperties DEF PairTyped
  <2>4. queue' \in Seq(Chunks) /\ Len(queue') <= QueueSize
    BY <1>0, <2>1, <2>2, <2>3, StreamAssumption DEF PairTyped
  <2>5. Len(audio') <= AudioCap
    BY <1>0, <2>1, <2>2, StreamAssumption DEF SessionTyped
  <2>6. SessionTyped'
    BY <1>0, <1>1, <2>1, <2>2, <2>5 DEF SessionTyped, sessionVars, supVars
  <2>7. PairTyped'
    BY <1>0, <1>1, <2>1, <2>4 DEF PairTyped
  <2> QED
    BY <1>2, <2>6, <2>7, TypePartsNext
<1> QED
  BY <1>3, <1>4 DEF ForwarderStep

(* The send loop's steps keep the types.                                   *)
LEMMA SenderTypes ==
  ASSUME TypeOK, InPlace, SenderStep
  PROVE  TypeOK'
<1>0. SessionTyped /\ CountsTyped /\ PairTyped /\ conn \in Connections
  BY TypeParts
<1>1. UNCHANGED <<sessionVars, out, heard, supVars, fwd, rcv, audio>>
  BY DEF SenderStep, SendLeaves, FirstChunkTimesOut, TakeChunk, Sent, SentNoted, SendFails,
         SendTimesOut, SendCancelled, CloseSend, SendCancelsPair
<1>2. SessionTyped'
  BY <1>0, <1>1 DEF SessionTyped, sessionVars, supVars
<1>3. counts' \in Counters
  <2>1. counts' = counts \/ Count("send")
    BY DEF SenderStep, SendLeaves, FirstChunkTimesOut, TakeChunk, Sent, SentNoted, SendFails,
           SendTimesOut, SendCancelled, CloseSend, SendCancelsPair
  <2> QED
    BY <1>0, <2>1, Counted DEF CountsTyped
<1>4. CountsTyped'
  BY <1>0, <1>1, <1>3 DEF CountsTyped, supVars
<1>5. st' \in Shared
  <2>1. \/ st' = st \/ st' = SetErr("first") \/ st' = SetErr("send")
        \/ st' = [st EXCEPT !.timedOut = TRUE] \/ st' = [st EXCEPT !.cancelled = TRUE]
    BY DEF SenderStep, SendLeaves, FirstChunkTimesOut, TakeChunk, Sent, SentNoted, SendFails,
           SendTimesOut, SendCancelled, CloseSend, SendCancelsPair
  <2>2. st \in Shared /\ SetErr("first") \in Shared /\ SetErr("send") \in Shared
    BY <1>0, ErrorRecorded DEF PairTyped, Errors
  <2>3. [st EXCEPT !.timedOut = TRUE] \in Shared /\ [st EXCEPT !.cancelled = TRUE] \in Shared
    BY <2>2 DEF Shared
  <2> QED
    BY <2>1, <2>2, <2>3
<1>6. queue' \in Seq(Chunks) /\ Len(queue') <= QueueSize
  <2>1. queue' = queue \/ (queue # <<>> /\ queue' = Tail(queue))
    BY DEF SenderStep, SendLeaves, FirstChunkTimesOut, TakeChunk, Sent, SentNoted, SendFails,
           SendTimesOut, SendCancelled, CloseSend, SendCancelsPair
  <2>2. queue # <<>> => Tail(queue) \in Seq(Chunks) /\ Len(Tail(queue)) = Len(queue) - 1
    BY <1>0, HeadTailProperties DEF PairTyped
  <2>3. Len(queue) \in Nat /\ queue \in Seq(Chunks) /\ Len(queue) <= QueueSize
    BY <1>0 DEF PairTyped
  <2>4. QueueSize \in Nat
    BY StreamAssumption
  <2>5. CASE queue' = queue
    BY <2>3, <2>5
  <2>6. CASE queue # <<>> /\ queue' = Tail(queue)
    BY <2>2, <2>3, <2>4, <2>6
  <2> QED
    BY <2>1, <2>5, <2>6
<1>7. snd' \in Senders
  <2>0. snd \in Senders
    BY <1>0 DEF PairTyped
  <2>1. CASE \E step \in {"close", "cancel", "done"} : SendAt(step)
    BY <2>0, <2>1 DEF SendAt, Senders
  <2>2. CASE TakeChunk
    <3>1. Head(queue) \in Chunks
      BY <1>0, <2>2, HeadTailProperties DEF TakeChunk, PairTyped
    <3> QED
      BY <2>0, <2>2, <3>1 DEF TakeChunk, Senders
  <2>3. CASE Sent
    BY <2>0, <2>3 DEF Sent, Senders
  <2>4. CASE SentNoted
    <3>1. snd.chunk \in Chunks
      BY <2>0, <2>4 DEF SentNoted, InPlace, Senders
    <3>2. snd.eos \/ snd.chunk.end \in BOOLEAN
      BY <2>0, <3>1 DEF Senders, Chunks
    <3> QED
      BY <2>0, <2>4, <3>2 DEF SentNoted, Senders
  <2> QED
    BY <2>1, <2>2, <2>3, <2>4 DEF SenderStep, SendLeaves, FirstChunkTimesOut, SendFails,
       SendTimesOut, SendCancelled, CloseSend, SendCancelsPair
<1>8. conn' \in Connections
  <2>1. \/ conn' = conn \/ conn' = [conn EXCEPT !.half = TRUE]
        \/ (snd.at = "send" /\ Transmit)
    BY DEF SenderStep, SendLeaves, FirstChunkTimesOut, TakeChunk, Sent, SentNoted, SendFails,
           SendTimesOut, SendCancelled, CloseSend, SendCancelsPair
  <2>2. snd.at = "send" => Append(conn.up, snd.chunk) \in Seq(Chunks)
    <3>1. snd.at = "send" => snd.chunk \in Chunks
      BY <1>0 DEF InPlace, PairTyped, Senders
    <3>2. conn.up \in Seq(Chunks)
      BY <1>0 DEF Connections
    <3> QED
      BY <3>1, <3>2, AppendProperties
  <2> QED
    BY <1>0, <2>1, <2>2 DEF Transmit, Connections
<1>9. PairTyped'
  BY <1>0, <1>1, <1>5, <1>6, <1>7 DEF PairTyped
<1> QED
  BY <1>2, <1>4, <1>8, <1>9, TypePartsNext

(* The receive loop's steps keep the types.                                *)
LEMMA ReceiverTypes ==
  ASSUME TypeOK, InPlace, ReceiverStep
  PROVE  TypeOK'
<1>0. SessionTyped /\ CountsTyped /\ PairTyped /\ conn \in Connections
  BY TypeParts
<1> USE DEF ReceiverStep, RecvResult, Deliver, DropPartial, OfferCancelled, RecvFails, RecvIdles,
            RecvCancelled
<1>1. UNCHANGED <<sessionVars, audio, heard, supVars, fwd, queue, snd>>
  OBVIOUS
<1>2. out' \in Seq(Results) /\ Len(out') <= ResultCap
  <2>1. out' = out \/ (rcv.at = "offer" /\ Len(out) < ResultCap /\ out' = Append(out, rcv.result))
    BY DEF RecvLeaves
  <2>2. out \in Seq(Results) /\ Len(out) \in Nat /\ Len(out) <= ResultCap
    BY <1>0 DEF SessionTyped
  <2>3. rcv.at = "offer" => rcv.result \in Results
    BY <1>0 DEF InPlace, PairTyped, Receivers
  <2>4. rcv.at = "offer" => Append(out, rcv.result) \in Seq(Results)
                            /\ Len(Append(out, rcv.result)) = Len(out) + 1
    BY <2>2, <2>3, AppendProperties
  <2>5. ResultCap \in Nat
    BY StreamAssumption
  <2> QED
    BY <2>1, <2>2, <2>4, <2>5
<1>3. SessionTyped'
  BY <1>0, <1>1, <1>2 DEF SessionTyped, sessionVars, supVars
<1>4. CountsTyped'
  <2>1. counts' = counts \/ Count("recv")
    BY DEF RecvLeaves
  <2>2. counts' \in Counters
    BY <1>0, <2>1, Counted DEF CountsTyped
  <2> QED
    BY <1>0, <1>1, <2>2 DEF CountsTyped, supVars
<1>5. st' \in Shared
  <2>1. st' = st \/ \E e \in {None, "recv", "eof", "idle"} : RecvLeaves(e)
    OBVIOUS
  <2>2. ASSUME NEW e \in {None, "recv", "eof", "idle"}, RecvLeaves(e) PROVE st' \in Shared
    <3>1. e = None \/ e \in Errors
      BY DEF Errors
    <3>2. (IF e = None THEN st ELSE SetErr(e)) \in Shared
      BY <1>0, <3>1, ErrorRecorded DEF PairTyped
    <3>3. st' = [(IF e = None THEN st ELSE SetErr(e)) EXCEPT !.cancelled = TRUE]
      BY <2>2 DEF RecvLeaves
    <3> HIDE DEF ReceiverStep
    <3> QED
      BY <3>2, <3>3 DEF Shared
  <2> QED
    BY <1>0, <2>1, <2>2 DEF PairTyped
<1>6. rcv' \in Receivers
  <2>0. rcv \in Receivers
    BY <1>0 DEF PairTyped
  <2>1. conn.down # <<>> => Head(conn.down) \in Results
    BY <1>0, HeadTailProperties DEF Connections
  <2>2. \/ conn.down # <<>> /\ rcv' = [at |-> "offer", result |-> Head(conn.down)]
        \/ rcv' = NewReceiver \/ rcv' = [NewReceiver EXCEPT !.at = "done"]
    BY DEF RecvLeaves
  <2> QED
    BY <2>1, <2>2 DEF NewReceiver, Receivers
<1>7. conn' \in Connections
  <2>1. conn' = conn \/ (conn.down # <<>> /\ conn' = [conn EXCEPT !.down = Tail(@)])
    BY DEF RecvLeaves
  <2>2. conn.down # <<>> => Tail(conn.down) \in Seq(Results)
    BY <1>0, HeadTailProperties DEF Connections
  <2> QED
    BY <1>0, <2>1, <2>2 DEF Connections
<1>8. PairTyped'
  BY <1>0, <1>1, <1>5, <1>6 DEF PairTyped
<1> QED
  BY <1>3, <1>4, <1>7, <1>8, TypePartsNext

(* The worker's steps keep the types.                                      *)
LEMMA WorkerTypes ==
  ASSUME TypeOK, WorkerStep
  PROVE  TypeOK'
<1>0. SessionTyped /\ CountsTyped /\ PairTyped /\ conn \in Connections
  BY TypeParts
<1>1. UNCHANGED <<sessionVars, audio, out, supVars, pairVars>>
  BY DEF WorkerStep
<1>2. CountsTyped' /\ PairTyped'
  BY <1>0, <1>1 DEF CountsTyped, PairTyped, supVars, pairVars
<1>3. heard' \in Seq(Nat) /\ conn' \in Connections
  <2>0. heard \in Seq(Nat)
    BY <1>0 DEF SessionTyped
  <2>1. CASE WorkerTakes
    <3> DEFINE c == Head(conn.up)
               answers == Answers(conn.chunks + 1, c.end)
    <3>1. c \in Chunks /\ Tail(conn.up) \in Seq(Chunks)
      BY <1>0, <2>1, HeadTailProperties DEF WorkerTakes, Connections
    <3>2. c.n \in Nat /\ c.end \in BOOLEAN
      BY <3>1 DEF Chunks
    <3>3. /\ heard' = Append(heard, c.n)
          /\ conn' = [conn EXCEPT
               !.up = Tail(@), !.chunks = @ + 1, !.seq = @ + Len(answers),
               !.down = @ \o answers, !.state = IF c.end THEN "finished" ELSE @]
      BY <2>1 DEF WorkerTakes
    <3>4. answers \in Seq(Results) /\ Len(answers) \in Nat
      BY <1>0, <3>2, AnswersFollow DEF Connections
    <3>5. heard' \in Seq(Nat)
      BY <2>0, <3>2, <3>3, AppendProperties
    <3> HIDE DEF answers, c
    <3>6. conn.down \o answers \in Seq(Results)
      BY <1>0, <3>4, ConcatProperties DEF Connections
    <3>7. conn.seq + Len(answers) \in Nat /\ conn.chunks + 1 \in Nat
      BY <1>0, <3>4 DEF Connections
    <3>8. conn' \in Connections
      BY <1>0, <3>1, <3>3, <3>6, <3>7 DEF Connections
    <3> QED
      BY <3>5, <3>8
  <2>2. CASE WorkerSeesEOF \/ WorkerQuits
    BY <1>0, <2>0, <2>2 DEF WorkerSeesEOF, WorkerQuits, Connections
  <2>3. CASE WorkerBreaks
    <3>1. PICK k \in 0..Len(conn.down) :
            conn' = [conn EXCEPT !.state = "broken", !.down = SubSeq(@, 1, k)]
      BY <2>3 DEF WorkerBreaks
    <3>2. conn.down \in Seq(Results)
      BY <1>0 DEF Connections
    <3>3. SubSeq(conn.down, 1, k) \in Seq(Results)
      BY <3>2
    <3> QED
      BY <1>0, <2>0, <2>3, <3>1, <3>3 DEF WorkerBreaks, Connections
  <2> QED
    BY <2>1, <2>2, <2>3 DEF WorkerStep
<1>4. SessionTyped'
  BY <1>0, <1>1, <1>3 DEF SessionTyped, sessionVars, supVars
<1> QED
  BY <1>2, <1>3, <1>4, TypePartsNext

(* The supervisor's steps keep the types.                                  *)
LEMMA SupervisorTypes ==
  ASSUME TypeOK, SupervisorStep
  PROVE  TypeOK'
<1>0. SessionTyped /\ CountsTyped /\ PairTyped /\ conn \in Connections
  BY TypeParts
<1> USE DEF SupervisorStep, PairEnds, Retry, BackoffCancelled, RedialFails, Redial, ReaperCounts,
            ReaperRemoves, pairVars
<1>1. UNCHANGED <<sessionVars, audio, out, heard>> /\ (entry' = entry \/ entry' = FALSE)
  OBVIOUS
<1>2. SessionTyped'
  BY <1>0, <1>1 DEF SessionTyped, sessionVars
<1>3. CountsTyped'
  <2>1. counts' = counts \/ Count("retries")
    OBVIOUS
  <2>2. counts' \in Counters
    BY <1>0, <2>1, Counted DEF CountsTyped
  <2>3. totals' = totals \/ totals' = [k \in DOMAIN totals |-> totals[k] + counts[k]]
    OBVIOUS
  <2>4. totals' \in Counters
    <3>1. counts \in Counters /\ totals \in Counters
      BY <1>0 DEF CountsTyped
    <3>2. CASE totals' = [k \in DOMAIN totals |-> totals[k] + counts[k]]
      <4>1. DOMAIN totals = {"retries", "send", "recv"}
        BY <3>1 DEF Counters
      <4>2. \A k \in {"retries", "send", "recv"} : totals[k] + counts[k] \in Nat
        BY <3>1 DEF Counters
      <4> HIDE DEF SupervisorStep
      <4> QED
        BY <3>2, <4>1, <4>2 DEF Counters
    <3> QED
      BY <2>3, <3>1, <3>2
  <2>5. sup' \in {"pair", "backoff", "returned", "counted", "reaped"}
    BY <1>0 DEF CountsTyped
  <2> QED
    BY <2>2, <2>4, <2>5 DEF CountsTyped
<1>4. cfg \in Configs /\ st \in Shared
  BY <1>0 DEF SessionTyped, PairTyped
<1>5. SetErr("dial") \in Shared /\ [st EXCEPT !.err = None] \in Shared
  BY <1>4, ErrorRecorded DEF Errors, Shared
<1>6. NewSender \in Senders /\ NewReceiver \in Receivers /\ NoError \in Shared
  BY <1>4, FreshPair
<1>7. st' \in Shared
  BY <1>4, <1>5, <1>6
<1>8. snd' \in Senders /\ rcv' \in Receivers /\ fwd' \in {"run", "done"}
  BY <1>0, <1>6 DEF PairTyped
<1>9. queue' \in Seq(Chunks) /\ Len(queue') <= QueueSize
  <2>1. queue' = queue \/ queue' = <<>>
    OBVIOUS
  <2>2. <<>> \in Seq(Chunks) /\ Len(<<>>) = 0 /\ QueueSize \in Nat
    BY StreamAssumption, EmptySeq
  <2>3. queue \in Seq(Chunks) /\ Len(queue) <= QueueSize
    BY <1>0 DEF PairTyped
  <2> HIDE DEF SupervisorStep
  <2>4. CASE queue' = queue
    BY <2>3, <2>4
  <2>5. CASE queue' = <<>>
    BY <2>2, <2>5
  <2> QED
    BY <2>1, <2>4, <2>5
<1>10. conn' \in Connections
  <2>1. conn' = conn \/ conn' = NewConnection(conn.n + 1)
    OBVIOUS
  <2>2. NewConnection(conn.n + 1) \in Connections
    <3>1. conn.n + 1 \in Nat
      BY <1>0 DEF Connections
    <3>2. \A n \in Nat : NewConnection(n) \in Connections
      BY NewConnections
    <3> QED
      BY <3>1, <3>2
  <2> QED
    BY <1>0, <2>1, <2>2
<1>11. PairTyped'
  BY <1>7, <1>8, <1>9 DEF PairTyped
<1> QED
  BY <1>2, <1>3, <1>10, <1>11, TypePartsNext

(* Every step keeps the types.                                             *)
LEMMA StepTypes == TypeOK /\ InPlace /\ [Next]_vars => TypeOK'
<1> SUFFICES ASSUME TypeOK, InPlace, [Next]_vars PROVE TypeOK'
  OBVIOUS
<1>1. CASE UNCHANGED vars
  BY <1>1 DEF TypeOK, vars, sessionVars, supVars, pairVars
<1> QED
  BY <1>1, SessionTypes, ForwarderTypes, SenderTypes, ReceiverTypes, WorkerTypes, SupervisorTypes
  DEF Next, GatewayStep

-----------------------------------------------------------------------------
(* The order of audio.                                                     *)

(* Steps that move no chunk, but may lose the one in hand.                 *)
LEMMA AudioStays ==
  ASSUME AudioMarks, UNCHANGED <<made, heard, queue, audio>>, conn'.up = conn.up,
         snd'.at = "send" => snd.at = "send" /\ snd'.chunk = snd.chunk
  PROVE  AudioMarks'
BY DEF AudioMarks, HeardUpTo, Between

(* Nothing lies between two marks of an empty place.                       *)
LEMMA BetweenEmpty == \A lo, hi : Between(<<>>, lo, hi)
BY DEF Between

(* The pipeline makes a chunk: it is later than all before.                *)
LEMMA AudioMade ==
  ASSUME TypeOK, AudioMarks, SessionStep(MakeChunk)
  PROVE  AudioMarks'
<1> DEFINE x == [n |-> made', end |-> ctx = "closed"]
<1>1. /\ made' = made + 1 /\ audio' = Append(audio, x)
      /\ UNCHANGED <<heard, queue, conn, snd>>
  BY DEF SessionStep, MakeChunk, pairVars
<1>2. made \in Nat /\ audio \in Seq(Chunks) /\ x \in Chunks /\ x.n = made + 1
  BY <1>1 DEF TypeOK, Chunks
<1> HIDE DEF x
<1>3. PICK a, b, c, d \in 0..made :
        /\ a <= b /\ b <= c /\ c <= d
        /\ HeardUpTo(a)
        /\ Between(conn.up, a, b)
        /\ snd.at = "send" => b < snd.chunk.n /\ snd.chunk.n <= c
        /\ Between(queue, c, d)
        /\ Between(audio, d, made)
  BY DEF AudioMarks
<1>4. Between(audio', d, made')
  <2>1. d \in Nat /\ made < x.n /\ d <= made
    BY <1>2
  <2> QED
    BY <1>1, <1>2, <1>3, <2>1, ChunkJoins
<1>5. a \in 0..made' /\ b \in 0..made' /\ c \in 0..made' /\ d \in 0..made'
  BY <1>1, <1>2
<1>6. HeardUpTo(a)' /\ Between(conn'.up, a, b) /\ Between(queue', c, d)
  BY <1>1, <1>3 DEF HeardUpTo
<1>7. snd'.at = "send" => b < snd'.chunk.n /\ snd'.chunk.n <= c
  BY <1>1, <1>3
<1> QED
  BY <1>3, <1>4, <1>5, <1>6, <1>7 DEF AudioMarks, HeardUpTo

(* The forwarder hands a chunk to its queue, or drops it.                  *)
LEMMA AudioForwarded ==
  ASSUME TypeOK, AudioMarks, ForwarderStep, Forward
  PROVE  AudioMarks'
<1> DEFINE x == Head(audio)
<1>1. /\ audio # <<>> /\ audio' = Tail(audio)
      /\ queue' = IF Len(queue) < QueueSize THEN Append(queue, x) ELSE queue
      /\ UNCHANGED <<made, heard, conn, snd>>
  BY DEF ForwarderStep, Forward, sessionVars
<1>2. made \in Nat /\ audio \in Seq(Chunks) /\ queue \in Seq(Chunks)
  BY DEF TypeOK
<1>3. PICK a, b, c, d \in 0..made :
        /\ a <= b /\ b <= c /\ c <= d
        /\ HeardUpTo(a)
        /\ Between(conn.up, a, b)
        /\ snd.at = "send" => b < snd.chunk.n /\ snd.chunk.n <= c
        /\ Between(queue, c, d)
        /\ Between(audio, d, made)
  BY DEF AudioMarks
<1>4. a \in Nat /\ b \in Nat /\ c \in Nat /\ d \in Nat
  BY <1>2
<1>5. /\ x \in Chunks /\ d < x.n /\ x.n <= made /\ x.n \in Nat
      /\ Between(audio', x.n, made)
  BY <1>1, <1>2, <1>3, <1>4, ChunkTaken
<1>6. Between(Append(queue, x), c, x.n)
  BY <1>2, <1>3, <1>4, <1>5, ChunkJoins
<1> HIDE DEF x
<1>7. Between(queue, c, x.n)
  <2>1. \A i \in DOMAIN queue : queue[i].n \in Nat
    <3>1. \A i \in DOMAIN queue : queue[i] \in Chunks
      BY <1>2
    <3> QED
      BY <3>1 DEF Chunks
  <2> QED
    BY <1>3, <1>4, <1>5, <2>1 DEF Between
<1>8. Between(queue', c, x.n)
  BY <1>1, <1>6, <1>7
<1>9. x.n \in 0..made /\ c <= x.n
  BY <1>3, <1>4, <1>5
<1>10. HeardUpTo(a)'
  BY <1>1, <1>3 DEF HeardUpTo
<1> QED
  BY <1>1, <1>3, <1>5, <1>8, <1>9, <1>10 DEF AudioMarks, HeardUpTo

(* The send loop takes a chunk in hand.                                    *)
LEMMA AudioTaken ==
  ASSUME TypeOK, AudioMarks, SenderStep, TakeChunk
  PROVE  AudioMarks'
<1> DEFINE x == Head(queue)
<1>1. /\ queue # <<>> /\ queue' = Tail(queue) /\ snd.at = "select"
      /\ snd' = [snd EXCEPT !.at = "send", !.chunk = x, !.armed = FALSE]
      /\ UNCHANGED <<made, heard, conn, audio>>
  BY DEF SenderStep, TakeChunk, sessionVars
<1>2. made \in Nat /\ queue \in Seq(Chunks)
  BY DEF TypeOK
<1>3. PICK a, b, c, d \in 0..made :
        /\ a <= b /\ b <= c /\ c <= d
        /\ HeardUpTo(a)
        /\ Between(conn.up, a, b)
        /\ snd.at = "send" => b < snd.chunk.n /\ snd.chunk.n <= c
        /\ Between(queue, c, d)
        /\ Between(audio, d, made)
  BY DEF AudioMarks
<1>4. a \in Nat /\ b \in Nat /\ c \in Nat /\ d \in Nat
  BY <1>2
<1>5. /\ c < x.n /\ x.n <= d /\ x.n \in Nat
      /\ Between(queue', x.n, d)
  BY <1>1, <1>2, <1>3, <1>4, ChunkTaken
<1>6. snd'.chunk = x
  BY <1>1 DEF TypeOK
<1> HIDE DEF x
<1>7. x.n \in 0..made /\ b <= x.n /\ b < x.n
  BY <1>2, <1>3, <1>4, <1>5
<1>8. HeardUpTo(a)'
  BY <1>1, <1>3 DEF HeardUpTo
<1> QED
  BY <1>1, <1>3, <1>5, <1>6, <1>7, <1>8 DEF AudioMarks, HeardUpTo

(* The chunk in hand goes to the connection.                               *)
LEMMA AudioSent ==
  ASSUME TypeOK, InPlace, AudioMarks, snd.at = "send", Transmit, snd'.at # "send",
         UNCHANGED <<made, heard, queue, audio>>
  PROVE  AudioMarks'
<1> DEFINE x == snd.chunk
<1>1. made \in Nat /\ conn.up \in Seq(Chunks) /\ x \in Chunks
  BY DEF TypeOK, Connections, InPlace
<1>2. x.n \in Nat
  BY <1>1 DEF Chunks
<1>3. PICK a, b, c, d \in 0..made :
        /\ a <= b /\ b <= c /\ c <= d
        /\ HeardUpTo(a)
        /\ Between(conn.up, a, b)
        /\ snd.at = "send" => b < snd.chunk.n /\ snd.chunk.n <= c
        /\ Between(queue, c, d)
        /\ Between(audio, d, made)
  BY DEF AudioMarks
<1>4. a \in Nat /\ b \in Nat /\ c \in Nat /\ d \in Nat
  BY <1>1
<1>5. b < x.n /\ x.n <= c /\ x.n \in 0..made /\ a <= x.n
  BY <1>1, <1>2, <1>3, <1>4
<1>6. conn'.up = Append(conn.up, x)
  BY DEF Transmit, TypeOK, Connections
<1> HIDE DEF x
<1>7. Between(conn'.up, a, x.n)
  BY <1>1, <1>3, <1>4, <1>5, <1>6, ChunkJoins
<1>8. HeardUpTo(a)'
  BY <1>3 DEF HeardUpTo
<1> QED
  BY <1>3, <1>5, <1>7, <1>8 DEF AudioMarks, HeardUpTo

(* The worker takes a chunk.                                               *)
LEMMA AudioHeard ==
  ASSUME TypeOK, AudioMarks, WorkerStep, WorkerTakes
  PROVE  AudioMarks'
<1> DEFINE x == Head(conn.up)
<1>1. /\ conn.up # <<>> /\ heard' = Append(heard, x.n) /\ conn'.up = Tail(conn.up)
      /\ UNCHANGED <<made, queue, audio, snd>>
  BY DEF WorkerStep, WorkerTakes, sessionVars, pairVars, TypeOK, Connections
<1>2. made \in Nat /\ conn.up \in Seq(Chunks) /\ heard \in Seq(Nat)
  BY DEF TypeOK, Connections
<1>3. PICK a, b, c, d \in 0..made :
        /\ a <= b /\ b <= c /\ c <= d
        /\ HeardUpTo(a)
        /\ Between(conn.up, a, b)
        /\ snd.at = "send" => b < snd.chunk.n /\ snd.chunk.n <= c
        /\ Between(queue, c, d)
        /\ Between(audio, d, made)
  BY DEF AudioMarks
<1>4. a \in Nat /\ b \in Nat /\ c \in Nat /\ d \in Nat
  BY <1>2
<1>5. a < x.n /\ x.n <= b /\ x.n \in Nat /\ Between(conn'.up, x.n, b)
  BY <1>1, <1>2, <1>3, <1>4, ChunkTaken
<1> HIDE DEF x
<1>k. PICK k \in Nat : k = x.n
  BY <1>5
<1>6. HeardUpTo(k)'
  <2>1. /\ heard' \in Seq(Nat) /\ DOMAIN heard' = 1..Len(heard) + 1 /\ Len(heard) \in Nat
        /\ \A i \in 1..Len(heard) : heard'[i] = heard[i] /\ heard[i] \in Nat
        /\ heard'[Len(heard) + 1] = k
    BY <1>1, <1>2, <1>5, <1>k, AppendProperties
  <2>0. HeardUpTo(a) /\ a \in Nat /\ a < k /\ DOMAIN heard = 1..Len(heard)
    <3>1. HeardUpTo(a)
      BY <1>3
    <3>2. a \in Nat /\ a < k
      BY <1>4, <1>5, <1>k
    <3> QED
      BY <1>2, <3>1, <3>2
  <2>2. /\ \A i \in 1..Len(heard) : heard[i] <= a
        /\ \A i, j \in 1..Len(heard) : i < j => heard[i] < heard[j]
    BY <2>0 DEF HeardUpTo
  <2>3. \A i \in 1..Len(heard) + 1 : i \in 1..Len(heard) \/ i = Len(heard) + 1
    BY <2>1
  <2>a. \A i \in 1..Len(heard) : heard[i] < k
    BY <2>0, <2>1, <2>2
  <2>4. \A i \in DOMAIN heard' : heard'[i] <= k
    BY <2>1, <2>3, <2>a
  <2>5. \A i, j \in DOMAIN heard' : i < j => heard'[i] < heard'[j]
    <3> SUFFICES ASSUME NEW i \in 1..Len(heard) + 1, NEW j \in 1..Len(heard) + 1, i < j
                 PROVE  heard'[i] < heard'[j]
      BY <2>1
    <3>1. i \in 1..Len(heard)
      BY <2>1
    <3>2. CASE j \in 1..Len(heard)
      BY <2>1, <2>2, <3>1, <3>2
    <3>3. CASE j = Len(heard) + 1
      BY <2>1, <2>a, <3>1, <3>3
    <3> QED
      BY <2>3, <3>2, <3>3
  <2> QED
    BY <2>4, <2>5 DEF HeardUpTo
<1>7. k \in 0..made
  BY <1>2, <1>3, <1>4, <1>5, <1>k
<1> QED
  BY <1>1, <1>3, <1>5, <1>k, <1>6, <1>7 DEF AudioMarks, HeardUpTo

(* A new pair starts with an empty queue and an empty connection.          *)
LEMMA AudioRedialled ==
  ASSUME TypeOK, AudioMarks, SupervisorStep, Redial
  PROVE  AudioMarks'
<1>1. /\ conn'.up = <<>> /\ queue' = <<>> /\ snd'.at = "select"
      /\ UNCHANGED <<made, heard, audio>>
  BY DEF SupervisorStep, Redial, NewConnection, NewSender, sessionVars
<1>2. PICK a, b, c, d \in 0..made :
        /\ a <= b /\ b <= c /\ c <= d
        /\ HeardUpTo(a)
        /\ Between(conn.up, a, b)
        /\ snd.at = "send" => b < snd.chunk.n /\ snd.chunk.n <= c
        /\ Between(queue, c, d)
        /\ Between(audio, d, made)
  BY DEF AudioMarks
<1>3. Between(conn'.up, a, b) /\ Between(queue', c, d)
  BY <1>1, BetweenEmpty
<1> QED
  BY <1>1, <1>2, <1>3 DEF AudioMarks, HeardUpTo

(* Every step keeps the marks between chunks.                              *)
LEMMA StepAudio == TypeOK /\ InPlace /\ AudioMarks /\ [Next]_vars => AudioMarks'
<1> SUFFICES ASSUME TypeOK, InPlace, AudioMarks, [Next]_vars PROVE AudioMarks'
  OBVIOUS
<1>1. CASE SessionStep(MakeChunk)
  BY <1>1, AudioMade
<1>2. CASE SessionStep(ContextEnds) \/ SessionStep(PumpTakes)
  BY <1>2, AudioStays DEF SessionStep, ContextEnds, StreamTimesOut, SessionCloses,
                          PumpTakes, pairVars
<1>3. CASE ForwarderStep
  <2>1. CASE Forward
    BY <1>3, <2>1, AudioForwarded
  <2>2. CASE ForwarderEnds
    BY <1>3, <2>2, AudioStays DEF ForwarderStep, ForwarderEnds, sessionVars
  <2> QED
    BY <1>3, <2>1, <2>2 DEF ForwarderStep
<1>4. CASE SenderStep
  <2>0. snd \in Senders /\ conn \in Connections
    BY TypeParts DEF PairTyped
  <2>1. CASE TakeChunk
    BY <1>4, <2>1, AudioTaken
  <2>2. UNCHANGED <<made, heard>>
    BY <1>4 DEF SenderStep, sessionVars
  <2>3. CASE Sent
    <3>1. snd'.at = "sent" /\ snd.at = "send" /\ Transmit /\ UNCHANGED <<queue, audio>>
      BY <2>0, <2>3 DEF Sent, Senders
    <3> QED
      BY <2>2, <3>1, AudioSent
  <2>4. CASE SendCancelled
    <3>1. snd'.at = "close" /\ snd.at = "send" /\ (Transmit \/ UNCHANGED conn) /\ UNCHANGED <<queue, audio>>
      BY <2>0, <2>4 DEF SendCancelled, SendAt, Senders
    <3> QED
      BY <2>2, <3>1, AudioSent, AudioStays
  <2>5. CASE SendLeaves \/ FirstChunkTimesOut \/ SentNoted \/ SendFails \/ SendTimesOut
             \/ CloseSend \/ SendCancelsPair
    <3>1. snd'.at # "send" /\ UNCHANGED <<queue, audio>>
      BY <2>0, <2>5 DEF SendLeaves, FirstChunkTimesOut, SentNoted, SendFails, SendTimesOut,
                        CloseSend, SendCancelsPair, SendAt, Senders
    <3>2. conn'.up = conn.up
      BY <2>0, <2>5 DEF SendLeaves, FirstChunkTimesOut, SentNoted, SendFails, SendTimesOut,
                        CloseSend, SendCancelsPair, Connections
    <3> QED
      BY <2>2, <3>1, <3>2, AudioStays
  <2> QED
    BY <1>4, <2>1, <2>3, <2>4, <2>5 DEF SenderStep
<1>5. CASE ReceiverStep
  <2>1. UNCHANGED <<made, heard, queue, audio, snd>>
    BY <1>5 DEF ReceiverStep, sessionVars
  <2>2. conn' = conn \/ conn' = [conn EXCEPT !.down = Tail(@)]
    BY <1>5 DEF ReceiverStep, RecvResult, Deliver, DropPartial, OfferCancelled, RecvFails,
                RecvIdles, RecvCancelled, RecvLeaves
  <2>3. conn'.up = conn.up
    BY <2>2 DEF TypeOK, Connections
  <2> QED
    BY <2>1, <2>3, AudioStays
<1>6. CASE WorkerStep
  <2>1. CASE WorkerTakes
    BY <1>6, <2>1, AudioHeard
  <2>2. CASE WorkerSeesEOF \/ WorkerQuits \/ WorkerBreaks
    <3>1. UNCHANGED <<made, heard, queue, audio, snd>>
      BY <1>6, <2>2 DEF WorkerStep, WorkerSeesEOF, WorkerQuits, WorkerBreaks, sessionVars, pairVars
    <3>2. conn'.up = conn.up
      BY <2>2 DEF WorkerSeesEOF, WorkerQuits, WorkerBreaks, TypeOK, Connections
    <3> QED
      BY <3>1, <3>2, AudioStays
  <2> QED
    BY <1>6, <2>1, <2>2 DEF WorkerStep
<1>7. CASE SupervisorStep
  <2>1. CASE Redial
    BY <1>7, <2>1, AudioRedialled
  <2>2. CASE ~Redial
    <3>1. UNCHANGED <<made, heard, audio, queue, snd, conn>>
      BY <1>7, <2>2 DEF SupervisorStep, PairEnds, Retry, BackoffCancelled, RedialFails,
                        ReaperCounts, ReaperRemoves, sessionVars, pairVars
    <3> QED
      BY <3>1, AudioStays
  <2> QED
    BY <2>1, <2>2
<1>8. CASE UNCHANGED vars
  BY <1>8, AudioStays DEF vars, sessionVars, pairVars
<1> QED
  BY <1>1, <1>2, <1>3, <1>4, <1>5, <1>6, <1>7, <1>8 DEF Next, GatewayStep

-----------------------------------------------------------------------------
(* The order of results.                                                   *)

(* Steps that move no result, but may lose the one in hand.                *)
LEMMA ResultsStay ==
  ASSUME ResultMarks, UNCHANGED <<got, out>>,
         conn'.n = conn.n, conn'.seq = conn.seq, conn'.down = conn.down,
         rcv'.at = "offer" => rcv.at = "offer" /\ rcv'.result = rcv.result
  PROVE  ResultMarks'
BY DEF ResultMarks, Newest, Inside

(* The result pump takes the oldest.                                       *)
LEMMA ResultPumped ==
  ASSUME TypeOK, ResultMarks, SessionStep(PumpTakes)
  PROVE  ResultMarks'
<1>1. /\ out # <<>> /\ out' = Tail(out) /\ got' = Append(got, Head(out))
      /\ UNCHANGED <<conn, rcv>>
  BY DEF SessionStep, PumpTakes, pairVars
<1>2. out \in Seq(Results) /\ got \in Seq(Results) /\ Origin \in Results
  BY DEF TypeOK, Origin, Results
<1>3. PICK a, b, c \in Results :
        /\ NotLater(a, b) /\ NotLater(b, c) /\ NotLater(c, Newest)
        /\ Inside(got, Origin, a)
        /\ Inside(out, a, b)
        /\ rcv.at = "offer" => Earlier(b, rcv.result) /\ NotLater(rcv.result, c)
        /\ Inside(conn.down, c, Newest)
  BY DEF ResultMarks
<1>4. PICK r \in Results : r = Head(out)
  BY <1>1, <1>2, HeadTailProperties
<1>5. Earlier(a, r) /\ NotLater(r, b) /\ Inside(out', r, b)
  BY <1>1, <1>2, <1>3, <1>4, ResultTaken
<1>6. NotLater(Origin, a)
  BY DEF NotLater, Origin, Results
<1>7. Inside(got', Origin, r)
  BY <1>1, <1>2, <1>3, <1>4, <1>5, <1>6, ResultJoins
<1>8. Newest' = Newest
  BY <1>1 DEF Newest
<1> QED
  BY <1>1, <1>3, <1>5, <1>7, <1>8 DEF ResultMarks

(* The receive loop takes a result in hand.                                *)
LEMMA ResultReceived ==
  ASSUME TypeOK, ResultMarks, ReceiverStep, RecvResult
  PROVE  ResultMarks'
<1>1. /\ conn.down # <<>> /\ rcv.at = "recv"
      /\ rcv' = [at |-> "offer", result |-> Head(conn.down)]
      /\ conn' = [conn EXCEPT !.down = Tail(@)]
      /\ UNCHANGED <<out, got>>
  BY DEF ReceiverStep, RecvResult, sessionVars
<1>2. conn \in Connections /\ conn.down \in Seq(Results)
  BY DEF TypeOK, Connections
<1>3. PICK a, b, c \in Results :
        /\ NotLater(a, b) /\ NotLater(b, c) /\ NotLater(c, Newest)
        /\ Inside(got, Origin, a)
        /\ Inside(out, a, b)
        /\ rcv.at = "offer" => Earlier(b, rcv.result) /\ NotLater(rcv.result, c)
        /\ Inside(conn.down, c, Newest)
  BY DEF ResultMarks
<1>4. conn'.down = Tail(conn.down) /\ Newest' = Newest /\ Newest \in Results
  BY <1>1, <1>2 DEF Newest, Connections, Results
<1>5. PICK r \in Results : r = Head(conn.down)
  BY <1>1, <1>2, HeadTailProperties
<1>6. Earlier(c, r) /\ NotLater(r, Newest) /\ Inside(conn'.down, r, Newest)
  BY <1>1, <1>2, <1>3, <1>4, <1>5, ResultTaken
<1>7. NotLater(b, r) /\ Earlier(b, r) /\ NotLater(r, r)
  BY <1>3, <1>6, ResultOrder
<1>8. rcv'.result = r
  BY <1>1, <1>5
<1> QED
  BY <1>1, <1>3, <1>4, <1>6, <1>7, <1>8 DEF ResultMarks

(* The result in hand goes to the session's queue.                         *)
LEMMA ResultDelivered ==
  ASSUME TypeOK, InPlace, ResultMarks, ReceiverStep, Deliver
  PROVE  ResultMarks'
<1>1. /\ rcv.at = "offer" /\ out' = Append(out, rcv.result) /\ rcv'.at = "recv"
      /\ UNCHANGED <<got, conn>>
  BY DEF ReceiverStep, Deliver, NewReceiver, sessionVars
<1>2. out \in Seq(Results)
  BY DEF TypeOK
<1>3. PICK a, b, c \in Results :
        /\ NotLater(a, b) /\ NotLater(b, c) /\ NotLater(c, Newest)
        /\ Inside(got, Origin, a)
        /\ Inside(out, a, b)
        /\ rcv.at = "offer" => Earlier(b, rcv.result) /\ NotLater(rcv.result, c)
        /\ Inside(conn.down, c, Newest)
  BY DEF ResultMarks
<1>4. PICK r \in Results : r = rcv.result
  BY <1>1 DEF TypeOK, InPlace
<1>5. Inside(out', a, r) /\ NotLater(a, r) /\ NotLater(r, c)
  BY <1>1, <1>2, <1>3, <1>4, ResultJoins, ResultOrder
<1>6. Newest' = Newest
  BY <1>1 DEF Newest
<1> QED
  BY <1>1, <1>3, <1>5, <1>6 DEF ResultMarks

(* The worker answers.                                                     *)
LEMMA ResultGiven ==
  ASSUME TypeOK, ResultMarks, WorkerStep, WorkerTakes
  PROVE  ResultMarks'
<1> DEFINE x == Head(conn.up)
           answers == Answers(conn.chunks + 1, x.end)
           next == [conn |-> conn.n, seq |-> conn.seq + Len(answers), final |-> FALSE]
<1>1. conn \in Connections /\ conn.up \in Seq(Chunks) /\ conn.down \in Seq(Results)
  BY DEF TypeOK, Connections
<1>2. x.end \in BOOLEAN
  <2>1. x \in Chunks
    BY <1>1, HeadTailProperties DEF WorkerTakes
  <2> QED
    BY <2>1 DEF Chunks
<1>3. /\ conn'.n = conn.n /\ conn'.seq = conn.seq + Len(answers)
      /\ conn'.down = conn.down \o answers
      /\ UNCHANGED <<got, out, rcv>>
  BY <1>1 DEF WorkerStep, WorkerTakes, Connections, sessionVars, pairVars
<1>4. /\ answers \in Seq(Results) /\ Inside(answers, Newest, next) /\ NotLater(Newest, next)
      /\ next \in Results /\ Newest \in Results
  BY <1>1, <1>2, AnswersFollow DEF Connections
<1>5. Newest' = next
  BY <1>3 DEF Newest
<1> HIDE DEF answers, next, x
<1>6. PICK a, b, c \in Results :
        /\ NotLater(a, b) /\ NotLater(b, c) /\ NotLater(c, Newest)
        /\ Inside(got, Origin, a)
        /\ Inside(out, a, b)
        /\ rcv.at = "offer" => Earlier(b, rcv.result) /\ NotLater(rcv.result, c)
        /\ Inside(conn.down, c, Newest)
  BY DEF ResultMarks
<1>7. Inside(conn'.down, c, next) /\ NotLater(c, next)
  BY <1>1, <1>3, <1>4, <1>6, ResultsMeet, ResultOrder
<1> QED
  BY <1>3, <1>5, <1>6, <1>7 DEF ResultMarks

(* The last results are lost with a connection.                            *)
LEMMA ResultsLost ==
  ASSUME TypeOK, ResultMarks, WorkerStep, WorkerBreaks
  PROVE  ResultMarks'
<1>1. conn \in Connections /\ conn.down \in Seq(Results) /\ Newest \in Results
  BY DEF TypeOK, Connections, Newest, Results
<1>2. PICK k \in 0..Len(conn.down) :
        conn' = [conn EXCEPT !.state = "broken", !.down = SubSeq(@, 1, k)]
  BY DEF WorkerBreaks
<1>3. /\ conn'.n = conn.n /\ conn'.seq = conn.seq /\ conn'.down = SubSeq(conn.down, 1, k)
      /\ UNCHANGED <<got, out, rcv>>
  BY <1>1, <1>2 DEF WorkerStep, Connections, sessionVars, pairVars
<1>4. PICK a, b, c \in Results :
        /\ NotLater(a, b) /\ NotLater(b, c) /\ NotLater(c, Newest)
        /\ Inside(got, Origin, a)
        /\ Inside(out, a, b)
        /\ rcv.at = "offer" => Earlier(b, rcv.result) /\ NotLater(rcv.result, c)
        /\ Inside(conn.down, c, Newest)
  BY DEF ResultMarks
<1>5. Inside(conn'.down, c, Newest) /\ Newest' = Newest
  BY <1>1, <1>3, <1>4, ResultsCut DEF Newest
<1> QED
  BY <1>3, <1>4, <1>5 DEF ResultMarks

(* A new connection's results are later than any before.                   *)
LEMMA ResultsRedialled ==
  ASSUME TypeOK, ResultMarks, SupervisorStep, Redial
  PROVE  ResultMarks'
<1>1. conn.n \in Nat /\ conn.seq \in Nat
  BY DEF TypeOK, Connections
<1>2. /\ conn'.n = conn.n + 1 /\ conn'.seq = 0 /\ conn'.down = <<>> /\ rcv'.at = "recv"
      /\ UNCHANGED <<got, out>>
  BY DEF SupervisorStep, Redial, NewConnection, NewReceiver, sessionVars
<1>3. PICK a, b, c \in Results :
        /\ NotLater(a, b) /\ NotLater(b, c) /\ NotLater(c, Newest)
        /\ Inside(got, Origin, a)
        /\ Inside(out, a, b)
        /\ rcv.at = "offer" => Earlier(b, rcv.result) /\ NotLater(rcv.result, c)
        /\ Inside(conn.down, c, Newest)
  BY DEF ResultMarks
<1>4. NotLater(Newest, Newest') /\ Newest \in Results /\ Newest' \in Results
  BY <1>1, <1>2 DEF NotLater, Newest, Results
<1>5. NotLater(c, Newest') /\ Inside(conn'.down, c, Newest')
  BY <1>2, <1>3, <1>4, ResultOrder, InsideEmpty
<1> QED
  BY <1>2, <1>3, <1>5 DEF ResultMarks

(* Every step keeps the marks between results.                             *)
LEMMA StepResults == TypeOK /\ InPlace /\ ResultMarks /\ [Next]_vars => ResultMarks'
<1> SUFFICES ASSUME TypeOK, InPlace, ResultMarks, [Next]_vars PROVE ResultMarks'
  OBVIOUS
<1>0. conn \in Connections /\ rcv \in Receivers
  BY TypeParts DEF PairTyped
<1>1. CASE SessionStep(PumpTakes)
  BY <1>1, ResultPumped
<1>2. CASE SessionStep(MakeChunk) \/ SessionStep(ContextEnds)
  BY <1>2, ResultsStay DEF SessionStep, ContextEnds, StreamTimesOut, SessionCloses,
                           MakeChunk, pairVars
<1>3. CASE ForwarderStep
  BY <1>3, ResultsStay DEF ForwarderStep, sessionVars
<1>4. CASE SenderStep
  <2>1. UNCHANGED <<got, out, rcv>>
    BY <1>4 DEF SenderStep, sessionVars
  <2>2. conn' = conn \/ conn' = [conn EXCEPT !.half = TRUE] \/ Transmit
    BY <1>4 DEF SenderStep, SendLeaves, FirstChunkTimesOut, TakeChunk, Sent, SentNoted, SendFails,
           SendTimesOut, SendCancelled, CloseSend, SendCancelsPair
  <2>3. conn'.n = conn.n /\ conn'.seq = conn.seq /\ conn'.down = conn.down
    BY <1>0, <2>2 DEF Transmit, Connections
  <2> QED
    BY <2>1, <2>3, ResultsStay
<1>5. CASE ReceiverStep
  <2>1. CASE RecvResult
    BY <1>5, <2>1, ResultReceived
  <2>2. CASE Deliver
    BY <1>5, <2>2, ResultDelivered
  <2>3. CASE ~RecvResult /\ ~Deliver
    <3>1. UNCHANGED <<got, out, conn>> /\ rcv'.at # "offer"
      BY <1>5, <2>3 DEF ReceiverStep, DropPartial, OfferCancelled, RecvFails, RecvIdles,
                        RecvCancelled, RecvLeaves, NewReceiver, sessionVars
    <3> QED
      BY <3>1, ResultsStay
  <2> QED
    BY <2>1, <2>2, <2>3
<1>6. CASE WorkerStep
  <2>1. CASE WorkerTakes
    BY <1>6, <2>1, ResultGiven
  <2>2. CASE WorkerBreaks
    BY <1>6, <2>2, ResultsLost
  <2>3. CASE WorkerSeesEOF \/ WorkerQuits
    <3>1. UNCHANGED <<got, out, rcv>>
      BY <1>6 DEF WorkerStep, sessionVars, pairVars
    <3>2. conn'.n = conn.n /\ conn'.seq = conn.seq /\ conn'.down = conn.down
      BY <1>0, <2>3 DEF WorkerSeesEOF, WorkerQuits, Connections
    <3> QED
      BY <3>1, <3>2, ResultsStay
  <2> QED
    BY <1>6, <2>1, <2>2, <2>3 DEF WorkerStep
<1>7. CASE SupervisorStep
  <2>1. CASE Redial
    BY <1>7, <2>1, ResultsRedialled
  <2>2. CASE ~Redial
    <3>1. UNCHANGED <<got, out, rcv, conn>>
      BY <1>7, <2>2 DEF SupervisorStep, PairEnds, Retry, BackoffCancelled, RedialFails,
                        ReaperCounts, ReaperRemoves, sessionVars, pairVars
    <3> QED
      BY <3>1, ResultsStay
  <2> QED
    BY <2>1, <2>2
<1>8. CASE UNCHANGED vars
  BY <1>8, ResultsStay DEF vars, sessionVars, pairVars
<1> QED
  BY <1>1, <1>2, <1>3, <1>4, <1>5, <1>6, <1>7, <1>8 DEF Next, GatewayStep

-----------------------------------------------------------------------------
(* Where the loops are.                                                    *)

(* A loop that has something in hand has taken it from somewhere.          *)
LEMMA StepInPlace == TypeOK /\ InPlace /\ [Next]_vars => InPlace'
<1> SUFFICES ASSUME TypeOK, InPlace, [Next]_vars PROVE InPlace'
  OBVIOUS
<1>0. snd \in Senders /\ rcv \in Receivers /\ queue \in Seq(Chunks) /\ conn.down \in Seq(Results)
  BY TypeParts DEF PairTyped, Connections
<1>n. None \notin Chunks /\ None \notin Results
  BY StreamAssumption
<1>1. CASE UNCHANGED <<snd, rcv>>
  BY <1>1 DEF InPlace
<1>2. CASE SenderStep
  <2>0. UNCHANGED rcv
    BY <1>2 DEF SenderStep
  <2>1. CASE TakeChunk
    <3>1. Head(queue) \in Chunks
      BY <1>0, <2>1, HeadTailProperties DEF TakeChunk
    <3>2. snd'.chunk = Head(queue)
      BY <1>0, <2>1 DEF TakeChunk, Senders
    <3> QED
      BY <1>n, <2>0, <3>1, <3>2 DEF InPlace
  <2>2. CASE Sent
    BY <1>0, <2>0, <2>2 DEF Sent, InPlace, Senders
  <2>3. CASE ~TakeChunk /\ ~Sent
    <3>1. snd'.at \in {"select", "close", "cancel", "done"}
      BY <1>0, <1>2, <2>3 DEF SenderStep, SendLeaves, FirstChunkTimesOut, SentNoted, SendFails,
           SendTimesOut, SendCancelled, CloseSend, SendCancelsPair, SendAt, Senders
    <3> QED
      BY <2>0, <3>1 DEF InPlace
  <2> QED
    BY <2>1, <2>2, <2>3
<1>3. CASE ReceiverStep
  <2>0. UNCHANGED snd
    BY <1>3 DEF ReceiverStep
  <2>1. CASE RecvResult
    <3>1. Head(conn.down) \in Results
      BY <1>0, <2>1, HeadTailProperties DEF RecvResult
    <3> QED
      BY <1>n, <2>0, <2>1, <3>1 DEF RecvResult, InPlace
  <2>2. CASE ~RecvResult
    <3>1. rcv' = NewReceiver \/ rcv' = [NewReceiver EXCEPT !.at = "done"]
      BY <1>3, <2>2 DEF ReceiverStep, Deliver, DropPartial, OfferCancelled, RecvFails, RecvIdles,
                        RecvCancelled, RecvLeaves
    <3> QED
      BY <2>0, <3>1 DEF NewReceiver, InPlace
  <2> QED
    BY <2>1, <2>2
<1>4. CASE SupervisorStep
  <2>1. UNCHANGED <<snd, rcv>> \/ (snd' = NewSender /\ rcv' = NewReceiver)
    BY <1>4 DEF SupervisorStep, PairEnds, Retry, BackoffCancelled, RedialFails, Redial,
                ReaperCounts, ReaperRemoves, pairVars
  <2> QED
    BY <2>1 DEF NewSender, NewReceiver, InPlace
<1> QED
  BY <1>1, <1>2, <1>3, <1>4
  DEF Next, GatewayStep, SessionStep, ForwarderStep, WorkerStep, pairVars, vars

(* All loops have left before the supervisor goes on.                      *)
LEMMA StepLoopsLeft == TypeOK /\ LoopsLeft /\ [Next]_vars => LoopsLeft'
<1> SUFFICES ASSUME TypeOK, LoopsLeft, [Next]_vars PROVE LoopsLeft'
  OBVIOUS
<1>1. CASE UNCHANGED <<sup, fwd, snd, rcv>>
  BY <1>1 DEF LoopsLeft
<1>2. CASE ForwarderStep
  BY <1>2 DEF ForwarderStep, LoopsLeft, supVars
<1>3. CASE SenderStep
  <2>1. sup' = sup /\ snd.at # "done"
    BY <1>3 DEF SenderStep, SendLeaves, FirstChunkTimesOut, TakeChunk, Sent, SentNoted, SendFails,
           SendTimesOut, SendCancelled, CloseSend, SendCancelsPair, supVars
  <2> QED
    BY <2>1 DEF LoopsLeft
<1>4. CASE ReceiverStep
  <2>1. sup' = sup /\ rcv.at # "done"
    BY <1>4 DEF ReceiverStep, RecvResult, Deliver, DropPartial, OfferCancelled, RecvFails,
                NoMoreResults, RecvIdles, RecvCancelled, supVars
  <2> QED
    BY <2>1 DEF LoopsLeft
<1>5. CASE SupervisorStep
  BY <1>5 DEF SupervisorStep, PairEnds, Retry, BackoffCancelled, RedialFails, Redial, PairOver,
              ReaperCounts, ReaperRemoves, pairVars, LoopsLeft
<1> QED
  BY <1>1, <1>2, <1>3, <1>4, <1>5
  DEF Next, GatewayStep, SessionStep, WorkerStep, supVars, pairVars, vars

(* A chunk is marked as the last only when the session has ended.          *)
LEMMA StepEnds == TypeOK /\ InPlace /\ EndsMarked /\ [Next]_vars => EndsMarked'
<1> SUFFICES ASSUME TypeOK, InPlace, EndsMarked, [Next]_vars, ctx' = "live" PROVE EndsMarked'
  BY DEF EndsMarked
<1>0. /\ snd \in Senders /\ queue \in Seq(Chunks) /\ audio \in Seq(Chunks)
      /\ ctx \in {"live", "expired", "closed"}
  BY TypeParts DEF PairTyped, SessionTyped
<1>1. ctx = "live"
  <2>1. ctx' = ctx \/ ctx' # "live"
    BY DEF Next, GatewayStep, SessionStep, MakeChunk, ContextEnds, StreamTimesOut, SessionCloses,
           PumpTakes, ForwarderStep,
           SenderStep, ReceiverStep, WorkerStep, SupervisorStep, sessionVars, vars
  <2> QED
    BY <1>0, <2>1
<1>2. /\ \A i \in DOMAIN audio : ~audio[i].end
      /\ \A i \in DOMAIN queue : ~queue[i].end
      /\ snd.at \in {"send", "sent"} => ~snd.chunk.end
      /\ ~snd.eos
  BY <1>1 DEF EndsMarked
<1>3. CASE UNCHANGED <<audio, queue, snd>>
  BY <1>2, <1>3 DEF EndsMarked
<1>4. CASE SessionStep(MakeChunk)
  <2> DEFINE x == [n |-> made', end |-> ctx = "closed"]
  <2>1. audio' = Append(audio, x) /\ UNCHANGED <<queue, snd>>
    BY <1>4 DEF SessionStep, MakeChunk, pairVars
  <2>2. x \in Chunks /\ ~x.end
    <3>1. made \in Nat /\ made' = made + 1
      BY <1>4 DEF SessionStep, MakeChunk, TypeOK
    <3>2. (ctx = "closed") = FALSE /\ made' \in Nat
      BY <1>1, <3>1
    <3> QED
      BY <3>2 DEF Chunks
  <2> HIDE DEF x
  <2>3. /\ DOMAIN audio' = 1..Len(audio) + 1 /\ Len(audio) \in Nat /\ DOMAIN audio = 1..Len(audio)
        /\ \A i \in 1..Len(audio) : audio'[i] = audio[i]
        /\ audio'[Len(audio) + 1] = x
    BY <1>0, <2>1, <2>2, AppendProperties
  <2>4. \A i \in 1..Len(audio) + 1 : i \in 1..Len(audio) \/ i = Len(audio) + 1
    BY <2>3
  <2>5. \A i \in DOMAIN audio' : ~audio'[i].end
    BY <1>2, <2>2, <2>3, <2>4
  <2> QED
    BY <1>2, <2>1, <2>5 DEF EndsMarked
<1>5. CASE ForwarderStep
  <2>1. CASE ForwarderEnds
    BY <1>3, <1>5, <2>1 DEF ForwarderStep, ForwarderEnds
  <2>2. CASE Forward
    <3> DEFINE x == Head(audio)
    <3>1. /\ audio # <<>> /\ audio' = Tail(audio) /\ UNCHANGED snd
          /\ queue' = IF Len(queue) < QueueSize THEN Append(queue, x) ELSE queue
      BY <1>5, <2>2 DEF ForwarderStep, Forward
    <3>2. /\ x \in Chunks /\ x = audio[1] /\ 1 \in DOMAIN audio
          /\ \A i \in DOMAIN Tail(audio) : i + 1 \in DOMAIN audio /\ Tail(audio)[i] = audio[i + 1]
      BY <1>0, <3>1, TailElements
    <3> HIDE DEF x
    <3>3. /\ DOMAIN Append(queue, x) = 1..Len(queue) + 1 /\ Len(queue) \in Nat
          /\ DOMAIN queue = 1..Len(queue)
          /\ \A i \in 1..Len(queue) : Append(queue, x)[i] = queue[i]
          /\ Append(queue, x)[Len(queue) + 1] = x
      BY <1>0, <3>2, AppendProperties
    <3>4. \A i \in 1..Len(queue) + 1 : i \in 1..Len(queue) \/ i = Len(queue) + 1
      BY <3>3
    <3>5. \A i \in DOMAIN Append(queue, x) : ~Append(queue, x)[i].end
      BY <1>2, <3>2, <3>3, <3>4
    <3>6. \A i \in DOMAIN audio' : ~audio'[i].end
      BY <1>2, <3>1, <3>2
    <3>7. \A i \in DOMAIN queue' : ~queue'[i].end
      BY <1>2, <3>1, <3>5
    <3> QED
      BY <1>2, <3>1, <3>6, <3>7 DEF EndsMarked
  <2> QED
    BY <1>5, <2>1, <2>2 DEF ForwarderStep
<1>6. CASE SenderStep
  <2>0. audio' = audio
    BY <1>6 DEF SenderStep, SendLeaves, FirstChunkTimesOut, TakeChunk, Sent, SentNoted, SendFails,
           SendTimesOut, SendCancelled, CloseSend, SendCancelsPair
  <2>1. CASE TakeChunk
    <3>1. queue # <<>> /\ queue' = Tail(queue)
          /\ snd' = [snd EXCEPT !.at = "send", !.chunk = Head(queue), !.armed = FALSE]
      BY <2>1 DEF TakeChunk
    <3>2. /\ Head(queue) = queue[1] /\ 1 \in DOMAIN queue
          /\ \A i \in DOMAIN Tail(queue) : i + 1 \in DOMAIN queue /\ Tail(queue)[i] = queue[i + 1]
      BY <1>0, <3>1, TailElements
    <3>3. snd'.chunk = queue[1] /\ snd'.eos = snd.eos
      BY <1>0, <3>1, <3>2 DEF Senders
    <3> QED
      BY <1>2, <2>0, <3>1, <3>2, <3>3 DEF EndsMarked
  <2>2. CASE Sent
    BY <1>0, <1>2, <2>0, <2>2 DEF Sent, EndsMarked, Senders
  <2>3. CASE SentNoted
    <3>1. snd'.at = "select" /\ ~snd'.eos /\ queue' = queue
      BY <1>0, <1>2, <2>3 DEF SentNoted, Senders
    <3> QED
      BY <1>2, <2>0, <3>1 DEF EndsMarked
  <2>4. CASE ~TakeChunk /\ ~Sent /\ ~SentNoted
    <3>1. snd'.at \in {"close", "cancel", "done"} /\ snd'.eos = snd.eos /\ queue' = queue
      BY <1>0, <1>6, <2>4 DEF SenderStep, SendLeaves, FirstChunkTimesOut, SendFails,
           SendTimesOut, SendCancelled, CloseSend, SendCancelsPair, SendAt, Senders
    <3> QED
      BY <1>2, <2>0, <3>1 DEF EndsMarked
  <2> QED
    BY <2>1, <2>2, <2>3, <2>4
<1>7. CASE SupervisorStep
  <2>1. CASE Redial
    BY <1>2, <1>7, <2>1 DEF SupervisorStep, Redial, NewSender, EndsMarked
  <2>2. CASE ~Redial
    BY <1>3, <1>7, <2>2 DEF SupervisorStep, PairEnds, Retry, BackoffCancelled, RedialFails,
                            ReaperCounts, ReaperRemoves, pairVars
  <2> QED
    BY <2>1, <2>2
<1>8. CASE ReceiverStep \/ WorkerStep \/ SessionStep(ContextEnds) \/ SessionStep(PumpTakes)
           \/ UNCHANGED vars
  BY <1>3, <1>8 DEF ReceiverStep, WorkerStep, SessionStep, ContextEnds,
                    StreamTimesOut, SessionCloses, PumpTakes, pairVars, vars
<1> QED
  BY <1>4, <1>5, <1>6, <1>7, <1>8 DEF Next, GatewayStep

-----------------------------------------------------------------------------
(* Why a pair ends, and the books.                                         *)

(* The receive loop leaves with an error, or for a reason that is there.   *)
LEMMA ReceiverHasReason ==
  ASSUME TypeOK, EndsMarked, LeftForAReason, sup = "pair", NEW e \in Errors \cup {None},
         RecvLeaves(e), e = None => PairDone \/ snd.eos
  PROVE  ctx # "live" \/ st'.err # None \/ st'.timedOut
<1>0. st \in Shared /\ None \notin Errors /\ ctx \in {"live", "expired", "closed"}
  BY TypeParts, StreamAssumption DEF PairTyped, SessionTyped
<1>1. st' = [(IF e = None THEN st ELSE SetErr(e)) EXCEPT !.cancelled = TRUE]
  BY DEF RecvLeaves
<1>2. CASE e = None
  <2>1. st'.err = st.err /\ st'.timedOut = st.timedOut
    BY <1>0, <1>1, <1>2 DEF Shared
  <2>2. ctx # "live" \/ st.cancelled
    BY <1>0, <1>2 DEF PairDone, EndsMarked
  <2> QED
    BY <2>1, <2>2 DEF LeftForAReason
<1>3. CASE e # None
  <2>1. SetErr(e) \in Shared /\ SetErr(e).err # None
    BY <1>0, <1>3, ErrorRecorded
  <2>2. st'.err = SetErr(e).err
    BY <1>1, <1>3, <2>1 DEF Shared
  <2> QED
    BY <2>1, <2>2
<1> QED
  BY <1>2, <1>3

(* No goroutine of a pair leaves an open session without a reason.         *)
LEMMA StepReasons ==
  TypeOK /\ EndsMarked /\ LeftForAReason /\ [Next]_vars => LeftForAReason'
<1> SUFFICES ASSUME TypeOK, EndsMarked, LeftForAReason, [Next]_vars, sup' = "pair"
             PROVE  LeftForAReason'
  BY DEF LeftForAReason
<1>0. st \in Shared /\ snd \in Senders /\ ctx \in {"live", "expired", "closed"}
  BY TypeParts DEF PairTyped, SessionTyped
<1>1. CASE UNCHANGED <<sup, ctx, st, fwd, snd>>
  BY <1>1 DEF LeftForAReason
<1>2. CASE SessionStep(ContextEnds)
  BY <1>2 DEF SessionStep, ContextEnds, StreamTimesOut, SessionCloses, LeftForAReason
<1>3. CASE ForwarderStep
  <2>1. UNCHANGED <<sup, ctx, st, snd>>
    BY <1>3 DEF ForwarderStep, supVars, sessionVars
  <2>2. fwd' = fwd \/ PairDone
    BY <1>3 DEF ForwarderStep, ForwarderEnds, Forward
  <2> QED
    BY <2>1, <2>2 DEF LeftForAReason, PairDone
<1>4. CASE SenderStep
  <2>0. UNCHANGED <<sup, ctx, fwd>>
    BY <1>4 DEF SenderStep, supVars, sessionVars
  <2>1. CASE SendLeaves \/ SendCancelled
    <3>1. PairDone \/ fwd = "done"
      BY <2>1 DEF SendLeaves, SendCancelled
    <3>2. st' = st
      BY <2>1 DEF SendLeaves, SendCancelled
    <3> QED
      BY <2>0, <3>1, <3>2 DEF LeftForAReason, PairDone
  <2>2. CASE FirstChunkTimesOut \/ SendFails
    <3>1. st' = SetErr("first") \/ st' = SetErr("send")
      BY <2>2 DEF FirstChunkTimesOut, SendFails
    <3>2. st'.err # None
      BY <1>0, <3>1, ErrorRecorded DEF Errors
    <3> QED
      BY <3>2 DEF LeftForAReason
  <2>3. CASE SendTimesOut
    <3>1. st'.timedOut
      BY <1>0, <2>3 DEF SendTimesOut, Shared
    <3> QED
      BY <3>1 DEF LeftForAReason
  <2>4. CASE CloseSend
    <3>1. snd.at = "close" /\ st' = st
      BY <2>4 DEF CloseSend
    <3> QED
      BY <2>0, <3>1 DEF LeftForAReason
  <2>5. CASE SendCancelsPair
    <3>1. snd.at = "cancel" /\ st'.err = st.err /\ st'.timedOut = st.timedOut
      BY <1>0, <2>5 DEF SendCancelsPair, Shared
    <3> QED
      BY <2>0, <3>1 DEF LeftForAReason
  <2>6. CASE TakeChunk \/ Sent \/ SentNoted
    <3>1. st' = st /\ snd'.at \in {"select", "send", "sent"}
      BY <1>0, <2>6 DEF TakeChunk, Sent, SentNoted, Senders
    <3> QED
      BY <2>0, <3>1 DEF LeftForAReason
  <2> QED
    BY <1>4, <2>1, <2>2, <2>3, <2>4, <2>5, <2>6 DEF SenderStep
<1>5. CASE ReceiverStep
  <2>0. UNCHANGED <<sup, ctx, fwd, snd>>
    BY <1>5 DEF ReceiverStep, supVars, sessionVars
  <2>1. CASE RecvResult \/ Deliver \/ DropPartial
    BY <1>1, <2>0, <2>1 DEF RecvResult, Deliver, DropPartial
  <2>2. CASE OfferCancelled \/ RecvFails \/ RecvIdles \/ RecvCancelled
    <3>1. \E e \in Errors \cup {None} : RecvLeaves(e) /\ (e = None => PairDone \/ snd.eos)
      <4>1. CASE OfferCancelled
        BY <4>1 DEF OfferCancelled
      <4>2. CASE RecvFails
        <5>1. CASE PairDone \/ (conn.state = "finished" /\ snd.eos)
          BY <4>2, <5>1 DEF RecvFails
        <5>2. CASE ~(PairDone \/ (conn.state = "finished" /\ snd.eos))
          <6>1. RecvLeaves("eof") \/ RecvLeaves("recv")
            BY <4>2, <5>2 DEF RecvFails
          <6>2. "eof" # None /\ "recv" # None
            BY StreamAssumption DEF Errors
          <6> QED
            BY <6>1, <6>2 DEF Errors
        <5> QED
          BY <5>1, <5>2
      <4>3. CASE RecvIdles
        <5>1. CASE PairDone
          BY <4>3, <5>1 DEF RecvIdles
        <5>2. CASE ~PairDone
          <6>1. RecvLeaves("idle") /\ "idle" # None
            BY <4>3, <5>2, StreamAssumption DEF RecvIdles, Errors
          <6> QED
            BY <6>1 DEF Errors
        <5> QED
          BY <5>1, <5>2
      <4>4. CASE RecvCancelled
        BY <4>4 DEF RecvCancelled, PairDone
      <4> QED
        BY <2>2, <4>1, <4>2, <4>3, <4>4
    <3> QED
      BY <2>0, <3>1, ReceiverHasReason DEF LeftForAReason
  <2> QED
    BY <1>5, <2>1, <2>2 DEF ReceiverStep
<1>6. CASE SupervisorStep
  <2>1. CASE Redial
    BY <2>1 DEF Redial, NoError, NewSender, LeftForAReason
  <2>2. CASE ~Redial
    <3>1. UNCHANGED <<ctx, st, fwd, snd, sup>>
      BY <1>6, <2>2 DEF SupervisorStep, PairEnds, Retry, BackoffCancelled, RedialFails,
                        ReaperCounts, ReaperRemoves
    <3> QED
      BY <1>1, <3>1
  <2> QED
    BY <2>1, <2>2
<1>7. CASE WorkerStep \/ SessionStep(MakeChunk) \/ SessionStep(PumpTakes) \/ UNCHANGED vars
  BY <1>1, <1>7 DEF WorkerStep, SessionStep, MakeChunk, PumpTakes, supVars, sessionVars, pairVars, vars
<1> QED
  BY <1>2, <1>3, <1>4, <1>5, <1>6, <1>7 DEF Next, GatewayStep

(* Once all loops have left, only the supervisor counts.                   *)
LEMMA OnlySupervisorLeft ==
  ASSUME LoopsLeft, sup # "pair", [Next]_vars
  PROVE  SupervisorStep \/ UNCHANGED <<supVars, st, counts>>
<1>1. ~SenderStep
  BY DEF LoopsLeft, SenderStep, SendLeaves, FirstChunkTimesOut, TakeChunk, Sent, SentNoted,
         SendFails, SendTimesOut, SendCancelled, CloseSend, SendCancelsPair
<1>2. ~ReceiverStep
  BY DEF LoopsLeft, ReceiverStep, RecvResult, Deliver, DropPartial, OfferCancelled, RecvFails,
         NoMoreResults, RecvIdles, RecvCancelled
<1> QED
  BY <1>1, <1>2
  DEF Next, GatewayStep, SessionStep, ForwarderStep, WorkerStep, pairVars, vars

(* The reaper adds the counters once, and nobody counts after it.          *)
LEMMA StepBooks == TypeOK /\ LoopsLeft /\ Books /\ [Next]_vars => Books'
<1> SUFFICES ASSUME TypeOK, LoopsLeft, Books, [Next]_vars PROVE Books'
  OBVIOUS
<1>0. counts \in Counters /\ sup \in {"pair", "backoff", "returned", "counted", "reaped"}
  BY TypeParts DEF CountsTyped
<1>1. CASE SupervisorStep
  <2>1. CASE ReaperCounts
    <3>1. /\ sup = "returned" /\ sup' = "counted" /\ counts' = counts /\ entry' = entry
          /\ totals' = [k \in DOMAIN totals |-> totals[k] + counts[k]]
      BY <2>1 DEF ReaperCounts, pairVars
    <3>2. totals = Zero /\ entry
      BY <3>1 DEF Books
    <3>3. DOMAIN Zero = {"retries", "send", "recv"}
          /\ \A k \in {"retries", "send", "recv"} : Zero[k] = 0 /\ counts[k] \in Nat
      BY <1>0 DEF Zero, Counters
    <3>4. \A k \in {"retries", "send", "recv"} : totals'[k] = counts[k]
      BY <3>1, <3>2, <3>3
    <3>5. totals' = counts
      BY <1>0, <3>1, <3>2, <3>3, <3>4 DEF Counters
    <3> QED
      BY <3>1, <3>2, <3>5 DEF Books
  <2>2. CASE ReaperRemoves
    BY <2>2 DEF ReaperRemoves, Books, pairVars
  <2>3. CASE PairEnds \/ Retry \/ BackoffCancelled \/ RedialFails \/ Redial
    <3>1. /\ sup \in {"pair", "backoff"} /\ sup' \in {"pair", "backoff", "returned"}
          /\ UNCHANGED <<totals, entry>>
      BY <2>3 DEF PairEnds, Retry, BackoffCancelled, RedialFails, Redial, PairOver
    <3> QED
      BY <3>1 DEF Books
  <2> QED
    BY <1>1, <2>1, <2>2, <2>3 DEF SupervisorStep
<1>2. CASE ~SupervisorStep
  <2>1. UNCHANGED <<sup, totals, entry>>
    BY <1>2 DEF Next, GatewayStep, SessionStep, ForwarderStep, SenderStep, ReceiverStep, WorkerStep,
                supVars, vars
  <2>2. CASE sup = "pair"
    BY <2>1, <2>2 DEF Books
  <2>3. CASE sup # "pair"
    <3>1. counts' = counts
      BY <1>2, <2>3, OnlySupervisorLeft
    <3> QED
      BY <2>1, <3>1 DEF Books
  <2> QED
    BY <2>2, <2>3
<1> QED
  BY <1>1, <1>2

(* A stream is given up only for one of the configured reasons, and every  *)
(* connection but the first is counted as a retry.                         *)
LEMMA StepReconnects ==
  /\ TypeOK /\ LoopsLeft /\ LeftForAReason /\ Redials /\ ReconnectsAsConfigured
  /\ [Next]_vars
  => Redials' /\ ReconnectsAsConfigured'
<1> SUFFICES ASSUME TypeOK, LoopsLeft, LeftForAReason, Redials, ReconnectsAsConfigured, [Next]_vars
             PROVE  Redials' /\ ReconnectsAsConfigured'
  OBVIOUS
<1>0. /\ counts \in Counters /\ st \in Shared /\ conn.n \in Nat /\ counts.retries \in Nat
      /\ MaxRetries \in Nat /\ ctx \in {"live", "expired", "closed"} /\ conn \in Connections
      /\ sup \in {"pair", "backoff", "returned", "counted", "reaped"}
      /\ None \notin Errors
  BY TypeParts, StreamAssumption DEF PairTyped, CountsTyped, SessionTyped, Counters, Connections
<1>1. conn.n <= counts.retries + 1 /\ counts.retries <= MaxRetries
  BY DEF ReconnectsAsConfigured
<1>2. ctx' = "live" => ctx = "live"
  BY <1>0 DEF Next, GatewayStep, SessionStep, MakeChunk, ContextEnds,
              StreamTimesOut, SessionCloses, PumpTakes, ForwarderStep,
         SenderStep, ReceiverStep, WorkerStep, SupervisorStep, sessionVars, vars
<1>3. CASE SupervisorStep
  <2>0. ctx' = ctx
    BY <1>3 DEF SupervisorStep, sessionVars
  <2>1. CASE PairEnds
    <3>1. /\ snd.at = "done" /\ sup = "pair" /\ sup' = "returned" /\ UNCHANGED <<st, counts, conn>>
          /\ ctx # "live" \/ st.err = None \/ counts.retries >= MaxRetries
      BY <2>1 DEF PairEnds, PairOver, pairVars
    <3>2. ctx = "live" => st.err # None \/ st.timedOut
      BY <3>1 DEF LeftForAReason
    <3>3. counts.retries >= MaxRetries => counts.retries = MaxRetries
      BY <1>0, <1>1
    <3> QED
      BY <1>1, <2>0, <3>1, <3>2, <3>3 DEF Redials, ReconnectsAsConfigured
  <2>2. CASE Retry
    <3>1. /\ counts.retries < MaxRetries /\ sup' = "backoff" /\ conn' = conn
          /\ counts' = [counts EXCEPT !.retries = @ + 1]
          /\ st' = [st EXCEPT !.err = None]
      BY <2>2 DEF Retry, Count
    <3>2. counts'.retries = counts.retries + 1 /\ st'.err = None
      BY <1>0, <3>1 DEF Counters, Shared
    <3> QED
      BY <1>0, <1>1, <3>1, <3>2 DEF Redials, ReconnectsAsConfigured
  <2>3. CASE BackoffCancelled
    BY <1>1, <2>0, <2>3 DEF BackoffCancelled, pairVars, Redials, ReconnectsAsConfigured
  <2>4. CASE RedialFails
    <3>1. sup' = "returned" /\ st' = SetErr("dial") /\ UNCHANGED <<counts, conn>> /\ sup = "backoff"
      BY <2>4 DEF RedialFails
    <3>2. st'.err = "dial"
      BY <1>0, <3>1 DEF SetErr, Shared, Redials
    <3> QED
      BY <1>1, <3>1, <3>2 DEF Redials, ReconnectsAsConfigured
  <2>5. CASE Redial
    <3>1. sup = "backoff" /\ sup' = "pair" /\ counts' = counts /\ conn'.n = conn.n + 1
      BY <2>5 DEF Redial, NewConnection
    <3> QED
      BY <1>0, <1>1, <3>1 DEF Redials, ReconnectsAsConfigured
  <2>6. CASE ReaperCounts \/ ReaperRemoves
    <3>1. /\ sup \in {"returned", "counted"} /\ sup' \in {"counted", "reaped"}
          /\ UNCHANGED <<st, counts, conn>>
      BY <2>6 DEF ReaperCounts, ReaperRemoves, pairVars
    <3> QED
      BY <2>0, <3>1 DEF Redials, ReconnectsAsConfigured
  <2> QED
    BY <1>3, <2>1, <2>2, <2>3, <2>4, <2>5, <2>6 DEF SupervisorStep
<1>4. CASE ~SupervisorStep
  <2>1. sup' = sup
    BY <1>4 DEF Next, GatewayStep, SessionStep, ForwarderStep, SenderStep, ReceiverStep, WorkerStep,
                supVars, vars
  <2>2. conn'.n = conn.n
    <3>1. \/ conn' = conn \/ Transmit \/ conn' = [conn EXCEPT !.half = TRUE]
          \/ conn' = [conn EXCEPT !.down = Tail(@)] \/ WorkerStep
      BY <1>4 DEF Next, GatewayStep, SessionStep, ForwarderStep, SenderStep, ReceiverStep, vars,
         SendLeaves, FirstChunkTimesOut, TakeChunk, Sent, SentNoted, SendFails, SendTimesOut,
         SendCancelled, CloseSend, SendCancelsPair, RecvResult, Deliver, DropPartial,
         OfferCancelled, RecvFails, RecvIdles, RecvCancelled, RecvLeaves
    <3>2. WorkerStep => conn'.n = conn.n
      BY <1>0 DEF WorkerStep, WorkerTakes, WorkerSeesEOF, WorkerQuits, WorkerBreaks, Connections
    <3> QED
      BY <1>0, <3>1, <3>2 DEF Transmit, Connections
  <2>3. counts'.retries = counts.retries
    <3>1. counts' = counts \/ Count("send") \/ Count("recv")
      BY <1>4 DEF Next, GatewayStep, SessionStep, ForwarderStep, SenderStep, ReceiverStep, vars,
         WorkerStep, pairVars, SendLeaves, FirstChunkTimesOut, TakeChunk, Sent, SentNoted,
         SendFails, SendTimesOut, SendCancelled, CloseSend, SendCancelsPair, RecvResult, Deliver,
         DropPartial, OfferCancelled, RecvFails, RecvIdles, RecvCancelled, RecvLeaves
    <3> QED
      BY <1>0, <3>1 DEF Count, Counters
  <2>4. CASE sup = "pair"
    BY <1>1, <2>1, <2>2, <2>3, <2>4 DEF Redials, ReconnectsAsConfigured
  <2>5. CASE sup # "pair"
    <3>1. UNCHANGED <<st, counts>>
      BY <1>4, <2>5, OnlySupervisorLeft
    <3> QED
      BY <1>2, <2>1, <2>2, <3>1 DEF Redials, ReconnectsAsConfigured
  <2> QED
    BY <2>4, <2>5
<1> QED
  BY <1>3, <1>4

-----------------------------------------------------------------------------
(* The theorems.                                                           *)

(* Manager.Open has dialled the worker and nothing has been said yet.      *)
LEMMA InitIInv == Init => IInv
<1> SUFFICES ASSUME Init PROVE IInv
  OBVIOUS
<1> USE DEF Init
<1>1. TypeOK
  <2>1. cfg \in Configs /\ NewSender \in Senders /\ NewReceiver \in Receivers /\ NoError \in Shared
    BY FreshPair
  <2>2. conn \in Connections
    BY NewConnections
  <2>3. /\ <<>> \in Seq(Chunks) /\ <<>> \in Seq(Results) /\ <<>> \in Seq(Nat) /\ Len(<<>>) = 0
        /\ AudioCap \in Nat /\ ResultCap \in Nat /\ QueueSize \in Nat
    BY EmptySeq, StreamAssumption
  <2>4. SessionTyped
    BY <2>1, <2>3 DEF SessionTyped
  <2>5. CountsTyped
    BY DEF CountsTyped, Zero, Counters
  <2>6. PairTyped
    BY <2>1, <2>3 DEF PairTyped
  <2> QED
    BY <2>2, <2>4, <2>5, <2>6, TypeParts
<1>2. InPlace /\ LoopsLeft
  BY DEF InPlace, LoopsLeft, NewSender, NewReceiver
<1>3. AudioMarks
  <2>1. \A lo, hi : Between(<<>>, lo, hi)
    BY BetweenEmpty
  <2>2. HeardUpTo(0) /\ conn.up = <<>> /\ snd.at = "select" /\ 0 \in 0..made
    BY DEF HeardUpTo, NewConnection, NewSender
  <2>3. conn.up = <<>> /\ queue = <<>> /\ audio = <<>>
    BY <2>2
  <2> HIDE DEF Init
  <2> QED
    BY <2>1, <2>2, <2>3 DEF AudioMarks
<1>4. ResultMarks
  <2>1. \A lo, hi : Inside(<<>>, lo, hi)
    BY InsideEmpty
  <2>2. /\ conn.down = <<>> /\ out = <<>> /\ got = <<>> /\ rcv.at = "recv"
        /\ Origin \in Results /\ NotLater(Origin, Origin) /\ NotLater(Origin, Newest)
    BY DEF NewConnection, NewReceiver, NotLater, Origin, Newest, Results
  <2> HIDE DEF Init
  <2> QED
    BY <2>1, <2>2 DEF ResultMarks
<1>5. EndsMarked /\ LeftForAReason /\ Books /\ Redials
  BY DEF EndsMarked, LeftForAReason, Books, Redials, NewSender, NoError
<1>6. ReconnectsAsConfigured
  <2>1. conn.n = 1 /\ counts.retries = 0 /\ 0 <= MaxRetries
    BY StreamAssumption DEF NewConnection, Zero
  <2> QED
    BY <2>1 DEF ReconnectsAsConfigured
<1> QED
  BY <1>1, <1>2, <1>3, <1>4, <1>5, <1>6 DEF IInv

(* Every step keeps the invariant.                                         *)
LEMMA StepIInv == IInv /\ [Next]_vars => IInv'
<1> SUFFICES ASSUME IInv, [Next]_vars PROVE IInv'
  OBVIOUS
<1>1. TypeOK' /\ InPlace' /\ LoopsLeft'
  BY StepTypes, StepInPlace, StepLoopsLeft DEF IInv
<1>2. AudioMarks' /\ ResultMarks'
  BY StepAudio, StepResults DEF IInv
<1>3. EndsMarked' /\ LeftForAReason' /\ Books' /\ Redials' /\ ReconnectsAsConfigured'
  BY StepEnds, StepReasons, StepBooks, StepReconnects DEF IInv
<1> QED
  BY <1>1, <1>2, <1>3 DEF IInv

(* The invariant holds of a stream over all its connections, whatever the  *)
(* worker does and whenever the session ends.                              *)
THEOREM AIStreamIInv == Spec => []IInv
<1> QED
  BY InitIInv, StepIInv, PTL DEF Spec

(* The marks put the chunks of all places into one order.                  *)
LEMMA MarksOrderAudio == IInv => AudioInOrder
<1> SUFFICES ASSUME IInv PROVE AudioInOrder
  OBVIOUS
<1> DEFINE held == IF snd.at = "send" THEN <<snd.chunk>> ELSE <<>>
           rest == conn.up \o held \o queue \o audio
           Numbers(s) == [i \in DOMAIN s |-> s[i].n]
<1>1. /\ made \in Nat /\ heard \in Seq(Nat) /\ queue \in Seq(Chunks) /\ audio \in Seq(Chunks)
      /\ conn.up \in Seq(Chunks) /\ snd \in Senders
  BY TypeParts DEF IInv, SessionTyped, PairTyped, Connections
<1>2. PICK a, b, c, d \in 0..made :
        /\ a <= b /\ b <= c /\ c <= d
        /\ HeardUpTo(a)
        /\ Between(conn.up, a, b)
        /\ snd.at = "send" => b < snd.chunk.n /\ snd.chunk.n <= c
        /\ Between(queue, c, d)
        /\ Between(audio, d, made)
  BY DEF IInv, AudioMarks
<1>3. a \in Nat /\ b \in Nat /\ c \in Nat /\ d \in Nat /\ d <= made
  BY <1>1
<1>4. held \in Seq(Chunks) /\ Between(held, b, c)
  <2>1. CASE snd.at = "send"
    <3>1. snd.chunk \in Chunks /\ held = <<snd.chunk>>
      BY <1>1, <2>1 DEF IInv, InPlace, Senders
    <3>2. <<snd.chunk>> \in Seq(Chunks) /\ DOMAIN <<snd.chunk>> = {1} /\ <<snd.chunk>>[1] = snd.chunk
      BY <3>1
    <3>3. Between(<<snd.chunk>>, b, c)
      BY <1>2, <2>1, <3>2 DEF Between
    <3> QED
      BY <3>1, <3>2, <3>3
  <2>2. CASE snd.at # "send"
    <3>1. held = <<>> /\ <<>> \in Seq(Chunks)
      BY <2>2, EmptySeq
    <3> QED
      BY <3>1, BetweenEmpty
  <2> QED
    BY <2>1, <2>2
<1> HIDE DEF held
<1>5. conn.up \o held \in Seq(Chunks) /\ Between(conn.up \o held, a, c)
  BY <1>1, <1>2, <1>3, <1>4, ChunksMeet
<1>6. a <= c /\ a <= d
  BY <1>2, <1>3
<1>7. conn.up \o held \o queue \in Seq(Chunks) /\ Between(conn.up \o held \o queue, a, d)
  BY <1>1, <1>2, <1>3, <1>5, <1>6, ChunksMeet
<1>8. rest \in Seq(Chunks) /\ Between(rest, a, made)
  BY <1>1, <1>2, <1>3, <1>6, <1>7, ChunksMeet
<1> HIDE DEF rest
<1>9. /\ Len(rest) \in Nat /\ Len(heard) \in Nat /\ DOMAIN rest = 1..Len(rest)
      /\ DOMAIN heard = 1..Len(heard)
      /\ \A i \in 1..Len(rest) : rest[i].n \in Nat
      /\ \A i \in 1..Len(heard) : heard[i] \in Nat
  <2>1. \A i \in 1..Len(rest) : rest[i] \in Chunks
    BY <1>8
  <2>2. \A x \in Chunks : x.n \in Nat
    BY DEF Chunks
  <2> QED
    BY <1>1, <1>8, <2>1, <2>2
<1>10. Numbers(rest) \in Seq(Nat) /\ Len(Numbers(rest)) = Len(rest)
  <2>1. Numbers(rest) \in [1..Len(rest) -> Nat]
    BY <1>9
  <2> QED
    BY <1>9, <2>1
<1> DEFINE all == heard \o Numbers(rest)
<1>11. /\ DOMAIN all = 1..Len(heard) + Len(rest)
       /\ \A i \in DOMAIN all :
            \/ i \in 1..Len(heard) /\ all[i] = heard[i]
            \/ i - Len(heard) \in 1..Len(rest) /\ all[i] = rest[i - Len(heard)].n
  <2>1. /\ all \in Seq(Nat) /\ Len(all) = Len(heard) + Len(rest)
        /\ \A i \in 1..Len(heard) + Len(rest) :
             all[i] = IF i <= Len(heard) THEN heard[i] ELSE Numbers(rest)[i - Len(heard)]
    <3>1. ASSUME NEW t \in Seq(Nat)
          PROVE  /\ heard \o t \in Seq(Nat) /\ Len(heard \o t) = Len(heard) + Len(t)
                 /\ \A i \in 1..Len(heard) + Len(t) :
                      (heard \o t)[i] = IF i <= Len(heard) THEN heard[i] ELSE t[i - Len(heard)]
      BY <1>1, <3>1, ConcatProperties
    <3> HIDE DEF Numbers
    <3>2. /\ heard \o Numbers(rest) \in Seq(Nat)
          /\ Len(heard \o Numbers(rest)) = Len(heard) + Len(Numbers(rest))
          /\ \A i \in 1..Len(heard) + Len(Numbers(rest)) :
               (heard \o Numbers(rest))[i]
                 = IF i <= Len(heard) THEN heard[i] ELSE Numbers(rest)[i - Len(heard)]
      BY <1>10, <3>1
    <3> QED
      BY <1>10, <3>2
  <2>2. \A i \in 1..Len(rest) : Numbers(rest)[i] = rest[i].n
    BY <1>9
  <2> HIDE DEF all, Numbers
  <2>3. DOMAIN all = 1..Len(heard) + Len(rest)
    BY <1>9, <2>1
  <2>4. \A i \in 1..Len(heard) + Len(rest) : i \in 1..Len(heard) \/ i - Len(heard) \in 1..Len(rest)
    BY <1>9
  <2>5. \A i \in 1..Len(heard) : i <= Len(heard)
    BY <1>9
  <2>6. \A i \in 1..Len(heard) + Len(rest) : ~(i <= Len(heard)) => i - Len(heard) \in 1..Len(rest)
    BY <1>9
  <2>7. \A i \in 1..Len(heard) + Len(rest) : i <= Len(heard) => i \in 1..Len(heard)
    BY <1>9
  <2> QED
    BY <2>1, <2>2, <2>3, <2>6, <2>7
<1> HIDE DEF all
<1>12. ASSUME NEW i \in DOMAIN all, NEW j \in DOMAIN all, i < j PROVE all[i] < all[j]
  <2>1. CASE j \in 1..Len(heard) /\ all[j] = heard[j]
    <3>1. i \in 1..Len(heard) /\ i <= Len(heard)
      BY <1>9, <1>11, <1>12, <2>1
    <3>2. all[i] = heard[i]
      BY <1>9, <1>11, <3>1
    <3> QED
      BY <1>2, <1>9, <1>12, <2>1, <3>1, <3>2 DEF HeardUpTo
  <2>2. CASE j - Len(heard) \in 1..Len(rest) /\ all[j] = rest[j - Len(heard)].n
    <3>1. CASE i \in 1..Len(heard) /\ all[i] = heard[i]
      <4>1. heard[i] <= a /\ a < rest[j - Len(heard)].n
        BY <1>2, <1>8, <1>9, <2>2, <3>1 DEF HeardUpTo, Between
      <4> QED
        BY <1>3, <1>9, <2>2, <3>1, <4>1
    <3>2. CASE i - Len(heard) \in 1..Len(rest) /\ all[i] = rest[i - Len(heard)].n
      <4>1. i - Len(heard) < j - Len(heard)
        BY <1>9, <1>11, <1>12
      <4> QED
        BY <1>8, <1>9, <2>2, <3>2, <4>1 DEF Between
    <3> QED
      BY <1>11, <3>1, <3>2
  <2> QED
    BY <1>11, <2>1, <2>2
<1> QED
  BY <1>12 DEF AudioInOrder, Increasing, all, rest, held

(* The marks put the results of all places into one order.                 *)
LEMMA MarksOrderResults == IInv => ResultsInOrder
<1> SUFFICES ASSUME IInv PROVE ResultsInOrder
  OBVIOUS
<1> DEFINE hand == InHand(rcv.result)
<1>1. /\ got \in Seq(Results) /\ out \in Seq(Results) /\ conn.down \in Seq(Results)
      /\ Newest \in Results /\ Origin \in Results /\ rcv \in Receivers
  BY TypeParts DEF IInv, SessionTyped, PairTyped, Connections, Newest, Origin, Results
<1>2. PICK a, b, c \in Results :
        /\ NotLater(a, b) /\ NotLater(b, c) /\ NotLater(c, Newest)
        /\ Inside(got, Origin, a)
        /\ Inside(out, a, b)
        /\ rcv.at = "offer" => Earlier(b, rcv.result) /\ NotLater(rcv.result, c)
        /\ Inside(conn.down, c, Newest)
  BY DEF IInv, ResultMarks
<1>3. NotLater(Origin, a)
  BY DEF NotLater, Origin, Results
<1>4. NotLater(Origin, b) /\ NotLater(Origin, c)
  BY <1>1, <1>2, <1>3, ResultOrder
<1>5. hand \in Seq(Results) /\ Inside(hand, b, c)
  <2>1. CASE rcv.at = "offer"
    <3>1. rcv.result \in Results /\ hand = <<rcv.result>>
      BY <1>1, <2>1 DEF IInv, InPlace, Receivers, InHand
    <3>2. <<rcv.result>> \in Seq(Results) /\ DOMAIN <<rcv.result>> = {1}
          /\ <<rcv.result>>[1] = rcv.result
      BY <3>1
    <3>3. Inside(<<rcv.result>>, b, c)
      BY <1>2, <2>1, <3>2 DEF Inside
    <3> QED
      BY <3>1, <3>2, <3>3
  <2>2. CASE rcv.at # "offer"
    <3>1. hand = <<>> /\ <<>> \in Seq(Results)
      BY <2>2, EmptySeq DEF IInv, InPlace, InHand
    <3> QED
      BY <3>1, InsideEmpty
  <2> QED
    BY <2>1, <2>2
<1> HIDE DEF hand
<1>6. got \o out \in Seq(Results) /\ Inside(got \o out, Origin, b)
  BY <1>1, <1>2, <1>3, ResultsMeet
<1>7. got \o out \o hand \in Seq(Results) /\ Inside(got \o out \o hand, Origin, c)
  BY <1>1, <1>2, <1>4, <1>5, <1>6, ResultsMeet
<1>8. Inside(got \o out \o hand \o conn.down, Origin, Newest)
  BY <1>1, <1>2, <1>4, <1>7, ResultsMeet
<1>9. \A i, j \in DOMAIN ResultsOnTheirWay :
        i < j => Earlier(ResultsOnTheirWay[i], ResultsOnTheirWay[j])
  BY <1>8 DEF Inside, ResultsOnTheirWay, hand
<1> QED
  BY <1>9 DEF ResultsInOrder, Increasing, Earlier

(* The books of the reaper and the manager's sum of them.                  *)
LEMMA BooksComplete == IInv => StatsComplete
<1> SUFFICES ASSUME IInv PROVE StatsComplete
  OBVIOUS
<1>1. /\ counts \in Counters /\ totals \in Counters
      /\ sup \in {"pair", "backoff", "returned", "counted", "reaped"}
  BY TypeParts DEF IInv, CountsTyped
<1>2. \A k \in DOMAIN counts : counts[k] \in Nat /\ totals[k] \in Nat
  BY <1>1 DEF Counters
<1>3. CASE sup \in {"pair", "backoff", "returned"}
  BY <1>2, <1>3 DEF IInv, Books, StatsComplete, Stats
<1>4. CASE sup \in {"counted", "reaped"}
  BY <1>2, <1>4 DEF IInv, Books, StatsComplete, Stats
<1> QED
  BY <1>1, <1>3, <1>4

(* A stream's audio and results keep their order over all its connections, *)
(* however the goroutines of its pairs interleave, and Manager.Stats has   *)
(* its errors and retries at every point of its reaping.                   *)
THEOREM OrderIsKept == Spec => []AIStreamInv
<1>1. IInv => AIStreamInv
  BY MarksOrderAudio, MarksOrderResults, BooksComplete DEF AIStreamInv, IInv
<1> QED
  BY <1>1, AIStreamIInv, PTL

(* runWithReconnect gives a stream of an open session up only when all     *)
(* retries are used, the worker cannot be dialled, or a Send timed out.    *)
THEOREM GivenUpForAReason == Spec => []ReconnectsAsConfigured
<1>1. IInv => ReconnectsAsConfigured
  BY DEF IInv
<1> QED
  BY <1>1, AIStreamIInv, PTL

-----------------------------------------------------------------------------
(* Final results.                                                          *)

(* While the session is open no chunk on its way to the worker is the last *)
(* one, and the worker has numbered one partial and one final result after *)
(* every so many chunks.                                                   *)
Tally ==
  ctx = "live" =>
    /\ \A i \in DOMAIN conn.up : ~conn.up[i].end
    /\ conn.seq = conn.chunks \div PartialEvery + conn.chunks \div FinalEvery

(* One more chunk: a quotient grows where the remainder is zero.           *)
LEMMA DivStep ==
  ASSUME NEW k \in Nat, NEW d \in Nat \ {0}
  PROVE  /\ k \div d \in Nat
         /\ (k + 1) \div d = IF (k + 1) % d = 0 THEN (k \div d) + 1 ELSE k \div d
<1> DEFINE q == k \div d
           r == k % d
           p == (k + 1) \div d
           s == (k + 1) % d
<1>1. q \in Int /\ r \in Int /\ 0 <= r /\ r < d /\ k = d * q + r
  OBVIOUS
<1>2. p \in Int /\ s \in Int /\ 0 <= s /\ s < d /\ k + 1 = d * p + s
  OBVIOUS
<1> HIDE DEF p, q, r, s
<1>3. d * (p - q) = r + 1 - s /\ d \in Int /\ d >= 1
  BY <1>1, <1>2
<1>4. q >= 0
  <2>1. SUFFICES ASSUME q <= -1 PROVE FALSE
    BY <1>1
  <2>2. d * q <= d * (-1)
    BY <1>1, <1>3, <2>1
  <2> QED
    BY <1>1, <1>3, <2>2
<1> DEFINE e == p - q
<1>5. e \in Int /\ d * e = r + 1 - s /\ p = q + e
  BY <1>1, <1>2, <1>3
<1> HIDE DEF e
<1>6. e = 0 \/ e = 1
  <2>1. e <= 1
    <3>1. SUFFICES ASSUME e >= 2 PROVE FALSE
      BY <1>5
    <3>2. d * e >= d * 2
      BY <1>3, <1>5, <3>1
    <3> QED
      BY <1>1, <1>2, <1>3, <1>5, <3>2
  <2>2. e >= 0
    <3>1. SUFFICES ASSUME e <= -1 PROVE FALSE
      BY <1>5
    <3>2. d * e <= d * (-1)
      BY <1>3, <1>5, <3>1
    <3> QED
      BY <1>1, <1>2, <1>3, <1>5, <3>2
  <2> QED
    BY <1>5, <2>1, <2>2
<1>7. e = 1 <=> s = 0
  <2>1. CASE e = 0
    BY <1>1, <1>3, <1>5, <2>1
  <2>2. CASE e = 1
    BY <1>1, <1>2, <1>3, <1>5, <2>2
  <2> QED
    BY <1>6, <2>1, <2>2
<1>8. q \in Nat /\ p = IF s = 0 THEN q + 1 ELSE q
  BY <1>1, <1>4, <1>5, <1>6, <1>7
<1> QED
  BY <1>8 DEF p, q, s

(* The final results of two sequences, one after the other.                *)
LEMMA FinalsJoin ==
  ASSUME NEW n, NEW s \in Seq(Results), NEW t \in Seq(Results)
  PROVE  s \o t \in Seq(Results) /\ FinalsOf(n, s \o t) = FinalsOf(n, s) \cup FinalsOf(n, t)
<1> DEFINE u == s \o t
<1>1. /\ u \in Seq(Results) /\ DOMAIN u = 1..Len(s) + Len(t)
      /\ \A i \in 1..Len(s) + Len(t) : u[i] = IF i <= Len(s) THEN s[i] ELSE t[i - Len(s)]
  BY ConcatProperties
<1>2. Len(s) \in Nat /\ Len(t) \in Nat /\ DOMAIN s = 1..Len(s) /\ DOMAIN t = 1..Len(t)
  OBVIOUS
<1> HIDE DEF u
<1>3. \A i \in DOMAIN u : \/ i \in DOMAIN s /\ u[i] = s[i]
                          \/ i - Len(s) \in DOMAIN t /\ u[i] = t[i - Len(s)]
  BY <1>1, <1>2
<1>4. \A i \in DOMAIN s : i \in DOMAIN u /\ u[i] = s[i]
  BY <1>1, <1>2
<1>5. \A i \in DOMAIN t : i + Len(s) \in DOMAIN u /\ u[i + Len(s)] = t[i]
  BY <1>1, <1>2
<1>6. FinalsOf(n, u) \subseteq FinalsOf(n, s) \cup FinalsOf(n, t)
  BY <1>3 DEF FinalsOf
<1>7. FinalsOf(n, s) \subseteq FinalsOf(n, u) /\ FinalsOf(n, t) \subseteq FinalsOf(n, u)
  BY <1>4, <1>5 DEF FinalsOf
<1> QED
  BY <1>1, <1>6, <1>7 DEF u

(* The final results of at most one.                                       *)
LEMMA FinalOfOne ==
  ASSUME NEW n, NEW r \in Results
  PROVE  /\ FinalsOf(n, <<r>>) = IF r.conn = n /\ r.final THEN {r} ELSE {}
         /\ FinalsOf(n, <<>>) = {}
<1>1. DOMAIN <<r>> = {1} /\ <<r>>[1] = r
  OBVIOUS
<1>2. FinalsOf(n, <<r>>) = IF r.conn = n /\ r.final THEN {r} ELSE {}
  BY <1>1 DEF FinalsOf
<1>3. FinalsOf(n, <<>>) = {}
  BY DEF FinalsOf
<1> QED
  BY <1>2, <1>3

(* The final results of a sequence: its first one and the rest.            *)
LEMMA FinalsTaken ==
  ASSUME NEW n, NEW s \in Seq(Results), s # <<>>
  PROVE  /\ Head(s) \in Results /\ Tail(s) \in Seq(Results)
         /\ FinalsOf(n, s) = FinalsOf(n, <<Head(s)>>) \cup FinalsOf(n, Tail(s))
<1>1. /\ Head(s) \in Results /\ Tail(s) \in Seq(Results) /\ Len(Tail(s)) = Len(s) - 1
      /\ \A i \in 1..Len(Tail(s)) : Tail(s)[i] = s[i + 1]
  BY HeadTailProperties
<1>2. Head(s) = s[1] /\ 1 \in DOMAIN s /\ DOMAIN s = 1..Len(s) /\ Len(s) \in Nat
  OBVIOUS
<1> DEFINE h == <<Head(s)>>
           t == Tail(s)
<1>3. DOMAIN h = {1} /\ h[1] = s[1]
  BY <1>2
<1>4. DOMAIN t = 1..Len(s) - 1
  BY <1>1, <1>2
<1> HIDE DEF h, t
<1>5. \A i \in DOMAIN t : i + 1 \in DOMAIN s /\ t[i] = s[i + 1]
  BY <1>1, <1>2, <1>4 DEF t
<1>6. \A i \in DOMAIN s : i = 1 \/ (i - 1 \in DOMAIN t /\ s[i] = t[i - 1])
  <2>1. \A i \in DOMAIN s : i = 1 \/ (i - 1 \in DOMAIN t /\ (i - 1) + 1 = i)
    BY <1>2, <1>4
  <2> QED
    BY <1>5, <2>1
<1>7. FinalsOf(n, s) \subseteq FinalsOf(n, h) \cup FinalsOf(n, t)
  BY <1>3, <1>6 DEF FinalsOf
<1>8. FinalsOf(n, h) \subseteq FinalsOf(n, s) /\ FinalsOf(n, t) \subseteq FinalsOf(n, s)
  BY <1>2, <1>3, <1>5 DEF FinalsOf
<1> QED
  BY <1>1, <1>7, <1>8 DEF h, t

(* The final results on their way, place by place.                         *)
FinalsAt(n) ==
  FinalsOf(n, got) \cup FinalsOf(n, out) \cup FinalsOf(n, InHand(rcv.result))
    \cup FinalsOf(n, conn.down)

LEMMA FinalsByPlace ==
  TypeOK => \A n : FinalsOf(n, ResultsOnTheirWay) = FinalsAt(n)
<1> SUFFICES ASSUME TypeOK, NEW n PROVE FinalsOf(n, ResultsOnTheirWay) = FinalsAt(n)
  OBVIOUS
<1> DEFINE hand == InHand(rcv.result)
<1>1. /\ got \in Seq(Results) /\ out \in Seq(Results) /\ conn.down \in Seq(Results)
      /\ rcv.result \in Results \cup {None}
  BY DEF TypeOK, Connections
<1>2. hand \in Seq(Results)
  <2>1. \A r \in Results : <<r>> \in Seq(Results)
    OBVIOUS
  <2> QED
    BY <1>1, <2>1, EmptySeq DEF InHand
<1> HIDE DEF hand
<1>3. got \o out \in Seq(Results) /\ FinalsOf(n, got \o out) = FinalsOf(n, got) \cup FinalsOf(n, out)
  BY <1>1, FinalsJoin
<1>4. /\ got \o out \o hand \in Seq(Results)
      /\ FinalsOf(n, got \o out \o hand) = FinalsOf(n, got \o out) \cup FinalsOf(n, hand)
  BY <1>2, <1>3, FinalsJoin
<1> DEFINE v == got \o out \o hand
           d == conn.down
<1>5. v \in Seq(Results) /\ d \in Seq(Results)
  BY <1>1, <1>4
<1> HIDE DEF v, d
<1>6. FinalsOf(n, v \o d) = FinalsOf(n, v) \cup FinalsOf(n, d)
  BY <1>5, FinalsJoin
<1>7. FinalsOf(n, v) = FinalsOf(n, got) \cup FinalsOf(n, out) \cup FinalsOf(n, hand)
  BY <1>3, <1>4 DEF v
<1>8. ResultsOnTheirWay = v \o d
  BY DEF ResultsOnTheirWay, hand, v, d
<1>9. FinalsAt(n) = FinalsOf(n, v) \cup FinalsOf(n, d)
  BY <1>7 DEF FinalsAt, hand, d
<1> QED
  BY <1>6, <1>8, <1>9

(* What the worker answers to a chunk that is not the last one.            *)
LEMMA AnswersGiven ==
  ASSUME NEW k \in Nat, conn.n \in Nat, conn.seq \in Nat,
         conn.seq = k \div PartialEvery + k \div FinalEvery
  PROVE  LET answers == Answers(k + 1, FALSE)
             seq == (k + 1) \div PartialEvery + (k + 1) \div FinalEvery
         IN /\ conn.seq + Len(answers) = seq
            /\ FinalsOf(conn.n, answers)
                 = IF (k + 1) % FinalEvery = 0
                   THEN {[conn |-> conn.n, seq |-> seq, final |-> TRUE]} ELSE {}
<1> DEFINE answers == Answers(k + 1, FALSE)
           partial == (k + 1) % PartialEvery = 0
           final == (k + 1) % FinalEvery = 0
           seq == (k + 1) \div PartialEvery + (k + 1) \div FinalEvery
           one == IF partial THEN <<FALSE>> ELSE <<>>
           two == IF final THEN <<TRUE>> ELSE <<>>
           finals == one \o two \o <<>>
<1>1. /\ k \div PartialEvery \in Nat /\ k \div FinalEvery \in Nat
      /\ (k + 1) \div PartialEvery = IF partial THEN (k \div PartialEvery) + 1 ELSE k \div PartialEvery
      /\ (k + 1) \div FinalEvery = IF final THEN (k \div FinalEvery) + 1 ELSE k \div FinalEvery
  <2>1. PartialEvery \in Nat \ {0} /\ FinalEvery \in Nat \ {0}
    BY StreamAssumption
  <2> QED
    BY <2>1, DivStep
<1>2. answers = [j \in DOMAIN finals |-> [conn |-> conn.n, seq |-> conn.seq + j, final |-> finals[j]]]
  BY DEF Answers
<1> HIDE DEF answers
<1>3. /\ DOMAIN finals = 1..Len(one) + Len(two)
      /\ \A j \in 1..Len(one) + Len(two) : finals[j] = IF j <= Len(one) THEN one[j] ELSE two[j - Len(one)]
  <2>1. one \in Seq(BOOLEAN) /\ two \in Seq(BOOLEAN)
    <3>1. <<FALSE>> \in Seq(BOOLEAN) /\ <<TRUE>> \in Seq(BOOLEAN) /\ <<>> \in Seq(BOOLEAN)
      OBVIOUS
    <3> QED
      BY <3>1, Zenon
  <2> HIDE DEF one, two
  <2>2. /\ one \o two \in Seq(BOOLEAN) /\ DOMAIN (one \o two) = 1..Len(one) + Len(two)
        /\ \A j \in 1..Len(one) + Len(two) :
             (one \o two)[j] = IF j <= Len(one) THEN one[j] ELSE two[j - Len(one)]
    BY <2>1, ConcatProperties
  <2>3. finals = one \o two
    BY <2>2, ConcatEmptySeq
  <2> QED
    BY <2>2, <2>3
<1>4. /\ partial => Len(one) = 1 /\ one[1] = FALSE
      /\ ~partial => Len(one) = 0
      /\ final => Len(two) = 1 /\ two[1] = TRUE
      /\ ~final => Len(two) = 0
  OBVIOUS
<1> HIDE DEF finals, one, two
<1>5. seq = conn.seq + (IF partial THEN 1 ELSE 0) + (IF final THEN 1 ELSE 0)
  BY <1>1
<1> HIDE DEF partial, final, seq
<1> DEFINE m == Len(one) + Len(two)
<1>6. \A j \in 1..m : answers[j] = [conn |-> conn.n, seq |-> conn.seq + j, final |-> finals[j]]
  BY <1>2, <1>3
<1>7. m \in Nat => DOMAIN answers = 1..m /\ Len(answers) = m
  BY <1>2, <1>3
<1>8. CASE partial /\ final
  <2>1. m = 2 /\ Len(one) = 1 /\ Len(two) = 1
    <3>1. Len(one) = 1
      BY <1>4, <1>8
    <3>2. Len(two) = 1
      BY <1>4, <1>8
    <3> QED
      BY <3>1, <3>2
  <2>2. DOMAIN answers = 1..2 /\ Len(answers) = 2
    BY <1>7, <2>1
  <2>3. 1 \in 1..m /\ finals[1] = FALSE
    <3>1. 1 \in 1..m
      BY <2>1
    <3>2. finals[1] = one[1]
      BY <1>3, <2>1, <3>1
    <3> QED
      BY <1>4, <1>8, <3>1, <3>2
  <2>4. answers[1] = [conn |-> conn.n, seq |-> conn.seq + 1, final |-> FALSE]
    BY <1>6, <2>3
  <2>5. 2 \in 1..m /\ finals[2] = TRUE
    <3>1. 2 \in 1..m
      BY <2>1
    <3>2. finals[2] = two[1]
      BY <1>3, <2>1, <3>1
    <3> QED
      BY <1>4, <1>8, <3>1, <3>2
  <2>6. answers[2] = [conn |-> conn.n, seq |-> conn.seq + 2, final |-> TRUE]
    BY <1>6, <2>5
  <2>7. FinalsOf(conn.n, answers) = {answers[2]}
    <3>1. {i \in DOMAIN answers : answers[i].conn = conn.n /\ answers[i].final} = {2}
      BY <2>2, <2>4, <2>6
    <3> QED
      BY <3>1 DEF FinalsOf
  <2>8. seq = conn.seq + 2
    BY <1>5, <1>8
  <2> QED
    BY <1>8, <2>2, <2>4, <2>6, <2>7, <2>8 DEF answers, final, seq
<1>9. CASE partial /\ ~final
  <2>1. m = 1 /\ Len(one) = 1 /\ Len(two) = 0
    BY <1>4, <1>9
  <2>2. DOMAIN answers = 1..1 /\ Len(answers) = 1
    BY <1>7, <2>1
  <2>3. 1 \in 1..m /\ finals[1] = FALSE
    <3>1. 1 \in 1..m
      BY <2>1
    <3>2. finals[1] = one[1]
      BY <1>3, <2>1, <3>1
    <3> QED
      BY <1>4, <1>9, <3>1, <3>2
  <2>4. answers[1] = [conn |-> conn.n, seq |-> conn.seq + 1, final |-> FALSE]
    BY <1>6, <2>3
  <2>5. FinalsOf(conn.n, answers) = {}
    BY <2>2, <2>4 DEF FinalsOf
  <2>6. seq = conn.seq + 1
    BY <1>5, <1>9
  <2> QED
    BY <1>9, <2>2, <2>4, <2>5, <2>6 DEF answers, final, seq
<1>10. CASE ~partial /\ final
  <2>1. m = 1 /\ Len(one) = 0 /\ Len(two) = 1
    BY <1>4, <1>10
  <2>2. DOMAIN answers = 1..1 /\ Len(answers) = 1
    BY <1>7, <2>1
  <2>3. 1 \in 1..m /\ finals[1] = TRUE
    <3>1. 1 \in 1..m
      BY <2>1
    <3>2. finals[1] = two[1]
      BY <1>3, <2>1, <3>1
    <3> QED
      BY <1>4, <1>10, <3>1, <3>2
  <2>4. answers[1] = [conn |-> conn.n, seq |-> conn.seq + 1, final |-> TRUE]
    BY <1>6, <2>3
  <2>5. FinalsOf(conn.n, answers) = {answers[1]}
    <3>1. {i \in DOMAIN answers : answers[i].conn = conn.n /\ answers[i].final} = {1}
      BY <2>2, <2>4
    <3> QED
      BY <3>1 DEF FinalsOf
  <2>6. seq = conn.seq + 1
    BY <1>5, <1>10
  <2> QED
    BY <1>10, <2>2, <2>4, <2>5, <2>6 DEF answers, final, seq
<1>11. CASE ~partial /\ ~final
  <2>1. m = 0 /\ Len(one) = 0 /\ Len(two) = 0
    BY <1>4, <1>11
  <2>2. DOMAIN answers = 1..0 /\ Len(answers) = 0
    BY <1>7, <2>1
  <2>3. FinalsOf(conn.n, answers) = {}
    BY <2>2 DEF FinalsOf
  <2>4. seq = conn.seq + 0
    BY <1>5, <1>11
  <2> QED
    BY <1>11, <2>2, <2>3, <2>4 DEF answers, final, seq
<1> QED
  BY <1>8, <1>9, <1>10, <1>11

(* Every step keeps the tally.                                             *)
LEMMA StepTally == IInv /\ Tally /\ [Next]_vars => Tally'
<1> SUFFICES ASSUME IInv, Tally, [Next]_vars, ctx' = "live" PROVE Tally'
  BY DEF Tally
<1>0. conn \in Connections /\ snd \in Senders /\ ctx \in {"live", "expired", "closed"}
  BY TypeParts DEF IInv, PairTyped, SessionTyped
<1>1. ctx = "live"
  <2>1. ctx' = ctx \/ ctx' # "live"
    BY DEF Next, GatewayStep, SessionStep, MakeChunk, ContextEnds, StreamTimesOut, SessionCloses,
           PumpTakes, ForwarderStep,
           SenderStep, ReceiverStep, WorkerStep, SupervisorStep, sessionVars, vars
  <2> QED
    BY <1>0, <2>1
<1>2. /\ conn.up \in Seq(Chunks) /\ conn.n \in Nat /\ conn.seq \in Nat /\ conn.chunks \in Nat
      /\ \A i \in DOMAIN conn.up : ~conn.up[i].end
      /\ conn.seq = conn.chunks \div PartialEvery + conn.chunks \div FinalEvery
  BY <1>0, <1>1 DEF Tally, Connections
<1>3. CASE conn'.up = conn.up /\ conn'.seq = conn.seq /\ conn'.chunks = conn.chunks
  BY <1>2, <1>3 DEF Tally
<1>4. CASE SenderStep
  <2>1. CASE snd.at = "send" /\ Transmit
    <3>1. /\ conn'.up = Append(conn.up, snd.chunk)
          /\ conn'.seq = conn.seq /\ conn'.chunks = conn.chunks
      BY <1>0, <2>1 DEF Transmit, Connections
    <3>2. snd.chunk \in Chunks /\ ~snd.chunk.end
      BY <1>0, <1>1, <2>1 DEF IInv, InPlace, EndsMarked, Senders
    <3>3. \A i \in DOMAIN conn'.up : ~conn'.up[i].end
      <4>1. /\ DOMAIN conn'.up = 1..Len(conn.up) + 1
            /\ \A i \in 1..Len(conn.up) : conn'.up[i] = conn.up[i]
            /\ conn'.up[Len(conn.up) + 1] = snd.chunk
        BY <1>2, <3>1, <3>2, AppendProperties
      <4>2. Len(conn.up) \in Nat /\ DOMAIN conn.up = 1..Len(conn.up)
        BY <1>2
      <4>3. \A i \in 1..Len(conn.up) + 1 : i \in 1..Len(conn.up) \/ i = Len(conn.up) + 1
        BY <4>2
      <4> QED
        BY <1>2, <3>2, <4>1, <4>2, <4>3
    <3> QED
      BY <1>2, <3>1, <3>3 DEF Tally
  <2>2. CASE conn' = conn \/ conn' = [conn EXCEPT !.half = TRUE]
    <3>1. conn'.up = conn.up /\ conn'.seq = conn.seq /\ conn'.chunks = conn.chunks
      BY <1>0, <2>2 DEF Connections
    <3> QED
      BY <1>3, <3>1
  <2> QED
    BY <1>4, <2>1, <2>2 DEF SenderStep, SendLeaves, FirstChunkTimesOut, TakeChunk, Sent, SentNoted,
       SendFails, SendTimesOut, SendCancelled, CloseSend, SendCancelsPair
<1>5. CASE ReceiverStep
  <2>1. conn' = conn \/ conn' = [conn EXCEPT !.down = Tail(@)]
    BY <1>5 DEF ReceiverStep, RecvResult, Deliver, DropPartial, OfferCancelled, RecvFails,
                RecvIdles, RecvCancelled, RecvLeaves
  <2>2. conn'.up = conn.up /\ conn'.seq = conn.seq /\ conn'.chunks = conn.chunks
    BY <1>0, <2>1 DEF Connections
  <2> QED
    BY <1>3, <2>2
<1>6. CASE WorkerStep /\ WorkerTakes
  <2> DEFINE c == Head(conn.up)
             answers == Answers(conn.chunks + 1, c.end)
  <2>1. conn.up # <<>>
    BY <1>6 DEF WorkerTakes
  <2>2. c = conn.up[1] /\ 1 \in DOMAIN conn.up /\ c \in Chunks
        /\ \A i \in DOMAIN Tail(conn.up) : i + 1 \in DOMAIN conn.up /\ Tail(conn.up)[i] = conn.up[i + 1]
    BY <1>2, <2>1, TailElements
  <2>3. ~c.end
    BY <1>2, <2>2
  <2>4. c.end = FALSE
    BY <2>2, <2>3 DEF Chunks
  <2> HIDE DEF c
  <2>5. /\ conn'.up = Tail(conn.up) /\ conn'.chunks = conn.chunks + 1
        /\ conn'.seq = conn.seq + Len(answers)
    BY <1>0, <1>6 DEF WorkerTakes, Connections, c
  <2>6. conn'.seq = conn'.chunks \div PartialEvery + conn'.chunks \div FinalEvery
    BY <1>2, <2>4, <2>5, AnswersGiven
  <2> QED
    BY <1>2, <2>2, <2>5, <2>6 DEF Tally
<1>7. CASE WorkerStep /\ ~WorkerTakes
  <2>1. conn'.up = conn.up /\ conn'.seq = conn.seq /\ conn'.chunks = conn.chunks
    BY <1>0, <1>7 DEF WorkerStep, WorkerSeesEOF, WorkerQuits, WorkerBreaks, Connections
  <2> QED
    BY <1>3, <2>1
<1>8. CASE SupervisorStep
  <2>1. CASE Redial
    <3>1. conn'.up = <<>> /\ conn'.seq = 0 /\ conn'.chunks = 0
      BY <2>1 DEF Redial, NewConnection
    <3>2. 0 \div PartialEvery = 0 /\ 0 \div FinalEvery = 0
      BY StreamAssumption
    <3> QED
      BY <3>1, <3>2 DEF Tally
  <2>2. CASE ~Redial
    BY <1>3, <1>8, <2>2 DEF SupervisorStep, PairEnds, Retry, BackoffCancelled, RedialFails,
                        ReaperCounts, ReaperRemoves
  <2> QED
    BY <2>1, <2>2
<1>9. CASE SessionStep(PumpTakes) \/ SessionStep(MakeChunk) \/ SessionStep(ContextEnds)
           \/ ForwarderStep \/ UNCHANGED vars
  BY <1>3, <1>9 DEF SessionStep, ForwarderStep, vars
<1> QED
  BY <1>4, <1>5, <1>6, <1>7, <1>8, <1>9 DEF Next, GatewayStep

(* Results of a connection that was not yet dialled are nowhere.           *)
LEMMA FinalsNotBefore ==
  ASSUME TypeOK, InPlace, ResultMarks, NEW n \in Nat, conn.n < n
  PROVE  FinalsAt(n) = {}
<1>1. /\ got \in Seq(Results) /\ out \in Seq(Results) /\ conn.down \in Seq(Results)
      /\ conn.n \in Nat /\ Newest \in Results /\ Newest.conn = conn.n
      /\ rcv.result \in Results \cup {None} /\ None \notin Results
  BY StreamAssumption DEF TypeOK, Connections, Newest, Results
<1>2. PICK a, b, c \in Results :
        /\ NotLater(a, b) /\ NotLater(b, c) /\ NotLater(c, Newest)
        /\ Inside(got, Origin, a)
        /\ Inside(out, a, b)
        /\ rcv.at = "offer" => Earlier(b, rcv.result) /\ NotLater(rcv.result, c)
        /\ Inside(conn.down, c, Newest)
  BY DEF ResultMarks
<1>3. NotLater(b, Newest) /\ NotLater(a, Newest)
  BY <1>1, <1>2, ResultOrder
<1>4. \A r, t \in Results : NotLater(r, t) => r.conn <= t.conn
  BY DEF NotLater, Results
<1>5. \A r \in Results : NotLater(r, Newest) => r.conn # n
  <2>1. \A r \in Results : NotLater(r, Newest) => r.conn <= conn.n /\ r.conn \in Nat
    BY <1>1, <1>4 DEF Results
  <2> QED
    BY <1>1, <2>1
<1>6. ASSUME NEW s \in Seq(Results), NEW lo, NEW hi \in Results, Inside(s, lo, hi), NotLater(hi, Newest)
      PROVE  FinalsOf(n, s) = {}
  <2>1. \A i \in DOMAIN s : s[i] \in Results /\ NotLater(s[i], hi)
    BY <1>6 DEF Inside
  <2>2. \A i \in DOMAIN s : s[i].conn # n
    BY <1>1, <1>5, <1>6, <2>1, ResultOrder
  <2> QED
    BY <2>2 DEF FinalsOf
<1>7. FinalsOf(n, got) = {} /\ FinalsOf(n, out) = {}
  BY <1>1, <1>2, <1>3, <1>6
<1>8. FinalsOf(n, conn.down) = {}
  BY <1>1, <1>2, <1>6, ResultOrder
<1>9. FinalsOf(n, InHand(rcv.result)) = {}
  <2>1. CASE rcv.result = None
    BY <2>1 DEF InHand, FinalsOf
  <2>2. CASE rcv.result # None
    <3>1. rcv.at = "offer" /\ rcv.result \in Results
      BY <1>1, <2>2 DEF InPlace
    <3>2. rcv.result.conn # n
      BY <1>1, <1>2, <1>5, <3>1, ResultOrder
    <3>3. FinalsOf(n, <<rcv.result>>) = {}
      BY <3>1, <3>2, FinalOfOne
    <3> QED
      BY <2>2, <3>3 DEF InHand
  <2> QED
    BY <2>1, <2>2
<1> QED
  BY <1>7, <1>8, <1>9 DEF FinalsAt

(* A context that is not done was not done before, but for a new pair's.   *)
LEMMA PairGoesOn ==
  ASSUME TypeOK, [Next]_vars, ~PairDone', ~(SupervisorStep /\ Redial)
  PROVE  ~PairDone
<1>0. ctx \in {"live", "expired", "closed"} /\ st \in Shared
  BY TypeParts DEF SessionTyped, PairTyped
<1>1. ctx' = ctx \/ ctx' # "live"
  BY DEF Next, GatewayStep, SessionStep, MakeChunk, ContextEnds, StreamTimesOut, SessionCloses,
         PumpTakes, ForwarderStep,
         SenderStep, ReceiverStep, WorkerStep, SupervisorStep, sessionVars, vars
<1>2. st'.cancelled = st.cancelled \/ st'.cancelled
  <2>1. CASE UNCHANGED st
    BY <2>1
  <2>2. CASE SenderStep
    <3>1. \/ UNCHANGED st \/ st' = SetErr("first") \/ st' = SetErr("send")
          \/ st' = [st EXCEPT !.timedOut = TRUE] \/ st' = [st EXCEPT !.cancelled = TRUE]
      BY <2>2 DEF SenderStep, SendLeaves, FirstChunkTimesOut, TakeChunk, Sent, SentNoted,
         SendFails, SendTimesOut, SendCancelled, CloseSend, SendCancelsPair
    <3> QED
      BY <1>0, <3>1 DEF SetErr, Shared
  <2>3. CASE ReceiverStep
    <3>1. \/ UNCHANGED st
          \/ st' = [st EXCEPT !.cancelled = TRUE]
          \/ \E e \in Errors : st' = [SetErr(e) EXCEPT !.cancelled = TRUE]
      BY <2>3 DEF ReceiverStep, RecvResult, Deliver, DropPartial, OfferCancelled, RecvFails,
                  RecvIdles, RecvCancelled, RecvLeaves, Errors
    <3> QED
      BY <1>0, <3>1 DEF SetErr, Shared
  <2>4. CASE SupervisorStep
    <3>1. UNCHANGED st \/ st' = [st EXCEPT !.err = None] \/ st' = SetErr("dial")
      BY <2>4 DEF SupervisorStep, PairEnds, Retry, BackoffCancelled, RedialFails,
                  ReaperCounts, ReaperRemoves, pairVars
    <3> QED
      BY <1>0, <3>1 DEF SetErr, Shared
  <2>5. CASE \/ SessionStep(PumpTakes) \/ SessionStep(MakeChunk) \/ SessionStep(ContextEnds)
             \/ ForwarderStep \/ WorkerStep \/ UNCHANGED vars
    BY <2>1, <2>5 DEF SessionStep, ForwarderStep, WorkerStep, vars, pairVars
  <2> QED
    BY <2>2, <2>3, <2>4, <2>5 DEF Next, GatewayStep
<1> QED
  BY <1>0, <1>1, <1>2 DEF PairDone, Shared

(* The same of the connection there is.                                    *)
LEMMA FinalsHere == TypeOK => FinalsOf(conn.n, ResultsOnTheirWay) = FinalsAt(conn.n)
BY FinalsByPlace

(* Every step of a pair that goes on keeps the final results.              *)
LEMMA StepFinals == IInv /\ Tally /\ FinalsKept /\ [Next]_vars => FinalsKept'
<1> SUFFICES ASSUME IInv, Tally, FinalsKept, [Next]_vars, ~PairDone', conn'.state # "broken"
             PROVE  FinalsKept'
  BY DEF FinalsKept
<1>0. TypeOK' /\ TypeOK /\ conn \in Connections /\ rcv \in Receivers
  BY StepIInv, TypeParts DEF IInv, PairTyped
<1>1. /\ got \in Seq(Results) /\ out \in Seq(Results) /\ conn.down \in Seq(Results)
      /\ conn.n \in Nat /\ conn.seq \in Nat /\ conn.chunks \in Nat
  BY <1>0 DEF TypeOK, Connections
<1> SUFFICES FinalsAt(conn.n)' = FinalsGiven'
  <2>1. (TypeOK => FinalsOf(conn.n, ResultsOnTheirWay) = FinalsAt(conn.n))'
    BY FinalsHere, PTL
  <2> QED
    BY <1>0, <2>1 DEF FinalsKept
<1>2. CASE SupervisorStep /\ Redial
  <2>1. /\ conn'.n = conn.n + 1 /\ conn'.down = <<>> /\ conn'.chunks = 0
        /\ rcv'.result = None /\ UNCHANGED <<got, out>> /\ sup = "backoff"
    BY <1>2 DEF SupervisorStep, Redial, NewConnection, NewReceiver, sessionVars
  <2>2. FinalsAt(conn.n + 1) = {}
    BY <1>0, <1>1, FinalsNotBefore DEF IInv
  <2>3. FinalsOf(conn.n + 1, <<>>) = {}
    BY DEF FinalsOf
  <2>4. FinalsAt(conn.n)' = {}
    BY <2>1, <2>2, <2>3 DEF FinalsAt, InHand
  <2>5. FinalsGiven' = {}
    BY <2>1 DEF FinalsGiven
  <2> QED
    BY <2>4, <2>5
<1> SUFFICES ASSUME ~(SupervisorStep /\ Redial) PROVE FinalsAt(conn.n)' = FinalsGiven'
  BY <1>2
<1>3. ~PairDone
  BY <1>0, PairGoesOn
<1>4. conn.state # "broken" => FinalsAt(conn.n) = FinalsGiven
  BY <1>0, <1>3, FinalsByPlace DEF FinalsKept
<1>5. ASSUME UNCHANGED <<got, out>>, rcv'.result = rcv.result, conn.state # "broken",
             conn'.n = conn.n, conn'.down = conn.down, conn'.chunks = conn.chunks
      PROVE  FinalsAt(conn.n)' = FinalsGiven'
  BY <1>4, <1>5 DEF FinalsAt, FinalsGiven
<1>6. CASE SessionStep(PumpTakes)
  <2>1. /\ out # <<>> /\ out' = Tail(out) /\ got' = Append(got, Head(out))
        /\ UNCHANGED <<rcv, conn>>
    BY <1>6 DEF SessionStep, PumpTakes, pairVars
  <2>2. FinalsOf(conn.n, out) = FinalsOf(conn.n, <<Head(out)>>) \cup FinalsOf(conn.n, Tail(out))
        /\ Head(out) \in Results
    BY <1>1, <2>1, FinalsTaken
  <2>3. <<Head(out)>> \in Seq(Results) /\ got' = got \o <<Head(out)>>
    BY <1>1, <2>1, <2>2, AppendIsConcat
  <2>4. FinalsOf(conn.n, got') = FinalsOf(conn.n, got) \cup FinalsOf(conn.n, <<Head(out)>>)
    BY <1>1, <2>3, FinalsJoin
  <2>5. FinalsAt(conn.n)' = FinalsAt(conn.n) /\ FinalsGiven' = FinalsGiven
    BY <2>1, <2>2, <2>4 DEF FinalsAt, FinalsGiven
  <2>6. conn.state # "broken"
    BY <2>1
  <2> QED
    BY <1>4, <2>5, <2>6
<1>7. CASE SessionStep(MakeChunk) \/ SessionStep(ContextEnds) \/ ForwarderStep \/ UNCHANGED vars
  BY <1>5, <1>7 DEF SessionStep, MakeChunk, ContextEnds, StreamTimesOut, SessionCloses,
                    ForwarderStep, sessionVars, pairVars, vars
<1>8. CASE SenderStep
  <2>1. UNCHANGED <<got, out, rcv>>
    BY <1>8 DEF SenderStep, sessionVars
  <2>2. conn' = conn \/ conn' = [conn EXCEPT !.half = TRUE] \/ Transmit
    BY <1>8 DEF SenderStep, SendLeaves, FirstChunkTimesOut, TakeChunk, Sent, SentNoted, SendFails,
           SendTimesOut, SendCancelled, CloseSend, SendCancelsPair
  <2>3. /\ conn'.n = conn.n /\ conn'.down = conn.down /\ conn'.chunks = conn.chunks
        /\ conn'.state = conn.state
    BY <1>0, <2>2 DEF Transmit, Connections
  <2> QED
    BY <1>5, <2>1, <2>3
<1>9. CASE ReceiverStep
  <2>1. UNCHANGED got
    BY <1>9 DEF ReceiverStep, sessionVars
  <2>2. CASE RecvResult
    <3>1. /\ rcv.at = "recv" /\ conn.down # <<>> /\ rcv'.result = Head(conn.down)
          /\ conn'.n = conn.n /\ conn'.down = Tail(conn.down) /\ conn'.chunks = conn.chunks
          /\ conn'.state = conn.state /\ UNCHANGED out
      BY <1>0, <2>2 DEF RecvResult, Connections
    <3>2. rcv.result = None /\ InHand(rcv.result) = <<>>
      BY <3>1 DEF IInv, InPlace, InHand
    <3>3. FinalsOf(conn.n, conn.down) = FinalsOf(conn.n, <<Head(conn.down)>>) \cup FinalsOf(conn.n, Tail(conn.down))
          /\ Head(conn.down) \in Results
      BY <1>1, <3>1, FinalsTaken
    <3>4. InHand(rcv'.result) = <<Head(conn.down)>>
      BY <3>1, <3>3, StreamAssumption DEF InHand
    <3>5. FinalsOf(conn.n, <<>>) = {}
      BY DEF FinalsOf
    <3>6. FinalsAt(conn.n)' = FinalsAt(conn.n) /\ FinalsGiven' = FinalsGiven
      <4>1. FinalsAt(conn.n)' = FinalsOf(conn.n, got) \cup FinalsOf(conn.n, out)
              \cup FinalsOf(conn.n, <<Head(conn.down)>>) \cup FinalsOf(conn.n, Tail(conn.down))
        BY <2>1, <3>1, <3>4 DEF FinalsAt
      <4>2. FinalsAt(conn.n) = FinalsOf(conn.n, got) \cup FinalsOf(conn.n, out)
              \cup {} \cup FinalsOf(conn.n, conn.down)
        BY <3>2, <3>5 DEF FinalsAt
      <4> QED
        BY <3>1, <3>3, <4>1, <4>2 DEF FinalsGiven
    <3> QED
      BY <1>4, <3>1, <3>6
  <2>3. CASE Deliver
    <3>1. /\ rcv.at = "offer" /\ out' = Append(out, rcv.result) /\ rcv'.result = None
          /\ UNCHANGED conn
      BY <2>3 DEF Deliver, NewReceiver
    <3>2. rcv.result \in Results /\ InHand(rcv.result) = <<rcv.result>>
      BY <1>0, <3>1 DEF IInv, InPlace, Receivers, InHand
    <3>3. <<rcv.result>> \in Seq(Results) /\ out' = out \o <<rcv.result>>
      BY <1>1, <3>1, <3>2, AppendIsConcat
    <3>4. FinalsOf(conn.n, out') = FinalsOf(conn.n, out) \cup FinalsOf(conn.n, <<rcv.result>>)
      BY <1>1, <3>3, FinalsJoin
    <3>5. FinalsOf(conn.n, InHand(rcv.result)') = {}
      BY <3>1 DEF InHand, FinalsOf
    <3>6. FinalsAt(conn.n)' = FinalsAt(conn.n) /\ FinalsGiven' = FinalsGiven
      BY <2>1, <3>1, <3>2, <3>4, <3>5 DEF FinalsAt, FinalsGiven
    <3> QED
      BY <1>4, <3>1, <3>6
  <2>4. CASE DropPartial
    <3>1. /\ rcv.at = "offer" /\ ~rcv.result.final /\ rcv'.result = None
          /\ UNCHANGED <<out, conn>>
      BY <2>4 DEF DropPartial, NewReceiver
    <3>2. rcv.result \in Results /\ InHand(rcv.result) = <<rcv.result>>
      BY <1>0, <3>1 DEF IInv, InPlace, Receivers, InHand
    <3>3. FinalsOf(conn.n, InHand(rcv.result)) = {}
      BY <3>1, <3>2, FinalOfOne
    <3>4. FinalsOf(conn.n, InHand(rcv.result)') = {}
      BY <3>1 DEF InHand, FinalsOf
    <3>5. FinalsAt(conn.n)' = FinalsAt(conn.n) /\ FinalsGiven' = FinalsGiven
      BY <2>1, <3>1, <3>3, <3>4 DEF FinalsAt, FinalsGiven
    <3> QED
      BY <1>4, <3>1, <3>5
  <2>5. ~OfferCancelled
    BY <1>3 DEF OfferCancelled
  <2>6. ASSUME RecvFails \/ RecvIdles \/ RecvCancelled PROVE FALSE
    <3>1. \/ st' = [st EXCEPT !.cancelled = TRUE]
          \/ \E e \in Errors : st' = [SetErr(e) EXCEPT !.cancelled = TRUE]
      BY <2>6 DEF RecvFails, RecvIdles, RecvCancelled, RecvLeaves, Errors
    <3>2. st'.cancelled
      <4>1. st \in Shared
        BY <1>0, TypeParts DEF PairTyped
      <4> QED
        BY <3>1, <4>1 DEF SetErr, Shared
    <3> QED
      BY <3>2 DEF PairDone
  <2> QED
    BY <1>9, <2>2, <2>3, <2>4, <2>5, <2>6 DEF ReceiverStep
<1>10. CASE WorkerStep
  <2>1. UNCHANGED <<got, out, rcv>> /\ conn.state = "open"
    BY <1>10 DEF WorkerStep, sessionVars, pairVars
  <2>2. CASE WorkerTakes
    <3> DEFINE c == Head(conn.up)
               k == conn.chunks
               answers == Answers(k + 1, c.end)
    <3>1. c.end = FALSE /\ conn.seq = k \div PartialEvery + k \div FinalEvery
      <4>1. ctx = "live" /\ conn.up \in Seq(Chunks) /\ conn.up # <<>>
        BY <1>0, <1>3, <2>2, TypeParts DEF PairDone, WorkerTakes, Connections, SessionTyped
      <4>2. c = conn.up[1] /\ 1 \in DOMAIN conn.up /\ c \in Chunks
        BY <4>1, TailElements
      <4> QED
        BY <4>1, <4>2 DEF Tally, Chunks
    <3> HIDE DEF c
    <3>2. /\ conn'.n = conn.n /\ conn'.chunks = k + 1 /\ conn'.down = conn.down \o answers
      BY <1>0, <2>2 DEF WorkerTakes, Connections, c
    <3> DEFINE seq == (k + 1) \div PartialEvery + (k + 1) \div FinalEvery
               new == [conn |-> conn.n, seq |-> seq, final |-> TRUE]
    <3>3. /\ answers \in Seq(Results)
          /\ FinalsOf(conn.n, answers) = IF (k + 1) % FinalEvery = 0 THEN {new} ELSE {}
      BY <1>1, <3>1, AnswersGiven, AnswersFollow
    <3> HIDE DEF answers
    <3>4. FinalsOf(conn.n, conn'.down) = FinalsOf(conn.n, conn.down) \cup FinalsOf(conn.n, answers)
      BY <1>1, <3>2, <3>3, FinalsJoin
    <3>5. FinalsAt(conn.n)' = FinalsAt(conn.n) \cup FinalsOf(conn.n, answers)
      BY <2>1, <3>2, <3>4 DEF FinalsAt
    <3>6. FinalsGiven' = FinalsGiven \cup FinalsOf(conn.n, answers)
      <4> DEFINE R(j) == [conn |-> conn.n, seq |-> j \div PartialEvery + j \div FinalEvery, final |-> TRUE]
      <4>1. FinalsGiven = {R(j) : j \in {i \in 1..k : i % FinalEvery = 0}}
        BY DEF FinalsGiven
      <4>2. FinalsGiven' = {R(j) : j \in {i \in 1..k + 1 : i % FinalEvery = 0}}
        BY <3>2 DEF FinalsGiven
      <4>3. new = R(k + 1)
        OBVIOUS
      <4> HIDE DEF R
      <4>4. \A i : i \in 1..k + 1 <=> i \in 1..k \/ i = k + 1
        BY <1>1
      <4>5. k + 1 \in 1..k + 1
        BY <1>1
      <4> QED
        BY <3>3, <4>1, <4>2, <4>3, <4>4, <4>5
    <3> QED
      BY <1>4, <2>1, <3>5, <3>6
  <2>3. CASE WorkerSeesEOF \/ WorkerQuits
    <3>1. conn'.n = conn.n /\ conn'.down = conn.down /\ conn'.chunks = conn.chunks
      BY <1>0, <2>3 DEF WorkerSeesEOF, WorkerQuits, Connections
    <3> QED
      BY <1>5, <2>1, <3>1
  <2>4. ~WorkerBreaks
    <3>1. SUFFICES ASSUME WorkerBreaks PROVE FALSE
      OBVIOUS
    <3>2. conn'.state = "broken"
      BY <1>0, <3>1 DEF WorkerBreaks, Connections
    <3> QED
      BY <3>2
  <2> QED
    BY <1>10, <2>2, <2>3, <2>4 DEF WorkerStep
<1>11. CASE SupervisorStep
  <2>1. ~Redial
    BY <1>11
  <2>2. UNCHANGED <<got, out, rcv, conn>>
    BY <1>11, <2>1 DEF SupervisorStep, PairEnds, Retry, BackoffCancelled, RedialFails,
                      ReaperCounts, ReaperRemoves, sessionVars, pairVars
  <2> QED
    BY <1>5, <2>2
<1> QED
  BY <1>6, <1>7, <1>8, <1>9, <1>10, <1>11 DEF Next, GatewayStep

(* As long as a pair goes on and its connection holds, the final results   *)
(* the worker gave are delivered or on their way, for any queue capacity   *)
(* and however the receive loop and the result pump interleave.            *)
THEOREM FinalResultsKept == Spec => []FinalsKept
<1>1. Init => Tally /\ FinalsKept
  <2> SUFFICES ASSUME Init PROVE Tally /\ FinalsKept
    OBVIOUS
  <2>1. /\ conn.up = <<>> /\ conn.down = <<>> /\ conn.seq = 0 /\ conn.chunks = 0
        /\ got = <<>> /\ out = <<>> /\ rcv.result = None
    BY DEF Init, NewConnection, NewReceiver
  <2>2. 0 \div PartialEvery = 0 /\ 0 \div FinalEvery = 0
    BY StreamAssumption
  <2>3. Tally
    BY <2>1, <2>2 DEF Tally
  <2>4. FinalsAt(conn.n) = {}
    BY <2>1 DEF FinalsAt, FinalsOf, InHand
  <2>5. FinalsGiven = {}
    BY <2>1 DEF FinalsGiven
  <2>6. TypeOK
    BY InitIInv DEF IInv
  <2> QED
    BY <2>3, <2>4, <2>5, <2>6, FinalsByPlace DEF FinalsKept
<1> QED
  BY <1>1, AIStreamIInv, StepTally, StepFinals, PTL DEF Spec
=============================================================================
