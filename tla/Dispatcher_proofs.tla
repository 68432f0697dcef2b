-------------------------- MODULE Dispatcher_proofs --------------------------
(***************************************************************************)
(* Proofs about Dispatcher for any sniffing deadline and any number of     *)
(* chunks: its types, that the stream stays intact, that it is counted     *)
(* once and that nobody is left waiting.                                   *)
(*                                                                         *)
(* StreamIsIntact is not inductive: when the pipe was interrupted it says  *)
(* nothing of the cache, which the handler reads next.  InOrder does, and  *)
(* DroppedIsOver says that nothing follows it.  The types need the rest:   *)
(* the counter stays within MaxSent because no chunk is counted twice.     *)
(***************************************************************************)
EXTENDS Dispatcher, SequenceTheorems, TLAPS

(* What has been read is a prefix of what was sent. *)
InOrder == delivered \o cached = Upto(Len(delivered) + Len(cached))

(* As long as nothing was discarded, the pipe holds the rest. *)
PipeHasRest == ~dropped => delivered \o cached \o pipe = Upto(sent)

(* Where the connection goes on after an interrupt, the pipe is empty and takes
   no more. *)
DroppedIsOver == dropped /\ pc \notin {"failed", "refused"} => ended /\ pipe = <<>>

(* The sniffer goes on only while it has an attempt left. *)
AttemptLeft == pc \in {"idle", "sniff"} => attempts < MaxAttempts

StreamInv ==
    /\ TypeOK
    /\ InOrder /\ PipeHasRest /\ DroppedIsOver
    /\ AttemptLeft /\ CountedOnce /\ NobodyWaits

-----------------------------------------------------------------------------
(* Upto(n) has length n, and its elements are their indices. *)
LEMMA UptoLen ==
    ASSUME NEW n \in Nat
    PROVE  /\ Upto(n) \in Seq(Nat) /\ Len(Upto(n)) = n
           /\ \A i \in 1..n : Upto(n)[i] = i
  BY DEF Upto

(* The first part of a sequence that counts up counts up. *)
LEMMA UptoPrefix ==
    ASSUME NEW s \in Seq(Nat), NEW t \in Seq(Nat), NEW n \in Nat, s \o t = Upto(n)
    PROVE  s = Upto(Len(s)) /\ n = Len(s) + Len(t)
  <1>1. n = Len(s) + Len(t)
        BY UptoLen
  <1>2. \A i \in 1..Len(s) : s[i] = i
    <2> TAKE i \in 1..Len(s)
    <2>1. i \in 1..n
          BY <1>1
    <2>2. (s \o t)[i] = s[i]
          OBVIOUS
    <2> QED
        BY <2>1, <2>2, UptoLen
  <1>3. s = [i \in 1..Len(s) |-> s[i]]
        OBVIOUS
  <1> QED
      BY <1>1, <1>2, <1>3 DEF Upto

(* The next chunk continues the count. *)
LEMMA UptoAppend ==
    ASSUME NEW n \in Nat
    PROVE  Append(Upto(n), n + 1) = Upto(n + 1)
  BY UptoLen DEF Upto

(* Concatenation of sequences of numbers is associative. *)
LEMMA NatConcat ==
    \A s, t, u \in Seq(Nat) : (s \o t) \o u = s \o (t \o u)
  <1> TAKE s, t, u \in Seq(Nat)
  <1> QED
      BY ConcatAssociative

-----------------------------------------------------------------------------
(* What the invariant says of the three parts of the stream: they are
   sequences of numbers, what has been read counts up, and so does the whole
   as long as nothing was discarded. *)
LEMMA Parts ==
    ASSUME StreamInv
    PROVE  /\ delivered \in Seq(Nat) /\ cached \in Seq(Nat) /\ pipe \in Seq(Nat)
           /\ delivered \o cached \in Seq(Nat)
           /\ Len(delivered \o cached) = Len(delivered) + Len(cached)
           /\ sent \in Nat
           /\ delivered = Upto(Len(delivered))
           /\ ~dropped => sent = Len(delivered) + Len(cached) + Len(pipe)
  <1>1. delivered \in Seq(Nat) /\ cached \in Seq(Nat) /\ pipe \in Seq(Nat) /\ sent \in Nat
    <2>1. \A q : q \in Seq(Chunks) => q \in Seq(Nat)
          BY MaxSentAssumption DEF Chunks
    <2> QED
        BY <2>1, MaxSentAssumption DEF StreamInv, TypeOK
  <1>2. delivered \o cached \in Seq(Nat) /\ Len(delivered \o cached) = Len(delivered) + Len(cached)
        BY <1>1, ConcatProperties
  <1>3. delivered = Upto(Len(delivered))
    <2>1. Len(delivered) + Len(cached) \in Nat
          BY <1>1, LenProperties
    <2> QED
        BY <1>1, <2>1, UptoPrefix DEF StreamInv, InOrder
  <1>4. ~dropped => sent = Len(delivered \o cached) + Len(pipe)
        BY <1>1, <1>2, UptoPrefix DEF StreamInv, PipeHasRest
  <1> QED
      BY <1>1, <1>2, <1>3, <1>4

(* Reading moves the front of the pipe or of the cache and keeps the stream. *)
LEMMA StreamStep ==
    StreamInv /\ [Next]_vars => InOrder' /\ PipeHasRest'
  <1> DEFINE Goal == InOrder /\ PipeHasRest
  <1> SUFFICES ASSUME StreamInv, [Next]_vars
               PROVE  Goal'
      OBVIOUS
  <1>p. /\ delivered \in Seq(Nat) /\ cached \in Seq(Nat) /\ pipe \in Seq(Nat)
        /\ delivered \o cached \in Seq(Nat)
        /\ Len(delivered \o cached) = Len(delivered) + Len(cached)
        /\ sent \in Nat
        /\ delivered = Upto(Len(delivered))
        /\ ~dropped => sent = Len(delivered) + Len(cached) + Len(pipe)
        BY Parts
  <1>a. ASSUME delivered' = delivered, cached' = cached, sent' = sent,
               ~dropped' => ~dropped /\ pipe' = pipe
        PROVE  Goal'
        BY <1>a DEF StreamInv, InOrder, PipeHasRest
  <1>b. ASSUME delivered' = delivered, cached' = <<>>, sent' = sent,
               ~dropped' => ~dropped /\ cached = <<>> /\ pipe' = pipe
        PROVE  Goal'
    <2>1. delivered \o <<>> = delivered
          BY <1>p, ConcatEmptySeq
    <2>2. InOrder'
          BY <1>b, <1>p, <2>1 DEF InOrder
    <2> QED
        BY <1>b, <2>2 DEF StreamInv, PipeHasRest
  <1>1. CASE Accept
        BY <1>1, <1>a DEF Accept, reader
  <1>2. CASE Refuse
        BY <1>2, <1>a DEF Refuse, reader, StreamInv, TypeOK
  <1>3. CASE Write
    <2>1. delivered' = delivered /\ cached' = cached /\ dropped' = dropped /\ sent' = sent + 1
          BY <1>3 DEF Write
    <2>2. InOrder'
          BY <2>1 DEF StreamInv, InOrder
    <2>3. ASSUME ~dropped
          PROVE  delivered \o cached \o pipe' = Upto(sent + 1)
      <3>1. pipe' = Append(pipe, sent + 1)
            BY <1>3 DEF Write
      <3>2. pipe' = pipe \o <<sent + 1>> /\ <<sent + 1>> \in Seq(Nat)
            BY <1>p, <3>1, AppendIsConcat
      <3>3. delivered \o cached \o pipe' = (delivered \o cached \o pipe) \o <<sent + 1>>
            BY <1>p, <3>2, ConcatAssociative
      <3>4. delivered \o cached \o pipe = Upto(sent)
            BY <2>3 DEF StreamInv, PipeHasRest
      <3>5. Upto(sent) \o <<sent + 1>> = Append(Upto(sent), sent + 1)
            BY <1>p, UptoLen, AppendIsConcat
      <3> QED
          BY <1>p, <3>3, <3>4, <3>5, UptoAppend
    <2> QED
        BY <2>1, <2>2, <2>3 DEF PipeHasRest
  <1>4. CASE WriteFails
        BY <1>4, <1>a DEF WriteFails, source
  <1>5. CASE SourceCloses
        BY <1>5, <1>a DEF SourceCloses, reader
  <1>6. CASE CloseAll
        BY <1>6, <1>a DEF CloseAll, reader, StreamInv, TypeOK
  <1>7. CASE SniffReads
    <2>1. /\ delivered' = delivered /\ cached' = cached \o pipe /\ pipe' = <<>>
          /\ sent' = sent /\ dropped' = dropped /\ pipe # <<>> /\ pc = "sniff"
          BY <1>7 DEF SniffReads, Cache
    <2>2. ~dropped
          BY <2>1 DEF StreamInv, DroppedIsOver
    <2>3. delivered \o cached' = Upto(sent)
      <3>1. (delivered \o cached) \o pipe = delivered \o (cached \o pipe)
            BY <1>p, NatConcat
      <3> QED
          BY <2>1, <2>2, <3>1 DEF StreamInv, PipeHasRest
    <2>4. cached' \in Seq(Nat) /\ Len(cached') = Len(cached) + Len(pipe)
          BY <1>p, <2>1, ConcatProperties
    <2>5. delivered \o cached' \in Seq(Nat)
          BY <1>p, <2>4, ConcatProperties
    <2>6. delivered \o cached' \o <<>> = delivered \o cached'
          BY <2>5, ConcatEmptySeq
    <2>7. sent = Len(delivered) + Len(cached')
          BY <1>p, <2>2, <2>4, LenProperties
    <2> QED
        BY <2>1, <2>3, <2>6, <2>7 DEF InOrder, PipeHasRest
  <1>8. CASE SniffGivesUp
        BY <1>8, <1>a DEF SniffGivesUp, source, reader
  <1>9. CASE RouteFinds
        BY <1>9, <1>a DEF RouteFinds, source, reader
  <1>10. ASSUME Abandon
         PROVE  Goal'
    <2>1. delivered' = delivered /\ cached' = <<>> /\ sent' = sent
          BY <1>10 DEF Abandon, InterruptReader
    <2>2. ~dropped' => ~dropped /\ cached = <<>> /\ pipe' = pipe
          BY <1>10 DEF Abandon, InterruptReader
    <2> QED
        BY <1>b, <2>1, <2>2
  <1>11. CASE HandlerReadsCache
    <2>1. /\ delivered' = delivered \o cached /\ cached' = <<>> /\ pipe' = pipe
          /\ sent' = sent /\ dropped' = dropped
          BY <1>11 DEF HandlerReadsCache, ReadCached, source
    <2>2. delivered' \o <<>> = delivered \o cached
          BY <1>p, <2>1, ConcatEmptySeq
    <2>3. Len(delivered') + Len(cached') = Len(delivered) + Len(cached)
          BY <1>p, <2>1, LenProperties
    <2>4. InOrder'
          BY <2>1, <2>2, <2>3 DEF StreamInv, InOrder
    <2>5. PipeHasRest'
          BY <2>1, <2>2 DEF StreamInv, PipeHasRest
    <2> QED
        BY <2>4, <2>5
  <1>12. CASE HandlerReadsPipe
    <2>1. /\ delivered' = delivered \o pipe /\ cached' = cached /\ pipe' = <<>>
          /\ sent' = sent /\ dropped' = dropped /\ pipe # <<>> /\ cached = <<>> /\ pc = "handler"
          BY <1>12 DEF HandlerReadsPipe
    <2>2. ~dropped
          BY <2>1 DEF StreamInv, DroppedIsOver
    <2>3. delivered \o cached = delivered
          BY <1>p, <2>1, ConcatEmptySeq
    <2>4. delivered' = Upto(sent)
          BY <2>1, <2>2, <2>3 DEF StreamInv, PipeHasRest
    <2>5. delivered' \in Seq(Nat) /\ Len(delivered') = sent
          BY <1>p, <2>4, UptoLen
    <2>6. delivered' \o <<>> = delivered' /\ delivered' \o <<>> \o <<>> = delivered'
          BY <2>5, ConcatEmptySeq
    <2> QED
        BY <1>p, <2>1, <2>4, <2>5, <2>6 DEF InOrder, PipeHasRest
  <1>13. CASE HandlerReturns
         BY <1>13, <1>a DEF HandlerReturns, source, reader
  <1>14. CASE UNCHANGED vars
         BY <1>14, <1>a DEF vars, source, reader
  <1> QED
      BY <1>1, <1>2, <1>3, <1>4, <1>5, <1>6, <1>7, <1>8, <1>9, <1>10, <1>11, <1>12, <1>13, <1>14
      DEF Next, Sniff, Route, RouteFails, HandlerPanics

(* What the handler reads from the pipe is counted now or was before. *)
LEMMA PipeReadCounts ==
    ASSUME StreamInv, HandlerReadsPipe
    PROVE  counted' \in 0..MaxSent /\ CountedOnce'
  <1>1. /\ pipe # <<>> /\ pc = "handler" /\ delivered' = delivered \o pipe
        /\ cached = <<>> /\ cached' = <<>> /\ dropped' = dropped /\ mode' = mode /\ sent' = sent
        /\ counted' = IF mode = "link" THEN counted + Len(pipe) ELSE counted
        BY DEF HandlerReadsPipe, CountRead
  <1>2. ~dropped
        BY <1>1 DEF StreamInv, DroppedIsOver
  <1>3. /\ Len(delivered) \in Nat /\ Len(pipe) \in Nat /\ Len(cached) = 0 /\ Len(cached') = 0
        /\ Len(delivered') = Len(delivered) + Len(pipe)
        BY <1>1, Parts, LenProperties, ConcatProperties
  <1>4. sent = Len(delivered) + Len(pipe) /\ sent \in 0..MaxSent /\ counted \in 0..MaxSent
        BY <1>2, <1>3, Parts DEF StreamInv, TypeOK
  <1>5. IF mode = "link" THEN counted = Len(delivered) ELSE counted >= sent
        BY <1>2, <1>3 DEF StreamInv, CountedOnce
  <1> QED
      BY <1>1, <1>3, <1>4, <1>5, MaxSentAssumption DEF CountedOnce

(* The other variables, and the types of the stream. *)
LEMMA RestStep ==
    StreamInv /\ [Next]_vars
        => (TypeOK /\ DroppedIsOver /\ AttemptLeft /\ CountedOnce /\ NobodyWaits)'
  <1> DEFINE Goal == TypeOK /\ DroppedIsOver /\ AttemptLeft /\ CountedOnce /\ NobodyWaits
  <1> SUFFICES ASSUME StreamInv, [Next]_vars
               PROVE  Goal'
      OBVIOUS
  <1>p. /\ delivered \in Seq(Chunks) /\ cached \in Seq(Chunks) /\ pipe \in Seq(Chunks)
        /\ Len(delivered) \in Nat /\ Len(cached) \in Nat /\ Len(pipe) \in Nat
        /\ ~dropped => sent = Len(delivered) + Len(cached) + Len(pipe)
        BY Parts, LenProperties DEF StreamInv, TypeOK
  <1>q. /\ delivered \o cached \in Seq(Chunks) /\ delivered \o pipe \in Seq(Chunks)
        /\ cached \o pipe \in Seq(Chunks)
        /\ Len(delivered \o cached) = Len(delivered) + Len(cached)
        /\ Len(delivered \o pipe) = Len(delivered) + Len(pipe)
        /\ Len(cached \o pipe) = Len(cached) + Len(pipe)
        BY <1>p, ConcatProperties
  <1>e. <<>> \in Seq(Chunks) /\ Len(<<>>) = 0
        OBVIOUS
  <1> USE <1>p, <1>q, <1>e, DeadlineAssumption, MaxSentAssumption
      DEF StreamInv, TypeOK, Waiting, Settled, MaxAttempts, source, reader, vars,
          DroppedIsOver, AttemptLeft, CountedOnce, NobodyWaits
  <1>1. CASE Accept
        BY <1>1 DEF Accept
  <1>2. CASE Refuse
        BY <1>2 DEF Refuse
  <1>3. CASE Write
    <2>1. sent + 1 \in Chunks
          BY <1>3 DEF Write, Chunks
    <2>2. Append(pipe, sent + 1) \in Seq(Chunks)
          BY <2>1
    <2> QED
        BY <1>3, <2>2 DEF Write
  <1>4. CASE WriteFails
        BY <1>4 DEF WriteFails
  <1>5. CASE SourceCloses
        BY <1>5 DEF SourceCloses
  <1>6. CASE CloseAll
        BY <1>6 DEF CloseAll
  <1>7. CASE SniffReads
        BY <1>7 DEF SniffReads, Cache, CountRead
  <1>8. CASE SniffGivesUp
        BY <1>8 DEF SniffGivesUp
  <1>9. CASE RouteFinds
        BY <1>9 DEF RouteFinds
  <1>10. ASSUME Abandon
         PROVE  Goal'
         BY <1>10 DEF Abandon, InterruptReader
  <1>11. CASE HandlerReadsCache
         BY <1>11 DEF HandlerReadsCache, ReadCached
  <1>12. CASE HandlerReadsPipe
    <2>1. pipe # <<>> /\ cached = <<>> /\ cached' = <<>> /\ pc = "handler" /\ ~dropped
          BY <1>12 DEF HandlerReadsPipe
    <2>2. delivered' = delivered \o pipe /\ pipe' = <<>> /\ dropped' = dropped
          BY <1>12 DEF HandlerReadsPipe
    <2>3. /\ mode' = mode /\ pc' = pc /\ sent' = sent /\ ended' = ended /\ linked' = linked
          /\ deadline' = deadline /\ attempts' = attempts /\ downClosed' = downClosed
          BY <1>12 DEF HandlerReadsPipe
    <2>4. counted' \in 0..MaxSent /\ CountedOnce'
          BY <1>12, PipeReadCounts
    <2>5. delivered' \in Seq(Chunks) /\ cached' \in Seq(Chunks) /\ pipe' \in Seq(Chunks)
          BY <2>1, <2>2
    <2> QED
        BY <2>1, <2>2, <2>3, <2>4, <2>5
  <1>13. CASE HandlerReturns
         BY <1>13 DEF HandlerReturns
  <1>14. CASE UNCHANGED vars
         BY <1>14
  <1> QED
      BY <1>1, <1>2, <1>3, <1>4, <1>5, <1>6, <1>7, <1>8, <1>9, <1>10, <1>11, <1>12, <1>13, <1>14
      DEF Next, Sniff, Route, RouteFails, HandlerPanics

(* The initial states satisfy the invariant. *)
LEMMA StreamInit == Init => StreamInv
  <1> SUFFICES ASSUME Init
               PROVE  StreamInv
      OBVIOUS
  <1>1. TypeOK
    <2>1. <<>> \in Seq(Chunks)
          OBVIOUS
    <2>2. 0 \in 0..MaxSent /\ Deadline \in 0..Deadline /\ 0 \in 0..MaxAttempts
          BY DeadlineAssumption, MaxSentAssumption DEF MaxAttempts
    <2> QED
        BY <2>1, <2>2 DEF Init, TypeOK
  <1>2. Upto(0) = <<>>
        BY UptoLen
  <1>3. InOrder /\ PipeHasRest
        BY <1>2 DEF Init, InOrder, PipeHasRest
  <1> QED
      BY <1>1, <1>3 DEF Init, StreamInv, DroppedIsOver, AttemptLeft, MaxAttempts, CountedOnce,
                        NobodyWaits

(* The invariant, from which the theorems follow. *)
LEMMA StreamInvariant == Spec => []StreamInv
  <1>1. StreamInv /\ [Next]_vars => StreamInv'
        BY StreamStep, RestStep DEF StreamInv
  <1> QED
      BY <1>1, StreamInit, PTL DEF Spec

-----------------------------------------------------------------------------
(* Every variable of Dispatcher keeps its type. *)
THEOREM DispatcherTypeCorrect == Spec => []TypeOK
  <1>1. StreamInv => TypeOK
        BY DEF StreamInv
  <1> QED
      BY <1>1, StreamInvariant, PTL

(* The handler reads the client's data in order and complete, whatever the
   sniffer has read before (cachedReader in dispatcher/default.go). *)
THEOREM DispatcherStreamIsIntact == Spec => []StreamIsIntact
  <1>1. StreamInv => StreamIsIntact
        BY Parts DEF StreamInv, PipeHasRest, StreamIsIntact
  <1> QED
      BY <1>1, StreamInvariant, PTL

(* No chunk is billed twice (countreader.go, dispatcher/default.go). *)
THEOREM DispatcherCountsOnce == Spec => []CountedOnce
  <1>1. StreamInv => CountedOnce
        BY DEF StreamInv
  <1> QED
      BY <1>1, StreamInvariant, PTL

(* A connection that is given up leaves nobody waiting (dispatcher/default.go). *)
THEOREM DispatcherNobodyWaits == Spec => []NobodyWaits
  <1>1. StreamInv => NobodyWaits
        BY DEF StreamInv
  <1> QED
      BY <1>1, StreamInvariant, PTL

-----------------------------------------------------------------------------
(* Dispatcher implements Stream. *)

(* What has been read was sent, and of a stream that was interrupted a part is
   never read. *)
Unread ==
    /\ Len(delivered) + Len(cached) <= sent
    /\ dropped => Len(delivered) + Len(cached) < sent

(* Numbers for the steps below. *)
LEMMA Lengths ==
    ASSUME StreamInv
    PROVE  /\ Len(delivered) \in Nat /\ Len(cached) \in Nat /\ Len(pipe) \in Nat /\ sent \in Nat
           /\ pipe # <<>> => Len(pipe) > 0
           /\ cached # <<>> => Len(cached) > 0
           /\ ~dropped => sent = Len(delivered) + Len(cached) + Len(pipe)
           /\ Len(delivered \o cached) = Len(delivered) + Len(cached)
           /\ Len(delivered \o pipe) = Len(delivered) + Len(pipe)
           /\ Len(cached \o pipe) = Len(cached) + Len(pipe)
           /\ Len(<<>>) = 0
  <1>1. delivered \in Seq(Nat) /\ cached \in Seq(Nat) /\ pipe \in Seq(Nat) /\ sent \in Nat
        BY Parts
  <1> QED
      BY <1>1, Parts, LenProperties, ConcatProperties, EmptySeq

(* Unread is an invariant. *)
LEMMA UnreadStep ==
    StreamInv /\ Unread /\ [Next]_vars => Unread'
  <1> SUFFICES ASSUME StreamInv, Unread, [Next]_vars
               PROVE  Unread'
      OBVIOUS
  <1>p. /\ Len(delivered) \in Nat /\ Len(cached) \in Nat /\ Len(pipe) \in Nat /\ sent \in Nat
        /\ pipe # <<>> => Len(pipe) > 0
        /\ cached # <<>> => Len(cached) > 0
        /\ ~dropped => sent = Len(delivered) + Len(cached) + Len(pipe)
        /\ Len(delivered \o cached) = Len(delivered) + Len(cached)
        /\ Len(delivered \o pipe) = Len(delivered) + Len(pipe)
        /\ Len(cached \o pipe) = Len(cached) + Len(pipe)
        /\ Len(<<>>) = 0
        BY Lengths
  <1>b. dropped \in BOOLEAN
        BY DEF StreamInv, TypeOK
  <1>a. ASSUME delivered' = delivered, cached' = cached \/ cached' = <<>>, sent' >= sent, sent' \in Nat,
               dropped' => dropped \/ pipe # <<>> \/ (cached' = <<>> /\ cached # <<>>)
        PROVE  Unread'
        BY <1>a, <1>p, <1>b DEF Unread
  <1>1. CASE Accept
        BY <1>1, <1>a, <1>p DEF Accept, reader
  <1>2. CASE Refuse
    <2>1. /\ delivered' = delivered /\ cached' = cached /\ sent' = sent
          /\ dropped' => dropped \/ pipe # <<>>
          BY <1>2 DEF Refuse, reader
    <2> QED
        BY <2>1, <1>a, <1>p
  <1>3. CASE Write
        BY <1>3, <1>a, <1>p DEF Write
  <1>4. CASE WriteFails
        BY <1>4, <1>a, <1>p DEF WriteFails, source
  <1>5. CASE SourceCloses
        BY <1>5, <1>a, <1>p DEF SourceCloses, reader
  <1>6. CASE CloseAll
    <2>1. /\ delivered' = delivered /\ cached' = cached /\ sent' = sent
          /\ dropped' => dropped \/ pipe # <<>>
          BY <1>6 DEF CloseAll, reader
    <2> QED
        BY <2>1, <1>a, <1>p
  <1>7. CASE SniffReads
    <2>1. /\ delivered' = delivered /\ cached' = cached \o pipe /\ sent' = sent
          /\ dropped' = dropped /\ ~dropped
          BY <1>7 DEF SniffReads, Cache, StreamInv, DroppedIsOver
    <2> QED
        BY <2>1, <1>p DEF Unread
  <1>8. CASE SniffGivesUp
        BY <1>8, <1>a, <1>p DEF SniffGivesUp, source, reader
  <1>9. CASE RouteFinds
        BY <1>9, <1>a, <1>p DEF RouteFinds, source, reader
  <1>10. ASSUME Abandon
         PROVE  Unread'
    <2>1. /\ delivered' = delivered /\ cached' = <<>> /\ sent' = sent
          /\ dropped' => dropped \/ cached # <<>> \/ pipe # <<>>
          BY <1>10 DEF Abandon, InterruptReader
    <2> QED
        BY <2>1, <1>a, <1>p
  <1>11. CASE HandlerReadsCache
    <2>1. /\ delivered' = delivered \o cached /\ cached' = <<>> /\ sent' = sent
          /\ dropped' = dropped
          BY <1>11 DEF HandlerReadsCache, ReadCached, source
    <2> QED
        BY <2>1, <1>p DEF Unread
  <1>12. CASE HandlerReadsPipe
    <2>1. /\ delivered' = delivered \o pipe /\ cached' = <<>> /\ sent' = sent /\ cached = <<>>
          /\ dropped' = dropped /\ ~dropped
          BY <1>12 DEF HandlerReadsPipe, StreamInv, DroppedIsOver
    <2> QED
        BY <2>1, <1>p DEF Unread
  <1>13. CASE HandlerReturns
         BY <1>13, <1>a, <1>p DEF HandlerReturns, source, reader
  <1>14. CASE UNCHANGED vars
         BY <1>14, <1>a, <1>p DEF vars, source, reader
  <1> QED
      BY <1>1, <1>2, <1>3, <1>4, <1>5, <1>6, <1>7, <1>8, <1>9, <1>10, <1>11, <1>12, <1>13, <1>14
      DEF Next, Sniff, Route, RouteFails, HandlerPanics

(* When the handler has read more, the stream has received more. *)
LEMMA ReadIsReceive ==
    ASSUME StreamInv, Unread, StreamInv', Unread', sent' = sent, ended' = ended,
           dropped' = dropped, Len(delivered') > Len(delivered)
    PROVE  Connection!Receive
  <1> DEFINE n == Len(delivered')
  <1>1. n \in Nat /\ Len(cached') \in Nat /\ Len(delivered) \in Nat /\ sent \in Nat
    <2>1. delivered' \in Seq(Chunks) /\ cached' \in Seq(Chunks)
          BY DEF StreamInv, TypeOK
    <2> QED
        BY <2>1, Lengths, LenProperties
  <1>2. delivered' = [i \in 1..n |-> i]
    <2>1. delivered' \in Seq(Nat) /\ cached' \in Seq(Nat)
          BY MaxSentAssumption DEF StreamInv, TypeOK, Chunks
    <2>2. delivered' \o cached' = Upto(n + Len(cached'))
          BY DEF StreamInv, InOrder
    <2>3. n + Len(cached') \in Nat
          BY <1>1
    <2> HIDE DEF n
    <2>4. delivered' = Upto(Len(delivered'))
          BY <2>1, <2>2, <2>3, UptoPrefix
    <2> QED
        BY <2>4 DEF Upto, n
  <1>3. n \in (Len(delivered) + 1)..sent /\ (dropped => n < sent)
        BY <1>1 DEF Unread
  <1> QED
      BY <1>2, <1>3 DEF Connection!Receive

(* Every step of Dispatcher is one of Stream or leaves it as it is. *)
LEMMA StepIsStream ==
    StreamInv /\ Unread /\ StreamInv' /\ Unread' /\ [Next]_vars
        => [Connection!Next]_(Connection!vars)
  <1> SUFFICES ASSUME StreamInv, Unread, StreamInv', Unread', [Next]_vars
               PROVE  Connection!Next \/ UNCHANGED <<sent, delivered, ended, dropped>>
      BY DEF Connection!vars
  <1>p. /\ Len(delivered) \in Nat /\ Len(cached) \in Nat /\ Len(pipe) \in Nat /\ sent \in Nat
        /\ pipe # <<>> => Len(pipe) > 0
        /\ cached # <<>> => Len(cached) > 0
        /\ ~dropped => sent = Len(delivered) + Len(cached) + Len(pipe)
        /\ Len(delivered \o cached) = Len(delivered) + Len(cached)
        /\ Len(delivered \o pipe) = Len(delivered) + Len(pipe)
        BY Lengths
  <1>b. dropped \in BOOLEAN /\ ended \in BOOLEAN
        BY DEF StreamInv, TypeOK
  <1>c. ASSUME sent' = sent, delivered' = delivered, ended' = TRUE,
               dropped' = (dropped \/ pipe # <<>>)
        PROVE  Connection!Next \/ UNCHANGED <<sent, delivered, ended, dropped>>
    <2>1. CASE dropped' = dropped
          BY <1>c, <2>1 DEF Connection!Next, Connection!Close
    <2>2. CASE dropped' # dropped
      <3>1. dropped' = TRUE /\ ~dropped /\ pipe # <<>>
            BY <1>b, <1>c, <2>2
      <3>2. Len(delivered) < sent
            BY <1>p, <3>1
      <3> QED
          BY <1>c, <3>1, <3>2 DEF Connection!Next, Connection!Interrupt
    <2> QED
        BY <2>1, <2>2
  <1>1. CASE Accept
        BY <1>1 DEF Accept, reader
  <1>2. CASE Refuse
        BY <1>2, <1>b, <1>c DEF Refuse, reader
  <1>3. CASE Write
        BY <1>3, <1>b DEF Write, Connection!Next, Connection!Send
  <1>4. CASE WriteFails
        BY <1>4 DEF WriteFails, source
  <1>5. CASE SourceCloses
        BY <1>5 DEF SourceCloses, reader, Connection!Next, Connection!Close
  <1>6. CASE CloseAll
        BY <1>6, <1>b, <1>c DEF CloseAll, reader
  <1>7. CASE SniffReads
        BY <1>7 DEF SniffReads, Cache
  <1>8. CASE SniffGivesUp
        BY <1>8 DEF SniffGivesUp, source, reader
  <1>9. CASE RouteFinds
        BY <1>9 DEF RouteFinds, source, reader
  <1>10. ASSUME Abandon
         PROVE  Connection!Next \/ UNCHANGED <<sent, delivered, ended, dropped>>
    <2>1. /\ sent' = sent /\ delivered' = delivered /\ ended' \in {ended, TRUE}
          /\ dropped' = (dropped \/ cached # <<>> \/ pipe' # pipe)
          /\ pipe' # pipe => pipe # <<>>
          BY <1>10, <1>b DEF Abandon, InterruptReader
    <2>2. CASE dropped' = dropped
          BY <2>1, <2>2 DEF Connection!Next, Connection!Close
    <2>3. CASE dropped' # dropped
      <3>1. dropped' = TRUE /\ ~dropped /\ (cached # <<>> \/ pipe # <<>>)
            BY <1>b, <2>1, <2>3
      <3>2. Len(delivered) < sent
            BY <1>p, <3>1
      <3> QED
          BY <2>1, <3>1, <3>2 DEF Connection!Next, Connection!Interrupt
    <2> QED
        BY <2>2, <2>3
  <1>11. CASE HandlerReadsCache
    <2>1. /\ Len(delivered') > Len(delivered) /\ sent' = sent /\ ended' = ended
          /\ dropped' = dropped
          BY <1>11, <1>p DEF HandlerReadsCache, ReadCached, source
    <2> QED
        BY <2>1, ReadIsReceive DEF Connection!Next
  <1>12. CASE HandlerReadsPipe
    <2>1. /\ Len(delivered') > Len(delivered) /\ sent' = sent /\ ended' = ended
          /\ dropped' = dropped
          BY <1>12, <1>p DEF HandlerReadsPipe
    <2> QED
        BY <2>1, ReadIsReceive DEF Connection!Next
  <1>13. CASE HandlerReturns
         BY <1>13 DEF HandlerReturns, source, reader
  <1>14. CASE UNCHANGED vars
         BY <1>14 DEF vars, source, reader
  <1> QED
      BY <1>1, <1>2, <1>3, <1>4, <1>5, <1>6, <1>7, <1>8, <1>9, <1>10, <1>11, <1>12, <1>13, <1>14
      DEF Next, Sniff, Route, RouteFails, HandlerPanics

(* A connection of the dispatcher, with its sniffing, its pipe and every way to
   interrupt it, implements a stream, for any number of chunks and any deadline
   (cachedReader and routedDispatch in dispatcher/default.go). *)
THEOREM DispatcherIsStream == Spec => IsStream
  <1>1. Init => Connection!Init
        BY DEF Init, Connection!Init
  <1>2. Init => Unread
        BY EmptySeq DEF Init, Unread
  <1>3. Spec => [](StreamInv /\ Unread)
        BY <1>2, UnreadStep, StreamInvariant, PTL DEF Spec
  <1> QED
      BY <1>1, <1>3, StepIsStream, StreamInvariant, PTL DEF Spec, IsStream, Connection!Spec
=============================================================================
