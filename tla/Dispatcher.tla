----------------------------- MODULE Dispatcher -----------------------------
(***************************************************************************)
(* One connection in the dispatcher (core/app/dispatcher/default.go).  The *)
(* inbound's protocol writes the client's data into a pipe; the dispatcher *)
(* may sniff the head of it through a cachedReader, picks an outbound and  *)
(* hands it the link.  The outbound's handler then reads what was cached   *)
(* and after it the pipe.                                                  *)
(*                                                                         *)
(* Dispatch makes the two pipes itself and runs the rest in a goroutine;   *)
(* DispatchLink is given the inbound's own link, counts through a          *)
(* CounterReader, and does not enter the writer in the link manager.       *)
(* The data is a stream of numbered chunks.  The source, the deletion of   *)
(* the user and the goroutine of the connection interleave.                *)
(***************************************************************************)
EXTENDS Naturals, Sequences

CONSTANTS
    Deadline,  \* time for sniffing, in ticks (200 ms)
    MaxSent    \* chunks the source writes (a bound)

ASSUME DeadlineAssumption == Deadline \in Nat \ {0}
ASSUME MaxSentAssumption == MaxSent \in Nat

MaxAttempts == 2

VARIABLES
    mode,       \* which entry point: "dispatch" or "link"
    pc,         \* where the connection's goroutine is
    sent,       \* chunks the source has written
    pipe,       \* those the dispatcher has not read
    ended,      \* whether the pipe takes no more
    linked,     \* whether the user's link manager has the writer
    cached,     \* cachedReader.cache
    delivered,  \* chunks the handler has read
    counted,    \* the user's UpCounter, as far as this connection adds to it
    deadline,   \* cacheDeadline of the sniffer
    attempts,   \* its totalAttempt
    downClosed, \* whether the writer to the client is closed
    dropped     \* history: chunks were discarded by an Interrupt

source == <<sent, pipe, ended, linked>>
reader == <<cached, delivered, counted>>
vars == <<mode, pc, source, reader, deadline, attempts, downClosed, dropped>>

Chunks == 1..MaxSent
Waiting == {"sniff", "route"}
Settled == {"handler", "returned", "failed"}

TypeOK ==
    /\ mode \in {"dispatch", "link"}
    /\ pc \in {"idle", "refused"} \cup Waiting \cup Settled
    /\ sent \in 0..MaxSent
    /\ pipe \in Seq(Chunks) /\ cached \in Seq(Chunks) /\ delivered \in Seq(Chunks)
    /\ ended \in BOOLEAN /\ linked \in BOOLEAN
    /\ downClosed \in BOOLEAN /\ dropped \in BOOLEAN
    /\ counted \in 0..MaxSent
    /\ deadline \in 0..Deadline
    /\ attempts \in 0..MaxAttempts

Init ==
    /\ mode \in {"dispatch", "link"}
    /\ pc = "idle"
    /\ sent = 0 /\ pipe = <<>> /\ ended = FALSE /\ linked = FALSE
    /\ cached = <<>> /\ delivered = <<>> /\ counted = 0
    /\ deadline = Deadline /\ attempts = 0
    /\ downClosed = FALSE /\ dropped = FALSE

-----------------------------------------------------------------------------
(* The link *)

(* The user passes the limiter.  getLink enters the writer in the user's link
   manager. *)
Accept ==
    /\ pc = "idle"
    /\ pc' \in Waiting
    /\ linked' = (mode = "dispatch")
    /\ UNCHANGED <<mode, sent, pipe, ended, reader, deadline, attempts, downClosed, dropped>>

(* The limiter is gone or rejects the user: both ends are closed.  What an
   inbound has written into its own link by then is its own to discard. *)
Refuse ==
    /\ pc = "idle"
    /\ pc' = "refused"
    /\ ended' = TRUE /\ downClosed' = TRUE
    /\ pipe' = <<>>
    /\ dropped' = (dropped \/ pipe # <<>>)
    /\ UNCHANGED <<mode, sent, linked, reader, deadline, attempts>>

(* The source's writer.  In a Dispatch it exists once getLink has returned, and
   counts what is written; a write to a pipe that takes no more fails, but has
   been counted. *)
Write ==
    /\ sent < MaxSent
    /\ ~ended
    /\ mode = "dispatch" => pc # "idle"
    /\ sent' = sent + 1
    /\ pipe' = Append(pipe, sent + 1)
    /\ counted' = IF mode = "dispatch" /\ counted < MaxSent THEN counted + 1 ELSE counted
    /\ UNCHANGED <<mode, pc, ended, linked, cached, delivered, deadline, attempts,
                   downClosed, dropped>>

WriteFails ==
    /\ mode = "dispatch" /\ ended
    /\ pc \notin {"idle", "refused"}
    /\ counted < MaxSent
    /\ counted' = counted + 1
    /\ UNCHANGED <<mode, pc, source, cached, delivered, deadline, attempts, downClosed, dropped>>

(* ManagedWriter.Close: the source has no more.  What is in the pipe can still
   be read. *)
SourceCloses ==
    /\ mode = "dispatch" => pc # "idle"
    /\ ~ended
    /\ ended' = TRUE
    /\ linked' = FALSE
    /\ UNCHANGED <<mode, pc, sent, pipe, reader, deadline, attempts, downClosed, dropped>>

(* CloseAll, when the user is deleted: the writer is closed and the pipe
   interrupted, which discards what is in it. *)
CloseAll ==
    /\ linked
    /\ linked' = FALSE
    /\ ended' = TRUE
    /\ pipe' = <<>>
    /\ dropped' = (dropped \/ pipe # <<>>)
    /\ UNCHANGED <<mode, pc, sent, reader, deadline, attempts, downClosed>>

-----------------------------------------------------------------------------
(* The reader.  A read of the pipe takes all that is in it; that of a
   CounterReader counts it. *)

CountRead_Always == counted' = counted + Len(pipe)  \* Mutant
CountRead == counted' = IF mode = "link" THEN counted + Len(pipe) ELSE counted

Cache_Replaces == cached' = pipe  \* Mutant
Cache == cached' = cached \o pipe

(* The sniffer reads more and looks at all that is cached: it knows the
   protocol, needs more data, or has no clue, which counts as an attempt.
   Reading takes time. *)
SniffReads ==
    /\ pc = "sniff"
    /\ pipe # <<>>
    /\ pipe' = <<>>
    /\ Cache
    /\ CountRead
    /\ \E elapsed \in 1..Deadline, clueless \in 0..1, decided \in BOOLEAN :
        /\ elapsed <= deadline
        /\ deadline' = deadline - elapsed
        /\ attempts' = attempts + clueless
        /\ pc' = IF decided \/ attempts' >= MaxAttempts \/ deadline' = 0
                 THEN "route" ELSE "sniff"
    /\ UNCHANGED <<mode, sent, ended, linked, delivered, downClosed, dropped>>

(* Mutant: a read that times out is tried again. *)
SniffGivesUp_Retries ==
    /\ pc = "sniff"
    /\ ended /\ pipe = <<>>
    /\ pc' = "route"
    /\ UNCHANGED <<mode, source, reader, deadline, attempts, downClosed, dropped>>

(* The read fails or times out, the context is done, or the metadata is all
   that was asked for. *)
SniffGivesUp ==
    /\ pc = "sniff"
    /\ pc' = "route"
    /\ UNCHANGED <<mode, source, reader, deadline, attempts, downClosed, dropped>>

(* Mutant: only the cache is released. *)
InterruptReader_Cache ==
    /\ cached' = <<>>
    /\ UNCHANGED <<ended, pipe>>
    /\ dropped' = (dropped \/ cached # <<>>)

(* common.Interrupt of the link's reader.  A CounterReader cannot be
   interrupted: the inbound that called DispatchLink has to close it. *)
InterruptReader ==
    /\ cached' = <<>>
    /\ IF mode = "dispatch" THEN ended' = TRUE /\ pipe' = <<>> ELSE UNCHANGED <<ended, pipe>>
    /\ dropped' = (dropped \/ cached # <<>> \/ pipe' # pipe)

(* Close the writer, interrupt the reader. *)
Abandon ==
    /\ pc' = "failed"
    /\ downClosed' = TRUE
    /\ InterruptReader
    /\ UNCHANGED <<mode, sent, linked, delivered, counted, deadline, attempts>>

-----------------------------------------------------------------------------
(* routedDispatch *)

(* The outbound that was forced, the one the router picks, or the default. *)
RouteFinds ==
    /\ pc = "route"
    /\ pc' = "handler"
    /\ UNCHANGED <<mode, source, reader, deadline, attempts, downClosed, dropped>>

(* The outbound asked for does not exist, or there is no default. *)
RouteFails ==
    /\ pc = "route"
    /\ Abandon

(* A panic of the handler is recovered. *)
HandlerPanics ==
    /\ pc = "handler"
    /\ Abandon

(* The handler reads: first what is cached, then the pipe. *)
ReadCached ==
    /\ delivered' = delivered \o cached
    /\ cached' = <<>>

(* Mutant: the chunks in the cache are counted when they are read again. *)
HandlerReadsCache_Counts ==
    /\ pc = "handler" /\ cached # <<>>
    /\ ReadCached
    /\ counted' = IF mode = "link" /\ counted < MaxSent THEN counted + 1 ELSE counted
    /\ UNCHANGED <<mode, pc, source, deadline, attempts, downClosed, dropped>>

HandlerReadsCache ==
    /\ pc = "handler" /\ cached # <<>>
    /\ ReadCached
    /\ UNCHANGED <<mode, pc, source, counted, deadline, attempts, downClosed, dropped>>

HandlerReadsPipe ==
    /\ pc = "handler" /\ cached = <<>> /\ pipe # <<>>
    /\ delivered' = delivered \o pipe
    /\ pipe' = <<>>
    /\ CountRead
    /\ UNCHANGED <<mode, pc, sent, ended, linked, cached, deadline, attempts, downClosed, dropped>>

(* The handler is done with the connection. *)
HandlerReturns ==
    /\ pc = "handler"
    /\ pc' = "returned"
    /\ downClosed' = TRUE
    /\ UNCHANGED <<mode, source, reader, deadline, attempts, dropped>>

-----------------------------------------------------------------------------
Sniff == SniffReads \/ SniffGivesUp
Route == RouteFinds \/ RouteFails

Next ==
    \/ Accept \/ Refuse
    \/ Write \/ WriteFails \/ SourceCloses \/ CloseAll
    \/ Sniff \/ Route
    \/ HandlerReadsCache \/ HandlerReadsPipe \/ HandlerPanics \/ HandlerReturns

Spec == Init /\ [][Next]_vars

(* The connection's goroutine runs; every read of the sniffer has a deadline. *)
FairSpec == Spec /\ WF_vars(Sniff) /\ WF_vars(Route)

-----------------------------------------------------------------------------
Upto(n) == [i \in 1..n |-> i]

(* Sniffing neither loses, repeats nor reorders the client's data, whatever was
   read before the sniffer gave up and whenever the user is deleted: the
   handler reads a prefix of what was sent, and as long as nothing was
   interrupted every chunk is delivered, cached or still to be read. *)
StreamIsIntact ==
    /\ delivered = Upto(Len(delivered))
    /\ ~dropped => delivered \o cached \o pipe = Upto(sent)

(* A chunk is billed once although it may be read twice: a CounterReader has
   counted what the sniffer and the handler took from it, and the writer of a
   Dispatch all that was written. *)
CountedOnce ==
    ~dropped => IF mode = "link" THEN counted = Len(delivered) + Len(cached)
                                 ELSE counted >= sent

(* Nobody is left waiting on a connection that was refused, not routed, or
   whose handler panicked: the client sees its end, and a source behind a pipe
   cannot write. *)
NobodyWaits ==
    pc \in {"refused", "failed"} => downClosed /\ (mode = "dispatch" => ended /\ pipe = <<>>)

(* A connection is a stream, with the sniffer's cache, the pipe and every way
   to interrupt them inside it: what the handler reads continues what it has
   read, and a stream that lost a chunk is never read to its end. *)
Connection == INSTANCE Stream WITH
    received <- delivered,
    closed <- ended,
    lost <- dropped

IsStream == Connection!Spec

(* Sniffing ends, whatever the source does. *)
Settles == pc \in Waiting ~> pc \in Settled
=============================================================================
