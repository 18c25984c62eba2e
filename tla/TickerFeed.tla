------------------------------ MODULE TickerFeed ------------------------------
(***************************************************************************)
(* The price path: a ticker message reaches the feeder's client, is merged *)
(* into its cache, emitted and published to Redis; a trading worker's      *)
(* cached source reads the hash, then its age, and falls back to REST.     *)
(*                                                                         *)
(* A ticker is the time at which it was the exchange's: 0 is none.  The    *)
(* feed is silent for as long as it likes: WsClient says why.              *)
(***************************************************************************)
EXTENDS Integers, Sequences

CONSTANTS
    MaxAge,     \* defaultMaxAgeMs of the cached source
    Ttl,        \* ttlMs of the Redis hash
    MaxQueued,  \* bound: publishes on their way to Redis
    MaxTime     \* bound: of the clock

ASSUME FeedAssumption ==
    /\ {MaxAge, Ttl, MaxQueued, MaxTime} \subseteq Nat
    /\ MaxAge > 0

VARIABLES
    time,
    queue,     \* publishes sent by the feeder, in order: the _updatedAt of each
    hash,      \* the Redis hash: [data, stamp, expires]
    reader,    \* the call of getTicker: [at, got, age, rewritten]
    answer     \* its result: [from, stamp, asOf, rewritten]

feedVars == <<time, queue, hash, reader, answer>>

NoHash   == [data |-> 0, stamp |-> 0, expires |-> 0]
NoRead   == [at |-> "idle", got |-> 0, rewritten |-> FALSE]
NoAnswer == [from |-> "none", stamp |-> 0, asOf |-> 0, rewritten |-> FALSE]

-----------------------------------------------------------------------------
(* The feeder.                                                             *)

\* A snapshot or a delta: handleMessage merges it, emit hands the whole ticker
\* to publishTicker, which stamps it and sends MULTI without being awaited.
OnTicker ==
    /\ Len(queue) < MaxQueued
    /\ queue' = Append(queue, time)
    /\ UNCHANGED <<time, hash, reader, answer>>

StampedOnExec == hash' = [data |-> Head(queue), stamp |-> time, expires |-> time + Ttl]

\* The hash and its expiry, written at once; a reader between its two reads
\* does not notice.
WriteHash ==
    hash' = [data |-> Head(queue), stamp |-> Head(queue), expires |-> time + Ttl]

\* EXEC of the oldest publish, however late it comes.
Publish ==
    /\ queue # <<>>
    /\ queue' = Tail(queue)
    /\ WriteHash
    /\ reader' = [reader EXCEPT !.rewritten = (reader.at = "age")]
    /\ UNCHANGED <<time, answer>>

\* publishTicker rejects: logged, and the ticker is lost.
PublishFails ==
    /\ queue # <<>>
    /\ queue' = Tail(queue)
    /\ UNCHANGED <<time, hash, reader, answer>>

Expire ==
    /\ hash # NoHash
    /\ time >= hash.expires
    /\ hash' = NoHash
    /\ UNCHANGED <<time, queue, reader, answer>>

-----------------------------------------------------------------------------
(* The cached source.                                                      *)

\* cache.getTicker: HGETALL.
ReadHash ==
    /\ reader.at = "idle"
    /\ reader' = [at |-> IF hash = NoHash THEN "rest" ELSE "age",
                  got |-> hash.data, rewritten |-> FALSE]
    /\ UNCHANGED <<time, queue, hash, answer>>

Serve(from, stamp) ==
    /\ answer' = [from |-> from, stamp |-> stamp, asOf |-> time,
                  rewritten |-> reader.rewritten]
    /\ reader' = NoRead

YoungEnough == hash # NoHash /\ time - hash.stamp < MaxAge

\* cache.getAge: HGET of _updatedAt, of whatever the hash is by now.
ReadAge ==
    /\ reader.at = "age"
    /\ IF YoungEnough
       THEN Serve("cache", reader.got)
       ELSE reader' = [reader EXCEPT !.at = "rest"] /\ UNCHANGED answer
    /\ UNCHANGED <<time, queue, hash>>

\* fallback.getTicker: the exchange's ticker, or the call throws.
ReadRest ==
    /\ reader.at = "rest"
    /\ \/ Serve("rest", time)
       \/ reader' = NoRead /\ UNCHANGED answer
    /\ UNCHANGED <<time, queue, hash>>

TimeAdvances ==
    /\ time < MaxTime
    /\ time' = time + 1
    /\ UNCHANGED <<queue, hash, reader, answer>>

-----------------------------------------------------------------------------
FeedInit ==
    /\ time = 1
    /\ queue = <<>>
    /\ hash = NoHash
    /\ reader = NoRead
    /\ answer = NoAnswer

FeedNext ==
    \/ OnTicker \/ Publish \/ PublishFails \/ Expire
    \/ ReadHash \/ ReadAge \/ ReadRest
    \/ TimeAdvances

FeedSpec == FeedInit /\ [][FeedNext]_feedVars

-----------------------------------------------------------------------------
(* Properties.                                                             *)

\* A ticker served from the cache was the exchange's less than MaxAge ago,
\* however long the feed has been silent or a publish has been delayed -
\* unless the hash was rewritten between the two reads: then an old ticker
\* is served under the age of the new one.
ServedFresh ==
    answer.from = "cache" /\ ~answer.rewritten => answer.asOf - answer.stamp < MaxAge

=============================================================================
