----------------------------- MODULE UserStream -----------------------------
(***************************************************************************)
(* The user data stream (data_ingestion/user_stream.py): the loop of run() *)
(* that gets a listen key, connects, recovers missed fills over REST and   *)
(* listens; the watchdog that reports a lost stream; and what the          *)
(* executor's handlers of USER_STREAM_LOST and USER_STREAM_CONNECTED do to *)
(* the gate.  Time counts seconds, and only while the stream is down.      *)
(*                                                                         *)
(* A module that extends this one moves the exchange and handles the fills *)
(* published: an action here leaves to it what else changes.               *)
(***************************************************************************)
EXTENDS Integers, FiniteSets, Sequences

CONSTANTS
  Threshold,   \* risk.user_stream_safe_mode_seconds
  MaxDelay,    \* longest wait between two attempts
  MaxTrades,   \* bound of the model: trades on the account
  MaxDrops     \* bound of the model: connections that fail (attempts may fail for ever)

ASSUME StreamAssumption ==
  /\ Threshold \in Nat /\ MaxDelay \in Nat /\ Threshold < MaxDelay
  /\ MaxTrades \in Nat /\ MaxDrops \in Nat

VARIABLES
  trades,    \* the exchange: the account's trades so far, in order, by kind
  feed,      \* the socket: trades sent on it and not yet received
  conn,      \* run(): "off", "key", "dial", "hello" (connected, REST answer awaited),
             \* "up" (listening) or "sleep" (between two attempts)
  deaf,      \* the listen key has expired and the exchange sends nothing more
  wait,      \* seconds left to sleep
  delay,     \* reconnect_delay
  elapsed,   \* seconds since _disconnect_time, NoTime when that is None
  said,      \* _safe_mode_published
  seen,      \* _processed_trade_ids
  told,      \* history: how often each trade was published in this life
  drops,     \* bound: connections lost so far
  trip,      \* the breaker's trip reason
  safe       \* reasons of the safe mode

account == <<trades, feed>>
socket == <<conn, deaf, wait, delay, elapsed, said>>
published == <<seen, told>>
gate == <<trip, safe>>
stream == <<account, socket, published, drops, gate>>

NoTime == -1
TradeIds == 1..MaxTrades
Connected == conn \in {"hello", "up"}

\* A trade on the account; the exchange sends it down an open socket with a live key.
Traded(kind) ==
  /\ Len(trades) < MaxTrades
  /\ trades' = Append(trades, kind)
  /\ feed' = IF Connected /\ ~deaf THEN Append(feed, Len(trades')) ELSE feed

StreamInit ==
  /\ trades = <<>> /\ feed = <<>>
  /\ conn = "off" /\ deaf = FALSE /\ wait = 0 /\ delay = 1
  /\ elapsed = NoTime /\ said = FALSE
  /\ seen = {} /\ told = [i \in TradeIds |-> 0] /\ drops = 0
  /\ trip = "none" /\ safe = {}

(***************************************************************************)
(* The connection.                                                         *)
(***************************************************************************)
\* _handle_user_stream_lost.
StreamLost == trip' = "stream" /\ safe' = safe \cup {"stream"}

\* Mutant: the wait between two attempts never grows.
SameDelay == delay
\* Mutant: nor does it stop growing.
EndlessDelay == 2 * delay

NextDelay == IF 2 * delay < MaxDelay THEN 2 * delay ELSE MaxDelay

\* The end of an attempt or of a connection: the clock starts anew.  Without a threshold
\* the loss is published here.
Disconnect ==
  /\ conn' = "sleep" /\ deaf' = FALSE /\ feed' = <<>>
  /\ elapsed' = 0 /\ wait' = delay /\ delay' = NextDelay
  /\ IF Threshold = 0 THEN StreamLost ELSE UNCHANGED gate
  /\ UNCHANGED <<trades, said, published>>

GetKey ==
  /\ conn = "key"
  /\ \/ conn' = "dial"
        /\ UNCHANGED <<account, deaf, wait, delay, elapsed, said, published, drops, gate>>
     \/ Disconnect /\ UNCHANGED drops

\* The breaker is reset from the stream's own trip and from a mismatch at start-up.
Connect ==
  /\ conn = "dial"
  /\ \/ /\ conn' = "hello"
        /\ elapsed' = NoTime /\ said' = FALSE /\ delay' = 1
        /\ trip' = "none" /\ safe' = safe \ {"stream"}
        /\ UNCHANGED <<account, deaf, wait, published, drops>>
     \/ Disconnect /\ UNCHANGED drops

\* The socket fails, or the keep-alive has failed three times and closes it.
Drop ==
  /\ Connected /\ drops < MaxDrops
  /\ Disconnect /\ drops' = drops + 1

\* listenKeyExpired: the key is forgotten, the socket stays.
Expire ==
  /\ conn = "up" /\ ~deaf /\ feed = <<>>
  /\ deaf' = TRUE
  /\ UNCHANGED <<account, conn, wait, delay, elapsed, said, published, drops, gate>>

Wake ==
  /\ conn = "sleep" /\ wait = 0
  /\ conn' = "key"
  /\ UNCHANGED <<account, deaf, wait, delay, elapsed, said, published, drops, gate>>

\* A second passes while the stream is down, and the watchdog wakes.  An attempt takes
\* any time, a sleep ends when it is over.
Tick ==
  /\ conn \in {"key", "dial"} \/ (conn = "sleep" /\ wait > 0)
  /\ elapsed # NoTime
  /\ elapsed' = IF elapsed < Threshold THEN elapsed + 1 ELSE elapsed
  /\ wait' = IF conn = "sleep" THEN wait - 1 ELSE wait
  /\ IF Threshold > 0 /\ elapsed' = Threshold /\ ~said
     THEN said' = TRUE /\ StreamLost
     ELSE UNCHANGED <<said, gate>>
  /\ UNCHANGED <<account, conn, deaf, delay, published, drops>>

(***************************************************************************)
(* The fills.                                                              *)
(***************************************************************************)
Publish(ids) == told' = [i \in TradeIds |-> told[i] + IF i \in ids THEN 1 ELSE 0]

\* Mutant: what REST returned is not remembered.
RecoverUnmarked ==
  /\ conn = "hello"
  /\ conn' = "up"
  /\ Publish(DOMAIN trades \ seen)
  /\ UNCHANGED <<account, deaf, wait, delay, elapsed, said, seen, drops, gate>>

\* _reconcile_after_reconnect: trades not seen in this life are published as fills that
\* name no order type and no client order; a failed request is only logged.
Recover ==
  /\ conn = "hello"
  /\ conn' = "up"
  /\ \/ seen' = seen \cup DOMAIN trades /\ Publish(DOMAIN trades \ seen)
     \/ UNCHANGED published
  /\ UNCHANGED <<account, deaf, wait, delay, elapsed, said, drops, gate>>

\* _handle_message: a trade seen before is dropped, another is published.
Received == Head(feed)
Fresh == Received \notin seen
Receive ==
  /\ conn = "up" /\ feed # <<>>
  /\ feed' = Tail(feed)
  /\ seen' = seen \cup {Received}
  /\ Publish({Received} \ seen)
  /\ UNCHANGED <<trades, socket, drops, gate>>

(***************************************************************************)
(* The process.                                                            *)
(***************************************************************************)
StreamStarts ==
  /\ conn' = "key"
  /\ UNCHANGED <<account, deaf, wait, delay, elapsed, said, published, drops>>

\* The process ends; the gate of the next one starts untripped.
StreamEnds ==
  /\ conn' = "off" /\ deaf' = FALSE /\ feed' = <<>> /\ wait' = 0 /\ delay' = 1
  /\ elapsed' = NoTime /\ said' = FALSE
  /\ seen' = {} /\ told' = [i \in TradeIds |-> 0]
  /\ trip' = "none" /\ safe' = {}
  /\ UNCHANGED <<trades, drops>>

\* What the loop and the timers do by themselves.
Alone == GetKey \/ Connect \/ Wake \/ Tick \/ Recover

StreamTypeOK ==
  /\ trades \in Seq({"entry", "stop", "outside"}) /\ Len(trades) <= MaxTrades
  /\ feed \in Seq(DOMAIN trades)
  /\ conn \in {"off", "key", "dial", "hello", "up", "sleep"}
  /\ deaf \in BOOLEAN /\ said \in BOOLEAN
  /\ wait \in 0..MaxDelay /\ delay \in 1..MaxDelay
  /\ elapsed \in {NoTime} \cup 0..Threshold
  /\ seen \subseteq DOMAIN trades /\ told \in [TradeIds -> Nat]
  /\ drops \in 0..MaxDrops
  /\ trip \in {"none", "mismatch", "stream"} /\ safe \subseteq {"stream", "drift"}

\* A trade is published at most once in a life of the process, whether the socket or the
\* REST request brings it first, and however they overlap.
FillOnce == \A i \in TradeIds : told[i] <= 1
=============================================================================
