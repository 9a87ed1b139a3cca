---------------------------- MODULE PriceFeeder ----------------------------
(***************************************************************************)
(* The price feeder of each node (pricefeeder/pricefeeder.go): goroutines  *)
(* that EndBlocker starts while the pointer PriceFeeder.Oracle is nil, the *)
(* pointer they all write without a lock, the prices of the instance it    *)
(* holds, and the HTTP server that one of them runs.                       *)
(*                                                                         *)
(* An instance of oracle.Oracle is known by the goroutine that created it. *)
(* The prices of one that the pointer has left are never updated again and *)
(* read by nobody but the server, so that they are not kept.  The          *)
(* providers are outside: a tick brings any prices.                        *)
(***************************************************************************)
EXTENDS Naturals, FiniteSets, OracleStores

CONSTANTS
  Nodes,        \* the nodes, each of one validator
  Config,       \* what app.toml and the feeder's own file make of a node's feeder:
                \* "off", "broken" (fails to load), "noServer" (telemetry or the
                \* server's timeouts are refused), "ok"
  Prices,       \* what the providers may report: denom -> rate
  MaxStarts     \* bound on the goroutines of a node

ASSUME FeederAssumption ==
  /\ IsFiniteSet(Nodes) /\ Nodes # {}
  /\ Config \in [Nodes -> {"off", "broken", "noServer", "ok"}]
  /\ << >> \in Prices /\ \A p \in Prices : p \in [DOMAIN p -> Nat]
  /\ MaxStarts \in Nat \ {0}

Starts   == 1..MaxStarts
NoOracle == 0                  \* the nil pointer

VARIABLES
  oracle,      \* PriceFeeder.Oracle: the instance a node reads and ticks
  starts,      \* where each goroutine in PriceFeeder.Start is; "doomed" is starting
               \* with deviation thresholds that do not parse
  prices,      \* the prices of the instance that the pointer holds
  served,      \* the instance behind the node's HTTP server
  thresholds,  \* params.CurrencyDeviationThresholds: whether they parse
  overlapped   \* history: a goroutine was started while another had not yet set
               \* the pointer

feederVars == <<oracle, starts, prices, served, thresholds, overlapped>>

Idle == [i \in Starts |-> "idle"]

FeederTypeOK ==
  /\ oracle \in [Nodes -> Starts \cup {NoOracle}]
  /\ starts \in [Nodes -> [Starts -> {"idle", "starting", "doomed", "set", "serving"}]]
  /\ prices \in [Nodes -> Prices]
  /\ served \in [Nodes -> Starts \cup {NoOracle}]
  /\ thresholds \in BOOLEAN
  /\ overlapped \in [Nodes -> BOOLEAN]

FeederInit ==
  /\ oracle = [n \in Nodes |-> NoOracle]
  /\ starts = [n \in Nodes |-> Idle]
  /\ prices = [n \in Nodes |-> << >>]
  /\ served = [n \in Nodes |-> NoOracle]
  /\ thresholds \in BOOLEAN
  /\ overlapped = [n \in Nodes |-> FALSE]

\* A goroutine that has ended is idle, and leaves no trace if nobody holds its instance.
Free(n) == {i \in Starts : starts[n][i] = "idle" /\ i \notin {oracle[n], served[n]}}

\* Mutant of MustStart: the feeder is started whether or not it runs already.
MustStartAlways(n) == Config[n] # "off"

MustStart(n) == oracle[n] = NoOracle /\ Config[n] # "off"

\* The first part of EndBlocker.  The goroutine has the parameters of this block.
StartFeeder(n) ==
  /\ IF MustStart(n) /\ Free(n) # {}
     THEN LET i == CHOOSE i \in Free(n) : \A j \in Free(n) : i <= j
          IN  /\ starts' = [starts EXCEPT ![n][i] = IF thresholds THEN "starting" ELSE "doomed"]
              /\ overlapped' = [overlapped EXCEPT
                   ![n] = @ \/ \E j \in Starts : starts[n][j] = "starting"]
     ELSE UNCHANGED <<starts, overlapped>>
  /\ UNCHANGED <<oracle, prices, served, thresholds>>

\* The second part, in the last block of a vote period: TickClientless.  A tick that
\* fails leaves the prices as they are.
TickFeeder(n, isTick, report) ==
  /\ IF isTick /\ oracle[n] # NoOracle /\ Config[n] # "off"
     THEN prices' = [prices EXCEPT ![n] = report]
     ELSE UNCHANGED prices
  /\ UNCHANGED <<oracle, starts, served, thresholds, overlapped>>

\* Start returns before it has created an instance.
StartFails(n, i) ==
  /\ starts[n][i] = "doomed" \/ (starts[n][i] = "starting" /\ Config[n] = "broken")
  /\ starts' = [starts EXCEPT ![n][i] = "idle"]
  /\ UNCHANGED <<oracle, prices, served, thresholds, overlapped>>

\* Mutant of SetOracle: goroutines take a lock that the one that serves never releases.
SetOracleLocked(n, i) ==
  /\ starts[n][i] = "starting"
  /\ Config[n] # "broken"
  /\ oracle[n] = NoOracle
  /\ oracle' = [oracle EXCEPT ![n] = i]
  /\ starts' = [starts EXCEPT ![n][i] = "set"]
  /\ prices' = [prices EXCEPT ![n] = << >>]
  /\ UNCHANGED <<served, thresholds, overlapped>>

\* The new instance has no prices yet.
SetOracle(n, i) ==
  /\ starts[n][i] = "starting"
  /\ Config[n] # "broken"
  /\ oracle' = [oracle EXCEPT ![n] = i]
  /\ starts' = [starts EXCEPT ![n][i] = "set"]
  /\ prices' = [prices EXCEPT ![n] = << >>]
  /\ UNCHANGED <<served, thresholds, overlapped>>

\* startPriceFeeder gets the instance that the pointer holds now, which another
\* goroutine may have set.  The address can be listened on once.
StartServer(n, i) ==
  /\ starts[n][i] = "set"
  /\ IF Config[n] = "ok" /\ served[n] = NoOracle
     THEN /\ starts' = [starts EXCEPT ![n][i] = "serving"]
          /\ served' = [served EXCEPT ![n] = oracle[n]]
     ELSE /\ starts' = [starts EXCEPT ![n][i] = "idle"]
          /\ UNCHANGED served
  /\ UNCHANGED <<oracle, prices, thresholds, overlapped>>

\* The process ends, with all its goroutines, and is started again.
RestartFeeder(n) ==
  /\ oracle' = [oracle EXCEPT ![n] = NoOracle]
  /\ starts' = [starts EXCEPT ![n] = Idle]
  /\ prices' = [prices EXCEPT ![n] = << >>]
  /\ served' = [served EXCEPT ![n] = NoOracle]
  /\ overlapped' = [overlapped EXCEPT ![n] = FALSE]
  /\ UNCHANGED thresholds

\* Governance changes the thresholds; Params.Validate does not parse them.
SetThresholds ==
  /\ thresholds' = ~thresholds
  /\ UNCHANGED <<oracle, starts, prices, served, overlapped>>

Goroutine(n, i) == StartFails(n, i) \/ SetOracle(n, i) \/ StartServer(n, i)

-----------------------------------------------------------------------------
(* Correctness. *)

\* The prices that the HTTP server of a node shows are those of the instance that
\* EndBlocker ticks and ExtendVote reads, unless two goroutines overlapped at their
\* start: then the second replaces the pointer, and the server of the first shows prices
\* that are never updated again.
ServerShowsTickedPrices ==
  \A n \in Nodes :
    served[n] # NoOracle /\ ~overlapped[n] => served[n] = oracle[n]

\* The feeder of the node is running, and no goroutine is left starting.
Settled(n) == oracle[n] # NoOracle /\ \A i \in Starts : starts[n][i] \notin {"starting", "doomed", "set"}
=============================================================================
