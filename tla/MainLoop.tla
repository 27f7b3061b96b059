------------------------------ MODULE MainLoop ------------------------------
(***************************************************************************)
(* The bot's main loop (trading_bot_bootstrap.py) between the two streams: *)
(* it drains the price callbacks, then the order events, then looks        *)
(* whether a full event queue calls for reconciliation. The receiving      *)
(* threads, the trading cycle and the scheduler's workers run beside it.   *)
(* Each drain takes at most 200 entries a round; here, one.                *)
(***************************************************************************)
EXTENDS PriceFeed, OrderFeed

VARIABLES turn,    \* what the main loop is at
          drained  \* the drain has taken its share of this round

loopVars == <<turn, drained>>
vars == <<priceVars, orderVars, loopVars>>

(* drain_callbacks returns on an empty queue or at its limit.              *)
PricesDone == turn = "prices" /\ drainer = Idle /\ (drained \/ queue = <<>>)
DrainPrices ==
  /\ turn = "prices"
  /\ drainer = Idle => ~drained
  /\ Drain
  /\ drained' = TRUE /\ UNCHANGED <<turn, orderVars>>
ToOrders ==
  /\ PricesDone
  /\ turn' = "orders" /\ drained' = FALSE
  /\ UNCHANGED <<priceVars, orderVars>>

DrainOrders ==
  /\ turn = "orders" /\ ~drained
  /\ DrainEvent
  /\ drained' = TRUE /\ UNCHANGED <<turn, priceVars>>
ToRecovery ==
  /\ turn = "orders" /\ (drained \/ events = <<>>)
  /\ turn' = "recover" /\ drained' = FALSE
  /\ UNCHANGED <<priceVars, orderVars>>

(* The ten seconds between two attempts may always have to pass yet.       *)
StartRecovery ==
  /\ turn = "recover"
  /\ Recover
  /\ turn' = "recovering" /\ UNCHANGED <<drained, priceVars>>
NextRound ==
  /\ turn = "recover" \/ (turn = "recovering" /\ recon["main"] = "no")
  /\ turn' = "prices"
  /\ UNCHANGED <<drained, priceVars, orderVars>>

Reconciling(t) == (\E S \in SUBSET Order : Scan(t, S)) \/ ScanRaises(t) \/ Complete(t)
Main == DrainPrices \/ ToOrders \/ DrainOrders \/ ToRecovery \/ StartRecovery \/ NextRound

Beside(A) == A /\ UNCHANGED <<priceVars, loopVars>>

Init == PriceInit /\ OrderInit /\ turn = "prices" /\ drained = FALSE

Next ==
  \/ Main
  \/ (Receive \/ Handle) /\ UNCHANGED <<orderVars, loopVars>>
  \/ Beside(\E o \in Order : Submit(o) \/ Fill(o))
  \/ Beside(Disconnect) \/ Beside(ReceiveEvent) \/ Beside(Overflow)
  \/ Beside(CycleStarts) \/ Beside(CycleAcks) \/ Beside(\E t \in Threads : Reconciling(t))
  \/ Beside(WorkerWakes) \/ Beside(WorkerChecks) \/ Beside(WorkerRuns)
  \/ Beside(IntervalPasses)

Spec == Init /\ [][Next]_vars

(* Every thread keeps running and time passes. A lookup of the cycle that  *)
(* comes again and again is answered some time, for all open orders.       *)
Fairness ==
  /\ WF_vars(Main)
  /\ WF_vars(Handle /\ UNCHANGED <<orderVars, loopVars>>)
  /\ WF_vars(Beside(CycleStarts)) /\ WF_vars(Beside(IntervalPasses))
  /\ \A t \in Threads : WF_vars(Beside(Reconciling(t)))
  /\ SF_vars(Beside(Scan("cycle", Unresolved)))
  /\ WF_vars(Beside(CycleAcks))
  /\ SF_vars(Beside(CycleAcks /\ acks # acks'))

FairSpec == Spec /\ Fairness

TypeOK == PriceTypeOK /\ OrderTypeOK /\ turn \in {"prices", "orders", "recover", "recovering"} /\ drained \in BOOLEAN
=============================================================================
