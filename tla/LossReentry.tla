---------------------------- MODULE LossReentry -----------------------------
(***************************************************************************)
(* RiskOffLossReentryGuard (order_safety/risk_off_loss_reentry.py): the    *)
(* losses of each market today.  One closes the RISK_OFF momentum path to  *)
(* it, two close every path for a while.                                   *)
(***************************************************************************)
EXTENDS DayClock

VARIABLES loss, lossFile

NoLoss   == [date |-> 0, at |-> 0, count |-> 0]
LossRec  == [date : Nat, at : Time, count : 0..MaxCount]
LossType == loss \in [Market -> LossRec] /\ lossFile \in [Market -> LossRec]

\* _prune_expired_locked()
Pruned(recs) == [m \in Market |-> IF recs[m].date = Today THEN recs[m] ELSE NoLoss]

\* Mutant: the record is not saved.
RecordLossUnsaved(m) ==
  /\ loss' = [Pruned(loss) EXCEPT ![m] = [date |-> Today, at |-> now,
                count |-> Earlier(Pruned(loss)[m].count + 1, MaxCount)]]
  /\ UNCHANGED lossFile

\* record_confirmed_loss_exit() of a loss that qualifies
RecordLoss(m) ==
  LET recs == Pruned(loss)
      rec  == [date |-> Today, at |-> now, count |-> Earlier(recs[m].count + 1, MaxCount)]
  IN  /\ loss' = [recs EXCEPT ![m] = rec]
      /\ lossFile' = loss'

Blacklisted(m) == /\ Pruned(loss)[m].count >= 2
                  /\ now < Earlier(loss[m].at + LimitPause, Midnight)

\* Mutant: only the RISK_OFF momentum path is looked at.
LossBlockedMomentum(m, momentum) == Pruned(loss)[m].count >= 1 /\ momentum

\* applies_to_entry_path() and check_reentry_blocked(): momentum is the
\* RISK_OFF + MOMENTUM_BREAKOUT path.
LossBlocked(m, momentum) == \/ Pruned(loss)[m].count = 1 /\ momentum
                            \/ Blacklisted(m)
\* What asking leaves behind: only a market the guard applies to is looked up.
AskLoss(m, momentum) ==
  IF momentum \/ loss[m].count >= 2
  THEN loss' = Pruned(loss) /\ lossFile' = Pruned(loss)
  ELSE UNCHANGED <<loss, lossFile>>

LossInit    == loss = [m \in Market |-> NoLoss] /\ lossFile = loss
LossRestart == loss' = Pruned(lossFile) /\ lossFile' = Pruned(lossFile)

=============================================================================
