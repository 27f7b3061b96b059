------------------------- MODULE AIProvidersProofs --------------------------
(***************************************************************************)
(* The provider is never sent more than a model's quota of a day: for any  *)
(* list of models, any quotas whose emergency share leaves room for one    *)
(* request, and whatever two threads, midnights and restarts do.           *)
(* QuotaKept is not inductive: what is sent is not what is counted.        *)
(* SentInv says how far apart they are, which is the requests under way.   *)
(***************************************************************************)
EXTENDS AIProviders, FiniteSetTheorems, WellFoundedInduction, TLAPS

Contexts == {"none", "rank", "holding", "entry", "macro", "briefing"}
Jobs     == [ctx : Contexts, rest : SUBSET Place, old : BOOLEAN]

JobType == /\ job \in [Worker -> Jobs]
           /\ \A w \in Worker : job[w].rest = {} <=> Idle(w)

CountType == calls \in [Model -> Nat] /\ sent \in [Model -> Int] /\ yesterday \in BOOLEAN

\* One when the thread has the model's answer to come, of a request of today.
Awaits(w, m) == IF ~Idle(w) /\ ~job[w].old /\ Asked(w) = m THEN 1 ELSE 0
UnderWay(m)  == Awaits("cycle", m) + Awaits("side", m)
Recorded(m)  == IF yesterday THEN 0 ELSE calls[m]

\* The provider has counted what the telemetry has, and at most what is under
\* way besides.
SentInv == \A m \in Model : /\ UnderWay(m) <= sent[m]
                            /\ sent[m] <= Recorded(m) + UnderWay(m)

QuotaInv == JobType /\ CountType /\ SentInv /\ QuotaKept

-----------------------------------------------------------------------------
(* Places *)

\* The least of a set of numbers is one of them, and no other is less.
LEMMA MinIsLeast ==
  ASSUME NEW S \in SUBSET Nat, S # {}
  PROVE  Min(S) \in S /\ \A i \in S : Min(S) <= i
<1> DEFINE R == {z \in Nat \X Nat : z[1] < z[2]}
<1>1. IsWellFoundedOn(R, Nat)
  BY NatLessThanWellFounded DEF OpToRel
<1>2. \E n \in S : \A m \in S : ~ (<<m, n>> \in R)
  <2> HIDE DEF R
  <2> QED BY <1>1, WFMin
<1>3. PICK n \in S : \A m \in S : ~ (<<m, n>> \in R)
  BY <1>2
<1>4. ASSUME NEW m \in S PROVE n <= m
  <2>1. <<m, n>> \in Nat \X Nat /\ <<m, n>>[1] = m /\ <<m, n>>[2] = n
    OBVIOUS
  <2>2. ~(m < n)
    BY <1>3, <2>1
  <2> QED BY <2>2
<1>5. \E n_1 \in S : \A m \in S : n_1 <= m
  BY <1>4
<1> QED BY <1>5 DEF Min

LEMMA PlaceFacts == /\ Place \subseteq Nat
                    /\ \A i \in Place : Order[i] \in Model
                    /\ \A i, j \in Place : Order[i] = Order[j] => i = j
BY ProviderAssumption DEF Place, Model

\* What a thread goes on with begins at the first model that it may call.
LEMMA FirstCallable ==
  ASSUME NEW list \in SUBSET Place, NEW urgent, Callable(list, urgent) # {}
  PROVE  /\ Min(Callable(list, urgent)) \in list
         /\ CanCall(Order[Min(Callable(list, urgent))], urgent)
<1> DEFINE ok == {i \in list : CanCall(Order[i], urgent)}
           rest == Callable(list, urgent)
<1>1. ok # {} /\ ok \in SUBSET Nat /\ list \in SUBSET Nat
  BY PlaceFacts DEF Callable
<1>2. Min(ok) \in ok
  BY <1>1, MinIsLeast
<1>3. rest = {i \in list : Min(ok) <= i}
  BY <1>1 DEF Callable
<1>4. Min(ok) \in rest /\ rest \in SUBSET Nat
  <2>1. Min(ok) \in list /\ Min(ok) \in Nat /\ Min(ok) <= Min(ok)
    BY <1>1, <1>2
  <2> DEFINE least == Min(ok)
  <2>2. least \in {i \in list : least <= i}
    <3> HIDE DEF least
    <3> QED BY <2>1 DEF least
  <2>3. rest \in SUBSET Nat
    BY <1>1, <1>3
  <2> QED BY <1>3, <2>2, <2>3
<1>5. Min(rest) \in rest /\ Min(rest) <= Min(ok)
  <2> HIDE DEF rest
  <2> QED BY <1>4, MinIsLeast
<1>6. Min(rest) = Min(ok)
  <2>1. \A i \in rest : Min(ok) <= i
    BY <1>3
  <2>2. Min(rest) \in Nat /\ Min(ok) \in Nat
    BY <1>1, <1>2, <1>4, <1>5
  <2> HIDE DEF rest, ok
  <2> QED BY <1>5, <2>1, <2>2
<1> QED BY <1>2, <1>6

-----------------------------------------------------------------------------
(* Steps *)

\* A thread that looks for a model gives up, or sends a request to the first it
\* may call.
LEMMA ProceedSends ==
  ASSUME JobType, NEW w \in Worker, NEW ctx \in Contexts, NEW list \in SUBSET Place, NEW c,
         Proceed(w, ctx, list, c)
  PROVE  \/ job' = [job EXCEPT ![w] = NoJob] /\ sent' = sent
         \/ \E rest \in SUBSET list :
              /\ rest # {} /\ Min(rest) \in list
              /\ CanCall(Order[Min(rest)], Urgent(ctx))
              /\ job' = [job EXCEPT ![w] = [ctx |-> ctx, rest |-> rest, old |-> FALSE]]
              /\ sent' = [sent EXCEPT ![Order[Min(rest)]] = @ + 1]
<1> DEFINE rest == Callable(list, Urgent(ctx))
<1>1. CASE rest = {}
  BY <1>1 DEF Proceed
<1>2. CASE rest # {}
  <2>1. rest \in SUBSET list
    BY DEF Callable
  <2>2. Min(rest) \in list /\ CanCall(Order[Min(rest)], Urgent(ctx))
    BY <1>2, FirstCallable
  <2>3. /\ job' = [job EXCEPT ![w] = [ctx |-> ctx, rest |-> rest, old |-> FALSE]]
        /\ sent' = [sent EXCEPT ![Order[Min(rest)]] = @ + 1]
    BY <1>2 DEF Proceed
  <2> HIDE DEF rest
  <2> QED BY <1>2, <2>1, <2>2, <2>3
<1> QED BY <1>1, <1>2

\* No model is called at the emergency share or above it.
LEMMA CalledHasRoom ==
  ASSUME CountType, NEW m \in Model, NEW urgent \in BOOLEAN, CanCall(m, urgent)
  PROVE  calls[m] < Emergency
BY ProviderAssumption DEF CountType, CanCall, Room

LEMMA AwaitsIsOne ==
  ASSUME JobType, NEW m
  PROVE  /\ Awaits("cycle", m) \in 0..1 /\ Awaits("side", m) \in 0..1
         /\ UnderWay(m) \in 0..2
BY DEF Awaits, UnderWay

\* What thread w does is nothing to the other thread's request.
LEMMA OtherAwaits ==
  ASSUME NEW w \in Worker, NEW v \in Worker, v # w, NEW m, NEW new, JobType,
         job' = [job EXCEPT ![w] = new]
  PROVE  Awaits(v, m)' = Awaits(v, m)
<1>1. job'[v] = job[v]
  BY DEF JobType
<1> QED BY <1>1 DEF Awaits, Idle, Asked, NoJob

LEMMA UnderWayMoves ==
  ASSUME NEW w \in Worker, NEW m, NEW new, JobType, JobType', job' = [job EXCEPT ![w] = new]
  PROVE  UnderWay(m)' = UnderWay(m) - Awaits(w, m) + Awaits(w, m)'
<1>0. \A v : Awaits(v, m) \in 0..1 /\ Awaits(v, m)' \in 0..1
  BY DEF Awaits
<1>1. CASE w = "cycle"
  <2>1. Awaits("side", m)' = Awaits("side", m)
    BY <1>1, OtherAwaits DEF Worker
  <2> QED BY <1>0, <1>1, <2>1 DEF UnderWay
<1>2. CASE w = "side"
  <2>1. Awaits("cycle", m)' = Awaits("cycle", m)
    BY <1>2, OtherAwaits DEF Worker
  <2> QED BY <1>0, <1>2, <2>1 DEF UnderWay
<1> QED BY <1>1, <1>2 DEF Worker

\* What thread w has had to come of today is recorded in the step.
Records(w) == \A m \in Model : Recorded(m)' \in Nat /\ Recorded(m)' >= Recorded(m) + Awaits(w, m)

LEMMA RecordedIsNat == ASSUME CountType, NEW m \in Model
                       PROVE  Recorded(m) \in Nat /\ Recorded(m) <= calls[m]
BY DEF CountType, Recorded

\* A thread that ends its requests leaves all as it was.
LEMMA StopsAsking ==
  ASSUME QuotaInv, JobType', NEW w \in Worker, Records(w),
         job' = [job EXCEPT ![w] = NoJob], sent' = sent
  PROVE  SentInv' /\ QuotaKept'
<1>1. ASSUME NEW m \in Model
      PROVE  UnderWay(m)' = UnderWay(m) - Awaits(w, m)
  <2>1. job'[w] = NoJob
    BY DEF QuotaInv, JobType
  <2>2. Awaits(w, m)' = 0
    BY <2>1 DEF Awaits, Idle
  <2>3. Awaits(w, m) \in 0..1 /\ UnderWay(m) \in 0..2
    BY AwaitsIsOne DEF QuotaInv, Worker
  <2>4. UnderWay(m)' = UnderWay(m) - Awaits(w, m) + Awaits(w, m)'
    BY UnderWayMoves DEF QuotaInv
  <2> QED BY <2>2, <2>3, <2>4
<1>2. ASSUME NEW m \in Model
      PROVE  UnderWay(m)' <= sent'[m] /\ sent'[m] <= Recorded(m)' + UnderWay(m)'
  <2>1. Awaits(w, m) \in 0..1 /\ UnderWay(m) \in 0..2
    BY AwaitsIsOne DEF QuotaInv, Worker
  <2>2. Recorded(m) \in Nat /\ sent[m] \in Int
    BY RecordedIsNat DEF QuotaInv, CountType
  <2>3. UnderWay(m) <= sent[m] /\ sent[m] <= Recorded(m) + UnderWay(m)
    BY DEF QuotaInv, SentInv
  <2>4. Recorded(m)' \in Nat /\ Recorded(m)' >= Recorded(m) + Awaits(w, m)
    BY DEF Records
  <2> QED BY <1>1, <2>1, <2>2, <2>3, <2>4
<1>3. SentInv'
  BY <1>2 DEF SentInv
<1> QED BY <1>3 DEF QuotaInv, QuotaKept

\* A thread that goes on to a model it had nothing to come from sends one more
\* request, for which there is room beside the other thread's.
LEMMA SendsOne ==
  ASSUME Emergency < Limit, QuotaInv, JobType', NEW w \in Worker, Records(w),
         NEW ctx, NEW rest \in SUBSET Place, rest # {}, NEW n \in Model, n = Order[Min(rest)],
         job' = [job EXCEPT ![w] = [ctx |-> ctx, rest |-> rest, old |-> FALSE]],
         sent' = [sent EXCEPT ![n] = @ + 1],
         calls[n] < Emergency, Awaits(w, n) = 0
  PROVE  SentInv' /\ QuotaKept'
<1>1. ASSUME NEW m \in Model
      PROVE  UnderWay(m)' = UnderWay(m) - Awaits(w, m) + (IF m = n THEN 1 ELSE 0)
  <2>1. job'[w] = [ctx |-> ctx, rest |-> rest, old |-> FALSE]
    BY DEF QuotaInv, JobType
  <2>2. Awaits(w, m)' = IF m = n THEN 1 ELSE 0
    BY <2>1 DEF Awaits, Idle, NoJob, Asked
  <2>3. UnderWay(m)' = UnderWay(m) - Awaits(w, m) + Awaits(w, m)'
    BY UnderWayMoves DEF QuotaInv
  <2> QED BY <2>2, <2>3
<1>2. ASSUME NEW m \in Model
      PROVE  sent'[m] = sent[m] + (IF m = n THEN 1 ELSE 0)
  BY DEF QuotaInv, CountType
<1>3. ASSUME NEW m \in Model
      PROVE  /\ UnderWay(m)' <= sent'[m] /\ sent'[m] <= Recorded(m)' + UnderWay(m)'
             /\ sent'[m] <= Limit
  <2>1. Awaits(w, m) \in 0..1 /\ UnderWay(m) \in 0..2
    BY AwaitsIsOne DEF QuotaInv, Worker
  <2>2. Recorded(m) \in Nat /\ sent[m] \in Int /\ Recorded(m) <= calls[m] /\ calls[m] \in Nat
    BY RecordedIsNat DEF QuotaInv, CountType
  <2>3. UnderWay(m) <= sent[m] /\ sent[m] <= Recorded(m) + UnderWay(m) /\ sent[m] <= Limit
    BY DEF QuotaInv, SentInv, QuotaKept
  <2>4. Recorded(m)' \in Nat /\ Recorded(m)' >= Recorded(m) + Awaits(w, m)
    BY DEF Records
  <2>5. m = n => UnderWay(m) <= 1
    BY AwaitsIsOne DEF QuotaInv, Worker, UnderWay
  <2>6. Emergency \in Nat /\ Limit \in Nat
    BY ProviderAssumption
  <2> QED BY <1>1, <1>2, <2>1, <2>2, <2>3, <2>4, <2>5, <2>6
<1> QED BY <1>3 DEF SentInv, QuotaKept

-----------------------------------------------------------------------------
(* The actions *)

\* A thread without a request has nothing to come.
LEMMA IdleRecords ==
  ASSUME QuotaInv, NEW w \in Worker, Idle(w), UNCHANGED <<calls, yesterday>>
  PROVE  Records(w) /\ \A m : Awaits(w, m) = 0
<1>1. \A m : Awaits(w, m) = 0
  BY DEF Awaits
<1>2. ASSUME NEW m \in Model PROVE Recorded(m)' = Recorded(m) /\ Recorded(m) \in Nat
  BY RecordedIsNat DEF QuotaInv, Recorded
<1> QED BY <1>1, <1>2 DEF Records

LEMMA ListedAreCtx == \A ctx \in Contexts : Urgent(ctx) \in BOOLEAN
BY DEF Urgent

\* What Proceed does to the types of the requests and of what was sent.
LEMMA ProceedTypes ==
  ASSUME QuotaInv, NEW w \in Worker, NEW ctx \in Contexts, NEW list \in SUBSET Place, NEW c,
         Proceed(w, ctx, list, c)
  PROVE  JobType' /\ sent' \in [Model -> Int]
<1>1. CASE job' = [job EXCEPT ![w] = NoJob] /\ sent' = sent
  <2>1. NoJob \in Jobs
    BY DEF NoJob, Jobs, Contexts
  <2>2. job' \in [Worker -> Jobs] /\ \A v \in Worker : job'[v] = IF v = w THEN NoJob ELSE job[v]
    BY <1>1, <2>1 DEF QuotaInv, JobType
  <2>3. NoJob.rest = {}
    BY DEF NoJob
  <2> QED BY <1>1, <2>2, <2>3 DEF QuotaInv, JobType, CountType, Idle
<1>2. ASSUME NEW rest \in SUBSET list, rest # {}, Min(rest) \in list,
             job' = [job EXCEPT ![w] = [ctx |-> ctx, rest |-> rest, old |-> FALSE]],
             sent' = [sent EXCEPT ![Order[Min(rest)]] = @ + 1]
      PROVE  JobType' /\ sent' \in [Model -> Int]
  <2> DEFINE new == [ctx |-> ctx, rest |-> rest, old |-> FALSE]
  <2>1. new \in Jobs /\ new.rest = rest /\ new # NoJob
    BY <1>2 DEF Jobs, NoJob
  <2> HIDE DEF new
  <2>2. job' \in [Worker -> Jobs] /\ \A v \in Worker : job'[v] = IF v = w THEN new ELSE job[v]
    BY <1>2, <2>1 DEF QuotaInv, JobType, new
  <2>3. JobType'
    BY <1>2, <2>1, <2>2 DEF QuotaInv, JobType, Idle
  <2>4. sent' \in [Model -> Int]
    <3> DEFINE n == Order[Min(rest)]
    <3>1. n \in Model
      BY <1>2, PlaceFacts
    <3>2. sent \in [Model -> Int] /\ sent' = [sent EXCEPT ![n] = @ + 1]
      BY <1>2 DEF QuotaInv, CountType
    <3> HIDE DEF n
    <3> QED BY <3>1, <3>2
  <2> QED BY <2>3, <2>4
<1> QED BY <1>1, <1>2, ProceedSends DEF QuotaInv

\* An idle thread's first request, or none.
LEMMA IdleProceeds ==
  ASSUME Emergency < Limit, QuotaInv, NEW w \in Worker, Idle(w), UNCHANGED <<calls, yesterday>>,
         NEW ctx \in Contexts, NEW list \in SUBSET Place, NEW c, Proceed(w, ctx, list, c)
  PROVE  QuotaInv'
<1>1. JobType' /\ CountType'
  BY ProceedTypes DEF QuotaInv, CountType
<1>2. Records(w) /\ \A m : Awaits(w, m) = 0
  BY IdleRecords
<1>3. CASE job' = [job EXCEPT ![w] = NoJob] /\ sent' = sent
  BY <1>1, <1>2, <1>3, StopsAsking DEF QuotaInv
<1>4. ASSUME NEW rest \in SUBSET list, rest # {}, Min(rest) \in list,
             CanCall(Order[Min(rest)], Urgent(ctx)),
             job' = [job EXCEPT ![w] = [ctx |-> ctx, rest |-> rest, old |-> FALSE]],
             sent' = [sent EXCEPT ![Order[Min(rest)]] = @ + 1]
      PROVE  QuotaInv'
  <2>1. Order[Min(rest)] \in Model
    BY <1>4, PlaceFacts
  <2>2. calls[Order[Min(rest)]] < Emergency
    BY <1>4, <2>1, CalledHasRoom, ListedAreCtx DEF QuotaInv
  <2> QED BY <1>1, <1>2, <1>4, <2>1, <2>2, SendsOne DEF QuotaInv
<1> QED BY <1>3, <1>4, ProceedSends DEF QuotaInv

\* An answer is recorded, and what follows it goes to another model.
LEMMA AnswerKeeps ==
  ASSUME Emergency < Limit, QuotaInv, NEW w \in Worker, Answer(w)
  PROVE  QuotaInv'
<1> DEFINE first == Min(job[w].rest)
           m0    == Asked(w)
           left  == job[w].rest \ {first}
<1>1. ~Idle(w) /\ job[w] \in Jobs /\ job[w].rest # {} /\ job[w].rest \in SUBSET Place
  BY DEF Answer, QuotaInv, JobType, Jobs
<1>2. first \in job[w].rest /\ first \in Place /\ m0 \in Model /\ m0 = Order[first]
  BY <1>1, MinIsLeast, PlaceFacts DEF Asked
<1>3. calls' = [Today EXCEPT ![m0] = @ + 1] /\ yesterday' = FALSE
  BY DEF Answer, Counted
<1>4. Today \in [Model -> Nat] /\ \A m \in Model : Today[m] = Recorded(m)
  BY DEF QuotaInv, CountType, Today, Zero, Recorded
<1>5. calls' \in [Model -> Nat] /\ yesterday' \in BOOLEAN
  <2>1. m0 \in Model /\ Today \in [Model -> Nat]
    BY <1>2, <1>4
  <2>2. calls' \in [Model -> Nat]
    <3> DEFINE new == [Today EXCEPT ![m0] = @ + 1]
    <3>1. Today[m0] + 1 \in Nat
      BY <2>1
    <3>2. new \in [Model -> Nat]
      <4> HIDE DEF m0
      <4> QED BY <2>1, <3>1
    <3> QED BY <1>3, <3>2
  <2> QED BY <1>3, <2>2
<1>6. Records(w)
  <2>1. ASSUME NEW m \in Model
        PROVE  Recorded(m)' = Recorded(m) + (IF m = m0 THEN 1 ELSE 0)
    <3> HIDE DEF m0
    <3> QED BY <1>2, <1>3, <1>4 DEF Recorded
  <2>2. ASSUME NEW m \in Model PROVE Awaits(w, m) <= IF m = m0 THEN 1 ELSE 0
    BY DEF Awaits
  <2>3. ASSUME NEW m \in Model PROVE Recorded(m) \in Nat /\ Awaits(w, m) \in 0..1
    BY RecordedIsNat DEF QuotaInv, Awaits
  <2> HIDE DEF m0
  <2> QED BY <2>1, <2>2, <2>3 DEF Records
<1>7. CASE job' = [job EXCEPT ![w] = NoJob] /\ sent' = sent
  <2>1. NoJob \in Jobs /\ NoJob.rest = {}
    BY DEF NoJob, Jobs, Contexts
  <2>2. job' \in [Worker -> Jobs] /\ \A v \in Worker : job'[v] = IF v = w THEN NoJob ELSE job[v]
    BY <1>7, <2>1 DEF QuotaInv, JobType
  <2>3. JobType'
    BY <1>7, <2>1, <2>2 DEF QuotaInv, JobType, Idle
  <2>4. CountType'
    BY <1>5, <1>7 DEF QuotaInv, CountType
  <2> QED BY <1>6, <1>7, <2>3, <2>4, StopsAsking DEF QuotaInv
<1>8. ASSUME NEW c, Proceed(w, job[w].ctx, left, c)
      PROVE  QuotaInv'
  <2>1. job[w].ctx \in Contexts /\ left \in SUBSET Place
    BY <1>1 DEF Jobs
  <2>2. JobType' /\ CountType'
    BY <1>5, <1>8, <2>1, ProceedTypes DEF CountType
  <2>3. ASSUME NEW rest \in SUBSET left, rest # {}, Min(rest) \in left,
               CanCall(Order[Min(rest)], Urgent(job[w].ctx)),
               job' = [job EXCEPT ![w] = [ctx |-> job[w].ctx, rest |-> rest, old |-> FALSE]],
               sent' = [sent EXCEPT ![Order[Min(rest)]] = @ + 1]
        PROVE  QuotaInv'
    <3> DEFINE n == Order[Min(rest)]
    <3>1. Min(rest) \in Place /\ Min(rest) # first /\ n \in Model
      BY <2>1, <2>3, PlaceFacts
    <3>2. n # m0
      BY <1>2, <3>1, PlaceFacts
    <3>3. Awaits(w, n) = 0
      BY <3>2 DEF Awaits
    <3>4. calls[n] < Emergency
      BY <2>1, <2>3, <3>1, CalledHasRoom, ListedAreCtx DEF QuotaInv
    <3>5. rest \in SUBSET Place
      BY <2>1, <2>3
    <3> HIDE DEF left
    <3> QED BY <1>6, <2>2, <2>3, <3>1, <3>3, <3>4, <3>5, SendsOne DEF QuotaInv
  <2> HIDE DEF left
  <2> QED BY <1>7, <1>8, <2>1, <2>3, ProceedSends DEF QuotaInv
<1> HIDE DEF left, first
<1> QED BY <1>7, <1>8 DEF Answer, left, first

\* The telemetry looked at as of today says the same.
LEMMA SnapshotRecords ==
  ASSUME QuotaInv, Snapshot
  PROVE  /\ calls' \in [Model -> Nat] /\ yesterday' \in BOOLEAN
         /\ \A m \in Model : Recorded(m)' = Recorded(m)
BY DEF QuotaInv, CountType, Snapshot, Today, Zero, Recorded

\* What a restart loses is what was under way.
LEMMA LostIsUnderWay ==
  ASSUME NEW m
  PROVE  Lost(m) = UnderWay(m)
<1> DEFINE A(w) == ~Idle(w) /\ ~job[w].old /\ Asked(w) = m
           S == {w \in Worker : A(w)}
<1>1. Lost(m) = Cardinality(S)
  BY DEF Lost
<1>2. UnderWay(m) = (IF A("cycle") THEN 1 ELSE 0) + (IF A("side") THEN 1 ELSE 0)
  BY DEF UnderWay, Awaits
<1> HIDE DEF A
<1>3. CASE A("cycle") /\ A("side")
  <2>1. S = {"cycle", "side"}
    BY <1>3 DEF Worker
  <2>2. Cardinality({"cycle"} \cup {"side"}) = 2
    <3>1. IsFiniteSet({"cycle"}) /\ Cardinality({"cycle"}) = 1 /\ "side" \notin {"cycle"}
      BY FS_Singleton
    <3> QED BY <3>1, FS_AddElement
  <2>3. {"cycle"} \cup {"side"} = {"cycle", "side"}
    OBVIOUS
  <2> QED BY <1>1, <1>2, <1>3, <2>1, <2>2, <2>3
<1>4. CASE A("cycle") /\ ~A("side")
  <2>1. S = {"cycle"}
    BY <1>4 DEF Worker
  <2>2. Cardinality({"cycle"}) = 1
    BY FS_Singleton
  <2> QED BY <1>1, <1>2, <1>4, <2>1, <2>2
<1>5. CASE ~A("cycle") /\ A("side")
  <2>1. S = {"side"}
    BY <1>5 DEF Worker
  <2>2. Cardinality({"side"}) = 1
    BY FS_Singleton
  <2> QED BY <1>1, <1>2, <1>5, <2>1, <2>2
<1>6. CASE ~A("cycle") /\ ~A("side")
  <2>1. S = {}
    BY <1>6 DEF Worker
  <2> QED BY <1>1, <1>2, <1>6, <2>1, FS_EmptySet
<1> QED BY <1>3, <1>4, <1>5, <1>6

LEMMA RestartKeeps == ASSUME QuotaInv, Restart PROVE QuotaInv'
<1>1. /\ calls' \in [Model -> Nat] /\ yesterday' \in BOOLEAN
      /\ \A m \in Model : Recorded(m)' = Recorded(m)
  BY SnapshotRecords DEF Restart
<1>2. NoJob \in Jobs /\ NoJob.rest = {}
  BY DEF NoJob, Jobs, Contexts
<1>3. job' = [w \in Worker |-> NoJob]
  BY DEF Restart
<1>4. JobType'
  BY <1>2, <1>3 DEF JobType, Idle
<1>5. ASSUME NEW m \in Model
      PROVE  /\ sent'[m] = sent[m] - UnderWay(m) /\ UnderWay(m)' = 0
             /\ UnderWay(m) \in 0..2 /\ sent[m] \in Int /\ Recorded(m) \in Nat
  <2>1. sent'[m] = sent[m] - UnderWay(m)
    BY LostIsUnderWay DEF Restart
  <2>2. UnderWay(m)' = 0
    BY <1>3 DEF UnderWay, Awaits, Idle, Worker
  <2> QED BY <2>1, <2>2, AwaitsIsOne, RecordedIsNat DEF QuotaInv, CountType
<1>6. sent' \in [Model -> Int]
  <2>1. sent' = [m \in Model |-> sent[m] - Lost(m)]
    BY DEF Restart
  <2>2. \A m \in Model : sent[m] - Lost(m) \in Int
    BY <1>5, LostIsUnderWay
  <2> QED BY <2>1, <2>2
<1>7. ASSUME NEW m \in Model
      PROVE  UnderWay(m)' <= sent'[m] /\ sent'[m] <= Recorded(m)' + UnderWay(m)' /\ sent'[m] <= Limit
  <2>1. UnderWay(m) <= sent[m] /\ sent[m] <= Recorded(m) + UnderWay(m) /\ sent[m] <= Limit
    BY DEF QuotaInv, SentInv, QuotaKept
  <2>2. Limit \in Nat
    BY ProviderAssumption
  <2> QED BY <1>1, <1>5, <2>1, <2>2
<1> QED BY <1>1, <1>4, <1>6, <1>7 DEF QuotaInv, CountType, SentInv, QuotaKept

\* What is under way over midnight is of the day before, for the provider.
LEMMA MidnightKeeps == ASSUME QuotaInv, Midnight PROVE QuotaInv'
<1>1. job' = [w \in Worker |-> IF Idle(w) THEN NoJob ELSE [job[w] EXCEPT !.old = TRUE]]
  BY DEF Midnight
<1>2. ASSUME NEW w \in Worker
      PROVE  job'[w] \in Jobs /\ (job'[w].rest = {} <=> Idle(w)') /\ (~Idle(w)' => job'[w].old)
  <2>1. job[w] \in Jobs /\ (job[w].rest = {} <=> Idle(w))
    BY DEF QuotaInv, JobType
  <2>2. NoJob \in Jobs /\ NoJob.rest = {}
    BY DEF NoJob, Jobs, Contexts
  <2>3. CASE Idle(w)
    BY <1>1, <2>2, <2>3 DEF Idle
  <2>4. CASE ~Idle(w)
    <3>1. job'[w] = [job[w] EXCEPT !.old = TRUE]
      BY <1>1, <2>4
    <3>2. /\ job'[w].ctx = job[w].ctx /\ job'[w].rest = job[w].rest /\ job'[w].old
          /\ job'[w] = [ctx |-> job[w].ctx, rest |-> job[w].rest, old |-> TRUE]
      BY <2>1, <3>1 DEF Jobs
    <3>3. job'[w] \in Jobs
      BY <2>1, <3>2 DEF Jobs
    <3>4. job[w].rest # {}
      BY <2>1, <2>4
    <3>5. job'[w] # NoJob
      BY <2>2, <3>2, <3>4
    <3> QED BY <3>2, <3>3, <3>4, <3>5 DEF Idle
  <2> QED BY <2>3, <2>4
<1>3. JobType'
  BY <1>1, <1>2 DEF JobType
<1>4. ASSUME NEW m \in Model PROVE UnderWay(m)' = 0
  BY <1>2 DEF UnderWay, Awaits, Worker
<1>5. sent' = Zero /\ calls' \in [Model -> Nat] /\ yesterday' \in BOOLEAN
  BY DEF Midnight, QuotaInv, CountType, Zero
<1>6. CountType'
  BY <1>5 DEF CountType, Zero
<1>7. ASSUME NEW m \in Model
      PROVE  UnderWay(m)' <= sent'[m] /\ sent'[m] <= Recorded(m)' + UnderWay(m)' /\ sent'[m] <= Limit
  <2>1. sent'[m] = 0 /\ Limit \in Nat
    BY <1>5, ProviderAssumption DEF Zero
  <2>2. Recorded(m)' \in Nat
    BY <1>5 DEF Recorded
  <2> QED BY <1>4, <2>1, <2>2
<1> QED BY <1>3, <1>6, <1>7 DEF QuotaInv, SentInv, QuotaKept

LEMMA SameKeeps ==
  ASSUME QuotaInv, UNCHANGED <<sent, calls, yesterday, job>>
  PROVE  QuotaInv'
BY DEF QuotaInv, JobType, CountType, SentInv, QuotaKept, UnderWay, Awaits, Recorded, Idle, Asked

LEMMA ListedArePlaces == \A urgent : Listed(urgent) \in SUBSET Place
BY DEF Listed

LEMMA CycleKeeps ==
  ASSUME Emergency < Limit, QuotaInv, CycleRuns
  PROVE  QuotaInv'
<1>0. "cycle" \in Worker /\ {"rank", "holding", "entry"} \subseteq Contexts
  BY DEF Worker, Contexts
<1>1. ASSUME StartCycle PROVE QuotaInv'
  <2>1. Idle("cycle") /\ UNCHANGED <<calls, yesterday>>
    BY <1>1 DEF StartCycle
  <2>2. CASE UNCHANGED <<cool, job, latch, sent>>
    BY <2>1, <2>2, SameKeeps
  <2>3. CASE Proceed("cycle", "rank", Listed(FALSE), cool)
    BY <1>0, <2>1, <2>3, IdleProceeds, ListedArePlaces
  <2> QED BY <1>1, <2>2, <2>3 DEF StartCycle
<1>2. ASSUME BeginLoop PROVE QuotaInv'
  <2>1. Snapshot /\ UNCHANGED <<sent, job>>
    BY <1>2 DEF BeginLoop
  <2>2. /\ calls' \in [Model -> Nat] /\ yesterday' \in BOOLEAN
        /\ \A m \in Model : Recorded(m)' = Recorded(m)
    BY <2>1, SnapshotRecords
  <2>3. JobType' /\ \A m \in Model : UnderWay(m)' = UnderWay(m)
    BY <2>1 DEF QuotaInv, JobType, UnderWay, Awaits, Idle, Asked
  <2>4. SentInv' /\ QuotaKept' /\ CountType'
    BY <2>1, <2>2, <2>3 DEF QuotaInv, SentInv, QuotaKept, CountType
  <2> QED BY <2>3, <2>4 DEF QuotaInv
<1>3. ASSUME Holding PROVE QuotaInv'
  <2>1. /\ Idle("cycle") /\ UNCHANGED <<calls, yesterday>>
        /\ Proceed("cycle", "holding", Listed(TRUE), cool)
    BY <1>3 DEF Holding
  <2> QED BY <1>0, <2>1, IdleProceeds, ListedArePlaces
<1>4. ASSUME Entry PROVE QuotaInv'
  <2>1. Idle("cycle") /\ UNCHANGED <<calls, yesterday>>
    BY <1>4 DEF Entry
  <2>2. CASE UNCHANGED <<job, cool, latch, sent>>
    BY <2>1, <2>2, SameKeeps
  <2>3. CASE Proceed("cycle", "entry", Listed(FALSE), cool)
    BY <1>0, <2>1, <2>3, IdleProceeds, ListedArePlaces
  <2> QED BY <1>4, <2>2, <2>3 DEF Entry
<1>5. ASSUME EndCycle PROVE QuotaInv'
  BY <1>5, SameKeeps DEF EndCycle
<1>6. ASSUME Answer("cycle") PROVE QuotaInv'
  BY <1>0, <1>6, AnswerKeeps
<1> QED BY <1>1, <1>2, <1>3, <1>4, <1>5, <1>6 DEF CycleRuns

LEMMA StepKeepsQuota ==
  ASSUME Emergency < Limit, QuotaInv, [Next]_vars
  PROVE  QuotaInv'
<1>0. "side" \in Worker /\ {"macro", "briefing"} \subseteq Contexts
  BY DEF Worker, Contexts
<1>1. CASE CycleRuns
  BY <1>1, CycleKeeps
<1>2. ASSUME Side PROVE QuotaInv'
  <2>1. PICK ctx \in {"macro", "briefing"} : Proceed("side", ctx, Place, cool)
    BY <1>2 DEF Side
  <2>2. Idle("side") /\ UNCHANGED <<calls, yesterday>>
    BY <1>2 DEF Side
  <2>3. ctx \in Contexts /\ Place \in SUBSET Place
    BY <1>0
  <2> QED BY <1>0, <2>1, <2>2, <2>3, IdleProceeds
<1>3. CASE Answer("side")
  BY <1>0, <1>3, AnswerKeeps
<1>4. CASE Tick
  BY <1>4, SameKeeps DEF Tick
<1>5. CASE Midnight
  BY <1>5, MidnightKeeps
<1>6. CASE Restart
  BY <1>6, RestartKeeps
<1>7. CASE UNCHANGED vars
  BY <1>7, SameKeeps DEF vars
<1> QED BY <1>1, <1>2, <1>3, <1>4, <1>5, <1>6, <1>7 DEF Next

LEMMA InitQuota == Init => QuotaInv
<1> SUFFICES ASSUME Init PROVE QuotaInv
  OBVIOUS
<1>1. NoJob \in Jobs /\ NoJob.rest = {}
  BY DEF NoJob, Jobs, Contexts
<1>2. JobType
  BY <1>1 DEF Init, JobType, Idle
<1>3. CountType
  <2>1. Zero \in [Model -> Nat] /\ Zero \in [Model -> Int] /\ FALSE \in BOOLEAN
    BY DEF Zero
  <2>2. sent = Zero /\ calls = Zero /\ yesterday = FALSE
    BY DEF Init
  <2> HIDE DEF Zero
  <2> QED BY <2>1, <2>2 DEF CountType
<1>4. ASSUME NEW m \in Model
      PROVE  UnderWay(m) = 0 /\ sent[m] = 0 /\ Recorded(m) \in Nat /\ Limit \in Nat
  <2>1. UnderWay(m) = 0
    BY DEF Init, UnderWay, Awaits, Idle, Worker
  <2> QED BY <1>3, <2>1, RecordedIsNat, ProviderAssumption DEF Init, Zero
<1> QED BY <1>2, <1>3, <1>4 DEF QuotaInv, SentInv, QuotaKept

\* The provider is never sent more than its quota of a day, if the emergency
\* share leaves room for a request (490 of 500): two threads that both look
\* before either is counted, a midnight with requests under way, and a restart
\* that forgets them, are all within it (can_call_model_safety).
THEOREM QuotaAlwaysKept ==
  ASSUME Emergency < Limit
  PROVE  Spec => []QuotaKept
<1>1. QuotaInv => QuotaKept
  BY DEF QuotaInv
<1> QED BY <1>1, InitQuota, StepKeepsQuota, PTL DEF Spec
=============================================================================
