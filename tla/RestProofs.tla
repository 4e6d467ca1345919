----------------------------- MODULE RestProofs -----------------------------
(*****************************************************************************)
(* Theorems about the services behind the REST server: the pools of the      *)
(* project, the smart accounts, the session keys and wallets, and the market. *)
(* Every service is taken with any number of users, threads and items, and   *)
(* with the crashes and restarts of RestServer.                              *)
(*****************************************************************************)
EXTENDS RestServer, SumTheorems, TLAPS

-----------------------------------------------------------------------------
(* Requests *)

AllThreads == Handlers \cup {Monitor, ExitMonitor, Relayer, Miner}

IsRequest(r) == r = Request(r.op, r.step, r.id, r.user, r.amt) /\ r.op # "none"

\* What every thread serves: a request, or none.
ReqOk ==
    /\ DOMAIN req = AllThreads /\ req = [h \in AllThreads |-> req[h]]
    /\ \A h \in AllThreads : req[h] = NoRequest \/ IsRequest(req[h])

\* No other thread than h has another request than before.
Rest(h) ==
    /\ DOMAIN req' = AllThreads /\ req' = [g \in AllThreads |-> req'[g]]
    /\ \A g \in AllThreads : g # h => req'[g] = req[g]

\* A request has the fields it is built from, and is not the absence of one.
LEMMA RequestIs ==
    ASSUME NEW op, NEW step, NEW id, NEW user, NEW amt, op # "none"
    PROVE  LET r == Request(op, step, id, user, amt)
           IN IsRequest(r) /\ r.op = op /\ r.step = step /\ r.id = id /\ r.user = user /\ r.amt = amt /\ r # NoRequest
<1>1. NoRequest.op = "none"
  BY DEF NoRequest
<1>2. Request(op, step, id, user, amt).op = op
  BY DEF Request
<1>3. Request(op, step, id, user, amt) # NoRequest
  BY <1>1, <1>2
<1>. QED  BY <1>2, <1>3 DEF Request, IsRequest

\* What a thread serves after each of the four ways in which a request moves.
LEMMA BeginsIs ==
    ASSUME ReqOk, NEW h \in AllThreads, NEW r, Begins(h, r)
    PROVE  /\ Rest(h) /\ req[h] = NoRequest /\ req'[h] = r
           /\ mode = "serial" => \A g \in AllThreads : req[g] = NoRequest
BY DEF ReqOk, Begins, Rest

LEMMA EndsIs ==
    ASSUME ReqOk, NEW h \in AllThreads, Ends(h)
    PROVE  Rest(h) /\ req'[h] = NoRequest
BY DEF ReqOk, Ends, Rest

LEMMA AtIs ==
    ASSUME ReqOk, NEW h \in AllThreads, req[h].op # "none"
    PROVE  IsRequest(req[h]) /\ req[h] # NoRequest
BY DEF ReqOk, NoRequest

LEMMA GoesIs ==
    ASSUME ReqOk, NEW h \in AllThreads, IsRequest(req[h]), NEW step, Goes(h, step)
    PROVE  Rest(h) /\ req'[h] = Request(req[h].op, step, req[h].id, req[h].user, req[h].amt)
<1>1. Rest(h) /\ req'[h] = [req[h] EXCEPT !.step = step]
  BY DEF ReqOk, Goes, Rest
<1>. DEFINE r == req[h]
<1>2. r = Request(r.op, r.step, r.id, r.user, r.amt)
  BY DEF IsRequest
<1>3. [r EXCEPT !.step = step] = Request(r.op, step, r.id, r.user, r.amt)
  <2>. HIDE DEF r
  <2>. QED  BY <1>2 DEF Request
<1>. QED  BY <1>1, <1>3

\* A step of one thread leaves the requests well formed.
LEMMA ReqKept ==
    ASSUME ReqOk, NEW h \in AllThreads, Rest(h), req'[h] = NoRequest \/ IsRequest(req'[h])
    PROVE  ReqOk'
BY DEF ReqOk, Rest

OneAtATime == \A g, h \in AllThreads : req[g] # NoRequest /\ req[h] # NoRequest => g = h

\* One thread has a new request, or none.
LEMMA AloneKept ==
    ASSUME ReqOk, OneAtATime, NEW h \in AllThreads, Rest(h), \A g \in AllThreads : g # h => req[g] = NoRequest
    PROVE  OneAtATime' /\ \A g \in AllThreads : req'[g] # NoRequest => g = h
BY DEF OneAtATime, Rest

-----------------------------------------------------------------------------
(* Pool locks *)

LockFields == {"released", "epochs", "last", "votes", "unlocked", "spent"}

IsLocks(s) ==
    /\ DOMAIN s = LockFields /\ s = [k \in LockFields |-> s[k]]
    /\ s.released \in Nat /\ s.epochs \in Nat /\ s.last \in Int /\ s.last >= -1
    /\ s.votes \subseteq Voters /\ s.unlocked \in BOOLEAN /\ s.spent \in [PoolIds -> Nat]

\* What every copy of the entry satisfies, stale or not.
LocksOk(s, epoch) ==
    /\ IsLocks(s)
    /\ s.released <= PerEpoch * (s.last + 1)
    /\ s.last <= epoch
    /\ s.unlocked => s.votes # {} /\ VoteQuorum(s.votes)

\* The one fact about products that the schedule needs.
LEMMA TimesMonotonic ==
    ASSUME NEW a \in Nat, NEW b \in Nat, NEW c \in Nat, a <= b
    PROVE  c * a <= c * b /\ c * a \in Nat /\ c * b \in Nat /\ c * (a + 1) = c * a + c
<1>1. c * b = c * a + c * (b - a)
  OBVIOUS
<1>2. c * (b - a) \in Nat
  OBVIOUS
<1>. QED  BY <1>1, <1>2

\* on_epoch_boundary of an epoch that the chain has reached.
LEMMA EpochReleasedOk ==
    ASSUME NEW s, NEW epoch \in Nat, LocksOk(s, epoch), NEW e \in Nat, e <= epoch
    PROVE  /\ LocksOk(EpochReleased(s, e), epoch)
           /\ EpochReleased(s, e).spent = s.spent /\ EpochReleased(s, e).unlocked = s.unlocked
           /\ s.released <= EpochReleased(s, e).released
<1>0. IsLocks(s)
  BY DEF LocksOk
<1>1. CASE e <= s.last
  BY <1>0, <1>1 DEF EpochReleased, IsLocks
<1>2. CASE ~ (e <= s.last)
  <2>. DEFINE t == [s EXCEPT !.last = e,
                       !.epochs = IF @ < ReleaseEpochs THEN @ + 1 ELSE @,
                       !.released = IF s.epochs < ReleaseEpochs THEN @ + PerEpoch ELSE @]
  <2>1. EpochReleased(s, e) = t
    BY <1>2 DEF EpochReleased
  <2>2. /\ DOMAIN t = LockFields /\ t = [k \in LockFields |-> t[k]]
        /\ t.last = e /\ t.votes = s.votes /\ t.unlocked = s.unlocked /\ t.spent = s.spent
        /\ t.epochs = (IF s.epochs < ReleaseEpochs THEN s.epochs + 1 ELSE s.epochs)
        /\ t.released = (IF s.epochs < ReleaseEpochs THEN s.released + PerEpoch ELSE s.released)
    BY <1>0 DEF IsLocks, LockFields
  <2>. HIDE DEF t
  <2>3. t.released \in Nat /\ t.epochs \in Nat /\ s.released <= t.released /\ t.released <= s.released + PerEpoch
    BY <1>0, <2>2, PoolLocksAssumption DEF IsLocks
  <2>4. IsLocks(t)
    BY <1>0, <2>2, <2>3 DEF IsLocks
  <2>5. t.released <= PerEpoch * (t.last + 1)
    <3>. DEFINE a == s.last + 1
    <3>1. a \in Nat /\ a + 1 <= e + 1 /\ PerEpoch \in Nat /\ s.last + 1 = a
      BY <1>0, <1>2, PoolLocksAssumption DEF IsLocks
    <3>. HIDE DEF a
    <3>2. PerEpoch * (a + 1) <= PerEpoch * (e + 1) /\ PerEpoch * (a + 1) = PerEpoch * a + PerEpoch
          /\ PerEpoch * a \in Nat /\ PerEpoch * (e + 1) \in Nat
      BY <3>1, TimesMonotonic
    <3>3. s.released <= PerEpoch * a /\ s.released \in Nat
      BY <3>1 DEF LocksOk, IsLocks
    <3>. QED  BY <2>2, <2>3, <3>1, <3>2, <3>3
  <2>. QED  BY <2>1, <2>2, <2>3, <2>4, <2>5 DEF LocksOk
<1>. QED  BY <1>0, <1>1, <1>2 DEF IsLocks

\* The loop of catch_up_epochs, up to epoch n.
IsLoop(g, s, n) == g = [e \in -1..n |-> IF e = -1 THEN s ELSE EpochReleased(g[e - 1], e)]

\* The loop of catch_up_epochs has a result: every epoch is computed from the one before.
LEMMA LoopExists ==
    ASSUME NEW s, NEW n \in Nat
    PROVE  \E g : IsLoop(g, s, n)
<1>. DEFINE D == {m \in Nat : \E g : IsLoop(g, s, m - 1)}
<1>1. 0 \in D
  <2>. DEFINE g == [e \in -1..(-1) |-> s]
  <2>1. g = [e \in -1..(-1) |-> IF e = -1 THEN s ELSE EpochReleased(g[e - 1], e)]
    OBVIOUS
  <2>2. IsLoop(g, s, 0 - 1)
    <3>1. 0 - 1 = -1
      OBVIOUS
    <3>. QED  BY <2>1, <3>1 DEF IsLoop
  <2>. QED  BY <2>2
<1>2. ASSUME NEW m \in Nat, m \in D PROVE m + 1 \in D
  <2>1. PICK g : IsLoop(g, s, m - 1)
    BY <1>2
  <2>2. /\ \A e \in -1..(m - 1) : g[e] = IF e = -1 THEN s ELSE EpochReleased(g[e - 1], e)
    BY <2>1 DEF IsLoop
  <2>. DEFINE f == [e \in -1..m |-> IF e = m THEN EpochReleased(g[m - 1], m) ELSE g[e]]
  <2>3. ASSUME NEW e \in -1..m PROVE f[e] = IF e = -1 THEN s ELSE EpochReleased(f[e - 1], e)
    <3>1. CASE e = m
      <4>1. m - 1 \in -1..m /\ m - 1 # m
        OBVIOUS
      <4>2. f[m - 1] = g[m - 1]
        BY <4>1
      <4>3. f[m] = EpochReleased(g[m - 1], m) /\ m # -1
        OBVIOUS
      <4>. QED  BY <3>1, <4>2, <4>3
    <3>2. CASE e # m
      <4>1. e \in -1..(m - 1) /\ f[e] = g[e]
        BY <3>2
      <4>2. CASE e = -1
        BY <2>2, <4>1, <4>2
      <4>3. CASE e # -1
        <5>1. e - 1 \in -1..m /\ e - 1 # m
          BY <4>1, <4>3
        <5>2. f[e - 1] = g[e - 1]
          BY <5>1
        <5>. QED  BY <2>2, <4>1, <4>3, <5>2
      <4>. QED  BY <4>2, <4>3
    <3>. QED  BY <3>1, <3>2
  <2>4. f = [e \in -1..m |-> f[e]]
    OBVIOUS
  <2>. HIDE DEF f
  <2>5. IsLoop(f, s, m)
    BY <2>3, <2>4 DEF IsLoop
  <2>6. m = (m + 1) - 1 /\ m + 1 \in Nat
    OBVIOUS
  <2>. QED  BY <2>5, <2>6
<1>. HIDE DEF D
<1>3. Nat \subseteq D
  BY <1>1, <1>2, NatSetInduction
<1>4. n + 1 \in D /\ (n + 1) - 1 = n
  BY <1>3
<1>. QED  BY <1>4 DEF D

\* Catching up with the epochs keeps what holds of the entry.
LEMMA CaughtUpOk ==
    ASSUME NEW s, NEW epoch \in Nat, LocksOk(s, epoch)
    PROVE  LocksOk(CaughtUp(s, epoch), epoch)
<1>. DEFINE c == CHOOSE g : IsLoop(g, s, epoch)
<1>1. CaughtUp(s, epoch) = c[epoch]
  BY DEF CaughtUp, IsLoop
<1>2. IsLoop(c, s, epoch)
  BY LoopExists
<1>. HIDE DEF c
<1>. DEFINE D == {n \in Nat : n <= epoch + 1 => LocksOk(c[n - 1], epoch)}
<1>3. \A e \in -1..epoch : c[e] = IF e = -1 THEN s ELSE EpochReleased(c[e - 1], e)
  BY <1>2 DEF IsLoop
<1>4. 0 \in D
  <2>1. 0 - 1 = -1 /\ -1 \in -1..epoch
    OBVIOUS
  <2>. QED  BY <1>3, <2>1
<1>5. ASSUME NEW n \in Nat, n \in D PROVE n + 1 \in D
  <2>. SUFFICES ASSUME n + 1 <= epoch + 1 PROVE LocksOk(c[(n + 1) - 1], epoch)
    OBVIOUS
  <2>1. n \in -1..epoch /\ n # -1 /\ (n + 1) - 1 = n /\ n <= epoch
    OBVIOUS
  <2>2. c[n] = EpochReleased(c[n - 1], n) /\ LocksOk(c[n - 1], epoch)
    BY <1>3, <1>5, <2>1
  <2>. QED  BY <2>1, <2>2, EpochReleasedOk
<1>. HIDE DEF D
<1>6. Nat \subseteq D
  BY <1>4, <1>5, NatSetInduction
<1>7. epoch + 1 \in D /\ (epoch + 1) - 1 = epoch
  BY <1>6
<1>. QED  BY <1>1, <1>7 DEF D

PoolRequest(r, epoch) ==
    /\ r.op \in {"epoch", "vote", "spend"}
    /\ LocksOk(r.id, epoch)
    /\ r.op = "epoch" => r.amt \in Nat /\ r.amt <= epoch
    /\ r.op = "vote" => r.user \in Voters
    /\ r.op = "spend" => r.user[1] \in PoolIds /\ r.amt \in Nat /\ r.step \in {"debit", "credit", "load", "save"}

\* What has been paid out and is not recorded yet by the request r.
Unrecorded(r, p) == IF r.op = "spend" /\ r.step \in {"load", "save"} /\ p = r.user[1] THEN r.amt ELSE 0

Free(s, p) == IF p = "staking" THEN s.released ELSE IF s.unlocked THEN PoolTotal ELSE 0

\* One request after another: the entry is what the request has loaded, and says what
\* was paid out but for the request's own amount, which is free.
PoolSerial(r, s, paid) ==
    /\ r.op # "spend" \/ r.step = "save" => r.id = s
    /\ \A p \in PoolIds : paid[p] = s.spent[p] + Unrecorded(r, p)
    /\ r.op = "spend" => s.spent[r.user[1]] + r.amt <= Free(s, r.user[1])

\* Not inductive is what a thread writes back: the entry it loaded, and the check it made, are older.
\* While it is under way, the entry is one that the schedule allows, and without overlap the one on disk.
PoolsInv ==
    /\ chainEpoch \in Nat /\ LocksOk(locksMeta, chainEpoch) /\ paidOut \in [PoolIds -> Nat]
    /\ service = "pools" =>
          /\ ReqOk
          /\ \A h \in AllThreads : req[h] # NoRequest => PoolRequest(req[h], chainEpoch)
    /\ service # "pools" => \A p \in PoolIds : paidOut[p] = 0 
    /\ mode = "serial" /\ service # "pools" => \A p \in PoolIds : locksMeta.spent[p] = 0
    /\ mode = "serial" =>
          /\ \A p \in PoolIds : locksMeta.spent[p] <= Free(locksMeta, p)
          /\ service = "pools" =>
                /\ \A g, h \in AllThreads : req[g] # NoRequest /\ req[h] # NoRequest => g = h
                /\ \A h \in AllThreads : req[h] # NoRequest => PoolSerial(req[h], locksMeta, paidOut)
                /\ (\A h \in AllThreads : req[h] = NoRequest) => \A p \in PoolIds : paidOut[p] = locksMeta.spent[p]

\* What a pool may pay is a number, whatever the entry says.
LEMMA ReleasableIs ==
    /\ \A p \in PoolIds : Releasable(p) = Free(locksMeta, p) 
    /\ \A s, epoch : LocksOk(s, epoch) => \A p \in PoolIds : Free(s, p) \in Nat
<1>1. ASSUME NEW p \in PoolIds PROVE Releasable(p) = Free(locksMeta, p)
  BY DEF Releasable, Free
<1>2. \A s, epoch : LocksOk(s, epoch) => \A p \in PoolIds : Free(s, p) \in Nat
  BY PoolLocksAssumption DEF Free, LocksOk, IsLocks
<1>. QED  BY <1>1, <1>2

\* The inductive invariant gives the three properties.
LEMMA PoolsPaid == PoolsInv => ReleasedBySchedule /\ PaidWithinRelease /\ OpenedByMajority
<1>. SUFFICES ASSUME PoolsInv PROVE ReleasedBySchedule /\ PaidWithinRelease /\ OpenedByMajority
  OBVIOUS
<1>1. ReleasedBySchedule
  BY DEF PoolsInv, LocksOk, ReleasedBySchedule
<1>2. PaidWithinRelease
  <2>. SUFFICES ASSUME mode = "serial", NEW p \in PoolIds PROVE paidOut[p] <= Releasable(p)
    BY DEF PaidWithinRelease
  <2>0. Releasable(p) = Free(locksMeta, p) /\ Free(locksMeta, p) \in Nat /\ locksMeta.spent[p] \in Nat /\ locksMeta.spent[p] <= Free(locksMeta, p)
    BY ReleasableIs DEF PoolsInv, LocksOk, IsLocks
  <2>1. CASE service # "pools"
    BY <2>0, <2>1 DEF PoolsInv
  <2>2. CASE service = "pools" /\ \A h \in AllThreads : req[h] = NoRequest
    BY <2>0, <2>2 DEF PoolsInv
  <2>3. ASSUME service = "pools", NEW h \in AllThreads, req[h] # NoRequest PROVE paidOut[p] <= Releasable(p)
    <3>1. PoolSerial(req[h], locksMeta, paidOut) /\ PoolRequest(req[h], chainEpoch)
      BY <2>3 DEF PoolsInv
    <3>. QED  BY <2>0, <3>1 DEF PoolSerial, PoolRequest, Unrecorded
  <2>. QED  BY <2>1, <2>2, <2>3
<1>3. OpenedByMajority
  <2>. SUFFICES ASSUME locksMeta.unlocked PROVE 2 * Cardinality(locksMeta.votes) > Cardinality(Voters)
    BY DEF OpenedByMajority
  <2>. DEFINE v == locksMeta.votes
  <2>1. v \subseteq Voters /\ v # {} /\ 100 * Cardinality(v) >= 51 * Cardinality(Voters)
    BY DEF PoolsInv, LocksOk, IsLocks, VoteQuorum
  <2>. HIDE DEF v
  <2>2. Cardinality(v) \in Nat /\ Cardinality(Voters) \in Nat /\ Cardinality(v) # 0
    BY <2>1, PoolLocksAssumption, Smaller
  <2>3. 2 * Cardinality(v) > Cardinality(Voters)
    BY <2>1, <2>2
  <2>. QED  BY <2>3 DEF v
<1>. QED  BY <1>1, <1>2, <1>3

\* The entry that the first start writes.
LEMMA FirstStateOk == LocksOk(FirstState, 0) /\ FirstState.spent = [p \in PoolIds |-> 0]
<1>0. DOMAIN FirstState = LockFields /\ FirstState = [k \in LockFields |-> FirstState[k]] /\ FirstState.unlocked = FALSE
  BY DEF FirstState, LockFields
<1>1. IsLocks(FirstState) /\ FirstState.last = -1 /\ FirstState.released = 0
      /\ FirstState.spent = [p \in PoolIds |-> 0]
  BY <1>0 DEF FirstState, IsLocks
<1>2. PerEpoch * (-1 + 1) = 0
  BY PoolLocksAssumption
<1>. QED  BY <1>0, <1>1, <1>2 DEF LocksOk

LEMMA PoolsStart == RestInit => PoolsInv
<1>. SUFFICES ASSUME RestInit PROVE PoolsInv
  OBVIOUS
<1>1. locksMeta = FirstState /\ chainEpoch = 0 /\ paidOut = [p \in PoolIds |-> 0] /\ req = [h \in AllThreads |-> NoRequest]
  BY DEF RestInit, PoolsInit, ServicesInit, AllThreads
<1>2. ReqOk
  BY <1>1 DEF ReqOk
<1>3. LocksOk(locksMeta, chainEpoch) /\ \A p \in PoolIds : locksMeta.spent[p] = 0 /\ paidOut[p] = 0
  BY <1>1, FirstStateOk
<1>4. \A p \in PoolIds : Free(locksMeta, p) \in Nat
  BY <1>3, ReleasableIs
<1>5. paidOut \in [PoolIds -> Nat] /\ \A h \in AllThreads : req[h] = NoRequest
  BY <1>1
<1>. QED  BY <1>1, <1>2, <1>3, <1>4, <1>5 DEF PoolsInv

\* A request of h ends: the entry becomes s.
LEMMA PoolsSaved ==
    ASSUME PoolsInv, service = "pools", NEW h \in AllThreads, req[h] # NoRequest, Rest(h), req'[h] = NoRequest,
           NEW s, LocksOk(s, chainEpoch), locksMeta' = s, UNCHANGED <<mode, service, chainEpoch, paidOut>>,
           mode = "serial" => \A p \in PoolIds : s.spent[p] = paidOut[p] /\ s.spent[p] <= Free(s, p)
    PROVE  PoolsInv'
<1>0. ReqOk'
  BY ReqKept DEF PoolsInv
<1>1. \A g \in AllThreads : req'[g] # NoRequest => req'[g] = req[g] /\ g # h
  BY DEF Rest
<1>2. ASSUME mode = "serial" PROVE \A g \in AllThreads : req'[g] = NoRequest
  BY <1>1, <1>2 DEF PoolsInv
<1>. QED  BY <1>0, <1>1, <1>2 DEF PoolsInv

\* Nothing but the request of h changes.
LEMMA PoolsGoesOn ==
    ASSUME PoolsInv, service = "pools", NEW h \in AllThreads, Rest(h), IsRequest(req'[h]), req'[h] # NoRequest,
           PoolRequest(req'[h], chainEpoch'), chainEpoch' \in Nat, chainEpoch <= chainEpoch', paidOut' \in [PoolIds -> Nat],
           UNCHANGED <<mode, service, locksMeta>>,
           mode = "serial" => (\A g \in AllThreads : g # h => req[g] = NoRequest) /\ PoolSerial(req'[h], locksMeta', paidOut')
    PROVE  PoolsInv'
<1>0. ReqOk'
  BY ReqKept DEF PoolsInv
<1>1. \A s : LocksOk(s, chainEpoch) => LocksOk(s, chainEpoch')
  <2>1. \A s : IsLocks(s) => s.last \in Int
    BY DEF IsLocks
  <2>2. chainEpoch \in Nat
    BY DEF PoolsInv
  <2>. QED  BY <2>1, <2>2 DEF LocksOk
<1>2. \A g \in AllThreads : req'[g] # NoRequest => PoolRequest(req'[g], chainEpoch')
  <2>. SUFFICES ASSUME NEW g \in AllThreads, req'[g] # NoRequest PROVE PoolRequest(req'[g], chainEpoch')
    OBVIOUS
  <2>1. CASE g # h
    <3>1. req'[g] = req[g] /\ PoolRequest(req[g], chainEpoch)
      BY <2>1 DEF Rest, PoolsInv
    <3>. QED  BY <1>1, <3>1 DEF PoolRequest, PoolsInv
  <2>. QED  BY <2>1
<1>3. ASSUME mode = "serial" PROVE \A g \in AllThreads : g # h => req'[g] = NoRequest
  BY <1>3 DEF Rest
<1>. QED  BY <1>0, <1>1, <1>2, <1>3 DEF PoolsInv

\* What is known of a request while it is served.
LEMMA BusyAlone ==
    ASSUME PoolsInv, service = "pools", NEW h \in AllThreads, req[h].op # "none"
    PROVE  /\ ReqOk /\ IsRequest(req[h]) /\ req[h] # NoRequest /\ PoolRequest(req[h], chainEpoch)
           /\ mode = "serial" => PoolSerial(req[h], locksMeta, paidOut) /\ \A g \in AllThreads : g # h => req[g] = NoRequest
BY AtIs DEF PoolsInv

\* The epoch boundary, which loads the entry in one step and saves it in another.
LEMMA EpochStep ==
    ASSUME PoolsInv, service = "pools", UNCHANGED <<mode, service>>, MinedBoundary \/ EpochSave
    PROVE  PoolsInv'
<1>0. Miner \in AllThreads /\ ReqOk /\ chainEpoch \in Nat /\ LocksOk(locksMeta, chainEpoch)
  BY DEF AllThreads, PoolsInv
<1>1. CASE MinedBoundary
  <2>. DEFINE r == Request("epoch", "save", locksMeta, "none", chainEpoch + 1)
  <2>1. /\ Begins(Miner, r) /\ chainEpoch' = chainEpoch + 1 /\ UNCHANGED <<locksMeta, paidOut>>
    BY <1>1 DEF MinedBoundary
  <2>2. IsRequest(r) /\ r.op = "epoch" /\ r.id = locksMeta /\ r.amt = chainEpoch + 1 /\ r # NoRequest
    BY RequestIs
  <2>. HIDE DEF r
  <2>3. Rest(Miner) /\ req'[Miner] = r /\ (mode = "serial" => \A g \in AllThreads : req[g] = NoRequest)
    BY <1>0, <2>1, BeginsIs
  <2>4. PoolRequest(r, chainEpoch')
    BY <1>0, <2>1, <2>2 DEF PoolRequest, LocksOk, IsLocks
  <2>5. mode = "serial" => PoolSerial(r, locksMeta', paidOut')
    <3>1. \A p \in PoolIds : Unrecorded(r, p) = 0 /\ locksMeta.spent[p] \in Nat
      BY <1>0, <2>2 DEF Unrecorded, LocksOk, IsLocks
    <3>2. mode = "serial" => \A p \in PoolIds : paidOut[p] = locksMeta.spent[p]
      BY <2>3 DEF PoolsInv
    <3>. QED  BY <2>1, <2>2, <3>1, <3>2 DEF PoolSerial
  <2>6. chainEpoch' \in Nat /\ chainEpoch <= chainEpoch' /\ paidOut' \in [PoolIds -> Nat]
    BY <1>0, <2>1 DEF PoolsInv
  <2>. QED  BY <1>0, <2>1, <2>2, <2>3, <2>4, <2>5, <2>6, PoolsGoesOn
<1>2. CASE EpochSave
  <2>. DEFINE r == req[Miner]
              s == EpochReleased(r.id, r.amt)
  <2>1. r.op = "epoch" /\ locksMeta' = s /\ Ends(Miner) /\ UNCHANGED <<chainEpoch, paidOut>>
    BY <1>2 DEF EpochSave, At, Loaded
  <2>2. /\ r # NoRequest /\ PoolRequest(r, chainEpoch) /\ (mode = "serial" => PoolSerial(r, locksMeta, paidOut))
    BY <1>0, <2>1, BusyAlone
  <2>3. LocksOk(r.id, chainEpoch) /\ r.amt \in Nat /\ r.amt <= chainEpoch
    BY <2>1, <2>2 DEF PoolRequest
  <2>4. LocksOk(s, chainEpoch) /\ s.spent = r.id.spent /\ s.unlocked = r.id.unlocked /\ r.id.released <= s.released
    <3>. HIDE DEF r
    <3>. QED  BY <1>0, <2>3, EpochReleasedOk
  <2>5. Rest(Miner) /\ req'[Miner] = NoRequest
    BY <1>0, <2>1, EndsIs
  <2>6. ASSUME mode = "serial", NEW p \in PoolIds PROVE s.spent[p] = paidOut[p] /\ s.spent[p] <= Free(s, p)
    <3>. HIDE DEF s
    <3>1. r.id = locksMeta /\ paidOut[p] = locksMeta.spent[p] + 0 /\ locksMeta.spent[p] \in Nat
      BY <1>0, <2>1, <2>2, <2>6 DEF PoolSerial, Unrecorded, LocksOk, IsLocks
    <3>2. locksMeta.spent[p] <= Free(locksMeta, p) /\ Free(locksMeta, p) <= Free(s, p) /\ Free(locksMeta, p) \in Nat /\ Free(s, p) \in Nat
      <4>1. Free(locksMeta, p) \in Nat /\ Free(s, p) \in Nat
        BY <1>0, <2>4, ReleasableIs
      <4>. QED  BY <2>4, <2>6, <3>1, <4>1 DEF Free, PoolsInv
    <3>. QED  BY <2>4, <3>1, <3>2
  <2>. HIDE DEF r, s
  <2>. QED  BY <1>0, <2>1, <2>2, <2>4, <2>5, <2>6, PoolsSaved DEF r
<1>. QED  BY <1>1, <1>2

\* A vote of a validator: the majority is counted on the entry that was loaded.
LEMMA VoteStep ==
    ASSUME PoolsInv, service = "pools", UNCHANGED <<mode, service>>, NEW h \in Handlers, PostPoolsDaoVote(h) \/ VoteSave(h)
    PROVE  PoolsInv'
<1>0. h \in AllThreads /\ ReqOk /\ chainEpoch \in Nat /\ LocksOk(locksMeta, chainEpoch) /\ paidOut \in [PoolIds -> Nat]
  BY DEF AllThreads, PoolsInv
<1>1. CASE PostPoolsDaoVote(h)
  <2>0. PICK v \in Voters : DaoVote(h, v)
    BY <1>1 DEF PostPoolsDaoVote
  <2>. DEFINE r == Request("vote", "save", locksMeta, v, 0)
  <2>1. /\ Begins(h, r) /\ UNCHANGED <<locksMeta, chainEpoch, paidOut>>
    BY <2>0 DEF DaoVote
  <2>2. IsRequest(r) /\ r.op = "vote" /\ r.id = locksMeta /\ r.user = v /\ r # NoRequest
    BY RequestIs
  <2>. HIDE DEF r
  <2>3. Rest(h) /\ req'[h] = r /\ (mode = "serial" => \A g \in AllThreads : req[g] = NoRequest)
    BY <1>0, <2>1, BeginsIs
  <2>4. PoolRequest(r, chainEpoch')
    BY <1>0, <2>1, <2>2 DEF PoolRequest
  <2>5. mode = "serial" => PoolSerial(r, locksMeta', paidOut')
    <3>1. \A p \in PoolIds : Unrecorded(r, p) = 0 /\ locksMeta.spent[p] \in Nat
      BY <1>0, <2>2 DEF Unrecorded, LocksOk, IsLocks
    <3>2. mode = "serial" => \A p \in PoolIds : paidOut[p] = locksMeta.spent[p]
      BY <2>3 DEF PoolsInv
    <3>. QED  BY <2>1, <2>2, <3>1, <3>2 DEF PoolSerial
  <2>. QED  BY <1>0, <2>1, <2>2, <2>3, <2>4, <2>5, PoolsGoesOn
<1>2. CASE VoteSave(h)
  <2>. DEFINE r == req[h]
              votes == r.id.votes \cup {r.user}
              s == [r.id EXCEPT !.votes = votes, !.unlocked = @ \/ VoteQuorum(votes)]
  <2>1. r.op = "vote" /\ locksMeta' = s /\ Ends(h) /\ UNCHANGED <<chainEpoch, paidOut>>
    BY <1>2 DEF VoteSave, At, Loaded
  <2>2. /\ r # NoRequest /\ PoolRequest(r, chainEpoch) /\ (mode = "serial" => PoolSerial(r, locksMeta, paidOut))
    BY <1>0, <2>1, BusyAlone
  <2>3. LocksOk(r.id, chainEpoch) /\ r.user \in Voters /\ IsLocks(r.id)
    BY <2>1, <2>2 DEF PoolRequest, LocksOk
  <2>. HIDE DEF r, votes
  <2>4. /\ DOMAIN s = LockFields /\ s = [k \in LockFields |-> s[k]] /\ s.spent = r.id.spent /\ s.released = r.id.released
        /\ s.last = r.id.last /\ s.epochs = r.id.epochs /\ s.votes = votes /\ s.unlocked = (r.id.unlocked \/ VoteQuorum(votes))
    BY <2>3 DEF IsLocks, LockFields
  <2>. HIDE DEF s
  <2>5. r.id.votes \subseteq votes /\ votes \subseteq Voters /\ votes # {}
    BY <2>3 DEF votes, IsLocks
  <2>6. s.unlocked \in BOOLEAN /\ (r.id.unlocked => s.unlocked)
    BY <2>4
  <2>7. s.unlocked => VoteQuorum(votes)
    <3>1. VoteQuorum(r.id.votes) => VoteQuorum(votes)
      <4>1. IsFiniteSet(votes) /\ Cardinality(r.id.votes) \in Nat /\ Cardinality(votes) \in Nat
            /\ Cardinality(r.id.votes) <= Cardinality(votes) /\ Cardinality(Voters) \in Nat
        <5>1. IsFiniteSet(votes) /\ Cardinality(Voters) \in Nat
          BY <2>5, PoolLocksAssumption, Smaller
        <5>. QED  BY <2>5, <5>1, Smaller
      <4>. QED  BY <4>1 DEF VoteQuorum
    <3>2. r.id.unlocked => VoteQuorum(r.id.votes)
      BY <2>3 DEF LocksOk
    <3>. QED  BY <2>4, <3>1, <3>2
  <2>8. LocksOk(s, chainEpoch)
    <3>1. IsLocks(s)
      BY <2>3, <2>4, <2>5, <2>6 DEF IsLocks
    <3>. QED  BY <2>3, <2>4, <2>5, <2>7, <3>1 DEF LocksOk
  <2>9. Rest(h) /\ req'[h] = NoRequest
    BY <1>0, <2>1, EndsIs
  <2>10. ASSUME mode = "serial", NEW p \in PoolIds PROVE s.spent[p] = paidOut[p] /\ s.spent[p] <= Free(s, p)
    <3>1. r.id = locksMeta /\ paidOut[p] = locksMeta.spent[p] + 0 /\ locksMeta.spent[p] \in Nat
      BY <1>0, <2>1, <2>2, <2>10 DEF PoolSerial, Unrecorded, LocksOk, IsLocks
    <3>2. locksMeta.spent[p] <= Free(locksMeta, p) /\ Free(locksMeta, p) <= Free(s, p) /\ Free(locksMeta, p) \in Nat /\ Free(s, p) \in Nat
      <4>1. Free(locksMeta, p) \in Nat /\ Free(s, p) \in Nat
        BY <1>0, <2>8, ReleasableIs
      <4>2. locksMeta.spent[p] <= Free(locksMeta, p)
        BY <2>10 DEF PoolsInv
      <4>3. Free(locksMeta, p) <= Free(s, p)
        BY <2>4, <2>6, <3>1, <4>1, PoolLocksAssumption DEF Free
      <4>. QED  BY <4>1, <4>2, <4>3
    <3>. QED  BY <2>4, <3>1, <3>2
  <2>. QED  BY <1>0, <2>1, <2>2, <2>8, <2>9, <2>10, PoolsSaved DEF r
<1>. QED  BY <1>1, <1>2

\* A spending goes to its next step; paid is what has been paid out by then.
LEMMA SpendGoes ==
    ASSUME PoolsInv, service = "pools", NEW h \in AllThreads, req[h].op = "spend", NEW step, Goes(h, step),
           step \in {"credit", "load"}, req[h].step # "save",
           UNCHANGED <<mode, service, locksMeta, chainEpoch>>, paidOut' \in [PoolIds -> Nat],
           \A p \in PoolIds : paidOut'[p] = paidOut[p] + (IF p = req[h].user[1] /\ step = "load" THEN req[h].amt ELSE 0),
           req[h].step \in {"debit", "credit"}
    PROVE  PoolsInv'
<1>. DEFINE r == req[h]
            n == Request(r.op, step, r.id, r.user, r.amt)
<1>1. ReqOk /\ IsRequest(r) /\ PoolRequest(r, chainEpoch)
      /\ (mode = "serial" => PoolSerial(r, locksMeta, paidOut) /\ \A g \in AllThreads : g # h => req[g] = NoRequest)
  BY BusyAlone
<1>2. Rest(h) /\ req'[h] = n
  BY <1>1, GoesIs
<1>3. IsRequest(n) /\ n.op = "spend" /\ n.step = step /\ n.id = r.id /\ n.user = r.user /\ n.amt = r.amt /\ n # NoRequest
  BY RequestIs
<1>. HIDE DEF n, r
<1>4. PoolRequest(n, chainEpoch')
  BY <1>1, <1>3 DEF PoolRequest, r
<1>5. ASSUME mode = "serial" PROVE PoolSerial(n, locksMeta', paidOut')
  <2>1. \A p \in PoolIds : paidOut[p] = locksMeta.spent[p] + 0 /\ locksMeta.spent[p] \in Nat /\ r.amt \in Nat
    BY <1>1, <1>5 DEF PoolSerial, Unrecorded, PoolRequest, PoolsInv, LocksOk, IsLocks, r
  <2>2. \A p \in PoolIds : paidOut'[p] = locksMeta.spent[p] + Unrecorded(n, p)
    BY <1>3, <2>1 DEF Unrecorded, r
  <2>3. locksMeta.spent[n.user[1]] + n.amt <= Free(locksMeta, n.user[1])
    BY <1>1, <1>3, <1>5 DEF PoolSerial, r
  <2>. QED  BY <1>3, <2>2, <2>3 DEF PoolSerial
<1>6. chainEpoch \in Nat
  BY DEF PoolsInv
<1>. QED  BY <1>1, <1>2, <1>3, <1>4, <1>5, <1>6, PoolsGoesOn

\* A payment out of a pool: the check, the two balances and the entry are separate steps.
LEMMA SpendStep ==
    ASSUME PoolsInv, service = "pools", UNCHANGED <<mode, service>>, NEW h \in Handlers,
           PostPoolsSpend(h) \/ SpendDebit(h) \/ SpendCredit(h) \/ SpendLoad(h) \/ SpendSave(h)
    PROVE  PoolsInv'
<1>0. h \in AllThreads /\ ReqOk /\ chainEpoch \in Nat /\ LocksOk(locksMeta, chainEpoch) /\ paidOut \in [PoolIds -> Nat]
      /\ \A p \in PoolIds : locksMeta.spent[p] \in Nat /\ Free(locksMeta, p) \in Nat
  BY ReleasableIs DEF AllThreads, PoolsInv, LocksOk, IsLocks
<1>1. CASE PostPoolsSpend(h)
  <2>0. PICK q \in PoolIds, u \in Users, x \in Amounts : PoolSpend(h, q, u, x)
    BY <1>1 DEF PostPoolsSpend
  <2>. DEFINE r == Request("spend", "debit", locksMeta, <<q, u>>, x)
  <2>1. /\ Begins(h, r) /\ UNCHANGED <<locksMeta, chainEpoch, paidOut>> /\ x <= Free(locksMeta, q) - locksMeta.spent[q] /\ x \in Nat
    BY <2>0, ReleasableIs, ServicesAssumption DEF PoolSpend, Spendable
  <2>2. IsRequest(r) /\ r.op = "spend" /\ r.step = "debit" /\ r.id = locksMeta /\ r.user = <<q, u>> /\ r.amt = x /\ r # NoRequest
    BY RequestIs
  <2>. HIDE DEF r
  <2>3. Rest(h) /\ req'[h] = r /\ (mode = "serial" => \A g \in AllThreads : req[g] = NoRequest)
    BY <1>0, <2>1, BeginsIs
  <2>4. PoolRequest(r, chainEpoch') /\ r.user[1] = q
    BY <1>0, <2>1, <2>2 DEF PoolRequest
  <2>5. mode = "serial" => PoolSerial(r, locksMeta', paidOut')
    <3>1. \A p \in PoolIds : Unrecorded(r, p) = 0
      BY <2>2 DEF Unrecorded
    <3>2. mode = "serial" => \A p \in PoolIds : paidOut[p] = locksMeta.spent[p]
      BY <2>3 DEF PoolsInv
    <3>. QED  BY <1>0, <2>1, <2>2, <2>4, <3>1, <3>2 DEF PoolSerial
  <2>. QED  BY <1>0, <2>1, <2>2, <2>3, <2>4, <2>5, PoolsGoesOn
<1>2. CASE SpendDebit(h)
  <2>1. req[h].op = "spend" /\ req[h].step = "debit" /\ Goes(h, "credit") /\ UNCHANGED <<locksMeta, chainEpoch, paidOut>>
    BY <1>2 DEF SpendDebit, At
  <2>2. \A p \in PoolIds : paidOut'[p] = paidOut[p] + (IF p = req[h].user[1] /\ "credit" = "load" THEN req[h].amt ELSE 0)
    BY <1>0, <2>1
  <2>. QED  BY <1>0, <2>1, <2>2, SpendGoes
<1>3. CASE SpendCredit(h)
  <2>1. req[h].op = "spend" /\ req[h].step = "credit" /\ Goes(h, "load") /\ UNCHANGED <<locksMeta, chainEpoch>>
        /\ paidOut' = [paidOut EXCEPT ![req[h].user[1]] = @ + req[h].amt]
    BY <1>3 DEF SpendCredit, At
  <2>2. req[h].user[1] \in PoolIds /\ req[h].amt \in Nat
    BY <1>0, <2>1, BusyAlone DEF PoolRequest
  <2>3. /\ \A p \in PoolIds : paidOut'[p] = paidOut[p] + (IF p = req[h].user[1] /\ "load" = "load" THEN req[h].amt ELSE 0)
        /\ paidOut' \in [PoolIds -> Nat]
    BY <1>0, <2>1, <2>2
  <2>. QED  BY <1>0, <2>1, <2>3, SpendGoes
<1>4. CASE SpendLoad(h)
  <2>. DEFINE r == req[h]
              n == Request(r.op, "save", locksMeta, r.user, r.amt)
  <2>1. r.op = "spend" /\ r.step = "load" /\ UNCHANGED <<locksMeta, chainEpoch, paidOut>>
        /\ req' = [req EXCEPT ![h].step = "save", ![h].id = locksMeta]
    BY <1>4 DEF SpendLoad, At, Loads
  <2>2. IsRequest(r) /\ PoolRequest(r, chainEpoch)
        /\ (mode = "serial" => PoolSerial(r, locksMeta, paidOut) /\ \A g \in AllThreads : g # h => req[g] = NoRequest)
    BY <1>0, <2>1, BusyAlone
  <2>3. Rest(h) /\ req'[h] = [[r EXCEPT !.step = "save"] EXCEPT !.id = locksMeta]
    BY <1>0, <2>1 DEF ReqOk, Rest
  <2>4. [[r EXCEPT !.step = "save"] EXCEPT !.id = locksMeta] = n
    <3>1. r = Request(r.op, r.step, r.id, r.user, r.amt)
      BY <2>2 DEF IsRequest
    <3>. DEFINE m == [r EXCEPT !.step = "save"]
    <3>2. m = Request(r.op, "save", r.id, r.user, r.amt)
      <4>. HIDE DEF r
      <4>. QED  BY <3>1 DEF Request
    <3>. HIDE DEF m
    <3>3. [m EXCEPT !.id = locksMeta] = n
      <4>. HIDE DEF r
      <4>. QED  BY <3>2 DEF Request
    <3>. QED  BY <3>3 DEF m
  <2>5. IsRequest(n) /\ n.op = "spend" /\ n.step = "save" /\ n.id = locksMeta /\ n.user = r.user /\ n.amt = r.amt /\ n # NoRequest
    BY <2>1, RequestIs
  <2>. HIDE DEF n, r
  <2>6. PoolRequest(n, chainEpoch')
    BY <1>0, <2>1, <2>2, <2>5 DEF PoolRequest
  <2>7. ASSUME mode = "serial" PROVE PoolSerial(n, locksMeta', paidOut')
    <3>1. \A p \in PoolIds : Unrecorded(n, p) = Unrecorded(r, p)
      BY <2>1, <2>5 DEF Unrecorded
    <3>2. PoolSerial(r, locksMeta, paidOut) /\ r.op = "spend"
      BY <2>1, <2>2, <2>7
    <3>3. PoolSerial(n, locksMeta, paidOut)
      <4>1. n.id = locksMeta /\ n.op = "spend" /\ n.user[1] = r.user[1] /\ n.amt = r.amt
        BY <2>5
      <4>. QED  BY <3>1, <3>2, <4>1 DEF PoolSerial
    <3>. QED  BY <2>1, <3>3
  <2>8. Rest(h) /\ req'[h] = n /\ chainEpoch <= chainEpoch' /\ chainEpoch' \in Nat /\ paidOut' \in [PoolIds -> Nat]
        /\ UNCHANGED <<mode, service, locksMeta>>
    BY <1>0, <2>1, <2>3, <2>4
  <2>. QED  BY <1>0, <2>2, <2>5, <2>6, <2>7, <2>8, PoolsGoesOn
<1>5. CASE SpendSave(h)
  <2>. DEFINE r == req[h]
              q == r.user[1]
              s == [r.id EXCEPT !.spent[q] = @ + r.amt]
  <2>1. r.op = "spend" /\ r.step = "save" /\ locksMeta' = s /\ Ends(h) /\ UNCHANGED <<chainEpoch, paidOut>>
    BY <1>5 DEF SpendSave, At, Loaded, RecordOutgoing
  <2>2. /\ r # NoRequest /\ PoolRequest(r, chainEpoch) /\ (mode = "serial" => PoolSerial(r, locksMeta, paidOut))
    BY <1>0, <2>1, BusyAlone
  <2>3. LocksOk(r.id, chainEpoch) /\ q \in PoolIds /\ r.amt \in Nat /\ IsLocks(r.id)
    BY <2>1, <2>2 DEF PoolRequest, LocksOk
  <2>. HIDE DEF r, q
  <2>4. /\ DOMAIN s = LockFields /\ s = [k \in LockFields |-> s[k]] /\ s.released = r.id.released /\ s.unlocked = r.id.unlocked
        /\ s.last = r.id.last /\ s.epochs = r.id.epochs /\ s.votes = r.id.votes
        /\ s.spent = [r.id.spent EXCEPT ![q] = r.id.spent[q] + r.amt]
    <3>1. r.id = [k \in LockFields |-> r.id[k]] /\ DOMAIN r.id = LockFields
      BY <2>3 DEF IsLocks
    <3>. QED  BY <3>1 DEF LockFields
  <2>. HIDE DEF s
  <2>5. s.spent \in [PoolIds -> Nat] /\ \A p \in PoolIds : s.spent[p] = IF p = q THEN r.id.spent[p] + r.amt ELSE r.id.spent[p]
    <3>. DEFINE f == r.id.spent
    <3>1. f \in [PoolIds -> Nat]
      BY <2>3 DEF IsLocks
    <3>. HIDE DEF f
    <3>2. [f EXCEPT ![q] = f[q] + r.amt] \in [PoolIds -> Nat] /\ \A p \in PoolIds : [f EXCEPT ![q] = f[q] + r.amt][p] = IF p = q THEN f[p] + r.amt ELSE f[p]
      BY <2>3, <3>1
    <3>. QED  BY <2>4, <3>2 DEF f
  <2>6. LocksOk(s, chainEpoch)
    <3>1. IsLocks(s)
      BY <2>3, <2>4, <2>5 DEF IsLocks
    <3>. QED  BY <2>3, <2>4, <3>1 DEF LocksOk
  <2>7. Rest(h) /\ req'[h] = NoRequest
    BY <1>0, <2>1, EndsIs
  <2>8. ASSUME mode = "serial", NEW p \in PoolIds PROVE s.spent[p] = paidOut[p] /\ s.spent[p] <= Free(s, p)
    <3>1. r.id = locksMeta /\ paidOut[p] = locksMeta.spent[p] + (IF p = q THEN r.amt ELSE 0)
          /\ locksMeta.spent[q] + r.amt <= Free(locksMeta, q)
      BY <2>1, <2>2, <2>8 DEF PoolSerial, Unrecorded, q
    <3>2. locksMeta.spent[p] <= Free(locksMeta, p) /\ Free(s, p) = Free(locksMeta, p)
      BY <2>4, <2>8, <3>1 DEF PoolsInv, Free
    <3>. QED  BY <1>0, <2>3, <2>5, <3>1, <3>2
  <2>. QED  BY <1>0, <2>1, <2>2, <2>6, <2>7, <2>8, PoolsSaved DEF r
<1>. QED  BY <1>1, <1>2, <1>3, <1>4, <1>5

\* Every step of the server keeps the invariant of the pools.
LEMMA PoolsStep ==
    ASSUME PoolsInv, [RestNext]_restVars
    PROVE  PoolsInv'
<1>1. CASE ServiceStep /\ service = "pools"
  <2>1. PoolsNext /\ UNCHANGED <<mode, service>>
    BY <1>1 DEF ServiceStep
  <2>. QED  BY <1>1, <2>1, EpochStep, VoteStep, SpendStep DEF PoolsNext
<1>2. CASE ServiceStep /\ service # "pools"
  <2>1. UNCHANGED <<locksMeta, chainEpoch, paidOut, mode, service>>
    BY <1>2 DEF ServiceStep
  <2>. QED  BY <1>2, <2>1 DEF PoolsInv
<1>3. CASE Restart
  <2>1. /\ mode' = "restarted" /\ req' = [h \in DOMAIN req |-> NoRequest] /\ UNCHANGED <<service, chainEpoch, paidOut>>
        /\ locksMeta' = CaughtUp(locksMeta, chainEpoch)
    BY <1>3 DEF Restart, ServicesCrash, PoolsRestart
  <2>2. LocksOk(locksMeta', chainEpoch')
    BY <2>1, CaughtUpOk DEF PoolsInv
  <2>3. service = "pools" => ReqOk' /\ \A h \in AllThreads : req'[h] = NoRequest
    BY <2>1 DEF PoolsInv, ReqOk
  <2>. QED  BY <2>1, <2>2, <2>3 DEF PoolsInv
<1>4. CASE UNCHANGED restVars
  <2>1. UNCHANGED <<locksMeta, chainEpoch, paidOut, mode, service, req>>
    BY <1>4 DEF restVars
  <2>. QED  BY <2>1 DEF PoolsInv, ReqOk
<1>. QED  BY <1>1, <1>2, <1>3, <1>4 DEF RestNext

\* ReleasedBySchedule for every number of threads and epochs (pool_locks.py,
\* on_epoch_boundary, catch_up_epochs): an epoch is released once at most although
\* the entry is written back by threads that loaded it long before.
THEOREM ReleasedOnSchedule == RestSpec => []ReleasedBySchedule
<1>1. RestInit => PoolsInv
  BY PoolsStart
<1>2. PoolsInv /\ [RestNext]_restVars => PoolsInv'
  BY PoolsStep
<1>3. PoolsInv => ReleasedBySchedule
  BY PoolsPaid
<1>. QED  BY <1>1, <1>2, <1>3, PTL DEF RestSpec

\* OpenedByMajority for every set of validators and every order of their votes
\* (pool_locks.py, dao_vote): what is unlocked was voted for by more than half.
THEOREM UnlockedByVote == RestSpec => []OpenedByMajority
<1>1. RestInit => PoolsInv
  BY PoolsStart
<1>2. PoolsInv /\ [RestNext]_restVars => PoolsInv'
  BY PoolsStep
<1>3. PoolsInv => OpenedByMajority
  BY PoolsPaid
<1>. QED  BY <1>1, <1>2, <1>3, PTL DEF RestSpec

\* PaidWithinRelease for every schedule and every sequence of payments
\* (pool_locks.py, record_outgoing): a pool never pays more than it has released.
THEOREM PaidFromRelease == RestSpec => []PaidWithinRelease
<1>1. RestInit => PoolsInv
  BY PoolsStart
<1>2. PoolsInv /\ [RestNext]_restVars => PoolsInv'
  BY PoolsStep
<1>3. PoolsInv => PaidWithinRelease
  BY PoolsPaid
<1>. QED  BY <1>1, <1>2, <1>3, PTL DEF RestSpec

-----------------------------------------------------------------------------
(* Smart accounts *)

\* Approved by more than half of the weight that counted, as far as it counted.
Carried(r) ==
    /\ IsFiniteSet(DOMAIN r.electorate) /\ \A g \in DOMAIN r.electorate : r.electorate[g] \in Nat
    /\ r.by \subseteq DOMAIN r.electorate =>
          2 * Weight(r.electorate, r.by) > Weight(r.electorate, DOMAIN r.electorate)

RecoveryFields == {"by", "status", "expired", "electorate"}

RecoveryOk(r) ==
    /\ DOMAIN r = RecoveryFields /\ r = [k \in RecoveryFields |-> r[k]]
    /\ r.by \subseteq Users
    /\ r.status \in {"approved", "executed"} => Carried(r)

GuardiansOk(gs) ==
    /\ DOMAIN gs \subseteq Users /\ \A g \in DOMAIN gs : gs[g].weight \in Nat

AccountFields == {"owner", "guardians", "requests"}

AccountOk(a) ==
    /\ DOMAIN a = AccountFields /\ a = [k \in AccountFields |-> a[k]]
    /\ GuardiansOk(a.guardians)
    /\ \A r \in DOMAIN a.requests : RecoveryOk(a.requests[r])

\* The weight of guardians as a total, which SumTheorems is about.
LEMMA WeightIsTotal == \A w, gs : Weight(w, gs) = Total(w, gs)
BY DEF Weight, Total

\* Two groups that each have more than half of the same weights share a guardian.
LEMMA Meet ==
    ASSUME NEW a, NEW b, Carried(a), Carried(b), a.electorate = b.electorate, a.by \cup b.by \subseteq DOMAIN a.electorate,
           a.by \cap b.by = {}
    PROVE  FALSE
<1>. DEFINE w == a.electorate
            D == DOMAIN w
            A == a.by
            B == b.by
<1>1. IsFiniteSet(D) /\ (\A g \in D : w[g] \in Nat) /\ A \in SUBSET D /\ B \in SUBSET D /\ A \cap B = {}
      /\ 2 * Total(w, A) > Total(w, D) /\ 2 * Total(w, B) > Total(w, D)
  BY WeightIsTotal DEF Carried
<1>. HIDE DEF w, D, A, B
<1>2. Total(w, A \cup B) = Total(w, A) + Total(w, B) /\ A \cup B \in SUBSET D
  <2>1. \A g \in D : w[g] \in Int
    BY <1>1
  <2>. QED  BY <1>1, <2>1, TotalUnion
<1>3. Total(w, A) \in Nat /\ Total(w, B) \in Nat /\ Total(w, D) \in Nat /\ Total(w, A \cup B) <= Total(w, D)
  BY <1>1, <1>2, TotalSubset, TotalNat
<1>. QED  BY <1>1, <1>2, <1>3

\* The guardians that count are guardians.
LEMMA ApprovedGuardiansOk ==
    ASSUME AccountOk(account)
    PROVE  /\ IsFiniteSet(DOMAIN account.guardians) /\ ApprovedGuardians \in SUBSET DOMAIN account.guardians
           /\ DOMAIN WeightOf = DOMAIN account.guardians
           /\ \A g \in DOMAIN account.guardians : WeightOf[g] \in Nat
<1>1. IsFiniteSet(DOMAIN account.guardians)
  BY SmartAccountsAssumption, Smaller DEF AccountOk, GuardiansOk
<1>. QED  BY <1>1 DEF AccountOk, GuardiansOk, ApprovedGuardians, WeightOf

\* approve_recovery
LEMMA ApprovedByOk ==
    ASSUME AccountOk(account), NEW r, RecoveryOk(r), r.status = "pending", NEW g \in Users
    PROVE  RecoveryOk(ApprovedBy(r, g))
<1>. DEFINE by == r.by \cup {g}
            el == Restrict(WeightOf, ApprovedGuardians)
            enough == by \subseteq DOMAIN account.guardians /\ Weight(WeightOf, by) >= RequiredWeight
            e == [r EXCEPT !.status = "expired"]
            a == [r EXCEPT !.by = by, !.status = "approved", !.electorate = el]
            p == [r EXCEPT !.by = by]
<1>1. /\ ApprovedBy(r, g) \in {e, a, p}
      /\ ApprovedBy(r, g) = a => enough \/ a \in {e, p}
  BY DEF ApprovedBy
<1>2. by \subseteq Users
  BY DEF RecoveryOk
<1>3. r = [k \in RecoveryFields |-> r[k]] /\ DOMAIN r = RecoveryFields
  BY DEF RecoveryOk
<1>. HIDE DEF by, el
<1>4. DOMAIN e = RecoveryFields /\ e = [k \in RecoveryFields |-> e[k]] /\ e.by = r.by /\ e.status = "expired"
  BY <1>3 DEF RecoveryFields
<1>5. DOMAIN p = RecoveryFields /\ p = [k \in RecoveryFields |-> p[k]] /\ p.by = by /\ p.status = "pending"
  BY <1>3 DEF RecoveryFields
<1>6. DOMAIN a = RecoveryFields /\ a = [k \in RecoveryFields |-> a[k]] /\ a.by = by /\ a.status = "approved" /\ a.electorate = el
  BY <1>3 DEF RecoveryFields
<1>. HIDE DEF a, e, p
<1>7. RecoveryOk(e) /\ RecoveryOk(p)
  BY <1>2, <1>4, <1>5 DEF RecoveryOk
<1>8. enough => RecoveryOk(a)
  <2>. SUFFICES ASSUME enough PROVE Carried(a)
    BY <1>2, <1>6 DEF RecoveryOk
  <2>. DEFINE G == DOMAIN account.guardians
              A == ApprovedGuardians
  <2>0. IsFiniteSet(G) /\ A \in SUBSET G /\ (\A x \in G : WeightOf[x] \in Nat) /\ DOMAIN WeightOf = G
    BY ApprovedGuardiansOk
  <2>1. DOMAIN el = A /\ (\A x \in A : el[x] = WeightOf[x]) 
    BY DEF el, Restrict
  <2>2. by \in SUBSET G /\ Total(WeightOf, by) >= Total(WeightOf, A) \div 2 + 1
    BY WeightIsTotal DEF RequiredWeight
  <2>. HIDE DEF enough, A, G
  <2>3. IsFiniteSet(A) /\ Total(WeightOf, A) \in Nat /\ \A x \in A : el[x] \in Nat /\ WeightOf[x] \in Int
    BY <2>0, <2>1, Smaller, TotalSubset
  <2>4. Total(el, A) = Total(WeightOf, A)
    BY <2>1, <2>3, TotalSame
  <2>5. ASSUME by \subseteq A PROVE 2 * Total(el, by) > Total(el, A)
    <3>1. IsFiniteSet(by) /\ Total(WeightOf, by) \in Nat
      BY <2>0, <2>2, Smaller, TotalSubset
    <3>2. Total(el, by) = Total(WeightOf, by)
      <4>1. \A x \in by : WeightOf[x] \in Int /\ el[x] = WeightOf[x]
        BY <2>1, <2>3, <2>5
      <4>. QED  BY <3>1, <4>1, TotalSame
    <3>. QED  BY <2>2, <2>3, <2>4, <3>1, <3>2
  <2>. QED  BY <1>6, <2>1, <2>3, <2>5, WeightIsTotal DEF Carried
<1>. QED  BY <1>1, <1>7, <1>8

-----------------------------------------------------------------------------

LEMMA NewAccountOk == \A u : AccountOk(NewAccount(u))
<1>. TAKE u
<1>. DEFINE a == NewAccount(u)
<1>1. DOMAIN a = AccountFields /\ a = [k \in AccountFields |-> a[k]] /\ DOMAIN a.guardians = {} /\ DOMAIN a.requests = {}
  BY DEF NewAccount, Nothing, AccountFields
<1>. HIDE DEF a
<1>2. AccountOk(a)
  BY <1>1 DEF AccountOk, GuardiansOk
<1>. QED  BY <1>2 DEF a

LEMMA NewRecoveryOk == RecoveryOk(NewRecovery) /\ NewRecovery.status = "pending"
<1>1. DOMAIN NewRecovery = RecoveryFields /\ NewRecovery = [k \in RecoveryFields |-> NewRecovery[k]]
      /\ NewRecovery.by = {} /\ NewRecovery.status = "pending"
  BY DEF NewRecovery, RecoveryFields
<1>. QED  BY <1>1 DEF RecoveryOk

\* Other guardians, other requests, another owner.
LEMMA AccountChanged ==
    ASSUME AccountOk(account), NEW a, DOMAIN a = AccountFields, a = [k \in AccountFields |-> a[k]],
           a.guardians = account.guardians \/ GuardiansOk(a.guardians),
           \A r \in DOMAIN a.requests : (r \in DOMAIN account.requests /\ a.requests[r] = account.requests[r]) \/ RecoveryOk(a.requests[r])
    PROVE  AccountOk(a)
BY DEF AccountOk

\* Adding and approving guardians leaves the requests with the weights they have.
LEMMA GuardianStep ==
    ASSUME AccountOk(account), NEW g \in Users,
           \/ \E w \in Weights : AddGuardian(g, w)
           \/ \E u \in Users : ApproveGuardian(g, u)
           \/ RemoveGuardian(g)
    PROVE  AccountOk(account')
<1>. DEFINE G == account.guardians
<1>0. DOMAIN account = AccountFields /\ account = [k \in AccountFields |-> account[k]] /\ GuardiansOk(G)
  BY DEF AccountOk
<1>1. PICK H : account' = [account EXCEPT !.guardians = H] /\ GuardiansOk(H)
  <2>1. ASSUME NEW w \in Weights, AddGuardian(g, w) PROVE \E H : account' = [account EXCEPT !.guardians = H] /\ GuardiansOk(H)
    <3>. DEFINE H == With(G, g, [weight |-> w, approved |-> FALSE])
    <3>1. account' = [account EXCEPT !.guardians = H] /\ w \in Nat
      BY <2>1, SmartAccountsAssumption DEF AddGuardian
    <3>2. DOMAIN H = DOMAIN G \cup {g} /\ \A x \in DOMAIN H : H[x] = IF x = g THEN [weight |-> w, approved |-> FALSE] ELSE G[x]
      BY DEF With
    <3>. HIDE DEF H, G
    <3>3. GuardiansOk(H)
      BY <1>0, <3>1, <3>2 DEF GuardiansOk
    <3>. QED  BY <3>1, <3>3 DEF G
  <2>2. ASSUME NEW u, ApproveGuardian(g, u) PROVE \E H : account' = [account EXCEPT !.guardians = H] /\ GuardiansOk(H)
    <3>. DEFINE H == [G EXCEPT ![g].approved = TRUE]
    <3>1. account' = [account EXCEPT !.guardians = H]
      BY <1>0, <2>2 DEF ApproveGuardian, AccountFields
    <3>2. DOMAIN H = DOMAIN G /\ \A x \in DOMAIN H : H[x] = G[x] \/ H[x] = [G[x] EXCEPT !.approved = TRUE]
      OBVIOUS
    <3>. HIDE DEF H, G
    <3>3. \A x \in DOMAIN H : H[x].weight \in Nat
      <4>. SUFFICES ASSUME NEW x \in DOMAIN H PROVE H[x].weight \in Nat
        OBVIOUS
      <4>1. G[x].weight \in Nat
        BY <1>0, <3>2 DEF GuardiansOk
      <4>2. [G[x] EXCEPT !.approved = TRUE].weight = G[x].weight
        OBVIOUS
      <4>. QED  BY <3>2, <4>1, <4>2
    <3>4. GuardiansOk(H)
      BY <1>0, <3>2, <3>3 DEF GuardiansOk
    <3>. QED  BY <3>1, <3>4
  <2>3. ASSUME RemoveGuardian(g) PROVE \E H : account' = [account EXCEPT !.guardians = H] /\ GuardiansOk(H)
    <3>. DEFINE H == Without(G, g)
    <3>1. account' = [account EXCEPT !.guardians = H]
      BY <2>3 DEF RemoveGuardian
    <3>2. DOMAIN H = DOMAIN G \ {g} /\ \A x \in DOMAIN H : H[x] = G[x]
      BY DEF Without
    <3>. HIDE DEF H, G
    <3>3. GuardiansOk(H)
      BY <1>0, <3>2 DEF GuardiansOk
    <3>. QED  BY <3>1, <3>3 DEF G
  <2>. QED  BY <2>1, <2>2, <2>3
<1>2. DOMAIN account' = AccountFields /\ account' = [k \in AccountFields |-> account'[k]] /\ account'.guardians = H
      /\ account'.requests = account.requests
  BY <1>0, <1>1 DEF AccountFields
<1>. QED  BY <1>1, <1>2, AccountChanged

\* The requests change, and perhaps the owner.
LEMMA RequestsChange ==
    ASSUME AccountOk(account), NEW o, NEW Q, account' = [account EXCEPT !.owner = o, !.requests = Q],
           \A r \in DOMAIN Q : (r \in DOMAIN account.requests /\ Q[r] = account.requests[r]) \/ RecoveryOk(Q[r])
    PROVE  AccountOk(account')
<1>0. DOMAIN account = AccountFields /\ account = [k \in AccountFields |-> account[k]]
  BY DEF AccountOk
<1>2. DOMAIN account' = AccountFields /\ account' = [k \in AccountFields |-> account'[k]] /\ account'.guardians = account.guardians
      /\ account'.requests = Q
  BY <1>0 DEF AccountFields
<1>. QED  BY <1>2, AccountChanged

\* One request has another record.
LEMMA RequestChanges ==
    ASSUME AccountOk(account), NEW o, NEW r \in DOMAIN account.requests, NEW x, RecoveryOk(x),
           account' = [account EXCEPT !.owner = o, !.requests = [account.requests EXCEPT ![r] = x]]
    PROVE  AccountOk(account')
<1>. DEFINE Q == [account.requests EXCEPT ![r] = x]
<1>1. DOMAIN Q = DOMAIN account.requests /\ \A s \in DOMAIN Q : Q[s] = account.requests[s] \/ Q[s] = x
  OBVIOUS
<1>2. account' = [account EXCEPT !.owner = o, !.requests = Q]
  OBVIOUS
<1>. HIDE DEF Q
<1>3. \A s \in DOMAIN Q : (s \in DOMAIN account.requests /\ Q[s] = account.requests[s]) \/ RecoveryOk(Q[s])
  BY <1>1
<1>. QED  BY <1>2, <1>3, RequestsChange

\* A request keeps its approvals when its status moves on.
LEMMA StatusOk ==
    ASSUME NEW r, RecoveryOk(r), NEW st, st \in {"approved", "executed"} => r.status \in {"approved", "executed"}
    PROVE  RecoveryOk([r EXCEPT !.status = st]) /\ RecoveryOk([r EXCEPT !.expired = TRUE])
<1>. DEFINE x == [r EXCEPT !.status = st]
            y == [r EXCEPT !.expired = TRUE]
<1>0. r = [k \in RecoveryFields |-> r[k]] /\ DOMAIN r = RecoveryFields
  BY DEF RecoveryOk
<1>1. DOMAIN x = RecoveryFields /\ x = [k \in RecoveryFields |-> x[k]] /\ x.by = r.by /\ x.status = st /\ x.electorate = r.electorate
  BY <1>0 DEF RecoveryFields
<1>2. DOMAIN y = RecoveryFields /\ y = [k \in RecoveryFields |-> y[k]] /\ y.by = r.by /\ y.status = r.status /\ y.electorate = r.electorate
  BY <1>0 DEF RecoveryFields
<1>. HIDE DEF x, y
<1>3. RecoveryOk(x) /\ RecoveryOk(y)
  BY <1>1, <1>2 DEF RecoveryOk, Carried
<1>. QED  BY <1>3 DEF x, y

\* Asking for a recovery, approving, refusing and executing it one by one.
LEMMA RecoveryStep ==
    ASSUME AccountOk(account),
           \/ \E g \in Users : RequestRecovery(g)
           \/ \E r \in DOMAIN account.requests :
                 RequestExpires(r) \/ \E u \in Users : ApproveRecovery(r, u) \/ ExecuteRecovery(r, u)
    PROVE  AccountOk(account')
<1>. DEFINE R == account.requests
<1>0. DOMAIN account = AccountFields /\ account = [k \in AccountFields |-> account[k]] /\ \A r \in DOMAIN R : RecoveryOk(R[r])
  BY DEF AccountOk
<1>1. ASSUME NEW g \in Users, RequestRecovery(g) PROVE AccountOk(account')
  <2>. DEFINE Q == With(R, NextRequest, NewRecovery)
  <2>1. account' = [account EXCEPT !.requests = Q]
    BY <1>1 DEF RequestRecovery
  <2>2. DOMAIN Q = DOMAIN R \cup {NextRequest} /\ \A r \in DOMAIN Q : Q[r] = IF r = NextRequest THEN NewRecovery ELSE R[r]
    BY DEF With
  <2>. HIDE DEF Q
  <2>3. account' = [account EXCEPT !.owner = account.owner, !.requests = Q]
    BY <1>0, <2>1 DEF AccountFields
  <2>4. \A r \in DOMAIN Q : (r \in DOMAIN account.requests /\ Q[r] = account.requests[r]) \/ RecoveryOk(Q[r])
    BY <2>2, NewRecoveryOk
  <2>. QED  BY <2>3, <2>4, RequestsChange
<1>2. ASSUME NEW r \in DOMAIN R, RequestExpires(r) PROVE AccountOk(account')
  <2>. DEFINE x == [R[r] EXCEPT !.expired = TRUE]
  <2>1. RecoveryOk(x)
    BY <1>0, <1>2, StatusOk
  <2>2. account' = [account EXCEPT !.owner = account.owner, !.requests = [R EXCEPT ![r] = x]]
    <3>1. account' = [account EXCEPT !.requests[r].expired = TRUE]
      BY <1>2 DEF RequestExpires
    <3>. QED  BY <1>0, <3>1 DEF AccountFields
  <2>. HIDE DEF x
  <2>. QED  BY <1>2, <2>1, <2>2, RequestChanges
<1>3. ASSUME NEW r \in DOMAIN R, NEW u \in Users, ApproveRecovery(r, u) PROVE AccountOk(account')
  <2>. DEFINE x == ApprovedBy(R[r], u)
  <2>1. RecoveryOk(x)
    <3>1. R[r].status = "pending" /\ RecoveryOk(R[r])
      BY <1>0, <1>3 DEF ApproveRecovery, MayApprove
    <3>. HIDE DEF R
    <3>. QED  BY <3>1, ApprovedByOk
  <2>2. account' = [account EXCEPT !.owner = account.owner, !.requests = [R EXCEPT ![r] = x]]
    <3>1. account' = [account EXCEPT !.requests[r] = x]
      BY <1>3 DEF ApproveRecovery
    <3>. HIDE DEF x
    <3>. QED  BY <1>0, <1>3, <3>1 DEF AccountFields
  <2>. HIDE DEF x
  <2>. QED  BY <1>3, <2>1, <2>2, RequestChanges
<1>4. ASSUME NEW r \in DOMAIN R, NEW u \in Users, ExecuteRecovery(r, u) PROVE AccountOk(account')
  <2>. DEFINE x == [R[r] EXCEPT !.status = "expired"]
              y == [R[r] EXCEPT !.status = "executed"]
  <2>1. RecoveryOk(x) /\ RecoveryOk(y)
    <3>1. R[r].status = "approved" /\ RecoveryOk(R[r])
      BY <1>0, <1>4 DEF ExecuteRecovery
    <3>. HIDE DEF R
    <3>. QED  BY <3>1, StatusOk
  <2>2. \/ account' = [account EXCEPT !.owner = account.owner, !.requests = [R EXCEPT ![r] = x]]
        \/ account' = [account EXCEPT !.owner = u, !.requests = [R EXCEPT ![r] = y]]
    <3>1. account' = [account EXCEPT !.requests[r].status = "expired"]
          \/ account' = [account EXCEPT !.owner = u, !.requests[r].status = "executed"]
      BY <1>4 DEF ExecuteRecovery
    <3>2. [account EXCEPT !.requests[r].status = "expired"] = [account EXCEPT !.owner = account.owner, !.requests = [R EXCEPT ![r] = x]]
      BY <1>0 DEF AccountFields
    <3>3. [account EXCEPT !.owner = u, !.requests[r].status = "executed"] = [account EXCEPT !.owner = u, !.requests = [R EXCEPT ![r] = y]]
      BY <1>0 DEF AccountFields
    <3>. QED  BY <3>1, <3>2, <3>3
  <2>. HIDE DEF x, y
  <2>. QED  BY <1>4, <2>1, <2>2, RequestChanges
<1>. QED  BY <1>1, <1>2, <1>3, <1>4

\* The loop of recover_account, from the first guardian that may ask.
IsApprovals(f, gs, first) ==
    f = [i \in 0..Len(gs) |-> IF i < first THEN [request |-> NewRecovery, ok |-> TRUE] ELSE Approvals(f[i - 1], gs[i])]

\* The loop of recover_account over the guardians it is given has a result.
LEMMA ApprovalsExist ==
    ASSUME NEW gs, Len(gs) \in Nat, NEW first \in Nat \ {0}
    PROVE  \E f : IsApprovals(f, gs, first)
<1>. DEFINE start == [request |-> NewRecovery, ok |-> TRUE]
            Upto(f, n) == f = [i \in 0..n |-> IF i < first THEN start ELSE Approvals(f[i - 1], gs[i])]
            D == {n \in Nat : \E f : Upto(f, n)}
<1>. HIDE DEF start
<1>1. 0 \in D
  <2>. DEFINE f == [i \in 0..0 |-> start]
  <2>1. Upto(f, 0)
    OBVIOUS
  <2>. QED  BY <2>1
<1>2. ASSUME NEW n \in Nat, n \in D PROVE n + 1 \in D
  <2>1. PICK g : Upto(g, n)
    BY <1>2
  <2>2. \A i \in 0..n : g[i] = IF i < first THEN start ELSE Approvals(g[i - 1], gs[i])
    BY <2>1
  <2>. DEFINE m == n + 1
  <2>. DEFINE f == [i \in 0..m |-> IF i = m THEN (IF i < first THEN start ELSE Approvals(g[n], gs[m])) ELSE g[i]]
  <2>3. ASSUME NEW i \in 0..m PROVE f[i] = IF i < first THEN start ELSE Approvals(f[i - 1], gs[i])
    <3>1. CASE i = m
      <4>1. n \in 0..m /\ n # m /\ m - 1 = n /\ m \in 0..m
        OBVIOUS
      <4>2. f[n] = g[n]
        BY <4>1
      <4>3. f[m] = IF m < first THEN start ELSE Approvals(g[n], gs[m])
        BY <4>1
      <4>. HIDE DEF f, m
      <4>. QED  BY <3>1, <4>1, <4>2, <4>3
    <3>2. CASE i # m
      <4>1. i \in 0..n /\ f[i] = g[i]
        BY <3>2
      <4>2. CASE i < first
        BY <2>2, <4>1, <4>2
      <4>3. CASE ~(i < first)
        <5>1. i - 1 \in 0..m /\ i - 1 # m
          BY <4>1, <4>3
        <5>2. f[i - 1] = g[i - 1]
          BY <5>1
        <5>. HIDE DEF f
        <5>. QED  BY <2>2, <4>1, <4>3, <5>2
      <4>. QED  BY <4>2, <4>3
    <3>. QED  BY <3>1, <3>2
  <2>4. f = [i \in 0..m |-> f[i]]
    OBVIOUS
  <2>. HIDE DEF f
  <2>5. Upto(f, m)
    BY <2>3, <2>4
  <2>6. m \in Nat
    OBVIOUS
  <2>. HIDE DEF m
  <2>7. m \in D
    BY <2>5, <2>6
  <2>. QED  BY <2>7 DEF m
<1>. HIDE DEF D
<1>3. Nat \subseteq D
  BY <1>1, <1>2, NatSetInduction
<1>4. Len(gs) \in D
  BY <1>3
<1>5. PICK f : Upto(f, Len(gs))
  BY <1>4 DEF D
<1>. QED  BY <1>5 DEF IsApprovals, start

\* recover_account, which asks and approves for all guardians in one call.
LEMMA RecoverStep ==
    ASSUME AccountOk(account), PostRecover
    PROVE  AccountOk(account')
<1>n. PICK m \in 1..Cardinality(Users) : \E gs \in [1..m -> Users], u \in Users : RecoverAccount(gs, u)
  BY DEF PostRecover
<1>0. PICK gs \in [1..m -> Users], u \in Users : RecoverAccount(gs, u)
  BY <1>n
<1>1. gs \in Seq(Users)
  <2>1. Cardinality(Users) \in Nat
    BY SmartAccountsAssumption, FS_CardinalityType
  <2>. QED  BY <2>1
<1>. DEFINE P == {i \in DOMAIN gs : gs[i] \in ApprovedGuardians}
            first == Min(P)
            after == CHOOSE f : IsApprovals(f, gs, first)
            done == after[Len(gs)]
            executes == done.ok /\ done.request.status = "approved" /\ u # account.owner
            last == IF executes THEN [done.request EXCEPT !.status = "executed"] ELSE done.request
            o == IF executes THEN u ELSE account.owner
            Q == With(account.requests, NextRequest, last)
<1>2. Range(gs) \cap ApprovedGuardians # {} /\ account' = [account EXCEPT !.owner = o, !.requests = Q]
  BY <1>0 DEF RecoverAccount, IsApprovals
<1>3. first \in Nat \ {0} /\ Len(gs) \in Nat
  <2>1. DOMAIN gs = 1..Len(gs) /\ Len(gs) \in Nat
    BY <1>1
  <2>2. P # {} /\ P \subseteq Nat \ {0}
    BY <1>2, <2>1 DEF Range
  <2>. HIDE DEF P
  <2>3. PICK x \in P : \A y \in P : x <= y
    BY <2>2, LeastNat
  <2>4. Min(P) \in P
    BY <2>3 DEF Min
  <2>. QED  BY <2>1, <2>2, <2>4
<1>. HIDE DEF first
<1>4. IsApprovals(after, gs, first)
  BY <1>3, ApprovalsExist
<1>. HIDE DEF after
<1>5. \A i \in 0..Len(gs) : after[i] = IF i < first THEN [request |-> NewRecovery, ok |-> TRUE] ELSE Approvals(after[i - 1], gs[i])
  BY <1>4 DEF IsApprovals
<1>6. \A i \in 1..Len(gs) : gs[i] \in Users
  BY <1>1
<1>. DEFINE D == {n \in Nat : n <= Len(gs) => RecoveryOk(after[n].request)}
<1>7. 0 \in D
  <2>1. 0 \in 0..Len(gs) /\ 0 < first
    BY <1>3
  <2>2. after[0].request = NewRecovery
    BY <1>5, <2>1
  <2>. QED  BY <2>2, NewRecoveryOk
<1>8. ASSUME NEW n \in Nat, n \in D PROVE n + 1 \in D
  <2>. SUFFICES ASSUME n + 1 <= Len(gs) PROVE RecoveryOk(after[n + 1].request)
    OBVIOUS
  <2>1. n + 1 \in 0..Len(gs) /\ n + 1 \in 1..Len(gs) /\ (n + 1) - 1 = n /\ RecoveryOk(after[n].request)
    BY <1>3, <1>8
  <2>2. CASE n + 1 < first
    <3>1. after[n + 1].request = NewRecovery
      BY <1>5, <2>1, <2>2
    <3>. QED  BY <3>1, NewRecoveryOk
  <2>3. CASE ~(n + 1 < first)
    <3>. DEFINE s == after[n]
                g == gs[n + 1]
    <3>1. after[n + 1] = Approvals(s, g) /\ g \in Users /\ RecoveryOk(s.request)
      BY <1>5, <1>6, <2>1, <2>3
    <3>. HIDE DEF s, g
    <3>2. Approvals(s, g).request = s.request \/ (MayApprove(s.request, g) /\ Approvals(s, g).request = ApprovedBy(s.request, g))
      BY DEF Approvals
    <3>3. MayApprove(s.request, g) => RecoveryOk(ApprovedBy(s.request, g))
      BY <3>1, ApprovedByOk DEF MayApprove
    <3>. QED  BY <3>1, <3>2, <3>3
  <2>. QED  BY <2>2, <2>3
<1>. HIDE DEF D
<1>9. Nat \subseteq D
  BY <1>7, <1>8, NatSetInduction
<1>10. RecoveryOk(done.request)
  BY <1>3, <1>9 DEF D
<1>. HIDE DEF done
<1>11. RecoveryOk(last)
  BY <1>10, StatusOk
<1>. HIDE DEF last, o
<1>12. DOMAIN Q = DOMAIN account.requests \cup {NextRequest} /\ \A r \in DOMAIN Q : Q[r] = IF r = NextRequest THEN last ELSE account.requests[r]
  BY DEF With
<1>. HIDE DEF Q
<1>13. \A r \in DOMAIN Q : (r \in DOMAIN account.requests /\ Q[r] = account.requests[r]) \/ RecoveryOk(Q[r])
  BY <1>11, <1>12
<1>. QED  BY <1>2, <1>13, RequestsChange

\* Every step of the server keeps the account well formed.
LEMMA AccountStep ==
    ASSUME AccountOk(account), [RestNext]_restVars
    PROVE  AccountOk(account')
<1>1. CASE AccountsNext
  <2>1. ASSUME NEW u, CreateAccount(u) \/ DeleteAccount(u) PROVE AccountOk(account')
    BY <2>1, NewAccountOk DEF CreateAccount, DeleteAccount
  <2>. QED  BY <1>1, <2>1, RecoverStep, GuardianStep, RecoveryStep DEF AccountsNext, PostCreateAccount
<1>2. CASE UNCHANGED account
  BY <1>2
<1>3. CASE Restart
  BY <1>3, NewAccountOk DEF Restart, AccountsRestart
<1>4. ServiceStep => AccountsNext \/ UNCHANGED account
  BY DEF ServiceStep
<1>5. UNCHANGED restVars => UNCHANGED account
  BY DEF restVars
<1>. QED  BY <1>1, <1>2, <1>3, <1>4, <1>5 DEF RestNext

\* QuorumsMeet for every number of guardians and every weight (smart_accounts.py,
\* approve_recovery, execute_recovery, recover_account): whoever is added, approved or
\* removed in between, two disjoint groups of the same electorate never both succeed.
THEOREM GroupsMeet == RestSpec => []QuorumsMeet
<1>1. RestInit => AccountOk(account)
  BY NewAccountOk DEF RestInit, AccountsInit
<1>2. AccountOk(account) /\ [RestNext]_restVars => AccountOk(account)'
  BY AccountStep
<1>3. AccountOk(account) => QuorumsMeet
  <2>. SUFFICES ASSUME AccountOk(account), NEW r \in Recovered, NEW s \in Recovered,
                       account.requests[r].electorate = account.requests[s].electorate,
                       account.requests[r].by \cup account.requests[s].by \subseteq DOMAIN account.requests[r].electorate,
                       account.requests[r].by \cap account.requests[s].by = {}
                PROVE  FALSE
    BY DEF QuorumsMeet
  <2>1. Carried(account.requests[r]) /\ Carried(account.requests[s])
    BY DEF Recovered, AccountOk, RecoveryOk
  <2>. QED  BY <2>1, Meet
<1>. QED  BY <1>1, <1>2, <1>3, PTL DEF RestSpec

-----------------------------------------------------------------------------
(* Session keys and wallets *)

KeyFields == {"uses", "done", "transfer", "expired"}
IsKey(k) == DOMAIN k = KeyFields /\ k = [x \in KeyFields |-> k[x]] /\ k.uses \in Nat /\ k.done = k.uses

TxFields == {"by", "status", "paid"}
IsTx(t) == DOMAIN t = TxFields /\ t = [x \in TxFields |-> t[x]] /\ t.by \subseteq Users /\ t.paid \in Nat

\* In the serial mode: what a running request relies on.
KeyHeld(r) == r.op = "spend" /\ r.amt \in Nat /\ (r.id \in DOMAIN keys /\ MaxUses > 0 => keys[r.id].uses < MaxUses)
TxHeld(r) ==
    /\ r.op = "confirmTx" /\ r.id \in DOMAIN wallet
    /\ wallet[r.id].status # "executed" /\ Cardinality(wallet[r.id].by) >= Required

TxPaid(t) ==
    /\ t.paid <= (IF Cardinality(t.by) >= Required THEN 1 ELSE 0)
    /\ t.paid > 0 => t.status = "executed"

\* While a payment is under way, what was checked before it still holds: one request after another.
SpendInv ==
    /\ service \in {"keys", "wallet"} => ReqOk
    /\ \A k \in DOMAIN keys : IsKey(keys[k])
    /\ \A t \in DOMAIN wallet : IsTx(wallet[t])
    /\ service = "wallet" => items \in Nat /\ DOMAIN wallet \subseteq 1..items
    /\ mode = "serial" =>
          /\ service \in {"keys", "wallet"} => OneAtATime
          /\ \A k \in DOMAIN keys : MaxUses > 0 => keys[k].uses <= MaxUses
          /\ \A t \in DOMAIN wallet : TxPaid(wallet[t])
          /\ service = "keys" => \A h \in AllThreads : req[h] # NoRequest => KeyHeld(req[h])
          /\ service = "wallet" => \A h \in AllThreads : req[h] # NoRequest => TxHeld(req[h])

\* A session key counts a use exactly when the transaction succeeds.
LEMMA KeyUsedIs ==
    ASSUME NEW k, IsKey(k), NEW ok \in BOOLEAN
    PROVE  IsKey(KeyUsed(k, ok)) /\ KeyUsed(k, ok).uses = (IF ok THEN k.uses + 1 ELSE k.uses) /\ KeyUsed(k, ok).expired = k.expired
<1>. DEFINE u == KeyUsed(k, ok)
<1>1. DOMAIN u = KeyFields /\ u = [x \in KeyFields |-> u[x]] /\ u.uses = (IF ok THEN k.uses + 1 ELSE k.uses)
      /\ u.done = (IF ok THEN k.done + 1 ELSE k.done) /\ u.expired = k.expired
  BY DEF KeyUsed, IsKey, KeyFields
<1>. HIDE DEF u
<1>2. IsKey(u)
  BY <1>1 DEF IsKey
<1>. QED  BY <1>1, <1>2 DEF u

\* The service of the session keys: a new key, a transaction, its result.
LEMMA NewKeyStep ==
    ASSUME SpendInv, service = "keys", UNCHANGED <<mode, service>>, NEW b \in BOOLEAN, CreateSessionKey(b)
    PROVE  SpendInv'
<1>. DEFINE n == items + 1
            key == [uses |-> 0, done |-> 0, transfer |-> b, expired |-> FALSE]
<1>1. keys' = With(keys, n, key) /\ UNCHANGED <<req, wallet>>
  BY DEF CreateSessionKey
<1>2. DOMAIN key = KeyFields /\ key = [x \in KeyFields |-> key[x]] /\ key.uses = 0 /\ key.done = 0
  BY DEF KeyFields
<1>. HIDE DEF n, key
<1>3. DOMAIN keys' = DOMAIN keys \cup {n} /\ \A k \in DOMAIN keys' : keys'[k] = IF k = n THEN key ELSE keys[k]
  BY <1>1 DEF With
<1>4. IsKey(key) /\ MaxUses \in Nat
  BY <1>2, SmartAccountsAssumption DEF IsKey
<1>5. \A k \in DOMAIN keys' : IsKey(keys'[k])
  BY <1>3, <1>4 DEF SpendInv
<1>6. mode = "serial" => /\ \A k \in DOMAIN keys' : MaxUses > 0 => keys'[k].uses <= MaxUses
                         /\ \A h \in AllThreads : req[h] # NoRequest => KeyHeld(req[h])'
  <2>. SUFFICES ASSUME mode = "serial" PROVE /\ \A k \in DOMAIN keys' : MaxUses > 0 => keys'[k].uses <= MaxUses
                         /\ \A h \in AllThreads : req[h] # NoRequest => KeyHeld(req[h])'
    OBVIOUS
  <2>1. \A k \in DOMAIN keys' : MaxUses > 0 => keys'[k].uses <= MaxUses
    BY <1>2, <1>3, <1>4 DEF SpendInv
  <2>2. ASSUME NEW h \in AllThreads, req[h] # NoRequest PROVE KeyHeld(req[h])'
    <3>1. KeyHeld(req[h])
      BY <2>2 DEF SpendInv
    <3>. QED  BY <1>1, <1>2, <1>3, <1>4, <3>1 DEF KeyHeld
  <2>. QED  BY <2>1, <2>2
<1>. QED  BY <1>1, <1>5, <1>6 DEF SpendInv, ReqOk, OneAtATime

\* Keys go, or expire.
LEMMA OldKeyStep ==
    ASSUME SpendInv, service = "keys", UNCHANGED <<mode, service>>, NEW k \in DOMAIN keys, RevokeSessionKey(k) \/ KeyExpires(k)
    PROVE  SpendInv'
<1>1. UNCHANGED <<req, wallet>>
  BY DEF RevokeSessionKey, KeyExpires
<1>2. DOMAIN keys' \subseteq DOMAIN keys /\ \A j \in DOMAIN keys' : IsKey(keys'[j]) /\ keys'[j].uses = keys[j].uses
  <2>1. CASE RevokeSessionKey(k)
    BY <2>1 DEF RevokeSessionKey, Without, SpendInv
  <2>2. CASE KeyExpires(k)
    <3>. DEFINE e == [keys[k] EXCEPT !.expired = TRUE]
    <3>1. keys' = [keys EXCEPT ![k] = e]
      BY <2>2 DEF KeyExpires
    <3>2. IsKey(keys[k])
      BY DEF SpendInv
    <3>3. IsKey(e) /\ e.uses = keys[k].uses
      BY <3>2 DEF IsKey, KeyFields
    <3>. HIDE DEF e
    <3>. QED  BY <3>1, <3>3 DEF SpendInv
  <2>. QED  BY <2>1, <2>2
<1>3. ASSUME NEW r, KeyHeld(r) PROVE KeyHeld(r)'
  BY <1>2, <1>3 DEF KeyHeld
<1>. QED  BY <1>1, <1>2, <1>3 DEF SpendInv, ReqOk, OneAtATime

LEMMA KeyRequestStep ==
    ASSUME SpendInv, service = "keys", UNCHANGED <<mode, service>>, NEW k \in DOMAIN keys, NEW h \in Handlers,
           ExecuteTransaction(h, k) \/ ExecuteBatch(h, k, 1)
    PROVE  SpendInv'
<1>0. h \in AllThreads /\ ReqOk
  BY DEF AllThreads, SpendInv
<1>1. PICK x \in {0, 1} : Begins(h, Request("spend", "execute", k, "none", x)) /\ Authenticated(k) /\ UNCHANGED <<keys, wallet>>
  BY DEF ExecuteTransaction, ExecuteBatch
<1>. DEFINE r == Request("spend", "execute", k, "none", x)
<1>2. IsRequest(r) /\ r.op = "spend" /\ r.id = k /\ r.amt = x
  BY RequestIs
<1>. HIDE DEF r
<1>3. Rest(h) /\ req'[h] = r /\ (mode = "serial" => \A g \in AllThreads : req[g] = NoRequest)
  BY <1>0, <1>1, BeginsIs DEF r
<1>4. ReqOk'
  BY <1>0, <1>2, <1>3, ReqKept
<1>5. KeyHeld(r)
  BY <1>1, <1>2 DEF KeyHeld, Authenticated, KeyValid
<1>6. mode = "serial" => OneAtATime' /\ \A g \in AllThreads : req'[g] # NoRequest => g = h
  BY <1>0, <1>3, AloneKept DEF SpendInv
<1>7. mode = "serial" => \A g \in AllThreads : req'[g] # NoRequest => KeyHeld(req'[g])
  BY <1>3, <1>5, <1>6
<1>8. \A g \in AllThreads : KeyHeld(req'[g]) => KeyHeld(req[g])'
  BY <1>1 DEF KeyHeld
<1>. QED  BY <1>1, <1>4, <1>6, <1>7, <1>8 DEF SpendInv

LEMMA ExecutedStep ==
    ASSUME SpendInv, service = "keys", UNCHANGED <<mode, service>>, NEW h \in Handlers, NEW ok \in BOOLEAN, TransactionExecuted(h, ok)
    PROVE  SpendInv'
<1>0. h \in AllThreads /\ ReqOk /\ MaxUses \in Nat
  BY SmartAccountsAssumption DEF AllThreads, SpendInv
<1>. DEFINE r == req[h]
            k == r.id
            n == Request(r.op, r.step, r.id, r.user, r.amt - 1)
<1>1. /\ r.op = "spend" /\ UNCHANGED wallet
      /\ keys' = IF k \in DOMAIN keys THEN [keys EXCEPT ![k] = KeyUsed(@, ok)] ELSE keys
      /\ \/ r.amt > 0 /\ k \in DOMAIN keys /\ KeyValid(keys'[k]) /\ req' = [req EXCEPT ![h].amt = @ - 1]
         \/ Ends(h)
  BY DEF TransactionExecuted, At
<1>2. IsRequest(r) /\ r # NoRequest
  BY <1>0, <1>1, AtIs
<1>3. /\ DOMAIN keys' = DOMAIN keys /\ \A j \in DOMAIN keys : j # k => keys'[j] = keys[j]
      /\ k \in DOMAIN keys => keys'[k] = KeyUsed(keys[k], ok)
  BY <1>1
<1>4. \A j \in DOMAIN keys : IsKey(keys[j])
  BY DEF SpendInv
<1>. HIDE DEF k
<1>5. \A j \in DOMAIN keys' : IsKey(keys'[j]) /\ keys'[j].uses = (IF ok /\ j = k THEN keys[j].uses + 1 ELSE keys[j].uses)
  <2>. SUFFICES ASSUME NEW j \in DOMAIN keys PROVE IsKey(keys'[j]) /\ keys'[j].uses = (IF ok /\ j = k THEN keys[j].uses + 1 ELSE keys[j].uses)
    BY <1>3
  <2>1. CASE j = k
    <3>1. keys'[j] = KeyUsed(keys[j], ok) /\ IsKey(keys[j])
      BY <1>3, <1>4, <2>1
    <3>2. IsKey(KeyUsed(keys[j], ok)) /\ KeyUsed(keys[j], ok).uses = (IF ok THEN keys[j].uses + 1 ELSE keys[j].uses)
      BY <3>1, KeyUsedIs
    <3>. QED  BY <2>1, <3>1, <3>2
  <2>2. CASE j # k
    BY <1>3, <1>4, <2>2
  <2>. QED  BY <2>1, <2>2
<1>6. /\ Rest(h)
      /\ \/ req'[h] = NoRequest
         \/ req'[h] = n /\ r.amt > 0 /\ k \in DOMAIN keys /\ KeyValid(keys'[k])
  <2>1. CASE Ends(h)
    BY <1>0, <2>1, EndsIs
  <2>2. CASE r.amt > 0 /\ k \in DOMAIN keys /\ KeyValid(keys'[k]) /\ req' = [req EXCEPT ![h].amt = @ - 1]
    <3>1. Rest(h) /\ req'[h] = [r EXCEPT !.amt = r.amt - 1]
      BY <1>0, <2>2 DEF ReqOk, Rest
    <3>2. [r EXCEPT !.amt = r.amt - 1] = n
      <4>1. r = Request(r.op, r.step, r.id, r.user, r.amt)
        BY <1>2 DEF IsRequest
      <4>. HIDE DEF r
      <4>. QED  BY <4>1 DEF Request
    <3>. QED  BY <2>2, <3>1, <3>2
  <2>. QED  BY <1>1, <2>1, <2>2
<1>7. IsRequest(n) /\ n.op = "spend" /\ n.id = k /\ n.amt = r.amt - 1
  BY <1>1, RequestIs DEF k
<1>. HIDE DEF n
<1>8. ReqOk'
  BY <1>0, <1>6, <1>7, ReqKept
<1>9. ASSUME mode = "serial"
      PROVE  /\ OneAtATime' /\ (\A j \in DOMAIN keys' : MaxUses > 0 => keys'[j].uses <= MaxUses)
             /\ \A g \in AllThreads : req'[g] # NoRequest => KeyHeld(req[g])'
  <2>1. KeyHeld(r) /\ OneAtATime /\ \A g \in AllThreads : g # h => req[g] = NoRequest
    BY <1>0, <1>2, <1>9 DEF SpendInv, OneAtATime
  <2>2. OneAtATime' /\ \A g \in AllThreads : req'[g] # NoRequest => g = h
    BY <1>0, <1>6, <2>1, AloneKept
  <2>3. ASSUME NEW j \in DOMAIN keys', MaxUses > 0 PROVE keys'[j].uses <= MaxUses
    <3>1. keys[j].uses <= MaxUses /\ keys[j].uses \in Nat /\ (j = k => keys[j].uses < MaxUses) /\ j \in DOMAIN keys
      BY <1>3, <1>4, <1>9, <2>1, <2>3 DEF SpendInv, KeyHeld, IsKey, k
    <3>. QED  BY <1>0, <1>5, <2>3, <3>1
  <2>4. ASSUME req'[h] # NoRequest PROVE KeyHeld(req[h])'
    <3>1. req'[h] = n /\ r.amt > 0 /\ KeyValid(keys'[k])
      BY <1>6, <2>4
    <3>2. n.amt \in Nat
      BY <1>7, <2>1, <3>1 DEF KeyHeld
    <3>. QED  BY <1>7, <3>1, <3>2 DEF KeyHeld, KeyValid
  <2>. QED  BY <2>2, <2>3, <2>4
<1>. QED  BY <1>1, <1>5, <1>8, <1>9 DEF SpendInv

\* The multisig wallet: a transaction, its confirmations, its result.
LEMMA NewTxStep ==
    ASSUME SpendInv, service = "wallet", UNCHANGED <<mode, service>>, NEW u, NEW x, CreateWalletTx(u, x)
    PROVE  SpendInv'
<1>. DEFINE n == items + 1
            tx == [by |-> {}, status |-> "pending", paid |-> 0]
<1>1. wallet' = With(wallet, n, tx) /\ UNCHANGED <<req, keys>> /\ items' = n
  BY DEF CreateWalletTx, NewItem
<1>2. DOMAIN tx = TxFields /\ tx = [f \in TxFields |-> tx[f]] /\ tx.by = {} /\ tx.paid = 0 /\ tx.status = "pending"
  BY DEF TxFields
<1>3. items \in Nat /\ DOMAIN wallet \subseteq 1..items /\ n \notin DOMAIN wallet /\ n \in Nat /\ 1..items \cup {n} \subseteq 1..n
  BY DEF SpendInv
<1>. HIDE DEF n, tx
<1>4. DOMAIN wallet' = DOMAIN wallet \cup {n} /\ \A t \in DOMAIN wallet' : wallet'[t] = IF t = n THEN tx ELSE wallet[t]
  BY <1>1 DEF With
<1>5. IsTx(tx) /\ TxPaid(tx)
  BY <1>2 DEF IsTx, TxPaid
<1>6. \A t \in DOMAIN wallet' : IsTx(wallet'[t]) /\ (mode = "serial" => TxPaid(wallet'[t]))
  BY <1>4, <1>5 DEF SpendInv
<1>7. ASSUME mode = "serial", NEW h \in AllThreads, req[h] # NoRequest PROVE TxHeld(req[h])'
  <2>1. TxHeld(req[h])
    BY <1>7 DEF SpendInv
  <2>. QED  BY <1>1, <1>3, <1>4, <2>1 DEF TxHeld
<1>. QED  BY <1>1, <1>3, <1>4, <1>6, <1>7 DEF SpendInv, ReqOk, OneAtATime

LEMMA ConfirmStep ==
    ASSUME SpendInv, service = "wallet", UNCHANGED <<mode, service>>, NEW h \in Handlers, NEW t \in DOMAIN wallet, NEW u \in Users,
           ConfirmWalletTx(h, t, u)
    PROVE  SpendInv'
<1>0. h \in AllThreads /\ ReqOk
  BY DEF AllThreads, SpendInv
<1>. DEFINE x == wallet[t]
            by == x.by \cup {u}
            y == [x EXCEPT !.by = by]
            r == Request("confirmTx", "execute", t, u, 0)
<1>1. /\ x.status # "executed" /\ UNCHANGED <<keys, items>> /\ wallet' = [wallet EXCEPT ![t] = y]
      /\ IF Cardinality(by) >= Required THEN Begins(h, r) ELSE req' = req
  BY DEF ConfirmWalletTx, ConfirmedEnough
<1>2. IsTx(x)
  BY DEF SpendInv
<1>. HIDE DEF x
<1>3. by \subseteq Users
  BY <1>2 DEF IsTx
<1>. HIDE DEF by
<1>4. IsTx(y) /\ y.by = by /\ y.status = x.status /\ y.paid = x.paid
  BY <1>2, <1>3 DEF IsTx, TxFields
<1>5. Cardinality(x.by) \in Nat /\ Cardinality(by) \in Nat /\ Cardinality(x.by) <= Cardinality(by)
  <2>1. x.by \in SUBSET by /\ IsFiniteSet(by)
    BY <1>3, SmartAccountsAssumption, Smaller DEF by
  <2>. QED  BY <2>1, Smaller
<1>. HIDE DEF y
<1>6. DOMAIN wallet' = DOMAIN wallet /\ wallet'[t] = y /\ \A s \in DOMAIN wallet : s # t => wallet'[s] = wallet[s]
  BY <1>1
<1>7. \A s \in DOMAIN wallet' : IsTx(wallet'[s]) /\ (mode = "serial" => TxPaid(wallet'[s]))
  <2>1. mode = "serial" => TxPaid(y)
    <3>1. mode = "serial" => TxPaid(x) /\ x.paid \in Nat
      BY <1>2 DEF SpendInv, x, IsTx
    <3>. QED  BY <1>4, <1>5, <3>1, SmartAccountsAssumption DEF TxPaid
  <2>. QED  BY <1>4, <1>6, <2>1 DEF SpendInv
<1>8. \A i : (i \in DOMAIN wallet => Cardinality(wallet[i].by) >= Required) /\ i \in DOMAIN wallet
            => Cardinality(wallet'[i].by) >= Required
  BY <1>4, <1>5, <1>6, SmartAccountsAssumption DEF x
<1>9. ASSUME NEW q, TxHeld(q) PROVE q.op = "confirmTx" /\ q.id \in DOMAIN wallet' /\ wallet'[q.id].status # "executed" /\ Cardinality(wallet'[q.id].by) >= Required
  BY <1>4, <1>6, <1>8, <1>9 DEF TxHeld, x
<1>10. CASE req' = req
  <2>1. ASSUME mode = "serial", NEW g \in AllThreads, req[g] # NoRequest PROVE TxHeld(req[g])'
    <3>1. TxHeld(req[g])
      BY <2>1 DEF SpendInv
    <3>. QED  BY <1>9, <1>10, <3>1 DEF TxHeld
  <2>. QED  BY <1>1, <1>6, <1>7, <1>10, <2>1 DEF SpendInv, ReqOk, OneAtATime
<1>11. CASE Begins(h, r) /\ Cardinality(by) >= Required
  <2>1. IsRequest(r) /\ r.op = "confirmTx" /\ r.id = t
    BY RequestIs
  <2>. HIDE DEF r
  <2>2. Rest(h) /\ req'[h] = r /\ (mode = "serial" => \A g \in AllThreads : req[g] = NoRequest)
    BY <1>0, <1>11, BeginsIs
  <2>3. ReqOk'
    BY <1>0, <2>1, <2>2, ReqKept
  <2>4. mode = "serial" => OneAtATime' /\ \A g \in AllThreads : req'[g] # NoRequest => g = h
    BY <1>0, <2>2, AloneKept DEF SpendInv
  <2>5. TxHeld(req[h])'
    BY <1>1, <1>4, <1>6, <1>11, <2>1, <2>2 DEF TxHeld
  <2>. QED  BY <1>1, <1>6, <1>7, <2>3, <2>4, <2>5 DEF SpendInv
<1>. QED  BY <1>1, <1>10, <1>11

LEMMA TxExecutedStep ==
    ASSUME SpendInv, service = "wallet", UNCHANGED <<mode, service>>, NEW h \in Handlers, NEW st, WalletTxExecuted(h, st)
    PROVE  SpendInv'
<1>0. h \in AllThreads /\ ReqOk
  BY DEF AllThreads, SpendInv
<1>. DEFINE t == req[h].id
            x == wallet[t]
            paid == IF st = "executed" /\ x.paid < 2 THEN x.paid + 1 ELSE x.paid
            y == [[x EXCEPT !.status = st] EXCEPT !.paid = paid]
<1>1. /\ req[h].op = "confirmTx" /\ Ends(h) /\ UNCHANGED <<keys, items>>
      /\ wallet' = [wallet EXCEPT ![t].status = st, ![t].paid = IF st = "executed" /\ @ < 2 THEN @ + 1 ELSE @]
  BY DEF WalletTxExecuted, At
<1>2. DOMAIN wallet' = DOMAIN wallet /\ (\A s \in DOMAIN wallet : s # t => wallet'[s] = wallet[s]) 
  BY <1>1
<1>3. ASSUME t \in DOMAIN wallet PROVE IsTx(wallet'[t]) /\ wallet'[t].by = x.by /\ wallet'[t].status = st /\ wallet'[t].paid = paid
  <2>1. IsTx(x)
    BY <1>3 DEF SpendInv
  <2>2. wallet'[t] = y
    <3>. DEFINE w1 == [wallet EXCEPT ![t].status = st]
    <3>1. w1[t] = [x EXCEPT !.status = st] /\ DOMAIN w1 = DOMAIN wallet
      BY <1>3
    <3>2. w1[t].paid = x.paid
      BY <2>1, <3>1 DEF IsTx, TxFields
    <3>3. wallet' = [w1 EXCEPT ![t].paid = IF st = "executed" /\ w1[t].paid < 2 THEN w1[t].paid + 1 ELSE w1[t].paid]
      BY <1>1
    <3>. HIDE DEF w1, x
    <3>4. wallet'[t] = [w1[t] EXCEPT !.paid = paid]
      BY <1>3, <3>1, <3>2, <3>3
    <3>. QED  BY <3>1, <3>4
  <2>3. paid \in Nat
    BY <2>1 DEF IsTx
  <2>. HIDE DEF x, paid
  <2>4. IsTx([x EXCEPT !.status = st])
    BY <2>1 DEF IsTx, TxFields
  <2>. DEFINE z == [x EXCEPT !.status = st]
  <2>5. z.by = x.by /\ z.status = st
    BY <2>1 DEF IsTx, TxFields
  <2>6. IsTx(y) /\ y.by = x.by /\ y.status = st /\ y.paid = paid
    <3>. HIDE DEF z
    <3>1. IsTx([z EXCEPT !.paid = paid]) /\ [z EXCEPT !.paid = paid].by = z.by /\ [z EXCEPT !.paid = paid].status = z.status /\ [z EXCEPT !.paid = paid].paid = paid
      <4>1. IsTx(z)
        BY <2>4 DEF z
      <4>. QED  BY <2>3, <4>1 DEF IsTx, TxFields
    <3>. QED  BY <2>5, <3>1 DEF z
  <2>. QED  BY <2>2, <2>6
<1>4. \A s \in DOMAIN wallet' : IsTx(wallet'[s])
  BY <1>2, <1>3 DEF SpendInv
<1>5. Rest(h) /\ req'[h] = NoRequest
  BY <1>0, <1>1, EndsIs
<1>6. ReqOk'
  BY <1>0, <1>5, ReqKept
<1>7. ASSUME mode = "serial"
      PROVE  (\A s \in DOMAIN wallet' : TxPaid(wallet'[s])) /\ \A g \in AllThreads : req'[g] = NoRequest
  <2>1. req[h] # NoRequest
    BY <1>0, <1>1, AtIs
  <2>2. TxHeld(req[h]) /\ \A g \in AllThreads : g # h => req[g] = NoRequest
    BY <1>0, <1>7, <2>1 DEF SpendInv, OneAtATime
  <2>3. t \in DOMAIN wallet /\ x.status # "executed" /\ Cardinality(x.by) >= Required /\ TxPaid(x) /\ IsTx(x)
    BY <1>7, <2>2 DEF TxHeld, SpendInv
  <2>4. x.paid = 0
    BY <2>3 DEF TxPaid, IsTx
  <2>5. TxPaid(wallet'[t])
    <3>. HIDE DEF x
    <3>. QED  BY <1>3, <2>3, <2>4 DEF TxPaid
  <2>. QED  BY <1>2, <1>5, <1>7, <2>2, <2>5 DEF SpendInv, Rest
<1>. QED  BY <1>1, <1>2, <1>4, <1>6, <1>7 DEF SpendInv, OneAtATime

\* Every step of the server keeps the invariant of keys and wallets.
LEMMA SpendingStep ==
    ASSUME SpendInv, [RestNext]_restVars
    PROVE  SpendInv'
<1>1. CASE ServiceStep /\ service = "keys"
  <2>1. KeysNext /\ UNCHANGED <<mode, service, wallet>>
    BY <1>1 DEF ServiceStep
  <2>2. ASSUME NEW b \in BOOLEAN, ManagerSessionKey(b) PROVE SpendInv'
    BY <1>1, <2>1, <2>2, NewKeyStep DEF ManagerSessionKey
  <2>3. FALSE \in BOOLEAN
    OBVIOUS
  <2>4. PostSessionKey => SpendInv'
    BY <2>2, <2>3 DEF PostSessionKey
  <2>. QED  BY <1>1, <2>1, <2>2, <2>4, OldKeyStep, KeyRequestStep, ExecutedStep DEF KeysNext
<1>2. CASE ServiceStep /\ service = "wallet"
  <2>1. WalletNext /\ UNCHANGED <<mode, service, keys>>
    BY <1>2 DEF ServiceStep
  <2>. QED  BY <1>2, <2>1, NewTxStep, ConfirmStep, TxExecutedStep DEF WalletNext
<1>3. CASE ServiceStep /\ service \notin {"keys", "wallet"}
  <2>1. UNCHANGED <<keys, wallet, mode, service>>
    BY <1>3 DEF ServiceStep
  <2>. QED  BY <1>3, <2>1 DEF SpendInv
<1>4. CASE Restart
  <2>1. /\ mode' = "restarted" /\ req' = [h \in DOMAIN req |-> NoRequest] /\ UNCHANGED <<service, items>>
        /\ keys' = Nothing /\ wallet' = Nothing
    BY <1>4 DEF Restart, ServicesCrash, AccountsRestart
  <2>2. DOMAIN keys' = {} /\ DOMAIN wallet' = {}
    BY <2>1 DEF Nothing
  <2>3. ReqOk => ReqOk'
    BY <2>1 DEF ReqOk
  <2>. QED  BY <2>1, <2>2, <2>3 DEF SpendInv
<1>5. CASE UNCHANGED restVars
  <2>1. UNCHANGED <<keys, wallet, mode, service, req, items>>
    BY <1>5 DEF restVars
  <2>. QED  BY <2>1 DEF SpendInv, ReqOk, OneAtATime, KeyHeld, TxHeld
<1>. QED  BY <1>1, <1>2, <1>3, <1>4, <1>5 DEF RestNext

\* SpendingBounded for every number of keys, owners and uses (smart_accounts.py,
\* execute_transaction, execute_batch; multisig.py, confirm): whatever is created, revoked,
\* expired or confirmed in between, no key spends more often than it may and no wallet
\* transaction is paid twice or with too few owners, as long as requests do not overlap.
THEOREM SpendingLimited == RestSpec => []SpendingBounded
<1>1. RestInit => SpendInv
  <2>. SUFFICES ASSUME RestInit PROVE SpendInv
    OBVIOUS
  <2>1. keys = Nothing /\ wallet = Nothing /\ req = [h \in AllThreads |-> NoRequest] /\ items = 0
    BY DEF RestInit, AccountsInit, ServicesInit, AllThreads
  <2>2. DOMAIN keys = {} /\ DOMAIN wallet = {}
    BY <2>1 DEF Nothing
  <2>3. ReqOk /\ \A h \in AllThreads : req[h] = NoRequest
    BY <2>1 DEF ReqOk
  <2>. QED  BY <2>1, <2>2, <2>3 DEF SpendInv, OneAtATime
<1>2. SpendInv /\ [RestNext]_restVars => SpendInv'
  BY SpendingStep
<1>3. SpendInv => SpendingBounded
  BY DEF SpendInv, SpendingBounded, IsKey, TxPaid
<1>. QED  BY <1>1, <1>2, <1>3, PTL DEF RestSpec

-----------------------------------------------------------------------------
(* The requests of the services but the market *)

Serves(r) == "op" \in DOMAIN r /\ r.op # "sale"
NoSales == DOMAIN req = AllThreads /\ \A h \in AllThreads : Serves(req[h])

\* No service but the market starts a sale, so that the market finds none after another service.
LEMMA NothingServed == Serves(NoRequest)
BY DEF Serves, NoRequest

LEMMA OtherRequest == \A op, step, id, user, amt : op # "sale" => Serves(Request(op, step, id, user, amt))
BY DEF Serves, Request

LEMMA NoSaleOne ==
    ASSUME NoSales, NEW h \in AllThreads, NEW r, Serves(r), req' = [req EXCEPT ![h] = r]
    PROVE  NoSales'
BY DEF NoSales

LEMMA NoSaleBegins ==
    ASSUME NoSales, NEW h \in AllThreads, NEW op, NEW step, NEW id, NEW user, NEW amt, op # "sale",
           Begins(h, Request(op, step, id, user, amt))
    PROVE  NoSales'
BY OtherRequest, NoSaleOne DEF Begins

LEMMA NoSaleEnds ==
    ASSUME NoSales, NEW h \in AllThreads, Ends(h)
    PROVE  NoSales'
BY NothingServed, NoSaleOne DEF Ends

LEMMA NoSaleField ==
    ASSUME NoSales, NEW h \in AllThreads, NEW f, f # "op", NEW x
    PROVE  Serves([req[h] EXCEPT ![f] = x])
<1>. DEFINE r == req[h]
<1>1. Serves(r)
  BY DEF NoSales
<1>. HIDE DEF r
<1>2. Serves([r EXCEPT ![f] = x])
  BY <1>1 DEF Serves
<1>. QED  BY <1>2 DEF r

LEMMA NoSaleGoes ==
    ASSUME NoSales, NEW h \in AllThreads, NEW step, Goes(h, step)
    PROVE  NoSales'
<1>. DEFINE r == [req[h] EXCEPT !.step = step]
<1>1. Serves(r) /\ req' = [req EXCEPT ![h] = r]
  BY NoSaleField DEF Goes
<1>. HIDE DEF r
<1>. QED  BY <1>1, NoSaleOne

LEMMA NoSaleSame == NoSales /\ req' = req => NoSales'
BY DEF NoSales

\* The threads of the services are threads of the server.
LEMMA ThreadsAre ==
    /\ Handlers \subseteq AllThreads /\ Threads \subseteq AllThreads /\ PlasmaThreads \subseteq AllThreads
    /\ BridgeThreads \subseteq AllThreads /\ Miner \in AllThreads /\ Monitor \in AllThreads /\ ExitMonitor \in AllThreads
    /\ Relayer \in AllThreads
BY DEF AllThreads, Threads, PlasmaThreads, BridgeThreads

LEMMA ChannelsNoSale == NoSales /\ ChannelsNext => NoSales'
<1>. SUFFICES ASSUME NoSales, NEW h \in Handlers,
        \/ PostLightningOpen(h) \/ OpenDebit(h) \/ OpenSave(h)
        \/ PostLightningPay(h) \/ PayMove(h)
        \/ PostLightningClose(h) \/ CloseCredit1(h) \/ CloseCredit2(h) \/ CloseMark(h)
              PROVE  NoSales'
  BY DEF ChannelsNext
<1>0. h \in AllThreads
  BY ThreadsAre
<1>1. CASE PostLightningOpen(h) \/ PostLightningPay(h) \/ PostLightningClose(h)
  BY <1>0, <1>1, NoSaleBegins DEF PostLightningOpen, OpenChannel, PostLightningPay, SendPayment, PostLightningClose, CloseChannel
<1>2. CASE OpenDebit(h) \/ CloseCredit1(h) \/ CloseCredit2(h)
  BY <1>0, <1>2, NoSaleGoes DEF OpenDebit, CloseCredit1, CloseCredit2
<1>3. CASE OpenSave(h) \/ PayMove(h) \/ CloseMark(h)
  BY <1>0, <1>3, NoSaleEnds DEF OpenSave, PayMove, CloseMark
<1>. QED  BY <1>1, <1>2, <1>3

LEMMA WillsNoSale == NoSales /\ WillsNext => NoSales'
<1>. SUFFICES ASSUME NoSales, WillsNext PROVE NoSales'
  OBVIOUS
<1>1. ASSUME NEW h \in AllThreads, CreateDebit(h) \/ CreateSave(h) \/ CancelMark(h) \/ ExecuteMark(h) PROVE NoSales'
  BY <1>1, NoSaleGoes, NoSaleEnds DEF CreateDebit, CreateSave, CancelMark, ExecuteMark
<1>2. ASSUME NEW h \in AllThreads, NEW w, NEW force, ExecuteWill(h, w, force) PROVE NoSales'
  BY <1>2, NoSaleBegins DEF ExecuteWill
<1>3. ASSUME NEW h \in AllThreads, PostWillCreate(h) \/ PostWillCancel(h) PROVE NoSales'
  BY <1>3, NoSaleBegins DEF PostWillCreate, CreateWill, PostWillCancel, CancelWill
<1>4. ASSUME NEW w, FallDue(w) PROVE NoSales'
  BY <1>4, NoSaleSame DEF FallDue
<1>. QED  BY <1>1, <1>2, <1>3, <1>4, ThreadsAre DEF WillsNext, PostWillExecute, MonitorExecutes

LEMMA PlasmaNoSale == NoSales /\ PlasmaNext => NoSales'
<1>. SUFFICES ASSUME NoSales, PlasmaNext PROVE NoSales'
  OBVIOUS
<1>1. ASSUME NEW h \in AllThreads, DepositDebit(h) \/ DepositSave(h) \/ FinalizeMark(h) PROVE NoSales'
  BY <1>1, NoSaleGoes, NoSaleEnds DEF DepositDebit, DepositSave, FinalizeMark
<1>2. ASSUME NEW h \in AllThreads, NEW e, NEW force, FinalizeExit(h, e, force) PROVE NoSales'
  BY <1>2, NoSaleBegins DEF FinalizeExit
<1>3. ASSUME NEW h \in AllThreads, PostPlasmaDeposit(h) PROVE NoSales'
  BY <1>3, NoSaleBegins DEF PostPlasmaDeposit, Deposit
<1>4. ASSUME PostPlasmaTx \/ PostPlasmaSubmitBlock \/ PostPlasmaExit \/ \E e \in DOMAIN exits : PeriodOver(e) PROVE NoSales'
  BY <1>4, NoSaleSame DEF PostPlasmaTx, SubmitTransaction, PostPlasmaSubmitBlock, SubmitBlock, PostPlasmaExit, RequestExit, PeriodOver
<1>. QED  BY <1>1, <1>2, <1>3, <1>4, ThreadsAre DEF PlasmaNext, PostPlasmaFinalizeExit, MonitorFinalizes

LEMMA BridgeNoSale == NoSales /\ BridgeNext => NoSales'
<1>. SUFFICES ASSUME NoSales, BridgeNext PROVE NoSales'
  OBVIOUS
<1>1. ASSUME NEW h \in AllThreads, LockDebit(h) \/ LockBurn(h) \/ LockSave(h) \/ RefundCredit(h) \/ RefundMark(h) PROVE NoSales'
  BY <1>1, NoSaleGoes, NoSaleEnds DEF LockDebit, LockBurn, LockSave, RefundCredit, RefundMark
<1>2. ASSUME NEW h \in AllThreads, ConfirmMark(h) \/ IncomingCheck(h) \/ IncomingCredit(h) \/ IncomingSave(h) PROVE NoSales'
  BY <1>2, NoSaleGoes, NoSaleEnds DEF ConfirmMark, IncomingCheck, IncomingCredit, IncomingSave
<1>3. ASSUME NEW h \in AllThreads, IncomingQueue(h) PROVE NoSales'
  <2>. DEFINE r == [req[h] EXCEPT !.step = "check"]
  <2>1. Serves(r)
    BY NoSaleField
  <2>2. req' = [req EXCEPT ![h] = [r EXCEPT !.amt = 1]]
    BY <1>3 DEF IncomingQueue, NoSales
  <2>. HIDE DEF r
  <2>3. Serves([r EXCEPT !.amt = 1])
    BY <2>1 DEF Serves
  <2>. QED  BY <2>2, <2>3, NoSaleOne
<1>4. ASSUME NEW h \in AllThreads, NEW k, ConfirmLock(h, k) PROVE NoSales'
  BY <1>4, NoSaleBegins DEF ConfirmLock
<1>5. ASSUME NEW h \in AllThreads, NEW tx, NEW c, NEW p, ConfirmIncoming(h, tx, c, p) PROVE NoSales'
  <2>. DEFINE step == IF p THEN "queue" ELSE "check"
  <2>1. Begins(h, Request("incoming", step, 0, <<tx, c>>, 0))
    BY <1>5 DEF ConfirmIncoming
  <2>. HIDE DEF step
  <2>. QED  BY <2>1, NoSaleBegins
<1>6. ASSUME NEW h \in AllThreads, PostBridgeLock(h) \/ PostBridgeRefund(h) PROVE NoSales'
  BY <1>6, NoSaleBegins DEF PostBridgeLock, LockAndBridge, PostBridgeRefund, Refund
<1>7. ASSUME RelayerTick \/ RelayerLoads \/ RelayerSaves \/ PostBridgeL1Register \/ \E tx \in L1Txs : L1Moves(tx) PROVE NoSales'
  BY <1>7, NoSaleSame DEF RelayerTick, RelayerLoads, RelayerSaves, PostBridgeL1Register, L1Moves
<1>8. ASSUME NEW k, RelayerConfirms(k) PROVE NoSales'
  BY <1>4, <1>8, ThreadsAre, NoSaleSame DEF RelayerConfirms
<1>9. ASSUME NEW e, RelayerOutgoing(e) PROVE NoSales'
  BY <1>4, <1>9, ThreadsAre, NoSaleSame DEF RelayerOutgoing
<1>10. ASSUME NEW e, RelayerIncoming(e) PROVE NoSales'
  BY <1>5, <1>10, ThreadsAre, NoSaleSame DEF RelayerIncoming
<1>. QED  BY <1>1, <1>2, <1>3, <1>4, <1>5, <1>6, <1>7, <1>8, <1>9, <1>10, ThreadsAre DEF BridgeNext, PostBridgeConfirmLock, PostBridgeConfirm

LEMMA AccountsNoSale == NoSales /\ (AccountsNext \/ KeysNext \/ WalletNext) => NoSales'
<1>. SUFFICES ASSUME NoSales, AccountsNext \/ KeysNext \/ WalletNext PROVE NoSales'
  OBVIOUS
<1>1. CASE AccountsNext
  <2>1. UNCHANGED req
    BY <1>1 DEF AccountsNext, PostCreateAccount, CreateAccount, DeleteAccount, PostRecover, RecoverAccount, AddGuardian, ApproveGuardian,
         RemoveGuardian, RequestRecovery, RequestExpires, ApproveRecovery, ExecuteRecovery
  <2>. QED  BY <2>1, NoSaleSame
<1>2. ASSUME NEW h \in Handlers, NEW ok, TransactionExecuted(h, ok) PROVE NoSales'
  <2>1. CASE Ends(h)
    BY <2>1, NoSaleEnds, ThreadsAre
  <2>2. CASE req' = [req EXCEPT ![h].amt = @ - 1]
    <3>. DEFINE r == [req[h] EXCEPT !.amt = req[h].amt - 1]
    <3>1. Serves(r) /\ req' = [req EXCEPT ![h] = r] /\ h \in AllThreads
      BY <2>2, NoSaleField, ThreadsAre
    <3>. HIDE DEF r
    <3>. QED  BY <3>1, NoSaleOne
  <2>. QED  BY <1>2, <2>1, <2>2 DEF TransactionExecuted
<1>3. ASSUME NEW h \in Handlers, NEW k, ExecuteTransaction(h, k) \/ ExecuteBatch(h, k, 1) PROVE NoSales'
  BY <1>3, ThreadsAre, NoSaleBegins DEF ExecuteTransaction, ExecuteBatch
<1>4. ASSUME NEW k, RevokeSessionKey(k) \/ KeyExpires(k) \/ CreateSessionKey(k) PROVE NoSales'
  BY <1>4, NoSaleSame DEF RevokeSessionKey, KeyExpires, CreateSessionKey
<1>5. CASE KeysNext
  BY <1>2, <1>3, <1>4, <1>5 DEF KeysNext, PostSessionKey, ManagerSessionKey
<1>6. CASE WalletNext
  <2>1. ASSUME NEW h \in Handlers, NEW t, NEW u, ConfirmWalletTx(h, t, u) PROVE NoSales'
    BY <2>1, ThreadsAre, NoSaleBegins, NoSaleSame DEF ConfirmWalletTx
  <2>2. ASSUME NEW u, NEW x, CreateWalletTx(u, x) PROVE NoSales'
    BY <2>2, NoSaleSame DEF CreateWalletTx
  <2>3. ASSUME NEW h \in Handlers, NEW s, WalletTxExecuted(h, s) PROVE NoSales'
    BY <2>3, ThreadsAre, NoSaleEnds DEF WalletTxExecuted
  <2>. QED  BY <1>6, <2>1, <2>2, <2>3 DEF WalletNext
<1>. QED  BY <1>1, <1>5, <1>6

LEMMA PoolsNoSale == NoSales /\ PoolsNext => NoSales'
<1>. SUFFICES ASSUME NoSales, PoolsNext PROVE NoSales'
  OBVIOUS
<1>1. CASE MinedBoundary \/ EpochSave
  BY <1>1, ThreadsAre, NoSaleBegins, NoSaleEnds DEF MinedBoundary, EpochSave
<1>2. ASSUME NEW h \in Handlers, PostPoolsDaoVote(h) \/ PostPoolsSpend(h) PROVE NoSales'
  BY <1>2, ThreadsAre, NoSaleBegins DEF PostPoolsDaoVote, DaoVote, PostPoolsSpend, PoolSpend
<1>3. ASSUME NEW h \in Handlers, VoteSave(h) \/ SpendDebit(h) \/ SpendCredit(h) \/ SpendSave(h) PROVE NoSales'
  BY <1>3, ThreadsAre, NoSaleEnds, NoSaleGoes DEF VoteSave, SpendDebit, SpendCredit, SpendSave
<1>4. ASSUME NEW h \in Handlers, SpendLoad(h) PROVE NoSales'
  <2>. DEFINE r == [req[h] EXCEPT !.step = "save"]
  <2>1. Serves(r) /\ h \in AllThreads
    BY NoSaleField, ThreadsAre
  <2>2. req' = [req EXCEPT ![h] = [r EXCEPT !.id = locksMeta]]
    BY <1>4, <2>1 DEF SpendLoad, Loads, NoSales
  <2>. HIDE DEF r
  <2>3. Serves([r EXCEPT !.id = locksMeta])
    BY <2>1 DEF Serves
  <2>. QED  BY <2>1, <2>2, <2>3, NoSaleOne
<1>. QED  BY <1>1, <1>2, <1>3, <1>4 DEF PoolsNext

LEMMA ShardsNoSale == NoSales /\ ShardsNext => NoSales'
<1>. SUFFICES ASSUME NoSales, ShardsNext PROVE NoSales'
  OBVIOUS
<1>1. CASE PostShardingAddTx
  BY <1>1, NoSaleSame DEF PostShardingAddTx, AddTransaction
<1>2. ASSUME NEW h \in AllThreads, PostShardingProcessCross(h) PROVE NoSales'
  BY <1>2, NoSaleBegins DEF PostShardingProcessCross, ProcessCross
<1>3. ASSUME NEW h \in AllThreads, CrossDebit(h) \/ CrossCredit(h) PROVE NoSales'
  BY <1>3, NoSaleGoes DEF CrossDebit, CrossCredit
<1>4. ASSUME NEW h \in AllThreads, CrossNext(h) PROVE NoSales'
  <2>1. CASE req' = [req EXCEPT ![h] = NoRequest]
    BY <2>1, NothingServed, NoSaleOne
  <2>2. ASSUME NEW s, req' = [req EXCEPT ![h].step = s] PROVE NoSales'
    BY <2>2, NoSaleGoes DEF Goes
  <2>. QED  BY <1>4, <2>1, <2>2 DEF CrossNext
<1>5. ASSUME NEW h \in AllThreads, CrossRemove(h) PROVE NoSales'
  <2>1. CASE req' = [req EXCEPT ![h] = NoRequest]
    BY <2>1, NothingServed, NoSaleOne
  <2>2. CASE req' = [req EXCEPT ![h].step = "next", ![h].id = Tail(@)]
    <3>. DEFINE r == [req[h] EXCEPT !.step = "next"]
    <3>1. Serves(r)
      BY NoSaleField
    <3>2. req' = [req EXCEPT ![h] = [r EXCEPT !.id = Tail(r.id)]]
      BY <2>2 DEF NoSales
    <3>. HIDE DEF r
    <3>. DEFINE q == [r EXCEPT !.id = Tail(r.id)]
    <3>3. Serves(q)
      BY <3>1 DEF Serves
    <3>. HIDE DEF q
    <3>. QED  BY <3>2, <3>3, NoSaleOne DEF q
  <2>. QED  BY <1>5, <2>1, <2>2 DEF CrossRemove
<1>. QED  BY <1>1, <1>2, <1>3, <1>4, <1>5, ThreadsAre DEF ShardsNext

LEMMA ContractsNoSale == NoSales /\ (WasmNext \/ AgentsNext) => NoSales'
<1>. SUFFICES ASSUME NoSales, WasmNext \/ AgentsNext PROVE NoSales'
  OBVIOUS
<1>1. ASSUME NEW h \in AllThreads, NEW op \in {"deploy", "agent"}, NEW u, NEW s, Create(h, op, u, s) PROVE NoSales'
  <2>1. op # "sale" /\ Begins(h, Request(op, "fee", items + 1, u, s))
    BY <1>1 DEF Create
  <2>. QED  BY <2>1, NoSaleBegins
<1>2. ASSUME NEW h \in AllThreads, ChargeFee(h) \/ CallWrite(h) \/ CallSave(h) \/ AgentSave(h) PROVE NoSales'
  BY <1>2, NoSaleGoes, NoSaleEnds DEF ChargeFee, CallWrite, CallSave, AgentSave
<1>3. ASSUME NEW h \in AllThreads, DeployCreate(h) \/ AgentCreate(h) PROVE NoSales'
  <2>1. PICK r : Serves(r) /\ req' = [req EXCEPT ![h] = r]
    BY <1>3, OtherRequest DEF DeployCreate, AgentCreate
  <2>. QED  BY <2>1, NoSaleOne
<1>4. ASSUME NEW h \in AllThreads, PostWasmCall(h) \/ PostAiAgentDeactivate(h) PROVE NoSales'
  <2>1. ASSUME NEW c, NEW u, NEW v, NEW x, CallTransfer(h, c, u, v, x) PROVE NoSales'
    <3>1. Begins(h, Request("call", "write", c, <<u, v, wasm[c].tokens[u]>>, x))
      BY <2>1 DEF CallTransfer
    <3>. QED  BY <3>1, NoSaleBegins
  <2>2. ASSUME NEW c, NEW u, NEW v, NEW x, CallSetStorage(h, c, u, v, x) PROVE NoSales'
    <3>1. Begins(h, Request("call", "save", c, "none", 0))
      BY <2>2 DEF CallSetStorage
    <3>. QED  BY <3>1, NoSaleBegins
  <2>3. ASSUME NEW a, Deactivate(h, a) PROVE NoSales'
    <3>1. Begins(h, Request("agent", "save", a, "none", 0))
      BY <2>3 DEF Deactivate
    <3>. QED  BY <3>1, NoSaleBegins
  <2>. QED  BY <1>4, <2>1, <2>2, <2>3 DEF PostWasmCall, PostAiAgentDeactivate
<1>. QED  BY <1>1, <1>2, <1>3, <1>4, ThreadsAre DEF WasmNext, AgentsNext, PostWasmDeploy, PostAiAgentCreate

LEMMA MiniNoSale == NoSales /\ MiniNext => NoSales'
<1>. SUFFICES ASSUME NoSales, MiniNext PROVE NoSales'
  OBVIOUS
<1>1. ASSUME NEW h \in AllThreads, PostMiniVmDeploy(h) PROVE NoSales'
  <2>1. PICK id, user : Begins(h, Request("mini", "save", id, user, 0))
    BY <1>1 DEF PostMiniVmDeploy, MiniDeploy
  <2>. QED  BY <2>1, NoSaleBegins
<1>2. ASSUME NEW h \in AllThreads, PostMiniVmCall(h) PROVE NoSales'
  <2>1. PICK id, user : Begins(h, Request("mini", "run", id, user, 0))
    BY <1>2 DEF PostMiniVmCall, MiniCall
  <2>. QED  BY <2>1, NoSaleBegins
<1>3. ASSUME NEW h \in AllThreads, VmStep(h) PROVE NoSales'
  BY <1>3, NoSaleSame DEF VmStep
<1>4. ASSUME NEW h \in AllThreads, VmRaises(h) \/ MiniSave(h) PROVE NoSales'
  BY <1>4, NoSaleEnds DEF VmRaises, MiniSave
<1>5. ASSUME NEW h \in AllThreads, MiniReturns(h) PROVE NoSales'
  <2>1. PICK id, user : req' = [req EXCEPT ![h] = Request("mini", "save", id, user, 0)]
    BY <1>5 DEF MiniReturns
  <2>. QED  BY <2>1, OtherRequest, NoSaleOne
<1>. QED  BY <1>1, <1>2, <1>3, <1>4, <1>5, ThreadsAre DEF MiniNext

-----------------------------------------------------------------------------
(* The market *)

MarketParts == {"tokens", "offers", "auctions"}

Trades(r) == r.op \in {"mint", "sale"}

\* At most one request holds the marketplace's lock, and no other thread asks for it.
OneTrades ==
    /\ \A h \in AllThreads : req[h] = NoRequest \/ (IsRequest(req[h]) /\ Trades(req[h]) /\ h \in Handlers)
    /\ \A g, h \in Handlers : Trades(req[g]) /\ Trades(req[h]) => g = h

MarketOk ==
    /\ DOMAIN market = MarketParts /\ market = [k \in MarketParts |-> market[k]]
    /\ marketDb = market

\* The owner was read under the lock that the sale still holds, and no other service leaves a sale behind.
MarketInv ==
    /\ MarketOk /\ service \in Chosen
    /\ service = "market" => ReqOk /\ OneTrades /\ PaidIsOwner
    /\ service # "market" => NoSales

LEMMA NoneTrades == ~ Trades(NoRequest)
BY DEF Trades, NoRequest

\* Saving one part of the market leaves the owners of the tokens alone.
LEMMA SavesMarket ==
    ASSUME MarketOk, NEW part \in MarketParts, NEW i, NEW x, SaveMarket(part, i, x)
    PROVE  MarketOk' /\ (part # "tokens" => market'.tokens = market.tokens)
<1>. DEFINE y == With(market[part], i, x)
<1>1. market' = [market EXCEPT ![part] = y] /\ marketDb' = [market EXCEPT ![part] = y]
  BY DEF SaveMarket, MarketOk
<1>. HIDE DEF y
<1>. QED  BY <1>1 DEF MarketOk, MarketParts

\* A step that takes no request and hands no token over while a sale runs.
LEMMA TradesKept ==
    ASSUME ReqOk, OneTrades, PaidIsOwner, req' = req, MarketLockFree \/ market'.tokens = market.tokens
    PROVE  ReqOk' /\ OneTrades' /\ PaidIsOwner'
<1>1. ReqOk' /\ OneTrades'
  BY DEF ReqOk, OneTrades
<1>2. CASE MarketLockFree
  BY <1>1, <1>2 DEF MarketLockFree, PaidIsOwner
<1>3. CASE market'.tokens = market.tokens
  BY <1>1, <1>3 DEF PaidIsOwner
<1>. QED  BY <1>1, <1>2, <1>3

\* A sale reads the owner under the lock of the market and keeps the lock up to its last step.
LEMMA TradeBegins ==
    ASSUME ReqOk, OneTrades, MarketLockFree, NEW h \in Handlers, NEW op \in {"mint", "sale"},
           NEW step, NEW id, NEW user, NEW amt, Begins(h, Request(op, step, id, user, amt)),
           op = "sale" => market'.tokens[id[1]].owner = user[2]
    PROVE  ReqOk' /\ OneTrades' /\ PaidIsOwner'
<1>. DEFINE r == Request(op, step, id, user, amt)
<1>0. h \in AllThreads /\ op # "none"
  BY ThreadsAre
<1>1. IsRequest(r) /\ r.op = op /\ r.step = step /\ r.id = id /\ r.user = user /\ r # NoRequest
  BY <1>0, RequestIs
<1>. HIDE DEF r
<1>2. Begins(h, r)
  BY DEF r
<1>3. Rest(h) /\ req'[h] = r
  BY <1>0, <1>2, BeginsIs
<1>4. ReqOk'
  BY <1>0, <1>1, <1>3, ReqKept
<1>5. \A g \in Handlers : g # h => req'[g] = req[g] /\ ~ Trades(req[g])
  BY <1>3, ThreadsAre DEF Rest, MarketLockFree, Trades
<1>6. Trades(r)
  BY <1>1 DEF Trades
<1>7. OneTrades'
  BY <1>1, <1>3, <1>5, <1>6 DEF OneTrades, Rest
<1>8. PaidIsOwner'
  BY <1>1, <1>3, <1>5 DEF PaidIsOwner, Trades
<1>. QED  BY <1>4, <1>7, <1>8

LEMMA TradeGoes ==
    ASSUME ReqOk, OneTrades, PaidIsOwner, NEW h \in Handlers, Trades(req[h]), NEW step, Goes(h, step),
           step = "close" \/ (market'.tokens = market.tokens /\ req[h].step # "close")
    PROVE  ReqOk' /\ OneTrades' /\ PaidIsOwner'
<1>. DEFINE q == req[h]
            r == Request(q.op, step, q.id, q.user, q.amt)
<1>0. h \in AllThreads /\ q.op # "none" /\ IsRequest(q)
  BY ThreadsAre, NoneTrades DEF OneTrades, IsRequest
<1>1. IsRequest(r) /\ r.op = q.op /\ r.step = step /\ r.id = q.id /\ r.user = q.user /\ r # NoRequest
  <2>. HIDE DEF q
  <2>. QED  BY <1>0, RequestIs
<1>3. Rest(h) /\ req'[h] = r
  BY <1>0, GoesIs
<1>4. q = req[h] /\ Trades(q) /\ (q.step # "close" /\ q.op = "sale" => market.tokens[q.id[1]].owner = q.user[2])
  BY DEF PaidIsOwner
<1>. HIDE DEF r, q
<1>5. ReqOk'
  BY <1>0, <1>1, <1>3, ReqKept
<1>6. \A g \in Handlers : g # h => req'[g] = req[g] /\ ~ Trades(req[g])
  BY <1>3, ThreadsAre DEF Rest, OneTrades
<1>7. Trades(r)
  BY <1>1, <1>4 DEF Trades
<1>8. OneTrades'
  BY <1>1, <1>3, <1>6, <1>7 DEF OneTrades, Rest
<1>9. PaidIsOwner'
  BY <1>1, <1>3, <1>4, <1>6 DEF PaidIsOwner, Trades
<1>. QED  BY <1>5, <1>8, <1>9

LEMMA TradeEnds ==
    ASSUME ReqOk, OneTrades, NEW h \in Handlers, Trades(req[h]), Ends(h)
    PROVE  ReqOk' /\ OneTrades' /\ PaidIsOwner'
<1>1. h \in AllThreads
  BY ThreadsAre
<1>2. Rest(h) /\ req'[h] = NoRequest
  BY <1>1, EndsIs
<1>3. ReqOk'
  BY <1>1, <1>2, ReqKept
<1>4. \A g \in Handlers : g # h => req'[g] = req[g] /\ ~ Trades(req[g])
  BY <1>2, ThreadsAre DEF Rest, OneTrades
<1>5. \A g \in Handlers : ~ Trades(req'[g])
  BY <1>2, <1>4, NoneTrades
<1>. QED  BY <1>2, <1>3, <1>5 DEF OneTrades, PaidIsOwner, Trades, Rest

MarketKept == ReqOk' /\ MarketOk' /\ OneTrades' /\ PaidIsOwner'

\* The steps of the market: only the sale that holds the lock moves a token.
LEMMA MarketStep ==
    ASSUME ReqOk, MarketOk, OneTrades, PaidIsOwner, MarketNext
    PROVE  MarketKept
<1>0. MarketParts = {"tokens", "offers", "auctions"}
  BY DEF MarketParts
<1>1. ASSUME NEW h \in Handlers, PostNftMint(h) PROVE MarketKept
  <2>1. PICK t \in Tokens, u \in Users, x \in Amounts \cup {0} : Mint(h, t, u, x)
    BY <1>1 DEF PostNftMint
  <2>2. MarketLockFree /\ Begins(h, Request("mint", "debit", <<t, 0>>, u, x)) /\ UNCHANGED <<market, marketDb>>
    BY <2>1 DEF Mint
  <2>3. ReqOk' /\ OneTrades' /\ PaidIsOwner'
    BY <2>2, TradeBegins
  <2>. QED  BY <2>2, <2>3 DEF MarketKept, MarketOk
<1>2. ASSUME NEW h \in Handlers, MintDebit(h) \/ SaleDebit(h) \/ SalePay(h) \/ SaleRoyalty(h) PROVE MarketKept
  <2>1. PICK step : Goes(h, step) /\ Trades(req[h]) /\ req[h].step # "close" /\ UNCHANGED <<market, marketDb>>
    BY <1>2 DEF MintDebit, SaleDebit, SalePay, SaleRoyalty, At, Trades
  <2>2. ReqOk' /\ OneTrades' /\ PaidIsOwner'
    BY <2>1, TradeGoes
  <2>. QED  BY <2>1, <2>2 DEF MarketKept, MarketOk
<1>3. ASSUME NEW h \in Handlers, MintSave(h) \/ SaleClose(h) PROVE MarketKept
  <2>1. Ends(h) /\ Trades(req[h])
    BY <1>3 DEF MintSave, SaleClose, At, Trades
  <2>2. PICK part, i, x : part \in MarketParts /\ SaveMarket(part, i, x)
    <3>1. CASE MintSave(h)
      BY <1>0, <3>1 DEF MintSave
    <3>2. CASE SaleClose(h)
      BY <1>0, <3>2 DEF SaleClose
    <3>. QED  BY <1>3, <3>1, <3>2
  <2>. QED  BY <2>1, <2>2, TradeEnds, SavesMarket DEF MarketKept
<1>4. ASSUME NEW h \in Handlers, SaleHand(h) PROVE MarketKept
  <2>1. Trades(req[h]) /\ (Ends(h) \/ Goes(h, "close"))
    BY <1>4 DEF SaleHand, At, Trades
  <2>2. MarketOk'
    BY <1>0, <1>4, SavesMarket DEF SaleHand
  <2>. QED  BY <2>1, <2>2, TradeEnds, TradeGoes DEF MarketKept
<1>5. ASSUME NEW h \in Handlers, PostNftBuy(h) PROVE MarketKept
  <2>1. PICK t \in DOMAIN market.tokens, u \in Users : Buy(h, t, u)
    BY <1>5 DEF PostNftBuy
  <2>. DEFINE owner == market.tokens[t].owner
              price == market.tokens[t].price
  <2>2. MarketLockFree /\ Begins(h, Request("sale", "debit", <<t, 0>>, <<u, owner>>, price)) /\ UNCHANGED <<market, marketDb>>
    BY <2>1 DEF Buy, BeginSale
  <2>3. market'.tokens[(<<t, 0>>)[1]].owner = (<<u, owner>>)[2]
    BY <2>2
  <2>. HIDE DEF owner, price
  <2>4. ReqOk' /\ OneTrades' /\ PaidIsOwner'
    BY <2>2, <2>3, TradeBegins
  <2>. QED  BY <2>2, <2>4 DEF MarketKept, MarketOk
<1>6. ASSUME NEW h \in Handlers, PostNftAcceptOffer(h) PROVE MarketKept
  <2>1. PICK o \in DOMAIN market.offers, u \in Users : AcceptOffer(h, o, u)
    BY <1>6 DEF PostNftAcceptOffer
  <2>. DEFINE t == market.offers[o].token
              bidder == market.offers[o].bidder
              price == market.offers[o].price
  <2>2. MarketLockFree /\ Begins(h, Request("sale", "debit", <<t, o>>, <<bidder, u>>, price)) /\ UNCHANGED <<market, marketDb>>
        /\ market.tokens[t].owner = u
    BY <2>1 DEF AcceptOffer, BeginSale, Owns
  <2>3. market'.tokens[(<<t, o>>)[1]].owner = (<<bidder, u>>)[2]
    BY <2>2
  <2>. HIDE DEF t, bidder, price
  <2>4. ReqOk' /\ OneTrades' /\ PaidIsOwner'
    BY <2>2, <2>3, TradeBegins
  <2>. QED  BY <2>2, <2>4 DEF MarketKept, MarketOk
<1>7. ASSUME NEW h \in Handlers, PostNftFinalizeAuction(h) PROVE MarketKept
  <2>1. PICK a \in DOMAIN market.auctions : FinalizeAuction(h, a)
    BY <1>7 DEF PostNftFinalizeAuction
  <2>. DEFINE t == market.auctions[a].token
              bidder == market.auctions[a].bidder
              price == market.auctions[a].bid
              owner == market.tokens[t].owner
  <2>2. PICK x : SaveMarket("auctions", a, x)
    BY <2>1 DEF FinalizeAuction
  <2>3. MarketOk' /\ market'.tokens = market.tokens
    BY <1>0, <2>2, SavesMarket
  <2>4. MarketLockFree
    BY <2>1 DEF FinalizeAuction
  <2>5. UNCHANGED req \/ Begins(h, Request("sale", "debit", <<t, 0>>, <<bidder, owner>>, price))
    BY <2>1 DEF FinalizeAuction, BeginSale, PaidForAuction
  <2>6. market'.tokens[(<<t, 0>>)[1]].owner = (<<bidder, owner>>)[2]
    BY <2>3
  <2>. HIDE DEF t, bidder, price, owner
  <2>7. ReqOk' /\ OneTrades' /\ PaidIsOwner'
    BY <2>3, <2>4, <2>5, <2>6, TradeBegins, TradesKept
  <2>. QED  BY <2>3, <2>7 DEF MarketKept
<1>8. ASSUME NEW part \in MarketParts, NEW i, NEW x, SaveMarket(part, i, x), req' = req, MarketLockFree \/ part # "tokens" PROVE MarketKept
  BY <1>8, SavesMarket, TradesKept DEF MarketKept
<1>9. CASE PostNftList \/ PostNftTransfer
  BY <1>0, <1>8, <1>9 DEF PostNftList, PostNftTransfer, ListForSale, TransferToken
<1>10. CASE PostNftOffer \/ PostNftAuction
  BY <1>0, <1>8, <1>10 DEF PostNftOffer, PostNftAuction, MakeOffer, CreateAuction
<1>11. CASE PostNftBid
  BY <1>0, <1>8, <1>11 DEF PostNftBid, PlaceBid
<1>12. CASE \E a \in DOMAIN market.auctions : AuctionTimeOver(a)
  BY <1>0, <1>8, <1>12 DEF AuctionTimeOver
<1>. QED  BY <1>1, <1>2, <1>3, <1>4, <1>5, <1>6, <1>7, <1>9, <1>10, <1>11, <1>12 DEF MarketNext

\* Every step of the server keeps the invariant of the market.
LEMMA SalesStep ==
    ASSUME MarketInv, [RestNext]_restVars
    PROVE  MarketInv'
<1>1. CASE ServiceStep /\ service = "market"
  <2>1. MarketNext /\ UNCHANGED <<mode, service>>
    BY <1>1 DEF ServiceStep
  <2>2. ReqOk /\ MarketOk /\ OneTrades /\ PaidIsOwner
    BY <1>1 DEF MarketInv
  <2>3. MarketKept
    BY <2>1, <2>2, MarketStep
  <2>. QED  BY <1>1, <2>1, <2>3 DEF MarketInv, MarketKept
<1>2. CASE ServiceStep /\ service # "market"
  <2>1. UNCHANGED <<market, marketDb, service>> /\ NoSales
    BY <1>2 DEF ServiceStep, MarketInv
  <2>2. \/ ChannelsNext \/ WillsNext \/ PlasmaNext \/ BridgeNext \/ AccountsNext \/ KeysNext \/ WalletNext \/ PoolsNext
        \/ ShardsNext \/ WasmNext \/ AgentsNext \/ MiniNext
    BY <1>2, RestAssumption DEF ServiceStep, MarketInv
  <2>3. NoSales'
    BY <2>1, <2>2, ChannelsNoSale, WillsNoSale, PlasmaNoSale, BridgeNoSale, AccountsNoSale, PoolsNoSale, ShardsNoSale,
       ContractsNoSale, MiniNoSale
  <2>. QED  BY <1>2, <2>1, <2>3 DEF MarketInv, MarketOk
<1>3. CASE Restart
  <2>1. /\ req' = [h \in DOMAIN req |-> NoRequest] /\ UNCHANGED service /\ market' = marketDb /\ marketDb' = marketDb
    BY <1>3 DEF Restart, ServicesCrash, MarketRestart
  <2>2. DOMAIN req = AllThreads
    BY DEF MarketInv, ReqOk, NoSales
  <2>3. ReqOk' /\ \A h \in AllThreads : req'[h] = NoRequest
    BY <2>1, <2>2 DEF ReqOk
  <2>4. OneTrades' /\ PaidIsOwner'
    BY <2>3, NoneTrades, ThreadsAre DEF OneTrades, PaidIsOwner, Trades
  <2>5. NoSales'
    BY <2>3, NothingServed DEF NoSales, ReqOk
  <2>. QED  BY <2>1, <2>3, <2>4, <2>5 DEF MarketInv, MarketOk
<1>4. CASE UNCHANGED restVars
  <2>1. UNCHANGED <<market, marketDb, service, req>>
    BY <1>4 DEF restVars
  <2>. QED  BY <2>1 DEF MarketInv, MarketOk, ReqOk, OneTrades, PaidIsOwner, NoSales
<1>. QED  BY <1>1, <1>2, <1>3, <1>4 DEF RestNext

LEMMA MarketStart == RestInit => MarketInv
<1>. SUFFICES ASSUME RestInit PROVE MarketInv
  OBVIOUS
<1>1. /\ market = [tokens |-> GenesisCollection, offers |-> Nothing, auctions |-> Nothing] /\ marketDb = market
      /\ req = [h \in AllThreads |-> NoRequest] /\ service \in Chosen
  BY DEF RestInit, MarketInit, ServicesInit, AllThreads
<1>2. MarketOk
  BY <1>1 DEF MarketOk, MarketParts
<1>3. ReqOk /\ \A h \in AllThreads : req[h] = NoRequest
  BY <1>1 DEF ReqOk
<1>4. OneTrades /\ PaidIsOwner
  BY <1>3, NoneTrades, ThreadsAre DEF OneTrades, PaidIsOwner, Trades
<1>. QED  BY <1>1, <1>2, <1>3, <1>4, NothingServed DEF MarketInv, NoSales, ReqOk

\* PaidIsOwner for every number of tokens, bidders and threads (nft.py, _settle_sale under
\* buy, accept_offer and finalize_auction): between the debit of the buyer and the
\* hand-over no listing, transfer, bid or auction end gives the token to somebody else.
THEOREM OwnersPaid == RestSpec => []PaidIsOwner
<1>1. RestInit => MarketInv
  BY MarketStart
<1>2. MarketInv /\ [RestNext]_restVars => MarketInv'
  BY SalesStep
<1>3. MarketInv => PaidIsOwner
  BY ThreadsAre DEF MarketInv, PaidIsOwner, NoSales, Serves
<1>. QED  BY <1>1, <1>2, <1>3, PTL DEF RestSpec
=============================================================================
