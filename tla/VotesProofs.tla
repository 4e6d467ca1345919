---------------------------- MODULE VotesProofs ----------------------------
(***************************************************************************)
(* Theorems about the attestations: what the fork choice counts, what a      *)
(* slashed validator can still do, and where the fork choice leads, for      *)
(* every number of validators, every stake and every epoch size.             *)
(***************************************************************************)
EXTENDS Votes, SumTheorems, TLAPS

-----------------------------------------------------------------------------
(* The engines of one node *)

EngineFields == {"known", "votes", "proposals", "slashed", "latest", "kids", "blank", "root", "weight", "just", "final", "total"}
IsEngines(e) == DOMAIN e = EngineFields /\ e = [k \in EngineFields |-> e[k]]

\* LatestIsLast of one node, with what makes it inductive: no accepted vote is of a slot
\* after the node's own, and only registered validators have a latest vote.
EnginesInv(e, s) ==
    /\ IsEngines(e)
    /\ \A y \in e.votes : y[2] \in Nat /\ y[2] <= s
    /\ \A x \in e.latest : /\ x.v \in e.known
                           /\ <<x.v, x.s, x.b>> \in e.votes
                           /\ \A y \in e.votes : y[1] = x.v => y[2] <= x.s

\* Whom e has slashed f has slashed too, and no vote of theirs differs.
Frozen(e, f) ==
    \A v \in Out(e) : /\ v \in Out(f)
                      /\ {x \in f.latest : x.v = v} = {x \in e.latest : x.v = v}
                      /\ {x \in f.votes : x[1] = v} = {x \in e.votes : x[1] = v}

After(e, f, s) == EnginesInv(f, s) /\ Frozen(e, f)

LEMMA AfterAfter ==
    ASSUME NEW e, NEW f, NEW g, NEW s, After(e, f, s), After(f, g, s)
    PROVE  After(e, g, s)
BY DEF After, Frozen

LEMMA AfterSame ==
    ASSUME NEW e, NEW s, EnginesInv(e, s)
    PROVE  After(e, e, s)
BY DEF After, Frozen

\* A step that leaves both tables of votes.
LEMMA QuietStep ==
    ASSUME NEW e, NEW f, NEW s, EnginesInv(e, s), IsEngines(f), f.votes = e.votes, f.latest = e.latest,
           e.known \subseteq f.known, e.slashed \subseteq f.slashed
    PROVE  After(e, f, s)
<1>1. EnginesInv(f, s)
  BY DEF EnginesInv
<1>2. Frozen(e, f)
  BY DEF Frozen, Out
<1>. QED  BY <1>1, <1>2 DEF After

LEMMA SlashAfter ==
    ASSUME NEW e, NEW s, EnginesInv(e, s), NEW v, NEW reason
    PROVE  After(e, Slash(e, v, reason), s)
<1>. DEFINE f == [e EXCEPT !.slashed = @ \cup {<<v, reason>>}]
<1>0. IsEngines(e)
  BY DEF EnginesInv
<1>1. IsEngines(f) /\ f.votes = e.votes /\ f.latest = e.latest /\ f.known = e.known /\ f.slashed = e.slashed \cup {<<v, reason>>}
  BY <1>0 DEF IsEngines, EngineFields
<1>2. Slash(e, v, reason) \in {e, f}
  BY DEF Slash
<1>. HIDE DEF f
<1>3. After(e, f, s)
  BY <1>1, QuietStep
<1>. QED  BY <1>2, <1>3, AfterSame

LEMMA StoredAfter ==
    ASSUME NEW e, NEW s, EnginesInv(e, s), NEW b
    PROVE  After(e, Stored(e, b), s)
<1>. DEFINE f == [e EXCEPT !.proposals = @ \cup {<<b.height, b.miner>>}]
            r == RecordProposal(e, b)
            g == AddBlock(r, b)
<1>0. IsEngines(e)
  BY DEF EnginesInv
<1>1. IsEngines(f) /\ f.votes = e.votes /\ f.latest = e.latest /\ f.known = e.known /\ f.slashed = e.slashed
  BY <1>0 DEF IsEngines, EngineFields
<1>2. r \in {f, Slash(e, b.miner, "double_proposal")}
  BY DEF RecordProposal
<1>. HIDE DEF f
<1>3. After(e, f, s)
  BY <1>1, QuietStep
<1>4. After(e, r, s)
  BY <1>2, <1>3, SlashAfter
<1>. HIDE DEF r
<1>5. IsEngines(r) /\ EnginesInv(r, s)
  BY <1>4 DEF After, EnginesInv
<1>6. IsEngines(g) /\ g.votes = r.votes /\ g.latest = r.latest /\ g.known = r.known /\ g.slashed = r.slashed
  BY <1>5 DEF AddBlock, IsEngines, EngineFields
<1>. HIDE DEF g
<1>7. After(r, g, s)
  BY <1>5, <1>6, QuietStep
<1>8. Stored(e, b) \in {r, g}
  BY DEF Stored, r, g
<1>. QED  BY <1>4, <1>7, <1>8, AfterAfter

LEMMA AddVoteAfter ==
    ASSUME NEW e, NEW s \in Nat, EnginesInv(e, s), NEW v, NEW b, v \notin Out(AddVote(e, v, s, b))
    PROVE  /\ v \notin Out(e) /\ IsEngines(AddVote(e, v, s, b))
           /\ AddVote(e, v, s, b).votes = e.votes \cup {<<v, s, b>>}
           /\ AddVote(e, v, s, b).latest = e.latest /\ AddVote(e, v, s, b).known = e.known
           /\ AddVote(e, v, s, b).slashed = e.slashed
<1>. DEFINE f == [e EXCEPT !.votes = @ \cup {<<v, s, b>>}]
            g == [e EXCEPT !.slashed = @ \cup {<<v, "double_vote">>}]
<1>0. IsEngines(e)
  BY DEF EnginesInv
<1>1. IsEngines(f) /\ f.votes = e.votes \cup {<<v, s, b>>} /\ f.latest = e.latest /\ f.known = e.known /\ f.slashed = e.slashed
  BY <1>0 DEF IsEngines, EngineFields
<1>2. g.slashed = e.slashed \cup {<<v, "double_vote">>}
  BY <1>0 DEF IsEngines, EngineFields
<1>3. v \in Out(g)
  <2>1. <<v, "double_vote">> \in g.slashed /\ <<v, "double_vote">>[1] = v
    BY <1>2
  <2>. QED  BY <2>1 DEF Out
<1>. HIDE DEF f, g
<1>4. AddVote(e, v, s, b) \in {e, f, g} /\ (AddVote(e, v, s, b) = e => v \in Out(e) \/ e = f \/ e = g) /\ (v \in Out(e) => AddVote(e, v, s, b) = e)
  BY DEF AddVote, Slash, f, g
<1>. QED  BY <1>1, <1>3, <1>4

\* on_attestation with the slot of the node.
LEMMA AttestationAfter ==
    ASSUME NEW e, NEW s \in Nat, EnginesInv(e, s), NEW v, NEW b
    PROVE  After(e, OnAttestation(e, v, s, b), s)
<1>. DEFINE voted == AddVote(e, v, s, b)
            moved == UpdateLatest(voted, v, s, b)
            counted == CountVote(moved, s, b)
            done == IF v \in e.known /\ \E x \in e.kids : x[2] = b THEN counted ELSE moved
            total == [done EXCEPT !.total = ActiveStake(done)]
<1>1. CASE v \in Out(voted)
  <2>1. OnAttestation(e, v, s, b) = voted
    BY <1>1 DEF OnAttestation
  <2>2. voted \in {e, Slash(e, v, "double_vote")} \/ v \notin Out(e)
    BY DEF AddVote
  <2>3. CASE voted \in {e, Slash(e, v, "double_vote")}
    BY <2>1, <2>3, SlashAfter, AfterSame
  <2>4. CASE voted = [e EXCEPT !.votes = @ \cup {<<v, s, b>>}] /\ v \notin Out(e)
    <3>1. voted.slashed = e.slashed
      BY <2>4 DEF EnginesInv, IsEngines, EngineFields
    <3>. QED  BY <1>1, <2>4, <3>1 DEF Out
  <2>5. voted \in {e, Slash(e, v, "double_vote")} \/ voted = [e EXCEPT !.votes = @ \cup {<<v, s, b>>}]
    BY DEF AddVote
  <2>. QED  BY <2>2, <2>3, <2>4, <2>5
<1>2. CASE v \notin Out(voted)
  <2>1. v \notin Out(e) /\ IsEngines(voted) /\ voted.votes = e.votes \cup {<<v, s, b>>} /\ voted.latest = e.latest
        /\ voted.known = e.known /\ voted.slashed = e.slashed
    BY <1>2, AddVoteAfter
  <2>. DEFINE new == [v |-> v, b |-> b, s |-> s]
              f == [voted EXCEPT !.latest = {x \in @ : x.v # v} \cup {new}]
  <2>2. IsEngines(f) /\ f.votes = voted.votes /\ f.known = voted.known /\ f.slashed = voted.slashed
        /\ f.latest = {x \in voted.latest : x.v # v} \cup {new}
    BY <2>1 DEF IsEngines, EngineFields
  <2>3. new.v = v /\ new.b = b /\ new.s = s
    OBVIOUS
  <2>4. \/ moved = voted /\ (v \notin voted.known \/ \E x \in voted.latest : x.v = v /\ x.s >= s)
        \/ moved = f /\ v \in voted.known
    BY DEF UpdateLatest
  <2>. HIDE DEF voted, f, new, moved
  <2>5. EnginesInv(moved, s)
    <3>0. \A y \in e.votes \cup {<<v, s, b>>} : y[2] \in Nat /\ y[2] <= s
      BY DEF EnginesInv
    <3>1. CASE moved = f /\ v \in voted.known
      <4>1. \A y \in f.votes : y[2] \in Nat /\ y[2] <= s
        BY <2>1, <2>2, <3>0
      <4>2. ASSUME NEW x \in f.latest
            PROVE  x.v \in f.known /\ <<x.v, x.s, x.b>> \in f.votes /\ \A y \in f.votes : y[1] = x.v => y[2] <= x.s
        <5>1. CASE x = new
          BY <2>1, <2>2, <2>3, <3>0, <3>1, <5>1
        <5>2. CASE x \in e.latest /\ x.v # v
          BY <2>1, <2>2, <5>2 DEF EnginesInv
        <5>. QED  BY <2>1, <2>2, <4>2, <5>1, <5>2
      <4>. QED  BY <2>2, <3>1, <4>1, <4>2 DEF EnginesInv
    <3>2. CASE moved = voted /\ (v \notin voted.known \/ \E x \in voted.latest : x.v = v /\ x.s >= s)
      <4>1. \A y \in voted.votes : y[2] \in Nat /\ y[2] <= s
        BY <2>1, <3>0
      <4>2. ASSUME NEW x \in voted.latest
            PROVE  x.v \in voted.known /\ <<x.v, x.s, x.b>> \in voted.votes /\ \A y \in voted.votes : y[1] = x.v => y[2] <= x.s
        <5>1. x \in e.latest /\ x.v \in e.known /\ <<x.v, x.s, x.b>> \in e.votes /\ \A y \in e.votes : y[1] = x.v => y[2] <= x.s
          BY <2>1, <4>2 DEF EnginesInv
        <5>2. x.v = v => s <= x.s
          <6>. SUFFICES ASSUME x.v = v PROVE s <= x.s
            OBVIOUS
          <6>1. PICK z \in e.latest : z.v = v /\ z.s >= s
            BY <2>1, <3>2, <5>1
          <6>2. <<z.v, z.s, z.b>> \in e.votes
            BY <6>1 DEF EnginesInv
          <6>3. <<z.v, z.s, z.b>>[2] <= x.s /\ <<z.v, z.s, z.b>>[2] \in Nat /\ <<x.v, x.s, x.b>>[2] \in Nat
            BY <5>1, <6>1, <6>2 DEF EnginesInv
          <6>. QED  BY <6>1, <6>3
        <5>. QED  BY <2>1, <5>1, <5>2
      <4>. QED  BY <2>1, <3>2, <4>1, <4>2 DEF EnginesInv
    <3>. QED  BY <2>4, <3>1, <3>2
  <2>6. Frozen(e, moved)
    <3>. SUFFICES ASSUME NEW w \in Out(e)
                  PROVE  /\ w \in Out(moved)
                         /\ {x \in moved.latest : x.v = w} = {x \in e.latest : x.v = w}
                         /\ {x \in moved.votes : x[1] = w} = {x \in e.votes : x[1] = w}
      BY DEF Frozen
    <3>1. w # v /\ moved.slashed = e.slashed /\ moved.votes = e.votes \cup {<<v, s, b>>}
      BY <2>1, <2>2, <2>4
    <3>2. {x \in moved.latest : x.v = w} = {x \in e.latest : x.v = w}
      <4>1. CASE moved = voted
        BY <2>1, <4>1
      <4>2. CASE moved = f
        BY <2>1, <2>2, <2>3, <3>1, <4>2
      <4>. QED  BY <2>4, <4>1, <4>2
    <3>3. {x \in moved.votes : x[1] = w} = {x \in e.votes : x[1] = w}
      BY <3>1
    <3>. QED  BY <3>1, <3>2, <3>3 DEF Out
  <2>7. After(e, moved, s) /\ IsEngines(moved)
    BY <2>5, <2>6 DEF After, EnginesInv
  <2>8. IsEngines(counted) /\ counted.votes = moved.votes /\ counted.latest = moved.latest /\ counted.known = moved.known
        /\ counted.slashed = moved.slashed
    BY <2>7 DEF CountVote, IsEngines, EngineFields
  <2>. HIDE DEF counted
  <2>9. After(moved, counted, s)
    BY <2>5, <2>8, QuietStep
  <2>10. After(e, done, s) /\ IsEngines(done)
    <3>1. done \in {moved, counted}
      BY DEF done
    <3>. HIDE DEF done
    <3>2. After(e, done, s)
      BY <2>7, <2>9, <3>1, AfterAfter
    <3>. QED  BY <3>2 DEF After, EnginesInv
  <2>. HIDE DEF done
  <2>11. IsEngines(total) /\ total.votes = done.votes /\ total.latest = done.latest /\ total.known = done.known /\ total.slashed = done.slashed
    BY <2>10 DEF IsEngines, EngineFields
  <2>. HIDE DEF total
  <2>12. After(done, total, s)
    <3>1. EnginesInv(done, s)
      BY <2>10 DEF After
    <3>. QED  BY <2>11, <3>1, QuietStep
  <2>13. After(e, total, s)
    BY <2>10, <2>12, AfterAfter
  <2>14. OnAttestation(e, v, s, b) = total
    BY <1>2 DEF OnAttestation, voted, moved, counted, done, total
  <2>. QED  BY <2>13, <2>14
<1>. QED  BY <1>1, <1>2

-----------------------------------------------------------------------------
(* The nodes *)

VotesInv ==
    /\ slot \in [Nodes -> Nat]
    /\ DOMAIN eng = Nodes /\ eng = [n \in Nodes |-> eng[n]]
    /\ \A n \in Nodes : EnginesInv(eng[n], slot[n])

FrozenStep == \A n \in Nodes : \A v \in Out(eng[n]) \cap Out(eng'[n]) :
    /\ {x \in eng'[n].latest : x.v = v} = {x \in eng[n].latest : x.v = v}
    /\ {x \in eng'[n].votes : x[1] = v} = {x \in eng[n].votes : x[1] = v}

LEMMA NoVotesInv ==
    ASSUME NEW members, NEW s
    PROVE  EnginesInv(NoVotes(members), s) /\ Out(NoVotes(members)) = {}
<1>. DEFINE e == NoVotes(members)
<1>1. IsEngines(e) /\ e.votes = {} /\ e.latest = {} /\ e.slashed = {}
  BY DEF NoVotes, IsEngines, EngineFields
<1>. HIDE DEF e
<1>2. EnginesInv(e, s) /\ Out(e) = {}
  BY <1>1 DEF EnginesInv, Out
<1>. QED  BY <1>2 DEF e

LEMMA VotesStart == Init => VotesInv
<1>. SUFFICES ASSUME Init PROVE VotesInv
  OBVIOUS
<1>1. slot \in [Nodes -> Nat]
  BY DEF Init
<1>2. PICK met \in BOOLEAN : eng = [n \in Nodes |-> NoVotes(IF met THEN Nodes ELSE {n})]
  BY DEF Init
<1>3. \A n \in Nodes : EnginesInv(eng[n], slot[n])
  BY <1>2, NoVotesInv
<1>. QED  BY <1>1, <1>2, <1>3 DEF VotesInv

\* One node has new engines; its slot stays or, after the votes, goes on.
LEMMA EnginesChange ==
    ASSUME VotesInv, NEW n \in Nodes, NEW e, eng' = [eng EXCEPT ![n] = e], slot' = slot \/ slot' = [slot EXCEPT ![n] = @ + 1],
           After(eng[n], e, slot[n])
    PROVE  VotesInv' /\ FrozenStep
<1>1. slot' \in [Nodes -> Nat] /\ (\A m \in Nodes : slot[m] \in Nat /\ slot'[m] \in Nat /\ slot[m] <= slot'[m])
  BY DEF VotesInv
<1>2. DOMAIN eng' = Nodes /\ eng' = [m \in Nodes |-> eng'[m]] /\ eng'[n] = e /\ \A m \in Nodes \ {n} : eng'[m] = eng[m]
  BY DEF VotesInv
<1>3. ASSUME NEW m \in Nodes PROVE EnginesInv(eng'[m], slot'[m])
  <2>1. EnginesInv(eng'[m], slot[m])
    BY <1>2 DEF VotesInv, After
  <2>2. \A y \in eng'[m].votes : y[2] \in Nat /\ y[2] <= slot'[m]
    BY <1>1, <2>1 DEF EnginesInv
  <2>. QED  BY <2>1, <2>2 DEF EnginesInv
<1>4. FrozenStep
  BY <1>2 DEF FrozenStep, After, Frozen
<1>. QED  BY <1>1, <1>2, <1>3, <1>4 DEF VotesInv

LEMMA MineStep ==
    ASSUME VotesInv, NEW n \in Nodes, Mine(n)
    PROVE  VotesInv' /\ FrozenStep
<1>0. slot[n] \in Nat /\ EnginesInv(eng[n], slot[n])
  BY DEF VotesInv
<1>1. PICK b, e, a : /\ e = Stored(eng[n], b) /\ a = Attested(n, e, b.id)
                     /\ IF n \in Out(e) THEN Chosen(n, e, FALSE) /\ UNCHANGED slot
                        ELSE slot' = [slot EXCEPT ![n] = @ + 1] /\ Chosen(n, a.engines, TRUE)
  BY DEF Mine
<1>2. After(eng[n], e, slot[n])
  BY <1>0, <1>1, StoredAfter
<1>3. a.engines = OnAttestation(e, n, slot[n], b.id)
  BY <1>1 DEF Attested
<1>4. After(eng[n], a.engines, slot[n])
  <2>1. EnginesInv(e, slot[n])
    BY <1>2 DEF After
  <2>2. After(e, a.engines, slot[n])
    BY <1>0, <1>3, <2>1, AttestationAfter
  <2>. QED  BY <1>2, <2>2, AfterAfter
<1>5. \/ eng' = [eng EXCEPT ![n] = e] /\ slot' = slot
      \/ eng' = [eng EXCEPT ![n] = a.engines] /\ slot' = [slot EXCEPT ![n] = @ + 1]
  BY <1>1 DEF Chosen
<1>. QED  BY <1>2, <1>4, <1>5, EnginesChange

LEMMA ImportStep ==
    ASSUME VotesInv, NEW n \in Nodes, NEW b, NEW announced \in BOOLEAN, Import(n, b, announced)
    PROVE  VotesInv' /\ FrozenStep
<1>0. slot[n] \in Nat /\ EnginesInv(eng[n], slot[n])
  BY DEF VotesInv
<1>1. PICK e, a : /\ e = Stored(eng[n], b) /\ a = Attested(n, e, b.id) /\ slot' = slot
                  /\ Chosen(n, e, FALSE) \/ Chosen(n, a.engines, FALSE)
  BY DEF Import
<1>2. After(eng[n], e, slot[n])
  BY <1>0, <1>1, StoredAfter
<1>3. a.engines = OnAttestation(e, n, slot[n], b.id)
  BY <1>1 DEF Attested
<1>4. After(eng[n], a.engines, slot[n])
  <2>1. EnginesInv(e, slot[n])
    BY <1>2 DEF After
  <2>2. After(e, a.engines, slot[n])
    BY <1>0, <1>3, <2>1, AttestationAfter
  <2>. QED  BY <1>2, <2>2, AfterAfter
<1>5. eng' = [eng EXCEPT ![n] = e] \/ eng' = [eng EXCEPT ![n] = a.engines]
  BY <1>1 DEF Chosen
<1>. QED  BY <1>1, <1>2, <1>4, <1>5, EnginesChange

LEMMA ReconcileStep ==
    ASSUME VotesInv, NEW n \in Nodes, NEW b, Reconcile(n, b)
    PROVE  VotesInv' /\ FrozenStep
<1>0. EnginesInv(eng[n], slot[n])
  BY DEF VotesInv
<1>1. PICK e \in {eng[n], Stored(eng[n], b)} : Chosen(n, e, FALSE) /\ slot' = slot
  BY DEF Reconcile
<1>2. After(eng[n], e, slot[n])
  BY <1>0, <1>1, StoredAfter, AfterSame
<1>3. eng' = [eng EXCEPT ![n] = e]
  BY <1>1 DEF Chosen
<1>. QED  BY <1>1, <1>2, <1>3, EnginesChange

LEMMA HearStep ==
    ASSUME VotesInv, NEW n \in Nodes, NEW v, NEW b, Hear(n, v, b)
    PROVE  VotesInv' /\ FrozenStep
<1>0. slot[n] \in Nat /\ EnginesInv(eng[n], slot[n])
  BY DEF VotesInv
<1>. DEFINE e == OnAttestation(eng[n], v, slot[n], b)
<1>1. eng' = [eng EXCEPT ![n] = e] /\ slot' = slot
  BY DEF Hear, Chosen
<1>2. After(eng[n], e, slot[n])
  BY <1>0, AttestationAfter
<1>. HIDE DEF e
<1>. QED  BY <1>1, <1>2, EnginesChange

LEMMA RegisterStep ==
    ASSUME VotesInv, NEW n \in Nodes, NEW v \in Nodes, Register(n, v)
    PROVE  VotesInv' /\ FrozenStep
<1>0. EnginesInv(eng[n], slot[n]) /\ IsEngines(eng[n])
  BY DEF VotesInv, EnginesInv
<1>. DEFINE e == AddValidator(eng[n], v)
<1>1. eng' = [eng EXCEPT ![n] = e] /\ slot' = slot
  BY DEF Register
<1>2. IsEngines(e) /\ e.votes = eng[n].votes /\ e.latest = eng[n].latest /\ eng[n].known \subseteq e.known /\ e.slashed = eng[n].slashed
  BY <1>0 DEF AddValidator, IsEngines, EngineFields
<1>. HIDE DEF e
<1>3. After(eng[n], e, slot[n])
  BY <1>0, <1>2, QuietStep
<1>. QED  BY <1>1, <1>3, EnginesChange

LEMMA RestartStep ==
    ASSUME VotesInv, NEW n \in Nodes, Restart(n)
    PROVE  VotesInv' /\ FrozenStep
<1>. DEFINE e == NoVotes(Active(n) \cup {n})
<1>1. eng' = [eng EXCEPT ![n] = e] /\ slot' = [slot EXCEPT ![n] = 0]
  BY DEF Restart
<1>2. EnginesInv(e, 0) /\ Out(e) = {}
  BY NoVotesInv
<1>. HIDE DEF e
<1>3. DOMAIN eng' = Nodes /\ eng' = [m \in Nodes |-> eng'[m]] /\ eng'[n] = e /\ \A m \in Nodes \ {n} : eng'[m] = eng[m]
  BY <1>1 DEF VotesInv
<1>4. slot' \in [Nodes -> Nat] /\ slot'[n] = 0 /\ \A m \in Nodes \ {n} : slot'[m] = slot[m]
  BY <1>1 DEF VotesInv
<1>5. VotesInv'
  BY <1>2, <1>3, <1>4 DEF VotesInv
<1>6. FrozenStep
  BY <1>2, <1>3 DEF FrozenStep
<1>. QED  BY <1>5, <1>6

LEMMA VotesStep ==
    ASSUME VotesInv, [Next]_vars
    PROVE  VotesInv' /\ FrozenStep
<1>1. ASSUME NEW n \in Nodes, Step(n) PROVE VotesInv' /\ FrozenStep
  <2>1. CASE Mine(n)
    BY <2>1, MineStep
  <2>2. ASSUME NEW b \in blocks, Import(n, b, TRUE) \/ Import(n, b, FALSE) PROVE VotesInv' /\ FrozenStep
    BY <2>2, ImportStep
  <2>3. ASSUME NEW b \in blocks, Reconcile(n, b) PROVE VotesInv' /\ FrozenStep
    BY <2>3, ReconcileStep
  <2>4. ASSUME NEW x \in signed, Hear(n, x[1], x[2]) PROVE VotesInv' /\ FrozenStep
    BY <2>4, HearStep
  <2>5. ASSUME NEW v \in Nodes, Register(n, v) PROVE VotesInv' /\ FrozenStep
    BY <2>5, RegisterStep
  <2>6. CASE Restart(n)
    BY <2>6, RestartStep
  <2>. QED  BY <1>1, <2>1, <2>2, <2>3, <2>4, <2>5, <2>6 DEF Step
<1>2. CASE UNCHANGED vars
  <2>1. eng' = eng /\ slot' = slot
    BY <1>2 DEF vars
  <2>. QED  BY <2>1 DEF VotesInv, FrozenStep
<1>. QED  BY <1>1, <1>2 DEF Next

\* LatestIsLast for every number of validators (lmd.py, slashing.py, engine_slashing.py):
\* the vote that the fork choice counts is the last one the slashing engine accepted.
THEOREM LatestVotes == Spec => []LatestIsLast
<1>1. Init => VotesInv
  BY VotesStart
<1>2. VotesInv /\ [Next]_vars => VotesInv'
  BY VotesStep
<1>3. VotesInv => LatestIsLast
  BY DEF VotesInv, EnginesInv, LatestIsLast
<1>. QED  BY <1>1, <1>2, <1>3, PTL DEF Spec

\* SlashedFrozen, for every step of every node (slashing.py, add_vote): whatever arrives,
\* from whom and in which order, the votes of a slashed validator stay as they were.
THEOREM SlashedStay == Spec => SlashedFrozen
<1>1. Init => VotesInv
  BY VotesStart
<1>2. VotesInv /\ [Next]_vars => VotesInv'
  BY VotesStep
<1>3. VotesInv /\ [Next]_vars => FrozenStep
  BY VotesStep
<1>4. FrozenStep => \A n \in Nodes : \A v \in Out(eng[n]) \cap Out(eng[n]') :
            /\ {x \in eng'[n].latest : x.v = v} = {x \in eng[n].latest : x.v = v}
            /\ {x \in eng'[n].votes : x[1] = v} = {x \in eng[n].votes : x[1] = v}
  BY DEF FrozenStep
<1>. QED  BY <1>1, <1>2, <1>3, <1>4, PTL DEF Spec, SlashedFrozen

-----------------------------------------------------------------------------
(* The blocks form a tree *)

Ids == {b.id : b \in blocks}
Parent(j) == Block(j).parent

\* Blocks are numbered as they are made, each on one that was there.
BlocksOk ==
    /\ IsFiniteSet(blocks) /\ Cardinality(blocks) \in Nat \ {0} /\ Ids = 0..(Cardinality(blocks) - 1)
    /\ \A b, c \in blocks : b.id = c.id => b = c
    /\ \A b \in blocks : /\ b.id = Genesis => b.parent = NoRoot
                         /\ b.id # Genesis => b.parent \in 0..(b.id - 1)
                         /\ b.height \in 0..b.id

LEMMA BlockIs ==
    ASSUME BlocksOk
    PROVE  /\ \A b \in blocks : b.id \in Ids /\ Block(b.id) = b
           /\ \A j \in Ids : Block(j) \in blocks /\ Block(j).id = j
           /\ Genesis \in Ids /\ Ids \subseteq Nat
           /\ \A j \in Ids : j # Genesis => Parent(j) \in Ids /\ Parent(j) < j
<1>1. ASSUME NEW j \in Ids PROVE Block(j) \in blocks /\ Block(j).id = j
  BY DEF Ids, Block
<1>2. \A b \in blocks : b.id \in Ids
  BY DEF Ids
<1>3. \A b \in blocks : Block(b.id) = b
  BY <1>1, <1>2 DEF BlocksOk
<1>4. Genesis \in Ids /\ Ids \subseteq Nat
  BY DEF BlocksOk, Genesis
<1>5. ASSUME NEW j \in Ids, j # Genesis PROVE Parent(j) \in Ids /\ Parent(j) < j
  <2>1. Parent(j) \in 0..(j - 1) /\ j \in 0..(Cardinality(blocks) - 1) /\ Cardinality(blocks) \in Nat
    BY <1>1, <1>5 DEF BlocksOk, Parent
  <2>. QED  BY <2>1 DEF BlocksOk
<1>. QED  BY <1>1, <1>2, <1>3, <1>4, <1>5

\* The function in Under, for the blocks up to n.
IsUp(g, i, S) == g = [j \in S |-> j = i \/ (j # Genesis /\ g[Block(j).parent])]

LEMMA UpExists ==
    ASSUME BlocksOk, NEW i
    PROVE  \E g : IsUp(g, i, Ids)
<1>. DEFINE D == {m \in Nat : 0..m \subseteq Ids => \E g : IsUp(g, i, 0..m)}
<1>1. 0 \in D
  <2>. DEFINE g == [j \in 0..0 |-> j = i]
  <2>1. IsUp(g, i, 0..0)
    BY DEF IsUp, Genesis
  <2>. QED  BY <2>1
<1>2. ASSUME NEW m \in Nat, m \in D PROVE m + 1 \in D
  <2>. SUFFICES ASSUME 0..(m + 1) \subseteq Ids PROVE \E g : IsUp(g, i, 0..(m + 1))
    OBVIOUS
  <2>1. PICK g : IsUp(g, i, 0..m)
    BY <1>2
  <2>2. \A j \in 0..m : g[j] = (j = i \/ (j # Genesis /\ g[Block(j).parent]))
    BY <2>1 DEF IsUp
  <2>. DEFINE f == [j \in 0..(m + 1) |-> IF j = m + 1 THEN (j = i \/ g[Block(j).parent]) ELSE g[j]]
  <2>3. ASSUME NEW j \in 0..(m + 1) PROVE f[j] = (j = i \/ (j # Genesis /\ f[Block(j).parent]))
    <3>1. j # Genesis => Block(j).parent \in 0..(j - 1)
      BY BlockIs DEF BlocksOk
    <3>2. j # Genesis => f[Block(j).parent] = g[Block(j).parent]
      BY <3>1
    <3>. QED  BY <2>2, <3>2 DEF Genesis
  <2>4. f = [j \in 0..(m + 1) |-> f[j]]
    OBVIOUS
  <2>. HIDE DEF f
  <2>5. IsUp(f, i, 0..(m + 1))
    BY <2>3, <2>4 DEF IsUp
  <2>. QED  BY <2>5
<1>. HIDE DEF D
<1>3. Nat \subseteq D
  BY <1>1, <1>2, NatSetInduction
<1>4. Cardinality(blocks) - 1 \in Nat /\ 0..(Cardinality(blocks) - 1) = Ids
  BY DEF BlocksOk
<1>. QED  BY <1>3, <1>4 DEF D

\* What Under says of a block, it says of its parent.
LEMMA UnderIs ==
    ASSUME BlocksOk, NEW i, NEW d \in Ids
    PROVE  Under(i, d) <=> d = i \/ (d # Genesis /\ Under(i, Parent(d)))
<1>. DEFINE g == CHOOSE h : IsUp(h, i, Ids)
<1>1. \A x : Under(i, x) = g[x]
  BY DEF Under, IsUp, Ids
<1>2. IsUp(g, i, Ids)
  BY UpExists
<1>. HIDE DEF g
<1>3. g[d] = (d = i \/ (d # Genesis /\ g[Block(d).parent]))
  BY <1>2 DEF IsUp
<1>. QED  BY <1>1, <1>3 DEF Parent

LEMMA TreeInduction ==
    ASSUME BlocksOk, NEW S, \A d \in Ids : (d # Genesis => Parent(d) \in S) => d \in S
    PROVE  Ids \subseteq S
<1>. SUFFICES ASSUME Ids \ S # {} PROVE FALSE
  OBVIOUS
<1>1. PICK d \in Ids \ S : \A y \in Ids \ S : d <= y
  <2>1. Ids \ S \subseteq Nat
    BY BlockIs
  <2>. QED  BY <2>1, LeastNat
<1>2. d # Genesis => Parent(d) \in Ids /\ Parent(d) < d /\ Parent(d) \in Nat /\ d \in Nat
  BY BlockIs
<1>3. d # Genesis => Parent(d) \in S
  BY <1>1, <1>2
<1>. QED  BY <1>1, <1>3

LEMMA UnderBelow ==
    ASSUME BlocksOk, NEW a, NEW d \in Ids, Under(a, d)
    PROVE  a \in Ids /\ a \in Nat /\ d \in Nat /\ a <= d
<1>. DEFINE S == {x \in Ids : Under(a, x) => a \in Ids /\ a <= x}
<1>1. ASSUME NEW x \in Ids, x # Genesis => Parent(x) \in S PROVE x \in S
  <2>1. x \in Nat /\ (x # Genesis => Parent(x) \in Nat /\ Parent(x) < x)
    BY BlockIs
  <2>2. Under(a, x) => x = a \/ (x # Genesis /\ Under(a, Parent(x)))
    BY UnderIs
  <2>. SUFFICES ASSUME Under(a, x) PROVE a \in Ids /\ a <= x
    OBVIOUS
  <2>3. CASE x = a
    BY <2>1, <2>3
  <2>4. CASE x # Genesis /\ Under(a, Parent(x))
    <3>1. a \in Ids /\ a <= Parent(x)
      BY <1>1, <2>4
    <3>2. a \in Nat
      BY <3>1, BlockIs
    <3>. QED  BY <2>1, <2>4, <3>1, <3>2
  <2>. QED  BY <2>2, <2>3, <2>4
<1>. HIDE DEF S
<1>2. d \in S
  BY <1>1, TreeInduction
<1>. QED  BY <1>2, BlockIs DEF S

LEMMA UnderSelf ==
    ASSUME BlocksOk, NEW d \in Ids
    PROVE  Under(d, d)
BY UnderIs

LEMMA UnderUnder ==
    ASSUME BlocksOk, NEW a, NEW b, NEW d \in Ids, Under(a, b), Under(b, d)
    PROVE  Under(a, d)
<1>. DEFINE S == {x \in Ids : Under(b, x) => Under(a, x)}
<1>1. ASSUME NEW x \in Ids, x # Genesis => Parent(x) \in S PROVE x \in S
  <2>1. Under(b, x) => x = b \/ (x # Genesis /\ Under(b, Parent(x)))
    BY UnderIs
  <2>2. x # Genesis /\ Under(a, Parent(x)) => Under(a, x)
    BY UnderIs
  <2>. QED  BY <1>1, <2>1, <2>2
<1>. HIDE DEF S
<1>2. d \in S
  BY <1>1, TreeInduction
<1>. QED  BY <1>2 DEF S

\* Of two ancestors of a block, one is an ancestor of the other.
LEMMA AncestorsInLine ==
    ASSUME BlocksOk, NEW a, NEW b, NEW d \in Ids, Under(a, d), Under(b, d)
    PROVE  Under(a, b) \/ Under(b, a)
<1>. DEFINE S == {x \in Ids : Under(a, x) /\ Under(b, x) => Under(a, b) \/ Under(b, a)}
<1>1. ASSUME NEW x \in Ids, x # Genesis => Parent(x) \in S PROVE x \in S
  <2>1. Under(a, x) => x = a \/ (x # Genesis /\ Under(a, Parent(x)))
    BY UnderIs
  <2>2. Under(b, x) => x = b \/ (x # Genesis /\ Under(b, Parent(x)))
    BY UnderIs
  <2>. QED  BY <1>1, <2>1, <2>2
<1>. HIDE DEF S
<1>2. d \in S
  BY <1>1, TreeInduction
<1>. QED  BY <1>2 DEF S

\* The way down from p to d begins with a child of p.
LEMMA FirstOnTheWay ==
    ASSUME BlocksOk, NEW p, NEW d \in Ids, Under(p, d), p # d
    PROVE  \E c \in Ids : c # Genesis /\ Parent(c) = p /\ Under(c, d)
<1>. DEFINE way(x) == \E c \in Ids : c # Genesis /\ Parent(c) = p /\ Under(c, x)
            S == {x \in Ids : Under(p, x) /\ p # x => way(x)}
<1>1. ASSUME NEW x \in Ids, x # Genesis => Parent(x) \in S PROVE x \in S
  <2>. SUFFICES ASSUME Under(p, x), p # x PROVE way(x)
    OBVIOUS
  <2>1. x # Genesis /\ Under(p, Parent(x))
    BY UnderIs
  <2>2. CASE Parent(x) = p
    BY <2>1, <2>2, UnderSelf
  <2>3. CASE Parent(x) # p
    <3>1. way(Parent(x))
      BY <1>1, <2>1, <2>3
    <3>2. PICK c \in Ids : c # Genesis /\ Parent(c) = p /\ Under(c, Parent(x))
      BY <3>1
    <3>3. Under(c, x)
      BY <2>1, <3>2, UnderIs
    <3>. QED  BY <3>2, <3>3
  <2>. QED  BY <2>2, <2>3
<1>. HIDE DEF S
<1>2. d \in S
  BY <1>1, TreeInduction
<1>. QED  BY <1>2 DEF S

\* Nothing is below two children of one block.
LEMMA SiblingsApart ==
    ASSUME BlocksOk, NEW c \in Ids, NEW d \in Ids, c # Genesis, d # Genesis, Parent(c) = Parent(d), c # d,
           NEW x \in Ids, Under(c, x)
    PROVE  ~Under(d, x)
<1>. SUFFICES ASSUME Under(d, x) PROVE FALSE
  OBVIOUS
<1>1. Under(c, d) \/ Under(d, c)
  BY AncestorsInLine
<1>2. Under(c, Parent(d)) \/ Under(d, Parent(c))
  BY <1>1, UnderIs
<1>3. /\ Parent(c) \in Ids /\ Parent(c) < c /\ Parent(d) \in Ids /\ Parent(d) < d
      /\ c \in Nat /\ d \in Nat /\ Parent(c) \in Nat
  BY BlockIs
<1>4. c <= Parent(d) \/ d <= Parent(c)
  BY <1>2, <1>3, UnderBelow
<1>. QED  BY <1>3, <1>4

-----------------------------------------------------------------------------
(* What the fork choice computes *)

\* The votes of disjoint sets, counted one set after another.
LEMMA CountDisjoint ==
    ASSUME NEW L, IsFiniteSet(L), NEW C, IsFiniteSet(C), NEW F, \A c \in C : F[c] \subseteq L,
           \A c, d \in C : c # d => F[c] \cap F[d] = {},
           NEW f, \A c \in C : f[c] = Stake * Cardinality(F[c])
    PROVE  Total(f, C) = Stake * Cardinality(UNION {F[c] : c \in C})
<1>. DEFINE all(s) == UNION {F[c] : c \in s}
            D == {n \in Nat : \A s \in SUBSET C : Cardinality(s) = n => Total(f, s) = Stake * Cardinality(all(s))}
<1>0. \A c \in C : IsFiniteSet(F[c]) /\ Cardinality(F[c]) \in Nat /\ f[c] \in Int
  BY VotesAssumption, Smaller
<1>1. 0 \in D
  <2>. SUFFICES ASSUME NEW s \in SUBSET C, Cardinality(s) = 0 PROVE Total(f, s) = Stake * Cardinality(all(s))
    OBVIOUS
  <2>1. s = {}
    BY Smaller
  <2>2. all(s) = {} /\ Cardinality({}) = 0
    BY <2>1, FS_EmptySet
  <2>. HIDE DEF all
  <2>. QED  BY <2>1, <2>2, TotalEmpty, VotesAssumption
<1>2. ASSUME NEW n \in Nat, n \in D PROVE n + 1 \in D
  <2>. SUFFICES ASSUME NEW s \in SUBSET C, Cardinality(s) = n + 1 PROVE Total(f, s) = Stake * Cardinality(all(s))
    OBVIOUS
  <2>1. IsFiniteSet(s) /\ s # {}
    BY Smaller
  <2>2. PICK c : c \in s
    BY <2>1
  <2>. DEFINE r == s \ {c}
  <2>3. r \in SUBSET C /\ Cardinality(r) = n
    BY <2>2, Smaller
  <2>4. Total(f, r) = Stake * Cardinality(all(r))
    BY <1>2, <2>3
  <2>5. Total(f, s) = f[c] + Total(f, r)
    <3>1. \A x \in s : f[x] \in Int
      BY <1>0
    <3>. QED  BY <2>1, <2>2, <3>1, TotalRemove
  <2>6. all(s) = F[c] \cup all(r) /\ F[c] \cap all(r) = {} /\ all(r) \subseteq L /\ F[c] \subseteq L
    BY <2>2
  <2>7. Cardinality(all(s)) = Cardinality(F[c]) + Cardinality(all(r)) /\ Cardinality(F[c]) \in Nat /\ Cardinality(all(r)) \in Nat
    <3>. HIDE DEF all, r
    <3>1. IsFiniteSet(F[c]) /\ IsFiniteSet(all(r)) /\ Cardinality(F[c]) \in Nat /\ Cardinality(all(r)) \in Nat
      BY <2>6, Smaller
    <3>2. Cardinality(F[c] \cup all(r)) = Cardinality(F[c]) + Cardinality(all(r)) - Cardinality(F[c] \cap all(r))
      BY <3>1, FS_Union
    <3>3. Cardinality(F[c] \cap all(r)) = 0 /\ Cardinality(all(s)) = Cardinality(F[c] \cup all(r))
      BY <2>6, FS_EmptySet
    <3>. QED  BY <3>1, <3>2, <3>3
  <2>8. f[c] = Stake * Cardinality(F[c]) /\ Stake \in Nat
    BY <2>2, VotesAssumption
  <2>. DEFINE x == Cardinality(F[c])
              y == Cardinality(all(r))
  <2>9. Stake * (x + y) = Stake * x + Stake * y
    <3>1. x \in Nat /\ y \in Nat
      BY <2>7
    <3>. HIDE DEF x, y
    <3>. QED  BY <2>8, <3>1
  <2>. HIDE DEF all, r
  <2>. QED  BY <2>4, <2>5, <2>7, <2>8, <2>9
<1>. HIDE DEF D
<1>3. Nat \subseteq D
  BY <1>1, <1>2, NatSetInduction
<1>4. Cardinality(C) \in Nat
  BY Smaller
<1>. QED  BY <1>3, <1>4 DEF D

\* The tree of a node's engine.  Its edges are those of the blocks, and a block of
\* the tree below the root has its parent in it.
EngTree(e) ==
    /\ \A x \in e.kids : x[2] \in Ids \ {Genesis} /\ x = <<Parent(x[2]), x[2]>> /\ x[1] \in TreeNodes(e)
    /\ e.blank \subseteq Ids
    /\ e.root = NoRoot => e.kids = {} /\ e.blank = {}
    /\ e.root # NoRoot => e.root \in e.blank
    /\ \A i \in TreeNodes(e) : Under(e.root, i) /\ i # e.root => <<Parent(i), i>> \in e.kids
    /\ IsFiniteSet(e.latest)

\* Every block on the way from i down to d is in the tree.
Reach(e, i, d) == Under(i, d) /\ \A y \in Ids : Under(i, y) /\ Under(y, d) /\ y # i => <<Parent(y), y>> \in e.kids

\* The latest votes that count for i.
VotesAt(e, i) == {x \in e.latest : x.b = i}
VotesBelow(e, i) == {x \in e.latest : x.b \in TreeNodes(e) /\ Reach(e, i, x.b)}
Weights(e) == [i \in TreeNodes(e) |-> Stake * Cardinality(VotesBelow(e, i))]

LEMMA TreeIs ==
    ASSUME BlocksOk, NEW e, EngTree(e)
    PROVE  /\ TreeNodes(e) \subseteq Ids /\ IsFiniteSet(TreeNodes(e))
           /\ \A i : \A c \in Children(e, i) : /\ c \in Ids /\ c # Genesis /\ Parent(c) = i /\ c \in TreeNodes(e)
                                               /\ i \in TreeNodes(e) /\ i \in Ids /\ i < c /\ Under(i, c) /\ <<i, c>> \in e.kids
           /\ \A c : <<Parent(c), c>> \in e.kids => c \in Children(e, Parent(c))
<1>1. TreeNodes(e) \subseteq Ids
  BY DEF EngTree, TreeNodes
<1>2. IsFiniteSet(TreeNodes(e))
  <2>1. IsFiniteSet(Ids)
    BY FS_Interval DEF BlocksOk
  <2>. QED  BY <1>1, <2>1, FS_Subset
<1>3. ASSUME NEW i, NEW c \in Children(e, i)
      PROVE  /\ c \in Ids /\ c # Genesis /\ Parent(c) = i /\ c \in TreeNodes(e)
             /\ i \in TreeNodes(e) /\ i \in Ids /\ i < c /\ Under(i, c) /\ <<i, c>> \in e.kids
  <2>1. PICK x \in e.kids : x[1] = i /\ x[2] = c
    BY DEF Children
  <2>2. c \in Ids \ {Genesis} /\ x = <<Parent(c), c>> /\ i \in TreeNodes(e) /\ Parent(c) = i
    BY <2>1 DEF EngTree
  <2>3. c \in TreeNodes(e)
    BY <2>1 DEF TreeNodes
  <2>4. i < c /\ i \in Ids
    BY <2>2, BlockIs
  <2>5. Under(i, c)
    BY <2>2, <2>4, UnderIs, UnderSelf
  <2>. QED  BY <2>1, <2>2, <2>3, <2>4, <2>5
<1>4. ASSUME NEW c, <<Parent(c), c>> \in e.kids PROVE c \in Children(e, Parent(c))
  <2>. DEFINE x == <<Parent(c), c>>
  <2>1. x \in e.kids /\ x[1] = Parent(c) /\ x[2] = c
    BY <1>4
  <2>. QED  BY <2>1 DEF Children
<1>. QED  BY <1>1, <1>2, <1>3, <1>4

LEMMA OneWayUp ==
    ASSUME BlocksOk, NEW i \in Ids, NEW y \in Ids, Under(i, y), Under(y, i)
    PROVE  y = i
<1>1. i <= y /\ y <= i /\ i \in Nat /\ y \in Nat
  BY UnderBelow
<1>. QED  BY <1>1

\* The votes below i are those for i and those below its children.
LEMMA VotesSplit ==
    ASSUME BlocksOk, NEW e, EngTree(e), NEW i \in TreeNodes(e)
    PROVE  /\ VotesBelow(e, i) = VotesAt(e, i) \cup UNION {VotesBelow(e, c) : c \in Children(e, i)}
           /\ \A c \in Children(e, i) : VotesAt(e, i) \cap VotesBelow(e, c) = {}
           /\ \A c, d \in Children(e, i) : c # d => VotesBelow(e, c) \cap VotesBelow(e, d) = {}
<1>0. i \in Ids /\ TreeNodes(e) \subseteq Ids
  BY TreeIs
<1>1. ASSUME NEW x \in VotesBelow(e, i), x.b # i PROVE \E c \in Children(e, i) : x \in VotesBelow(e, c)
  <2>1. x \in e.latest /\ x.b \in TreeNodes(e) /\ Reach(e, i, x.b) /\ x.b \in Ids /\ Under(i, x.b)
    BY <1>0 DEF VotesBelow, Reach
  <2>2. PICK c \in Ids : c # Genesis /\ Parent(c) = i /\ Under(c, x.b)
    BY <1>1, <2>1, FirstOnTheWay
  <2>3. Under(i, c) /\ c # i
    <3>1. i < c /\ i \in Nat
      BY <2>2, BlockIs
    <3>. QED  BY <2>2, <3>1, UnderIs, UnderSelf, <1>0
  <2>4. <<Parent(c), c>> \in e.kids
    BY <2>1, <2>2, <2>3 DEF Reach
  <2>5. c \in Children(e, i)
    BY <2>2, <2>4, TreeIs
  <2>6. ASSUME NEW y \in Ids, Under(c, y), Under(y, x.b), y # c PROVE <<Parent(y), y>> \in e.kids
    <3>1. Under(i, y)
      BY <2>3, <2>6, UnderUnder
    <3>2. y # i
      BY <1>0, <2>2, <2>3, <2>6, OneWayUp
    <3>. QED  BY <2>1, <2>6, <3>1, <3>2 DEF Reach
  <2>7. Reach(e, c, x.b)
    BY <2>2, <2>6 DEF Reach
  <2>. QED  BY <2>1, <2>5, <2>7 DEF VotesBelow
<1>2. ASSUME NEW x \in VotesAt(e, i) PROVE x \in VotesBelow(e, i)
  <2>1. x \in e.latest /\ x.b = i
    BY DEF VotesAt
  <2>2. Reach(e, i, i)
    BY <1>0, UnderSelf, OneWayUp DEF Reach
  <2>. QED  BY <2>1, <2>2 DEF VotesBelow
<1>3. ASSUME NEW c \in Children(e, i), NEW x \in VotesBelow(e, c) PROVE x \in VotesBelow(e, i) /\ x.b # i /\ Under(c, x.b)
  <2>1. x \in e.latest /\ x.b \in TreeNodes(e) /\ Reach(e, c, x.b) /\ x.b \in Ids /\ Under(c, x.b)
    BY <1>0 DEF VotesBelow, Reach
  <2>2. c \in Ids /\ c # Genesis /\ Parent(c) = i /\ Under(i, c) /\ <<i, c>> \in e.kids /\ i < c /\ i \in Nat /\ c \in Nat
    BY TreeIs, BlockIs
  <2>3. Under(i, x.b)
    BY <2>1, <2>2, UnderUnder
  <2>4. ASSUME NEW y \in Ids, Under(i, y), Under(y, x.b), y # i PROVE <<Parent(y), y>> \in e.kids
    <3>1. CASE y = c
      BY <2>2, <3>1
    <3>2. CASE y # c /\ Under(c, y)
      BY <2>1, <2>4, <3>2 DEF Reach
    <3>3. CASE y # c /\ Under(y, c)
      <4>1. Under(y, i)
        BY <2>2, <3>3, UnderIs
      <4>. QED  BY <1>0, <2>4, <4>1, OneWayUp
    <3>4. Under(c, y) \/ Under(y, c)
      BY <2>1, <2>4, AncestorsInLine
    <3>. QED  BY <3>1, <3>2, <3>3, <3>4
  <2>5. x.b # i
    <3>. SUFFICES ASSUME x.b = i PROVE FALSE
      OBVIOUS
    <3>1. c <= i
      BY <1>0, <2>1, UnderBelow
    <3>. QED  BY <2>2, <3>1
  <2>. QED  BY <2>1, <2>3, <2>4, <2>5 DEF VotesBelow, Reach
<1>4. \A c \in Children(e, i) : VotesAt(e, i) \cap VotesBelow(e, c) = {}
  BY <1>3 DEF VotesAt
<1>5. ASSUME NEW c \in Children(e, i), NEW d \in Children(e, i), c # d PROVE VotesBelow(e, c) \cap VotesBelow(e, d) = {}
  <2>. SUFFICES ASSUME NEW x \in VotesBelow(e, c), x \in VotesBelow(e, d) PROVE FALSE
    OBVIOUS
  <2>1. Under(c, x.b) /\ Under(d, x.b) /\ x.b \in Ids
    BY <1>0, <1>3 DEF VotesBelow
  <2>2. c \in Ids /\ d \in Ids /\ c # Genesis /\ d # Genesis /\ Parent(c) = Parent(d)
    BY TreeIs
  <2>. QED  BY <1>5, <2>1, <2>2, SiblingsApart
<1>6. VotesBelow(e, i) \subseteq VotesAt(e, i) \cup UNION {VotesBelow(e, c) : c \in Children(e, i)}
  <2>. SUFFICES ASSUME NEW x \in VotesBelow(e, i), x.b # i PROVE x \in UNION {VotesBelow(e, c) : c \in Children(e, i)}
    BY DEF VotesBelow, VotesAt
  <2>. QED  BY <1>1
<1>7. VotesAt(e, i) \cup UNION {VotesBelow(e, c) : c \in Children(e, i)} \subseteq VotesBelow(e, i)
  BY <1>2, <1>3
<1>. QED  BY <1>4, <1>5, <1>6, <1>7

\* get_cumulative_weight, as its definition has it.
IsCum(g, e) == g = [i \in TreeNodes(e) |-> Stake * VotesFor(e, i) + Total(g, Children(e, i))]

LEMMA CumulativeIs == \A e : CumulativeWeight(e) = CHOOSE g : IsCum(g, e)
BY DEF CumulativeWeight, IsCum, Total

LEMMA WeightsType ==
    ASSUME NEW e, EngTree(e), NEW i \in TreeNodes(e)
    PROVE  /\ IsFiniteSet(VotesBelow(e, i)) /\ Cardinality(VotesBelow(e, i)) \in Nat
           /\ Weights(e)[i] \in Nat /\ Weights(e)[i] = Stake * Cardinality(VotesBelow(e, i))
<1>1. VotesBelow(e, i) \subseteq e.latest /\ IsFiniteSet(e.latest)
  BY DEF VotesBelow, EngTree
<1>2. IsFiniteSet(VotesBelow(e, i)) /\ Cardinality(VotesBelow(e, i)) \in Nat
  BY <1>1, FS_Subset, FS_CardinalityType
<1>. DEFINE k == Cardinality(VotesBelow(e, i))
<1>3. Stake * k \in Nat
  <2>1. k \in Nat /\ Stake \in Nat
    BY <1>2, VotesAssumption
  <2>. HIDE DEF k
  <2>. QED  BY <2>1
<1>. QED  BY <1>2, <1>3 DEF Weights

LEMMA WeightsAreCum ==
    ASSUME BlocksOk, NEW e, EngTree(e)
    PROVE  IsCum(Weights(e), e)
<1>. DEFINE w == Weights(e)
<1>1. ASSUME NEW i \in TreeNodes(e) PROVE w[i] = Stake * VotesFor(e, i) + Total(w, Children(e, i))
  <2>. DEFINE C == Children(e, i)
              F == [c \in C |-> VotesBelow(e, c)]
              U == UNION {F[c] : c \in C}
              A == VotesAt(e, i)
  <2>1. C \subseteq TreeNodes(e) /\ IsFiniteSet(C)
    <3>1. C \subseteq TreeNodes(e) /\ IsFiniteSet(TreeNodes(e))
      BY TreeIs
    <3>. QED  BY <3>1, FS_Subset
  <2>2. VotesBelow(e, i) = A \cup U /\ A \cap U = {} /\ \A c, d \in C : c # d => F[c] \cap F[d] = {}
    BY VotesSplit
  <2>3. IsFiniteSet(e.latest) /\ A \subseteq e.latest /\ U \subseteq e.latest /\ \A c \in C : F[c] \subseteq e.latest
    BY DEF EngTree, VotesAt, VotesBelow
  <2>4. \A c \in C : w[c] = Stake * Cardinality(F[c])
    BY <2>1, WeightsType
  <2>5. Total(w, C) = Stake * Cardinality(U)
    <3>. HIDE DEF w, C, F
    <3>. QED  BY <2>1, <2>2, <2>3, <2>4, CountDisjoint
  <2>6. Cardinality(A \cup U) = Cardinality(A) + Cardinality(U) /\ Cardinality(A) \in Nat /\ Cardinality(U) \in Nat
    <3>. HIDE DEF A, U
    <3>1. IsFiniteSet(A) /\ IsFiniteSet(U) /\ Cardinality(A) \in Nat /\ Cardinality(U) \in Nat
      BY <2>3, Smaller
    <3>2. Cardinality(A \cup U) = Cardinality(A) + Cardinality(U) - Cardinality(A \cap U)
      BY <3>1, FS_Union
    <3>3. Cardinality(A \cap U) = 0
      BY <2>2, FS_EmptySet
    <3>. QED  BY <3>1, <3>2, <3>3
  <2>7. VotesFor(e, i) = Cardinality(A)
    BY DEF VotesFor, VotesAt
  <2>8. w[i] = Stake * Cardinality(A \cup U)
    BY <2>2, WeightsType
  <2>. DEFINE a == Cardinality(A)
              u == Cardinality(U)
  <2>9. Stake * (a + u) = Stake * a + Stake * u
    <3>1. a \in Nat /\ u \in Nat /\ Stake \in Nat
      BY <2>6, VotesAssumption
    <3>. HIDE DEF a, u
    <3>. QED  BY <3>1
  <2>10. w[i] = Stake * VotesFor(e, i) + Total(w, C)
    <3>. HIDE DEF w, A, U, C
    <3>. QED  BY <2>5, <2>6, <2>7, <2>8, <2>9
  <2>. QED  BY <2>10
<1>2. w = [i \in TreeNodes(e) |-> w[i]]
  BY DEF Weights
<1>. HIDE DEF w
<1>3. IsCum(w, e)
  BY <1>1, <1>2 DEF IsCum
<1>. QED  BY <1>3 DEF w

\* From the leaves of the tree up.
LEMMA LeavesFirst ==
    ASSUME BlocksOk, NEW e, EngTree(e), NEW S, \A i \in TreeNodes(e) : Children(e, i) \subseteq S => i \in S
    PROVE  TreeNodes(e) \subseteq S
<1>. DEFINE R == TreeNodes(e) \ S
<1>. SUFFICES ASSUME R # {} PROVE FALSE
  OBVIOUS
<1>1. R \subseteq Nat /\ Cardinality(blocks) \in Nat /\ \A x \in R : x <= Cardinality(blocks)
  BY TreeIs, BlockIs DEF BlocksOk
<1>. DEFINE m == Max(R)
<1>2. m \in R /\ \A x \in R : x <= m
  <2>. HIDE DEF R
  <2>. QED  BY <1>1, MaxIsIn
<1>. HIDE DEF m
<1>3. ASSUME NEW c \in Children(e, m) PROVE c \in S
  <2>1. c \in TreeNodes(e) /\ m < c /\ c \in Nat /\ m \in Nat
    BY <1>1, <1>2, TreeIs, BlockIs
  <2>. QED  BY <1>2, <2>1
<1>. QED  BY <1>2, <1>3

\* The cumulative weight of a node is what the votes below it weigh.
LEMMA CumulativeWeights ==
    ASSUME BlocksOk, NEW e, EngTree(e)
    PROVE  \A i \in TreeNodes(e) : CumulativeWeight(e)[i] = Weights(e)[i]
<1>. DEFINE g == CumulativeWeight(e)
            w == Weights(e)
            S == {i \in TreeNodes(e) : g[i] = w[i]}
<1>1. IsCum(w, e)
  BY WeightsAreCum
<1>2. IsCum(g, e)
  BY <1>1, CumulativeIs
<1>3. ASSUME NEW i \in TreeNodes(e), Children(e, i) \subseteq S PROVE i \in S
  <2>. HIDE DEF g, w
  <2>1. IsFiniteSet(Children(e, i)) /\ Children(e, i) \subseteq TreeNodes(e)
    <3>1. Children(e, i) \subseteq TreeNodes(e) /\ IsFiniteSet(TreeNodes(e))
      BY TreeIs
    <3>. QED  BY <3>1, FS_Subset
  <2>2. \A c \in Children(e, i) : w[c] \in Int /\ g[c] = w[c]
    BY <1>3, <2>1, WeightsType DEF w
  <2>3. Total(g, Children(e, i)) = Total(w, Children(e, i))
    BY <2>1, <2>2, TotalSame
  <2>4. /\ g[i] = Stake * VotesFor(e, i) + Total(g, Children(e, i))
        /\ w[i] = Stake * VotesFor(e, i) + Total(w, Children(e, i))
    BY <1>1, <1>2 DEF IsCum
  <2>. QED  BY <2>3, <2>4
<1>. HIDE DEF S
<1>4. TreeNodes(e) \subseteq S
  BY <1>3, LeavesFirst
<1>. QED  BY <1>4 DEF S

-----------------------------------------------------------------------------
(* Where select_head goes *)

Best(e, i) == CHOOSE c \in Children(e, i) : \A d \in Children(e, i) \ {c} : Beats(e, CumulativeWeight(e), c, d)

IsEnd(g, e, S) == g = [i \in S |-> IF Children(e, i) = {} THEN i ELSE g[Best(e, i)]]

LEMMA HeadIs == \A e : Head(e) = (CHOOSE g : IsEnd(g, e, TreeNodes(e)))[e.root]
BY DEF Head, IsEnd, Best

LEMMA NumberType ==
    ASSUME BlocksOk, NEW e, EngTree(e), NEW i \in TreeNodes(e)
    PROVE  Number(e, i) \in Nat /\ Number(e, i) <= Cardinality(blocks)
<1>1. i \in Ids /\ Block(i) \in blocks /\ Block(i).id = i /\ i \in 0..(Cardinality(blocks) - 1) /\ Cardinality(blocks) \in Nat
  BY TreeIs, BlockIs DEF BlocksOk
<1>2. Block(i).height \in 0..i
  BY <1>1 DEF BlocksOk
<1>. QED  BY <1>1, <1>2 DEF Number

\* Among children there is always one that beats all the others.
LEMMA BestExists ==
    ASSUME BlocksOk, NEW e, EngTree(e), NEW i, Children(e, i) # {}
    PROVE  Best(e, i) \in Children(e, i) /\ \A d \in Children(e, i) \ {Best(e, i)} : Beats(e, CumulativeWeight(e), Best(e, i), d)
<1>. DEFINE C == Children(e, i)
            cum == CumulativeWeight(e)
            W == {cum[c] : c \in C}
            N == Cardinality(blocks)
<1>1. C \subseteq TreeNodes(e) /\ IsFiniteSet(C) /\ C \subseteq Nat
  <2>1. C \subseteq TreeNodes(e) /\ IsFiniteSet(TreeNodes(e)) /\ C \subseteq Ids
    BY TreeIs
  <2>. QED  BY <2>1, FS_Subset, BlockIs
<1>2. \A c \in C : cum[c] \in Nat /\ cum[c] <= Stake * Cardinality(e.latest) /\ Stake * Cardinality(e.latest) \in Nat
  <2>. SUFFICES ASSUME NEW c \in C PROVE cum[c] \in Nat /\ cum[c] <= Stake * Cardinality(e.latest) /\ Stake * Cardinality(e.latest) \in Nat
    OBVIOUS
  <2>. DEFINE k == Cardinality(VotesBelow(e, c))
              l == Cardinality(e.latest)
  <2>1. cum[c] = Stake * k
    BY <1>1, CumulativeWeights, WeightsType
  <2>2. k \in Nat /\ l \in Nat /\ k <= l
    <3>1. IsFiniteSet(e.latest) /\ VotesBelow(e, c) \subseteq e.latest
      BY DEF EngTree, VotesBelow
    <3>. QED  BY <3>1, Smaller
  <2>. HIDE DEF k, l
  <2>3. Stake * k \in Nat /\ Stake * l \in Nat /\ Stake * k <= Stake * l
    <3>1. Stake * l = Stake * k + Stake * (l - k) /\ Stake * (l - k) \in Nat /\ Stake * k \in Nat
      BY <2>2, VotesAssumption
    <3>. QED  BY <3>1
  <2>. QED  BY <2>1, <2>3 DEF l
<1>. HIDE DEF cum
<1>3. PICK x \in C : \A d \in C : cum[d] <= cum[x]
  <2>1. W \subseteq Nat /\ W # {} /\ \A v \in W : v <= Stake * Cardinality(e.latest)
    BY <1>2
  <2>2. Stake * Cardinality(e.latest) \in Nat
    BY <1>2
  <2>3. Max(W) \in W /\ \A v \in W : v <= Max(W)
    <3>. HIDE DEF W
    <3>. QED  BY <2>1, <2>2, MaxIsIn
  <2>. QED  BY <2>3
<1>. DEFINE X == {c \in C : cum[c] = cum[x]}
            H == {Number(e, c) : c \in X}
<1>4. PICK y \in X : \A d \in X : Number(e, d) <= Number(e, y)
  <2>1. H \subseteq Nat /\ H # {} /\ \A v \in H : v <= N
    <3>1. \A c \in X : Number(e, c) \in Nat /\ Number(e, c) <= N
      BY <1>1, NumberType
    <3>. QED  BY <3>1
  <2>2. N \in Nat
    BY DEF BlocksOk
  <2>3. Max(H) \in H /\ \A v \in H : v <= Max(H)
    <3>. HIDE DEF H, N
    <3>. QED  BY <2>1, <2>2, MaxIsIn
  <2>. QED  BY <2>3
<1>. DEFINE Y == {c \in X : Number(e, c) = Number(e, y)}
<1>5. PICK z \in Y : \A d \in Y : z <= d
  <2>1. Y \subseteq Nat /\ Y # {}
    BY <1>1
  <2>. HIDE DEF Y
  <2>. QED  BY <2>1, LeastNat
<1>6. ASSUME NEW d \in C, d # z PROVE Beats(e, cum, z, d)
  <2>1. /\ cum[d] \in Nat /\ cum[x] \in Nat /\ cum[d] <= cum[x] /\ cum[z] = cum[x] /\ z \in Nat /\ d \in Nat
        /\ Number(e, d) \in Nat /\ Number(e, z) \in Nat /\ Number(e, z) = Number(e, y)
    BY <1>1, <1>2, <1>3, NumberType
  <2>2. CASE cum[d] # cum[x]
    BY <2>1, <2>2 DEF Beats
  <2>3. CASE cum[d] = cum[x] /\ Number(e, d) # Number(e, y)
    <3>1. Number(e, d) <= Number(e, y)
      BY <1>4, <2>3
    <3>. QED  BY <2>1, <2>3, <3>1 DEF Beats
  <2>4. CASE cum[d] = cum[x] /\ Number(e, d) = Number(e, y)
    <3>1. z <= d
      BY <1>5, <2>4
    <3>. QED  BY <1>6, <2>1, <2>4, <3>1 DEF Beats
  <2>. QED  BY <2>2, <2>3, <2>4
<1>7. z \in C /\ \A d \in C \ {z} : Beats(e, cum, z, d)
  BY <1>6
<1>. QED  BY <1>7 DEF Best, cum

LEMMA EndExists ==
    ASSUME BlocksOk, NEW e, EngTree(e)
    PROVE  \E g : IsEnd(g, e, TreeNodes(e)) /\ Head(e) = g[e.root]
<1>. DEFINE T == TreeNodes(e)
            N == Cardinality(blocks)
            from(n) == {i \in T : i >= N - n}
            D == {n \in Nat : \E g : IsEnd(g, e, from(n))}
<1>0. N \in Nat /\ T \subseteq Nat /\ \A i \in T : i < N
  BY TreeIs, BlockIs DEF BlocksOk
<1>1. 0 \in D
  <2>1. from(0) = {}
    BY <1>0
  <2>. DEFINE g == [i \in {} |-> i]
  <2>2. IsEnd(g, e, {})
    BY DEF IsEnd
  <2>. QED  BY <2>1, <2>2
<1>2. ASSUME NEW n \in Nat, n \in D PROVE n + 1 \in D
  <2>1. PICK g : IsEnd(g, e, from(n))
    BY <1>2
  <2>. DEFINE f == [i \in from(n + 1) |-> IF Children(e, i) = {} THEN i ELSE g[Best(e, i)]]
  <2>2. ASSUME NEW i \in from(n + 1), Children(e, i) # {} PROVE f[Best(e, i)] = g[Best(e, i)]
    <3>1. Best(e, i) \in T /\ i < Best(e, i) /\ i \in Nat /\ Best(e, i) \in Nat
      BY <1>0, <2>2, BestExists, TreeIs
    <3>2. Best(e, i) \in from(n) /\ Best(e, i) \in from(n + 1)
      BY <1>0, <3>1
    <3>3. g[Best(e, i)] = IF Children(e, Best(e, i)) = {} THEN Best(e, i) ELSE g[Best(e, Best(e, i))]
      BY <2>1, <3>2 DEF IsEnd
    <3>. QED  BY <3>2, <3>3
  <2>3. f = [i \in from(n + 1) |-> IF Children(e, i) = {} THEN i ELSE f[Best(e, i)]]
    BY <2>2
  <2>. HIDE DEF f, from
  <2>4. IsEnd(f, e, from(n + 1))
    BY <2>3 DEF IsEnd
  <2>. QED  BY <2>4
<1>. HIDE DEF D
<1>3. N \in D
  BY <1>0, <1>1, <1>2, NatSetInduction
<1>4. from(N) = T
  BY <1>0
<1>5. \E g : IsEnd(g, e, T)
  BY <1>3, <1>4 DEF D
<1>. QED  BY <1>5, HeadIs

LEMMA EndStep ==
    ASSUME NEW e, NEW g, IsEnd(g, e, TreeNodes(e)), NEW p \in TreeNodes(e)
    PROVE  g[p] = IF Children(e, p) = {} THEN p ELSE g[Best(e, p)]
BY DEF IsEnd

LEMMA EndBelow ==
    ASSUME BlocksOk, NEW e, EngTree(e), NEW g, IsEnd(g, e, TreeNodes(e)), NEW q \in TreeNodes(e)
    PROVE  g[q] \in Ids /\ Under(q, g[q])
<1>. DEFINE S == {p \in TreeNodes(e) : g[p] \in Ids /\ Under(p, g[p])}
<1>1. ASSUME NEW p \in TreeNodes(e), Children(e, p) \subseteq S PROVE p \in S
  <2>0. p \in Ids
    BY TreeIs
  <2>1. CASE Children(e, p) = {}
    BY <2>0, <2>1, EndStep, UnderSelf
  <2>2. CASE Children(e, p) # {}
    <3>. DEFINE c == Best(e, p)
    <3>1. c \in Children(e, p) /\ g[p] = g[c]
      BY <2>2, BestExists, EndStep
    <3>. HIDE DEF c
    <3>2. Under(p, c) /\ g[c] \in Ids /\ Under(c, g[c])
      BY <1>1, <3>1, TreeIs
    <3>3. Under(p, g[c])
      BY <3>2, UnderUnder
    <3>. QED  BY <3>1, <3>2, <3>3
  <2>. QED  BY <2>1, <2>2
<1>. HIDE DEF S
<1>2. q \in S
  BY <1>1, LeavesFirst
<1>. QED  BY <1>2 DEF S

\* What lies between the root and a block of the tree is in the tree.
LEMMA Between ==
    ASSUME BlocksOk, NEW e, EngTree(e), NEW d \in TreeNodes(e), NEW y, Under(e.root, y), Under(y, d)
    PROVE  y \in TreeNodes(e)
<1>. DEFINE S == {x \in Ids : x \in TreeNodes(e) /\ Under(y, x) => y \in TreeNodes(e)}
<1>1. ASSUME NEW x \in Ids, x # Genesis => Parent(x) \in S PROVE x \in S
  <2>. SUFFICES ASSUME x \in TreeNodes(e), Under(y, x), y # x PROVE y \in TreeNodes(e)
    OBVIOUS
  <2>1. x # Genesis /\ Under(y, Parent(x))
    BY UnderIs
  <2>2. Parent(x) \in Ids /\ Parent(x) < x /\ Parent(x) \in Nat /\ x \in Nat
    BY <2>1, BlockIs
  <2>3. Under(e.root, Parent(x)) /\ Under(e.root, x)
    BY <2>1, <2>2, UnderUnder, UnderIs
  <2>4. x # e.root
    <3>1. e.root <= Parent(x)
      BY <2>2, <2>3, UnderBelow
    <3>. QED  BY <2>2, <3>1
  <2>5. <<Parent(x), x>> \in e.kids
    BY <2>3, <2>4 DEF EngTree
  <2>6. Parent(x) \in TreeNodes(e)
    BY <2>5, TreeIs
  <2>. QED  BY <1>1, <2>1, <2>6
<1>. HIDE DEF S
<1>2. d \in Ids
  BY TreeIs
<1>3. d \in S
  BY <1>1, <1>2, TreeInduction
<1>. QED  BY <1>3 DEF S

\* Below the root, the votes that count for i are those for it and its descendants.
LEMMA VotesUnder ==
    ASSUME BlocksOk, NEW e, EngTree(e), NEW i \in TreeNodes(e), Under(e.root, i)
    PROVE  VotesBelow(e, i) = {x \in e.latest : x.b \in TreeNodes(e) /\ Under(i, x.b)}
<1>1. ASSUME NEW x \in e.latest, x.b \in TreeNodes(e), Under(i, x.b) PROVE Reach(e, i, x.b)
  <2>. SUFFICES ASSUME NEW y \in Ids, Under(i, y), Under(y, x.b), y # i PROVE <<Parent(y), y>> \in e.kids
    BY <1>1 DEF Reach
  <2>1. Under(e.root, y) /\ i \in Ids
    BY UnderUnder, TreeIs
  <2>2. y \in TreeNodes(e)
    BY <1>1, <2>1, Between
  <2>3. y # e.root
    BY <2>1, OneWayUp
  <2>. QED  BY <2>1, <2>2, <2>3 DEF EngTree
<1>. QED  BY <1>1 DEF VotesBelow, Reach

\* On the way to a block with more than half of the votes, the child on the way is
\* the best one.
LEMMA BestOnTheWay ==
    ASSUME BlocksOk, NEW e, EngTree(e), NEW i \in TreeNodes(e), e.root \in TreeNodes(e), Under(e.root, i),
           2 * Cardinality(VotesBelow(e, i)) > Cardinality(VotesBelow(e, e.root)),
           NEW p \in TreeNodes(e), Under(e.root, p), Under(p, i), p # i
    PROVE  Best(e, p) \in Children(e, p) /\ Under(Best(e, p), i)
<1>. DEFINE V(x) == VotesBelow(e, x)
            cum == CumulativeWeight(e)
<1>0. i \in Ids /\ p \in Ids /\ e.root \in Ids /\ Under(e.root, e.root)
  BY TreeIs, UnderSelf
<1>1. PICK c \in Ids : c # Genesis /\ Parent(c) = p /\ Under(c, i)
  BY <1>0, FirstOnTheWay
<1>2. Under(p, c) /\ p < c /\ p \in Nat /\ c \in Nat
  BY <1>0, <1>1, UnderIs, UnderSelf, BlockIs
<1>3. Under(e.root, c)
  BY <1>2, UnderUnder
<1>4. c \in TreeNodes(e)
  BY <1>1, <1>3, Between
<1>5. c # e.root
  <2>1. e.root <= p
    BY <1>0, UnderBelow
  <2>. QED  BY <1>2, <2>1
<1>6. c \in Children(e, p)
  <2>1. <<Parent(c), c>> \in e.kids
    BY <1>3, <1>4, <1>5 DEF EngTree
  <2>. QED  BY <1>1, <2>1, TreeIs
<1>7. Best(e, p) \in Children(e, p) /\ \A d \in Children(e, p) \ {Best(e, p)} : Beats(e, cum, Best(e, p), d)
  BY <1>6, BestExists
<1>. DEFINE d == Best(e, p)
<1>8. d = c
  <2>. HIDE DEF d
  <2>. SUFFICES ASSUME d # c PROVE FALSE
    OBVIOUS
  <2>1. d \in Children(e, p) /\ Beats(e, cum, d, c)
    BY <1>6, <1>7 DEF d
  <2>2. d \in TreeNodes(e) /\ Under(p, d) /\ d \in Ids
    BY <2>1, TreeIs
  <2>3. Under(e.root, d)
    BY <2>2, UnderUnder
  <2>4. V(i) \subseteq V(c) /\ V(c) \subseteq V(e.root) /\ V(d) \subseteq V(e.root)
    <3>1. \A x \in TreeNodes(e) : Under(e.root, x) => V(x) = {y \in e.latest : y.b \in TreeNodes(e) /\ Under(x, y.b)}
      BY VotesUnder
    <3>2. TreeNodes(e) \subseteq Ids
      BY TreeIs
    <3>3. V(i) \subseteq V(c)
      BY <1>0, <1>1, <1>3, <1>4, <3>1, <3>2, UnderUnder
    <3>4. V(c) \subseteq V(e.root) /\ V(d) \subseteq V(e.root)
      BY <1>0, <1>3, <1>4, <2>2, <2>3, <3>1, <3>2, UnderUnder
    <3>. QED  BY <3>3, <3>4
  <2>5. V(c) \cap V(d) = {}
    BY <1>6, <2>1, VotesSplit
  <2>6. /\ \A x \in {i, c, d, e.root} : IsFiniteSet(V(x)) /\ Cardinality(V(x)) \in Nat
        /\ cum[c] = Stake * Cardinality(V(c)) /\ cum[d] = Stake * Cardinality(V(d))
    BY <1>4, <2>2, WeightsType, CumulativeWeights
  <2>7. Cardinality(V(i)) <= Cardinality(V(c)) /\ Cardinality(V(c)) + Cardinality(V(d)) <= Cardinality(V(e.root))
    <3>. HIDE DEF V
    <3>1. Cardinality(V(i)) <= Cardinality(V(c))
      BY <2>4, <2>6, FS_Subset
    <3>2. Cardinality(V(c) \cup V(d)) = Cardinality(V(c)) + Cardinality(V(d))
      <4>1. Cardinality(V(c) \cup V(d)) = Cardinality(V(c)) + Cardinality(V(d)) - Cardinality(V(c) \cap V(d))
        BY <2>6, FS_Union
      <4>2. Cardinality(V(c) \cap V(d)) = 0 /\ Cardinality(V(c)) \in Nat /\ Cardinality(V(d)) \in Nat
        BY <2>5, <2>6, FS_EmptySet
      <4>. QED  BY <4>1, <4>2
    <3>3. Cardinality(V(c) \cup V(d)) <= Cardinality(V(e.root))
      <4>1. V(c) \cup V(d) \subseteq V(e.root)
        BY <2>4
      <4>. QED  BY <2>6, <4>1, FS_Subset
    <3>. QED  BY <3>1, <3>2, <3>3
  <2>. DEFINE k == Cardinality(V(c))
              l == Cardinality(V(d))
  <2>8. l < k /\ k \in Nat /\ l \in Nat
    BY <2>6, <2>7
  <2>9. Stake * k > Stake * l /\ Stake * k \in Nat /\ Stake * l \in Nat
    <3>. HIDE DEF k, l
    <3>1. Stake \in Nat \ {0}
      BY VotesAssumption
    <3>. DEFINE sk == Stake * k
                sl == Stake * l
                rest == Stake * (k - l)
    <3>2. sk = sl + rest
      BY <2>8, <3>1
    <3>3. sk \in Nat /\ sl \in Nat /\ rest \in Nat /\ rest > 0
      <4>1. k - l \in Nat \ {0}
        BY <2>8
      <4>. QED  BY <2>8, <3>1, <4>1
    <3>4. sk > sl
      <4>. HIDE DEF sk, sl, rest
      <4>. QED  BY <3>2, <3>3
    <3>. QED  BY <3>3, <3>4
  <2>10. cum[c] > cum[d] /\ cum[c] \in Nat /\ cum[d] \in Nat
    BY <2>6, <2>9
  <2>. HIDE DEF cum
  <2>. QED  BY <2>1, <2>10 DEF Beats
<1>. QED  BY <1>1, <1>6, <1>8

LEMMA MajorityIsUp ==
    ASSUME BlocksOk, NEW e, EngTree(e), e.root # NoRoot, NEW i \in TreeNodes(e), Under(e.root, i),
           2 * Cardinality(VotesBelow(e, i)) > Cardinality(VotesBelow(e, e.root))
    PROVE  Under(i, Head(e))
<1>1. PICK g : IsEnd(g, e, TreeNodes(e)) /\ Head(e) = g[e.root]
  BY EndExists
<1>2. e.root \in TreeNodes(e) /\ e.root \in Ids /\ i \in Ids
  BY TreeIs DEF EngTree, TreeNodes
<1>. DEFINE S == {p \in TreeNodes(e) : Under(e.root, p) /\ Under(p, i) => Under(i, g[p])}
<1>3. ASSUME NEW p \in TreeNodes(e), Children(e, p) \subseteq S PROVE p \in S
  <2>. SUFFICES ASSUME Under(e.root, p), Under(p, i) PROVE Under(i, g[p])
    OBVIOUS
  <2>1. CASE p = i
    BY <1>1, <2>1, EndBelow
  <2>2. CASE p # i
    <3>. DEFINE c == Best(e, p)
    <3>1. c \in Children(e, p) /\ Under(c, i)
      BY <1>2, <2>2, BestOnTheWay
    <3>2. g[p] = g[c]
      BY <1>1, <3>1, EndStep
    <3>. HIDE DEF c
    <3>3. Under(e.root, c)
      <4>1. c \in Ids /\ Under(p, c)
        BY <3>1, TreeIs
      <4>. QED  BY <4>1, UnderUnder
    <3>4. Under(i, g[c])
      BY <1>3, <3>1, <3>3
    <3>. QED  BY <3>2, <3>4
  <2>. QED  BY <2>1, <2>2
<1>. HIDE DEF S
<1>4. e.root \in S
  BY <1>2, <1>3, LeavesFirst
<1>5. Under(e.root, e.root)
  BY <1>2, UnderSelf
<1>. QED  BY <1>1, <1>4, <1>5 DEF S

TreesOk == BlocksOk /\ \A n \in Nodes : EngTree(eng[n])

LEMMA HeaviestLeads == TreesOk => HeadHeaviest
<1>. SUFFICES ASSUME TreesOk, NEW n \in Nodes, eng[n].root # NoRoot PROVE
        LET e == eng[n]
            count(i) == Cardinality({x \in e.latest : x.b \in TreeNodes(e) /\ Under(i, x.b)})
        IN \A i \in TreeNodes(e) :
              Under(e.root, i) /\ 2 * count(i) > count(e.root) => Under(i, Head(e))
  BY DEF HeadHeaviest
<1>. DEFINE e == eng[n]
            count(i) == Cardinality({x \in e.latest : x.b \in TreeNodes(e) /\ Under(i, x.b)})
<1>1. ASSUME NEW i \in TreeNodes(e), Under(e.root, i), 2 * count(i) > count(e.root) PROVE Under(i, Head(e))
  <2>1. BlocksOk /\ EngTree(e) /\ e.root # NoRoot
    BY DEF TreesOk
  <2>. HIDE DEF e
  <2>2. e.root \in TreeNodes(e) /\ Under(e.root, e.root)
    BY <2>1, TreeIs, UnderSelf DEF EngTree, TreeNodes
  <2>3. Cardinality(VotesBelow(e, i)) = count(i) /\ Cardinality(VotesBelow(e, e.root)) = count(e.root)
    BY <1>1, <2>1, <2>2, VotesUnder
  <2>. HIDE DEF count
  <2>. QED  BY <1>1, <2>1, <2>3, MajorityIsUp
<1>. QED  BY <1>1

-----------------------------------------------------------------------------
(* What the handlers do to the tree *)

\* f has the tree of e, and no endless table of latest votes.
SameTree(e, f) ==
    /\ IsEngines(f) /\ f.kids = e.kids /\ f.blank = e.blank /\ f.root = e.root
    /\ IsFiniteSet(e.latest) => IsFiniteSet(f.latest)

LEMMA SameTreeTwice ==
    ASSUME NEW e, NEW f, NEW g, SameTree(e, f), SameTree(f, g)
    PROVE  SameTree(e, g)
BY DEF SameTree

LEMMA SlashTree ==
    ASSUME NEW e, IsEngines(e), NEW v, NEW reason
    PROVE  SameTree(e, Slash(e, v, reason))
<1>. DEFINE f == [e EXCEPT !.slashed = @ \cup {<<v, reason>>}]
<1>1. IsEngines(f) /\ f.kids = e.kids /\ f.blank = e.blank /\ f.root = e.root /\ f.latest = e.latest
  BY DEF IsEngines, EngineFields
<1>2. Slash(e, v, reason) \in {e, f}
  BY DEF Slash
<1>. HIDE DEF f
<1>. QED  BY <1>1, <1>2 DEF SameTree

LEMMA StoredTree ==
    ASSUME NEW e, IsEngines(e), NEW b
    PROVE  \E r : /\ SameTree(e, r)
                  /\ Stored(e, b) = IF b.miner \in Out(Stored(e, b)) THEN r ELSE AddBlock(r, b)
<1>. DEFINE f == [e EXCEPT !.proposals = @ \cup {<<b.height, b.miner>>}]
            r == RecordProposal(e, b)
            g == AddBlock(r, b)
<1>1. IsEngines(f) /\ f.kids = e.kids /\ f.blank = e.blank /\ f.root = e.root /\ f.latest = e.latest
  BY DEF IsEngines, EngineFields
<1>2. r \in {f, Slash(e, b.miner, "double_proposal")}
  BY DEF RecordProposal
<1>. HIDE DEF f
<1>3. SameTree(e, r)
  BY <1>1, <1>2, SlashTree DEF SameTree
<1>. HIDE DEF r
<1>4. g.slashed = r.slashed
  BY <1>3 DEF SameTree, AddBlock, IsEngines, EngineFields
<1>5. Out(g) = Out(r)
  BY <1>4 DEF Out
<1>6. Stored(e, b) = IF b.miner \in Out(r) THEN r ELSE g
  BY DEF Stored, r
<1>. HIDE DEF g
<1>7. Stored(e, b) = IF b.miner \in Out(Stored(e, b)) THEN r ELSE g
  BY <1>5, <1>6
<1>. QED  BY <1>3, <1>7 DEF g

LEMMA AttestationTree ==
    ASSUME NEW e, IsEngines(e), NEW v, NEW s, NEW b
    PROVE  SameTree(e, OnAttestation(e, v, s, b))
<1>. DEFINE voted == AddVote(e, v, s, b)
            moved == UpdateLatest(voted, v, s, b)
            counted == CountVote(moved, s, b)
            done == IF v \in e.known /\ \E x \in e.kids : x[2] = b THEN counted ELSE moved
            total == [done EXCEPT !.total = ActiveStake(done)]
<1>1. SameTree(e, voted)
  <2>. DEFINE f == [e EXCEPT !.votes = @ \cup {<<v, s, b>>}]
  <2>1. IsEngines(f) /\ f.kids = e.kids /\ f.blank = e.blank /\ f.root = e.root /\ f.latest = e.latest
    BY DEF IsEngines, EngineFields
  <2>2. voted \in {e, f, Slash(e, v, "double_vote")}
    BY DEF AddVote
  <2>. HIDE DEF f, voted
  <2>. QED  BY <2>1, <2>2, SlashTree DEF SameTree
<1>2. SameTree(voted, moved)
  <2>. HIDE DEF voted
  <2>. DEFINE new == [v |-> v, b |-> b, s |-> s]
              f == [voted EXCEPT !.latest = {x \in @ : x.v # v} \cup {new}]
              rest == {x \in voted.latest : x.v # v}
  <2>1. IsEngines(f) /\ f.kids = voted.kids /\ f.blank = voted.blank /\ f.root = voted.root /\ f.latest = rest \cup {new}
    BY <1>1 DEF SameTree, IsEngines, EngineFields
  <2>2. moved \in {voted, f}
    BY DEF UpdateLatest
  <2>3. IsFiniteSet(voted.latest) => IsFiniteSet(f.latest)
    <3>1. rest \subseteq voted.latest
      OBVIOUS
    <3>. HIDE DEF rest, f, new
    <3>. QED  BY <2>1, <3>1, FS_Subset, FS_AddElement
  <2>. HIDE DEF f, moved
  <2>. QED  BY <1>1, <2>1, <2>2, <2>3 DEF SameTree
<1>. HIDE DEF voted, moved
<1>3. SameTree(moved, counted)
  BY <1>2 DEF SameTree, CountVote, IsEngines, EngineFields
<1>. HIDE DEF counted
<1>4. SameTree(moved, done)
  BY <1>2, <1>3 DEF SameTree, done
<1>. HIDE DEF done
<1>5. SameTree(done, total)
  BY <1>4 DEF SameTree, IsEngines, EngineFields
<1>. HIDE DEF total
<1>6. SameTree(e, done) /\ SameTree(e, total)
  BY <1>1, <1>2, <1>4, <1>5, SameTreeTwice
<1>7. OnAttestation(e, v, s, b) \in {voted, total}
  BY DEF OnAttestation, voted, moved, counted, done, total
<1>. QED  BY <1>1, <1>6, <1>7

\* What a node's chain grows on is in the tree, if it is below the root.
TipIn(e, t) == e.root # NoRoot /\ Under(e.root, t) /\ t # e.root => <<Parent(t), t>> \in e.kids

LEMMA SameTreeOk ==
    ASSUME BlocksOk, NEW e, NEW f, EngTree(e), SameTree(e, f)
    PROVE  EngTree(f) /\ \A t : TipIn(e, t) => TipIn(f, t)
<1>1. TreeNodes(f) = TreeNodes(e) /\ f.kids = e.kids /\ f.blank = e.blank /\ f.root = e.root /\ IsFiniteSet(f.latest)
  BY DEF TreeNodes, SameTree, EngTree
<1>2. EngTree(f)
  BY <1>1 DEF EngTree
<1>. QED  BY <1>1, <1>2 DEF TipIn

\* A chain that loses its last block.
LEMMA TipParent ==
    ASSUME BlocksOk, NEW e, EngTree(e), NEW t \in Ids, t # Genesis, TipIn(e, t)
    PROVE  TipIn(e, Parent(t))
<1>. SUFFICES ASSUME e.root # NoRoot, Under(e.root, Parent(t)), Parent(t) # e.root PROVE <<Parent(Parent(t)), Parent(t)>> \in e.kids
  BY DEF TipIn
<1>1. Parent(t) \in Ids /\ Parent(t) < t /\ Parent(t) \in Nat /\ t \in Nat
  BY BlockIs
<1>2. Under(e.root, t)
  BY UnderIs
<1>3. t # e.root
  <2>1. e.root <= Parent(t)
    BY <1>1, UnderBelow
  <2>. QED  BY <1>1, <2>1
<1>4. <<Parent(t), t>> \in e.kids
  BY <1>2, <1>3 DEF TipIn
<1>5. Parent(t) \in TreeNodes(e)
  BY <1>4, TreeIs
<1>. QED  BY <1>5 DEF EngTree

LEMMA AddBlockTree ==
    ASSUME BlocksOk, NEW e, IsEngines(e), EngTree(e), NEW b \in blocks, b.id # Genesis, TipIn(e, b.parent)
    PROVE  EngTree(AddBlock(e, b)) /\ TipIn(AddBlock(e, b), b.id)
<1>. DEFINE f == AddBlock(e, b)
            i == b.id
            p == b.parent
<1>1. i \in Ids \ {Genesis} /\ Parent(i) = p /\ p \in Ids /\ p < i /\ p \in Nat
  BY BlockIs DEF Parent
<1>2. /\ f.kids = e.kids \cup {<<p, i>>} /\ f.blank = e.blank \cup ({p} \ TreeNodes(e)) /\ f.latest = e.latest
      /\ f.root = IF e.root = NoRoot THEN p ELSE e.root
  BY DEF AddBlock, IsEngines, EngineFields
<1>. HIDE DEF f
<1>3. TreeNodes(f) = TreeNodes(e) \cup {p, i}
  <2>1. {x[2] : x \in f.kids} = {x[2] : x \in e.kids} \cup {i}
    <3>1. <<p, i>>[2] = i
      OBVIOUS
    <3>. HIDE DEF i, p
    <3>. QED  BY <1>2, <3>1
  <2>. QED  BY <1>2, <2>1 DEF TreeNodes
<1>. HIDE DEF i, p
<1>4. \A x \in f.kids : x[2] \in Ids \ {Genesis} /\ x = <<Parent(x[2]), x[2]>> /\ x[1] \in TreeNodes(f)
  <2>. SUFFICES ASSUME NEW x \in f.kids PROVE x[2] \in Ids \ {Genesis} /\ x = <<Parent(x[2]), x[2]>> /\ x[1] \in TreeNodes(f)
    OBVIOUS
  <2>1. CASE x \in e.kids
    BY <1>3, <2>1 DEF EngTree
  <2>2. CASE x = <<p, i>>
    BY <1>1, <1>3, <2>2
  <2>. QED  BY <1>2, <2>1, <2>2
<1>5. f.blank \subseteq Ids /\ f.root # NoRoot /\ IsFiniteSet(f.latest)
  BY <1>1, <1>2 DEF EngTree, NoRoot
<1>6. CASE e.root = NoRoot
  <2>1. e.kids = {} /\ e.blank = {} /\ TreeNodes(e) = {}
    BY <1>6 DEF EngTree, TreeNodes
  <2>2. f.root = p /\ f.root \in f.blank /\ TreeNodes(f) = {p, i}
    BY <1>2, <1>3, <1>6, <2>1
  <2>3. \A j \in TreeNodes(f) : Under(f.root, j) /\ j # f.root => <<Parent(j), j>> \in f.kids
    BY <1>1, <1>2, <2>2
  <2>. QED  BY <1>1, <1>2, <1>4, <1>5, <2>2, <2>3 DEF EngTree, TipIn, f, i
<1>7. CASE e.root # NoRoot
  <2>1. f.root = e.root /\ f.root \in f.blank
    BY <1>2, <1>7 DEF EngTree
  <2>2. ASSUME NEW j \in TreeNodes(f), Under(f.root, j), j # f.root PROVE <<Parent(j), j>> \in f.kids
    <3>1. CASE j \in TreeNodes(e)
      BY <1>2, <2>1, <2>2, <3>1 DEF EngTree
    <3>2. CASE j = i
      BY <1>1, <1>2, <3>2
    <3>3. CASE j = p
      BY <1>2, <1>7, <2>1, <2>2, <3>3 DEF TipIn, p
    <3>. QED  BY <1>3, <2>2, <3>1, <3>2, <3>3
  <2>. QED  BY <1>1, <1>2, <1>4, <1>5, <2>1, <2>2 DEF EngTree, TipIn, f, i
<1>. QED  BY <1>6, <1>7

-----------------------------------------------------------------------------
(* The blocks grow *)

\* UnderIs, BlockIs and AddBlockTree, said of a state.
TreeFacts ==
    BlocksOk =>
    /\ \A i : \A d \in Ids : Under(i, d) <=> d = i \/ (d # Genesis /\ Under(i, Parent(d)))
    /\ \A b \in blocks : Block(b.id) = b
    /\ \A e : \A b \in blocks : IsEngines(e) /\ EngTree(e) /\ b.id # Genesis /\ TipIn(e, b.parent)
                                => EngTree(AddBlock(e, b)) /\ TipIn(AddBlock(e, b), b.id)

LEMMA TreeFactsHold == TreeFacts
BY UnderIs, BlockIs, AddBlockTree DEF TreeFacts

LEMMA TreeFactsNext == TreeFacts'
BY TreeFactsHold, PTL

\* What holds of a tree goes on holding of it.
Carried == /\ BlocksOk' /\ Ids \subseteq Ids'
           /\ \A e : EngTree(e) => EngTree(e)'
           /\ \A e : \A t \in Ids : TipIn(e, t) => TipIn(e, t)'

LEMMA SameBlocks ==
    ASSUME BlocksOk, blocks' = blocks
    PROVE  Carried
<1>1. BlocksOk' /\ Ids' = Ids
  BY DEF BlocksOk, Ids
<1>2. (\A i : Parent(i)' = Parent(i)) /\ \A i, d : Under(i, d)' <=> Under(i, d)
  BY DEF Parent, Under, Block
<1>3. ASSUME NEW e, EngTree(e) PROVE EngTree(e)'
  BY <1>1, <1>2, <1>3 DEF EngTree, TreeNodes
<1>4. ASSUME NEW e, NEW t \in Ids, TipIn(e, t) PROVE TipIn(e, t)'
  BY <1>2, <1>4 DEF TipIn
<1>. QED  BY <1>1, <1>3, <1>4 DEF Carried

NewBlock(t, miner) == [id |-> Cardinality(blocks), parent |-> t, height |-> Block(t).height + 1, miner |-> miner]

LEMMA OneMoreBlock ==
    ASSUME BlocksOk, NEW t \in Ids, NEW b, NEW miner, b = NewBlock(t, miner), blocks' = blocks \cup {b}
    PROVE  Carried /\ b.id # Genesis /\ b.id \in Ids' /\ b.parent = t
<1>. DEFINE N == Cardinality(blocks)
<1>1. b.id = N /\ b.parent = t /\ b.height = Block(t).height + 1 /\ N \in Nat \ {0}
  BY DEF NewBlock, BlocksOk
<1>2. Ids = 0..(N - 1) /\ N \notin Ids /\ N # Genesis
  BY <1>1 DEF BlocksOk, Genesis
<1>3. b \notin blocks
  BY <1>1, <1>2 DEF Ids
<1>4. Cardinality(blocks') = N + 1 /\ IsFiniteSet(blocks')
  BY <1>3, FS_AddElement DEF BlocksOk
<1>5. Ids' = Ids \cup {N}
  BY <1>1 DEF Ids
<1>6. BlocksOk'
  <2>1. Ids' = 0..(Cardinality(blocks') - 1)
    BY <1>1, <1>2, <1>4, <1>5
  <2>2. \A x, y \in blocks' : x.id = y.id => x = y
    <3>1. \A x \in blocks : x.id # b.id
      BY <1>1, <1>2, BlockIs
    <3>. QED  BY <3>1 DEF BlocksOk
  <2>3. ASSUME NEW x \in blocks'
        PROVE  /\ x.id = Genesis => x.parent = NoRoot
               /\ x.id # Genesis => x.parent \in 0..(x.id - 1)
               /\ x.height \in 0..x.id
    <3>1. CASE x \in blocks
      BY <3>1 DEF BlocksOk
    <3>2. CASE x = b
      <4>1. t \in 0..(N - 1)
        BY <1>2
      <4>2. Block(t).height \in 0..t
        BY BlockIs DEF BlocksOk
      <4>. QED  BY <1>1, <1>2, <3>2, <4>1, <4>2
    <3>. QED  BY <3>1, <3>2
  <2>4. Cardinality(blocks') \in Nat \ {0}
    BY <1>1, <1>4
  <2>. QED  BY <1>4, <2>1, <2>2, <2>3, <2>4 DEF BlocksOk
<1>7. ASSUME NEW j \in Ids PROVE Parent(j)' = Parent(j)
  <2>1. Block(j) \in blocks' /\ Block(j).id = j
    BY BlockIs
  <2>2. Block(j)' = Block(j)
    <3>1. \A x \in blocks' : Block(x.id)' = x
      BY <1>6, TreeFactsNext DEF TreeFacts
    <3>. QED  BY <2>1, <3>1
  <2>. QED  BY <2>2 DEF Parent
<1>8. ASSUME NEW i, NEW d \in Ids PROVE Under(i, d)' <=> Under(i, d)
  <2>. DEFINE S == {x \in Ids : Under(i, x)' <=> Under(i, x)}
  <2>1. ASSUME NEW x \in Ids, x # Genesis => Parent(x) \in S PROVE x \in S
    <3>1. CASE x = Genesis
      <4>1. (Under(i, x)' <=> x = i) /\ (Under(i, x) <=> x = i)
        BY <1>5, <1>6, <3>1, TreeFactsNext, UnderIs DEF TreeFacts
      <4>. QED  BY <4>1
    <3>2. CASE x # Genesis
      <4>1. PICK y \in S : Parent(x) = y
        BY <2>1, <3>2
      <4>2. Parent(x)' = y
        BY <1>7, <4>1
      <4>3. Under(i, x)' <=> x = i \/ Under(i, y)'
        BY <1>5, <1>6, <3>2, <4>2, TreeFactsNext DEF TreeFacts
      <4>4. Under(i, x) <=> x = i \/ Under(i, y)
        BY <3>2, <4>1, UnderIs
      <4>. QED  BY <4>1, <4>3, <4>4
    <3>. QED  BY <3>1, <3>2
  <2>. HIDE DEF S
  <2>2. d \in S
    BY <2>1, TreeInduction
  <2>. QED  BY <2>2 DEF S
<1>9. ASSUME NEW e, EngTree(e) PROVE EngTree(e)'
  <2>1. TreeNodes(e) \subseteq Ids
    BY <1>9, TreeIs
  <2>2. \A x \in e.kids : x[2] \in Ids' \ {Genesis} /\ x = <<Parent(x[2])', x[2]>> /\ x[1] \in TreeNodes(e)
    <3>. SUFFICES ASSUME NEW x \in e.kids PROVE x[2] \in Ids' \ {Genesis} /\ x = <<Parent(x[2])', x[2]>> /\ x[1] \in TreeNodes(e)
      OBVIOUS
    <3>1. x[2] \in Ids \ {Genesis} /\ x = <<Parent(x[2]), x[2]>> /\ x[1] \in TreeNodes(e)
      BY <1>9 DEF EngTree
    <3>2. Parent(x[2])' = Parent(x[2])
      BY <1>7, <3>1
    <3>. QED  BY <1>5, <3>1, <3>2
  <2>3. \A i \in TreeNodes(e) : Under(e.root, i)' /\ i # e.root => <<Parent(i)', i>> \in e.kids
    BY <1>7, <1>8, <1>9, <2>1 DEF EngTree
  <2>4. e.blank \subseteq Ids'
    BY <1>5, <1>9 DEF EngTree
  <2>5. TreeNodes(e)' = TreeNodes(e)
    BY DEF TreeNodes
  <2>6. /\ e.root = NoRoot => e.kids = {} /\ e.blank = {}
        /\ e.root # NoRoot => e.root \in e.blank
        /\ IsFiniteSet(e.latest)
    BY <1>9 DEF EngTree
  <2>. QED  BY <2>2, <2>3, <2>4, <2>5, <2>6 DEF EngTree
<1>10. ASSUME NEW e, NEW x \in Ids, TipIn(e, x) PROVE TipIn(e, x)'
  BY <1>7, <1>8, <1>10 DEF TipIn
<1>. QED  BY <1>1, <1>2, <1>5, <1>6, <1>9, <1>10 DEF Carried

-----------------------------------------------------------------------------
(* The trees of the nodes *)

\* TreesOk, with what makes it inductive: where each chain stands in its node's tree.
ForkInv ==
    /\ VotesInv /\ TreesOk
    /\ tip \in [Nodes -> Ids]
    /\ \A n \in Nodes : TipIn(eng[n], tip[n])

\* One node has new engines and a new last block.
LEMMA TreesChange ==
    ASSUME ForkInv, Carried, NEW n \in Nodes, NEW e, NEW t \in Ids', eng' = [eng EXCEPT ![n] = e], tip' = [tip EXCEPT ![n] = t],
           EngTree(e)', TipIn(e, t)'
    PROVE  TreesOk' /\ tip' \in [Nodes -> Ids'] /\ \A m \in Nodes : TipIn(eng[m], tip[m])'
<1>1. tip \in [Nodes -> Ids] /\ DOMAIN eng = Nodes /\ BlocksOk' /\ Ids \subseteq Ids'
  BY DEF ForkInv, VotesInv, Carried
<1>2. /\ eng'[n] = e /\ tip'[n] = t
      /\ \A m \in Nodes \ {n} : eng'[m] = eng[m] /\ tip'[m] = tip[m]
  BY <1>1
<1>3. tip' \in [Nodes -> Ids']
  BY <1>1
<1>4. ASSUME NEW m \in Nodes PROVE EngTree(eng[m])' /\ TipIn(eng[m], tip[m])'
  <2>1. CASE m = n
    BY <1>2, <2>1
  <2>2. CASE m # n
    <3>1. PICK f, u : f = eng[m] /\ u = tip[m]
      OBVIOUS
    <3>2. EngTree(f) /\ TipIn(f, u) /\ u \in Ids
      BY <1>1, <3>1 DEF ForkInv, TreesOk
    <3>3. EngTree(f)' /\ TipIn(f, u)'
      BY <3>2 DEF Carried
    <3>4. eng'[m] = f /\ tip'[m] = u
      BY <1>2, <2>2, <3>1
    <3>. QED  BY <3>3, <3>4
  <2>. QED  BY <2>1, <2>2
<1>. QED  BY <1>1, <1>3, <1>4 DEF TreesOk

\* The same when no block is made.
LEMMA TreesMove ==
    ASSUME ForkInv, blocks' = blocks, NEW n \in Nodes, NEW e, NEW t \in Ids, eng' = [eng EXCEPT ![n] = e], tip' = [tip EXCEPT ![n] = t],
           EngTree(e), TipIn(e, t)
    PROVE  TreesOk' /\ tip' \in [Nodes -> Ids'] /\ \A m \in Nodes : TipIn(eng[m], tip[m])'
<1>1. Carried
  BY SameBlocks DEF ForkInv, TreesOk
<1>2. EngTree(e)' /\ TipIn(e, t)' /\ t \in Ids'
  BY <1>1 DEF Carried
<1>. QED  BY <1>1, <1>2, TreesChange

LEMMA NodeTree ==
    ASSUME ForkInv, NEW n \in Nodes
    PROVE  /\ BlocksOk /\ EngTree(eng[n]) /\ IsEngines(eng[n]) /\ tip[n] \in Ids /\ TipIn(eng[n], tip[n])
           /\ tip = [tip EXCEPT ![n] = tip[n]]
BY DEF ForkInv, TreesOk, VotesInv, EnginesInv

TreesKept == TreesOk' /\ tip' \in [Nodes -> Ids'] /\ \A m \in Nodes : TipIn(eng[m], tip[m])'

LEMMA MineTree ==
    ASSUME ForkInv, NEW n \in Nodes, Mine(n)
    PROVE  TreesKept
<1>0. /\ BlocksOk /\ EngTree(eng[n]) /\ IsEngines(eng[n]) /\ tip[n] \in Ids /\ TipIn(eng[n], tip[n])
      /\ tip = [tip EXCEPT ![n] = tip[n]]
  BY NodeTree
<1>1. PICK o, t, b, e, a : /\ o = eng[n] /\ t = tip[n] /\ b = NewBlock(t, n)
                           /\ e = Stored(o, b) /\ a = Attested(n, e, b.id)
                           /\ IF n \in Out(e) THEN Chosen(n, e, FALSE) /\ UNCHANGED <<blocks, tip>>
                              ELSE /\ blocks' = blocks \cup {b}
                                   /\ tip' = [tip EXCEPT ![n] = b.id]
                                   /\ Chosen(n, a.engines, TRUE)
  BY DEF Mine, NewBlock
<1>2. b.miner = n
  BY <1>1 DEF NewBlock
<1>3. PICK r : SameTree(o, r) /\ e = IF n \in Out(e) THEN r ELSE AddBlock(r, b)
  BY <1>0, <1>1, <1>2, StoredTree
<1>4. EngTree(r) /\ TipIn(r, t) /\ IsEngines(r)
  <2>1. EngTree(o) /\ TipIn(o, t)
    BY <1>0, <1>1
  <2>. QED  BY <1>0, <1>3, <2>1, SameTreeOk DEF SameTree
<1>5. CASE n \in Out(e)
  <2>1. eng' = [eng EXCEPT ![n] = r] /\ tip' = [tip EXCEPT ![n] = t] /\ blocks' = blocks
    BY <1>0, <1>1, <1>3, <1>5 DEF Chosen
  <2>2. t \in Ids
    BY <1>0, <1>1
  <2>. QED  BY <1>4, <2>1, <2>2, TreesMove DEF TreesKept
<1>6. CASE n \notin Out(e)
  <2>1. /\ eng' = [eng EXCEPT ![n] = a.engines] /\ tip' = [tip EXCEPT ![n] = b.id] /\ blocks' = blocks \cup {b}
        /\ e = AddBlock(r, b) /\ a.engines = OnAttestation(e, n, slot[n], b.id)
    BY <1>1, <1>3, <1>6 DEF Chosen, Attested
  <2>2. Carried /\ b.id # Genesis /\ b.id \in Ids' /\ b.parent = t /\ t \in Ids
    BY <1>0, <1>1, <2>1, OneMoreBlock
  <2>3. EngTree(r)' /\ TipIn(r, t)' /\ BlocksOk'
    BY <1>4, <2>2 DEF Carried
  <2>4. EngTree(e)' /\ TipIn(e, b.id)'
    <3>1. b \in blocks'
      BY <2>1
    <3>2. TipIn(r, b.parent)'
      BY <2>2, <2>3
    <3>. QED  BY <1>4, <2>1, <2>2, <2>3, <3>1, <3>2, TreeFactsNext DEF TreeFacts
  <2>5. PICK f : f = a.engines
    OBVIOUS
  <2>6. SameTree(e, f)
    <3>1. IsEngines(e)
      BY <1>4, <2>1 DEF AddBlock, IsEngines, EngineFields
    <3>. QED  BY <2>1, <2>5, <3>1, AttestationTree
  <2>7. EngTree(f)' /\ TipIn(f, b.id)'
    <3>1. f.kids = e.kids /\ f.blank = e.blank /\ f.root = e.root /\ (IsFiniteSet(e.latest) => IsFiniteSet(f.latest))
      BY <2>6 DEF SameTree
    <3>2. TreeNodes(f) = TreeNodes(e) /\ TreeNodes(f)' = TreeNodes(f) /\ TreeNodes(e)' = TreeNodes(e)
      BY <3>1 DEF TreeNodes
    <3>3. EngTree(f)'
      BY <2>4, <3>1, <3>2 DEF EngTree
    <3>4. TipIn(f, b.id)'
      BY <2>4, <3>1 DEF TipIn
    <3>. QED  BY <3>3, <3>4
  <2>8. eng' = [eng EXCEPT ![n] = f]
    BY <2>1, <2>5
  <2>9. PICK i : i = b.id
    OBVIOUS
  <2>10. TipIn(f, i)' /\ i \in Ids' /\ tip' = [tip EXCEPT ![n] = i]
    BY <2>1, <2>2, <2>7, <2>9
  <2>. QED  BY <2>2, <2>7, <2>8, <2>10, TreesChange DEF TreesKept
<1>. QED  BY <1>5, <1>6

\* A block is stored on another of the chain's blocks.
LEMMA StoredTreeOk ==
    ASSUME BlocksOk, NEW e, EngTree(e), IsEngines(e), NEW b \in blocks, b.id # Genesis, TipIn(e, b.parent)
    PROVE  /\ IsEngines(Stored(e, b)) /\ EngTree(Stored(e, b))
           /\ IF b.miner \in Out(Stored(e, b)) THEN \A t : TipIn(e, t) => TipIn(Stored(e, b), t) ELSE TipIn(Stored(e, b), b.id)
<1>1. PICK r : SameTree(e, r) /\ Stored(e, b) = IF b.miner \in Out(Stored(e, b)) THEN r ELSE AddBlock(r, b)
  BY StoredTree
<1>2. EngTree(r) /\ IsEngines(r) /\ \A t : TipIn(e, t) => TipIn(r, t)
  BY <1>1, SameTreeOk DEF SameTree
<1>3. EngTree(AddBlock(r, b)) /\ TipIn(AddBlock(r, b), b.id)
  BY <1>2, AddBlockTree
<1>4. IsEngines(AddBlock(r, b))
  BY <1>2 DEF AddBlock, IsEngines, EngineFields
<1>. QED  BY <1>1, <1>2, <1>3, <1>4

LEMMA ImportTree ==
    ASSUME ForkInv, NEW n \in Nodes, NEW b \in blocks, NEW announced \in BOOLEAN, Import(n, b, announced)
    PROVE  TreesKept
<1>0. /\ BlocksOk /\ EngTree(eng[n]) /\ IsEngines(eng[n]) /\ tip[n] \in Ids /\ TipIn(eng[n], tip[n])
      /\ tip = [tip EXCEPT ![n] = tip[n]]
  BY NodeTree
<1>1. PICK o, e, a : /\ o = eng[n] /\ e = Stored(o, b) /\ a = Attested(n, e, b.id)
                     /\ IF b.miner \in Out(e) THEN Chosen(n, e, FALSE) /\ UNCHANGED tip
                        ELSE /\ tip' = [tip EXCEPT ![n] = b.id]
                             /\ Chosen(n, IF announced THEN a.engines ELSE e, FALSE)
  BY DEF Import
<1>2. b.parent = tip[n] /\ blocks' = blocks
  BY DEF Import
<1>3. b.id # Genesis /\ b.id \in Ids
  <2>1. tip[n] # NoRoot
    BY <1>0, BlockIs DEF NoRoot
  <2>. QED  BY <1>0, <1>2, <2>1, BlockIs DEF BlocksOk
<1>4. /\ IsEngines(e) /\ EngTree(e)
      /\ IF b.miner \in Out(e) THEN TipIn(e, tip[n]) ELSE TipIn(e, b.id)
  <2>1. EngTree(o) /\ IsEngines(o) /\ TipIn(o, b.parent) /\ TipIn(o, tip[n])
    BY <1>0, <1>1, <1>2
  <2>. QED  BY <1>0, <1>1, <1>3, <2>1, StoredTreeOk
<1>5. CASE b.miner \in Out(e)
  <2>1. eng' = [eng EXCEPT ![n] = e] /\ tip' = [tip EXCEPT ![n] = tip[n]]
    BY <1>0, <1>1, <1>5 DEF Chosen
  <2>. QED  BY <1>0, <1>2, <1>4, <1>5, <2>1, TreesMove DEF TreesKept
<1>6. CASE b.miner \notin Out(e)
  <2>1. PICK f : f = IF announced THEN a.engines ELSE e
    OBVIOUS
  <2>2. eng' = [eng EXCEPT ![n] = f] /\ tip' = [tip EXCEPT ![n] = b.id]
    BY <1>1, <1>6, <2>1 DEF Chosen
  <2>3. EngTree(f) /\ TipIn(f, b.id)
    <3>1. a.engines = OnAttestation(e, n, slot[n], b.id)
      BY <1>1 DEF Attested
    <3>2. SameTree(e, a.engines)
      BY <1>4, <3>1, AttestationTree
    <3>3. EngTree(a.engines) /\ TipIn(a.engines, b.id)
      BY <1>0, <1>4, <1>6, <3>2, SameTreeOk
    <3>. QED  BY <1>4, <1>6, <2>1, <3>3
  <2>. QED  BY <1>2, <1>3, <2>2, <2>3, TreesMove DEF TreesKept
<1>. QED  BY <1>5, <1>6

LEMMA ReconcileTree ==
    ASSUME ForkInv, NEW n \in Nodes, NEW b \in blocks, Reconcile(n, b)
    PROVE  TreesKept
<1>0. /\ BlocksOk /\ EngTree(eng[n]) /\ IsEngines(eng[n]) /\ tip[n] \in Ids /\ TipIn(eng[n], tip[n])
      /\ tip = [tip EXCEPT ![n] = tip[n]]
  BY NodeTree
<1>1. tip[n] # Genesis /\ b.id # Genesis /\ b.parent = Parent(tip[n]) /\ blocks' = blocks
  BY DEF Reconcile, Parent
<1>2. PICK o, e : /\ o = eng[n] /\ e = IF ProposerOk(n, b) THEN Stored(o, b) ELSE o
                  /\ Chosen(n, e, FALSE)
                  /\ tip' = [tip EXCEPT ![n] = IF b.miner \in Out(e) \/ ~ProposerOk(n, b) THEN b.parent ELSE b.id]
  BY DEF Reconcile
<1>3. EngTree(o) /\ IsEngines(o) /\ TipIn(o, b.parent)
  <2>1. TipIn(eng[n], Parent(tip[n]))
    BY <1>0, <1>1, TipParent
  <2>. QED  BY <1>0, <1>1, <1>2, <2>1
<1>4. b.parent \in Ids /\ b.id \in Ids
  BY <1>0, <1>1, BlockIs
<1>5. PICK t : t = IF b.miner \in Out(e) \/ ~ProposerOk(n, b) THEN b.parent ELSE b.id
  OBVIOUS
<1>6. eng' = [eng EXCEPT ![n] = e] /\ tip' = [tip EXCEPT ![n] = t] /\ t \in Ids
  BY <1>2, <1>4, <1>5 DEF Chosen
<1>7. EngTree(e) /\ TipIn(e, t)
  <2>1. CASE ProposerOk(n, b)
    <3>1. e = Stored(o, b)
      BY <1>2, <2>1
    <3>2. EngTree(e) /\ IF b.miner \in Out(e) THEN TipIn(e, b.parent) ELSE TipIn(e, b.id)
      BY <1>0, <1>1, <1>3, <3>1, StoredTreeOk
    <3>. QED  BY <1>5, <2>1, <3>2
  <2>2. CASE ~ProposerOk(n, b)
    BY <1>2, <1>3, <1>5, <2>2
  <2>. QED  BY <2>1, <2>2
<1>. QED  BY <1>1, <1>6, <1>7, TreesMove DEF TreesKept

LEMMA HearTree ==
    ASSUME ForkInv, NEW n \in Nodes, NEW v, NEW b, Hear(n, v, b)
    PROVE  TreesKept
<1>0. /\ BlocksOk /\ EngTree(eng[n]) /\ IsEngines(eng[n]) /\ tip[n] \in Ids /\ TipIn(eng[n], tip[n])
      /\ tip = [tip EXCEPT ![n] = tip[n]]
  BY NodeTree
<1>. DEFINE e == OnAttestation(eng[n], v, slot[n], b)
<1>1. eng' = [eng EXCEPT ![n] = e] /\ tip' = [tip EXCEPT ![n] = tip[n]] /\ blocks' = blocks
  BY <1>0 DEF Hear, Chosen
<1>2. SameTree(eng[n], e)
  BY <1>0, AttestationTree
<1>. HIDE DEF e
<1>3. EngTree(e) /\ TipIn(e, tip[n])
  BY <1>0, <1>2, SameTreeOk
<1>. QED  BY <1>0, <1>1, <1>3, TreesMove DEF TreesKept

LEMMA RegisterTree ==
    ASSUME ForkInv, NEW n \in Nodes, NEW v \in Nodes, Register(n, v)
    PROVE  TreesKept
<1>0. /\ BlocksOk /\ EngTree(eng[n]) /\ IsEngines(eng[n]) /\ tip[n] \in Ids /\ TipIn(eng[n], tip[n])
      /\ tip = [tip EXCEPT ![n] = tip[n]]
  BY NodeTree
<1>. DEFINE e == AddValidator(eng[n], v)
<1>1. eng' = [eng EXCEPT ![n] = e] /\ tip' = [tip EXCEPT ![n] = tip[n]] /\ blocks' = blocks
  BY <1>0 DEF Register
<1>2. SameTree(eng[n], e)
  BY <1>0 DEF SameTree, AddValidator, IsEngines, EngineFields
<1>. HIDE DEF e
<1>3. EngTree(e) /\ TipIn(e, tip[n])
  BY <1>0, <1>2, SameTreeOk
<1>. QED  BY <1>0, <1>1, <1>3, TreesMove DEF TreesKept

\* A node that starts has no tree.
LEMMA NoVotesTree ==
    ASSUME NEW members
    PROVE  EngTree(NoVotes(members)) /\ \A t : TipIn(NoVotes(members), t)
<1>. DEFINE e == NoVotes(members)
<1>1. e.kids = {} /\ e.blank = {} /\ e.root = NoRoot /\ e.latest = {}
  BY DEF NoVotes
<1>. HIDE DEF e
<1>2. TreeNodes(e) = {}
  BY <1>1 DEF TreeNodes
<1>3. EngTree(e) /\ \A t : TipIn(e, t)
  BY <1>1, <1>2, FS_EmptySet DEF EngTree, TipIn
<1>. QED  BY <1>3 DEF e

LEMMA RestartTree ==
    ASSUME ForkInv, NEW n \in Nodes, Restart(n)
    PROVE  TreesKept
<1>0. tip[n] \in Ids /\ tip = [tip EXCEPT ![n] = tip[n]]
  BY NodeTree
<1>. DEFINE e == NoVotes(Active(n) \cup {n})
<1>1. eng' = [eng EXCEPT ![n] = e] /\ tip' = [tip EXCEPT ![n] = tip[n]] /\ blocks' = blocks
  BY <1>0 DEF Restart
<1>2. EngTree(e) /\ TipIn(e, tip[n])
  BY NoVotesTree
<1>. HIDE DEF e
<1>. QED  BY <1>0, <1>1, <1>2, TreesMove DEF TreesKept

LEMMA ForkStart == Init => ForkInv
<1>. SUFFICES ASSUME Init PROVE ForkInv
  OBVIOUS
<1>. DEFINE g == [id |-> Genesis, parent |-> NoRoot, height |-> 0, miner |-> "genesis"]
<1>1. blocks = {g} /\ g.id = Genesis /\ g.parent = NoRoot /\ g.height = 0
  BY DEF Init
<1>. HIDE DEF g
<1>2. Ids = {Genesis}
  BY <1>1 DEF Ids
<1>3. BlocksOk
  <2>1. IsFiniteSet(blocks) /\ Cardinality(blocks) = 1
    BY <1>1, FS_Singleton
  <2>2. Ids = 0..(Cardinality(blocks) - 1)
    BY <1>2, <2>1 DEF Genesis
  <2>. QED  BY <1>1, <2>1, <2>2 DEF BlocksOk, Genesis
<1>4. PICK met \in BOOLEAN : eng = [n \in Nodes |-> NoVotes(IF met THEN Nodes ELSE {n})]
  BY DEF Init
<1>5. \A n \in Nodes : EngTree(eng[n]) /\ TipIn(eng[n], tip[n])
  BY <1>4, NoVotesTree
<1>6. tip \in [Nodes -> Ids]
  BY <1>2 DEF Init
<1>. QED  BY <1>3, <1>5, <1>6, VotesStart DEF ForkInv, TreesOk

LEMMA ForkStep ==
    ASSUME ForkInv, [Next]_vars
    PROVE  ForkInv'
<1>1. VotesInv'
  BY VotesStep DEF ForkInv
<1>2. ASSUME NEW n \in Nodes, Step(n) PROVE TreesKept
  <2>1. CASE Mine(n)
    BY <2>1, MineTree
  <2>2. ASSUME NEW b \in blocks, Import(n, b, TRUE) \/ Import(n, b, FALSE) PROVE TreesKept
    BY <2>2, ImportTree
  <2>3. ASSUME NEW b \in blocks, Reconcile(n, b) PROVE TreesKept
    BY <2>3, ReconcileTree
  <2>4. ASSUME NEW x \in signed, Hear(n, x[1], x[2]) PROVE TreesKept
    BY <2>4, HearTree
  <2>5. ASSUME NEW v \in Nodes, Register(n, v) PROVE TreesKept
    BY <2>5, RegisterTree
  <2>6. CASE Restart(n)
    BY <2>6, RestartTree
  <2>. QED  BY <1>2, <2>1, <2>2, <2>3, <2>4, <2>5, <2>6 DEF Step
<1>3. ASSUME UNCHANGED vars PROVE TreesKept
  <2>1. blocks' = blocks /\ eng' = eng /\ tip' = tip
    BY <1>3 DEF vars
  <2>2. Carried /\ tip' \in [Nodes -> Ids']
    <3>1. Carried
      BY <2>1, SameBlocks DEF ForkInv, TreesOk
    <3>2. tip \in [Nodes -> Ids]
      BY DEF ForkInv
    <3>. QED  BY <2>1, <3>1, <3>2 DEF Carried
  <2>3. ASSUME NEW m \in Nodes PROVE EngTree(eng[m])' /\ TipIn(eng[m], tip[m])'
    <3>1. PICK f, u : f = eng[m] /\ u = tip[m]
      OBVIOUS
    <3>2. EngTree(f) /\ TipIn(f, u) /\ u \in Ids
      BY <3>1 DEF ForkInv, TreesOk
    <3>3. EngTree(f)' /\ TipIn(f, u)'
      BY <2>2, <3>2 DEF Carried
    <3>4. eng'[m] = f /\ tip'[m] = u
      BY <2>1, <3>1
    <3>. QED  BY <3>3, <3>4
  <2>4. BlocksOk'
    BY <2>2 DEF Carried
  <2>. QED  BY <2>2, <2>3, <2>4 DEF TreesKept, TreesOk
<1>4. TreesKept
  BY <1>2, <1>3 DEF Next
<1>. QED  BY <1>1, <1>4 DEF TreesKept, ForkInv

\* HeadHeaviest for every number of validators, every stake and every number of blocks
\* (ghost.py, select_head and get_cumulative_weight): a block with more than half of the
\* votes below the root is the head or an ancestor of it.
THEOREM MajorityLeads == Spec => []HeadHeaviest
<1>1. Init => ForkInv
  BY ForkStart
<1>2. ForkInv /\ [Next]_vars => ForkInv'
  BY ForkStep
<1>3. ForkInv => HeadHeaviest
  BY HeaviestLeads DEF ForkInv
<1>. QED  BY <1>1, <1>2, <1>3, PTL DEF Spec
=============================================================================
