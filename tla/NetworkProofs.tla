---------------------------- MODULE NetworkProofs ----------------------------
(***************************************************************************)
(* Theorems about Network, for any length of the chains, batches, pools and  *)
(* budgets: the chain of a node stays linked, without a transaction twice,   *)
(* and its mempool keeps to its size.                                        *)
(***************************************************************************)
EXTENDS Network, SumTheorems, SequenceTheorems

-----------------------------------------------------------------------------
(* The two nodes *)

LEMMA PeerIsNode ==
    ASSUME NEW n \in Nodes
    PROVE  Peer(n) \in Nodes /\ Peer(n) # n
<1>1. PICK a, b \in Nodes : a # b /\ Nodes = {a, b}
  BY NetworkAssumption
<1>2. \E m \in Nodes : m # n
  BY <1>1
<1>. QED  BY <1>2 DEF Peer

LEMMA FirstIsNode == First \in Nodes /\ \A n \in Nodes : n # First => n = Peer(First)
<1>1. PICK a, b \in Nodes : a # b /\ Nodes = {a, b}
  BY NetworkAssumption
<1>2. First \in Nodes
  BY <1>1 DEF First
<1>. QED  BY <1>1, <1>2, PeerIsNode

-----------------------------------------------------------------------------
(* Mempools *)

Pools == {p \in SUBSET Txs : IsFiniteSet(p)}
SmallPools == {p \in Pools : Cardinality(p) <= MaxPool}

LEMMA PoolSubset == \A p \in Pools : \A s \in SUBSET p : s \in Pools
BY FS_Subset DEF Pools

LEMMA CheapestExists ==
    ASSUME NEW p \in Pools, p # {}
    PROVE  \E t \in p : \A x \in p : Fee[t] <= Fee[x]
<1>. DEFINE F == {Fee[x] : x \in p}
<1>1. \A x \in p : Fee[x] \in Nat
  BY NetworkAssumption DEF Pools
<1>2. F \subseteq Nat /\ F # {}
  BY <1>1
<1>3. PICK f \in F : \A y \in F : f <= y
  BY <1>2, LeastNat
<1>. QED  BY <1>3

LEMMA CheapestOfIsIn ==
    ASSUME NEW p \in Pools, p # {}
    PROVE  CheapestOf(p) \in p
BY CheapestExists DEF CheapestOf

\* A set of k cheapest transactions exists for every k: one cheapest of the others more.
LEMMA CheapestSetExists ==
    ASSUME NEW p \in Pools, NEW k \in Nat, k <= Cardinality(p)
    PROVE  \E s \in SUBSET p : Cardinality(s) = k /\ \A a \in s, b \in p \ s : Fee[a] <= Fee[b]
<1>. DEFINE Good(s, j) == Cardinality(s) = j /\ \A a \in s, b \in p \ s : Fee[a] <= Fee[b]
            D == {j \in Nat : j <= Cardinality(p) => \E s \in SUBSET p : Good(s, j)}
<1>0. IsFiniteSet(p) /\ Cardinality(p) \in Nat
  BY FS_CardinalityType DEF Pools
<1>1. 0 \in D
  <2>1. Good({}, 0)
    BY FS_EmptySet
  <2>. QED  BY <2>1
<1>2. \A j \in Nat : j \in D => j + 1 \in D
  <2>. SUFFICES ASSUME NEW j \in Nat, j \in D, j + 1 <= Cardinality(p) PROVE \E s \in SUBSET p : Good(s, j + 1)
    OBVIOUS
  <2>1. PICK s \in SUBSET p : Good(s, j)
    BY <1>0
  <2>2. IsFiniteSet(s)
    BY <1>0, FS_Subset
  <2>3. p \ s \in Pools /\ p \ s # {}
    <3>1. s # p
      BY <2>1, <1>0
    <3>. QED  BY <3>1, PoolSubset
  <2>4. PICK t \in p \ s : \A x \in p \ s : Fee[t] <= Fee[x]
    BY <2>3, CheapestExists
  <2>5. Cardinality(s \cup {t}) = j + 1
    BY <2>1, <2>2, <2>4, FS_AddElement
  <2>6. \A a \in s \cup {t}, b \in p \ (s \cup {t}) : Fee[a] <= Fee[b]
    BY <2>1, <2>4
  <2>7. Good(s \cup {t}, j + 1)
    BY <2>5, <2>6
  <2>. HIDE DEF Good
  <2>. QED  BY <2>7, <2>4
<1>3. k \in D
  <2>. HIDE DEF D
  <2>. QED  BY <1>1, <1>2, NatSetInduction
<1>. QED  BY <1>3

\* Mempool.add: a full pool loses at least as much as it takes.
LEMMA AddedSmall ==
    ASSUME NEW p \in SmallPools, NEW c, NEW t \in Txs
    PROVE  Added(p, c, t) \in SmallPools
<1>1. IsFiniteSet(p) /\ Cardinality(p) \in Nat /\ Cardinality(p) <= MaxPool /\ p \subseteq Txs
  BY FS_CardinalityType DEF SmallPools, Pools
<1>2. MaxPool \in Nat /\ Dropped \in Nat /\ Dropped >= 1 /\ Dropped <= MaxPool
  BY NetworkAssumption
<1>3. CASE t \in p \/ t \in TxsOf(c)
  BY <1>3 DEF Added
<1>4. CASE ~(t \in p \/ t \in TxsOf(c)) /\ ~(Cardinality(p) >= MaxPool)
  <2>1. IsFiniteSet(p \cup {t}) /\ Cardinality(p \cup {t}) = Cardinality(p) + 1
    BY <1>1, <1>4, FS_AddElement
  <2>2. Added(p, c, t) = p \cup {t}
    BY <1>4 DEF Added
  <2>. QED  BY <1>1, <1>2, <1>4, <2>1, <2>2 DEF SmallPools, Pools
<1>5. CASE ~(t \in p \/ t \in TxsOf(c)) /\ Cardinality(p) >= MaxPool
  <2>. DEFINE s == Cheapest(p)
              r == p \ s
  <2>1. s \in SUBSET p /\ Cardinality(s) = Dropped
    <3>1. p \in Pools /\ Dropped <= Cardinality(p)
      BY <1>1, <1>2, <1>5 DEF SmallPools
    <3>2. \E q \in SUBSET p : Cardinality(q) = Dropped /\ \A a \in q, b \in p \ q : Fee[a] <= Fee[b]
      BY <3>1, <1>2, CheapestSetExists
    <3>. QED  BY <3>2 DEF Cheapest
  <2>2. IsFiniteSet(r) /\ Cardinality(r) = Cardinality(p) - Dropped
    <3>1. IsFiniteSet(s) /\ p \cap s = s
      BY <2>1, <1>1, FS_Subset
    <3>2. IsFiniteSet(p \ s) /\ Cardinality(p \ s) = Cardinality(p) - Cardinality(p \cap s)
      BY <1>1, FS_Difference
    <3>. QED  BY <2>1, <3>1, <3>2
  <2>3. IsFiniteSet(r \cup {t}) /\ Cardinality(r \cup {t}) = Cardinality(r) + 1
    BY <1>5, <2>2, FS_AddElement
  <2>4. Added(p, c, t) = r \cup {t}
    BY <1>5 DEF Added
  <2>. QED  BY <1>1, <1>2, <2>2, <2>3, <2>4 DEF SmallPools, Pools
<1>. QED  BY <1>3, <1>4, <1>5

\* The pools of all the subsets of an answer are one function.
AddBody(g, p, c, s) == IF s = {} THEN p ELSE Added(g[s \ {CheapestOf(s)}], c, CheapestOf(s))
AreAdded(g, p, c, ts) == g = [s \in SUBSET ts |-> AddBody(g, p, c, s)]

LEMMA AddedAllDef == \A p, c, ts : AddedAll(p, c, ts) = (CHOOSE g : AreAdded(g, p, c, ts))[ts]
BY DEF AddedAll, AreAdded, AddBody, MapThenFoldSet

LEMMA AddBodySmall ==
    ASSUME NEW ts \in Pools, NEW p \in SmallPools, NEW c, NEW s \in SUBSET ts, NEW g,
           s # {} => g[s \ {CheapestOf(s)}] \in SmallPools
    PROVE  AddBody(g, p, c, s) \in SmallPools
<1>1. s \in Pools
  BY PoolSubset
<1>2. CASE s = {}
  BY <1>2 DEF AddBody
<1>3. CASE s # {}
  <2>1. CheapestOf(s) \in Txs
    BY <1>1, <1>3, CheapestOfIsIn DEF Pools
  <2>. QED  BY <1>3, <2>1, AddedSmall DEF AddBody
<1>. QED  BY <1>2, <1>3

LEMMA AddedExist ==
    ASSUME NEW ts \in Pools, NEW p \in SmallPools, NEW c
    PROVE  \E g \in [SUBSET ts -> SmallPools] : AreAdded(g, p, c, ts)
<1>. DEFINE Upto(n) == {g \in [SUBSET ts -> SmallPools] :
                            \A s \in SUBSET ts : Cardinality(s) <= n => g[s] = AddBody(g, p, c, s)}
            D == {n \in Nat : Upto(n) # {}}
<1>0. IsFiniteSet(ts)
  BY DEF Pools
<1>1. 0 \in D
  <2>. DEFINE z == [s \in SUBSET ts |-> p]
  <2>1. z \in [SUBSET ts -> SmallPools]
    OBVIOUS
  <2>2. \A s \in SUBSET ts : Cardinality(s) <= 0 => z[s] = AddBody(z, p, c, s)
    BY <1>0, Smaller DEF AddBody
  <2>3. z \in Upto(0)
    BY <2>1, <2>2
  <2>. QED  BY <2>3
<1>2. \A n \in Nat : n \in D => n + 1 \in D
  <2>. SUFFICES ASSUME NEW n \in Nat, NEW g \in Upto(n) PROVE n + 1 \in D
    OBVIOUS
  <2>. DEFINE h == [s \in SUBSET ts |-> IF Cardinality(s) <= n THEN g[s] ELSE AddBody(g, p, c, s)]
  <2>0. \A s \in SUBSET ts : AddBody(g, p, c, s) \in SmallPools
    <3>. TAKE s \in SUBSET ts
    <3>1. s # {} => g[s \ {CheapestOf(s)}] \in SmallPools
      OBVIOUS
    <3>. QED  BY <3>1, AddBodySmall
  <2>1. h \in [SUBSET ts -> SmallPools]
    BY <2>0
  <2>2. ASSUME NEW s \in SUBSET ts, Cardinality(s) <= n + 1 PROVE h[s] = AddBody(h, p, c, s)
    <3>1. CASE s = {}
      <4>1. Cardinality(s) <= n
        BY <3>1, FS_EmptySet
      <4>. QED  BY <3>1, <4>1 DEF AddBody
    <3>2. CASE s # {}
      <4>. DEFINE r == s \ {CheapestOf(s)}
      <4>0. CheapestOf(s) \in s
        BY <3>2, PoolSubset, CheapestOfIsIn
      <4>1. r \in SUBSET ts /\ Cardinality(r) <= n /\ Cardinality(s) \in Nat
        BY <1>0, <2>2, <4>0, Smaller
      <4>2. h[r] = g[r]
        BY <4>1
      <4>3. AddBody(h, p, c, s) = AddBody(g, p, c, s)
        BY <3>2, <4>2 DEF AddBody
      <4>. QED  BY <4>3
    <3>. QED  BY <3>1, <3>2
  <2>3. h \in Upto(n + 1)
    BY <2>1, <2>2
  <2>4. n + 1 \in Nat
    OBVIOUS
  <2>. HIDE DEF h, Upto
  <2>. QED  BY <2>3, <2>4
<1>3. Cardinality(ts) \in D
  <2>. HIDE DEF D
  <2>. QED  BY <1>0, <1>1, <1>2, NatSetInduction, FS_CardinalityType
<1>4. PICK g \in [SUBSET ts -> SmallPools] : \A s \in SUBSET ts : Cardinality(s) <= Cardinality(ts) => g[s] = AddBody(g, p, c, s)
  BY <1>3
<1>5. g = [s \in SUBSET ts |-> AddBody(g, p, c, s)]
  BY <1>0, <1>4, Smaller
<1>. QED  BY <1>5 DEF AreAdded

\* _handle_mempool_batch keeps the bound.
LEMMA AddedAllSmall ==
    ASSUME NEW ts \in Pools, NEW p \in SmallPools, NEW c
    PROVE  AddedAll(p, c, ts) \in SmallPools
<1>. DEFINE g == CHOOSE g : AreAdded(g, p, c, ts)
            D == {n \in Nat : \A s \in SUBSET ts : Cardinality(s) <= n => g[s] \in SmallPools}
<1>0. IsFiniteSet(ts)
  BY DEF Pools
<1>1. AreAdded(g, p, c, ts)
  BY AddedExist
<1>2. \A s \in SUBSET ts : g[s] = AddBody(g, p, c, s)
  <2>1. g = [s \in SUBSET ts |-> AddBody(g, p, c, s)]
    BY <1>1 DEF AreAdded
  <2>. HIDE DEF g
  <2>. QED  BY <2>1
<1>. HIDE DEF g
<1>3. 0 \in D
  BY <1>0, <1>2, Smaller DEF AddBody
<1>4. \A n \in Nat : n \in D => n + 1 \in D
  <2>. SUFFICES ASSUME NEW n \in Nat, n \in D, NEW s \in SUBSET ts, Cardinality(s) <= n + 1 PROVE g[s] \in SmallPools
    OBVIOUS
  <2>1. s # {} => g[s \ {CheapestOf(s)}] \in SmallPools
    <3>. SUFFICES ASSUME s # {} PROVE g[s \ {CheapestOf(s)}] \in SmallPools
      OBVIOUS
    <3>0. CheapestOf(s) \in s
      BY PoolSubset, CheapestOfIsIn
    <3>1. s \ {CheapestOf(s)} \in SUBSET ts /\ Cardinality(s \ {CheapestOf(s)}) <= n
      BY <1>0, <3>0, Smaller
    <3>. QED  BY <3>1
  <2>. QED  BY <2>1, <1>2, AddBodySmall
<1>5. Cardinality(ts) \in D
  <2>. HIDE DEF D
  <2>. QED  BY <1>0, <1>3, <1>4, NatSetInduction, FS_CardinalityType
<1>6. g[ts] \in SmallPools
  BY <1>5, <1>0, FS_CardinalityType
<1>. QED  BY <1>6, AddedAllDef DEF g

-----------------------------------------------------------------------------
(* Chains.  A block is identified by its hash, which its whole ancestry goes   *)
(* into: there is a set K of all the chains that were ever built, and a block  *)
(* ends one of them.  K is not a variable of the model; the invariant says     *)
(* that there is one.                                                          *)

Blocks == [id : Int, parent : Int, height : Nat, txs : Pools]

Linked(c) ==
    /\ c # <<>> /\ c[1] = Genesis
    /\ \A i \in DOMAIN c : i > 1 => c[i].height = i - 1 /\ c[i].parent = c[i - 1].id
    /\ \A i, j \in DOMAIN c : i # j => c[i].txs \cap c[j].txs = {}

Ancestries(K) ==
    /\ <<Genesis>> \in K
    /\ \A c \in K : c \in Seq(Blocks) /\ Linked(c)
    /\ \A c \in K : \A k \in 1..Len(c) : SubSeq(c, 1, k) \in K
    /\ \A c, d \in K : c[Len(c)].id = d[Len(d)].id => c = d

Heads(K) == {c[Len(c)] : c \in K}

LEMMA GenesisIsBlock == Genesis \in Blocks
<1>1. {} \in Pools
  BY FS_EmptySet DEF Pools
<1>. QED  BY <1>1 DEF Genesis, Blocks

LEMMA ChainFacts ==
    ASSUME NEW K, Ancestries(K), NEW c \in K
    PROVE  /\ c \in Seq(Blocks) /\ Len(c) \in Nat \ {0} /\ DOMAIN c = 1..Len(c)
           /\ c[1] = Genesis
           /\ \A i \in 1..Len(c) : c[i] \in Blocks /\ c[i].height = i - 1 /\ c[i] \in Heads(K)
           /\ Tip(c) = c[Len(c)]
<1>1. c \in Seq(Blocks) /\ c # <<>> /\ c[1] = Genesis
  BY DEF Ancestries, Linked
<1>2. Len(c) \in Nat \ {0} /\ DOMAIN c = 1..Len(c)
  BY <1>1
<1>3. ASSUME NEW i \in 1..Len(c) PROVE c[i] \in Blocks /\ c[i].height = i - 1 /\ c[i] \in Heads(K)
  <2>1. c[i] \in Blocks
    BY <1>1, <1>2
  <2>2. c[i].height = i - 1
    <3>1. CASE i = 1
      BY <1>1, <3>1 DEF Genesis
    <3>2. CASE i # 1
      <4>1. i \in DOMAIN c /\ i > 1
        BY <1>2, <3>2
      <4>. QED  BY <4>1 DEF Ancestries, Linked
    <3>. QED  BY <3>1, <3>2
  <2>3. c[i] \in Heads(K)
    <3>. DEFINE d == SubSeq(c, 1, i)
    <3>1. d \in K
      BY DEF Ancestries
    <3>2. Len(d) = i /\ d[i] = c[i]
      BY <1>1, <1>2
    <3>. HIDE DEF d
    <3>. QED  BY <3>1, <3>2 DEF Heads
  <2>. QED  BY <2>1, <2>2, <2>3
<1>. QED  BY <1>1, <1>2, <1>3 DEF Tip, Last

LEMMA HeadFacts ==
    ASSUME NEW K, Ancestries(K), NEW b \in Heads(K)
    PROVE  /\ b \in Blocks
           /\ \E d \in K : b = d[Len(d)] /\ b.height = Len(d) - 1 /\ Len(d) \in Nat \ {0}
           /\ b.height = 0 => b = Genesis
<1>1. PICK d \in K : b = d[Len(d)]
  BY DEF Heads
<1>2. /\ Len(d) \in Nat \ {0} /\ d[1] = Genesis
      /\ \A i \in 1..Len(d) : d[i] \in Blocks /\ d[i].height = i - 1
  BY ChainFacts
<1>3. b \in Blocks /\ b.height = Len(d) - 1
  BY <1>1, <1>2
<1>. QED  BY <1>1, <1>2, <1>3

LEMMA GenesisIsHead ==
    ASSUME NEW K, Ancestries(K)
    PROVE  Genesis \in Heads(K)
<1>1. <<Genesis>> \in K /\ Len(<<Genesis>>) = 1 /\ <<Genesis>>[1] = Genesis
  BY DEF Ancestries
<1>. QED  BY <1>1, ChainFacts

\* A block that extends the last block of a chain extends the chain it was mined on.
LEMMA ImportOk ==
    ASSUME NEW K, Ancestries(K), NEW c \in K, NEW b \in Heads(K), Importable(c, b)
    PROVE  Append(c, b) \in K
<1>1. PICK d \in K : b = d[Len(d)] /\ b.height = Len(d) - 1 /\ Len(d) \in Nat \ {0}
  BY HeadFacts
<1>2. c \in Seq(Blocks) /\ Len(c) \in Nat \ {0} /\ Tip(c) = c[Len(c)]
  BY ChainFacts
<1>3. b.height = Len(c) /\ b.parent = c[Len(c)].id
  BY <1>2 DEF Importable
<1>4. d \in Seq(Blocks) /\ Len(d) = Len(c) + 1 /\ DOMAIN d = 1..Len(d)
  BY <1>1, <1>2, <1>3, ChainFacts
<1>. DEFINE e == SubSeq(d, 1, Len(c))
<1>5. e \in K
  BY <1>2, <1>4 DEF Ancestries
<1>6. e \in Seq(Blocks) /\ Len(e) = Len(c) /\ \A i \in 1..Len(c) : e[i] = d[i]
  BY <1>2, <1>4
<1>7. d[Len(d)].parent = d[Len(d) - 1].id
  <2>1. Len(d) \in DOMAIN d /\ Len(d) > 1
    BY <1>2, <1>4
  <2>. QED  BY <2>1 DEF Ancestries, Linked
<1>8. e[Len(e)].id = c[Len(c)].id
  BY <1>1, <1>2, <1>3, <1>4, <1>6, <1>7
<1>9. e = c
  BY <1>5, <1>8 DEF Ancestries
<1>10. Append(c, b) = d
  <2>1. Append(c, b) \in Seq(Blocks) /\ Len(Append(c, b)) = Len(d)
    BY <1>1, <1>2, <1>4, HeadFacts
  <2>2. \A i \in 1..Len(d) : Append(c, b)[i] = d[i]
    BY <1>1, <1>2, <1>4, <1>6, <1>9
  <2>. QED  BY <1>4, <2>1, <2>2, SeqEqual
<1>. QED  BY <1>10

LEMMA CutOk ==
    ASSUME NEW K, Ancestries(K), NEW c \in K, NEW h \in Nat, h < Len(c)
    PROVE  CutTo(c, h) \in K
<1>1. h + 1 \in 1..Len(c)
  BY ChainFacts
<1>. QED  BY <1>1 DEF Ancestries, CutTo

LEMMA WithIdOk ==
    ASSUME NEW K, Ancestries(K), NEW c \in K, NEW id, Has(c, id)
    PROVE  WithId(c, id) \in Heads(K) /\ WithId(c, id).height \in 0..Len(c) - 1
<1>. DEFINE i == CHOOSE i \in DOMAIN c : c[i].id = id
<1>1. i \in DOMAIN c
  BY DEF Has
<1>2. WithId(c, id) = c[i]
  BY DEF WithId
<1>. HIDE DEF i
<1>. QED  BY <1>1, <1>2, ChainFacts

LEMMA AncestorOk ==
    ASSUME NEW K, Ancestries(K), NEW c \in K, NEW b \in Heads(K)
    PROVE  Ancestor(c, b) \in -1..Len(c) - 1
<1>1. Len(c) \in Nat \ {0}
  BY ChainFacts
<1>. QED  BY <1>1, WithIdOk DEF Ancestor

\* What a node hands out of its chain.
LEMMA BetweenOk ==
    ASSUME NEW K, Ancestries(K), NEW c \in K, NEW from \in Nat, NEW to \in Int
    PROVE  Between(c, from, to) \in Seq(Heads(K))
<1>. DEFINE m == Min({to + 1, Len(c)})
<1>1. c \in Seq(Blocks) /\ Len(c) \in Nat \ {0} /\ \A i \in 1..Len(c) : c[i] \in Heads(K)
  BY ChainFacts
<1>2. m \in Int /\ m <= Len(c)
  BY <1>1, MinOfTwo
<1>3. c \in Seq(Heads(K))
  BY <1>1
<1>. HIDE DEF m
<1>4. SubSeq(c, from + 1, m) \in Seq(Heads(K))
  BY <1>1, <1>2, <1>3
<1>. QED  BY <1>4 DEF Between, m

-----------------------------------------------------------------------------
(* A run of imports *)

LEMMA RunExists ==
    ASSUME NEW c, NEW S, NEW bs \in Seq(S)
    PROVE  /\ ImportRun(c, bs) \in 0..Len(bs)
           /\ \A i \in 1..ImportRun(c, bs) : Importable(c \o SubSeq(bs, 1, i - 1), bs[i])
<1>. DEFINE Fits(i) == Importable(c \o SubSeq(bs, 1, i - 1), bs[i])
            Ends(k) == k < Len(bs) => ~Importable(c \o SubSeq(bs, 1, k), bs[k + 1])
            T == {k \in 0..Len(bs) : Ends(k)}
<1>0. Len(bs) \in Nat
  OBVIOUS
<1>1. T \subseteq Nat /\ Len(bs) \in T
  BY <1>0
<1>2. PICK k \in T : \A y \in T : k <= y
  BY <1>1, LeastNat
<1>3. ASSUME NEW i \in 1..k PROVE Fits(i)
  <2>1. i - 1 \in 0..Len(bs) /\ i - 1 < k /\ i - 1 < Len(bs) /\ (i - 1) + 1 = i
    BY <1>0, <1>2
  <2>2. ~Ends(i - 1)
    BY <1>0, <1>2, <2>1
  <2>. QED  BY <2>1, <2>2
<1>4. k \in 0..Len(bs) /\ (\A i \in 1..k : Fits(i)) /\ Ends(k)
  BY <1>2, <1>3
<1>5. ImportRun(c, bs) = CHOOSE j \in 0..Len(bs) : (\A i \in 1..j : Fits(i)) /\ Ends(j)
  BY DEF ImportRun
<1>. HIDE DEF Fits, Ends
<1>6. ImportRun(c, bs) \in 0..Len(bs) /\ \A i \in 1..ImportRun(c, bs) : Fits(i)
  BY <1>4, <1>5
<1>. QED  BY <1>6 DEF Fits

LEMMA RunOk ==
    ASSUME NEW K, Ancestries(K), NEW c \in K, NEW bs \in Seq(Heads(K))
    PROVE  /\ ImportRun(c, bs) \in 0..Len(bs)
           /\ c \o SubSeq(bs, 1, ImportRun(c, bs)) \in K
           /\ SubSeq(bs, 1, ImportRun(c, bs)) \in Seq(Heads(K))
           /\ Len(SubSeq(bs, 1, ImportRun(c, bs))) = ImportRun(c, bs)
<1>. DEFINE k == ImportRun(c, bs)
            D == {i \in Nat : i <= k => c \o SubSeq(bs, 1, i) \in K}
<1>1. k \in 0..Len(bs) /\ \A i \in 1..k : Importable(c \o SubSeq(bs, 1, i - 1), bs[i])
  BY RunExists
<1>. HIDE DEF k
<1>2. c \in Seq(Blocks) /\ Len(bs) \in Nat /\ \A i \in 1..Len(bs) : bs[i] \in Heads(K)
  BY ChainFacts
<1>3. 0 \in D
  <2>1. SubSeq(bs, 1, 0) = <<>>
    OBVIOUS
  <2>2. c \o <<>> = c
    BY <1>2
  <2>. QED  BY <2>1, <2>2
<1>4. \A i \in Nat : i \in D => i + 1 \in D
  <2>. SUFFICES ASSUME NEW i \in Nat, i \in D, i + 1 <= k PROVE c \o SubSeq(bs, 1, i + 1) \in K
    OBVIOUS
  <2>1. i + 1 \in 1..Len(bs) /\ i + 1 \in 1..k /\ (i + 1) - 1 = i
    BY <1>1
  <2>2. c \o SubSeq(bs, 1, i) \in K
    BY <1>1
  <2>3. Importable(c \o SubSeq(bs, 1, i), bs[i + 1])
    BY <1>1, <2>1
  <2>4. Append(c \o SubSeq(bs, 1, i), bs[i + 1]) \in K
    BY <1>2, <2>1, <2>2, <2>3, ImportOk
  <2>5. SubSeq(bs, 1, i + 1) = Append(SubSeq(bs, 1, i), bs[i + 1])
    <3>. DEFINE l == SubSeq(bs, 1, i + 1)
                r == Append(SubSeq(bs, 1, i), bs[i + 1])
    <3>1. l \in Seq(Heads(K)) /\ r \in Seq(Heads(K)) /\ Len(l) = i + 1 /\ Len(r) = i + 1
      BY <1>2, <2>1
    <3>2. \A j \in 1..i + 1 : l[j] = r[j]
      BY <1>2, <2>1
    <3>. HIDE DEF l, r
    <3>3. l = r
      BY <3>1, <3>2, SeqEqual
    <3>. QED  BY <3>3 DEF l, r
  <2>6. c \o Append(SubSeq(bs, 1, i), bs[i + 1]) = Append(c \o SubSeq(bs, 1, i), bs[i + 1])
    <3>. DEFINE s == SubSeq(bs, 1, i)
    <3>1. s \in Seq(Heads(K)) /\ Heads(K) \subseteq Blocks /\ bs[i + 1] \in Heads(K)
      BY <1>2, <2>1, HeadFacts
    <3>2. s \in Seq(Blocks) /\ bs[i + 1] \in Blocks
      BY <3>1, SeqMonotonic
    <3>. HIDE DEF s
    <3>3. c \o s \in Seq(Blocks) /\ <<bs[i + 1]>> \in Seq(Blocks)
      BY <1>2, <3>2
    <3>4. Append(s, bs[i + 1]) = s \o <<bs[i + 1]>> /\ Append(c \o s, bs[i + 1]) = (c \o s) \o <<bs[i + 1]>>
      BY <3>2, <3>3, AppendIsConcat
    <3>5. c \o (s \o <<bs[i + 1]>>) = (c \o s) \o <<bs[i + 1]>>
      BY <1>2, <3>2, <3>3, ConcatAssociative
    <3>6. c \o Append(s, bs[i + 1]) = Append(c \o s, bs[i + 1])
      BY <3>4, <3>5
    <3>. QED  BY <3>6 DEF s
  <2>. QED  BY <2>4, <2>5, <2>6
<1>5. k \in D
  <2>. HIDE DEF D
  <2>. QED  BY <1>1, <1>3, <1>4, NatSetInduction
<1>6. c \o SubSeq(bs, 1, k) \in K
  BY <1>1, <1>5
<1>7. SubSeq(bs, 1, k) \in Seq(Heads(K)) /\ Len(SubSeq(bs, 1, k)) = k
  BY <1>1, <1>2
<1>. QED  BY <1>1, <1>6, <1>7 DEF k

-----------------------------------------------------------------------------
(* Messages about the blocks of B *)

Kinds == {"blocks", "block", "root_response", "mempool"}

Messages(B) ==
    [type : {"status"}, height : Int, head : Int]
    \cup [type : {"new_block"}, block : B]
    \cup [type : {"new_tx", "mempool"}, txs : Pools]
    \cup [type : {"blocks"}, blocks : Seq(B)]
    \cup [type : {"block"}, found : BOOLEAN, block : B]
    \cup [type : {"root_response"}, height : Int, root : Int]
    \cup [type : {"get_block"}, id : Int]
    \cup [type : {"root_request"}, height : Int]
    \cup [type : {"get_blocks"}, from : Nat, to : Int]
    \cup [type : {"get_mempool"}]

LEMMA MessageFacts ==
    ASSUME NEW B, NEW m \in Messages(B)
    PROVE  /\ m.type = "status" => m.height \in Int /\ m.head \in Int
           /\ m.type = "new_block" => m.block \in B
           /\ m.type \in {"new_tx", "mempool"} => m.txs \in Pools
           /\ m.type = "blocks" => m.blocks \in Seq(B)
           /\ m.type = "block" => m.found \in BOOLEAN /\ m.block \in B
           /\ m.type = "root_response" => m.height \in Int /\ m.root \in Int
           /\ m.type = "get_block" => m.id \in Int
           /\ m.type = "root_request" => m.height \in Int
           /\ m.type = "get_blocks" => m.from \in Nat /\ m.to \in Int
           /\ m.type # "none"
BY DEF Messages

LEMMA MessagesGrow ==
    ASSUME NEW A, NEW B, A \subseteq B
    PROVE  Seq(Messages(A)) \subseteq Seq(Messages(B))
<1>1. Seq(A) \subseteq Seq(B)
  BY SeqMonotonic
<1>2. ASSUME NEW m \in Messages(A) PROVE m \in Messages(B)
  BY <1>1 DEF Messages
<1>. QED  BY <1>2, SeqMonotonic

LEMMA StatusOk ==
    ASSUME NEW K, Ancestries(K), NEW c \in K
    PROVE  Status(c) \in Messages(Heads(K)) /\ Tip(c).id \in Int /\ Len(c) - 1 \in Nat /\ Tip(c) \in Blocks
<1>1. Tip(c) \in Blocks /\ Len(c) \in Nat \ {0}
  BY ChainFacts
<1>2. Tip(c).id \in Int
  BY <1>1 DEF Blocks
<1>. QED  BY <1>1, <1>2 DEF Status, Messages

LEMMA BroadcastOk ==
    ASSUME NEW B, B \subseteq Blocks, NEW b \in B
    PROVE  Broadcast(b) \in Seq(Messages(B))
<1>1. b.height \in Int /\ b.id \in Int
  BY DEF Blocks
<1>2. NewBlock(b) \in Messages(B)
  BY DEF NewBlock, Messages
<1>3. [type |-> "status", height |-> b.height, head |-> b.id] \in Messages(B)
  BY <1>1 DEF Messages
<1>. QED  BY <1>2, <1>3 DEF Broadcast

LEMMA FlattenOk ==
    ASSUME NEW S, NEW seqs \in Seq(Seq(S))
    PROVE  FlattenSeq(seqs) \in Seq(S)
<1>. DEFINE N == Len(seqs)
            Body(f, i) == IF i = 1 THEN seqs[i] ELSE f[i - 1] \o seqs[i]
            Is(f) == f = [i \in 1..N |-> Body(f, i)]
            flat == CHOOSE f : Is(f)
<1>0. N \in Nat /\ \A i \in 1..N : seqs[i] \in Seq(S)
  OBVIOUS
<1>. HIDE DEF N
<1>1. CASE N = 0
  <2>1. seqs = <<>>
    BY <1>1 DEF N
  <2>2. FlattenSeq(seqs) = <<>>
    BY <1>1, <2>1 DEF FlattenSeq, N
  <2>. QED  BY <2>2
<1>2. CASE N # 0
  <2>. DEFINE Upto(n) == {f \in [1..N -> Seq(S)] : \A i \in 1..N : i <= n => f[i] = Body(f, i)}
              D == {n \in Nat : Upto(n) # {}}
  <2>1. 0 \in D
    <3>. DEFINE z == [i \in 1..N |-> <<>>]
    <3>1. z \in [1..N -> Seq(S)]
      OBVIOUS
    <3>2. \A i \in 1..N : ~(i <= 0)
      BY <1>0
    <3>3. z \in Upto(0)
      BY <3>1, <3>2
    <3>. QED  BY <3>3
  <2>2. \A n \in Nat : n \in D => n + 1 \in D
    <3>. SUFFICES ASSUME NEW n \in Nat, NEW f \in Upto(n) PROVE n + 1 \in D
      OBVIOUS
    <3>. DEFINE h == [i \in 1..N |-> IF i <= n THEN f[i] ELSE Body(f, i)]
    <3>0. \A i \in 1..N : Body(f, i) \in Seq(S)
      <4>. TAKE i \in 1..N
      <4>1. seqs[i] \in Seq(S) /\ (i # 1 => f[i - 1] \in Seq(S))
        BY <1>0
      <4>2. i # 1 => f[i - 1] \o seqs[i] \in Seq(S)
        BY <4>1, ConcatProperties
      <4>. QED  BY <4>1, <4>2
    <3>1. h \in [1..N -> Seq(S)]
      BY <3>0
    <3>2. \A i \in 1..N : i <= n + 1 => h[i] = Body(h, i)
      <4>. TAKE i \in 1..N
      <4>. HAVE i <= n + 1
      <4>0. i # 1 => i - 1 \in 1..N /\ i - 1 <= n
        BY <1>0
      <4>1. i # 1 => h[i - 1] = f[i - 1]
        BY <4>0
      <4>2. Body(h, i) = Body(f, i)
        <5>. HIDE DEF h
        <5>. QED  BY <4>1
      <4>3. h[i] = Body(f, i)
        OBVIOUS
      <4>. QED  BY <4>2, <4>3
    <3>3. h \in Upto(n + 1)
      BY <3>1, <3>2
    <3>4. n + 1 \in Nat
      OBVIOUS
    <3>. HIDE DEF h, Upto
    <3>. QED  BY <3>3, <3>4
  <2>3. N \in D
    <3>. HIDE DEF D
    <3>. QED  BY <1>0, <2>1, <2>2, NatSetInduction
  <2>4. PICK f \in [1..N -> Seq(S)] : \A i \in 1..N : i <= N => f[i] = Body(f, i)
    BY <2>3
  <2>5. Is(f)
    <3>. HIDE DEF Body
    <3>1. \A i \in 1..N : i <= N
      BY <1>0
    <3>2. \A i \in 1..N : f[i] = Body(f, i)
      BY <2>4, <3>1
    <3>. QED  BY <2>4, <3>2
  <2>6. Is(flat)
    <3>. HIDE DEF Is
    <3>. QED  BY <2>5
  <2>. DEFINE E == {n \in Nat : n + 1 <= N => flat[n + 1] \in Seq(S)}
  <2>7. \A i \in 1..N : flat[i] = Body(flat, i)
    <3>1. flat = [i \in 1..N |-> Body(flat, i)]
      BY <2>6
    <3>. HIDE DEF flat, Body
    <3>. QED  BY <3>1
  <2>. HIDE DEF flat
  <2>8. 0 \in E
    BY <1>0, <2>7
  <2>9. \A n \in Nat : n \in E => n + 1 \in E
    <3>. SUFFICES ASSUME NEW n \in Nat, n \in E, n + 2 <= N PROVE flat[n + 2] \in Seq(S)
      OBVIOUS
    <3>1. flat[n + 1] \in Seq(S) /\ n + 2 \in 1..N /\ n + 2 # 1 /\ (n + 2) - 1 = n + 1
      BY <1>0
    <3>2. flat[n + 2] = flat[n + 1] \o seqs[n + 2]
      BY <2>7, <3>1
    <3>3. seqs[n + 2] \in Seq(S)
      BY <1>0, <3>1
    <3>. QED  BY <3>1, <3>2, <3>3, ConcatProperties
  <2>10. N - 1 \in E
    <3>1. N - 1 \in Nat
      BY <1>0, <1>2
    <3>. HIDE DEF E
    <3>. QED  BY <2>8, <2>9, <3>1, NatSetInduction
  <2>11. flat[N] \in Seq(S)
    BY <1>0, <1>2, <2>10
  <2>12. FlattenSeq(seqs) = flat[N]
    BY <1>2 DEF FlattenSeq, flat, N
  <2>. QED  BY <2>11, <2>12
<1>. QED  BY <1>1, <1>2

LEMMA BroadcastsOk ==
    ASSUME NEW B, B \subseteq Blocks, NEW bs \in Seq(B)
    PROVE  Broadcasts(bs) \in Seq(Messages(B))
<1>. DEFINE seqs == [i \in DOMAIN bs |-> Broadcast(bs[i])]
<1>1. DOMAIN bs = 1..Len(bs) /\ Len(bs) \in Nat /\ \A i \in 1..Len(bs) : bs[i] \in B
  OBVIOUS
<1>2. \A i \in 1..Len(bs) : Broadcast(bs[i]) \in Seq(Messages(B))
  BY <1>1, BroadcastOk
<1>3. seqs \in Seq(Seq(Messages(B)))
  BY <1>1, <1>2, IsASeq
<1>. HIDE DEF seqs
<1>4. FlattenSeq(seqs) \in Seq(Messages(B))
  BY <1>3, FlattenOk
<1>. QED  BY <1>4 DEF Broadcasts, seqs

-----------------------------------------------------------------------------
(* The invariant *)

Peers == [Nodes -> [height : Int, head : Int]]
Waiters == [Nodes -> [task : Tasks \cup {"none"}, type : Kinds \cup {"none"}]]
TaskState == [at : Kinds \cup {"idle", "start", "joined"}, from : Int]
TaskStates == [Nodes -> [Tasks -> TaskState]]
Control == waiter \in Waiters /\ task \in TaskStates
Wires(K) == [Nodes -> Seq(Messages(Heads(K)))]
Downloads(K) == [Nodes -> [stop : Nat, blocks : Seq(Heads(K))]]

\* The chains are among K, and so is all that is on its way to become one.
Fits(K) ==
    /\ chain \in [Nodes -> K] /\ wire \in Wires(K) /\ fetched \in Downloads(K)
    /\ pool \in [Nodes -> SmallPools] /\ peer \in Peers /\ Control
    /\ mined \in Nat /\ \A c \in K : c[Len(c)].id <= mined

NetworkInv == \E K : Ancestries(K) /\ Fits(K)

-----------------------------------------------------------------------------
(* Questions and the ends of waits *)

LEMMA AsksOk ==
    ASSUME Control, NEW n \in Nodes, NEW t \in Tasks \cup {"none"}, NEW type \in Kinds, NEW from \in Int,
           Asks(n, t, type, from)
    PROVE  Control'
<1>1. waiter' \in Waiters
  BY DEF Asks, Control, Waiters
<1>2. task' \in TaskStates
  BY DEF Asks, Control, TaskStates, TaskState
<1>. QED  BY <1>1, <1>2 DEF Control

LEMMA RestingOk == Resting \in TaskState /\ \A a \in {"start", "joined"} : [at |-> a, from |-> 0] \in TaskState
BY DEF Resting, TaskState

LEMMA StopsOk ==
    ASSUME Control, NEW n \in Nodes, NEW t \in Tasks \cup {"none"}, Stops(n, t)
    PROVE  Control'
<1>1. waiter' \in Waiters
  BY DEF Stops, Control, Waiters, NoWaiter
<1>2. task' \in TaskStates
  BY RestingOk DEF Stops, Control, TaskStates
<1>. QED  BY <1>1, <1>2 DEF Control

LEMMA SpawnedOk ==
    ASSUME Control, NEW n \in Nodes
    PROVE  Spawned(n) \in TaskStates
BY RestingOk DEF Spawned, Control, TaskStates

LEMMA SentOk ==
    ASSUME NEW M, NEW w \in [Nodes -> Seq(M)], NEW n \in Nodes, NEW out \in Seq(M)
    PROVE  Sent(w, n, out) \in [Nodes -> Seq(M)]
<1>1. w[n] \o out \in Seq(M)
  BY ConcatProperties
<1>. QED  BY <1>1 DEF Sent

LEMMA TakenOk ==
    ASSUME NEW M, wire \in [Nodes -> Seq(M)], NEW n \in Nodes, wire[Peer(n)] # <<>>
    PROVE  Taken(n) \in [Nodes -> Seq(M)] /\ Message(n) \in M
<1>1. Peer(n) \in Nodes
  BY PeerIsNode
<1>2. Tail(wire[Peer(n)]) \in Seq(M) /\ Head(wire[Peer(n)]) \in M
  BY <1>1, HeadTailProperties
<1>. QED  BY <1>1, <1>2 DEF Taken, Message

LEMMA AsksRootOk ==
    ASSUME NEW K, Ancestries(K), chain' \in [Nodes -> K], Control, NEW n \in Nodes, NEW t \in Tasks \cup {"none"},
           NEW w \in Wires(K), NEW echo \in Seq(Messages(Heads(K))), AsksRoot(n, t, w, echo)
    PROVE  Control' /\ wire' \in Wires(K)
<1>. DEFINE M == Messages(Heads(K))
<1>1. chain'[n] \in K
  OBVIOUS
<1>2. Tip(chain'[n]).id \in Int /\ Len(chain'[n]) - 1 \in Nat
  BY <1>1, StatusOk
<1>3. Control'
  BY <1>2, AsksOk DEF AsksRoot, Kinds
<1>4. GetRoot(n) \in M
  BY <1>2 DEF GetRoot, Messages
<1>. HIDE DEF M
<1>5. <<GetRoot(n)>> \o echo \in Seq(M)
  <2>1. <<GetRoot(n)>> \in Seq(M) /\ echo \in Seq(M)
    BY <1>4 DEF M
  <2>. QED  BY <2>1, ConcatProperties
<1>6. Sent(w, n, <<GetRoot(n)>> \o echo) \in [Nodes -> Seq(M)]
  BY <1>5, SentOk DEF Wires, M
<1>. QED  BY <1>3, <1>6 DEF AsksRoot, Wires, M

LEMMA EchoOk ==
    ASSUME NEW K, NEW n \in Nodes, NEW w \in Wires(K), NEW echo \in Seq(Messages(Heads(K))), NEW m \in Messages(Heads(K))
    PROVE  Sent(w, n, <<m>> \o echo) \in Wires(K) /\ Sent(w, n, echo) \in Wires(K) /\ Sent(w, n, <<m>>) \in Wires(K)
<1>. DEFINE M == Messages(Heads(K))
<1>. HIDE DEF M
<1>1. <<m>> \in Seq(M) /\ echo \in Seq(M) /\ w \in [Nodes -> Seq(M)]
  BY DEF M, Wires
<1>2. <<m>> \o echo \in Seq(M)
  BY <1>1, ConcatProperties
<1>3. /\ Sent(w, n, <<m>> \o echo) \in [Nodes -> Seq(M)] /\ Sent(w, n, echo) \in [Nodes -> Seq(M)]
      /\ Sent(w, n, <<m>>) \in [Nodes -> Seq(M)]
  BY <1>1, <1>2, SentOk
<1>. QED  BY <1>3 DEF Wires, M

LEMMA AsksPoolOk ==
    ASSUME NEW K, Ancestries(K), chain' \in [Nodes -> K], Control, NEW n \in Nodes, NEW t \in Tasks \cup {"none"},
           NEW w \in Wires(K), NEW echo \in Seq(Messages(Heads(K))), AsksPool(n, t, w, echo)
    PROVE  Control' /\ wire' \in Wires(K)
<1>1. GetPool \in Messages(Heads(K))
  BY DEF GetPool, Messages
<1>2. CASE Asks(n, t, "mempool", 0) /\ wire' = Sent(w, n, <<GetPool>> \o echo)
  <2>1. Control'
    BY <1>2, AsksOk DEF Kinds
  <2>. QED  BY <1>1, <1>2, <2>1, EchoOk
<1>3. CASE Stops(n, t) /\ wire' = Sent(w, n, echo)
  <2>1. Control'
    BY <1>3, StopsOk
  <2>. QED  BY <1>1, <1>3, <2>1, EchoOk
<1>4. CASE AsksRoot(n, t, w, echo)
  BY <1>4, AsksRootOk
<1>. QED  BY <1>2, <1>3, <1>4 DEF AsksPool

LEMMA AsksBlocksOk ==
    ASSUME NEW K, Control, peer' \in Peers, NEW n \in Nodes, NEW current \in Nat,
           NEW w \in Wires(K), NEW echo \in Seq(Messages(Heads(K))), AsksBlocks(n, current, w, echo)
    PROVE  Control' /\ wire' \in Wires(K)
<1>. DEFINE to == IF current + BatchSize - 1 < peer'[n].height THEN current + BatchSize - 1 ELSE peer'[n].height
<1>1. to \in Int
  BY NetworkAssumption DEF Peers
<1>2. Asks(n, "sync", "blocks", current) /\ wire' = Sent(w, n, <<GetBlocks(current, to)>> \o echo)
  BY DEF AsksBlocks
<1>. HIDE DEF to
<1>3. GetBlocks(current, to) \in Messages(Heads(K))
  BY <1>1 DEF GetBlocks, Messages
<1>4. Control'
  BY <1>2, AsksOk DEF Kinds, Tasks
<1>. QED  BY <1>2, <1>3, <1>4, EchoOk

LEMMA AsksHeadOk ==
    ASSUME NEW K, Control, peer' \in Peers, NEW n \in Nodes, NEW t \in Tasks \cup {"none"},
           NEW w \in Wires(K), NEW echo \in Seq(Messages(Heads(K))), AsksHead(n, t, w, echo)
    PROVE  Control' /\ wire' \in Wires(K)
<1>1. GetHead(peer'[n].head) \in Messages(Heads(K))
  BY DEF GetHead, Messages, Peers
<1>2. Control'
  BY AsksOk DEF AsksHead, Kinds
<1>. QED  BY <1>1, <1>2, EchoOk DEF AsksHead

-----------------------------------------------------------------------------
(* The steps that import no new block *)

LEMMA EmptyEcho == \A M : <<>> \in Seq(M)
OBVIOUS

LEMMA FitsAfter ==
    ASSUME NEW K, Fits(K), chain' \in [Nodes -> K], wire' \in Wires(K), fetched' \in Downloads(K),
           pool' \in [Nodes -> SmallPools], peer' \in Peers, Control', mined' = mined
    PROVE  Fits(K)'
BY DEF Fits, Wires, Downloads, Peers

LEMMA SyncStartsFits ==
    ASSUME NEW K, Ancestries(K), Fits(K), NEW n \in Nodes, SyncStarts(n)
    PROVE  Fits(K)'
<1>1. /\ chain' = chain /\ pool' = pool /\ peer' = peer /\ mined' = mined /\ fetched' = fetched
      /\ chain' \in [Nodes -> K] /\ peer' \in Peers /\ Control /\ wire \in Wires(K)
  BY DEF SyncStarts, Fits, bounds
<1>2. chain[n] \in K /\ Len(chain[n]) - 1 \in Nat
  BY <1>1, StatusOk
<1>3. "sync" \in Tasks \cup {"none"} /\ <<>> \in Seq(Messages(Heads(K)))
  BY EmptyEcho DEF Tasks
<1>4. Control' /\ wire' \in Wires(K)
  <2>1. CASE task' = [task EXCEPT ![n]["sync"] = Resting] /\ UNCHANGED <<wire, waiter>>
    <3>1. task' \in TaskStates
      BY <1>1, <2>1, RestingOk DEF Control, TaskStates
    <3>. QED  BY <1>1, <2>1, <3>1 DEF Control
  <2>2. CASE AsksHead(n, "sync", wire, <<>>)
    BY <1>1, <1>3, <2>2, AsksHeadOk
  <2>3. CASE AsksRoot(n, "sync", wire, <<>>)
    BY <1>1, <1>3, <2>3, AsksRootOk
  <2>4. CASE AsksBlocks(n, FirstHeight(Height(n)), wire, <<>>)
    <3>1. FirstHeight(Height(n)) \in Nat
      BY <1>2 DEF FirstHeight, Height
    <3>. QED  BY <1>1, <1>3, <2>4, <3>1, AsksBlocksOk
  <2>. QED  BY <2>1, <2>2, <2>3, <2>4 DEF SyncStarts
<1>. QED  BY <1>1, <1>4, FitsAfter DEF Fits

LEMMA RestStartsFits ==
    ASSUME NEW K, Ancestries(K), Fits(K), NEW n \in Nodes, RestStarts(n)
    PROVE  Fits(K)'
<1>1. /\ chain' = chain /\ pool' = pool /\ peer' = peer /\ mined' = mined /\ fetched' = fetched
      /\ chain' \in [Nodes -> K] /\ peer' \in Peers /\ Control /\ wire \in Wires(K)
  BY DEF RestStarts, Fits
<1>3. "rest" \in Tasks \cup {"none"} /\ <<>> \in Seq(Messages(Heads(K)))
  BY EmptyEcho DEF Tasks
<1>4. Control' /\ wire' \in Wires(K)
  <2>1. CASE task' = [Spawned(n) EXCEPT ![n]["rest"] = [at |-> "joined", from |-> 0]] /\ UNCHANGED <<wire, waiter>>
    <3>1. Spawned(n) \in TaskStates
      BY <1>1, SpawnedOk
    <3>2. task' \in TaskStates
      BY <2>1, <3>1, RestingOk DEF TaskStates
    <3>. QED  BY <1>1, <2>1, <3>2 DEF Control
  <2>2. CASE AsksHead(n, "rest", wire, <<>>)
    BY <1>1, <1>3, <2>2, AsksHeadOk
  <2>3. CASE AsksPool(n, "rest", wire, <<>>)
    BY <1>1, <1>3, <2>3, AsksPoolOk
  <2>. QED  BY <2>1, <2>2, <2>3 DEF RestStarts
<1>. QED  BY <1>1, <1>4, FitsAfter DEF Fits

LEMMA RestGoesOnFits ==
    ASSUME NEW K, Ancestries(K), Fits(K), NEW n \in Nodes, RestGoesOn(n)
    PROVE  Fits(K)'
<1>1. /\ chain' = chain /\ pool' = pool /\ peer' = peer /\ mined' = mined /\ fetched' = fetched
      /\ chain' \in [Nodes -> K] /\ peer' \in Peers /\ Control /\ wire \in Wires(K)
      /\ AsksPool(n, "rest", wire, <<>>)
  BY DEF RestGoesOn, Fits, bounds
<1>3. "rest" \in Tasks \cup {"none"} /\ <<>> \in Seq(Messages(Heads(K)))
  BY EmptyEcho DEF Tasks
<1>4. Control' /\ wire' \in Wires(K)
  BY <1>1, <1>3, AsksPoolOk
<1>. QED  BY <1>1, <1>4, FitsAfter DEF Fits

LEMMA CatchUpSyncFits ==
    ASSUME NEW K, Ancestries(K), Fits(K), NEW n \in Nodes, CatchUpSync(n)
    PROVE  Fits(K)'
<1>1. /\ chain' = chain /\ pool' = pool /\ peer' = peer /\ mined' = mined /\ fetched' = fetched
      /\ wire' = wire /\ waiter' = waiter /\ task' = Spawned(n) /\ Control
  BY DEF CatchUpSync, Fits
<1>2. Control'
  BY <1>1, SpawnedOk DEF Control
<1>. QED  BY <1>1, <1>2, FitsAfter DEF Fits

LEMMA CatchUpTickFits ==
    ASSUME NEW K, Ancestries(K), Fits(K), NEW n \in Nodes, CatchUpTick(n)
    PROVE  Fits(K)'
<1>1. /\ chain' = chain /\ pool' = pool /\ peer' = peer /\ mined' = mined /\ fetched' = fetched
      /\ wire' = Sent(wire, n, <<Status(chain[n])>>) /\ waiter' = waiter /\ task' \in {Spawned(n), task}
      /\ Control /\ wire \in Wires(K) /\ chain \in [Nodes -> K]
  BY DEF CatchUpTick, Fits, bounds
<1>2. Control'
  BY <1>1, SpawnedOk DEF Control
<1>3. Status(chain[n]) \in Messages(Heads(K))
  BY <1>1, StatusOk
<1>4. wire' \in Wires(K)
  BY <1>1, <1>3, EmptyEcho, EchoOk
<1>. QED  BY <1>1, <1>2, <1>4, FitsAfter DEF Fits

LEMMA FastStartsFits ==
    ASSUME NEW K, Ancestries(K), Fits(K), NEW n \in Nodes, FastStarts(n)
    PROVE  Fits(K)'
<1>1. /\ chain' = chain /\ pool' = pool /\ peer' = peer /\ mined' = mined
      /\ chain' \in [Nodes -> K] /\ peer \in Peers /\ Control /\ wire \in Wires(K) /\ fetched \in Downloads(K)
  BY DEF FastStarts, Fits
<1>2. "fast" \in Tasks \cup {"none"} /\ <<>> \in Seq(Messages(Heads(K)))
  BY EmptyEcho DEF Tasks
<1>3. Control' /\ wire' \in Wires(K) /\ fetched' \in Downloads(K)
  <2>1. CASE AsksRoot(n, "fast", wire, <<>>) /\ UNCHANGED fetched
    BY <1>1, <1>2, <2>1, AsksRootOk
  <2>2. CASE /\ Asks(n, "fast", "block", BestHead(n)) /\ wire' = Sent(wire, n, <<GetHead(BestHead(n))>>)
             /\ fetched' = [fetched EXCEPT ![n] = [stop |-> Height(n), blocks |-> <<>>]]
    <3>1. BestHead(n) \in Int
      BY <1>1 DEF BestHead, Peers
    <3>2. GetHead(BestHead(n)) \in Messages(Heads(K))
      BY <3>1 DEF GetHead, Messages
    <3>3. Control'
      BY <1>1, <1>2, <2>2, <3>1, AsksOk DEF Kinds
    <3>4. Height(n) \in Nat
      BY <1>1, StatusOk DEF Height
    <3>5. [stop |-> Height(n), blocks |-> <<>>] \in [stop : Nat, blocks : Seq(Heads(K))]
      BY <3>4, EmptyEcho
    <3>6. fetched' \in Downloads(K)
      BY <1>1, <2>2, <3>5 DEF Downloads
    <3>. QED  BY <1>1, <1>2, <2>2, <3>2, <3>3, <3>6, EchoOk
  <2>. QED  BY <2>1, <2>2 DEF FastStarts
<1>. QED  BY <1>1, <1>3, FitsAfter DEF Fits

LEMMA SubmitTxFits ==
    ASSUME NEW K, Ancestries(K), Fits(K), NEW n \in Nodes, NEW t \in Txs, SubmitTx(n, t)
    PROVE  Fits(K)'
<1>1. /\ chain' = chain /\ peer' = peer /\ mined' = mined /\ fetched' = fetched /\ waiter' = waiter /\ task' = task
      /\ pool' = [pool EXCEPT ![n] = Added(@, chain[n], t)] /\ wire' = Sent(wire, n, <<NewTx(t)>>)
      /\ Control /\ wire \in Wires(K) /\ pool \in [Nodes -> SmallPools]
  BY DEF SubmitTx, Fits
<1>2. Added(pool[n], chain[n], t) \in SmallPools
  BY <1>1, AddedSmall
<1>3. {t} \in Pools
  BY FS_Singleton DEF Pools
<1>4. NewTx(t) \in Messages(Heads(K))
  BY <1>3 DEF NewTx, Messages
<1>5. wire' \in Wires(K)
  BY <1>1, <1>4, EmptyEcho, EchoOk
<1>6. pool' \in [Nodes -> SmallPools]
  BY <1>1, <1>2
<1>7. Control'
  BY <1>1 DEF Control
<1>. QED  BY <1>1, <1>5, <1>6, <1>7, FitsAfter DEF Fits

LEMMA ConnectFits ==
    ASSUME NEW K, Ancestries(K), Fits(K), Connect
    PROVE  Fits(K)'
<1>1. /\ chain' = chain /\ pool' = pool /\ mined' = mined /\ fetched' = fetched /\ waiter' = waiter
      /\ peer' = [n \in Nodes |-> [height |-> Height(Peer(n)), head |-> Tip(chain[Peer(n)]).id]]
      /\ wire' = [n \in Nodes |-> <<Status(chain[n])>>]
      /\ task' = [n \in Nodes |-> [task[n] EXCEPT !["sync"] = [at |-> "start", from |-> 0]]]
      /\ Control /\ chain \in [Nodes -> K]
  BY DEF Connect, Fits, bounds
<1>2. \A n \in Nodes : Height(n) \in Int /\ Tip(chain[n]).id \in Int /\ Status(chain[n]) \in Messages(Heads(K))
  BY <1>1, StatusOk DEF Height
<1>3. peer' \in Peers
  BY <1>1, <1>2, PeerIsNode DEF Peers
<1>4. wire' \in Wires(K)
  <2>1. \A n \in Nodes : <<Status(chain[n])>> \in Seq(Messages(Heads(K)))
    BY <1>2
  <2>. QED  BY <1>1, <2>1 DEF Wires
<1>5. Control'
  BY <1>1, RestingOk DEF Control, TaskStates
<1>. QED  BY <1>1, <1>3, <1>4, <1>5, FitsAfter DEF Fits

LEMMA DisconnectFits ==
    ASSUME NEW K, Ancestries(K), Fits(K), Disconnect
    PROVE  Fits(K)'
<1>1. /\ chain' = chain /\ pool' = pool /\ peer' = peer /\ mined' = mined /\ fetched' = fetched
      /\ waiter' = waiter /\ task' = task /\ wire' = [n \in Nodes |-> <<>>] /\ Control
  BY DEF Disconnect, Fits
<1>2. Control' /\ wire' \in Wires(K)
  BY <1>1, EmptyEcho DEF Control, Wires
<1>. QED  BY <1>1, <1>2, FitsAfter DEF Fits

-----------------------------------------------------------------------------
(* The steps that import blocks of a peer *)

LEMMA ChainAfter ==
    ASSUME NEW K, chain \in [Nodes -> K], NEW n \in Nodes, NEW c \in K, chain' = [chain EXCEPT ![n] = c]
    PROVE  chain' \in [Nodes -> K]
OBVIOUS

LEMMA HeadsAreBlocks ==
    ASSUME NEW K, Ancestries(K)
    PROVE  Heads(K) \subseteq Blocks
BY HeadFacts

LEMMA GotBlocksFits ==
    ASSUME NEW K, Ancestries(K), Fits(K), NEW n \in Nodes, NEW bs \in Seq(Heads(K)), NEW w \in Wires(K),
           GotBlocks(n, bs, w)
    PROVE  Fits(K)'
<1>. DEFINE c == chain[n]
            k == ImportRun(c, bs)
            imported == SubSeq(bs, 1, k)
            longer == c \o imported
            a == IF k < Len(bs) THEN Ancestor(longer, bs[k + 1]) ELSE -1
            cuts == a # -1 /\ a < Len(longer) - 1
            result == IF cuts THEN CutTo(longer, a) ELSE longer
            current == IF cuts THEN a + 1
                       ELSE IF k > 0 THEN Last(imported).height + 1
                       ELSE task[n]["sync"].from
            known == IF k > 0 /\ Len(result) - 1 > peer[n].height THEN Len(result) - 1 ELSE peer[n].height
<1>1. c \in K /\ chain \in [Nodes -> K] /\ Control /\ peer \in Peers /\ Len(bs) \in Nat
  BY DEF Fits
<1>2. k \in 0..Len(bs) /\ longer \in K /\ imported \in Seq(Heads(K)) /\ Len(imported) = k
  BY <1>1, RunOk
<1>3. /\ chain' = [chain EXCEPT ![n] = result]
      /\ peer' = [peer EXCEPT ![n].height = known]
      /\ IF k > 0 /\ current <= known
         THEN AsksBlocks(n, current, w, Broadcasts(imported))
         ELSE AsksRoot(n, "sync", w, Broadcasts(imported))
      /\ pool' = pool /\ mined' = mined /\ fetched' = fetched
  BY DEF GotBlocks, bounds
<1>. HIDE DEF c, k, imported, longer
<1>4. a \in -1..Len(longer) - 1
  <2>0. Len(longer) \in Nat \ {0}
    BY <1>2, ChainFacts
  <2>1. CASE k < Len(bs)
    <3>1. bs[k + 1] \in Heads(K)
      BY <1>1, <1>2, <2>1
    <3>. QED  BY <1>2, <2>1, <3>1, AncestorOk
  <2>2. CASE ~(k < Len(bs))
    BY <2>0, <2>2
  <2>. QED  BY <2>1, <2>2
<1>. HIDE DEF a
<1>5. result \in K
  <2>1. cuts => a \in Nat /\ a < Len(longer)
    BY <1>2, <1>4, ChainFacts
  <2>. QED  BY <1>2, <2>1, CutOk
<1>. HIDE DEF result
<1>6. chain' \in [Nodes -> K]
  BY <1>1, <1>3, <1>5, ChainAfter
<1>7. known \in Int
  <2>1. Len(result) \in Nat
    BY <1>5, ChainFacts
  <2>. QED  BY <1>1, <2>1 DEF Peers
<1>. HIDE DEF known
<1>8. peer' \in Peers
  BY <1>1, <1>3, <1>7 DEF Peers
<1>9. Broadcasts(imported) \in Seq(Messages(Heads(K)))
  BY <1>2, HeadsAreBlocks, BroadcastsOk
<1>10. Control' /\ wire' \in Wires(K)
  <2>1. CASE k > 0 /\ current <= known
    <3>1. current \in Nat
      <4>1. CASE cuts
        BY <1>4, <4>1
      <4>2. CASE ~cuts
        <5>1. Last(imported) \in Heads(K)
          BY <1>2, <2>1 DEF Last
        <5>2. Last(imported).height \in Nat
          BY <5>1, HeadsAreBlocks DEF Blocks
        <5>3. current = Last(imported).height + 1
          BY <2>1, <4>2
        <5>. QED  BY <5>2, <5>3
      <4>. QED  BY <4>1, <4>2
    <3>. HIDE DEF current
    <3>. QED  BY <1>1, <1>3, <1>8, <1>9, <2>1, <3>1, AsksBlocksOk
  <2>2. CASE ~(k > 0 /\ current <= known)
    <3>1. AsksRoot(n, "sync", w, Broadcasts(imported))
      BY <1>3, <2>2
    <3>. QED  BY <1>1, <1>6, <1>9, <3>1, AsksRootOk DEF Tasks
  <2>. QED  BY <2>1, <2>2
<1>. QED  BY <1>3, <1>6, <1>8, <1>10, FitsAfter DEF Fits

LEMMA FastImportsFits ==
    ASSUME NEW K, Ancestries(K), Fits(K), NEW n \in Nodes, NEW blocks \in Seq(Heads(K)), NEW w \in Wires(K),
           FastImports(n, blocks, w)
    PROVE  chain' \in [Nodes -> K] /\ Control' /\ wire' \in Wires(K) /\ fetched' \in Downloads(K)
<1>. DEFINE c == chain[n]
            stop == fetched[n].stop
            linked == /\ blocks # <<>>
                      /\ \A i \in DOMAIN blocks :
                            /\ blocks[i].height = stop + i
                            /\ i > 1 => blocks[i].parent = blocks[i - 1].id
                      /\ Len(c) > stop => Head(blocks).parent = c[stop + 1].id
            k == IF linked THEN ImportRun(c, blocks) ELSE 0
            imported == SubSeq(blocks, 1, k)
<1>1. c \in K /\ chain \in [Nodes -> K] /\ Control /\ fetched \in Downloads(K)
  BY DEF Fits
<1>2. /\ chain' = [chain EXCEPT ![n] = c \o imported]
      /\ fetched' = [fetched EXCEPT ![n] = NothingFetched]
      /\ \/ AsksRoot(n, "fast", w, Broadcasts(imported))
         \/ Stops(n, "fast") /\ wire' = Sent(w, n, Broadcasts(imported))
  BY DEF FastImports
<1>. HIDE DEF linked
<1>3. c \o imported \in K /\ imported \in Seq(Heads(K))
  <2>1. CASE linked
    BY <1>1, <2>1, RunOk
  <2>2. CASE ~linked
    <3>1. imported = <<>>
      BY <2>2
    <3>2. c \in Seq(Blocks)
      BY <1>1, ChainFacts
    <3>3. c \o <<>> = c
      BY <3>2, ConcatEmptySeq
    <3>. HIDE DEF c, imported
    <3>. QED  BY <1>1, <3>1, <3>3, EmptyEcho
  <2>. QED  BY <2>1, <2>2
<1>. HIDE DEF c, imported
<1>4. chain' \in [Nodes -> K]
  BY <1>1, <1>2, <1>3, ChainAfter
<1>5. Broadcasts(imported) \in Seq(Messages(Heads(K)))
  BY <1>3, HeadsAreBlocks, BroadcastsOk
<1>6. NothingFetched \in [stop : Nat, blocks : Seq(Heads(K))]
  BY EmptyEcho DEF NothingFetched
<1>7. fetched' \in Downloads(K)
  BY <1>1, <1>2, <1>6 DEF Downloads
<1>8. "fast" \in Tasks \cup {"none"} /\ GetPool \in Messages(Heads(K))
  BY DEF Tasks, GetPool, Messages
<1>9. Control' /\ wire' \in Wires(K)
  <2>1. CASE AsksRoot(n, "fast", w, Broadcasts(imported))
    BY <1>1, <1>4, <1>5, <1>8, <2>1, AsksRootOk
  <2>2. CASE Stops(n, "fast") /\ wire' = Sent(w, n, Broadcasts(imported))
    <3>1. Control'
      BY <1>1, <1>8, <2>2, StopsOk
    <3>. QED  BY <1>5, <1>8, <2>2, <3>1, EchoOk
  <2>. QED  BY <1>2, <2>1, <2>2
<1>. QED  BY <1>4, <1>7, <1>9

LEMMA FastGotFits ==
    ASSUME NEW K, Ancestries(K), Fits(K), NEW n \in Nodes, NEW found, NEW b \in Heads(K), NEW w \in Wires(K),
           FastGot(n, found, b, w)
    PROVE  Fits(K)'
<1>1. /\ chain \in [Nodes -> K] /\ Control /\ fetched \in Downloads(K) /\ fetched[n].blocks \in Seq(Heads(K))
      /\ fetched[n].stop \in Nat
      /\ pool' = pool /\ peer' = peer /\ mined' = mined
  BY DEF Fits, FastGot, Downloads
<1>2. chain' \in [Nodes -> K] /\ Control' /\ wire' \in Wires(K) /\ fetched' \in Downloads(K)
  <2>1. CASE FastImports(n, fetched[n].blocks, w)
    BY <1>1, <2>1, FastImportsFits
  <2>2. CASE FastDownloads(n, b.parent, <<b>> \o fetched[n].blocks, w)
    <3>. DEFINE bs == <<b>> \o fetched[n].blocks
    <3>1. bs \in Seq(Heads(K))
      <4>1. <<b>> \in Seq(Heads(K))
        OBVIOUS
      <4>. QED  BY <1>1, <4>1, ConcatProperties
    <3>2. FastDownloads(n, b.parent, bs, w)
      BY <2>2
    <3>. HIDE DEF bs
    <3>3. CASE /\ Has(chain[n], b.parent)
               /\ FastImports(n, Between(chain[n], fetched[n].stop + 1, WithId(chain[n], b.parent).height) \o bs, w)
      <4>. DEFINE own == Between(chain[n], fetched[n].stop + 1, WithId(chain[n], b.parent).height)
      <4>1. WithId(chain[n], b.parent).height \in Int
        <5>1. Len(chain[n]) \in Nat
          BY <1>1, ChainFacts
        <5>. QED  BY <1>1, <3>3, <5>1, WithIdOk
      <4>2. own \in Seq(Heads(K))
        <5>1. fetched[n].stop + 1 \in Nat /\ chain[n] \in K
          BY <1>1
        <5>. QED  BY <4>1, <5>1, BetweenOk
      <4>3. FastImports(n, own \o bs, w)
        BY <3>3
      <4>. HIDE DEF own
      <4>4. own \o bs \in Seq(Heads(K))
        BY <3>1, <4>2, ConcatProperties
      <4>. QED  BY <4>3, <4>4, FastImportsFits
    <3>4. CASE /\ Asks(n, "fast", "block", b.parent) /\ wire' = Sent(w, n, <<GetHead(b.parent)>>)
               /\ fetched' = [fetched EXCEPT ![n].blocks = bs]
               /\ UNCHANGED chain
      <4>1. b.parent \in Int
        BY HeadsAreBlocks DEF Blocks
      <4>2. GetHead(b.parent) \in Messages(Heads(K))
        BY <4>1 DEF GetHead, Messages
      <4>3. Control'
        BY <1>1, <3>4, <4>1, AsksOk DEF Kinds, Tasks
      <4>4. wire' \in Wires(K)
        BY <3>4, <4>2, EmptyEcho, EchoOk
      <4>5. fetched' \in Downloads(K)
        BY <1>1, <3>1, <3>4 DEF Downloads
      <4>. QED  BY <1>1, <3>4, <4>3, <4>4, <4>5
    <3>. QED  BY <3>2, <3>3, <3>4 DEF FastDownloads
  <2>. QED  BY <2>1, <2>2 DEF FastGot
<1>. QED  BY <1>1, <1>2, FitsAfter DEF Fits

LEMMA GotHeadFits ==
    ASSUME NEW K, Ancestries(K), Fits(K), NEW n \in Nodes, NEW t \in Tasks \cup {"none"}, NEW found, NEW b \in Heads(K),
           NEW w \in Wires(K), GotHead(n, t, found, b, w)
    PROVE  Fits(K)'
<1>. DEFINE c == chain[n]
            a == IF found THEN Ancestor(c, b) ELSE -1
            cutTo == IF a < b.height - 1 THEN a ELSE b.height - 1
            cut == CutTo(c, cutTo)
            after == IF a = -1 THEN c ELSE IF Importable(cut, b) THEN Append(cut, b) ELSE cut
            echo == IF a # -1 /\ Importable(cut, b) THEN Broadcast(b) ELSE <<>>
<1>1. c \in K /\ chain \in [Nodes -> K] /\ Control /\ peer \in Peers /\ b \in Blocks
  BY HeadsAreBlocks DEF Fits
<1>2. /\ chain' = [chain EXCEPT ![n] = after]
      /\ peer' = IF a # -1 /\ Importable(cut, b) THEN [peer EXCEPT ![n] = [height |-> b.height, head |-> b.id]] ELSE peer
      /\ IF t = "loop" THEN Stops(n, t) /\ wire' = Sent(w, n, echo) ELSE AsksPool(n, t, w, echo)
      /\ pool' = pool /\ mined' = mined /\ fetched' = fetched
  BY DEF GotHead, bounds
<1>3. b.height \in Nat /\ b.id \in Int
  BY <1>1 DEF Blocks
<1>. HIDE DEF c
<1>4. Len(c) \in Nat \ {0}
  BY <1>1, ChainFacts
<1>5. a \in -1..Len(c) - 1
  BY <1>1, <1>4, AncestorOk
<1>. HIDE DEF a
<1>6. after \in K
  <2>1. CASE a = -1
    BY <1>1, <2>1
  <2>2. CASE a # -1 /\ b.height > 0
    <3>1. cutTo \in Nat /\ cutTo < Len(c)
      BY <1>3, <1>4, <1>5, <2>2
    <3>. HIDE DEF cutTo
    <3>2. cut \in K
      BY <1>1, <3>1, CutOk
    <3>. HIDE DEF cut
    <3>3. Importable(cut, b) => Append(cut, b) \in K
      BY <3>2, ImportOk
    <3>. QED  BY <2>2, <3>2, <3>3
  <2>3. CASE a # -1 /\ b.height = 0
    <3>1. b = Genesis
      BY <2>3, HeadFacts
    <3>2. cutTo = -1
      BY <1>5, <2>3
    <3>3. cut = <<>>
      <4>1. c \in Seq(Blocks)
        BY <1>1, ChainFacts
      <4>2. CutTo(c, -1) = <<>>
        BY <4>1 DEF CutTo
      <4>. QED  BY <3>2, <4>2
    <3>4. Importable(<<>>, b) /\ Append(<<>>, b) = <<Genesis>>
      BY <2>3, <3>1 DEF Importable
    <3>5. after = <<Genesis>>
      BY <2>3, <3>3, <3>4
    <3>. QED  BY <3>5 DEF Ancestries
  <2>. QED  BY <1>3, <2>1, <2>2, <2>3
<1>7. echo \in Seq(Messages(Heads(K)))
  <2>1. Broadcast(b) \in Seq(Messages(Heads(K)))
    BY HeadsAreBlocks, BroadcastOk
  <2>. QED  BY <2>1, EmptyEcho
<1>8. peer' \in Peers
  BY <1>1, <1>2, <1>3 DEF Peers
<1>. HIDE DEF after, echo
<1>9. chain' \in [Nodes -> K]
  BY <1>1, <1>2, <1>6, ChainAfter
<1>10. Control' /\ wire' \in Wires(K)
  <2>1. CASE t = "loop"
    <3>1. Control'
      BY <1>1, <1>2, <2>1, StopsOk
    <3>2. GetPool \in Messages(Heads(K))
      BY DEF GetPool, Messages
    <3>. QED  BY <1>2, <1>7, <2>1, <3>1, <3>2, EchoOk
  <2>2. CASE t # "loop"
    BY <1>1, <1>2, <1>7, <1>9, <2>2, AsksPoolOk
  <2>. QED  BY <2>1, <2>2
<1>. QED  BY <1>2, <1>8, <1>9, <1>10, FitsAfter DEF Fits

LEMMA GotRootFits ==
    ASSUME NEW K, Ancestries(K), Fits(K), NEW n \in Nodes, NEW t \in Tasks \cup {"none"}, NEW agrees,
           NEW w \in Wires(K), GotRoot(n, t, agrees, w)
    PROVE  Fits(K)'
<1>1. /\ chain' = chain /\ pool' = pool /\ peer' = peer /\ mined' = mined /\ fetched' = fetched
      /\ chain' \in [Nodes -> K] /\ Control
      /\ AsksPool(n, t, w, <<>>) \/ (Stops(n, t) /\ wire' = Sent(w, n, <<>>))
  BY DEF GotRoot, Fits, bounds
<1>2. <<>> \in Seq(Messages(Heads(K))) /\ GetPool \in Messages(Heads(K))
  BY EmptyEcho DEF GetPool, Messages
<1>3. Control' /\ wire' \in Wires(K)
  <2>1. CASE AsksPool(n, t, w, <<>>)
    BY <1>1, <1>2, <2>1, AsksPoolOk
  <2>2. CASE Stops(n, t) /\ wire' = Sent(w, n, <<>>)
    <3>1. Control'
      BY <1>1, <2>2, StopsOk
    <3>. QED  BY <1>2, <2>2, <3>1, EchoOk
  <2>. QED  BY <1>1, <2>1, <2>2
<1>. QED  BY <1>1, <1>3, FitsAfter DEF Fits

LEMMA GotPoolFits ==
    ASSUME NEW K, Ancestries(K), Fits(K), NEW n \in Nodes, NEW t \in Tasks \cup {"none"}, NEW ts \in Pools,
           NEW w \in Wires(K), GotPool(n, t, ts, w)
    PROVE  Fits(K)'
<1>1. /\ chain' = chain /\ peer' = peer /\ mined' = mined /\ fetched' = fetched
      /\ pool' = [pool EXCEPT ![n] = AddedAll(@, chain[n], ts)] /\ pool \in [Nodes -> SmallPools]
      /\ chain' \in [Nodes -> K] /\ Control
      /\ AsksRoot(n, t, w, <<>>) \/ (Stops(n, t) /\ wire' = Sent(w, n, <<>>))
  BY DEF GotPool, Fits, bounds
<1>2. <<>> \in Seq(Messages(Heads(K))) /\ GetPool \in Messages(Heads(K))
  BY EmptyEcho DEF GetPool, Messages
<1>3. Control' /\ wire' \in Wires(K)
  <2>1. CASE AsksRoot(n, t, w, <<>>)
    BY <1>1, <1>2, <2>1, AsksRootOk
  <2>2. CASE Stops(n, t) /\ wire' = Sent(w, n, <<>>)
    <3>1. Control'
      BY <1>1, <2>2, StopsOk
    <3>. QED  BY <1>2, <2>2, <3>1, EchoOk
  <2>. QED  BY <1>1, <2>1, <2>2
<1>4. pool' \in [Nodes -> SmallPools]
  <2>1. AddedAll(pool[n], chain[n], ts) \in SmallPools
    BY <1>1, AddedAllSmall
  <2>. QED  BY <1>1, <2>1
<1>. QED  BY <1>1, <1>3, <1>4, FitsAfter DEF Fits

LEMMA NoPool == {} \in Pools
BY FS_EmptySet DEF Pools

LEMMA AnsweredFits ==
    ASSUME NEW K, Ancestries(K), Fits(K), NEW n \in Nodes, Answered(n)
    PROVE  Fits(K)'
<1>. DEFINE m == Message(n)
            t == waiter[n].task
<1>1. Taken(n) \in Wires(K) /\ m \in Messages(Heads(K))
  BY TakenOk DEF Answered, Reads, Fits, Wires
<1>2. t \in Tasks \cup {"none"} /\ m.type \in Kinds
  <2>1. waiter[n] \in [task : Tasks \cup {"none"}, type : Kinds \cup {"none"}]
    BY DEF Fits, Control, Waiters
  <2>2. m.type # "none"
    BY <1>1, MessageFacts
  <2>. QED  BY <2>1, <2>2 DEF Answered, Awaited
<1>3. CASE m.type = "blocks"
  <2>1. GotBlocks(n, m.blocks, Taken(n))
    BY <1>3 DEF Answered
  <2>2. m.blocks \in Seq(Heads(K))
    BY <1>1, <1>3, MessageFacts
  <2>. QED  BY <1>1, <2>1, <2>2, GotBlocksFits
<1>4. CASE m.type = "block"
  <2>1. m.block \in Heads(K)
    BY <1>1, <1>4, MessageFacts
  <2>2. CASE t = "fast"
    <3>1. FastGot(n, m.found, m.block, Taken(n))
      BY <1>4, <2>2 DEF Answered
    <3>. QED  BY <1>1, <2>1, <3>1, FastGotFits
  <2>3. CASE t # "fast"
    <3>1. GotHead(n, t, m.found, m.block, Taken(n))
      BY <1>4, <2>3 DEF Answered
    <3>. QED  BY <1>1, <1>2, <2>1, <3>1, GotHeadFits
  <2>. QED  BY <2>2, <2>3
<1>5. CASE m.type = "root_response"
  <2>1. GotRoot(n, t, m.root = task[n][t].from, Taken(n))
    BY <1>5 DEF Answered
  <2>. DEFINE agrees == m.root = task[n][t].from
  <2>2. GotRoot(n, t, agrees, Taken(n))
    BY <2>1
  <2>. HIDE DEF agrees
  <2>. QED  BY <1>1, <1>2, <2>2, GotRootFits
<1>6. CASE m.type = "mempool"
  <2>1. GotPool(n, t, m.txs, Taken(n))
    BY <1>6 DEF Answered
  <2>2. m.txs \in Pools
    BY <1>1, <1>6, MessageFacts
  <2>. QED  BY <1>1, <1>2, <2>1, <2>2, GotPoolFits
<1>. QED  BY <1>2, <1>3, <1>4, <1>5, <1>6 DEF Kinds

LEMMA TimesOutFits ==
    ASSUME NEW K, Ancestries(K), Fits(K), NEW n \in Nodes, NEW t \in Tasks, TimesOut(n, t)
    PROVE  Fits(K)'
<1>. DEFINE s == task[n][t].at
<1>1. wire \in Wires(K)
  BY DEF Fits
<1>2. s \in Kinds
  <2>1. task[n][t] \in TaskState
    BY DEF Fits, Control, TaskStates
  <2>2. s \in Kinds \cup {"idle", "start", "joined"}
    BY <2>1 DEF TaskState
  <2>. QED  BY <2>2 DEF TimesOut, Waits
<1>3. CASE s = "blocks"
  <2>1. GotBlocks(n, <<>>, wire)
    BY <1>3 DEF TimesOut
  <2>. QED  BY <1>1, <2>1, EmptyEcho, GotBlocksFits
<1>4. CASE s = "block"
  <2>1. CASE t = "fast"
    <3>1. FastGot(n, FALSE, Genesis, wire)
      BY <1>4, <2>1 DEF TimesOut
    <3>. QED  BY <1>1, <3>1, GenesisIsHead, FastGotFits
  <2>2. CASE t # "fast"
    <3>1. GotHead(n, t, FALSE, Genesis, wire)
      BY <1>4, <2>2 DEF TimesOut
    <3>. QED  BY <1>1, <3>1, GenesisIsHead, GotHeadFits
  <2>. QED  BY <2>1, <2>2
<1>5. CASE s = "root_response"
  <2>1. GotRoot(n, t, TRUE, wire)
    BY <1>5 DEF TimesOut
  <2>. QED  BY <1>1, <2>1, GotRootFits
<1>6. CASE s = "mempool"
  <2>1. GotPool(n, t, {}, wire)
    BY <1>6 DEF TimesOut
  <2>. QED  BY <1>1, <2>1, NoPool, GotPoolFits
<1>. QED  BY <1>2, <1>3, <1>4, <1>5, <1>6 DEF Kinds

LEMMA HandleNewBlockFits ==
    ASSUME NEW K, Ancestries(K), Fits(K), NEW n \in Nodes, NEW b \in Heads(K), Taken(n) \in Wires(K),
           HandleNewBlock(n, b)
    PROVE  Fits(K)'
<1>1. /\ peer' = [peer EXCEPT ![n] = [height |-> IF b.height > @.height THEN b.height ELSE @.height, head |-> b.id]]
      /\ mined' = mined /\ fetched' = fetched
      /\ chain \in [Nodes -> K] /\ chain[n] \in K /\ Control /\ peer \in Peers /\ pool \in [Nodes -> SmallPools]
      /\ b \in Blocks
  BY HeadsAreBlocks DEF HandleNewBlock, Fits, bounds
<1>2. peer' \in Peers
  BY <1>1 DEF Peers, Blocks
<1>3. "loop" \in Tasks \cup {"none"} /\ <<>> \in Seq(Messages(Heads(K)))
  BY EmptyEcho DEF Tasks
<1>4. chain' \in [Nodes -> K] /\ pool' \in [Nodes -> SmallPools] /\ Control' /\ wire' \in Wires(K)
  <2>1. CASE AsksHead(n, "loop", Taken(n), <<>>) /\ UNCHANGED <<chain, pool>>
    <3>1. Control' /\ wire' \in Wires(K)
      BY <1>1, <1>2, <1>3, <2>1, AsksHeadOk
    <3>. QED  BY <1>1, <2>1, <3>1
  <2>2. CASE wire' = Taken(n) /\ UNCHANGED <<chain, pool, task, waiter>>
    BY <1>1, <2>2 DEF Control
  <2>3. CASE wire' = Taken(n) /\ task' = Spawned(n) /\ UNCHANGED <<chain, pool, waiter>>
    BY <1>1, <2>3, SpawnedOk DEF Control
  <2>4. CASE /\ Importable(chain[n], b)
             /\ pool' = [pool EXCEPT ![n] = @ \ b.txs]
             /\ chain' = [chain EXCEPT ![n] = Append(@, b)]
             /\ AsksRoot(n, "loop", Taken(n), Broadcast(b))
    <3>1. Append(chain[n], b) \in K
      BY <1>1, <2>4, ImportOk
    <3>2. chain' \in [Nodes -> K]
      BY <1>1, <2>4, <3>1
    <3>3. pool[n] \ b.txs \in SmallPools
      <4>1. pool[n] \in Pools /\ IsFiniteSet(pool[n]) /\ Cardinality(pool[n]) <= MaxPool
        BY <1>1 DEF SmallPools, Pools
      <4>2. pool[n] \ b.txs \in Pools
        BY <4>1, PoolSubset
      <4>3. /\ Cardinality(pool[n] \ b.txs) <= Cardinality(pool[n])
            /\ Cardinality(pool[n] \ b.txs) \in Nat /\ Cardinality(pool[n]) \in Nat
        BY <4>1, Smaller
      <4>. QED  BY <4>1, <4>2, <4>3, NetworkAssumption DEF SmallPools
    <3>4. pool' \in [Nodes -> SmallPools]
      BY <1>1, <2>4, <3>3
    <3>5. Broadcast(b) \in Seq(Messages(Heads(K)))
      BY HeadsAreBlocks, BroadcastOk
    <3>6. Control' /\ wire' \in Wires(K)
      BY <1>1, <1>3, <2>4, <3>2, <3>5, AsksRootOk
    <3>. QED  BY <3>2, <3>4, <3>6
  <2>. QED  BY <2>1, <2>2, <2>3, <2>4 DEF HandleNewBlock
<1>. QED  BY <1>1, <1>2, <1>4, FitsAfter DEF Fits

LEMMA ReplyOk ==
    ASSUME NEW K, Ancestries(K), Fits(K), NEW n \in Nodes, NEW m \in Messages(Heads(K)), m.type \in Questions
    PROVE  Reply(n, m) \in Messages(Heads(K))
<1>1. chain[n] \in K /\ pool[n] \in Pools
  BY DEF Fits, SmallPools
<1>2. CASE m.type = "get_blocks"
  <2>1. m.from \in Nat /\ m.to \in Int
    BY <1>2, MessageFacts
  <2>2. Min({m.to, m.from + BatchSize - 1}) \in Int
    BY <2>1, MinOfTwo, NetworkAssumption
  <2>3. BlockRange(chain[n], m.from, m.to) \in Seq(Heads(K))
    BY <1>1, <2>1, <2>2, BetweenOk DEF BlockRange
  <2>4. Reply(n, m) = [type |-> "blocks", blocks |-> BlockRange(chain[n], m.from, m.to)]
    BY <1>2 DEF Reply
  <2>. QED  BY <2>3, <2>4 DEF Messages
<1>3. CASE m.type = "get_block"
  <2>. DEFINE f == Has(chain[n], m.id)
              b == IF f THEN WithId(chain[n], m.id) ELSE Genesis
  <2>1. b \in Heads(K) /\ f \in BOOLEAN
    BY <1>1, WithIdOk, GenesisIsHead DEF Has
  <2>2. Reply(n, m) = [type |-> "block", found |-> f, block |-> b]
    BY <1>3 DEF Reply
  <2>. HIDE DEF f, b
  <2>. QED  BY <2>1, <2>2 DEF Messages
<1>4. CASE m.type = "get_mempool"
  <2>1. Reply(n, m) = [type |-> "mempool", txs |-> pool[n]]
    BY <1>4 DEF Reply
  <2>. QED  BY <1>1, <2>1 DEF Messages
<1>5. CASE m.type = "root_request"
  <2>1. Reply(n, m) = [type |-> "root_response", height |-> m.height, root |-> Tip(chain[n]).id]
    BY <1>5 DEF Reply
  <2>2. m.height \in Int /\ Tip(chain[n]).id \in Int
    BY <1>1, <1>5, MessageFacts, StatusOk
  <2>. QED  BY <2>1, <2>2 DEF Messages
<1>. QED  BY <1>2, <1>3, <1>4, <1>5 DEF Questions

LEMMA HandlesFits ==
    ASSUME NEW K, Ancestries(K), Fits(K), NEW n \in Nodes, Handles(n)
    PROVE  Fits(K)'
<1>. DEFINE m == Message(n)
<1>1. Taken(n) \in Wires(K) /\ m \in Messages(Heads(K))
  BY TakenOk DEF Handles, Reads, Fits, Wires
<1>2. Control /\ pool \in [Nodes -> SmallPools] /\ peer \in Peers
  BY DEF Fits
<1>3. CASE m.type = "new_block" /\ HandleNewBlock(n, m.block)
  BY <1>1, <1>3, MessageFacts, HandleNewBlockFits
<1>4. CASE /\ m.type \in Questions /\ wire' = Sent(Taken(n), n, <<Reply(n, m)>>)
           /\ UNCHANGED <<chain, pool, up, peer, waiter, task, consistent, bounds>>
  <2>1. wire' \in Wires(K)
    BY <1>1, <1>4, ReplyOk, EmptyEcho, EchoOk
  <2>2. Control'
    BY <1>2, <1>4 DEF Control
  <2>. QED  BY <1>4, <2>1, <2>2, FitsAfter DEF Fits, bounds
<1>5. CASE /\ m.type = "status" /\ wire' = Taken(n)
           /\ peer' = [peer EXCEPT ![n] = [height |-> m.height, head |-> m.head]]
           /\ UNCHANGED <<chain, pool, up, waiter, task, consistent, bounds>>
  <2>1. m.height \in Int /\ m.head \in Int
    BY <1>1, <1>5, MessageFacts
  <2>. HIDE DEF m
  <2>2. peer' \in Peers
    BY <1>2, <1>5, <2>1 DEF Peers
  <2>3. Control'
    BY <1>2, <1>5 DEF Control
  <2>. QED  BY <1>1, <1>5, <2>2, <2>3, FitsAfter DEF Fits, bounds
<1>6. CASE /\ m.type \in {"new_tx", "mempool"} /\ wire' = Taken(n)
           /\ pool' = [pool EXCEPT ![n] = AddedAll(@, chain[n], m.txs)]
           /\ UNCHANGED <<chain, up, peer, waiter, task, consistent, bounds>>
  <2>1. m.txs \in Pools
    BY <1>1, <1>6, MessageFacts
  <2>2. AddedAll(pool[n], chain[n], m.txs) \in SmallPools
    BY <1>2, <2>1, AddedAllSmall
  <2>3. pool' \in [Nodes -> SmallPools]
    BY <1>2, <1>6, <2>2
  <2>4. Control'
    BY <1>2, <1>6 DEF Control
  <2>. QED  BY <1>1, <1>6, <2>3, <2>4, FitsAfter DEF Fits, bounds
<1>7. CASE /\ wire' = Taken(n)
           /\ UNCHANGED <<chain, pool, up, peer, waiter, task, bounds>>
  <2>1. Control'
    BY <1>2, <1>7 DEF Control
  <2>. QED  BY <1>1, <1>7, <2>1, FitsAfter DEF Fits, bounds
<1>. QED  BY <1>3, <1>4, <1>5, <1>6, <1>7 DEF Handles

-----------------------------------------------------------------------------
(* A block is mined: K gains the chain that it ends *)

LEMMA AncestriesGrow ==
    ASSUME NEW K, Ancestries(K), NEW c \in K, NEW b \in Blocks,
           b.height = Len(c), b.parent = c[Len(c)].id, b.txs \cap TxsOf(c) = {},
           \A d \in K : d[Len(d)].id # b.id
    PROVE  Ancestries(K \cup {Append(c, b)})
<1>. DEFINE e == Append(c, b)
<1>1. /\ c \in Seq(Blocks) /\ Len(c) \in Nat \ {0} /\ DOMAIN c = 1..Len(c) /\ c[1] = Genesis
      /\ \A i \in 1..Len(c) : c[i].height = i - 1
  BY ChainFacts
<1>2. /\ e \in Seq(Blocks) /\ Len(e) = Len(c) + 1 /\ DOMAIN e = 1..Len(c) + 1
      /\ e[Len(c) + 1] = b /\ \A i \in 1..Len(c) : e[i] = c[i]
  BY <1>1, AppendProperties
<1>. HIDE DEF e
<1>3. Linked(e)
  <2>1. e # <<>> /\ e[1] = Genesis
    BY <1>1, <1>2
  <2>2. ASSUME NEW i \in DOMAIN e, i > 1 PROVE e[i].height = i - 1 /\ e[i].parent = e[i - 1].id
    <3>1. CASE i = Len(c) + 1
      BY <1>1, <1>2, <3>1
    <3>2. CASE i # Len(c) + 1
      <4>1. i \in DOMAIN c /\ i - 1 \in 1..Len(c)
        BY <1>1, <1>2, <2>2, <3>2
      <4>2. c[i].height = i - 1 /\ c[i].parent = c[i - 1].id
        BY <2>2, <4>1 DEF Ancestries, Linked
      <4>. QED  BY <1>1, <1>2, <4>1, <4>2
    <3>. QED  BY <3>1, <3>2
  <2>3. ASSUME NEW i \in DOMAIN e, NEW j \in DOMAIN e, i # j PROVE e[i].txs \cap e[j].txs = {}
    <3>0. \A x \in DOMAIN c : c[x].txs \cap b.txs = {}
      BY DEF TxsOf
    <3>1. CASE i = Len(c) + 1
      BY <1>1, <1>2, <2>3, <3>0, <3>1
    <3>2. CASE j = Len(c) + 1
      BY <1>1, <1>2, <2>3, <3>0, <3>2
    <3>3. CASE i # Len(c) + 1 /\ j # Len(c) + 1
      <4>1. i \in DOMAIN c /\ j \in DOMAIN c
        BY <1>1, <1>2, <3>3
      <4>2. c[i].txs \cap c[j].txs = {}
        BY <2>3, <4>1 DEF Ancestries, Linked
      <4>. QED  BY <1>1, <1>2, <4>1, <4>2
    <3>. QED  BY <3>1, <3>2, <3>3
  <2>. QED  BY <2>1, <2>2, <2>3 DEF Linked
<1>4. ASSUME NEW k \in 1..Len(e) PROVE SubSeq(e, 1, k) \in K \cup {e}
  <2>1. CASE k = Len(e)
    <3>1. SubSeq(e, 1, Len(e)) = e
      BY <1>2, SubSeqFull
    <3>. QED  BY <2>1, <3>1
  <2>2. CASE k # Len(e)
    <3>. DEFINE l == SubSeq(e, 1, k)
                r == SubSeq(c, 1, k)
    <3>1. k \in 1..Len(c)
      BY <1>1, <1>2, <2>2
    <3>2. l \in Seq(Blocks) /\ r \in Seq(Blocks) /\ Len(l) = k /\ Len(r) = k
      BY <1>1, <1>2, <3>1
    <3>3. \A i \in 1..k : l[i] = r[i]
      BY <1>1, <1>2, <3>1
    <3>4. r \in K
      BY <3>1 DEF Ancestries
    <3>. HIDE DEF l, r
    <3>5. l = r
      BY <3>2, <3>3, SeqEqual
    <3>6. l \in K
      BY <3>4, <3>5
    <3>. QED  BY <3>6 DEF l
  <2>. QED  BY <2>1, <2>2
<1>5. e[Len(e)] = b
  BY <1>2
<1>6. \A x, y \in K \cup {e} : x[Len(x)].id = y[Len(y)].id => x = y
  BY <1>5 DEF Ancestries
<1>7. \A x \in K \cup {e} : x \in Seq(Blocks) /\ Linked(x)
  BY <1>2, <1>3 DEF Ancestries
<1>8. \A x \in K \cup {e} : \A k \in 1..Len(x) : SubSeq(x, 1, k) \in K \cup {e}
  BY <1>4 DEF Ancestries
<1>9. <<Genesis>> \in K \cup {e}
  BY DEF Ancestries
<1>10. Ancestries(K \cup {e})
  BY <1>6, <1>7, <1>8, <1>9 DEF Ancestries
<1>. QED  BY <1>10 DEF e

LEMMA MineBlockInv ==
    ASSUME NEW K, Ancestries(K), Fits(K), NEW n \in Nodes, MineBlock(n)
    PROVE  NetworkInv'
<1>. DEFINE c == chain[n]
            b == [id |-> mined + 1, parent |-> Tip(c).id, height |-> Len(c), txs |-> pool[n] \ TxsOf(c)]
<1>0. PICK L : L = K \cup {Append(c, b)}
  OBVIOUS
<1>1. /\ chain \in [Nodes -> K] /\ c \in K /\ wire \in Wires(K) /\ fetched \in Downloads(K)
      /\ pool \in [Nodes -> SmallPools] /\ peer \in Peers /\ Control /\ mined \in Nat
      /\ \A d \in K : d[Len(d)].id <= mined
  BY DEF Fits
<1>2. /\ chain' = [chain EXCEPT ![n] = Append(@, b)]
      /\ pool' = [pool EXCEPT ![n] = @ \ b.txs]
      /\ wire' = Sent(wire, n, Broadcast(b))
      /\ mined' = mined + 1 /\ peer' = peer /\ waiter' = waiter /\ task' = task /\ fetched' = fetched
  BY DEF MineBlock
<1>3. pool[n] \in Pools /\ Cardinality(pool[n]) <= MaxPool /\ IsFiniteSet(pool[n])
  BY <1>1 DEF SmallPools, Pools
<1>4. b \in Blocks
  <2>1. pool[n] \ TxsOf(c) \in Pools
    BY <1>3, PoolSubset
  <2>2. Tip(c).id \in Int /\ Len(c) \in Nat
    BY <1>1, StatusOk, ChainFacts
  <2>. HIDE DEF c
  <2>. QED  BY <1>1, <2>1, <2>2 DEF Blocks
<1>5. b.height = Len(c) /\ b.parent = c[Len(c)].id /\ b.txs \cap TxsOf(c) = {} /\ b.id = mined + 1
  BY <1>1, ChainFacts
<1>. HIDE DEF b
<1>6. \A d \in K : d[Len(d)].id \in Int /\ d[Len(d)].id # b.id
  <2>. TAKE d \in K
  <2>1. d[Len(d)] \in Blocks
    BY ChainFacts
  <2>2. d[Len(d)].id \in Int /\ d[Len(d)].id <= mined
    BY <1>1, <2>1 DEF Blocks
  <2>. QED  BY <1>1, <1>5, <2>2
<1>. HIDE DEF c
<1>7. Ancestries(L)
  BY <1>0, <1>1, <1>4, <1>5, <1>6, AncestriesGrow
<1>8. Append(c, b) \in L /\ K \subseteq L
  BY <1>0
<1>9. c \in Seq(Blocks) /\ Len(Append(c, b)) = Len(c) + 1 /\ Append(c, b)[Len(c) + 1] = b
  BY <1>1, <1>4, ChainFacts, AppendProperties
<1>10. Heads(K) \subseteq Heads(L) /\ b \in Heads(L)
  <2>1. Append(c, b)[Len(Append(c, b))] = b
    BY <1>9
  <2>. QED  BY <1>8, <2>1 DEF Heads
<1>11. \A d \in L : d[Len(d)].id <= mined + 1
  <2>. TAKE d \in L
  <2>1. CASE d = Append(c, b)
    BY <1>1, <1>5, <1>9, <2>1
  <2>2. CASE d \in K
    BY <1>1, <1>6, <2>2
  <2>. QED  BY <1>0, <2>1, <2>2
<1>12. chain' \in [Nodes -> L]
  BY <1>1, <1>2, <1>8 DEF c
<1>13. wire' \in Wires(L)
  <2>1. Broadcast(b) \in Seq(Messages(Heads(L)))
    BY <1>7, <1>10, HeadsAreBlocks, BroadcastOk
  <2>2. wire \in Wires(L)
    BY <1>1, <1>10, MessagesGrow DEF Wires
  <2>. QED  BY <1>2, <2>1, <2>2, SentOk DEF Wires
<1>14. fetched' \in Downloads(L)
  <2>1. Seq(Heads(K)) \subseteq Seq(Heads(L))
    BY <1>10, SeqMonotonic
  <2>2. [stop : Nat, blocks : Seq(Heads(K))] \subseteq [stop : Nat, blocks : Seq(Heads(L))]
    BY <2>1
  <2>. QED  BY <1>1, <1>2, <2>2 DEF Downloads
<1>15. pool' \in [Nodes -> SmallPools]
  <2>1. pool[n] \ b.txs \in Pools
    BY <1>3, PoolSubset
  <2>2. /\ Cardinality(pool[n] \ b.txs) <= Cardinality(pool[n])
        /\ Cardinality(pool[n] \ b.txs) \in Nat /\ Cardinality(pool[n]) \in Nat
    BY <1>3, Smaller
  <2>3. pool[n] \ b.txs \in SmallPools
    BY <1>3, <2>1, <2>2, NetworkAssumption DEF SmallPools
  <2>. QED  BY <1>1, <1>2, <2>3
<1>16. Control' /\ peer' \in Peers /\ mined' \in Nat
  BY <1>1, <1>2 DEF Control
<1>17. Fits(L)'
  BY <1>2, <1>11, <1>12, <1>13, <1>14, <1>15, <1>16 DEF Fits, Wires, Downloads, Peers
<1>. QED  BY <1>7, <1>17 DEF NetworkInv

-----------------------------------------------------------------------------
(* The start *)

LEMMA StartFacts ==
    ASSUME Init
    PROVE  /\ left.shared \in Nat /\ left.own \in [Nodes -> Nat]
           /\ \A n \in Nodes : left.own[n] \in Nat
BY NetworkAssumption DEF Init

StartId(n, h) == IF h <= left.shared \/ n = First THEN h ELSE h + left.own[First]
StartLen(n) == left.shared + left.own[n] + 1

LEMMA StartedFacts ==
    ASSUME Init, NEW n \in Nodes
    PROVE  /\ Started(n) \in Seq(Blocks) /\ Len(Started(n)) = StartLen(n) /\ StartLen(n) \in Nat \ {0}
           /\ \A i \in 1..StartLen(n) :
                Started(n)[i] = [id |-> StartId(n, i - 1), parent |-> StartId(n, i - 2), height |-> i - 1, txs |-> {}]
<1>1. left.shared \in Nat /\ left.own[n] \in Nat /\ left.own[First] \in Nat
  BY StartFacts, FirstIsNode
<1>2. \A h \in Int : StartId(n, h) \in Int
  BY <1>1 DEF StartId
<1>3. Started(n) = [i \in 1..StartLen(n) |->
                       [id |-> StartId(n, i - 1), parent |-> StartId(n, i - 2), height |-> i - 1, txs |-> {}]]
  BY DEF Started, StartId, StartLen
<1>4. StartLen(n) \in Nat \ {0}
  BY <1>1 DEF StartLen
<1>5. \A i \in 1..StartLen(n) :
        [id |-> StartId(n, i - 1), parent |-> StartId(n, i - 2), height |-> i - 1, txs |-> {}] \in Blocks
  <2>. TAKE i \in 1..StartLen(n)
  <2>1. i - 1 \in Nat /\ i - 1 \in Int /\ i - 2 \in Int
    BY <1>4
  <2>2. StartId(n, i - 1) \in Int /\ StartId(n, i - 2) \in Int
    BY <1>2, <2>1
  <2>. QED  BY <2>1, <2>2, NoPool DEF Blocks
<1>6. \A N \in Nat : \A f \in [1..N -> Blocks] : f \in Seq(Blocks) /\ Len(f) = N
  OBVIOUS
<1>. DEFINE Entry(i) == [id |-> StartId(n, i - 1), parent |-> StartId(n, i - 2), height |-> i - 1, txs |-> {}]
<1>7. Started(n) = [i \in 1..StartLen(n) |-> Entry(i)] /\ \A i \in 1..StartLen(n) : Entry(i) \in Blocks
  BY <1>3, <1>5
<1>. HIDE DEF Entry
<1>8. Started(n) \in [1..StartLen(n) -> Blocks] /\ \A i \in 1..StartLen(n) : Started(n)[i] = Entry(i)
  BY <1>7
<1>9. Started(n) \in Seq(Blocks) /\ Len(Started(n)) = StartLen(n)
  BY <1>4, <1>6, <1>8
<1>. QED  BY <1>4, <1>8, <1>9 DEF Entry

LEMMA StartIdsDiffer ==
    ASSUME Init, NEW n \in Nodes, NEW m \in Nodes, NEW i \in 1..StartLen(n), NEW j \in 1..StartLen(m),
           StartId(n, i - 1) = StartId(m, j - 1)
    PROVE  i = j /\ (n = m \/ i - 1 <= left.shared)
<1>1. left.shared \in Nat /\ left.own[n] \in Nat /\ left.own[m] \in Nat /\ left.own[First] \in Nat
  BY StartFacts, FirstIsNode
<1>2. i \in Int /\ j \in Int /\ i >= 1 /\ j >= 1 /\ i <= left.shared + left.own[n] + 1 /\ j <= left.shared + left.own[m] + 1
  BY <1>1 DEF StartLen
<1>3. CASE n = m
  BY <1>1, <1>2, <1>3 DEF StartId
<1>4. CASE n # m /\ n = First
  BY <1>1, <1>2, <1>4 DEF StartId
<1>5. CASE n # m /\ m = First
  BY <1>1, <1>2, <1>5 DEF StartId
<1>6. n = m \/ n = First \/ m = First
  BY FirstIsNode
<1>. QED  BY <1>3, <1>4, <1>5, <1>6

LEMMA StartAncestries ==
    ASSUME Init
    PROVE  NetworkInv
<1>. DEFINE Pre(n, k) == SubSeq(Started(n), 1, k)
            K == UNION {{Pre(n, k) : k \in 1..StartLen(n)} : n \in Nodes}
<1>1. left.shared \in Nat /\ left.own[First] \in Nat /\ \A n \in Nodes : left.own[n] \in Nat
  BY StartFacts, FirstIsNode
<1>2. ASSUME NEW n \in Nodes, NEW k \in 1..StartLen(n)
      PROVE  /\ Pre(n, k) \in Seq(Blocks) /\ Len(Pre(n, k)) = k /\ k \in Nat \ {0}
             /\ \A i \in 1..k : /\ Pre(n, k)[i] = Started(n)[i] /\ i \in 1..StartLen(n)
  <2>1. Started(n) \in Seq(Blocks) /\ Len(Started(n)) = StartLen(n) /\ StartLen(n) \in Nat \ {0}
    BY StartedFacts
  <2>. HIDE DEF StartLen
  <2>. QED  BY <2>1, SubSeqProperties
<1>. DEFINE Entry(n, i) == [id |-> StartId(n, i - 1), parent |-> StartId(n, i - 2), height |-> i - 1, txs |-> {}]
<1>0. \A n, i : /\ Entry(n, i).id = StartId(n, i - 1) /\ Entry(n, i).parent = StartId(n, i - 2)
                /\ Entry(n, i).height = i - 1 /\ Entry(n, i).txs = {}
  OBVIOUS
<1>3. ASSUME NEW n \in Nodes, NEW k \in 1..StartLen(n), NEW i \in 1..k
      PROVE  Pre(n, k)[i] = Entry(n, i)
  BY <1>2, StartedFacts
<1>. HIDE DEF Entry
<1>4. ASSUME NEW c \in K PROVE \E n \in Nodes : \E k \in 1..StartLen(n) : c = Pre(n, k)
  OBVIOUS
<1>5. \A n \in Nodes : \A k \in 1..StartLen(n) : Pre(n, k) \in K
  OBVIOUS
<1>. HIDE DEF K
<1>6. <<Genesis>> \in K
  <2>1. 1 \in 1..StartLen(First) /\ First \in Nodes
    BY StartedFacts, FirstIsNode
  <2>2. Pre(First, 1) \in Seq(Blocks) /\ Len(Pre(First, 1)) = 1
    BY <1>2, <2>1
  <2>3. Pre(First, 1)[1] = Genesis
    <3>1. StartId(First, 1 - 1) = 0 /\ StartId(First, 1 - 2) = -1
      BY DEF StartId
    <3>. QED  BY <1>3, <2>1, <3>1 DEF Genesis, Entry
  <2>. HIDE DEF Pre
  <2>4. Pre(First, 1) = <<Genesis>>
    BY <2>2, <2>3
  <2>. QED  BY <1>5, <2>1, <2>4
<1>7. ASSUME NEW c \in K PROVE c \in Seq(Blocks) /\ Linked(c)
  <2>1. PICK n \in Nodes : \E k \in 1..StartLen(n) : c = Pre(n, k)
    BY <1>4
  <2>2. PICK k \in 1..StartLen(n) : c = Pre(n, k)
    BY <2>1
  <2>3. c \in Seq(Blocks) /\ Len(c) = k /\ k \in Nat \ {0} /\ DOMAIN c = 1..k
    BY <1>2, <2>2
  <2>4. \A i \in 1..k : c[i] = Entry(n, i)
    BY <1>3, <2>2
  <2>. HIDE DEF Pre
  <2>5. c # <<>> /\ c[1] = Genesis
    <3>1. StartId(n, 1 - 1) = 0 /\ StartId(n, 1 - 2) = -1
      BY <1>1 DEF StartId
    <3>2. 1 \in 1..k
      BY <2>3
    <3>. QED  BY <2>3, <2>4, <3>1, <3>2 DEF Genesis, Entry
  <2>6. \A i \in 1..k : i > 1 => c[i].height = i - 1 /\ c[i].parent = c[i - 1].id
    <3>. TAKE i \in 1..k
    <3>. HAVE i > 1
    <3>1. i - 1 \in 1..k /\ (i - 1) - 1 = i - 2
      BY <2>3
    <3>2. c[i - 1].id = StartId(n, i - 2)
      BY <1>0, <2>4, <3>1
    <3>. QED  BY <1>0, <2>4, <3>2
  <2>7. \A i, j \in 1..k : i # j => c[i].txs \cap c[j].txs = {}
    BY <1>0, <2>4
  <2>. QED  BY <2>3, <2>5, <2>6, <2>7 DEF Linked
<1>8. ASSUME NEW c \in K, NEW k \in 1..Len(c) PROVE SubSeq(c, 1, k) \in K
  <2>1. PICK n \in Nodes : \E j \in 1..StartLen(n) : c = Pre(n, j)
    BY <1>4
  <2>2. PICK j \in 1..StartLen(n) : c = Pre(n, j)
    BY <2>1
  <2>3. /\ c \in Seq(Blocks) /\ Len(c) = j /\ j \in Nat \ {0} /\ \A i \in 1..j : c[i] = Started(n)[i]
    BY <1>2, <2>2
  <2>4. k \in 1..j /\ k \in 1..StartLen(n)
    BY <1>2, <2>2, <2>3
  <2>5. /\ Pre(n, k) \in Seq(Blocks) /\ Len(Pre(n, k)) = k /\ \A i \in 1..k : Pre(n, k)[i] = Started(n)[i]
    BY <1>2, <2>4
  <2>. DEFINE l == SubSeq(c, 1, k)
  <2>. HIDE DEF Pre
  <2>6. l \in Seq(Blocks) /\ Len(l) = k /\ \A i \in 1..k : l[i] = c[i]
    BY <2>3, <2>4
  <2>. HIDE DEF l
  <2>7. \A i \in 1..k : l[i] = Pre(n, k)[i]
    BY <2>3, <2>4, <2>5, <2>6
  <2>8. l = Pre(n, k)
    BY <2>5, <2>6, <2>7, SeqEqual
  <2>9. l \in K
    BY <1>5, <2>4, <2>8
  <2>. QED  BY <2>9 DEF l
<1>9. ASSUME NEW c \in K, NEW d \in K, c[Len(c)].id = d[Len(d)].id PROVE c = d
  <2>1. PICK n \in Nodes : \E j \in 1..StartLen(n) : c = Pre(n, j)
    BY <1>4
  <2>2. PICK j \in 1..StartLen(n) : c = Pre(n, j)
    BY <2>1
  <2>3. PICK m \in Nodes : \E k \in 1..StartLen(m) : d = Pre(m, k)
    BY <1>4
  <2>4. PICK k \in 1..StartLen(m) : d = Pre(m, k)
    BY <2>3
  <2>5. c \in Seq(Blocks) /\ Len(c) = j /\ d \in Seq(Blocks) /\ Len(d) = k /\ j \in Nat \ {0} /\ k \in Nat \ {0}
    BY <1>2, <2>2, <2>4
  <2>6. (\A i \in 1..j : c[i] = Entry(n, i)) /\ (\A i \in 1..k : d[i] = Entry(m, i))
    BY <1>3, <2>2, <2>4
  <2>. HIDE DEF Pre
  <2>7. StartId(n, j - 1) = StartId(m, k - 1)
    <3>1. j \in 1..j /\ k \in 1..k
      BY <2>5
    <3>2. c[j].id = StartId(n, j - 1) /\ d[k].id = StartId(m, k - 1)
      BY <1>0, <2>6, <3>1
    <3>. QED  BY <1>9, <2>5, <3>2
  <2>8. j = k /\ (n = m \/ j - 1 <= left.shared)
    BY <2>7, StartIdsDiffer
  <2>9. \A i \in 1..j : StartId(n, i - 1) = StartId(m, i - 1) /\ StartId(n, i - 2) = StartId(m, i - 2)
    <3>1. CASE n = m
      BY <3>1
    <3>2. CASE j - 1 <= left.shared
      BY <1>1, <2>5, <3>2 DEF StartId
    <3>. QED  BY <2>8, <3>1, <3>2
  <2>10. \A i \in 1..j : c[i] = d[i]
    <3>1. \A i \in 1..j : Entry(n, i) = Entry(m, i)
      BY <2>9 DEF Entry
    <3>. QED  BY <2>6, <2>8, <3>1
  <2>. QED  BY <2>5, <2>8, <2>10, SeqEqual
<1>10. Ancestries(K)
  BY <1>6, <1>7, <1>8, <1>9 DEF Ancestries
<1>11. \A n \in Nodes : Started(n) \in K
  <2>. TAKE n \in Nodes
  <2>1. Started(n) \in Seq(Blocks) /\ Len(Started(n)) = StartLen(n) /\ StartLen(n) \in 1..StartLen(n)
    BY StartedFacts
  <2>2. Pre(n, StartLen(n)) = Started(n)
    BY <2>1, SubSeqFull
  <2>. HIDE DEF Pre
  <2>. QED  BY <1>5, <2>1, <2>2
<1>12. mined \in Nat /\ \A c \in K : c[Len(c)].id <= mined
  <2>1. mined = left.shared + left.own[First] + left.own[Peer(First)] /\ Peer(First) \in Nodes
    BY FirstIsNode, PeerIsNode DEF Init
  <2>2. mined \in Nat
    BY <1>1, <2>1
  <2>3. ASSUME NEW c \in K PROVE c[Len(c)].id <= mined
    <3>1. PICK n \in Nodes : \E k \in 1..StartLen(n) : c = Pre(n, k)
      BY <1>4
    <3>2. PICK k \in 1..StartLen(n) : c = Pre(n, k)
      BY <3>1
    <3>3. Len(c) = k /\ k \in Nat \ {0}
      BY <1>2, <3>2
    <3>4. c[k].id = StartId(n, k - 1)
      <4>1. k \in 1..k
        BY <3>3
      <4>. QED  BY <1>0, <1>3, <3>2, <4>1
    <3>5. n = First \/ n = Peer(First)
      BY FirstIsNode
    <3>6. StartId(n, k - 1) <= mined
      <4>1. k <= left.shared + left.own[n] + 1 /\ left.own[n] \in Nat /\ left.own[Peer(First)] \in Nat
        BY <1>1, <2>1, <3>3 DEF StartLen
      <4>. QED  BY <1>1, <2>1, <3>3, <3>5, <4>1 DEF StartId
    <3>. QED  BY <3>3, <3>4, <3>6
  <2>. QED  BY <2>2, <2>3
<1>13. Fits(K)
  <2>1. chain \in [Nodes -> K]
    BY <1>11 DEF Init
  <2>2. wire \in Wires(K)
    BY EmptyEcho DEF Init, Wires
  <2>3. fetched \in Downloads(K)
    <3>1. NothingFetched \in [stop : Nat, blocks : Seq(Heads(K))]
      BY EmptyEcho DEF NothingFetched
    <3>. QED  BY <3>1 DEF Init, Downloads
  <2>4. pool \in [Nodes -> SmallPools]
    <3>1. {} \in SmallPools
      BY FS_EmptySet, NetworkAssumption DEF SmallPools, Pools
    <3>. QED  BY <3>1 DEF Init
  <2>5. peer \in Peers
    BY DEF Init, Peers
  <2>6. Control
    BY RestingOk DEF Init, Control, Waiters, TaskStates, NoWaiter
  <2>. QED  BY <1>12, <2>1, <2>2, <2>3, <2>4, <2>5, <2>6 DEF Fits
<1>. QED  BY <1>10, <1>13 DEF NetworkInv

-----------------------------------------------------------------------------
(* The theorems *)

LEMMA NetworkStep ==
    ASSUME NetworkInv, [Next]_vars
    PROVE  NetworkInv'
<1>1. PICK K : Ancestries(K) /\ Fits(K)
  BY DEF NetworkInv
<1>2. SUFFICES ASSUME ~NetworkInv' PROVE FALSE
  OBVIOUS
<1>3. ~Fits(K)'
  BY <1>1, <1>2 DEF NetworkInv
<1>4. ASSUME UNCHANGED vars PROVE FALSE
  <2>1. Control'
    BY <1>1, <1>4 DEF Fits, Control, vars
  <2>. QED  BY <1>1, <1>3, <1>4, <2>1, FitsAfter DEF Fits, vars
<1>5. ASSUME NEW n \in Nodes, Step(n) PROVE FALSE
  <2>1. CASE SyncStarts(n)
    BY <1>1, <1>3, <2>1, SyncStartsFits
  <2>2. CASE RestGoesOn(n)
    BY <1>1, <1>3, <2>2, RestGoesOnFits
  <2>3. CASE Answered(n)
    BY <1>1, <1>3, <2>3, AnsweredFits
  <2>4. CASE Handles(n)
    BY <1>1, <1>3, <2>4, HandlesFits
  <2>5. CASE CatchUpTick(n)
    BY <1>1, <1>3, <2>5, CatchUpTickFits
  <2>6. ASSUME NEW t \in Tasks, TimesOut(n, t) PROVE FALSE
    BY <1>1, <1>3, <2>6, TimesOutFits
  <2>. QED  BY <1>5, <2>1, <2>2, <2>3, <2>4, <2>5, <2>6 DEF Step
<1>6. ASSUME NEW n \in Nodes, MineBlock(n) PROVE FALSE
  BY <1>1, <1>2, <1>6, MineBlockInv
<1>7. ASSUME NEW n \in Nodes, RestStarts(n) PROVE FALSE
  BY <1>1, <1>3, <1>7, RestStartsFits
<1>8. ASSUME NEW n \in Nodes, CatchUpSync(n) PROVE FALSE
  BY <1>1, <1>3, <1>8, CatchUpSyncFits
<1>9. ASSUME NEW n \in Nodes, FastStarts(n) PROVE FALSE
  BY <1>1, <1>3, <1>9, FastStartsFits
<1>10. ASSUME NEW n \in Nodes, NEW t \in Txs, SubmitTx(n, t) PROVE FALSE
  BY <1>1, <1>3, <1>10, SubmitTxFits
<1>11. ASSUME Connect PROVE FALSE
  BY <1>1, <1>3, <1>11, ConnectFits
<1>12. ASSUME Disconnect PROVE FALSE
  BY <1>1, <1>3, <1>12, DisconnectFits
<1>. QED  BY <1>4, <1>5, <1>6, <1>7, <1>8, <1>9, <1>10, <1>11, <1>12 DEF Next

LEMMA NetworkInvImplies ==
    ASSUME NetworkInv
    PROVE  ChainsLinked /\ PoolBounded
<1>1. PICK K : Ancestries(K) /\ Fits(K)
  BY DEF NetworkInv
<1>2. \A n \in Nodes : Linked(chain[n])
  BY <1>1 DEF Ancestries, Fits
<1>3. \A n \in Nodes : pool[n] \in SmallPools
  BY <1>1 DEF Fits
<1>. QED  BY <1>2, <1>3 DEF ChainsLinked, Linked, PoolBounded, SmallPools

\* p2p_node.py, sync_engine.py, blockchain.py reorg_to_ancestor: whatever gossip,
\* catching up, reconciliation and fast_sync do to each other's chain between two
\* awaits, a node's blocks are linked from the genesis and hold no transaction twice.
THEOREM LinkedChains == Spec => []ChainsLinked
<1>1. Init => NetworkInv
  BY StartAncestries
<1>2. NetworkInv /\ [Next]_vars => NetworkInv'
  BY NetworkStep
<1>3. NetworkInv => ChainsLinked
  BY NetworkInvImplies
<1>. QED  BY <1>1, <1>2, <1>3, PTL DEF Spec

\* mempool.py: neither a client, gossip nor the pool of a peer makes the mempool larger
\* than max_size.
THEOREM BoundedPools == Spec => []PoolBounded
<1>1. Init => NetworkInv
  BY StartAncestries
<1>2. NetworkInv /\ [Next]_vars => NetworkInv'
  BY NetworkStep
<1>3. NetworkInv => PoolBounded
  BY NetworkInvImplies
<1>. QED  BY <1>1, <1>2, <1>3, PTL DEF Spec
=============================================================================
