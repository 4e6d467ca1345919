----------------------------- MODULE NodeProofs -----------------------------
(***************************************************************************)
(* Theorems about the parts of one node that NodeParts composes, for every   *)
(* value of the constants: its engines, its start and its EVM, then the parts *)
(* that face its peers, its clients and its database file.                   *)
(***************************************************************************)
EXTENDS NodeParts, SumTheorems, TLAPS

-----------------------------------------------------------------------------
(* The Casper and the beacon engine *)

\* The fields of an engine.
IsEngine(g) ==
    g = [members |-> g.members, latest |-> g.latest, blocks |-> g.blocks, weight |-> g.weight, seen |-> g.seen,
         justified |-> g.justified, final |-> g.final, lastJust |-> g.lastJust, lastFinal |-> g.lastFinal]

\* What TwoStep says of one engine, and that the last finalized epoch is one that is
\* justified: without this the block of that epoch could still be given.
EngineInv(g) ==
    /\ IsEngine(g)
    /\ Justified(g) \subseteq Int
    /\ \A e \in g.final : {e, e + 1} \subseteq Justified(g)
    /\ g.lastFinal # NoCheckpoint =>
          g.lastFinal.epoch \in Justified(g) /\ g.justified[g.lastFinal.epoch] = g.lastFinal.hash

GadgetsInv == EngineInv(casper) /\ EngineInv(beacon)

\* A change of any other field keeps it.
LEMMA SameFinality ==
    ASSUME NEW g, EngineInv(g), NEW h, IsEngine(h),
           h.justified = g.justified, h.final = g.final, h.lastFinal = g.lastFinal
    PROVE  EngineInv(h)
BY DEF EngineInv, Justified

LEMMA NewEngineInv == EngineInv(NewEngine)
BY DEF EngineInv, IsEngine, NewEngine, Justified, NoCheckpoint

LEMMA JustifyEpochInv ==
    ASSUME NEW g, EngineInv(g), NEW e \in Int, NEW b
    PROVE  EngineInv(JustifyEpoch(g, e, b)) /\ e \in Justified(JustifyEpoch(g, e, b))
BY DEF EngineInv, IsEngine, JustifyEpoch, Justified, With

LEMMA TryFinalizeInv ==
    ASSUME NEW g, EngineInv(g), NEW e \in Int, e \in Justified(g)
    PROVE  EngineInv(TryFinalize(g, e))
<1>. DEFINE h == TryFinalize(g, e)
<1>1. CASE e - 1 \in Justified(g) \ g.final
  <2>1. h = [g EXCEPT !.final = @ \cup {e - 1}, !.lastFinal = [epoch |-> e - 1, hash |-> g.justified[e - 1]]]
    BY <1>1 DEF TryFinalize
  <2>2. IsEngine(h) /\ h.justified = g.justified /\ h.final = g.final \cup {e - 1}
        /\ h.lastFinal = [epoch |-> e - 1, hash |-> g.justified[e - 1]]
    BY <2>1 DEF EngineInv, IsEngine
  <2>3. (e - 1) + 1 = e
    OBVIOUS
  <2>. QED  BY <1>1, <2>2, <2>3 DEF EngineInv, Justified
<1>2. CASE e - 1 \notin Justified(g) \ g.final
  BY <1>2 DEF TryFinalize
<1>. QED  BY <1>1, <1>2

LEMMA EvaluateInv ==
    ASSUME NEW g, EngineInv(g), NEW e \in Int
    PROVE  (\A h \in CasperEvaluate(g, e) : EngineInv(h)) /\ (\A h \in BeaconEvaluate(g, e) : EngineInv(h))
BY JustifyEpochInv, TryFinalizeInv DEF CasperEvaluate, BeaconEvaluate

LEMMA PreparedInv ==
    ASSUME NEW g, EngineInv(g), NEW h \in Prepared(g)
    PROVE  EngineInv(h)
<1>1. IsEngine(h) /\ h.justified = g.justified /\ h.final = g.final /\ h.lastFinal = g.lastFinal
  BY DEF Prepared, AddValidator, AddBlock, EngineInv, IsEngine
<1>. QED  BY <1>1, SameFinality

LEMMA VotedInv ==
    ASSUME NEW g, EngineInv(g), NEW v, NEW b, NEW s, NEW e, NEW w
    PROVE  EngineInv(LmdUpdate(g, v, b, s)) /\ EngineInv(Voted(LmdUpdate(g, v, b, s), e, b, w))
<1>. DEFINE u == LmdUpdate(g, v, b, s)
            x == Voted(u, e, b, w)
<1>1. IsEngine(u) /\ u.justified = g.justified /\ u.final = g.final /\ u.lastFinal = g.lastFinal
  BY DEF LmdUpdate, EngineInv, IsEngine
<1>2. IsEngine(x) /\ x.justified = u.justified /\ x.final = u.final /\ x.lastFinal = u.lastFinal
  <2>. DEFINE wt == [u.weight EXCEPT ![<<e, b>>] = @ + w]
              sn == u.seen \cup {<<e, b>>}
  <2>1. x = [u EXCEPT !.weight = wt, !.seen = sn]
    BY DEF Voted
  <2>. HIDE DEF wt, sn, x, u
  <2>. QED  BY <1>1, <2>1 DEF IsEngine
<1>. QED  BY <1>1, <1>2, SameFinality

\* Block numbers and slots are natural numbers, so that they have an epoch.
LEMMA EpochIsInt == \A n \in Nat : GetEpoch(n) \in Int
BY GadgetsAssumption DEF GetEpoch

LEMMA GadgetsInitInv == GadgetsInit => GadgetsInv
BY NewEngineInv DEF GadgetsInit, GadgetsInv

LEMMA GadgetsStepInv ==
    ASSUME GadgetsInv, CasperNext \/ BeaconNext \/ SlotsNext \/ UNCHANGED gadgetVars
    PROVE  GadgetsInv'
<1>1. CASE CasperPrepare
  BY <1>1, PreparedInv DEF CasperPrepare, GadgetsInv
<1>2. CASE BeaconPrepare
  BY <1>2, PreparedInv DEF BeaconPrepare, GadgetsInv
<1>3. CASE GadgetsRestart
  BY <1>3, NewEngineInv DEF GadgetsRestart, GadgetsInv
<1>4. ASSUME NEW v \in Attesters, NEW b \in Checkpoints, NEW s \in 0..MaxSlot, CasperAttestation(v, b, s)
      PROVE  GadgetsInv'
  <2>. DEFINE g == LmdUpdate(casper, v, b, s)
              e == GetEpoch(NumberOf[b])
  <2>1. e \in Int
    BY EpochIsInt, GadgetsAssumption
  <2>2. EngineInv(g) /\ EngineInv(Voted(g, e, b, GetWeights(g, b)))
    BY VotedInv DEF GadgetsInv
  <2>3. \A h \in CasperEvaluate(Voted(g, e, b, GetWeights(g, b)), e) : EngineInv(h)
    BY <2>1, <2>2, EvaluateInv
  <2>4. casper' \in (IF b \in g.blocks THEN CasperEvaluate(Voted(g, e, b, GetWeights(g, b)), e) ELSE {g}) /\ beacon' = beacon
    BY <1>4 DEF CasperAttestation
  <2>. QED  BY <2>2, <2>3, <2>4 DEF GadgetsInv
<1>5. ASSUME NEW v \in Attesters, NEW b \in Checkpoints, NEW s \in 0..MaxSlot, BeaconAttestation(v, b, s)
      PROVE  GadgetsInv'
  <2>. DEFINE g == Voted(LmdUpdate(beacon, v, b, s), GetEpoch(s), b, 1)
  <2>1. GetEpoch(s) \in Int
    BY EpochIsInt, GadgetsAssumption
  <2>2. EngineInv(g)
    BY VotedInv DEF GadgetsInv
  <2>3. \A h \in BeaconEvaluate(g, GetEpoch(s)) : EngineInv(h)
    BY <2>1, <2>2, EvaluateInv
  <2>4. (beacon' \in BeaconEvaluate(g, GetEpoch(s)) \/ beacon' = beacon) /\ casper' = casper
    BY <1>5 DEF BeaconAttestation
  <2>. QED  BY <2>3, <2>4 DEF GadgetsInv
<1>6. ASSUME NEW e \in Epochs, CasperUpdate(e)
      PROVE  GadgetsInv'
  <2>1. e \in Int
    BY DEF Epochs
  <2>. QED  BY <1>6, <2>1, EvaluateInv DEF CasperUpdate, GadgetsInv
<1>7. ASSUME NEW s, Attest(s)
      PROVE  GadgetsInv'
  BY <1>7 DEF Attest, GadgetsInv
<1>8. ASSUME NEW got, AdvanceSlot(got)
      PROVE  GadgetsInv'
  BY <1>8 DEF AdvanceSlot, GadgetsInv
<1>9. CASE UNCHANGED gadgetVars
  BY <1>9 DEF gadgetVars, GadgetsInv
<1>. QED  BY <1>1, <1>2, <1>3, <1>4, <1>5, <1>6, <1>7, <1>8, <1>9 DEF CasperNext, BeaconNext, SlotsNext

\* TwoStep for every set of attesters and blocks and every length of an epoch: the Casper
\* and the beacon engine (finality_casper.py, finality_beacon.py) finalize an epoch only
\* when it and the next are justified, with the block it was justified with.
THEOREM TwoStepFinality == NodeSpec => []TwoStep
<1>1. NodeInit => GadgetsInv
  BY GadgetsInitInv DEF NodeInit
<1>2. GadgetsInv /\ [NodeNext]_nodeVars => GadgetsInv'
  <2>. SUFFICES ASSUME GadgetsInv, [NodeNext]_nodeVars PROVE GadgetsInv'
    OBVIOUS
  <2>1. CasperNext \/ BeaconNext \/ SlotsNext \/ UNCHANGED gadgetVars
    BY DEF NodeNext, nodeVars
  <2>. QED  BY <2>1, GadgetsStepInv
<1>3. GadgetsInv => TwoStep
  BY DEF GadgetsInv, EngineInv, TwoStep
<1>. QED  BY <1>1, <1>2, <1>3, PTL DEF NodeSpec
-----------------------------------------------------------------------------
(* The start of the node *)

HasFields(r, names) == DOMAIN r = names /\ r = [k \in names |-> r[k]]

IsSelf(r) == HasFields(r, {"founder", "miner", "signing", "wallet", "devOnly", "attests", "parts"})

\* The fields of store and self, and the types that matter.
StartupShape ==
    /\ HasFields(store, {"file", "signer", "genesis", "applied", "paid", "grants", "validators", "height"})
    /\ IsSelf(self)
    /\ conf \in Configurations /\ store.grants \in {0, 1} /\ store.height \in Nat
    /\ store.signer \in BOOLEAN /\ store.applied \in BOOLEAN /\ store.genesis \in BOOLEAN

BeforeWallet == {"files", "chain", "mint", "wallet"}
PastGenesis == {"applied", "validators", "core", "features", "keys", "services", "engines", "start", "up"}
PastFunding == {"genesis"} \cup PastGenesis

\* With the template installed the founder is known before anything is paid.
TemplateFounds ==
    conf.template =>
        /\ store.paid \subseteq {Template} /\ store.file \in {NoAddress, Template}
        /\ phase \notin {"down", "files"} =>
              store.file = Template /\ self.founder = Template /\ self.miner # NoAddress

\* A file is the template or a wallet made here.
FileKinds == store.file = NoAddress \/ (store.file = Template /\ conf.template) \/ HasKey(store.file)

\* The configurations in which dev_signer.json signs.
SignerUsed == conf.template /\ conf.mining /\ ~conf.env /\ ~conf.prod

\* Whatever dies on the way: the signer is funded before the chain has anything, and in
\* these configurations no start gets past the funding without it.
SignerFunded ==
    /\ store.signer \/ self.wallet = DevSigner => SignerUsed
    /\ phase \in BeforeWallet => self.wallet = NoAddress
    /\ phase = "signer" /\ self.wallet = NoAddress /\ store.file # NoAddress /\ conf.mining =>
          ~conf.env /\ ~HasKey(store.file)
    /\ SignerUsed =>
          /\ phase = "signer" => self.wallet = NoAddress
          /\ store.applied \/ store.height > 0 \/ phase \in PastFunding => store.grants = 1

StartupInv ==
    /\ StartupShape /\ TemplateFounds /\ FileKinds /\ SignerFunded
    /\ phase \in PastGenesis => store.paid # {}

\* The addresses are told apart.
LEMMA AddressesDiffer ==
    /\ Template # NoAddress /\ EnvKey # NoAddress /\ DevSigner # NoAddress /\ MinerFlag # NoAddress
    /\ EnvKey # DevSigner /\ OwnValidator # DevSigner /\ ~HasKey(Template) /\ ~HasKey(NoAddress)
    /\ Template # DevSigner /\ \A f : HasKey(f) => f # DevSigner
    /\ \A n : HasKey(NewWallet(n)) /\ NewWallet(n) # DevSigner /\ NewWallet(n) # NoAddress
BY StartupAssumption DEF Template, EnvKey, DevSigner, MinerFlag, NoAddress, NewWallet, HasKey

LEMMA StartupInitInv == StartupInit => StartupInv
<1>. SUFFICES ASSUME StartupInit PROVE StartupInv
  OBVIOUS
<1>1. StartupShape
  BY DEF StartupInit, StartupShape, FreshSelf, IsSelf, HasFields
<1>2. TemplateFounds /\ FileKinds /\ SignerFunded
  BY AddressesDiffer DEF StartupInit, TemplateFounds, FileKinds, SignerFunded, FreshSelf, BeforeWallet, PastGenesis, PastFunding
<1>. QED  BY <1>1, <1>2 DEF StartupInit, StartupInv, PastGenesis

LEMMA StartupStepInv ==
    ASSUME StartupInv, StartupNext
    PROVE  StartupInv'
<1>. USE AddressesDiffer DEF StartupInv, StartupShape, TemplateFounds, FileKinds, SignerFunded, SignerUsed,
         BeforeWallet, PastGenesis, PastFunding, Step, IsSelf, HasFields
<1>1. CASE Launch
  BY <1>1 DEF Launch, FreshSelf
<1>2. CASE InstallTemplate
  BY <1>2 DEF InstallTemplate, Or
<1>3. CASE EnsureGenesis
  BY <1>3 DEF EnsureGenesis
<1>4. CASE MintGenesis
  BY <1>4 DEF MintGenesis, Or
<1>5. CASE LoadWallet
  <2>. DEFINE f == store.file
              me == Loaded(self)
              with == [self EXCEPT !.founder = Or(@, f), !.miner = Or(@, f)]
  <2>0. /\ IsSelf(with) /\ with.founder = Or(self.founder, f) /\ with.miner = Or(self.miner, f)
        /\ with.wallet = self.wallet
    OBVIOUS
  <2>1. /\ IsSelf(me)
        /\ me.wallet \in {NoAddress, EnvKey, f}
        /\ f # NoAddress => me.founder = Or(self.founder, f)
        /\ self.miner # NoAddress => me.miner # NoAddress
        /\ f # NoAddress /\ ~HasKey(f) /\ ~conf.env => me.wallet = NoAddress
        /\ f # NoAddress /\ conf.mining /\ (HasKey(f) \/ conf.env) => me.wallet # NoAddress
    <3>1. CASE f = NoAddress
      BY <1>5, <2>0, <3>1 DEF Loaded, Signs, LoadWallet
    <3>2. CASE f # NoAddress /\ HasKey(f)
      BY <1>5, <2>0, <3>2 DEF Loaded, Signs, LoadWallet, Or
    <3>3. CASE f # NoAddress /\ ~HasKey(f) /\ conf.env
      BY <1>5, <2>0, <3>3 DEF Loaded, Signs, LoadWallet, Or
    <3>4. CASE f # NoAddress /\ ~HasKey(f) /\ ~conf.env
      BY <1>5, <2>0, <3>4 DEF Loaded, Signs, LoadWallet, Or
    <3>. QED  BY <3>1, <3>2, <3>3, <3>4
  <2>2. /\ store' = store /\ self' = me /\ conf' = conf /\ phase = "wallet" /\ phase' \in {"down", "signer"}
    BY <1>5 DEF LoadWallet
  <2>. HIDE DEF me, with
  <2>3. f # DevSigner
    OBVIOUS
  <2>. QED  BY <2>1, <2>2, <2>3 DEF Or
<1>6. CASE DevSigning
  <2>1. CASE ~conf.mining \/ (~store.signer /\ (store.height >= 1 \/ store.applied))
    BY <1>6, <2>1 DEF DevSigning
  <2>2. CASE ~(~conf.mining \/ (~store.signer /\ (store.height >= 1 \/ store.applied)))
    <3>1. /\ self' = [self EXCEPT !.wallet = DevSigner, !.signing = DevSigner, !.devOnly = TRUE]
          /\ store' = [store EXCEPT !.signer = TRUE] /\ conf' = conf /\ phase' = "fund"
      BY <1>6, <2>2 DEF DevSigning, SignerReady, Signs
    <3>2. SignerUsed
      BY <1>6, <2>2 DEF DevSigning
    <3>. QED  BY <1>6, <3>1, <3>2 DEF DevSigning
  <2>. QED  BY <2>1, <2>2
<1>7. CASE FundSigner
  BY <1>7 DEF FundSigner
<1>8. CASE HaveWallet
  BY <1>8 DEF HaveWallet
<1>9. ASSUME NEW saved \in BOOLEAN, CreateWallet(saved)
      PROVE  StartupInv'
  BY <1>9 DEF CreateWallet, Or
<1>10. CASE ApplyGenesisAllocation
  BY <1>10 DEF ApplyGenesisAllocation, Or
<1>11. CASE SetApplied
  BY <1>11 DEF SetApplied
<1>12. CASE RegisterValidators
  <2>. DEFINE me == [DevnetSelf EXCEPT !.miner = Or(@, <<"port", 0>>)]
              last == [me EXCEPT !.miner = MinesAs(me)]
              vs == Registered(store.validators, me)
  <2>1. IsSelf(DevnetSelf) /\ DevnetSelf.founder = self.founder /\ DevnetSelf.wallet \in {self.wallet, OwnValidator}
    BY DEF DevnetSelf, Signs
  <2>2. /\ IsSelf(last) /\ last.founder = self.founder /\ last.wallet \in {self.wallet, OwnValidator}
        /\ last.miner # NoAddress
    BY <2>1 DEF Or, MinesAs, NoAddress
  <2>3. /\ phase = "validators" /\ phase' = "core" /\ conf' = conf /\ self' = last
        /\ store' = [store EXCEPT !.validators = vs]
    BY <1>12 DEF RegisterValidators
  <2>. HIDE DEF last, vs
  <2>. QED  BY <2>2, <2>3
<1>13. CASE BuildCore \/ BuildFeatures \/ BuildServices \/ BuildEngines
  BY <1>13 DEF BuildCore, BuildFeatures, BuildServices, BuildEngines, Build
<1>14. CASE RegisterAttester
  BY <1>14 DEF RegisterAttester
<1>15. CASE Start \/ NodeMines \/ StopOrDie
  BY <1>15 DEF Start, NodeMines, StopOrDie
<1>. QED  BY <1>1, <1>2, <1>3, <1>4, <1>5, <1>6, <1>7, <1>8, <1>9, <1>10, <1>11, <1>12, <1>13, <1>14, <1>15 DEF StartupNext

\* FounderPaidOnce for every manifest and any number of starts (main.py): with the
\* founder's wallet file installed the share goes to one address, and the signer of a new
\* devnet is funded once, wherever the process dies on the way.
THEOREM FounderPaid == NodeSpec => []FounderPaidOnce
<1>1. NodeInit => StartupInv
  BY StartupInitInv DEF NodeInit
<1>2. StartupInv /\ [NodeNext]_nodeVars => StartupInv'
  <2>. SUFFICES ASSUME StartupInv, [NodeNext]_nodeVars PROVE StartupInv'
    OBVIOUS
  <2>1. CASE StartupNext
    BY <2>1, StartupStepInv
  <2>2. CASE UNCHANGED startVars
    BY <2>2 DEF startVars, StartupInv, StartupShape, TemplateFounds, FileKinds, SignerFunded, SignerUsed
  <2>. QED  BY <2>1, <2>2 DEF NodeNext, nodeVars
<1>3. StartupInv => FounderPaidOnce
  BY DEF StartupInv, TemplateFounds, SignerFunded, SignerUsed, PastFunding, PastGenesis, FounderPaidOnce
<1>. QED  BY <1>1, <1>2, <1>3, PTL DEF NodeSpec

-----------------------------------------------------------------------------
(* The EVM *)

Addrs == People \cup CodeAddrs
Kinds == {"deploy", "transaction", "static", "call", "callcode", "delegatecall", "staticcall", "create"}
Stored == Cells \cup {0}
AccountRows == [bal : Nat, code : BOOLEAN, store : Stored, row : BOOLEAN]
Frames == [kind : Kinds, self : Addrs, from : Addrs, to : Addrs, value : Nat, cap : Nat, limit : Nat, used : Nat,
           store : Stored]

EvmTypes == world \in [Addrs -> AccountRows] /\ frames \in Seq(Frames) /\ sent \in Nat

\* ForwardedGasFits, of any stack of frames.
GasFits(fs) ==
    \A i \in 1..(Len(fs) - 1) : fs[i + 1].kind # "create" => fs[i].used + fs[i + 1].cap <= fs[i].limit

\* The frames that an exception or a return leaves.
LEMMA Prefix ==
    ASSUME NEW fs \in Seq(Frames), NEW n \in 0..Len(fs)
    PROVE  /\ SubSeq(fs, 1, n) \in Seq(Frames) /\ Len(SubSeq(fs, 1, n)) = n
           /\ \A i \in 1..n : SubSeq(fs, 1, n)[i] = fs[i]
OBVIOUS

LEMMA PrefixFits ==
    ASSUME NEW fs \in Seq(Frames), GasFits(fs), NEW n \in 0..Len(fs)
    PROVE  GasFits(SubSeq(fs, 1, n))
BY Prefix DEF GasFits

LEMMA UnwoundIsPrefix ==
    ASSUME NEW fs \in Seq(Frames)
    PROVE  \E n \in 0..Len(fs) : Unwound(fs) = SubSeq(fs, 1, n)
<1>. DEFINE made == {i \in DOMAIN fs : fs[i].kind = "create"}
<1>1. CASE made = {}
  <2>1. Unwound(fs) = <<>>
    BY <1>1 DEF Unwound
  <2>. QED  BY <2>1
<1>2. CASE made # {}
  <2>1. made \subseteq Nat /\ \A x \in made : x <= Len(fs)
    OBVIOUS
  <2>2. Max(made) \in made
    <3>1. Len(fs) \in Nat
      OBVIOUS
    <3>. HIDE DEF made
    <3>. QED  BY <1>2, <2>1, <3>1, MaxIsIn
  <2>3. Unwound(fs) = SubSeq(fs, 1, Max(made) - 1)
    BY <1>2 DEF Unwound
  <2>4. Max(made) \in 1..Len(fs)
    BY <2>2
  <2>. HIDE DEF made
  <2>. QED  BY <2>3, <2>4
<1>. QED  BY <1>1, <1>2

\* What is forwarded is never more than what is left, the stipend included.
LEMMA ForwardedFits ==
    ASSUME NEW left \in Nat, NEW asked \in {0, 1}, NEW v \in Nat
    PROVE  Forwarded(left, asked, v) \in Nat /\ Forwarded(left, asked, v) <= left
<1>. DEFINE cap == (left * 63) \div 64
            base == IF asked = 0 \/ asked > cap THEN cap ELSE asked
<1>1. cap \in Nat /\ cap <= left
  OBVIOUS
<1>2. base \in Nat /\ base <= left
  BY <1>1
<1>. HIDE DEF base
<1>3. Min({left, base + Stipend}) = IF left <= base + Stipend THEN left ELSE base + Stipend
  BY <1>2, MinOfTwo, EvmAssumption
<1>4. Forwarded(left, asked, v) = IF v > 0 THEN Min({left, base + Stipend}) ELSE base
  BY DEF Forwarded, base
<1>. QED  BY <1>2, <1>3, <1>4, EvmAssumption

\* The balances of a table, and the values that the frames still have to move.
Bals(w) == [a \in Addrs |-> w[a].bal]
Wealth(w) == Total(Bals(w), Addrs)
Values(fs) == [i \in 1..Len(fs) |-> fs[i].value]
Pending(fs) == Total(Values(fs), 1..Len(fs))

Worlds == [Addrs -> AccountRows]

LEMMA AddrsFinite == IsFiniteSet(Addrs)
BY EvmAssumption DEF Addrs

LEMMA WealthType == \A w \in Worlds : Wealth(w) \in Nat
<1>. SUFFICES ASSUME NEW w \in Worlds PROVE Wealth(w) \in Nat
  OBVIOUS
<1>1. \A x \in Addrs : Bals(w)[x] \in Nat
  BY DEF Worlds, AccountRows, Bals
<1>. QED  BY <1>1, AddrsFinite, TotalNat DEF Wealth

\* A row is written.
LEMMA WealthUpdate ==
    ASSUME NEW w \in Worlds, NEW u \in Worlds, NEW a \in Addrs, \A x \in Addrs \ {a} : u[x].bal = w[x].bal
    PROVE  Wealth(u) = Wealth(w) - w[a].bal + u[a].bal
<1>1. \A x \in Addrs : Bals(w)[x] = w[x].bal /\ Bals(w)[x] \in Int /\ Bals(u)[x] = u[x].bal /\ Bals(u)[x] \in Int
  BY DEF Worlds, AccountRows, Bals
<1>2. Total(Bals(u), Addrs) = Total(Bals(w), Addrs) - Bals(w)[a] + Bals(u)[a]
  BY <1>1, AddrsFinite, TotalUpdate
<1>. QED  BY <1>1, <1>2 DEF Wealth

LEMMA MovedBound ==
    ASSUME NEW w \in Worlds, NEW a \in Addrs, NEW b \in Addrs, NEW v \in Nat
    PROVE  /\ Moved(w, a, b, v) \in Worlds
           /\ Wealth(Moved(w, a, b, v)) <= Wealth(w) + v
           /\ v = w[a].bal => Wealth(Moved(w, a, b, v)) <= Wealth(w)
<1>0. Wealth(w) \in Nat /\ w[a].bal \in Nat
  BY WealthType DEF Worlds, AccountRows
<1>1. CASE v = 0
  BY <1>0, <1>1 DEF Moved
<1>2. CASE v # 0
  <2>. DEFINE left == IF w[a].bal >= v THEN w[a].bal - v ELSE 0
              paid == [w EXCEPT ![a].bal = left]
              done == [paid EXCEPT ![b].bal = @ + v, ![b].row = TRUE]
  <2>1. left \in Nat /\ left <= w[a].bal /\ (v = w[a].bal => left = w[a].bal - v)
    BY <1>0
  <2>2. paid \in Worlds /\ paid[a].bal = left /\ \A x \in Addrs \ {a} : paid[x].bal = w[x].bal
    <3>. HIDE DEF left
    <3>. QED  BY <2>1 DEF Worlds, AccountRows
  <2>. HIDE DEF paid, left
  <2>3. /\ done \in Worlds /\ paid[b].bal \in Nat /\ done[b].bal = paid[b].bal + v
        /\ \A x \in Addrs \ {b} : done[x].bal = paid[x].bal
    <3>. DEFINE mid == [paid EXCEPT ![b].bal = @ + v]
    <3>1. paid[b].bal \in Nat /\ paid[b].bal + v \in Nat
      BY <2>2 DEF Worlds, AccountRows
    <3>2. mid \in Worlds /\ mid[b].bal = paid[b].bal + v /\ \A x \in Addrs \ {b} : mid[x] = paid[x]
      BY <2>2, <3>1 DEF Worlds, AccountRows
    <3>3. done = [mid EXCEPT ![b].row = TRUE]
      BY <2>2 DEF Worlds, AccountRows
    <3>. HIDE DEF mid, done
    <3>. QED  BY <3>1, <3>2, <3>3 DEF Worlds, AccountRows
  <2>4. Moved(w, a, b, v) = done
    BY <1>2 DEF Moved, paid, left
  <2>. HIDE DEF done
  <2>5. Wealth(paid) = Wealth(w) - w[a].bal + left
    BY <2>2, WealthUpdate
  <2>6. Wealth(done) = Wealth(paid) - paid[b].bal + done[b].bal
    BY <2>2, <2>3, WealthUpdate
  <2>7. Wealth(paid) \in Nat
    BY <2>2, WealthType
  <2>. QED  BY <1>0, <2>1, <2>3, <2>4, <2>5, <2>6, <2>7
<1>. QED  BY <1>1, <1>2

LEMMA StorageSavedSame ==
    ASSUME NEW w \in Worlds, NEW a \in Addrs, NEW s \in Stored
    PROVE  StorageSaved(w, a, s) \in Worlds /\ Wealth(StorageSaved(w, a, s)) = Wealth(w)
<1>. DEFINE u == StorageSaved(w, a, s)
<1>1. u \in Worlds /\ (\A x \in Addrs \ {a} : u[x].bal = w[x].bal) /\ u[a].bal = w[a].bal /\ w[a].bal \in Nat
  BY DEF StorageSaved, Worlds, AccountRows
<1>. HIDE DEF u
<1>2. Wealth(u) = Wealth(w) - w[a].bal + u[a].bal /\ Wealth(w) \in Nat
  BY <1>1, WealthUpdate, WealthType
<1>3. Wealth(u) = Wealth(w)
  BY <1>1, <1>2
<1>. QED  BY <1>1, <1>3 DEF u

LEMMA ContractSavedBound ==
    ASSUME NEW w \in Worlds, NEW a \in Addrs, NEW from \in Addrs, NEW v \in Nat, NEW s \in Stored
    PROVE  ContractSaved(w, a, from, v, s) \in Worlds /\ Wealth(ContractSaved(w, a, from, v, s)) <= Wealth(w) + 2 * v
<1>. DEFINE u == [w EXCEPT ![a] = Account(v, TRUE, s, TRUE)]
<1>1. u \in Worlds /\ (\A x \in Addrs \ {a} : u[x].bal = w[x].bal) /\ u[a].bal = v /\ w[a].bal \in Nat
  BY DEF Account, Worlds, AccountRows
<1>. HIDE DEF u
<1>2. Wealth(u) = Wealth(w) - w[a].bal + u[a].bal /\ Wealth(w) \in Nat /\ Wealth(u) \in Nat
  BY <1>1, WealthUpdate, WealthType
<1>3. Moved(u, from, a, v) \in Worlds /\ Wealth(Moved(u, from, a, v)) <= Wealth(u) + v
  BY <1>1, MovedBound
<1>4. Wealth(Moved(u, from, a, v)) \in Nat
  BY <1>3, WealthType
<1>5. ContractSaved(w, a, from, v, s) = Moved(u, from, a, v)
  BY DEF ContractSaved, u
<1>. QED  BY <1>1, <1>2, <1>3, <1>4, <1>5

LEMMA SelfDestructedBound ==
    ASSUME NEW w \in Worlds, NEW a \in Addrs, NEW b \in Addrs
    PROVE  SelfDestructed(w, a, b) \in Worlds /\ Wealth(SelfDestructed(w, a, b)) <= Wealth(w)
<1>. DEFINE m == Moved(w, a, b, w[a].bal)
            u == [m EXCEPT ![a] = Account(0, FALSE, 0, TRUE)]
<1>1. w[a].bal \in Nat
  BY DEF Worlds, AccountRows
<1>2. m \in Worlds /\ Wealth(m) <= Wealth(w) /\ Wealth(m) \in Nat /\ Wealth(w) \in Nat
  BY <1>1, MovedBound, WealthType
<1>3. SelfDestructed(w, a, b) = u
  BY DEF SelfDestructed
<1>. HIDE DEF m
<1>4. u \in Worlds /\ (\A x \in Addrs \ {a} : u[x].bal = m[x].bal) /\ u[a].bal = 0 /\ m[a].bal \in Nat
  BY <1>2 DEF Account, Worlds, AccountRows, Stored
<1>. HIDE DEF u
<1>5. Wealth(u) = Wealth(m) - m[a].bal + u[a].bal /\ Wealth(u) \in Nat
  BY <1>2, <1>4, WealthUpdate, WealthType
<1>. QED  BY <1>2, <1>3, <1>4, <1>5

\* What a frame that ends leaves on disk: its value is made at most twice.
LEMMA SettledBound ==
    ASSUME NEW w \in Worlds, NEW f \in Frames, NEW r \in BOOLEAN
    PROVE  Settled(w, f, r) \in Worlds /\ Wealth(Settled(w, f, r)) <= Wealth(w) + 2 * f.value
<1>0. /\ f.value \in Nat /\ f.self \in Addrs /\ f.from \in Addrs /\ f.to \in Addrs /\ f.store \in Stored /\ f.kind \in Kinds
      /\ Wealth(w) \in Nat
  BY WealthType DEF Frames
<1>. DEFINE onSelf == StorageSaved(w, f.self, f.store)
            onTo == StorageSaved(w, f.to, f.store)
<1>1. onSelf \in Worlds /\ onTo \in Worlds /\ Wealth(onSelf) = Wealth(w) /\ Wealth(onTo) = Wealth(w)
  BY <1>0, StorageSavedSame
<1>. HIDE DEF onSelf, onTo
<1>. DEFINE fromSelf == Moved(onSelf, f.self, f.to, f.value)
            fromCaller == Moved(onTo, f.from, f.to, f.value)
            saved == ContractSaved(w, f.self, f.from, f.value, f.store)
<1>2. /\ fromSelf \in Worlds /\ Wealth(fromSelf) <= Wealth(w) + f.value
      /\ fromCaller \in Worlds /\ Wealth(fromCaller) <= Wealth(w) + f.value
      /\ saved \in Worlds /\ Wealth(saved) <= Wealth(w) + 2 * f.value
  BY <1>0, <1>1, MovedBound, ContractSavedBound
<1>3. Settled(w, f, r) \in {w, onSelf, fromSelf, fromCaller, saved}
  BY <1>0 DEF Settled, onSelf, onTo, Kinds
<1>. HIDE DEF fromSelf, fromCaller, saved
<1>4. Wealth(fromSelf) \in Nat /\ Wealth(fromCaller) \in Nat
  BY <1>2, WealthType
<1>. QED  BY <1>0, <1>1, <1>2, <1>3, <1>4


LEMMA PendingType ==
    ASSUME NEW fs \in Seq(Frames)
    PROVE  /\ IsFiniteSet(1..Len(fs)) /\ Len(fs) \in Nat /\ Pending(fs) \in Nat
           /\ \A i \in 1..Len(fs) : Values(fs)[i] = fs[i].value /\ Values(fs)[i] \in Nat
<1>1. IsFiniteSet(1..Len(fs)) /\ Len(fs) \in Nat
  BY FS_Interval
<1>2. \A i \in 1..Len(fs) : Values(fs)[i] = fs[i].value /\ Values(fs)[i] \in Nat
  <2>1. \A i \in 1..Len(fs) : fs[i] \in Frames
    OBVIOUS
  <2>. QED  BY <2>1 DEF Values, Frames
<1>. QED  BY <1>1, <1>2, TotalNat DEF Pending

LEMMA PendingSame ==
    ASSUME NEW fs \in Seq(Frames), NEW gs \in Seq(Frames), Len(gs) = Len(fs), \A i \in 1..Len(fs) : gs[i].value = fs[i].value
    PROVE  Pending(gs) = Pending(fs)
<1>1. \A i \in 1..Len(fs) : Values(fs)[i] \in Int /\ Values(gs)[i] = Values(fs)[i]
  BY PendingType
<1>2. Total(Values(gs), 1..Len(fs)) = Total(Values(fs), 1..Len(fs))
  BY <1>1, PendingType, TotalSame
<1>. QED  BY <1>2 DEF Pending

LEMMA PendingAppend ==
    ASSUME NEW fs \in Seq(Frames), NEW f \in Frames
    PROVE  Pending(Append(fs, f)) = Pending(fs) + f.value
<1>. DEFINE n == Len(fs)
            gs == Append(fs, f)
<1>1. /\ gs \in Seq(Frames) /\ Len(gs) = n + 1 /\ n \in Nat /\ gs[n + 1] = f /\ \A i \in 1..n : gs[i] = fs[i]
      /\ f.value \in Nat
  BY DEF Frames
<1>. HIDE DEF gs
<1>2. /\ 1..(n + 1) = (1..n) \cup {n + 1} /\ n + 1 \notin 1..n
  BY <1>1
<1>3. /\ \A i \in 1..n : Values(gs)[i] \in Int /\ Values(fs)[i] \in Int /\ Values(gs)[i] = Values(fs)[i]
      /\ Values(gs)[n + 1] = f.value
  <2>1. \A i \in 1..(n + 1) : Values(gs)[i] = gs[i].value /\ Values(gs)[i] \in Nat
    BY <1>1, PendingType
  <2>2. \A i \in 1..n : Values(fs)[i] = fs[i].value /\ Values(fs)[i] \in Nat
    BY PendingType
  <2>. QED  BY <1>1, <1>2, <2>1, <2>2
<1>4. Total(Values(gs), (1..n) \cup {n + 1}) = Total(Values(gs), 1..n) + f.value
  <2>1. IsFiniteSet(1..n)
    BY PendingType
  <2>2. Values(gs)[n + 1] \in Int
    BY <1>1, <1>3
  <2>. DEFINE I == 1..n
              m == n + 1
              vs == Values(gs)
  <2>3. IsFiniteSet(I) /\ m \notin I /\ vs[m] \in Int /\ vs[m] = f.value /\ \A i \in I : vs[i] \in Int
    BY <1>2, <1>3, <2>1, <2>2
  <2>. HIDE DEF I, m, vs
  <2>4. Total(vs, I \cup {m}) = Total(vs, I) + vs[m]
    BY <2>3, TotalAdd
  <2>. QED  BY <2>3, <2>4 DEF I, m, vs
<1>5. Total(Values(gs), 1..n) = Total(Values(fs), 1..n)
  BY <1>3, PendingType, TotalSame
<1>6. Pending(gs) = Total(Values(gs), (1..n) \cup {n + 1})
  BY <1>1, <1>2 DEF Pending
<1>. QED  BY <1>4, <1>5, <1>6 DEF Pending, gs

LEMMA PendingPrefix ==
    ASSUME NEW fs \in Seq(Frames), NEW n \in 0..Len(fs)
    PROVE  Pending(SubSeq(fs, 1, n)) <= Pending(fs)
<1>. DEFINE gs == SubSeq(fs, 1, n)
<1>1. gs \in Seq(Frames) /\ Len(gs) = n /\ \A i \in 1..n : gs[i] = fs[i]
  BY Prefix
<1>. HIDE DEF gs
<1>2. 1..n \in SUBSET (1..Len(fs))
  OBVIOUS
<1>3. \A i \in 1..n : Values(gs)[i] = Values(fs)[i] /\ Values(fs)[i] \in Int
  BY <1>1, <1>2, PendingType
<1>4. Total(Values(gs), 1..n) = Total(Values(fs), 1..n)
  <2>1. IsFiniteSet(1..n)
    BY <1>1, PendingType
  <2>. QED  BY <1>3, <2>1, TotalSame
<1>5. Total(Values(fs), 1..n) <= Total(Values(fs), 1..Len(fs))
  BY <1>2, PendingType, TotalSubset
<1>. QED  BY <1>1, <1>4, <1>5 DEF Pending, gs

\* The innermost frame goes: the rest, and that frame again on top, are the stack.
LEMMA PendingFront ==
    ASSUME NEW fs \in Seq(Frames), fs # <<>>
    PROVE  /\ Front(fs) \in Seq(Frames) /\ Len(Front(fs)) = Len(fs) - 1 /\ Len(fs) \in Nat \ {0}
           /\ \A i \in 1..(Len(fs) - 1) : Front(fs)[i] = fs[i]
           /\ fs[Len(fs)] \in Frames
           /\ Pending(Front(fs)) = Pending(fs) - fs[Len(fs)].value
<1>1. /\ Front(fs) \in Seq(Frames) /\ Len(Front(fs)) = Len(fs) - 1 /\ Len(fs) \in Nat \ {0} /\ fs[Len(fs)] \in Frames
      /\ \A i \in 1..(Len(fs) - 1) : Front(fs)[i] = fs[i]
  <2>1. Len(fs) \in Nat \ {0} /\ fs[Len(fs)] \in Frames /\ \A i \in 1..(Len(fs) - 1) : fs[i] \in Frames
    OBVIOUS
  <2>2. Front(fs) = SubSeq(fs, 1, Len(fs) - 1)
    BY DEF Front
  <2>. DEFINE n == Len(fs) - 1
  <2>3. n \in 0..Len(fs)
    BY <2>1
  <2>. HIDE DEF n
  <2>4. /\ SubSeq(fs, 1, n) \in Seq(Frames) /\ Len(SubSeq(fs, 1, n)) = n
        /\ \A i \in 1..n : SubSeq(fs, 1, n)[i] = fs[i]
    BY <2>3, Prefix
  <2>. QED  BY <2>1, <2>2, <2>4 DEF n
<1>. DEFINE gs == Append(Front(fs), fs[Len(fs)])
<1>2. gs \in Seq(Frames) /\ Len(gs) = Len(fs) /\ \A i \in 1..Len(fs) : gs[i] = fs[i]
  BY <1>1
<1>3. Pending(gs) = Pending(fs)
  <2>. HIDE DEF gs
  <2>. QED  BY <1>2, PendingSame
<1>4. Pending(gs) = Pending(Front(fs)) + fs[Len(fs)].value
  BY <1>1, PendingAppend
<1>5. Pending(Front(fs)) \in Nat /\ fs[Len(fs)].value \in Nat
  BY <1>1, PendingType DEF Frames
<1>. QED  BY <1>1, <1>3, <1>4, <1>5

-----------------------------------------------------------------------------
(* Steps of the stack *)

\* The innermost frame goes on.
LEMMA TopChanged ==
    ASSUME NEW fs \in Seq(Frames), fs # <<>>, GasFits(fs), NEW g \in Frames,
           LET f == fs[Len(fs)] IN g.kind = f.kind /\ g.cap = f.cap /\ g.value = f.value
    PROVE  LET gs == [fs EXCEPT ![Len(fs)] = g]
           IN gs \in Seq(Frames) /\ Len(gs) = Len(fs) /\ gs[Len(fs)] = g /\ GasFits(gs) /\ Pending(gs) = Pending(fs)
<1>. DEFINE gs == [fs EXCEPT ![Len(fs)] = g]
<1>1. gs \in Seq(Frames) /\ Len(gs) = Len(fs) /\ \A i \in 1..Len(fs) : gs[i] = IF i = Len(fs) THEN g ELSE fs[i]
  OBVIOUS
<1>0. Len(fs) \in 1..Len(fs)
  OBVIOUS
<1>. HIDE DEF gs
<1>2. \A i \in 1..Len(fs) : gs[i].kind = fs[i].kind /\ gs[i].cap = fs[i].cap /\ gs[i].value = fs[i].value
  BY <1>1
<1>3. GasFits(gs)
  <2>. SUFFICES ASSUME NEW i \in 1..(Len(fs) - 1), gs[i + 1].kind # "create" PROVE gs[i].used + gs[i + 1].cap <= gs[i].limit
    BY <1>1 DEF GasFits
  <2>1. i \in 1..Len(fs) /\ i + 1 \in 1..Len(fs) /\ i # Len(fs)
    OBVIOUS
  <2>. QED  BY <1>1, <1>2, <2>1 DEF GasFits
<1>. QED  BY <1>0, <1>1, <1>2, <1>3, PendingSame DEF gs

LEMMA FramePushed ==
    ASSUME NEW fs \in Seq(Frames), GasFits(fs), NEW g \in Frames,
           fs # <<>> /\ g.kind # "create" => LET f == fs[Len(fs)] IN f.used + g.cap <= f.limit
    PROVE  Append(fs, g) \in Seq(Frames) /\ GasFits(Append(fs, g))
<1>. DEFINE gs == Append(fs, g)
<1>1. gs \in Seq(Frames) /\ Len(gs) = Len(fs) + 1 /\ gs[Len(fs) + 1] = g /\ \A i \in 1..Len(fs) : gs[i] = fs[i]
  OBVIOUS
<1>0. Len(fs) \in Nat /\ (Len(fs) > 0 => fs # <<>>)
  OBVIOUS
<1>. HIDE DEF gs
<1>2. ASSUME NEW i \in 1..Len(fs), gs[i + 1].kind # "create" PROVE gs[i].used + gs[i + 1].cap <= gs[i].limit
  <2>1. CASE i = Len(fs)
    BY <1>0, <1>1, <1>2, <2>1
  <2>2. CASE i < Len(fs)
    <3>1. i \in 1..(Len(fs) - 1) /\ i + 1 \in 1..Len(fs)
      BY <2>2, <1>0
    <3>. QED  BY <1>1, <1>2, <3>1 DEF GasFits
  <2>. QED  BY <1>0, <2>1, <2>2
<1>. QED  BY <1>0, <1>1, <1>2 DEF GasFits, gs


-----------------------------------------------------------------------------
(* Steps of the EVM *)

Endowed == EvmFunds * Cardinality(Addrs)

\* MadeOnlyByValue is not inductive: a value is counted as sent when its frame begins,
\* and made when the frame ends.  In between it is pending.
EvmInv ==
    /\ EvmTypes /\ GasFits(frames)
    /\ Wealth(world) + 2 * Pending(frames) <= Endowed + 2 * sent

LEMMA EndowedType == Endowed \in Nat
BY AddrsFinite, FS_CardinalityType, EvmAssumption DEF Endowed

LEMMA FrameType ==
    ASSUME NEW k \in Kinds, NEW a \in Addrs, NEW b \in Addrs, NEW c \in Addrs, NEW v \in Nat, NEW cap \in Nat, NEW s \in Stored
    PROVE  /\ Frame(k, a, b, c, v, cap, s) \in Frames
           /\ LET f == Frame(k, a, b, c, v, cap, s) IN f.kind = k /\ f.cap = cap /\ f.value = v
BY EvmAssumption DEF Frame, Frames

LEMMA PendingNone == <<>> \in Seq(Frames) /\ GasFits(<<>>) /\ Pending(<<>>) = 0
<1>1. <<>> \in Seq(Frames) /\ Len(<<>>) = 0 /\ 1..0 = {}
  OBVIOUS
<1>. QED  BY <1>1, TotalEmpty DEF GasFits, Pending

\* The end of a frame f that is the innermost one, but for the gas it has used.
LEMMA EndedInv ==
    ASSUME EvmInv, frames # <<>>, NEW w \in Worlds, Wealth(w) <= Wealth(world), NEW f \in Frames, NEW r \in BOOLEAN,
           f.value = frames[Len(frames)].value, Ended(w, f, r), sent' = sent
    PROVE  EvmInv'
<1>. DEFINE rest == Front(frames)
            caller == Resumed(Last(rest), f)
<1>0. frames \in Seq(Frames) /\ GasFits(frames) /\ sent \in Nat /\ world \in Worlds
  BY DEF EvmInv, EvmTypes, Worlds
<1>1. /\ rest \in Seq(Frames) /\ Pending(rest) = Pending(frames) - f.value /\ GasFits(rest)
  <2>1. Front(frames) = SubSeq(frames, 1, Len(frames) - 1) /\ Len(frames) - 1 \in 0..Len(frames)
    BY <1>0 DEF Front
  <2>. QED  BY <1>0, <2>1, PendingFront, PrefixFits
<1>. HIDE DEF rest
<1>2. world' \in Worlds /\ Wealth(world') <= Wealth(w) + 2 * f.value
  BY SettledBound DEF Ended
<1>3. frames' \in Seq(Frames) /\ GasFits(frames') /\ Pending(frames') <= Pending(rest)
  <2>1. CASE rest = <<>>
    <3>1. frames' = <<>>
      BY <2>1 DEF Ended, rest
    <3>2. Pending(frames') = Pending(rest) /\ Pending(rest) \in Nat
      BY <1>1, <2>1, <3>1, PendingType
    <3>. QED  BY <3>1, <3>2, PendingNone
  <2>2. CASE rest # <<>> /\ caller.used > caller.limit
    <3>1. frames' = Unwound(rest)
      BY <2>2 DEF Ended, rest
    <3>2. PICK n \in 0..Len(rest) : frames' = SubSeq(rest, 1, n)
      BY <1>1, <3>1, UnwoundIsPrefix
    <3>. QED  BY <1>1, <3>2, Prefix, PrefixFits, PendingPrefix
  <2>3. CASE rest # <<>> /\ ~(caller.used > caller.limit)
    <3>1. frames' = [rest EXCEPT ![Len(rest)] = caller]
      BY <2>3 DEF Ended, rest
    <3>2. rest[Len(rest)] \in Frames
      BY <1>1, <2>3
    <3>3. Min({f.used, f.cap}) \in Nat /\ f.used \in Nat
      <4>1. f.used \in Nat /\ f.cap \in Nat
        BY DEF Frames
      <4>. QED  BY <4>1, MinOfTwo
    <3>4. /\ caller \in Frames /\ caller.kind = rest[Len(rest)].kind /\ caller.cap = rest[Len(rest)].cap
          /\ caller.value = rest[Len(rest)].value
      <4>. DEFINE last == rest[Len(rest)]
                  charged == IF f.kind = "create" THEN f.used ELSE Min({f.used, f.cap})
                  kept == IF f.kind \in {"delegatecall", "callcode"} THEN f.store ELSE last.store
      <4>1. charged \in Nat /\ kept \in Stored /\ last \in Frames
        BY <3>2, <3>3 DEF Frames
      <4>2. caller = [last EXCEPT !.used = @ + charged, !.store = kept]
        BY DEF Resumed, Last
      <4>. HIDE DEF last, charged, kept
      <4>3. last.used + charged \in Nat
        BY <4>1 DEF Frames
      <4>4. caller \in Frames /\ caller.kind = last.kind /\ caller.cap = last.cap /\ caller.value = last.value
        BY <4>1, <4>2, <4>3 DEF Frames
      <4>. QED  BY <4>4 DEF last
    <3>. HIDE DEF caller
    <3>5. LET gs == [rest EXCEPT ![Len(rest)] = caller]
          IN gs \in Seq(Frames) /\ Len(gs) = Len(rest) /\ gs[Len(rest)] = caller /\ GasFits(gs) /\ Pending(gs) = Pending(rest)
      BY <1>1, <2>3, <3>4, TopChanged
    <3>6. Pending(rest) \in Nat
      BY <1>1, PendingType
    <3>. QED  BY <3>1, <3>5, <3>6
  <2>. QED  BY <2>1, <2>2, <2>3
<1>4. /\ Wealth(w) \in Nat /\ Wealth(world) \in Nat /\ Wealth(world') \in Nat /\ f.value \in Nat /\ Pending(frames) \in Nat
      /\ Pending(frames') \in Nat /\ Endowed \in Nat
  BY <1>0, <1>2, <1>3, WealthType, PendingType, EndowedType DEF Frames
<1>5. Wealth(world) + 2 * Pending(frames) <= Endowed + 2 * sent
  BY DEF EvmInv
<1>6. Wealth(world') + 2 * Pending(frames') <= Endowed + 2 * sent
  <2>1. Wealth(world') <= Wealth(world) + 2 * f.value
    BY <1>2, <1>4
  <2>2. Pending(frames') <= Pending(frames) - f.value
    BY <1>1, <1>3, <1>4
  <2>3. \A a, b, p, q, v, k \in Nat : b <= a + 2 * v /\ q <= p - v /\ a + 2 * p <= k => b + 2 * q <= k
    OBVIOUS
  <2>4. Endowed + 2 * sent \in Nat
    BY <1>0, <1>4
  <2>. QED  BY <1>4, <1>5, <2>1, <2>2, <2>3, <2>4
<1>. QED  BY <1>0, <1>2, <1>3, <1>6 DEF EvmInv, EvmTypes, Worlds, Wealth, Endowed, Pending, GasFits, Values, Bals, Addrs


LEMMA EvmInitInv == EvmInit => EvmInv
<1>. SUFFICES ASSUME EvmInit PROVE EvmInv
  OBVIOUS
<1>1. world \in Worlds /\ \A a \in Addrs : world[a].bal = EvmFunds
  BY EvmAssumption DEF EvmInit, Worlds, AccountRows, Account, Addrs, Stored
<1>2. Wealth(world) = Endowed
  <2>1. \A a \in Addrs : Bals(world)[a] = EvmFunds
    BY <1>1 DEF Bals
  <2>. QED  BY <2>1, AddrsFinite, TotalConstant, EvmAssumption DEF Wealth, Endowed
<1>. QED  BY <1>1, <1>2, PendingNone, EndowedType DEF EvmInit, EvmInv, EvmTypes, Worlds

\* Frames and values of a step that leaves the accounts alone.
LEMMA StackStepInv ==
    ASSUME EvmInv, frames' \in Seq(Frames), GasFits(frames'), NEW v \in Nat, sent' = sent + v, world' = world,
           Pending(frames') <= Pending(frames) + v
    PROVE  EvmInv'
<1>1. Wealth(world) \in Nat /\ Pending(frames) \in Nat /\ Pending(frames') \in Nat /\ Endowed \in Nat /\ sent \in Nat
  BY WealthType, PendingType, EndowedType DEF EvmInv, EvmTypes, Worlds
<1>2. Wealth(world) + 2 * Pending(frames) <= Endowed + 2 * sent
  BY DEF EvmInv
<1>3. Wealth(world') + 2 * Pending(frames') <= Endowed + 2 * sent' /\ sent' \in Nat
  BY <1>1, <1>2
<1>. QED  BY <1>3 DEF EvmInv, EvmTypes, Wealth, Endowed, Pending, GasFits, Values, Bals, Addrs

\* A frame that an instruction charges.
LEMMA Charged ==
    ASSUME NEW f \in Frames, NEW cost \in Nat, f.used + cost <= f.limit
    PROVE  /\ f.used \in Nat /\ f.limit \in Nat /\ f.used + cost \in Nat /\ f.limit - (f.used + cost) \in Nat
           /\ \A s \in Stored : LET g == [f EXCEPT !.used = @ + cost, !.store = s]
                  IN g \in Frames /\ g.kind = f.kind /\ g.cap = f.cap /\ g.value = f.value
           /\ LET g == [f EXCEPT !.used = @ + cost]
              IN g \in Frames /\ g.kind = f.kind /\ g.cap = f.cap /\ g.value = f.value
                 /\ g.limit = f.limit /\ g.used = f.used + cost
<1>1. f.used \in Nat /\ f.limit \in Nat
  BY DEF Frames
<1>. DEFINE x == f.used + cost
<1>2. x \in Nat /\ f.limit - x \in Nat
  BY <1>1
<1>. HIDE DEF x
<1>3. \A s \in Stored : LET g == [f EXCEPT !.used = x, !.store = s]
          IN g \in Frames /\ g.kind = f.kind /\ g.cap = f.cap /\ g.value = f.value
  BY <1>2 DEF Frames
<1>4. LET g == [f EXCEPT !.used = x]
      IN g \in Frames /\ g.kind = f.kind /\ g.cap = f.cap /\ g.value = f.value /\ g.limit = f.limit /\ g.used = x
  BY <1>2 DEF Frames
<1>. QED  BY <1>1, <1>2, <1>3, <1>4 DEF x

LEMMA EvmStepInv ==
    ASSUME EvmInv, EvmNext
    PROVE  EvmInv'
<1>0. frames \in Seq(Frames) /\ GasFits(frames) /\ sent \in Nat /\ world \in Worlds /\ Pending(frames) \in Nat
  BY PendingType DEF EvmInv, EvmTypes, Worlds
<1>. DEFINE top == frames[Len(frames)]
<1>t. ASSUME Depth > 0 PROVE frames # <<>> /\ top \in Frames /\ top = Top /\ Len(frames) = Depth
  BY <1>0, <1>t DEF Depth, Top
<1>1. ASSUME NEW cost \in Nat, Running(cost)
      PROVE  Depth > 0 /\ top \in Frames /\ top.used + cost <= top.limit
  BY <1>1, <1>t DEF Running
<1>2. CASE Op
  <2>. DEFINE g == [top EXCEPT !.used = @ + OpGas]
  <2>1. Running(OpGas) /\ frames' = [frames EXCEPT ![Len(frames)] = g] /\ world' = world /\ sent' = sent
    BY <1>2 DEF Op, Depth
  <2>2. Depth > 0 /\ g \in Frames /\ g.kind = top.kind /\ g.cap = top.cap /\ g.value = top.value
    BY <1>1, <2>1, Charged, EvmAssumption
  <2>. HIDE DEF g
  <2>3. frames' \in Seq(Frames) /\ GasFits(frames') /\ Pending(frames') = Pending(frames)
    BY <1>0, <1>t, <2>1, <2>2, TopChanged
  <2>4. sent' = sent + 0 /\ Pending(frames') <= Pending(frames) + 0
    BY <1>0, <2>1, <2>3
  <2>. QED  BY <2>1, <2>3, <2>4, StackStepInv
<1>3. ASSUME NEW s \in Cells, SStore(s)
      PROVE  EvmInv'
  <2>. DEFINE g == [top EXCEPT !.used = @ + OpGas, !.store = s]
  <2>1. Running(OpGas) /\ world' = world /\ sent' = sent
    BY <1>3 DEF SStore
  <2>2. Depth > 0 /\ g \in Frames /\ g.kind = top.kind /\ g.cap = top.cap /\ g.value = top.value
    <3>1. Depth > 0 /\ top \in Frames /\ top.used + OpGas <= top.limit /\ OpGas \in Nat
      BY <1>1, <2>1, EvmAssumption
    <3>2. s \in Stored
      BY DEF Stored
    <3>. HIDE DEF top
    <3>. QED  BY <3>1, <3>2, Charged
  <2>4. frames' = [frames EXCEPT ![Len(frames)] = g]
    BY <1>0, <1>3, <1>t, <2>2 DEF SStore, Depth, Frames
  <2>. HIDE DEF g
  <2>3. frames' \in Seq(Frames) /\ GasFits(frames') /\ Pending(frames') = Pending(frames)
    BY <1>0, <1>t, <2>2, <2>4, TopChanged
  <2>. QED  BY <1>0, <2>1, <2>3, StackStepInv
<1>4. ASSUME NEW k \in {"call", "callcode", "delegatecall", "staticcall"}, NEW a \in CodeAddrs, NEW v \in Sends, NEW n \in {0, 1},
             Call(k, a, v, n)
      PROVE  EvmInv'
  <2>. DEFINE me == [top EXCEPT !.used = @ + CallGas]
              cap == Forwarded(me.limit - me.used, n, v)
              inner == CASE k = "delegatecall" -> Frame(k, me.self, me.from, a, 0, cap, world[me.self].store)
                       []   k = "callcode" -> Frame(k, me.self, me.self, a, v, cap, world[me.self].store)
                       []   OTHER -> Frame(k, a, me.self, a, v, cap, world[a].store)
              fs == [frames EXCEPT ![Len(frames)] = me]
  <2>1. Running(CallGas) /\ world' = world /\ sent' = sent + v /\ v \in Nat
    BY <1>4, EvmAssumption DEF Call
  <2>2. Depth > 0 /\ me \in Frames /\ me.kind = top.kind /\ me.cap = top.cap /\ me.value = top.value
        /\ me.limit - me.used \in Nat /\ me.limit \in Nat /\ me.used \in Nat
    <3>1. Depth > 0 /\ top \in Frames /\ top.used + CallGas <= top.limit /\ CallGas \in Nat
      BY <1>1, <2>1, EvmAssumption
    <3>. HIDE DEF top
    <3>2. /\ me \in Frames /\ me.kind = top.kind /\ me.cap = top.cap /\ me.value = top.value
          /\ top.limit - (top.used + CallGas) \in Nat /\ me.limit = top.limit /\ me.used = top.used + CallGas
      BY <3>1, Charged
    <3>. HIDE DEF me
    <3>3. me.limit \in Nat /\ me.used \in Nat
      BY <3>2 DEF Frames
    <3>. QED  BY <3>1, <3>2, <3>3
  <2>3. frames' = fs \o (IF world[a].code THEN <<inner>> ELSE <<>>)
    BY <1>4 DEF Call, Depth, Top
  <2>4. cap \in Nat /\ cap <= me.limit - me.used
    BY <2>1, <2>2, ForwardedFits
  <2>. HIDE DEF me, cap, top
  <2>5. me.used + cap <= me.limit
    BY <2>2, <2>4
  <2>6. inner \in Frames /\ inner.cap = cap /\ inner.value \in Nat /\ inner.value <= v
    <3>1. me.self \in Addrs /\ me.from \in Addrs /\ a \in Addrs /\ k \in Kinds /\ world[me.self].store \in Stored
          /\ world[a].store \in Stored
      <4>1. me.self \in Addrs /\ me.from \in Addrs /\ a \in Addrs /\ k \in Kinds
        BY <2>2 DEF Frames, Addrs, Kinds
      <4>. QED  BY <1>0, <4>1 DEF Worlds, AccountRows
    <3>2. CASE k = "delegatecall"
      <4>1. inner = Frame(k, me.self, me.from, a, 0, cap, world[me.self].store)
        BY <3>2
      <4>2. 0 \in Nat
        OBVIOUS
      <4>3. inner \in Frames /\ inner.cap = cap /\ inner.value = 0
        <5>. HIDE DEF inner
        <5>. QED  BY <2>4, <3>1, <4>1, <4>2, FrameType
      <4>. HIDE DEF inner
      <4>. QED  BY <2>1, <4>3
    <3>3. CASE k = "callcode"
      <4>1. inner = Frame(k, me.self, me.self, a, v, cap, world[me.self].store)
        BY <3>3
      <4>. QED  BY <2>1, <2>4, <3>1, <4>1, FrameType
    <3>4. CASE k \notin {"delegatecall", "callcode"}
      <4>1. inner = Frame(k, a, me.self, a, v, cap, world[a].store)
        BY <3>4
      <4>. QED  BY <2>1, <2>4, <3>1, <4>1, FrameType
    <3>. QED  BY <3>2, <3>3, <3>4
  <2>. HIDE DEF inner
  <2>7. fs \in Seq(Frames) /\ Len(fs) = Len(frames) /\ fs[Len(frames)] = me /\ GasFits(fs) /\ Pending(fs) = Pending(frames)
    BY <1>0, <1>t, <2>2, TopChanged DEF top
  <2>. HIDE DEF fs
  <2>8. CASE world[a].code
    <3>1. frames' = Append(fs, inner)
      BY <2>3, <2>6, <2>7, <2>8
    <3>2. Append(fs, inner) \in Seq(Frames) /\ GasFits(Append(fs, inner)) /\ Pending(Append(fs, inner)) = Pending(fs) + inner.value
      BY <2>5, <2>6, <2>7, FramePushed, PendingAppend
    <3>. QED  BY <1>0, <2>1, <2>6, <2>7, <3>1, <3>2, StackStepInv
  <2>9. CASE ~world[a].code
    <3>1. frames' = fs
      BY <2>3, <2>7, <2>9
    <3>. QED  BY <1>0, <2>1, <2>7, <3>1, StackStepInv
  <2>. QED  BY <2>8, <2>9
<1>5. ASSUME NEW a \in CodeAddrs, NEW v \in Sends, Create(a, v)
      PROVE  EvmInv'
  <2>. DEFINE me == [top EXCEPT !.used = @ + CreateGas]
              inner == Frame("create", a, top.self, a, v, 0, 0)
              fs == [frames EXCEPT ![Len(frames)] = me]
  <2>1. Running(CreateGas) /\ world' = world /\ sent' = sent + v /\ v \in Nat /\ frames' = Append(fs, inner)
    BY <1>5, EvmAssumption DEF Create, Depth, Top
  <2>2. Depth > 0 /\ me \in Frames /\ me.kind = top.kind /\ me.cap = top.cap /\ me.value = top.value /\ top \in Frames
    <3>1. Depth > 0 /\ top \in Frames /\ top.used + CreateGas <= top.limit /\ CreateGas \in Nat
      BY <1>1, <2>1, EvmAssumption
    <3>. QED  BY <3>1, Charged
  <2>. HIDE DEF me, top
  <2>3. inner \in Frames /\ inner.kind = "create" /\ inner.value = v
    <3>1. top.self \in Addrs /\ a \in Addrs /\ 0 \in Stored /\ "create" \in Kinds
      BY <2>2 DEF Frames, Addrs, Stored, Kinds
    <3>. QED  BY <2>1, <3>1, FrameType
  <2>. HIDE DEF inner
  <2>4. fs \in Seq(Frames) /\ GasFits(fs) /\ Pending(fs) = Pending(frames)
    BY <1>0, <1>t, <2>2, TopChanged DEF top
  <2>. HIDE DEF fs
  <2>5. Append(fs, inner) \in Seq(Frames) /\ GasFits(Append(fs, inner)) /\ Pending(Append(fs, inner)) = Pending(fs) + v
    BY <2>3, <2>4, FramePushed, PendingAppend
  <2>. QED  BY <1>0, <2>1, <2>4, <2>5, StackStepInv
<1>6. ASSUME NEW r \in BOOLEAN, Stop(r)
      PROVE  EvmInv'
  <2>1. Depth > 0 /\ Ended(world, top, r) /\ sent' = sent
    BY <1>6, <1>t DEF Stop
  <2>2. Wealth(world) \in Nat
    BY <1>0, WealthType
  <2>. QED  BY <1>0, <1>t, <2>1, <2>2, EndedInv
<1>7. ASSUME NEW b \in Addrs, SelfDestruct(b)
      PROVE  EvmInv'
  <2>. DEFINE f == [top EXCEPT !.used = @ + DestroyGas]
              w == SelfDestructed(world, top.self, b)
  <2>1. Running(DestroyGas) /\ sent' = sent
    BY <1>7 DEF SelfDestruct
  <2>2. Depth > 0 /\ f \in Frames /\ f.value = top.value
    BY <1>1, <2>1, Charged, EvmAssumption
  <2>3. Ended(w, f, FALSE) /\ frames # <<>> /\ top \in Frames
    BY <1>7, <1>t, <2>2 DEF SelfDestruct
  <2>. HIDE DEF f
  <2>4. w \in Worlds /\ Wealth(w) <= Wealth(world)
    <3>. HIDE DEF top
    <3>1. top.self \in Addrs
      BY <2>3 DEF Frames
    <3>. QED  BY <1>0, <3>1, SelfDestructedBound
  <2>. HIDE DEF w
  <2>. QED  BY <2>1, <2>2, <2>3, <2>4, EndedInv
<1>8. CASE Raise
  <2>1. frames' = Unwound(frames) /\ world' = world /\ sent' = sent
    BY <1>8 DEF Raise
  <2>2. PICK n \in 0..Len(frames) : frames' = SubSeq(frames, 1, n)
    BY <1>0, <2>1, UnwoundIsPrefix
  <2>3. frames' \in Seq(Frames) /\ GasFits(frames') /\ Pending(frames') <= Pending(frames)
    BY <1>0, <2>2, Prefix, PrefixFits, PendingPrefix
  <2>. QED  BY <1>0, <2>1, <2>3, StackStepInv
<1>9. ASSUME NEW f \in Frames, NEW v \in Nat, frames = <<>>, frames' = <<f>>, f.value = v, sent' = sent + v, world' = world
      PROVE  EvmInv'
  <2>1. frames' = Append(frames, f)
    BY <1>9
  <2>2. Append(frames, f) \in Seq(Frames) /\ GasFits(Append(frames, f)) /\ Pending(Append(frames, f)) = Pending(frames) + v
    BY <1>0, <1>9, FramePushed, PendingAppend
  <2>. QED  BY <1>0, <1>9, <2>1, <2>2, StackStepInv
<1>10. CASE PostContractDeploy
  <2>1. PICK u \in People, a \in CodeAddrs, v \in Sends : DeployContract(u, a, v)
    BY <1>10 DEF PostContractDeploy
  <2>2. v \in Nat /\ u \in Addrs /\ a \in Addrs /\ 0 \in Stored /\ "deploy" \in Kinds
    BY EvmAssumption DEF Addrs, Stored, Kinds
  <2>. QED  BY <1>9, <2>1, <2>2, FrameType DEF DeployContract
<1>11. CASE PostContractCall
  <2>1. PICK u \in People, a \in CodeAddrs, v \in Sends : CallContract(u, a, v)
    BY <1>11 DEF PostContractCall
  <2>2. v \in Nat /\ u \in Addrs /\ a \in Addrs /\ "transaction" \in Kinds
    BY EvmAssumption DEF Addrs, Kinds
  <2>3. world[a].store \in Stored
    BY <1>0, <2>2 DEF Worlds, AccountRows
  <2>. QED  BY <1>9, <2>1, <2>2, <2>3, FrameType DEF CallContract
<1>12. CASE EthCall
  <2>1. PICK a \in CodeAddrs : StaticCall(a)
    BY <1>12 DEF EthCall
  <2>2. a \in Addrs /\ "static" \in Kinds
    BY DEF Addrs, Kinds
  <2>3. world[a].store \in Stored
    BY <1>0, <2>2 DEF Worlds, AccountRows
  <2>4. sent' = sent + 0
    BY <1>0, <2>1 DEF StaticCall
  <2>. QED  BY <1>9, <2>1, <2>2, <2>3, <2>4, FrameType DEF StaticCall
<1>. QED
  BY <1>2, <1>3, <1>4, <1>5, <1>6, <1>7, <1>8, <1>10, <1>11, <1>12 DEF EvmNext, Instruction, Addrs


\* The sum of the property is the one of the proof.
LEMMA WealthIsSum ==
    ASSUME world \in Worlds
    PROVE  MapThenSumSet(LAMBDA a : world[a].bal, DOMAIN world) = Wealth(world)
<1>. DEFINE Body(g, s) == IF s = {} THEN 0 ELSE world[Some(s)].bal + g[s \ {Some(s)}]
            c == CHOOSE g : g = [s \in SUBSET Addrs |-> Body(g, s)]
<1>0. DOMAIN world = Addrs /\ \A a \in Addrs : Bals(world)[a] = world[a].bal /\ Bals(world)[a] \in Int
  BY DEF Worlds, AccountRows, Bals
<1>1. MapThenSumSet(LAMBDA a : world[a].bal, DOMAIN world) = c[Addrs]
  BY <1>0 DEF MapThenSumSet, MapThenFoldSet, Some
<1>2. \A g : \A s \in SUBSET Addrs : Body(g, s) = SumBody(Bals(world), g, s)
  BY <1>0, SomeIsIn DEF SumBody
<1>3. \A g : g = [s \in SUBSET Addrs |-> Body(g, s)] <=> AreSums(g, Bals(world), Addrs)
  <2>. HIDE DEF Body
  <2>. QED  BY <1>2 DEF AreSums
<1>4. \E g : AreSums(g, Bals(world), Addrs)
  BY <1>0, AddrsFinite, SumsExist
<1>5. c = [s \in SUBSET Addrs |-> Body(c, s)]
  <2>. HIDE DEF Body
  <2>. QED  BY <1>3, <1>4
<1>6. AreSums(c, Bals(world), Addrs)
  <2>. HIDE DEF Body, c
  <2>. QED  BY <1>3, <1>5
<1>. HIDE DEF c
<1>. QED  BY <1>0, <1>1, <1>6, AddrsFinite, TotalIs DEF Wealth

LEMMA EvmNodeStep ==
    ASSUME EvmInv, [NodeNext]_nodeVars
    PROVE  EvmInv'
<1>1. CASE EvmNext
  BY <1>1, EvmStepInv
<1>2. CASE UNCHANGED evmVars
  <2>1. world' = world /\ frames' = frames /\ sent' = sent
    BY <1>2 DEF evmVars
  <2>. QED  BY <2>1 DEF EvmInv, EvmTypes, GasFits, Pending, Values, Wealth, Bals, Endowed, Addrs
<1>. QED  BY <1>1, <1>2 DEF NodeNext, nodeVars


\* ForwardedGasFits for every gas limit, cost and stipend (evm_interpreter.py, _call_gas_cap):
\* whatever byte code runs, what a call forwarded fits into what its caller has left.
THEOREM ForwardedGas == NodeSpec => []ForwardedGasFits
<1>1. NodeInit => EvmInv
  BY EvmInitInv DEF NodeInit
<1>2. EvmInv /\ [NodeNext]_nodeVars => EvmInv'
  BY EvmNodeStep
<1>3. EvmInv => ForwardedGasFits
  BY DEF EvmInv, GasFits, ForwardedGasFits, Depth
<1>. QED  BY <1>1, <1>2, <1>3, PTL DEF NodeSpec

\* MadeOnlyByValue for every set of accounts (evm_adapter.py): the balances grow by no more
\* than twice the values that were sent along, whatever is reverted, destroyed or
\* created again.
THEOREM ValueBound == NodeSpec => []MadeOnlyByValue
<1>1. NodeInit => EvmInv
  BY EvmInitInv DEF NodeInit
<1>2. EvmInv /\ [NodeNext]_nodeVars => EvmInv'
  BY EvmNodeStep
<1>3. EvmInv => MadeOnlyByValue
  <2>. SUFFICES ASSUME EvmInv PROVE MadeOnlyByValue
    OBVIOUS
  <2>1. world \in Worlds /\ DOMAIN world = Addrs /\ Pending(frames) \in Nat /\ Wealth(world) \in Nat /\ sent \in Nat
    BY PendingType, WealthType DEF EvmInv, EvmTypes, Worlds
  <2>2. Wealth(world) <= Endowed + 2 * sent
    BY <2>1, EndowedType DEF EvmInv
  <2>. QED  BY <2>1, <2>2, WealthIsSum DEF MadeOnlyByValue, Endowed
<1>. QED  BY <1>1, <1>2, <1>3, PTL DEF NodeSpec

----------------------------------------------------------------------------
(* The connections with peers *)

Stages == {"dials", "called", "accepts", "open", "closed"}
Acks == {"none", "info", "refused"}
Ats == UNION {[s -> Stages] : s \in SUBSET PeerNodes}
Ages == UNION {[s -> Nat] : s \in SUBSET PeerNodes}

\* A connection of two different nodes, with a side for each of them.
Connections ==
    {k \in [from : PeerNodes, to : PeerNodes, ack : Acks, age : Ages, at : Ats] :
        k.from # k.to /\ DOMAIN k.at = {k.from, k.to} /\ DOMAIN k.age = {k.from, k.to}}

Sides(k) == {k.from, k.to}
Other(k, n) == IF n = k.from THEN k.to ELSE k.from
IsOpen(k, n) == n \in Sides(k) /\ k.at[n] = "open"

\* The connection c is k with the side of n at stage s.
SideSet(c, k, n, s) ==
    /\ c \in Connections /\ c.from = k.from /\ c.to = k.to /\ c.ack = k.ack
    /\ \A x \in Sides(k) : c.at[x] = IF x = n THEN s ELSE k.at[x]

LEMMA SideChanged ==
    ASSUME NEW k \in Connections, NEW n \in Sides(k), NEW s \in Stages, NEW g \in Nat
    PROVE  SideSet([k EXCEPT !.at[n] = s, !.age[n] = g], k, n, s)
<1>. DEFINE a == [k.at EXCEPT ![n] = s]
            h == [k.age EXCEPT ![n] = g]
            c == [k EXCEPT !.at = a, !.age = h]
<1>0. k.from \in PeerNodes /\ k.to \in PeerNodes /\ k.ack \in Acks /\ k.from # k.to
      /\ DOMAIN k.at = Sides(k) /\ DOMAIN k.age = Sides(k) /\ k.at \in Ats /\ k.age \in Ages
  BY DEF Connections, Sides
<1>1. a \in Ats /\ DOMAIN a = Sides(k) /\ a[n] = s /\ \A x \in Sides(k) \ {n} : a[x] = k.at[x]
  <2>1. PICK y \in SUBSET PeerNodes : k.at \in [y -> Stages]
    BY <1>0 DEF Ats
  <2>2. a \in [y -> Stages] /\ DOMAIN a = Sides(k) /\ a[n] = s /\ \A x \in Sides(k) \ {n} : a[x] = k.at[x]
    BY <1>0, <2>1
  <2>. HIDE DEF a
  <2>. QED  BY <2>2 DEF Ats
<1>2. h \in Ages /\ DOMAIN h = Sides(k) /\ h[n] = g /\ \A x \in Sides(k) \ {n} : h[x] = k.age[x]
  <2>1. PICK y \in SUBSET PeerNodes : k.age \in [y -> Nat]
    BY <1>0 DEF Ages
  <2>2. h \in [y -> Nat] /\ DOMAIN h = Sides(k) /\ h[n] = g /\ \A x \in Sides(k) \ {n} : h[x] = k.age[x]
    BY <1>0, <2>1
  <2>. HIDE DEF h
  <2>. QED  BY <2>2 DEF Ages
<1>3. [k EXCEPT !.at[n] = s, !.age[n] = g] = c
  OBVIOUS
<1>. HIDE DEF a, h
<1>4. c \in [from : PeerNodes, to : PeerNodes, ack : Acks, age : Ages, at : Ats]
      /\ c.from = k.from /\ c.to = k.to /\ c.ack = k.ack /\ c.at = a /\ c.age = h
  BY <1>1, <1>2 DEF Connections
<1>. HIDE DEF c
<1>. QED  BY <1>0, <1>1, <1>2, <1>3, <1>4 DEF Connections, Sides, SideSet

LEMMA AckChanged ==
    ASSUME NEW k \in Connections, NEW w \in Acks
    PROVE  LET c == [k EXCEPT !.ack = w]
           IN c \in Connections /\ c.from = k.from /\ c.to = k.to /\ c.ack = w /\ c.at = k.at /\ c.age = k.age
BY DEF Connections

\* Connections ls with, where chosen, the side of n changed.
LEMMA ClosedLinks ==
    ASSUME NEW ls \in Seq(Connections), NEW n, NEW ids \in SUBSET DOMAIN ls, \A l \in ids : n \in Sides(ls[l])
    PROVE  /\ Closed(ls, n, ids) \in Seq(Connections) /\ Len(Closed(ls, n, ids)) = Len(ls)
           /\ DOMAIN Closed(ls, n, ids) = DOMAIN ls
           /\ \A l \in DOMAIN ls : LET c == Closed(ls, n, ids)[l]
                 IN /\ c.from = ls[l].from /\ c.to = ls[l].to /\ c.ack = ls[l].ack
                    /\ \A x \in Sides(ls[l]) : c.at[x] = IF l \in ids /\ x = n THEN "closed" ELSE ls[l].at[x]
<1>. DEFINE cs == Closed(ls, n, ids)
<1>1. \A l \in DOMAIN ls : ls[l] \in Connections
  OBVIOUS
<1>2. \A l \in DOMAIN ls : cs[l] = IF l \in ids THEN [ls[l] EXCEPT !.at[n] = "closed", !.age[n] = 0] ELSE ls[l]
  BY DEF Closed
<1>3. DOMAIN cs = DOMAIN ls /\ cs = [l \in DOMAIN ls |-> cs[l]]
  BY DEF Closed
<1>. HIDE DEF cs
<1>4. "closed" \in Stages /\ 0 \in Nat
  BY DEF Stages
<1>5. ASSUME NEW l \in DOMAIN ls
      PROVE  /\ cs[l] \in Connections /\ cs[l].from = ls[l].from /\ cs[l].to = ls[l].to /\ cs[l].ack = ls[l].ack
             /\ \A x \in Sides(ls[l]) : cs[l].at[x] = IF l \in ids /\ x = n THEN "closed" ELSE ls[l].at[x]
  <2>1. CASE l \in ids
    <3>. DEFINE k == ls[l]
                c == [k EXCEPT !.at[n] = "closed", !.age[n] = 0]
    <3>1. k \in Connections /\ n \in Sides(k) /\ cs[l] = c
      BY <1>1, <1>2, <2>1
    <3>. HIDE DEF k
    <3>2. SideSet(c, k, n, "closed")
      BY <1>4, <3>1, SideChanged
    <3>. HIDE DEF c
    <3>. QED  BY <2>1, <3>1, <3>2 DEF k, SideSet
  <2>2. CASE l \notin ids
    BY <1>1, <1>2, <2>2
  <2>. QED  BY <2>1, <2>2
<1>6. cs \in Seq(Connections) /\ Len(cs) = Len(ls)
  <2>1. cs \in [1..Len(ls) -> Connections] /\ Len(ls) \in Nat
    BY <1>3, <1>5
  <2>. QED  BY <2>1
<1>. QED  BY <1>3, <1>5, <1>6 DEF cs

LEMMA EnteredLink ==
    ASSUME NEW ls \in Seq(Connections), NEW l \in DOMAIN ls, NEW n \in Sides(ls[l])
    PROVE  /\ Entered(ls, n, l) \in Seq(Connections) /\ DOMAIN Entered(ls, n, l) = DOMAIN ls
           /\ \A j \in DOMAIN ls : LET c == Entered(ls, n, l)[j]
                 IN /\ c.from = ls[j].from /\ c.to = ls[j].to /\ c.ack = ls[j].ack
                    /\ \A x \in Sides(ls[j]) : c.at[x] = IF j = l /\ x = n THEN "open" ELSE ls[j].at[x]
<1>. DEFINE k == ls[l]
            c == [k EXCEPT !.at[n] = "open", !.age[n] = 0]
<1>1. k \in Connections /\ "open" \in Stages /\ 0 \in Nat
  BY DEF Stages
<1>2. Entered(ls, n, l) = [ls EXCEPT ![l] = c]
  BY DEF Entered
<1>. HIDE DEF k
<1>3. SideSet(c, k, n, "open")
  <2>1. n \in Sides(k)
    BY DEF k
  <2>. HIDE DEF k
  <2>. QED  BY <1>1, <2>1, SideChanged
<1>. HIDE DEF c
<1>4. [ls EXCEPT ![l] = c] \in Seq(Connections) /\ DOMAIN [ls EXCEPT ![l] = c] = DOMAIN ls
      /\ \A j \in DOMAIN ls : [ls EXCEPT ![l] = c][j] = IF j = l THEN c ELSE ls[j]
  BY <1>3 DEF SideSet
<1>. QED  BY <1>2, <1>3, <1>4 DEF k, SideSet

-----------------------------------------------------------------------------
(* The tables and the connections *)

Tables(tb) ==
    DOMAIN tb = PeerNodes /\ tb = [n \in PeerNodes |-> tb[n]] /\ \A n \in PeerNodes : DOMAIN tb[n] \subseteq PeerNodes

\* What the table has is open and leads to that peer, ...
TableOpen(ls, tb, n) ==
    \A m \in DOMAIN tb[n] : tb[n][m] \in DOMAIN ls /\ IsOpen(ls[tb[n][m]], n) /\ Other(ls[tb[n][m]], n) = m

\* ... and what is open is in the table under that peer.
OpenInTable(ls, tb, n) ==
    \A l \in DOMAIN ls : IsOpen(ls[l], n) => Other(ls[l], n) \in DOMAIN tb[n] /\ tb[n][Other(ls[l], n)] = l

Agree(ls, tb) == \A n \in PeerNodes : TableOpen(ls, tb, n) /\ OpenInTable(ls, tb, n)

\* A step that leaves the ends and the open sides of all connections, and the table.
LEMMA SameSides ==
    ASSUME NEW ls, NEW cs, NEW tb, Agree(ls, tb), DOMAIN ls \subseteq DOMAIN cs,
           \A l \in DOMAIN ls : cs[l].from = ls[l].from /\ cs[l].to = ls[l].to
                  /\ \A n \in PeerNodes : IsOpen(cs[l], n) <=> IsOpen(ls[l], n),
           \A l \in DOMAIN cs \ DOMAIN ls : \A n \in PeerNodes : ~IsOpen(cs[l], n)
    PROVE  Agree(cs, tb)
<1>. SUFFICES ASSUME NEW n \in PeerNodes PROVE TableOpen(cs, tb, n) /\ OpenInTable(cs, tb, n)
  BY DEF Agree
<1>1. TableOpen(cs, tb, n)
  BY DEF Agree, TableOpen, Other
<1>2. OpenInTable(cs, tb, n)
  BY DEF Agree, OpenInTable, Other
<1>. QED  BY <1>1, <1>2

\* The table of n without the peers ids.
TableWithout(tb, n, ids) == [tb EXCEPT ![n] = Drop(tb[n], ids)]

\* _remove_peer of the peers ids of n.
Removal(cs, tc, ls) ==
    /\ cs \in Seq(Connections) /\ DOMAIN cs = DOMAIN ls /\ Len(cs) = Len(ls) /\ Tables(tc) /\ Agree(cs, tc)
    /\ \A l \in DOMAIN ls : cs[l].from = ls[l].from /\ cs[l].to = ls[l].to /\ cs[l].ack = ls[l].ack
    /\ \A l \in DOMAIN ls, x \in PeerNodes : x \in Sides(ls[l]) /\ ls[l].at[x] # "open" => cs[l].at[x] = ls[l].at[x]

LEMMA PeersRemoved ==
    ASSUME NEW ls \in Seq(Connections), NEW tb, Tables(tb), Agree(ls, tb), NEW n \in PeerNodes, NEW ids
    PROVE  Removal(Closed(ls, n, {tb[n][m] : m \in ids \cap DOMAIN tb[n]}), TableWithout(tb, n, ids), ls)
<1>. DEFINE gone == {tb[n][m] : m \in ids \cap DOMAIN tb[n]}
            cs == Closed(ls, n, gone)
            tc == TableWithout(tb, n, ids)
<1>1. \A m \in DOMAIN tb[n] : tb[n][m] \in DOMAIN ls /\ IsOpen(ls[tb[n][m]], n) /\ Other(ls[tb[n][m]], n) = m
  BY DEF Agree, TableOpen
<1>2. gone \in SUBSET DOMAIN ls /\ \A l \in gone : IsOpen(ls[l], n) /\ Other(ls[l], n) \in ids
  BY <1>1
<1>3. \A l \in DOMAIN ls : l \notin gone /\ IsOpen(ls[l], n) => Other(ls[l], n) \notin ids
  BY DEF Agree, OpenInTable
<1>4. tc[n] = Drop(tb[n], ids) /\ (\A x \in PeerNodes \ {n} : tc[x] = tb[x]) /\ Tables(tc)
  BY DEF Tables, Drop, TableWithout
<1>5. DOMAIN tc[n] = DOMAIN tb[n] \ ids /\ \A m \in DOMAIN tb[n] \ ids : tc[n][m] = tb[n][m]
  BY <1>4 DEF Drop
<1>. HIDE DEF gone, tc
<1>6. /\ cs \in Seq(Connections) /\ Len(cs) = Len(ls) /\ DOMAIN cs = DOMAIN ls
      /\ \A l \in DOMAIN ls :
            /\ cs[l].from = ls[l].from /\ cs[l].to = ls[l].to /\ cs[l].ack = ls[l].ack
            /\ \A x \in Sides(ls[l]) : cs[l].at[x] = IF l \in gone /\ x = n THEN "closed" ELSE ls[l].at[x]
  <2>1. \A l \in gone : n \in Sides(ls[l])
    BY <1>2 DEF IsOpen
  <2>. QED  BY <1>2, <2>1, ClosedLinks
<1>. HIDE DEF cs
<1>7. \A l \in DOMAIN ls, x \in PeerNodes : IsOpen(cs[l], x) <=> IsOpen(ls[l], x) /\ ~(l \in gone /\ x = n)
  BY <1>6 DEF IsOpen, Sides
<1>8. ASSUME NEW x \in PeerNodes PROVE TableOpen(cs, tc, x) /\ OpenInTable(cs, tc, x)
  <2>0. TableOpen(ls, tb, x) /\ OpenInTable(ls, tb, x) /\ \A l \in DOMAIN ls : Other(cs[l], x) = Other(ls[l], x)
    BY <1>6 DEF Agree, Other
  <2>1. CASE x # n
    BY <1>4, <1>6, <1>7, <2>0, <2>1 DEF TableOpen, OpenInTable
  <2>2. CASE x = n
    <3>1. \A m \in DOMAIN tb[n] \ ids : tb[n][m] \notin gone
      BY <1>1, <1>2
    <3>2. TableOpen(cs, tc, n)
      BY <1>1, <1>5, <1>6, <1>7, <2>0, <2>2, <3>1 DEF TableOpen
    <3>3. OpenInTable(cs, tc, n)
      BY <1>3, <1>5, <1>6, <1>7, <2>0, <2>2 DEF OpenInTable
    <3>. QED  BY <2>2, <3>2, <3>3
  <2>. QED  BY <2>1, <2>2
<1>9. Agree(cs, tc)
  BY <1>8 DEF Agree
<1>10. \A l \in DOMAIN ls, x \in PeerNodes : x \in Sides(ls[l]) /\ ls[l].at[x] # "open" => cs[l].at[x] = ls[l].at[x]
  BY <1>2, <1>6 DEF IsOpen
<1>11. Removal(cs, tc, ls)
  BY <1>4, <1>6, <1>9, <1>10 DEF Removal
<1>. QED  BY <1>11 DEF cs, tc, gone

Good(ls, tb) == ls \in Seq(Connections) /\ Tables(tb) /\ Agree(ls, tb)

\* One connection changes, and neither its ends nor which of its sides are open.
LEMMA OneLink ==
    ASSUME NEW ls, NEW tb, Good(ls, tb), NEW l \in DOMAIN ls, NEW c \in Connections,
           c.from = ls[l].from, c.to = ls[l].to, \A n \in PeerNodes : IsOpen(c, n) <=> IsOpen(ls[l], n)
    PROVE  Good([ls EXCEPT ![l] = c], tb)
<1>. DEFINE cs == [ls EXCEPT ![l] = c]
<1>1. cs \in Seq(Connections) /\ DOMAIN cs = DOMAIN ls /\ cs[l] = c /\ \A j \in DOMAIN ls \ {l} : cs[j] = ls[j]
  BY DEF Good
<1>. HIDE DEF cs
<1>2. \A j \in DOMAIN ls : cs[j].from = ls[j].from /\ cs[j].to = ls[j].to
                  /\ \A n \in PeerNodes : IsOpen(cs[j], n) <=> IsOpen(ls[j], n)
  BY <1>1
<1>3. Agree(cs, tb)
  <2>1. Agree(ls, tb) /\ DOMAIN ls \subseteq DOMAIN cs /\ \A j \in DOMAIN cs \ DOMAIN ls : \A n \in PeerNodes : ~IsOpen(cs[j], n)
    BY <1>1 DEF Good
  <2>. QED  BY <1>2, <2>1, SameSides
<1>. QED  BY <1>1, <1>3 DEF Good, cs

\* A side that is not open is closed.
LEMMA OneClosed ==
    ASSUME NEW ls, NEW tb, Good(ls, tb), NEW l \in DOMAIN ls, NEW n \in Sides(ls[l]), ls[l].at[n] # "open"
    PROVE  Good(Closed(ls, n, {l}), tb)
<1>. DEFINE cs == Closed(ls, n, {l})
<1>1. /\ cs \in Seq(Connections) /\ DOMAIN cs = DOMAIN ls
      /\ \A j \in DOMAIN ls : /\ cs[j].from = ls[j].from /\ cs[j].to = ls[j].to
                              /\ \A x \in Sides(ls[j]) : cs[j].at[x] = IF j \in {l} /\ x = n THEN "closed" ELSE ls[j].at[x]
  <2>1. ls \in Seq(Connections) /\ {l} \in SUBSET DOMAIN ls /\ \A j \in {l} : n \in Sides(ls[j])
    BY DEF Good
  <2>. QED  BY <2>1, ClosedLinks
<1>. HIDE DEF cs
<1>2. \A j \in DOMAIN ls : \A x \in PeerNodes : IsOpen(cs[j], x) <=> IsOpen(ls[j], x)
  BY <1>1 DEF IsOpen, Sides
<1>3. Agree(cs, tb)
  <2>1. Agree(ls, tb) /\ DOMAIN ls \subseteq DOMAIN cs /\ \A j \in DOMAIN cs \ DOMAIN ls : \A x \in PeerNodes : ~IsOpen(cs[j], x)
    BY <1>1 DEF Good
  <2>. QED  BY <1>1, <1>2, <2>1, SameSides
<1>. QED  BY <1>1, <1>3 DEF Good, cs

\* The table of n has m from now on.
TableWith(tb, n, m, l) == [tb EXCEPT ![n] = [k \in DOMAIN tb[n] \cup {m} |-> IF k = m THEN l ELSE tb[n][k]]]

\* A connection to a peer that the table of n lacks is entered.
LEMMA OneEntered ==
    ASSUME NEW ls, NEW tb, Good(ls, tb), NEW l \in DOMAIN ls, NEW n \in Sides(ls[l]), ls[l].at[n] # "open",
           Other(ls[l], n) \notin DOMAIN tb[n]
    PROVE  Good(Entered(ls, n, l), TableWith(tb, n, Other(ls[l], n), l))
<1>. DEFINE cs == Entered(ls, n, l)
            m == Other(ls[l], n)
            tc == TableWith(tb, n, m, l)
<1>0. n \in PeerNodes /\ m \in PeerNodes /\ ls \in Seq(Connections) /\ Agree(ls, tb) /\ Tables(tb)
  BY DEF Good, Connections, Sides, Other
<1>1. /\ cs \in Seq(Connections) /\ DOMAIN cs = DOMAIN ls
      /\ \A j \in DOMAIN ls : /\ cs[j].from = ls[j].from /\ cs[j].to = ls[j].to
                              /\ \A x \in Sides(ls[j]) : cs[j].at[x] = IF j = l /\ x = n THEN "open" ELSE ls[j].at[x]
  BY <1>0, EnteredLink
<1>. HIDE DEF cs
<1>2. \A j \in DOMAIN ls : \A x \in PeerNodes : IsOpen(cs[j], x) <=> IsOpen(ls[j], x) \/ (j = l /\ x = n)
  BY <1>1 DEF IsOpen, Sides
<1>3. tc[n] = [k \in DOMAIN tb[n] \cup {m} |-> IF k = m THEN l ELSE tb[n][k]]
      /\ (\A x \in PeerNodes \ {n} : tc[x] = tb[x]) /\ Tables(tc)
  <2>. HIDE DEF m
  <2>. QED  BY <1>0 DEF Tables, TableWith
<1>4. DOMAIN tc[n] = DOMAIN tb[n] \cup {m} /\ tc[n][m] = l /\ \A k \in DOMAIN tb[n] : tc[n][k] = tb[n][k]
  <2>1. m \notin DOMAIN tb[n]
    OBVIOUS
  <2>. HIDE DEF m, tc
  <2>. QED  BY <1>3, <2>1
<1>5. \A j \in DOMAIN ls : \A x : Other(cs[j], x) = Other(ls[j], x)
  BY <1>1 DEF Other
<1>. HIDE DEF tc
<1>6. ASSUME NEW x \in PeerNodes PROVE TableOpen(cs, tc, x) /\ OpenInTable(cs, tc, x)
  <2>0. TableOpen(ls, tb, x) /\ OpenInTable(ls, tb, x)
    BY <1>0 DEF Agree
  <2>1. CASE x # n
    BY <1>1, <1>2, <1>3, <1>5, <2>0, <2>1 DEF TableOpen, OpenInTable
  <2>2. CASE x = n
    <3>0. m = Other(ls[l], n) /\ m \notin DOMAIN tb[n]
      OBVIOUS
    <3>. HIDE DEF m
    <3>1. TableOpen(cs, tc, n)
      BY <1>0, <1>1, <1>2, <1>4, <1>5, <2>0, <2>2, <3>0 DEF TableOpen
    <3>2. ASSUME NEW j \in DOMAIN cs, IsOpen(cs[j], n)
          PROVE  Other(cs[j], n) \in DOMAIN tc[n] /\ tc[n][Other(cs[j], n)] = j
      <4>1. CASE j = l
        BY <1>1, <1>4, <1>5, <3>0, <4>1
      <4>2. CASE j # l
        <5>1. Other(ls[j], n) \in DOMAIN tb[n] /\ tb[n][Other(ls[j], n)] = j
          BY <1>0, <1>1, <1>2, <2>0, <2>2, <3>2, <4>2 DEF OpenInTable
        <5>. QED  BY <1>1, <1>4, <1>5, <5>1
      <4>. QED  BY <4>1, <4>2
    <3>. QED  BY <2>2, <3>1, <3>2 DEF OpenInTable
  <2>. QED  BY <2>1, <2>2
<1>7. Good(cs, tc)
  BY <1>1, <1>3, <1>6 DEF Good, Agree
<1>. QED  BY <1>7 DEF cs, tc

\* A new connection, of which no side is open.
LEMMA OneAppended ==
    ASSUME NEW ls, NEW tb, Good(ls, tb), NEW c \in Connections, \A x \in PeerNodes : ~IsOpen(c, x)
    PROVE  Good(Append(ls, c), tb)
<1>. DEFINE cs == Append(ls, c)
<1>1. cs \in Seq(Connections) /\ DOMAIN ls \subseteq DOMAIN cs /\ (\A j \in DOMAIN ls : cs[j] = ls[j])
      /\ \A j \in DOMAIN cs \ DOMAIN ls : cs[j] = c
  BY DEF Good
<1>. HIDE DEF cs
<1>2. Agree(cs, tb)
  <2>1. Agree(ls, tb)
    BY DEF Good
  <2>. QED  BY <1>1, <2>1, SameSides
<1>. QED  BY <1>1, <1>2 DEF Good, cs

\* RemovePeers
LEMMA RemovedGood ==
    ASSUME NEW ls, NEW tb, Good(ls, tb), NEW n \in PeerNodes, NEW ids
    PROVE  Good(Closed(ls, n, {tb[n][m] : m \in ids \cap DOMAIN tb[n]}), TableWithout(tb, n, ids))
BY PeersRemoved DEF Good, Removal

-----------------------------------------------------------------------------
(* The steps *)

PeersInv == Good(links, table) /\ known \in [PeerNodes -> SUBSET PeerNodes]

LEMMA PeersStart == PeersInit => PeersInv
<1>. SUFFICES ASSUME PeersInit PROVE PeersInv
  OBVIOUS
<1>1. links \in Seq(Connections) /\ DOMAIN links = {}
  BY DEF PeersInit
<1>2. Tables(table) /\ \A n \in PeerNodes : DOMAIN table[n] = {}
  BY DEF PeersInit, Tables
<1>3. Agree(links, table)
  BY <1>1, <1>2 DEF Agree, TableOpen, OpenInTable
<1>4. known \in [PeerNodes -> SUBSET PeerNodes]
  BY PeersAssumption DEF PeersInit
<1>. QED  BY <1>1, <1>2, <1>3, <1>4 DEF PeersInv, Good

\* connect_peer and what it prunes.
LEMMA DialGood ==
    ASSUME PeersInv, NEW n \in PeerNodes, NEW m \in PeerNodes, Dial(n, m)
    PROVE  Good(links', table')
<1>. DEFINE gone == {table[n][d] : d \in Dead(n) \cap DOMAIN table[n]}
            pruned == Closed(links, n, gone)
            at0 == [x \in {n, m} |-> IF x = n THEN "dials" ELSE "called"]
            age0 == [x \in {n, m} |-> 0]
            link == [from |-> n, to |-> m, ack |-> "none", age |-> age0, at |-> at0]
<1>1. table' = TableWithout(table, n, Dead(n))
  BY DEF Dial, TableWithout
<1>2. gone = {table[n][d] : d \in Dead(n)}
  BY DEF Dead
<1>3. links' = pruned \/ (m # n /\ links' = Append(pruned, link))
  BY <1>2 DEF Dial
<1>4. Good(pruned, table')
  BY <1>1, RemovedGood DEF PeersInv
<1>5. ASSUME m # n PROVE link \in Connections /\ \A x \in PeerNodes : ~IsOpen(link, x)
  <2>1. at0 \in [{n, m} -> Stages] /\ age0 \in [{n, m} -> Nat] /\ {n, m} \in SUBSET PeerNodes
    BY DEF Stages
  <2>2. at0 \in Ats /\ age0 \in Ages /\ DOMAIN at0 = {n, m} /\ DOMAIN age0 = {n, m}
        /\ \A x \in {n, m} : at0[x] # "open"
    BY <2>1 DEF Ats, Ages
  <2>3. "none" \in Acks
    BY DEF Acks
  <2>. HIDE DEF at0, age0
  <2>4. link \in [from : PeerNodes, to : PeerNodes, ack : Acks, age : Ages, at : Ats]
        /\ link.from = n /\ link.to = m /\ link.at = at0 /\ link.age = age0
    BY <2>2, <2>3
  <2>. HIDE DEF link
  <2>. QED  BY <1>5, <2>2, <2>4 DEF Connections, IsOpen, Sides
<1>. HIDE DEF pruned, link
<1>. QED  BY <1>3, <1>4, <1>5, OneAppended

LEMMA FinishGood ==
    ASSUME PeersInv, NEW l \in DOMAIN links, Finish(l)
    PROVE  PeersInv'
<1>. DEFINE n == links[l].from
            m == links[l].to
<1>1. links[l] \in Connections /\ Good(links, table)
  BY DEF PeersInv, Good
<1>2. n \in PeerNodes /\ m \in PeerNodes /\ n \in Sides(links[l]) /\ Other(links[l], n) = m /\ links[l].at[n] # "open"
  BY <1>1 DEF Connections, Sides, Other, Finish
<1>3. Good(links', table')
  <2>1. CASE links' = Closed(links, n, {l}) /\ table' = table
    BY <1>1, <1>2, <2>1, OneClosed
  <2>2. CASE m \notin DOMAIN table[n] /\ table' = TableWith(table, n, m, l) /\ links' = Entered(links, n, l)
    BY <1>1, <1>2, <2>2, OneEntered
  <2>3. \/ links' = Closed(links, n, {l}) /\ table' = table
        \/ m \notin DOMAIN table[n] /\ table' = TableWith(table, n, m, l) /\ links' = Entered(links, n, l)
    BY DEF Finish, TableWith
  <2>. QED  BY <2>1, <2>2, <2>3
<1>4. known' \in [PeerNodes -> SUBSET PeerNodes]
  BY <1>2 DEF PeersInv, Finish, Remembered
<1>. QED  BY <1>3, <1>4 DEF PeersInv

LEMMA GivesUpGood ==
    ASSUME PeersInv, NEW l \in DOMAIN links, GivesUp(l)
    PROVE  PeersInv'
<1>1. links[l] \in Connections /\ Good(links, table)
  BY DEF PeersInv, Good
<1>2. links[l].from \in Sides(links[l]) /\ links[l].at[links[l].from] # "open"
  BY <1>1 DEF Sides, GivesUp
<1>3. Good(Closed(links, links[l].from, {l}), table)
  BY <1>1, <1>2, OneClosed
<1>. QED  BY <1>3 DEF PeersInv, GivesUp

LEMMA AcceptGood ==
    ASSUME PeersInv, NEW l \in DOMAIN links, Accept(l)
    PROVE  PeersInv'
<1>. DEFINE k == links[l]
            n == k.to
<1>1. k \in Connections /\ Good(links, table) /\ links \in Seq(Connections)
  BY DEF PeersInv, Good
<1>2. n \in Sides(k) /\ k.at[n] = "called" /\ k.age[n] \in Nat /\ k.ack \in Acks
  <2>1. k.at[n] = "called"
    BY DEF Accept
  <2>2. PICK y \in SUBSET PeerNodes : k.age \in [y -> Nat]
    BY <1>1 DEF Connections, Ages
  <2>. QED  BY <1>1, <2>1, <2>2 DEF Connections, Sides
<1>3. PICK s \in {"closed", "accepts"}, w \in {"refused", k.ack} :
          links' = [links EXCEPT ![l] = [k EXCEPT !.at[n] = s, !.ack = w]]
  BY <1>1 DEF Accept
<1>. DEFINE d == [k EXCEPT !.at[n] = s, !.age[n] = k.age[n]]
            c == [d EXCEPT !.ack = w]
<1>. HIDE DEF k
<1>4. SideSet(d, k, n, s)
  <2>1. s \in Stages
    BY DEF Stages
  <2>. QED  BY <1>1, <1>2, <2>1, SideChanged
<1>5. [k EXCEPT !.at[n] = s, !.ack = w] = c
  <2>1. k.age = [k.age EXCEPT ![n] = k.age[n]]
    BY <1>1, <1>2 DEF Connections, Ages
  <2>. QED  BY <1>1, <2>1 DEF Connections
<1>. HIDE DEF d
<1>6. w \in Acks
  BY <1>2 DEF Acks
<1>7. c \in Connections /\ c.from = k.from /\ c.to = k.to /\ c.at = d.at
  BY <1>4, <1>6, AckChanged DEF SideSet
<1>. HIDE DEF c
<1>8. \A x \in PeerNodes : IsOpen(c, x) <=> IsOpen(k, x)
  BY <1>2, <1>4, <1>7 DEF IsOpen, Sides, SideSet
<1>9. Good([links EXCEPT ![l] = c], table)
  BY <1>1, <1>7, <1>8, OneLink DEF k
<1>. QED  BY <1>3, <1>5, <1>9 DEF PeersInv, Accept

\* The age of a side.
LEMMA AgeGood ==
    ASSUME PeersInv, NEW l \in DOMAIN links, NEW n \in Sides(links[l]), NEW g \in Nat
    PROVE  Good([links EXCEPT ![l].age[n] = g], table)
<1>. DEFINE k == links[l]
            d == [k EXCEPT !.at[n] = k.at[n], !.age[n] = g]
            c == [k EXCEPT !.age[n] = g]
<1>1. k \in Connections /\ Good(links, table) /\ links \in Seq(Connections) /\ n \in Sides(k)
  BY DEF PeersInv, Good
<1>2. [links EXCEPT ![l].age[n] = g] = [links EXCEPT ![l] = c]
  BY <1>1
<1>. HIDE DEF k
<1>3. k.at[n] \in Stages /\ k.at = [k.at EXCEPT ![n] = k.at[n]]
  <2>1. PICK y \in SUBSET PeerNodes : k.at \in [y -> Stages]
    BY <1>1 DEF Connections, Ats
  <2>. QED  BY <1>1, <2>1 DEF Connections, Sides
<1>4. SideSet(d, k, n, k.at[n])
  BY <1>1, <1>3, SideChanged
<1>5. c = d
  BY <1>1, <1>3 DEF Connections
<1>. HIDE DEF c, d
<1>6. \A x \in PeerNodes : IsOpen(c, x) <=> IsOpen(k, x)
  BY <1>4, <1>5 DEF IsOpen, Sides, SideSet
<1>7. Good([links EXCEPT ![l] = c], table)
  BY <1>1, <1>4, <1>5, <1>6, OneLink DEF k, SideSet
<1>. QED  BY <1>2, <1>7

\* The answer is sent on a connection.
LEMMA AckGood ==
    ASSUME NEW ls, NEW tb, Good(ls, tb), NEW l \in DOMAIN ls
    PROVE  Good([ls EXCEPT ![l].ack = "info"], tb)
<1>. DEFINE k == ls[l]
            c == [k EXCEPT !.ack = "info"]
<1>1. k \in Connections /\ [ls EXCEPT ![l].ack = "info"] = [ls EXCEPT ![l] = c] /\ "info" \in Acks
  BY DEF Good, Acks
<1>. HIDE DEF k
<1>2. c \in Connections /\ c.from = k.from /\ c.to = k.to /\ c.at = k.at
  BY <1>1, AckChanged
<1>. HIDE DEF c
<1>3. \A x \in PeerNodes : IsOpen(c, x) <=> IsOpen(k, x)
  BY <1>2 DEF IsOpen, Sides
<1>. QED  BY <1>1, <1>2, <1>3, OneLink DEF k

LEMMA AnswerCallGood ==
    ASSUME PeersInv, NEW l \in DOMAIN links, AnswerCall(l)
    PROVE  PeersInv'
<1>. DEFINE n == links[l].to
            m == links[l].from
            old == {table[n][x] : x \in {m} \cap DOMAIN table[n]}
            cs == Closed(links, n, old)
            tc == TableWithout(table, n, {m})
<1>1. links[l] \in Connections /\ Good(links, table)
  BY DEF PeersInv, Good
<1>2. n \in PeerNodes /\ m \in PeerNodes /\ n \in Sides(links[l]) /\ Other(links[l], n) = m /\ links[l].at[n] # "open"
      /\ Far(l, n) = m
  BY <1>1 DEF Connections, Sides, Other, AnswerCall, Far
<1>3. ASSUME links' = [Closed(links, n, {l}) EXCEPT ![l].ack = "info"], table' = table PROVE Good(links', table')
  <2>1. Good(Closed(links, n, {l}), table) /\ l \in DOMAIN Closed(links, n, {l})
    BY <1>1, <1>2, OneClosed DEF Closed
  <2>. QED  BY <1>3, <2>1, AckGood
<1>4. ASSUME links' = [Entered(cs, n, l) EXCEPT ![l].ack = "info"], table' = TableWith(tc, n, m, l) PROVE Good(links', table')
  <2>1. Good(cs, tc) /\ l \in DOMAIN cs /\ cs[l].from = links[l].from /\ cs[l].to = links[l].to
        /\ cs[l].at[n] # "open"
    <3>1. n \in PeerNodes /\ links \in Seq(Connections) /\ Tables(table) /\ Agree(links, table)
      BY <1>1, <1>2 DEF Good
    <3>. HIDE DEF n, m
    <3>2. Removal(cs, tc, links)
      BY <3>1, PeersRemoved
    <3>. HIDE DEF cs, tc
    <3>. QED  BY <1>1, <1>2, <3>1, <3>2 DEF Good, Removal
  <2>2. n \in Sides(cs[l]) /\ Other(cs[l], n) = m /\ m \notin DOMAIN tc[n]
    <3>1. m \notin DOMAIN tc[n]
      BY <1>1, <1>2 DEF TableWithout, Drop, Good, Tables
    <3>. QED  BY <1>2, <2>1, <3>1 DEF Sides, Other
  <2>. HIDE DEF cs, tc
  <2>3. Good(Entered(cs, n, l), TableWith(tc, n, m, l)) /\ l \in DOMAIN Entered(cs, n, l)
    BY <2>1, <2>2, OneEntered DEF Entered
  <2>. QED  BY <1>4, <2>3, AckGood
<1>5. \/ links' = [Closed(links, n, {l}) EXCEPT ![l].ack = "info"] /\ table' = table
      \/ links' = [Entered(cs, n, l) EXCEPT ![l].ack = "info"] /\ table' = TableWith(tc, n, m, l)
  <2>1. old = IF m \in DOMAIN table[n] THEN {table[n][m]} ELSE {}
    OBVIOUS
  <2>2. Replaced(n, l) = Entered(cs, n, l)
    BY <1>2, <2>1 DEF Replaced
  <2>3. tc[n] = Drop(table[n], {m}) /\ DOMAIN tc = PeerNodes /\ tc = [x \in PeerNodes |-> tc[x]] /\ (\A x \in PeerNodes \ {n} : tc[x] = table[x])
    BY <1>1, <1>2 DEF TableWithout, Good, Tables
  <2>4. TableWith(tc, n, m, l) = [table EXCEPT ![n] = [k \in DOMAIN @ \cup {m} |-> IF k = m THEN l ELSE @[k]]]
    <3>. DEFINE wa == [k \in DOMAIN tc[n] \cup {m} |-> IF k = m THEN l ELSE tc[n][k]]
                wb == [k \in DOMAIN table[n] \cup {m} |-> IF k = m THEN l ELSE table[n][k]]
    <3>1. wa = wb
      <4>1. DOMAIN tc[n] = DOMAIN table[n] \ {m} /\ \A k \in DOMAIN tc[n] : tc[n][k] = table[n][k]
        BY <2>3 DEF Drop
      <4>. HIDE DEF tc, n, m
      <4>. QED  BY <4>1
    <3>2. TableWith(tc, n, m, l) = [tc EXCEPT ![n] = wa]
      BY DEF TableWith
    <3>3. [tc EXCEPT ![n] = wb] = [table EXCEPT ![n] = wb]
      <4>1. DOMAIN table = PeerNodes /\ table = [x \in PeerNodes |-> table[x]]
        BY <1>1 DEF Good, Tables
      <4>. HIDE DEF wb, tc, n
      <4>. QED  BY <1>2, <2>3, <4>1
    <3>. QED  BY <3>1, <3>2, <3>3
  <2>. HIDE DEF cs, tc
  <2>. QED  BY <2>2, <2>4 DEF AnswerCall
<1>6. known' \in [PeerNodes -> SUBSET PeerNodes]
  BY <1>2 DEF PeersInv, AnswerCall, Remembered
<1>. QED  BY <1>3, <1>4, <1>5, <1>6 DEF PeersInv

LEMMA RemovePeersGood ==
    ASSUME PeersInv, NEW n \in PeerNodes, NEW ids, RemovePeers(n, ids), UNCHANGED known
    PROVE  PeersInv'
BY RemovedGood DEF PeersInv, RemovePeers, TableWithout

LEMMA PeersStep == PeersInv /\ [PeersNext]_peerVars => PeersInv'
<1>. SUFFICES ASSUME PeersInv, [PeersNext]_peerVars PROVE PeersInv'
  OBVIOUS
<1>0. \A n \in PeerNodes : known[n] \subseteq PeerNodes /\ Bootstrap[n] \subseteq PeerNodes /\ DOMAIN table[n] \subseteq PeerNodes
  BY PeersAssumption DEF PeersInv, Good, Tables
<1>1. ASSUME NEW l \in DOMAIN links, Finish(l) \/ GivesUp(l) \/ Accept(l) \/ AnswerCall(l) PROVE PeersInv'
  BY <1>1, FinishGood, GivesUpGood, AcceptGood, AnswerCallGood
<1>2. ASSUME NEW n \in PeerNodes, NEW l \in Links(n), LoopEnds(n, l) PROVE PeersInv'
  BY <1>2, RemovePeersGood DEF LoopEnds
<1>3. ASSUME NEW n \in PeerNodes, NEW l \in Links(n), Hears(n, l) \/ Silence(n, l) PROVE PeersInv'
  <2>1. l \in DOMAIN links /\ n \in Sides(links[l])
    BY DEF Links, Ends, Sides
  <2>2. links[l].age[n] \in Nat
    <3>1. links[l] \in Connections
      BY <2>1 DEF PeersInv, Good
    <3>2. PICK y \in SUBSET PeerNodes : links[l].age \in [y -> Nat]
      BY <3>1 DEF Connections, Ages
    <3>. QED  BY <2>1, <3>1, <3>2 DEF Connections, Sides
  <2>3. PICK g \in Nat : links' = [links EXCEPT ![l].age[n] = g] /\ table' = table /\ known' = known
    <3>1. CASE Hears(n, l)
      BY <3>1 DEF Hears
    <3>2. CASE Silence(n, l)
      <4>. DEFINE h == links[l].age[n] + 1
      <4>1. h \in Nat
        BY <2>2
      <4>2. links' = [links EXCEPT ![l].age[n] = h] /\ table' = table /\ known' = known
        BY <3>2 DEF Silence
      <4>. HIDE DEF h
      <4>. QED  BY <4>1, <4>2
    <3>. QED  BY <1>3, <3>1, <3>2
  <2>. QED  BY <2>1, <2>3, AgeGood DEF PeersInv
<1>4. ASSUME NEW n \in PeerNodes, PingCollects(n) PROVE PeersInv'
  BY <1>4 DEF PingCollects, PeersInv
<1>5. ASSUME NEW n \in PeerNodes, PingRemoves(n) \/ StopNode(n) PROVE PeersInv'
  BY <1>5, RemovePeersGood DEF PingRemoves, StopNode
<1>6. ASSUME NEW n \in PeerNodes, CatchUpDials(n) \/ BootstrapRetry(n) \/ ReconnectKnownPeers(n) PROVE PeersInv'
  <2>1. PICK m \in PeerNodes : Dial(n, m) /\ known' = known
    BY <1>0, <1>6 DEF CatchUpDials, BootstrapRetry, ReconnectKnownPeers
  <2>. QED  BY <2>1, DialGood DEF PeersInv
<1>7. ASSUME NEW n \in PeerNodes, NEW l \in OpenLinks(n), HearsPeers(n, l) PROVE PeersInv'
  <2>1. l \in DOMAIN links /\ Far(l, n) \in PeerNodes
    BY DEF OpenLinks, Links, Far, PeersInv, Good, Connections
  <2>2. DOMAIN table[Far(l, n)] \ {n} \subseteq PeerNodes
    BY <1>0, <2>1
  <2>3. PICK m \in PeerNodes : Dial(n, m)
    BY <1>7, <2>2 DEF HearsPeers
  <2>4. known' \in [PeerNodes -> SUBSET PeerNodes]
    BY <1>7, <2>2 DEF HearsPeers, Remembered, PeersInv
  <2>. QED  BY <2>3, <2>4, DialGood DEF PeersInv
<1>8. CASE UNCHANGED peerVars
  BY <1>8 DEF peerVars, PeersInv
<1>. QED  BY <1>1, <1>2, <1>3, <1>4, <1>5, <1>6, <1>7, <1>8 DEF PeersNext, DiscoveryTurn, PostReconnect

\* The invariant is enough.
LEMMA AgreeIsOpenIsInTable == PeersInv => OpenIsInTable
<1>. SUFFICES ASSUME PeersInv, NEW n \in PeerNodes PROVE OpenLinks(n) = Range(table[n])
  BY DEF OpenIsInTable
<1>1. TableOpen(links, table, n) /\ OpenInTable(links, table, n)
  BY DEF PeersInv, Good, Agree
<1>2. OpenLinks(n) = {l \in DOMAIN links : IsOpen(links[l], n)}
  BY DEF OpenLinks, Links, Ends, IsOpen, Sides
<1>3. Range(table[n]) = {table[n][m] : m \in DOMAIN table[n]}
  BY DEF Range
<1>. QED  BY <1>1, <1>2, <1>3 DEF TableOpen, OpenInTable

LEMMA PeersNodeStep ==
    ASSUME PeersInv, [NodeNext]_nodeVars
    PROVE  PeersInv'
<1>1. CASE PeersNext
  BY <1>1, PeersStep
<1>2. CASE UNCHANGED peerVars
  BY <1>2, PeersStep
<1>. QED  BY <1>1, <1>2 DEF NodeNext, nodeVars

\* OpenIsInTable for every number of nodes, every limit and every bootstrap list
\* (p2p_node.py, connect_peer, _handle_incoming, _remove_peer): whatever dials, answers,
\* replacements, removals and stops interleave, no open connection is lost from the
\* table and none in the table is closed.
THEOREM NoConnectionLeaks == NodeSpec => []OpenIsInTable
<1>1. NodeInit => PeersInv
  BY PeersStart DEF NodeInit
<1>2. PeersInv /\ [NodeNext]_nodeVars => PeersInv'
  BY PeersNodeStep
<1>3. PeersInv => OpenIsInTable
  BY AgreeIsOpenIsInTable
<1>. QED  BY <1>1, <1>2, <1>3, PTL DEF NodeSpec

-----------------------------------------------------------------------------
(* Transactions that were answered *)

AccountedIn(t, pool, used, lost) == t \in pool \/ t.nonce < used[t.from] \/ t \in lost
Accounted(t) == AccountedIn(t, txPool, nonces, dropped)

\* The handlers: idle, or on the way with a transaction.
Handler == {Idle} \cup [step : {"add", "insert", "answer"}, tx : Txs]

\* A transaction is accounted for from its insertion on, before the client has the answer; what
\* the miner still has to remove from the pool is executed.
FlowInv ==
    /\ nonces \in [Senders -> Nat]
    /\ sub \in [Submitters -> Handler]
    /\ txPool \subseteq Txs /\ picked \subseteq Txs /\ included \subseteq Txs /\ answered \subseteq Txs
    /\ IsFiniteSet(txPool) /\ IsFiniteSet(picked)
    /\ \A t \in answered : Accounted(t)
    /\ \A h \in Submitters : sub[h].step = "answer" => Accounted(sub[h].tx)
    /\ \A t \in included : t.nonce < nonces[t.from]

\* A step that uses nonces and takes from the pool only what is executed or dropped.
LEMMA AccountedKept ==
    ASSUME FlowInv, NEW t \in Txs, Accounted(t),
           nonces' \in [Senders -> Nat], \A s \in Senders : nonces[s] <= nonces'[s],
           \A u \in txPool : u \in txPool' \/ u \in dropped' \/ u.nonce < nonces'[u.from],
           \A u \in dropped : u \in dropped' \/ u \in txPool'
    PROVE  AccountedIn(t, txPool', nonces', dropped')
<1>1. t.nonce \in Nat /\ t.from \in Senders
  BY TxFlowAssumption
<1>2. nonces[t.from] \in Nat /\ nonces'[t.from] \in Nat /\ nonces[t.from] <= nonces'[t.from]
  BY <1>1 DEF FlowInv
<1>. QED  BY <1>1, <1>2 DEF Accounted, AccountedIn

\* add_block of transactions that pass, one of a sender.
LEMMA BlockApplied ==
    ASSUME FlowInv, NEW b \in SUBSET Txs, Applied(b), \A t \in b : Current(t),
           \A t \in b : \E u : {v \in b : v.from = t.from} = {u}
    PROVE  /\ nonces' \in [Senders -> Nat] /\ \A s \in Senders : nonces[s] <= nonces'[s]
           /\ \A t \in b : t.nonce < nonces'[t.from]
<1>. DEFINE ofs(s) == {t \in b : t.from = s}
<1>1. \A s \in Senders : nonces'[s] = nonces[s] + Cardinality(ofs(s)) /\ nonces[s] \in Nat
  BY DEF Applied, FlowInv
<1>2. \A s \in Senders : Cardinality(ofs(s)) \in {0, 1}
  <2>. SUFFICES ASSUME NEW s \in Senders PROVE Cardinality(ofs(s)) \in {0, 1}
    OBVIOUS
  <2>1. CASE ofs(s) = {}
    BY <2>1, FS_EmptySet
  <2>2. CASE \E t \in b : t.from = s
    <3>1. \E u : ofs(s) = {u}
      BY <2>2
    <3>. QED  BY <3>1, FS_Singleton
  <2>. QED  BY <2>1, <2>2
<1>3. \A t \in b : Cardinality(ofs(t.from)) = 1
  <2>. SUFFICES ASSUME NEW t \in b PROVE Cardinality(ofs(t.from)) = 1
    OBVIOUS
  <2>1. \E u : ofs(t.from) = {u}
    OBVIOUS
  <2>. QED  BY <2>1, FS_Singleton
<1>4. DOMAIN nonces' = Senders /\ nonces' = [s \in Senders |-> nonces'[s]]
  BY DEF Applied
<1>. HIDE DEF ofs
<1>5. nonces' \in [Senders -> Nat] /\ \A s \in Senders : nonces[s] <= nonces'[s]
  BY <1>1, <1>2, <1>4
<1>6. \A t \in b : t.nonce < nonces'[t.from]
  <2>1. \A t \in b : t.from \in Senders /\ t.nonce \in Nat /\ t.nonce = nonces[t.from]
    BY TxFlowAssumption DEF Current
  <2>. QED  BY <1>1, <1>3, <2>1
<1>. QED  BY <1>5, <1>6

LEMMA FlowStart == FlowInit => FlowInv
BY FS_EmptySet DEF FlowInit, FlowInv, Handler, Idle

LEMMA SubmitStep ==
    ASSUME FlowInv, NEW h \in Submitters, NEW t \in Txs, HandleSendTxObj(h, t)
    PROVE  FlowInv'
<1>1. sub' = [sub EXCEPT ![h] = [step |-> "add", tx |-> t]] /\ nonces' = nonces /\ txPool' = txPool
      /\ picked' = picked /\ included' = included /\ answered' = answered /\ dropped' = dropped
  BY DEF HandleSendTxObj, chainSide
<1>2. [step |-> "add", tx |-> t] \in Handler /\ [step |-> "add", tx |-> t].step # "answer"
  BY DEF Handler
<1>3. sub' \in [Submitters -> Handler] /\ \A g \in Submitters : sub'[g].step = "answer" => sub'[g] = sub[g]
  BY <1>1, <1>2 DEF FlowInv
<1>. QED  BY <1>1, <1>3 DEF FlowInv, Accounted, AccountedIn

LEMMA AddStep ==
    ASSUME FlowInv, NEW h \in Submitters, MempoolAdd(h)
    PROVE  FlowInv'
<1>0. sub[h] \in Handler /\ sub[h].step = "add"
  BY DEF FlowInv, MempoolAdd
<1>1. sub[h] \in [step : {"add", "insert", "answer"}, tx : Txs]
  BY <1>0 DEF Handler, Idle
<1>. DEFINE ins == [sub[h] EXCEPT !.step = "insert"]
<1>2. ins \in Handler /\ ins.step = "insert" /\ Idle \in Handler /\ Idle.step = "idle"
  BY <1>1 DEF Handler, Idle
<1>3. sub' = [sub EXCEPT ![h] = Idle] \/ sub' = [sub EXCEPT ![h] = ins]
  BY DEF MempoolAdd
<1>. HIDE DEF ins
<1>4. sub' \in [Submitters -> Handler] /\ \A g \in Submitters : sub'[g].step = "answer" => sub'[g] = sub[g]
  BY <1>2, <1>3 DEF FlowInv
<1>5. nonces' = nonces /\ txPool' = txPool /\ picked' = picked /\ included' = included /\ answered' = answered /\ dropped' = dropped
  BY DEF MempoolAdd, chainSide
<1>. QED  BY <1>4, <1>5 DEF FlowInv, Accounted, AccountedIn

LEMMA InsertStep ==
    ASSUME FlowInv, NEW h \in Submitters, MempoolInsert(h)
    PROVE  FlowInv'
<1>0. sub[h] \in Handler /\ sub[h].step = "insert"
  BY DEF FlowInv, MempoolInsert
<1>1. sub[h] \in [step : {"add", "insert", "answer"}, tx : Txs]
  BY <1>0 DEF Handler, Idle
<1>. DEFINE ans == [sub[h] EXCEPT !.step = "answer"]
<1>2. ans \in Handler /\ ans.tx = sub[h].tx /\ sub[h].tx \in Txs
  BY <1>1 DEF Handler
<1>3. sub' = [sub EXCEPT ![h] = ans]
  BY DEF MempoolInsert
<1>. HIDE DEF ans
<1>4. sub' \in [Submitters -> Handler] /\ sub'[h] = ans /\ \A g \in Submitters \ {h} : sub'[g] = sub[g]
  BY <1>2, <1>3 DEF FlowInv
<1>5. PICK out \in SUBSET txPool : txPool' = (txPool \ out) \cup {sub[h].tx} /\ dropped' = (dropped \cup out) \ {sub[h].tx}
  BY DEF MempoolInsert, Evicted
<1>6. nonces' = nonces /\ picked' = picked /\ included' = included /\ answered' = answered
  BY DEF MempoolInsert, chainSide
<1>7. \A t \in Txs : Accounted(t) => AccountedIn(t, txPool', nonces', dropped')
  BY <1>5, <1>6 DEF Accounted, AccountedIn
<1>8. AccountedIn(ans.tx, txPool', nonces', dropped')
  BY <1>2, <1>5 DEF Accounted, AccountedIn
<1>9. \A g \in Submitters : sub'[g].step = "answer" => AccountedIn(sub'[g].tx, txPool', nonces', dropped')
  <2>. SUFFICES ASSUME NEW g \in Submitters, sub'[g].step = "answer" PROVE AccountedIn(sub'[g].tx, txPool', nonces', dropped')
    OBVIOUS
  <2>1. CASE g = h
    BY <1>4, <1>8, <2>1
  <2>2. CASE g # h
    <3>1. sub'[g] = sub[g] /\ sub[g] \in Handler /\ sub[g].step = "answer" /\ Accounted(sub[g].tx)
      BY <1>4, <2>2 DEF FlowInv
    <3>2. sub[g].tx \in Txs
      BY <3>1 DEF Handler, Idle
    <3>. QED  BY <1>7, <3>1, <3>2
  <2>. QED  BY <2>1, <2>2
<1>10. IsFiniteSet(txPool')
  <2>1. IsFiniteSet(txPool \ out)
    BY FS_Subset DEF FlowInv
  <2>. QED  BY <1>5, <2>1, FS_AddElement
<1>. QED  BY <1>2, <1>4, <1>5, <1>6, <1>7, <1>9, <1>10 DEF FlowInv, Accounted

LEMMA AnswerStep ==
    ASSUME FlowInv, NEW h \in Submitters, Answer(h)
    PROVE  FlowInv'
<1>0. sub[h] \in Handler /\ sub[h].step = "answer" /\ Accounted(sub[h].tx)
  BY DEF FlowInv, Answer
<1>1. sub[h].tx \in Txs
  BY <1>0 DEF Handler, Idle
<1>2. Idle \in Handler /\ Idle.step = "idle"
  BY DEF Handler, Idle
<1>3. sub' = [sub EXCEPT ![h] = Idle] /\ answered' = answered \cup {sub[h].tx} /\ nonces' = nonces /\ txPool' = txPool
      /\ picked' = picked /\ included' = included /\ dropped' = dropped
  BY DEF Answer, chainSide
<1>4. sub' \in [Submitters -> Handler] /\ \A g \in Submitters : sub'[g].step = "answer" => sub'[g] = sub[g]
  BY <1>2, <1>3 DEF FlowInv
<1>. QED  BY <1>0, <1>1, <1>3, <1>4 DEF FlowInv, Accounted, AccountedIn

\* A step that leaves the handlers as they are.
LEMMA OthersKept ==
    ASSUME FlowInv, sub' = sub, answered' = answered,
           nonces' \in [Senders -> Nat], \A s \in Senders : nonces[s] <= nonces'[s],
           \A u \in txPool : u \in txPool' \/ u \in dropped' \/ u.nonce < nonces'[u.from],
           \A u \in dropped : u \in dropped' \/ u \in txPool',
           txPool' \subseteq txPool, picked' \subseteq txPool \/ picked' = picked, included' \subseteq Txs,
           \A t \in included' : t.nonce < nonces'[t.from]
    PROVE  FlowInv'
<1>1. \A t \in Txs : Accounted(t) => AccountedIn(t, txPool', nonces', dropped')
  BY AccountedKept
<1>2. \A h \in Submitters : sub[h].step = "answer" => sub[h].tx \in Txs
  BY DEF FlowInv, Handler, Idle
<1>3. IsFiniteSet(txPool') /\ IsFiniteSet(picked')
  BY FS_Subset DEF FlowInv
<1>. QED  BY <1>1, <1>2, <1>3 DEF FlowInv, Accounted

LEMMA PickStep ==
    ASSUME FlowInv, Pick
    PROVE  FlowInv'
<1>1. picked' \subseteq txPool
  BY DEF Pick, MempoolGet
<1>. QED  BY <1>1, OthersKept DEF Pick, chainSide, FlowInv

LEMMA ForgeStep ==
    ASSUME FlowInv, Forge
    PROVE  FlowInv'
<1>0. picked' = {} /\ txPool' = txPool /\ sub' = sub /\ answered' = answered /\ dropped' = dropped
  BY DEF Forge
<1>1. CASE included' = {} /\ nonces' = nonces
  BY <1>0, <1>1, OthersKept DEF FlowInv
<1>2. ASSUME NEW b \in Fit(picked), included' = b, Applied(b) PROVE FlowInv'
  <2>1. b \in SUBSET Txs /\ \A t \in b : t \in picked /\ Current(t) /\ ValidateTransaction(t)
    BY <1>2 DEF Fit, FlowInv, ValidateTransaction
  <2>2. \A t \in b : Cardinality({u \in b : u.from = t.from}) = 1
    BY <1>2, <2>1 DEF Fit
  <2>3. \A t \in b : \E u : {v \in b : v.from = t.from} = {u}
    <3>. SUFFICES ASSUME NEW t \in b PROVE \E u : {v \in b : v.from = t.from} = {u}
      OBVIOUS
    <3>. DEFINE q == {v \in b : v.from = t.from}
    <3>1. Cardinality(q) = 1
      BY <2>2
    <3>2. IsFiniteSet(q)
      BY <2>1, FS_Subset DEF FlowInv
    <3>. HIDE DEF q
    <3>3. \E u : q = {u}
      BY <3>1, <3>2, FS_Singleton
    <3>. QED  BY <3>3 DEF q
  <2>4. /\ nonces' \in [Senders -> Nat] /\ \A s \in Senders : nonces[s] <= nonces'[s]
        /\ \A t \in b : t.nonce < nonces'[t.from]
    BY <1>2, <2>1, <2>3, BlockApplied
  <2>. QED  BY <1>0, <1>2, <2>1, <2>4, OthersKept DEF FlowInv
<1>. QED  BY <1>1, <1>2 DEF Forge, chainSide

LEMMA RemoveMinedStep ==
    ASSUME FlowInv, RemoveMined
    PROVE  FlowInv'
BY OthersKept DEF RemoveMined, chainSide, FlowInv, Removed


LEMMA PeerBlockStep ==
    ASSUME FlowInv, NEW b \in SUBSET Txs, NEW i \in BOOLEAN, PeerBlock(b, i)
    PROVE  FlowInv'
<1>0. txPool' = txPool \ b /\ sub' = sub /\ picked' = picked /\ included' = included /\ answered' = answered /\ included = {}
  BY DEF PeerBlock, Announced, Resting
<1>1. CASE i
  <2>1. Applied(b) /\ dropped' = dropped
    BY <1>1 DEF PeerBlock
  <2>2. \A t \in b : Current(t)
    BY DEF PeerBlock, ValidateTransaction
  <2>3. \A t \in b : \E u : {v \in b : v.from = t.from} = {u}
    <3>1. \A t \in b : {v \in b : v.from = t.from} = {t}
      BY DEF PeerBlock
    <3>. QED  BY <3>1
  <2>4. /\ nonces' \in [Senders -> Nat] /\ \A s \in Senders : nonces[s] <= nonces'[s]
        /\ \A t \in b : t.nonce < nonces'[t.from]
    BY <2>1, <2>2, <2>3, BlockApplied
  <2>. QED  BY <1>0, <2>1, <2>4, OthersKept DEF FlowInv
<1>2. CASE ~i
  <2>1. nonces' = nonces /\ dropped' = dropped \cup (txPool \cap b)
    BY <1>2 DEF PeerBlock, chainSide
  <2>. QED  BY <1>0, <2>1, OthersKept DEF FlowInv
<1>. QED  BY <1>1, <1>2

LEMMA RestartStep ==
    ASSUME FlowInv, FlowRestart
    PROVE  FlowInv'
<1>1. sub' = [h \in Submitters |-> Idle] /\ Idle \in Handler /\ Idle.step = "idle"
  BY DEF FlowRestart, Handler, Idle
<1>2. sub' \in [Submitters -> Handler] /\ \A h \in Submitters : sub'[h].step # "answer"
  BY <1>1
<1>. QED  BY <1>2, FS_EmptySet DEF FlowRestart, FlowInv, Accounted, AccountedIn, chainSide

LEMMA FlowStep == FlowInv /\ [FlowNext]_flowVars => FlowInv'
<1>. SUFFICES ASSUME FlowInv, [FlowNext]_flowVars PROVE FlowInv'
  OBVIOUS
<1>1. ASSUME NEW h \in Submitters, PostTxSend(h) \/ PostTxDeploy(h) \/ PostTxCall(h) \/ EthSendTransaction(h) PROVE FlowInv'
  BY <1>1, SubmitStep DEF PostTxSend, PostTxDeploy, PostTxCall, EthSendTransaction
<1>2. ASSUME NEW h \in Submitters, MempoolAdd(h) \/ MempoolInsert(h) \/ Answer(h) PROVE FlowInv'
  BY <1>2, AddStep, InsertStep, AnswerStep
<1>3. CASE Pick \/ Forge \/ RemoveMined \/ FlowRestart
  BY <1>3, PickStep, ForgeStep, RemoveMinedStep, RestartStep
<1>4. ASSUME NEW b \in SUBSET Txs, NEW i \in BOOLEAN, PeerBlock(b, i) PROVE FlowInv'
  BY <1>4, PeerBlockStep
<1>5. ASSUME NEW s \in Senders, ServicePays(s) PROVE FlowInv'
  BY <1>5, OthersKept DEF ServicePays, FlowInv
<1>6. CASE UNCHANGED flowVars
  BY <1>6 DEF flowVars, FlowInv, Accounted, AccountedIn
<1>. QED  BY <1>1, <1>2, <1>3, <1>4, <1>5, <1>6 DEF FlowNext

LEMMA FlowAnswered == FlowInv => AnsweredIsPending
BY DEF FlowInv, AnsweredIsPending, Accounted, AccountedIn


LEMMA FlowNodeStep ==
    ASSUME FlowInv, [NodeNext]_nodeVars
    PROVE  FlowInv'
<1>1. CASE FlowNext
  BY <1>1, FlowStep
<1>2. CASE UNCHANGED flowVars
  BY <1>2, FlowStep
<1>. QED  BY <1>1, <1>2 DEF NodeNext, nodeVars

\* AnsweredIsPending for every set of transactions, threads and pool sizes (api/http.py,
\* mempool, _mining_loop of main.py): no interleaving of handlers, miner, peers' blocks and
\* restarts loses a transaction that a client was told of, beside the losses it names.
THEOREM NoAnswerLost == NodeSpec => []AnsweredIsPending
<1>1. NodeInit => FlowInv
  BY FlowStart DEF NodeInit
<1>2. FlowInv /\ [NodeNext]_nodeVars => FlowInv'
  BY FlowNodeStep
<1>3. FlowInv => AnsweredIsPending
  BY FlowAnswered
<1>. QED  BY <1>1, <1>2, <1>3, PTL DEF NodeSpec

-----------------------------------------------------------------------------
(* The rate limiter *)

Stamps == Nat \X Nat
Steps == {"free", "clean", "store", "count", "append", "refuse", "checks", "handler"}
Requests == [client : Clients, at : Nat, since : Int, list : SUBSET Stamps, step : Steps \ {"free"}]
Keys == Clients \X {WindowId(t) : t \in 0..MaxClock}

GateTypes ==
    /\ clock \in 0..MaxClock
    /\ call \in [Conns -> {Free} \cup Requests]
    /\ requests \in [Clients -> SUBSET Stamps]
    /\ passed \in [Clients -> SUBSET Stamps]
    /\ counts \in [Keys -> Nat]

\* The threads whose request is in the limiter.
InLimiter(c) == call[c].step \in {"clean", "store", "count", "append"}

\* Stamps are numbered.
Numbered == \A cl \in Clients : IsFiniteSet(passed[cl]) /\ \A r \in passed[cl] : r[2] < Cardinality(passed[cl])

\* What is in a list has passed, however the threads overwrite each other's.
ListsPassed ==
    /\ \A cl \in Clients : requests[cl] \subseteq passed[cl]
    /\ \A c \in Conns : call[c].step = "store" => call[c].list \subseteq passed[call[c].client]

\* Nobody in the limiter looks further back than the window of the oldest that was there.
LooksBack ==
    /\ \A c \in Conns : InLimiter(c) => call[c].at <= clock /\ call[c].since <= call[c].at
    /\ \A c \in Conns, d \in Conns : InLimiter(c) /\ InLimiter(d) => call[c].since <= call[d].at

\* What a thread counts is of that window, also when others stored or appended meanwhile.
CountsRecent ==
    /\ \A c \in Conns : call[c].step = "store" => \A r \in call[c].list : r[1] > call[c].at - Window
    /\ \A c \in Conns : call[c].step = "count" => \A r \in requests[call[c].client] : r[1] > call[c].since - Window

InMemory == \A c \in Conns : call[c].step \in {"store", "count", "append"} => limiter = "memory"

OfWindow(cl, w) == {r \in passed[cl] : WindowId(r[1]) = w}

\* Redis counts what passes until the limit is reached.
BucketsPassed ==
    \A k \in Keys : Cardinality(OfWindow(k[1], k[2])) >= Limit \/ Cardinality(OfWindow(k[1], k[2])) >= counts[k]

Refusals ==
    /\ \A c \in Conns : call[c].step = "refuse" => PassedBefore(c) >= Limit
    /\ RefusedAfterLimit

GateInv == GateTypes /\ Numbered /\ ListsPassed /\ LooksBack /\ CountsRecent /\ InMemory /\ BucketsPassed /\ Refusals

LEMMA GateStart == GateInit => GateInv
<1>. SUFFICES ASSUME GateInit PROVE GateInv
  OBVIOUS
<1>0. MaxClock \in Nat /\ Limit \in Nat /\ Window \in Nat
  BY GatewayAssumption
<1>1. GateTypes
  BY <1>0 DEF GateInit, GateTypes, Keys
<1>2. \A c \in Conns : call[c] = Free /\ Free.step = "free"
  BY DEF GateInit, Free
<1>3. \A cl \in Clients : requests[cl] = {} /\ passed[cl] = {}
  BY DEF GateInit
<1>4. \A k \in Keys : counts[k] = 0 /\ k[1] \in Clients
  BY DEF GateInit, Keys
<1>5. BucketsPassed
  <2>1. \A k \in Keys : OfWindow(k[1], k[2]) = {}
    BY <1>3, <1>4 DEF OfWindow
  <2>. QED  BY <1>0, <1>4, <2>1, FS_EmptySet DEF BucketsPassed
<1>6. Numbered
  BY <1>3, FS_EmptySet DEF Numbered
<1>7. refused = {}
  BY DEF GateInit
<1>. QED  BY <1>1, <1>2, <1>3, <1>5, <1>6, <1>7
          DEF GateInv, ListsPassed, LooksBack, CountsRecent, InMemory, Refusals, InLimiter, RefusedAfterLimit

\* The oldest request in the limiter.
LEMMA OldestIs ==
    ASSUME GateInv
    PROVE  Oldest \in Int /\ Oldest <= clock /\ \A d \in Conns : InLimiter(d) => Oldest <= call[d].at
<1>. DEFINE S == {clock} \cup {call[c].at : c \in {x \in Conns : InLimiter(x)}}
<1>1. S \subseteq Nat /\ clock \in S
  BY GatewayAssumption DEF GateInv, GateTypes, InLimiter, Free, Requests
<1>2. \E m \in S : \A x \in S : m <= x
  BY <1>1, LeastNat
<1>3. Oldest = Min(S)
  BY DEF Oldest, InLimiter
<1>. HIDE DEF S
<1>4. Min(S) \in S /\ \A x \in S : Min(S) <= x
  BY <1>2 DEF Min
<1>. QED  BY <1>1, <1>3, <1>4 DEF S

\* What a request in the limiter is.
LEMMA RequestIs ==
    ASSUME GateInv, NEW c \in Conns, call[c].step # "free"
    PROVE  /\ call[c] \in Requests /\ call[c].client \in Clients /\ call[c].at \in Nat /\ call[c].since \in Int
           /\ call[c].list \subseteq Stamps
BY DEF GateInv, GateTypes, Free, Requests

\* Goto changes the step.
Went(c, s) ==
    /\ call' \in [Conns -> {Free} \cup Requests]
    /\ call'[c] \in Requests /\ call'[c].step = s /\ call'[c].client = call[c].client /\ call'[c].at = call[c].at
    /\ call'[c].since = call[c].since /\ call'[c].list = call[c].list
    /\ \A d \in Conns \ {c} : call'[d] = call[d]

LEMMA GoesTo ==
    ASSUME GateInv, NEW c \in Conns, call[c].step # "free", NEW s \in Steps \ {"free"}, Goto(c, s)
    PROVE  Went(c, s)
<1>. DEFINE q == [call[c] EXCEPT !.step = s]
<1>1. q \in Requests /\ q.step = s /\ q.client = call[c].client /\ q.at = call[c].at /\ q.since = call[c].since /\ q.list = call[c].list
  BY RequestIs DEF Requests
<1>2. call' = [call EXCEPT ![c] = q]
  BY DEF Goto
<1>. HIDE DEF q
<1>. QED  BY <1>1, <1>2 DEF Went, GateInv, GateTypes

\* A thread ends.
LEMMA Freed ==
    ASSUME GateInv, NEW c \in Conns, call' = [call EXCEPT ![c] = Free]
    PROVE  /\ call' \in [Conns -> {Free} \cup Requests] /\ call'[c].step = "free"
           /\ \A d \in Conns \ {c} : call'[d] = call[d]
BY DEF GateInv, GateTypes, Free

\* Steps that leave the limiter's data, and threads that are not in it.
LEMMA LimiterKept ==
    ASSUME GateInv, clock' \in 0..MaxClock, clock <= clock', call' \in [Conns -> {Free} \cup Requests],
           \A c \in Conns : call'[c] = call[c] \/ call'[c].step \in {"free", "checks", "handler"},
           requests' = requests, counts' = counts, passed' = passed, limiter' = limiter, RefusedAfterLimit'
    PROVE  GateInv'
<1>1. GateTypes' /\ Numbered' /\ BucketsPassed'
  BY DEF GateInv, GateTypes, Numbered, BucketsPassed, OfWindow
<1>2. ListsPassed' /\ CountsRecent' /\ InMemory'
  BY DEF GateInv, ListsPassed, CountsRecent, InMemory
<1>3. LooksBack'
  <2>1. \A c \in Conns : InLimiter(c)' => call'[c] = call[c] /\ InLimiter(c) /\ call[c].at \in Nat
    BY RequestIs DEF InLimiter
  <2>2. clock \in Int /\ clock' \in Int
    BY DEF GateInv, GateTypes
  <2>. QED  BY <2>1, <2>2 DEF GateInv, LooksBack
<1>4. Refusals'
  BY DEF GateInv, Refusals, PassedBefore
<1>. QED  BY <1>1, <1>2, <1>3, <1>4 DEF GateInv

LEMMA PostStep ==
    ASSUME GateInv, NEW c \in Conns, NEW cl \in Clients, NEW exempt \in BOOLEAN, Post(c, cl, exempt)
    PROVE  GateInv'
<1>0. requests' = requests /\ counts' = counts /\ passed' = passed /\ limiter' = limiter /\ refused' = refused /\ clock' = clock
  BY DEF Post, limits
<1>. DEFINE s == IF limiter = "off" \/ exempt THEN "checks" ELSE "clean"
            q == [client |-> cl, at |-> clock, since |-> Oldest, list |-> {}, step |-> s]
<1>1. call' = [call EXCEPT ![c] = q] /\ s \in Steps \ {"free"}
  BY DEF Post, Steps
<1>2. clock \in Nat /\ Oldest \in Int /\ Oldest <= clock /\ \A d \in Conns : InLimiter(d) => Oldest <= call[d].at
  BY OldestIs, GatewayAssumption DEF GateInv, GateTypes
<1>3. q \in Requests /\ q.step = s /\ q.at = clock /\ q.since = Oldest /\ s \in {"checks", "clean"}
  BY <1>1, <1>2 DEF Requests
<1>. HIDE DEF q, s
<1>4. call' \in [Conns -> {Free} \cup Requests] /\ call'[c] = q /\ \A d \in Conns \ {c} : call'[d] = call[d]
  BY <1>1, <1>3 DEF GateInv, GateTypes
<1>5. GateTypes' /\ Numbered' /\ BucketsPassed'
  BY <1>0, <1>4 DEF GateInv, GateTypes, Numbered, BucketsPassed, OfWindow
<1>6. ListsPassed' /\ CountsRecent' /\ InMemory'
  BY <1>0, <1>3, <1>4 DEF GateInv, ListsPassed, CountsRecent, InMemory
<1>7. LooksBack'
  <2>1. \A d \in Conns \ {c} : InLimiter(d)' => call'[d] = call[d] /\ InLimiter(d) /\ call[d].at \in Nat /\ call[d].since \in Int
    BY <1>4, RequestIs DEF InLimiter
  <2>2. \A d \in Conns : InLimiter(d)' => call'[d].at <= clock /\ call'[d].since <= call'[d].at
    BY <1>2, <1>3, <1>4, <2>1 DEF GateInv, LooksBack
  <2>3. ASSUME NEW d \in Conns, NEW f \in Conns, InLimiter(d)', InLimiter(f)' PROVE call'[d].since <= call'[f].at
    <3>1. CASE d # c /\ f # c
      BY <1>4, <2>1, <2>3, <3>1 DEF GateInv, LooksBack
    <3>2. CASE d = c /\ f # c
      BY <1>2, <1>3, <1>4, <2>1, <2>3, <3>2
    <3>3. CASE d # c /\ f = c
      <4>1. call[d].since <= call[d].at /\ call[d].at <= clock /\ call[d].at \in Nat /\ call[d].since \in Int
        BY <2>1, <2>3, <3>3 DEF GateInv, LooksBack
      <4>. QED  BY <1>2, <1>3, <1>4, <2>1, <2>3, <3>3, <4>1
    <3>4. CASE d = c /\ f = c
      BY <1>2, <1>3, <1>4, <3>4
    <3>. QED  BY <3>1, <3>2, <3>3, <3>4
  <2>. QED  BY <1>0, <2>2, <2>3 DEF LooksBack
<1>8. Refusals'
  BY <1>0, <1>3, <1>4 DEF GateInv, Refusals, PassedBefore, RefusedAfterLimit
<1>. QED  BY <1>5, <1>6, <1>7, <1>8 DEF GateInv

\* A thread goes on or leaves.
LEMMA StillLooksBack ==
    ASSUME GateInv, NEW c \in Conns, InLimiter(c), clock' = clock,
           call'[c].at = call[c].at, call'[c].since = call[c].since, \A d \in Conns \ {c} : call'[d] = call[d]
    PROVE  LooksBack'
<1>1. \A d \in Conns : InLimiter(d)' => InLimiter(d) /\ call'[d].at = call[d].at /\ call'[d].since = call[d].since
  BY DEF InLimiter
<1>. QED  BY <1>1 DEF GateInv, LooksBack

\* allow_request: the old stamps are left out,
LEMMA CleanOldStep ==
    ASSUME GateInv, NEW c \in Conns, CleanOld(c)
    PROVE  GateInv'
<1>0. requests' = requests /\ counts' = counts /\ passed' = passed /\ limiter' = limiter /\ refused' = refused /\ clock' = clock
      /\ limiter = "memory" /\ call[c].step = "clean" /\ InLimiter(c)
  BY DEF CleanOld, limits, GateRest, InLimiter
<1>. DEFINE own == Recent(requests[call[c].client], call[c].at)
            q == [call[c] EXCEPT !.list = own, !.step = "store"]
<1>1. call[c] \in Requests /\ call[c].client \in Clients /\ call[c].at \in Nat /\ call[c].since \in Int
  BY <1>0, RequestIs
<1>2. own \subseteq requests[call[c].client] /\ own \subseteq Stamps /\ \A r \in own : r[1] > call[c].at - Window
  BY <1>1 DEF Recent, GateInv, GateTypes
<1>3. call' = [call EXCEPT ![c] = q]
  BY DEF CleanOld
<1>. HIDE DEF own
<1>4. q \in Requests /\ q.step = "store" /\ q.client = call[c].client /\ q.at = call[c].at /\ q.since = call[c].since /\ q.list = own
  BY <1>1, <1>2 DEF Requests, Steps
<1>. HIDE DEF q
<1>5. call' \in [Conns -> {Free} \cup Requests] /\ call'[c] = q /\ \A d \in Conns \ {c} : call'[d] = call[d]
  BY <1>3, <1>4 DEF GateInv, GateTypes
<1>6. GateTypes' /\ Numbered' /\ BucketsPassed'
  BY <1>0, <1>5 DEF GateInv, GateTypes, Numbered, BucketsPassed, OfWindow
<1>7. ListsPassed'
  BY <1>0, <1>1, <1>2, <1>4, <1>5 DEF GateInv, ListsPassed
<1>8. CountsRecent'
  BY <1>0, <1>2, <1>4, <1>5 DEF GateInv, CountsRecent
<1>9. InMemory'
  BY <1>0, <1>5 DEF GateInv, InMemory
<1>10. LooksBack'
  BY <1>0, <1>4, <1>5, StillLooksBack
<1>11. Refusals'
  BY <1>0, <1>4, <1>5 DEF GateInv, Refusals, PassedBefore, RefusedAfterLimit
<1>. QED  BY <1>6, <1>7, <1>8, <1>9, <1>10, <1>11 DEF GateInv

\* what is left is stored over what the client has by now,
LEMMA StoreStep ==
    ASSUME GateInv, NEW c \in Conns, StoreCleaned(c)
    PROVE  GateInv'
<1>0. counts' = counts /\ passed' = passed /\ limiter' = limiter /\ refused' = refused /\ clock' = clock
      /\ call[c].step = "store" /\ InLimiter(c)
  BY DEF StoreCleaned, GateRest, InLimiter
<1>1. call[c] \in Requests /\ call[c].client \in Clients /\ call[c].at \in Nat /\ call[c].since \in Int /\ call[c].list \subseteq Stamps
  BY <1>0, RequestIs
<1>2. Went(c, "count")
  <2>1. "count" \in Steps \ {"free"} /\ call[c].step # "free"
    BY <1>0 DEF Steps
  <2>. QED  BY <2>1, GoesTo DEF StoreCleaned
<1>3. requests' \in [Clients -> SUBSET Stamps] /\ requests'[call[c].client] = call[c].list
      /\ \A cl \in Clients \ {call[c].client} : requests'[cl] = requests[cl]
  BY <1>1 DEF StoreCleaned, GateInv, GateTypes
<1>4. GateTypes' /\ Numbered' /\ BucketsPassed'
  BY <1>0, <1>2, <1>3 DEF GateInv, GateTypes, Numbered, BucketsPassed, OfWindow, Went
<1>5. ListsPassed'
  BY <1>0, <1>1, <1>2, <1>3 DEF GateInv, ListsPassed, Went
<1>6. CountsRecent'
  <2>1. \A d \in Conns : call'[d].step = "store" => d # c /\ call'[d] = call[d]
    BY <1>2 DEF Went
  <2>2. ASSUME NEW d \in Conns, call'[d].step = "count", NEW r \in requests'[call'[d].client]
        PROVE  r[1] > call'[d].since - Window
    <3>1. CASE call'[d].client # call[c].client
      <4>1. d # c /\ call'[d] = call[d] /\ call[d].client \in Clients
        BY <1>2, <2>2, <3>1, RequestIs DEF Went
      <4>. QED  BY <1>3, <2>2, <3>1, <4>1 DEF GateInv, CountsRecent
    <3>2. CASE call'[d].client = call[c].client
      <4>1. r \in call[c].list /\ r[1] > call[c].at - Window /\ r[1] \in Nat
        BY <1>0, <1>1, <1>3, <2>2, <3>2 DEF GateInv, CountsRecent, Stamps
      <4>2. call'[d].since <= call[c].at /\ call'[d].since \in Int
        <5>1. CASE d = c
          BY <1>0, <1>1, <1>2, <5>1 DEF GateInv, LooksBack, Went
        <5>2. CASE d # c
          <6>1. call'[d] = call[d] /\ InLimiter(d) /\ call[d].step # "free"
            BY <1>2, <2>2, <5>2 DEF Went, InLimiter
          <6>. QED  BY <1>0, <6>1, RequestIs DEF GateInv, LooksBack
        <5>. QED  BY <5>1, <5>2
      <4>. QED  BY <1>1, <4>1, <4>2, GatewayAssumption
    <3>. QED  BY <3>1, <3>2
  <2>. QED  BY <2>1, <2>2 DEF GateInv, CountsRecent
<1>7. InMemory'
  BY <1>0, <1>2 DEF GateInv, InMemory, Went
<1>8. LooksBack'
  BY <1>0, <1>2, StillLooksBack DEF Went
<1>9. Refusals'
  BY <1>0, <1>2 DEF GateInv, Refusals, PassedBefore, RefusedAfterLimit, Went
<1>. QED  BY <1>4, <1>5, <1>6, <1>7, <1>8, <1>9 DEF GateInv

\* and counted.
LEMMA CountStep ==
    ASSUME GateInv, NEW c \in Conns, CountRecent(c)
    PROVE  GateInv'
<1>0. requests' = requests /\ counts' = counts /\ passed' = passed /\ limiter' = limiter /\ refused' = refused /\ clock' = clock
      /\ call[c].step = "count" /\ InLimiter(c) /\ limiter = "memory"
  BY DEF CountRecent, limits, GateRest, InLimiter, GateInv, InMemory
<1>. DEFINE cl == call[c].client
            s == IF Cardinality(requests[cl]) < Limit THEN "append" ELSE "refuse"
<1>1. call[c] \in Requests /\ cl \in Clients /\ call[c].since \in Int
  BY <1>0, RequestIs
<1>2. Went(c, s)
  <2>1. s \in Steps \ {"free"} /\ call[c].step # "free" /\ Goto(c, s)
    BY <1>0 DEF Steps, CountRecent
  <2>. HIDE DEF s
  <2>. QED  BY <2>1, GoesTo
<1>3. s # "append" => Cardinality({r \in passed[cl] : r[1] > call[c].since - Window}) >= Limit
  <2>. DEFINE big == {r \in passed[cl] : r[1] > call[c].since - Window}
  <2>1. IsFiniteSet(passed[cl]) /\ requests[cl] \subseteq big
    BY <1>0, <1>1 DEF GateInv, Numbered, ListsPassed, CountsRecent
  <2>2. IsFiniteSet(big) /\ IsFiniteSet(requests[cl])
    BY <2>1, FS_Subset
  <2>. HIDE DEF big, cl
  <2>3. Cardinality(requests[cl]) <= Cardinality(big) /\ Cardinality(big) \in Nat /\ Cardinality(requests[cl]) \in Nat
    BY <2>1, <2>2, FS_Subset, FS_CardinalityType
  <2>. QED  BY <2>3, GatewayAssumption DEF big
<1>4. GateTypes' /\ Numbered' /\ BucketsPassed'
  BY <1>0, <1>2 DEF GateInv, GateTypes, Numbered, BucketsPassed, OfWindow, Went
<1>5. s \in {"append", "refuse"}
  OBVIOUS
<1>. HIDE DEF s
<1>6. ListsPassed' /\ CountsRecent' /\ InMemory'
  BY <1>0, <1>2, <1>5 DEF GateInv, ListsPassed, CountsRecent, InMemory, Went
<1>7. LooksBack'
  BY <1>0, <1>2, StillLooksBack DEF Went
<1>8. Refusals'
  <2>1. \A d \in Conns \ {c} : call'[d].step = "refuse" => PassedBefore(d)' >= Limit
    BY <1>0, <1>2 DEF GateInv, Refusals, PassedBefore, Went
  <2>2. call'[c].step = "refuse" => PassedBefore(c)' >= Limit
    BY <1>0, <1>2, <1>3 DEF PassedBefore, Went
  <2>. QED  BY <1>0, <2>1, <2>2 DEF GateInv, Refusals, RefusedAfterLimit
<1>. QED  BY <1>4, <1>6, <1>7, <1>8 DEF GateInv

\* A request passes: one more stamp, with a number of its own.
Passes(c) ==
    /\ passed' \in [Clients -> SUBSET Stamps]
    /\ passed'[call[c].client] = passed[call[c].client] \cup {Stamp(c)}
    /\ \A cl \in Clients \ {call[c].client} : passed'[cl] = passed[cl]
    /\ Stamp(c) \in Stamps /\ Stamp(c) \notin passed[call[c].client] /\ Stamp(c)[1] = call[c].at
    /\ Numbered'

LEMMA LetsThrough ==
    ASSUME GateInv, NEW c \in Conns, call[c].step # "free", LetThrough(c)
    PROVE  Passes(c)
<1>. DEFINE cl == call[c].client
            p == passed[cl]
            n == Cardinality(p)
<1>1. cl \in Clients /\ call[c].at \in Nat
  BY RequestIs
<1>2. IsFiniteSet(p) /\ n \in Nat /\ \A r \in p : r[2] < n
  <2>1. IsFiniteSet(p) /\ \A r \in p : r[2] < n
    BY <1>1 DEF GateInv, Numbered
  <2>. QED  BY <2>1, FS_CardinalityType
<1>3. Stamp(c) = <<call[c].at, n>> /\ Stamp(c) \in Stamps /\ Stamp(c)[1] = call[c].at /\ Stamp(c)[2] = n
  BY <1>1, <1>2 DEF Stamp, Stamps
<1>4. Stamp(c) \notin p
  BY <1>2, <1>3
<1>5. passed' \in [Clients -> SUBSET Stamps] /\ passed'[cl] = p \cup {Stamp(c)} /\ \A x \in Clients \ {cl} : passed'[x] = passed[x]
  BY <1>1, <1>3 DEF LetThrough, GateInv, GateTypes
<1>6. IsFiniteSet(p \cup {Stamp(c)}) /\ Cardinality(p \cup {Stamp(c)}) = n + 1
  BY <1>2, <1>4, FS_AddElement
<1>7. \A r \in p \cup {Stamp(c)} : r[2] < n + 1
  <2>1. p \subseteq Stamps
    BY <1>1 DEF GateInv, GateTypes
  <2>. HIDE DEF p, n
  <2>. QED  BY <1>2, <1>3, <2>1 DEF Stamps
<1>8. Numbered'
  <2>. SUFFICES ASSUME NEW x \in Clients PROVE IsFiniteSet(passed'[x]) /\ \A r \in passed'[x] : r[2] < Cardinality(passed'[x])
    BY DEF Numbered
  <2>1. CASE x = cl
    BY <1>5, <1>6, <1>7, <2>1
  <2>2. CASE x # cl
    BY <1>5, <2>2 DEF GateInv, Numbered
  <2>. QED  BY <2>1, <2>2
<1>. QED  BY <1>3, <1>4, <1>5, <1>8 DEF Passes

\* The counts of a larger set of stamps.
LEMMA MorePassed ==
    ASSUME NEW S, NEW T, IsFiniteSet(T), S \subseteq T
    PROVE  Cardinality(S) \in Nat /\ Cardinality(T) \in Nat /\ Cardinality(S) <= Cardinality(T)
BY FS_Subset, FS_CardinalityType

\* What passed counts for whoever is refused later.
LEMMA RefusedKept ==
    ASSUME GateInv, NEW c \in Conns, Passes(c), call[c].step # "free", limiter' = limiter, refused' = refused,
           NEW d \in Conns, call'[d] = call[d], call[d].step = "refuse"
    PROVE  PassedBefore(d)' >= Limit
<1>. DEFINE x == call[d].client
            S == {r \in passed[x] : IF limiter = "redis" THEN WindowId(r[1]) = WindowId(call[d].at) ELSE r[1] > call[d].since - Window}
            T == {r \in passed'[x] : IF limiter = "redis" THEN WindowId(r[1]) = WindowId(call[d].at) ELSE r[1] > call[d].since - Window}
<1>1. x \in Clients
  BY RequestIs
<1>2. IsFiniteSet(passed'[x]) /\ passed[x] \subseteq passed'[x]
  BY <1>1 DEF Passes, Numbered
<1>3. S \subseteq T /\ IsFiniteSet(T)
  BY <1>2, FS_Subset
<1>4. Cardinality(S) = PassedBefore(d) /\ Cardinality(T) = PassedBefore(d)'
  BY DEF PassedBefore
<1>. HIDE DEF S, T
<1>5. Cardinality(S) >= Limit
  BY <1>4 DEF GateInv, Refusals
<1>. QED  BY <1>3, <1>4, <1>5, MorePassed, GatewayAssumption

\* The windows of Redis.
LEMMA WindowsKept ==
    ASSUME GateInv, NEW c \in Conns, Passes(c), call[c].step # "free", NEW k \in Keys
    PROVE  LET n == Cardinality(OfWindow(k[1], k[2]))
               m == Cardinality(OfWindow(k[1], k[2]))'
           IN n \in Nat /\ m \in Nat /\ n <= m /\ (k = <<call[c].client, WindowId(call[c].at)>> => m = n + 1)
<1>. DEFINE S == OfWindow(k[1], k[2])
            T == {r \in passed'[k[1]] : WindowId(r[1]) = k[2]}
<1>1. k[1] \in Clients
  BY DEF Keys
<1>2. IsFiniteSet(passed[k[1]]) /\ IsFiniteSet(passed'[k[1]]) /\ passed[k[1]] \subseteq passed'[k[1]]
  BY <1>1 DEF Passes, Numbered, GateInv
<1>3. S \subseteq T /\ IsFiniteSet(T) /\ IsFiniteSet(S)
  BY <1>2, FS_Subset DEF OfWindow
<1>4. T = S'
  BY DEF OfWindow
<1>5. k = <<call[c].client, WindowId(call[c].at)>> => T = S \cup {Stamp(c)} /\ Stamp(c) \notin S
  BY DEF Passes, OfWindow
<1>. HIDE DEF T
<1>6. k = <<call[c].client, WindowId(call[c].at)>> => Cardinality(T) = Cardinality(S) + 1
  BY <1>3, <1>5, FS_AddElement
<1>7. Cardinality(S) \in Nat /\ Cardinality(T) \in Nat /\ Cardinality(S) <= Cardinality(T)
  BY <1>3, MorePassed
<1>. QED  BY <1>4, <1>6, <1>7

LEMMA AppendStep ==
    ASSUME GateInv, NEW c \in Conns, AppendStamp(c)
    PROVE  GateInv'
<1>0. counts' = counts /\ limiter' = limiter /\ refused' = refused /\ clock' = clock
      /\ call[c].step = "append" /\ InLimiter(c)
  BY DEF AppendStamp, GateRest, InLimiter
<1>1. call[c] \in Requests /\ call[c].client \in Clients /\ call[c].at \in Nat
  BY <1>0, RequestIs
<1>2. Went(c, "checks")
  <2>1. "checks" \in Steps \ {"free"} /\ call[c].step # "free"
    BY <1>0 DEF Steps
  <2>. QED  BY <2>1, GoesTo DEF AppendStamp
<1>3. Passes(c)
  BY <1>0, LetsThrough DEF AppendStamp
<1>4. requests' \in [Clients -> SUBSET Stamps] /\ requests'[call[c].client] = requests[call[c].client] \cup {Stamp(c)}
      /\ \A cl \in Clients \ {call[c].client} : requests'[cl] = requests[cl]
  BY <1>1, <1>3 DEF AppendStamp, GateInv, GateTypes, Passes
<1>5. GateTypes' /\ Numbered'
  BY <1>0, <1>2, <1>3, <1>4 DEF GateInv, GateTypes, Passes, Went
<1>6. BucketsPassed'
  <2>. SUFFICES ASSUME NEW k \in Keys
                PROVE  Cardinality(OfWindow(k[1], k[2]))' >= Limit \/ Cardinality(OfWindow(k[1], k[2]))' >= counts'[k]
    BY DEF BucketsPassed
  <2>. DEFINE n == Cardinality(OfWindow(k[1], k[2]))
              m == Cardinality(OfWindow(k[1], k[2]))'
  <2>1. n \in Nat /\ m \in Nat /\ n <= m
    BY <1>0, <1>3, WindowsKept
  <2>2. (n >= Limit \/ n >= counts[k]) /\ counts[k] \in Nat
    BY DEF GateInv, BucketsPassed, GateTypes
  <2>. HIDE DEF n
  <2>. QED  BY <1>0, <2>1, <2>2, GatewayAssumption
<1>7. ListsPassed'
  <2>1. \A cl \in Clients : requests'[cl] \subseteq passed'[cl]
    BY <1>3, <1>4 DEF GateInv, ListsPassed, Passes
  <2>2. ASSUME NEW d \in Conns, call'[d].step = "store" PROVE call'[d].list \subseteq passed'[call'[d].client]
    <3>1. d # c /\ call'[d] = call[d] /\ call[d].client \in Clients
      BY <1>2, <2>2, RequestIs DEF Went
    <3>. QED  BY <1>3, <2>2, <3>1 DEF GateInv, ListsPassed, Passes
  <2>. QED  BY <2>1, <2>2 DEF ListsPassed
<1>8. CountsRecent'
  <2>1. \A d \in Conns : call'[d].step = "store" => d # c /\ call'[d] = call[d]
    BY <1>2 DEF Went
  <2>2. ASSUME NEW d \in Conns, call'[d].step = "count", NEW r \in requests'[call'[d].client]
        PROVE  r[1] > call'[d].since - Window
    <3>1. d # c /\ call'[d] = call[d] /\ InLimiter(d) /\ call[d].client \in Clients /\ call[d].since \in Int
      BY <1>2, <2>2, RequestIs DEF Went, InLimiter
    <3>2. CASE r \in requests[call[d].client]
      BY <2>2, <3>1, <3>2 DEF GateInv, CountsRecent
    <3>3. CASE r = Stamp(c)
      <4>1. r[1] = call[c].at /\ call[d].since <= call[c].at
        BY <1>0, <1>3, <3>1, <3>3 DEF GateInv, LooksBack, Passes
      <4>. QED  BY <1>1, <3>1, <4>1, GatewayAssumption
    <3>. QED  BY <1>4, <2>2, <3>1, <3>2, <3>3
  <2>. QED  BY <2>1, <2>2 DEF GateInv, CountsRecent
<1>9. InMemory'
  BY <1>0, <1>2 DEF GateInv, InMemory, Went
<1>10. LooksBack'
  BY <1>0, <1>2, StillLooksBack DEF Went
<1>11. Refusals'
  <2>1. ASSUME NEW d \in Conns, call'[d].step = "refuse" PROVE PassedBefore(d)' >= Limit
    <3>1. d # c /\ call'[d] = call[d] /\ call[d].step = "refuse"
      BY <1>2, <2>1 DEF Went
    <3>. QED  BY <1>0, <1>3, <3>1, RefusedKept
  <2>. QED  BY <1>0, <2>1 DEF GateInv, Refusals, RefusedAfterLimit
<1>. QED  BY <1>5, <1>6, <1>7, <1>8, <1>9, <1>10, <1>11 DEF GateInv

\* A request that Redis lets through, or that passes because Redis does not answer.
LEMMA RedisPasses ==
    ASSUME GateInv, NEW c \in Conns, call[c].step = "clean", limiter = "redis", LetThrough(c), Goto(c, "checks"),
           limiter' = limiter, refused' = refused, clock' = clock, requests' = requests, counts' \in [Keys -> Nat],
           \A k \in Keys : counts'[k] = counts[k] \/ (k = <<call[c].client, WindowId(call[c].at)>> /\ counts'[k] = counts[k] + 1)
    PROVE  GateInv'
<1>0. InLimiter(c) /\ call[c].step # "free"
  BY DEF InLimiter
<1>1. call[c] \in Requests /\ call[c].client \in Clients /\ call[c].at \in Nat
  BY <1>0, RequestIs
<1>2. Went(c, "checks")
  <2>1. "checks" \in Steps \ {"free"}
    BY DEF Steps
  <2>. QED  BY <1>0, <2>1, GoesTo
<1>3. Passes(c)
  BY <1>0, LetsThrough
<1>4. GateTypes' /\ Numbered'
  BY <1>2, <1>3 DEF GateInv, GateTypes, Passes, Went
<1>5. BucketsPassed'
  <2>. SUFFICES ASSUME NEW k \in Keys
                PROVE  Cardinality(OfWindow(k[1], k[2]))' >= Limit \/ Cardinality(OfWindow(k[1], k[2]))' >= counts'[k]
    BY DEF BucketsPassed
  <2>. DEFINE n == Cardinality(OfWindow(k[1], k[2]))
              m == Cardinality(OfWindow(k[1], k[2]))'
  <2>1. n \in Nat /\ m \in Nat /\ n <= m /\ (k = <<call[c].client, WindowId(call[c].at)>> => m = n + 1)
    BY <1>0, <1>3, WindowsKept
  <2>2. (n >= Limit \/ n >= counts[k]) /\ counts[k] \in Nat
    BY DEF GateInv, BucketsPassed, GateTypes
  <2>3. counts'[k] = counts[k] \/ (counts'[k] = counts[k] + 1 /\ m = n + 1)
    BY <2>1
  <2>. HIDE DEF n
  <2>. QED  BY <2>1, <2>2, <2>3, GatewayAssumption
<1>6. \A d \in Conns : call'[d].step # "checks" => d # c /\ call'[d] = call[d]
  BY <1>2 DEF Went
<1>7. ListsPassed'
  <2>1. \A cl \in Clients : requests'[cl] \subseteq passed'[cl]
    BY <1>3 DEF GateInv, ListsPassed, Passes
  <2>2. ASSUME NEW d \in Conns, call'[d].step = "store" PROVE call'[d].list \subseteq passed'[call'[d].client]
    <3>1. call'[d] = call[d] /\ call[d].client \in Clients
      BY <1>6, <2>2, RequestIs
    <3>. QED  BY <1>3, <2>2, <3>1 DEF GateInv, ListsPassed, Passes
  <2>. QED  BY <2>1, <2>2 DEF ListsPassed
<1>8. CountsRecent' /\ InMemory'
  BY <1>6 DEF GateInv, CountsRecent, InMemory
<1>9. LooksBack'
  BY <1>0, <1>2, StillLooksBack DEF Went
<1>10. Refusals'
  <2>1. ASSUME NEW d \in Conns, call'[d].step = "refuse" PROVE PassedBefore(d)' >= Limit
    BY <1>0, <1>3, <1>6, <2>1, RefusedKept
  <2>. QED  BY <2>1 DEF GateInv, Refusals, RefusedAfterLimit
<1>. QED  BY <1>4, <1>5, <1>7, <1>8, <1>9, <1>10 DEF GateInv

LEMMA IncrStep ==
    ASSUME GateInv, NEW c \in Conns, IncrBucket(c)
    PROVE  GateInv'
<1>. DEFINE key == <<call[c].client, WindowId(call[c].at)>>
<1>0. requests' = requests /\ limiter' = limiter /\ refused' = refused /\ clock' = clock
      /\ call[c].step = "clean" /\ limiter = "redis" /\ InLimiter(c) /\ call[c].step # "free"
  BY DEF IncrBucket, GateRest, InLimiter
<1>1. call[c] \in Requests /\ call[c].client \in Clients /\ call[c].at \in 0..MaxClock
  BY <1>0, RequestIs, GatewayAssumption DEF GateInv, GateTypes, LooksBack
<1>2. key \in Keys
  BY <1>1 DEF Keys
<1>3. counts' = [counts EXCEPT ![key] = @ + 1]
  BY DEF IncrBucket
<1>. HIDE DEF key
<1>4. counts' \in [Keys -> Nat] /\ counts'[key] = counts[key] + 1 /\ counts[key] \in Nat /\ \A k \in Keys \ {key} : counts'[k] = counts[k]
  BY <1>2, <1>3 DEF GateInv, GateTypes
<1>5. CASE counts[key] + 1 <= Limit
  <2>1. LetThrough(c) /\ Goto(c, "checks")
    BY <1>5 DEF IncrBucket, key
  <2>. QED  BY <1>0, <1>4, <2>1, RedisPasses DEF key
<1>6. CASE ~(counts[key] + 1 <= Limit)
  <2>1. passed' = passed /\ Went(c, "refuse")
    <3>1. Goto(c, "refuse") /\ passed' = passed /\ "refuse" \in Steps \ {"free"}
      BY <1>6 DEF IncrBucket, key, Steps
    <3>. QED  BY <1>0, <3>1, GoesTo
  <2>2. Cardinality(OfWindow(key[1], key[2])) >= Limit
    <3>. DEFINE n == Cardinality(OfWindow(key[1], key[2]))
    <3>1. n \in Nat
      <4>1. key[1] \in Clients
        BY <1>2 DEF Keys
      <4>2. IsFiniteSet(OfWindow(key[1], key[2]))
        BY <4>1, FS_Subset DEF GateInv, Numbered, OfWindow
      <4>. QED  BY <4>2, FS_CardinalityType
    <3>2. n >= Limit \/ n >= counts[key]
      BY <1>2 DEF GateInv, BucketsPassed
    <3>. HIDE DEF n
    <3>3. n >= Limit
      BY <1>4, <1>6, <3>1, <3>2, GatewayAssumption
    <3>. QED  BY <3>3 DEF n
  <2>3. GateTypes' /\ Numbered'
    BY <1>0, <1>4, <2>1 DEF GateInv, GateTypes, Numbered, Went
  <2>4. BucketsPassed'
    <3>1. ASSUME NEW k \in Keys
          PROVE  Cardinality(OfWindow(k[1], k[2])) >= Limit \/ Cardinality(OfWindow(k[1], k[2])) >= counts'[k]
      <4>1. CASE k = key
        BY <2>2, <4>1
      <4>2. CASE k # key
        BY <1>4, <4>2 DEF GateInv, BucketsPassed
      <4>. QED  BY <4>1, <4>2
    <3>. QED  BY <2>1, <3>1 DEF BucketsPassed, OfWindow
  <2>5. ListsPassed' /\ CountsRecent' /\ InMemory'
    BY <1>0, <2>1 DEF GateInv, ListsPassed, CountsRecent, InMemory, Went
  <2>6. LooksBack'
    BY <1>0, <2>1, StillLooksBack DEF Went
  <2>7. Refusals'
    <3>1. \A d \in Conns \ {c} : call'[d].step = "refuse" => PassedBefore(d)' >= Limit
      BY <1>0, <2>1 DEF GateInv, Refusals, PassedBefore, Went
    <3>2. PassedBefore(c)' >= Limit
      BY <1>0, <2>1, <2>2 DEF PassedBefore, Went, OfWindow, key
    <3>. QED  BY <1>0, <3>1, <3>2 DEF GateInv, Refusals, RefusedAfterLimit
  <2>. QED  BY <2>3, <2>4, <2>5, <2>6, <2>7 DEF GateInv
<1>. QED  BY <1>5, <1>6

LEMMA FailsStep ==
    ASSUME GateInv, NEW c \in Conns, RedisFails(c)
    PROVE  GateInv'
<1>1. counts' = counts /\ counts \in [Keys -> Nat]
  BY DEF RedisFails, GateInv, GateTypes
<1>. QED  BY <1>1, RedisPasses DEF RedisFails, GateRest

LEMMA TooManyStep ==
    ASSUME GateInv, NEW c \in Conns, TooMany(c)
    PROVE  GateInv'
<1>1. call' \in [Conns -> {Free} \cup Requests] /\ call'[c].step = "free" /\ \A d \in Conns \ {c} : call'[d] = call[d]
  BY Freed DEF TooMany
<1>2. RefusedAfterLimit'
  BY DEF TooMany, GateInv, Refusals, RefusedAfterLimit
<1>. QED  BY <1>1, <1>2, LimiterKept DEF TooMany, GateRest, GateInv, GateTypes

LEMMA GateRestartStep ==
    ASSUME GateInv, GateRestart
    PROVE  GateInv'
<1>1. \A c \in Conns : call'[c].step = "free"
  BY DEF GateRestart, Free
<1>2. call' \in [Conns -> {Free} \cup Requests] /\ requests' \in [Clients -> SUBSET Stamps] /\ \A cl \in Clients : requests'[cl] = {}
  BY DEF GateRestart
<1>3. counts' = counts /\ passed' = passed /\ refused' = refused /\ clock' = clock
  BY DEF GateRestart
<1>4. GateTypes' /\ Numbered' /\ BucketsPassed'
  BY <1>2, <1>3 DEF GateInv, GateTypes, Numbered, BucketsPassed, OfWindow
<1>. QED  BY <1>1, <1>2, <1>3, <1>4
          DEF GateInv, ListsPassed, LooksBack, CountsRecent, InMemory, Refusals, InLimiter, RefusedAfterLimit

LEMMA GateStep == GateInv /\ [GateNext]_gateVars => GateInv'
<1>. SUFFICES ASSUME GateInv, [GateNext]_gateVars PROVE GateInv'
  OBVIOUS
<1>0. clock \in 0..MaxClock /\ clock \in Int /\ MaxClock \in Nat /\ call \in [Conns -> {Free} \cup Requests] /\ RefusedAfterLimit
  BY GatewayAssumption DEF GateInv, GateTypes, Refusals
<1>1. ASSUME NEW c \in Conns, NEW cl \in Clients, NEW x \in BOOLEAN, Post(c, cl, x) PROVE GateInv'
  BY <1>1, PostStep
<1>2. ASSUME NEW c \in Conns, CleanOld(c) \/ StoreCleaned(c) \/ CountRecent(c) \/ AppendStamp(c) \/ IncrBucket(c) \/ RedisFails(c) \/ TooMany(c)
      PROVE  GateInv'
  BY <1>2, CleanOldStep, StoreStep, CountStep, AppendStep, IncrStep, FailsStep, TooManyStep
<1>3. ASSUME NEW c \in Conns, call' = [call EXCEPT ![c] = Free], UNCHANGED GateRest, UNCHANGED limits PROVE GateInv'
  <2>1. call' \in [Conns -> {Free} \cup Requests] /\ call'[c].step = "free" /\ \A d \in Conns \ {c} : call'[d] = call[d]
    BY <1>3, Freed
  <2>. QED  BY <1>0, <1>3, <2>1, LimiterKept DEF GateRest, limits, RefusedAfterLimit
<1>4. ASSUME NEW c \in Conns, NEW p \in Paths, NEW cred \in Credentials, Dispatch(c, p, cred) PROVE GateInv'
  <2>1. UNCHANGED GateRest /\ UNCHANGED limits /\ call[c].step # "free"
    BY <1>4 DEF Dispatch
  <2>2. CASE Goto(c, "handler")
    <3>1. "handler" \in Steps \ {"free"}
      BY DEF Steps
    <3>2. Went(c, "handler")
      BY <2>1, <2>2, <3>1, GoesTo
    <3>. QED  BY <1>0, <2>1, <3>2, LimiterKept DEF GateRest, limits, RefusedAfterLimit, Went
  <2>3. CASE call' = [call EXCEPT ![c] = Free]
    BY <1>3, <2>1, <2>3
  <2>. QED  BY <1>4, <2>2, <2>3 DEF Dispatch
<1>5. ASSUME NEW c \in Conns, BadJson(c) \/ Handled(c) PROVE GateInv'
  BY <1>3, <1>5 DEF BadJson, Handled
<1>6. CASE AuthToken \/ RedisChanges
  BY <1>0, <1>6, LimiterKept DEF AuthToken, RedisChanges, limits, RefusedAfterLimit
<1>7. CASE SecondPasses
  <2>1. clock' = clock + 1 /\ clock' \in 0..MaxClock
    BY <1>0, <1>7 DEF SecondPasses
  <2>. QED  BY <1>0, <1>7, <2>1, LimiterKept DEF SecondPasses, limits, RefusedAfterLimit
<1>8. CASE GateRestart
  BY <1>8, GateRestartStep
<1>9. CASE UNCHANGED gateVars
  BY <1>0, <1>9, LimiterKept DEF gateVars, RefusedAfterLimit
<1>. QED  BY <1>1, <1>2, <1>4, <1>5, <1>6, <1>7, <1>8, <1>9 DEF GateNext

LEMMA GateNodeStep ==
    ASSUME GateInv, [NodeNext]_nodeVars
    PROVE  GateInv'
<1>1. CASE GateNext
  BY <1>1, GateStep
<1>2. CASE UNCHANGED gateVars
  BY <1>2, GateStep
<1>. QED  BY <1>1, <1>2 DEF NodeNext, nodeVars

\* RefusedAfterLimit for every limit, window and number of threads (rate_limit.py,
\* redis_rate_limit.py): though the list in memory has no lock and Redis comes and goes,
\* nobody is refused who has not used the limit up.
THEOREM RefusedRightly == NodeSpec => []RefusedAfterLimit
<1>1. NodeInit => GateInv
  BY GateStart DEF NodeInit
<1>2. GateInv /\ [NodeNext]_nodeVars => GateInv'
  BY GateNodeStep
<1>3. GateInv => RefusedAfterLimit
  BY DEF GateInv, Refusals
<1>. QED  BY <1>1, <1>2, <1>3, PTL DEF NodeSpec

-----------------------------------------------------------------------------
(* The database file *)

FieldNames == {"tables", "cols", "blocks", "hashed", "full", "txs", "receipts", "audit", "mismatches"}
IsRows(d) == DOMAIN d = FieldNames /\ d = [k \in FieldNames |-> d[k]]

\* What holds of every content of the file, migrated or not: the blocks are without a
\* gap, a receipt goes with its transaction, an audit row with its block; j tells that
\* a chain with another genesis was taken over, which leaves rows of the old one.
Sound(d, j) ==
    /\ IsRows(d) /\ d.hashed = TRUE
    /\ \E n \in Nat : DOMAIN d.blocks = 0..(n - 1)
    /\ \A t \in DOMAIN d.txs : d.txs[t] \in Nat
    /\ \A t \in DOMAIN d.receipts : t \in DOMAIN d.txs /\ d.receipts[t].height = d.txs[t]
    /\ \A h \in DOMAIN d.audit : h \in DOMAIN d.blocks => d.audit[h] = d.blocks[h]
    /\ ~j => /\ DOMAIN d.audit \subseteq DOMAIN d.blocks
             /\ \A t \in DOMAIN d.txs : d.txs[t] \in DOMAIN d.blocks
             /\ \A t \in DOMAIN d.receipts : d.receipts[t].hash = d.blocks[d.txs[t]]

\* The parts a migration goes through.
AllFull(d) == DOMAIN d.blocks \subseteq d.full
AllReceipts(d) == DOMAIN d.txs \subseteq DOMAIN d.receipts
AllAudit(d) == DOMAIN d.blocks \subseteq DOMAIN d.audit
BlockReceipts(d) == DOMAIN d.txs \cap TxIds \subseteq DOMAIN d.receipts

StorageInv ==
    renames =>
        /\ Sound(file, joined) /\ Sound(conn, joined) /\ joined \in BOOLEAN
        /\ opening \in {"receipts", "audit", "commit", "up"} => AllFull(conn)
        /\ opening \in {"audit", "commit"} => AllReceipts(conn)
        /\ opening = "commit" => AllAudit(conn)
        /\ opening = "up" => AllAudit(conn) /\ BlockReceipts(conn)

LEMMA SoundIsEnough == StorageInv => TablesAgree
BY DEF StorageInv, TablesAgree, Sound, AllFull, AllReceipts, AllAudit, BlockReceipts

LEMMA StorageStart == StorageInit => StorageInv
<1>. SUFFICES ASSUME StorageInit PROVE StorageInv
  OBVIOUS
<1>1. ASSUME NEW t0, NEW a, NEW b PROVE Sound(Rows(a, b, Empty, Empty), FALSE)
  <2>. DEFINE d == Rows(a, b, Empty, Empty)
  <2>1. IsRows(d) /\ d.hashed = TRUE /\ d.blocks = Empty /\ d.txs = Empty /\ d.receipts = Empty /\ d.audit = Empty
    BY DEF Rows, IsRows, FieldNames
  <2>2. DOMAIN Empty = {} /\ 0 \in Nat /\ 0..(0 - 1) = {}
    BY DEF Empty
  <2>. HIDE DEF d
  <2>3. Sound(d, FALSE)
    BY <2>1, <2>2 DEF Sound
  <2>. QED  BY <2>3 DEF d
<1>2. ASSUME NEW t0, NEW a, NEW b PROVE Sound(Rows(a, b, [h \in 0..1 |-> h + 1], [t \in {t0} |-> 1]), FALSE)
  <2>. DEFINE d == Rows(a, b, [h \in 0..1 |-> h + 1], [t \in {t0} |-> 1])
  <2>1. IsRows(d) /\ d.hashed = TRUE /\ d.blocks = [h \in 0..1 |-> h + 1] /\ d.txs = [t \in {t0} |-> 1] /\ d.receipts = Empty /\ d.audit = Empty
    BY DEF Rows, IsRows, FieldNames
  <2>2. DOMAIN Empty = {} /\ 2 \in Nat /\ 0..(2 - 1) = 0..1
    BY DEF Empty
  <2>. HIDE DEF d
  <2>3. Sound(d, FALSE)
    BY <2>1, <2>2 DEF Sound
  <2>. QED  BY <2>3 DEF d
<1>3. Sound(file, FALSE)
  BY <1>1, <1>2 DEF StorageInit, DatabaseFiles
<1>. QED  BY <1>3 DEF StorageInit, StorageInv

\* A change of the tables, columns, whole rows or notes only.
LEMMA SoundKept ==
    ASSUME NEW d, NEW e, NEW j, Sound(d, j), IsRows(e), e.hashed = TRUE,
           e.blocks = d.blocks, e.txs = d.txs, e.receipts = d.receipts, e.audit = d.audit
    PROVE  Sound(e, j)
BY DEF Sound

LEMMA OpeningStep ==
    ASSUME StorageInv, renames, renames' = renames,
           CreateTables \/ RenameColumn \/ CopyHashes \/ AddColumns
    PROVE  StorageInv'
<1>0. opening \in {"create", "rename", "copy", "columns"} /\ opening' \in {"create", "rename", "copy", "columns", "data"} /\ joined' = joined
  BY DEF CreateTables, RenameColumn, CopyHashes, AddColumns, Then
<1>1. ASSUME NEW e, IsRows(e), e.hashed = TRUE, e.blocks = conn.blocks, e.txs = conn.txs, e.receipts = conn.receipts, e.audit = conn.audit,
             Commits(e) \/ Writes(e)
      PROVE  StorageInv'
  <2>1. Sound(e, joined)
    BY <1>1, SoundKept DEF StorageInv
  <2>. QED  BY <1>0, <1>1, <2>1 DEF StorageInv, Commits, Writes
<1>2. IsRows(conn) /\ conn.hashed = TRUE
  BY DEF StorageInv, Sound
<1>3. CASE UNCHANGED <<file, conn>>
  BY <1>0, <1>3 DEF StorageInv
<1>4. CASE CreateTables /\ conn' # conn
  <2>1. PICK x, y : Commits([conn EXCEPT !.tables = x, !.cols = y])
    BY <1>4 DEF CreateTables
  <2>. DEFINE e == [conn EXCEPT !.tables = x, !.cols = y]
  <2>2. IsRows(e) /\ e.hashed = TRUE /\ e.blocks = conn.blocks /\ e.txs = conn.txs /\ e.receipts = conn.receipts /\ e.audit = conn.audit
    BY <1>2 DEF IsRows, FieldNames
  <2>. HIDE DEF e
  <2>. QED  BY <1>1, <2>1, <2>2 DEF e
<1>5. CASE RenameColumn /\ conn' # conn
  <2>1. PICK y : Defines([conn EXCEPT !.cols = y])
    BY <1>5 DEF RenameColumn
  <2>. DEFINE e == [conn EXCEPT !.cols = y]
  <2>2. IsRows(e) /\ e.hashed = TRUE /\ e.blocks = conn.blocks /\ e.txs = conn.txs /\ e.receipts = conn.receipts /\ e.audit = conn.audit
    BY <1>2 DEF IsRows, FieldNames
  <2>. HIDE DEF e
  <2>. QED  BY <1>1, <2>1, <2>2 DEF e, Defines
<1>6. CASE CopyHashes
  <2>. DEFINE e == [conn EXCEPT !.hashed = TRUE]
  <2>2. IsRows(e) /\ e.hashed = TRUE /\ e.blocks = conn.blocks /\ e.txs = conn.txs /\ e.receipts = conn.receipts /\ e.audit = conn.audit
    BY <1>2 DEF IsRows, FieldNames
  <2>3. Writes(e)
    BY <1>6 DEF CopyHashes
  <2>. HIDE DEF e
  <2>. QED  BY <1>1, <2>2, <2>3
<1>7. CASE AddColumns /\ conn' # conn
  <2>1. PICK y : Defines([conn EXCEPT !.cols = y])
    BY <1>7 DEF AddColumns
  <2>. DEFINE e == [conn EXCEPT !.cols = y]
  <2>2. IsRows(e) /\ e.hashed = TRUE /\ e.blocks = conn.blocks /\ e.txs = conn.txs /\ e.receipts = conn.receipts /\ e.audit = conn.audit
    BY <1>2 DEF IsRows, FieldNames
  <2>. HIDE DEF e
  <2>. QED  BY <1>1, <2>1, <2>2 DEF e, Defines
<1>8. conn' = conn => UNCHANGED <<file, conn>> \/ CopyHashes \/ (\E e : e = conn /\ (Commits(e) \/ Writes(e)))
  BY DEF CreateTables, RenameColumn, CopyHashes, AddColumns, Defines, Commits, Writes
<1>9. CASE conn' = conn /\ (Commits(conn) \/ Writes(conn))
  BY <1>0, <1>9 DEF StorageInv, Commits, Writes
<1>. QED  BY <1>3, <1>4, <1>5, <1>6, <1>7, <1>8, <1>9

LEMMA DataStep ==
    ASSUME StorageInv, renames, BackfillData
    PROVE  StorageInv'
<1>. DEFINE e == [conn EXCEPT !.full = DOMAIN conn.blocks]
<1>1. IsRows(conn) /\ conn.hashed = TRUE /\ Sound(conn, joined)
  BY DEF StorageInv, Sound
<1>2. IsRows(e) /\ e.hashed = TRUE /\ e.blocks = conn.blocks /\ e.txs = conn.txs /\ e.receipts = conn.receipts /\ e.audit = conn.audit
      /\ e.full = DOMAIN conn.blocks
  BY <1>1 DEF IsRows, FieldNames
<1>3. conn' = e /\ file' = file /\ opening' = "receipts" /\ joined' = joined /\ renames' = renames
  BY DEF BackfillData, Writes, Then
<1>. HIDE DEF e
<1>4. Sound(e, joined) /\ AllFull(e)
  BY <1>1, <1>2, SoundKept DEF AllFull
<1>. QED  BY <1>3, <1>4 DEF StorageInv

LEMMA ReceiptsStep ==
    ASSUME StorageInv, renames, BackfillReceipts
    PROVE  StorageInv'
<1>. DEFINE rs == [t \in DOMAIN conn.txs \cup DOMAIN conn.receipts |->
                      IF t \in DOMAIN conn.receipts THEN conn.receipts[t] ELSE Receipt(conn, conn.txs[t])]
            e == [conn EXCEPT !.receipts = rs]
<1>1. IsRows(conn) /\ conn.hashed = TRUE /\ Sound(conn, joined)
  BY DEF StorageInv, Sound
<1>2. conn' = e /\ file' = file /\ opening' = "audit" /\ opening = "receipts" /\ joined' = joined /\ renames' = renames
  BY DEF BackfillReceipts, BackfilledReceipts, Writes, Then
<1>3. DOMAIN rs = DOMAIN conn.txs
  BY <1>1 DEF Sound
<1>4. \A t \in DOMAIN rs : rs[t].height = conn.txs[t]
  BY <1>1, <1>3 DEF Sound, Receipt
<1>5. ~joined => \A t \in DOMAIN rs : rs[t].hash = conn.blocks[conn.txs[t]]
  BY <1>1, <1>3 DEF Sound, Receipt, HashAt
<1>. HIDE DEF rs
<1>6. IsRows(e) /\ e.hashed = TRUE /\ e.blocks = conn.blocks /\ e.txs = conn.txs /\ e.receipts = rs /\ e.audit = conn.audit /\ e.full = conn.full
  BY <1>1 DEF IsRows, FieldNames
<1>. HIDE DEF e
<1>7. Sound(e, joined) /\ AllReceipts(e) /\ AllFull(e)
  BY <1>1, <1>2, <1>3, <1>4, <1>5, <1>6 DEF Sound, AllReceipts, AllFull, StorageInv
<1>. QED  BY <1>2, <1>7 DEF StorageInv

LEMMA AuditStep ==
    ASSUME StorageInv, renames, BackfillAudit
    PROVE  StorageInv'
<1>. DEFINE au == [h \in DOMAIN conn.blocks \cup DOMAIN conn.audit |-> IF h \in DOMAIN conn.audit THEN conn.audit[h] ELSE HashAt(conn, h)]
            e == [conn EXCEPT !.audit = au]
<1>1. IsRows(conn) /\ conn.hashed = TRUE /\ Sound(conn, joined)
  BY DEF StorageInv, Sound
<1>2. conn' = e /\ file' = file /\ opening' = "commit" /\ opening = "audit" /\ joined' = joined /\ renames' = renames
  BY DEF BackfillAudit, Writes, Then
<1>3. DOMAIN au = DOMAIN conn.blocks \cup DOMAIN conn.audit /\ \A h \in DOMAIN conn.blocks : au[h] = conn.blocks[h]
  BY <1>1 DEF Sound, HashAt
<1>. HIDE DEF au
<1>4. IsRows(e) /\ e.hashed = TRUE /\ e.blocks = conn.blocks /\ e.txs = conn.txs /\ e.receipts = conn.receipts /\ e.audit = au /\ e.full = conn.full
  BY <1>1 DEF IsRows, FieldNames
<1>. HIDE DEF e
<1>5. Sound(e, joined) /\ AllReceipts(e) /\ AllFull(e) /\ AllAudit(e)
  BY <1>1, <1>2, <1>3, <1>4 DEF Sound, AllReceipts, AllFull, AllAudit, StorageInv
<1>. QED  BY <1>2, <1>5 DEF StorageInv

\* What follows is at an open file.
Whole(d) == AllFull(d) /\ AllAudit(d) /\ BlockReceipts(d)

LEMMA CommitsWhole ==
    ASSUME StorageInv, renames, renames' = renames, opening = "up", opening' = "up", NEW e, Commits(e), Sound(e, joined'), Whole(e),
           joined' \in BOOLEAN
    PROVE  StorageInv'
BY DEF StorageInv, Commits, Whole

\* The tip is the height of the last block.
LEMMA TipIs ==
    ASSUME NEW d, NEW j, Sound(d, j)
    PROVE  Tip(d) \in Int /\ Tip(d) >= -1 /\ DOMAIN d.blocks = 0..Tip(d)
<1>1. PICK n \in Nat : DOMAIN d.blocks = 0..(n - 1)
  BY DEF Sound
<1>2. IsFiniteSet(0..(n - 1)) /\ Cardinality(0..(n - 1)) = n
  BY FS_Interval
<1>. QED  BY <1>1, <1>2 DEF Tip

LEMMA PersistStep ==
    ASSUME StorageInv, renames, NEW ts \in SUBSET TxIds, PersistBlock(ts)
    PROVE  StorageInv'
<1>. DEFINE h == Tip(conn) + 1
            e == Persisted(conn, h, hashes + 1, ts)
            hash == hashes + 1
            rec == [height |-> h, hash |-> hash]
            bs == Put(conn.blocks, {h}, hash)
            au == Put(conn.audit, {h}, hash)
            tx == Put(conn.txs, ts, h)
            rs == Put(conn.receipts, ts, rec)
<1>1. IsRows(conn) /\ conn.hashed = TRUE /\ Sound(conn, joined) /\ Whole(conn) /\ opening = "up" /\ joined \in BOOLEAN
  BY DEF StorageInv, Sound, PersistBlock, Whole
<1>2. Commits(e) /\ opening' = "up" /\ joined' = joined /\ renames' = renames /\ ts \cap DOMAIN conn.txs = {}
  BY <1>1 DEF PersistBlock, Made
<1>3. h \in Nat /\ h \notin DOMAIN conn.blocks /\ DOMAIN conn.blocks \cup {h} = 0..((h + 1) - 1)
  BY <1>1, TipIs
<1>4. DOMAIN bs = DOMAIN conn.blocks \cup {h} /\ bs[h] = hash /\ \A x \in DOMAIN conn.blocks : bs[x] = conn.blocks[x]
  BY <1>3 DEF Put
<1>5. DOMAIN au = DOMAIN conn.audit \cup {h} /\ au[h] = hash /\ \A x \in DOMAIN conn.audit \ {h} : au[x] = conn.audit[x]
  BY DEF Put
<1>6. DOMAIN tx = DOMAIN conn.txs \cup ts /\ (\A t \in ts : tx[t] = h) /\ \A t \in DOMAIN conn.txs : tx[t] = conn.txs[t]
  BY <1>2 DEF Put
<1>7. DOMAIN rs = DOMAIN conn.receipts \cup ts /\ (\A t \in ts : rs[t] = rec) /\ \A t \in DOMAIN conn.receipts : t \notin ts /\ rs[t] = conn.receipts[t]
  BY <1>1, <1>2 DEF Put, Sound
<1>8. rec.height = h /\ rec.hash = hash
  OBVIOUS
<1>9. e = [conn EXCEPT !.blocks = bs, !.full = @ \cup {h}, !.audit = au, !.txs = tx, !.receipts = rs]
  BY DEF Persisted
<1>. HIDE DEF bs, au, tx, rs, rec, hash, h, e
<1>10. IsRows(e) /\ e.hashed = TRUE /\ e.blocks = bs /\ e.txs = tx /\ e.receipts = rs /\ e.audit = au /\ e.full = conn.full \cup {h}
  BY <1>1, <1>9 DEF IsRows, FieldNames
<1>11. Sound(e, joined)
  <2>1. \E n \in Nat : DOMAIN e.blocks = 0..(n - 1)
    <3>1. h + 1 \in Nat /\ DOMAIN e.blocks = 0..((h + 1) - 1)
      BY <1>3, <1>4, <1>10
    <3>. DEFINE n1 == h + 1
    <3>2. n1 \in Nat /\ DOMAIN e.blocks = 0..(n1 - 1)
      BY <3>1
    <3>. HIDE DEF n1
    <3>. QED  BY <3>2
  <2>2. \A t \in DOMAIN e.txs : e.txs[t] \in Nat
    BY <1>1, <1>3, <1>6, <1>10 DEF Sound
  <2>3. \A t \in DOMAIN e.receipts : t \in DOMAIN e.txs /\ e.receipts[t].height = e.txs[t]
    BY <1>1, <1>6, <1>7, <1>8, <1>10 DEF Sound
  <2>4. \A x \in DOMAIN e.audit : x \in DOMAIN e.blocks => e.audit[x] = e.blocks[x]
    BY <1>1, <1>3, <1>4, <1>5, <1>10 DEF Sound
  <2>5. ~joined => DOMAIN e.audit \subseteq DOMAIN e.blocks /\ \A t \in DOMAIN e.txs : e.txs[t] \in DOMAIN e.blocks
    BY <1>1, <1>4, <1>5, <1>6, <1>10 DEF Sound
  <2>6. ~joined => \A t \in DOMAIN e.receipts : e.receipts[t].hash = e.blocks[e.txs[t]]
    BY <1>1, <1>4, <1>6, <1>7, <1>8, <1>10 DEF Sound
  <2>. QED  BY <1>10, <2>1, <2>2, <2>3, <2>4, <2>5, <2>6 DEF Sound
<1>12. Whole(e)
  BY <1>1, <1>4, <1>5, <1>6, <1>7, <1>10 DEF Whole, AllFull, AllAudit, BlockReceipts
<1>. QED  BY <1>1, <1>2, <1>11, <1>12, CommitsWhole

LEMMA SaveStep ==
    ASSUME StorageInv, renames, NEW t \in SpendIds, SaveTransaction(t)
    PROVE  StorageInv'
<1>. DEFINE tx == Put(conn.txs, {t}, Tip(conn))
            e == [conn EXCEPT !.txs = tx]
<1>1. IsRows(conn) /\ conn.hashed = TRUE /\ Sound(conn, joined) /\ Whole(conn) /\ opening = "up" /\ joined \in BOOLEAN
  BY DEF StorageInv, Sound, SaveTransaction, Whole
<1>2. Commits(e) /\ opening' = "up" /\ joined' = joined /\ renames' = renames /\ t \notin DOMAIN conn.txs /\ t \notin TxIds
  BY <1>1, StorageAssumption DEF SaveTransaction
<1>3. Tip(conn) \in Nat /\ Tip(conn) \in DOMAIN conn.blocks
  BY <1>1, TipIs DEF SaveTransaction
<1>4. DOMAIN tx = DOMAIN conn.txs \cup {t} /\ tx[t] = Tip(conn) /\ \A u \in DOMAIN conn.txs : tx[u] = conn.txs[u]
  BY <1>2 DEF Put
<1>. HIDE DEF tx
<1>5. IsRows(e) /\ e.hashed = TRUE /\ e.blocks = conn.blocks /\ e.txs = tx /\ e.receipts = conn.receipts /\ e.audit = conn.audit /\ e.full = conn.full
  BY <1>1 DEF IsRows, FieldNames
<1>. HIDE DEF e
<1>6. Sound(e, joined)
  BY <1>1, <1>2, <1>3, <1>4, <1>5 DEF Sound
<1>7. Whole(e)
  BY <1>1, <1>2, <1>4, <1>5 DEF Whole, AllFull, AllAudit, BlockReceipts
<1>. QED  BY <1>1, <1>2, <1>6, <1>7, CommitsWhole

LEMMA MismatchStep ==
    ASSUME StorageInv, renames, RecordStateRootMismatch
    PROVE  StorageInv'
<1>1. IsRows(conn) /\ conn.hashed = TRUE /\ Sound(conn, joined) /\ Whole(conn) /\ opening = "up" /\ joined \in BOOLEAN
  BY DEF StorageInv, Sound, RecordStateRootMismatch, Whole
<1>. DEFINE e == [conn EXCEPT !.mismatches = conn.mismatches \cup {Tip(conn) + 1}]
<1>2. Commits(e) /\ opening' = "up" /\ joined' = joined /\ renames' = renames
  BY <1>1 DEF RecordStateRootMismatch
<1>3. IsRows(e) /\ e.hashed = TRUE /\ e.blocks = conn.blocks /\ e.txs = conn.txs /\ e.receipts = conn.receipts /\ e.audit = conn.audit /\ e.full = conn.full
  BY <1>1 DEF IsRows, FieldNames
<1>. HIDE DEF e
<1>4. Sound(e, joined) /\ Whole(e)
  BY <1>1, <1>3, SoundKept DEF Whole, AllFull, AllAudit, BlockReceipts
<1>. QED  BY <1>1, <1>2, <1>4, CommitsWhole

LEMMA ReorgStep ==
    ASSUME StorageInv, renames, NEW h \in 0..MaxHeight, Reorg(h)
    PROVE  StorageInv'
<1>. DEFINE bs == Below(conn.blocks, h)
            au == Below(conn.audit, h)
            tx == [t \in {u \in DOMAIN conn.txs : conn.txs[u] <= h} |-> conn.txs[t]]
            rs == [t \in {u \in DOMAIN conn.receipts : conn.receipts[u].height <= h} |-> conn.receipts[t]]
            e == Truncated(conn, h)
<1>1. IsRows(conn) /\ conn.hashed = TRUE /\ Sound(conn, joined) /\ Whole(conn) /\ opening = "up" /\ joined \in BOOLEAN
  BY DEF StorageInv, Sound, Reorg, Whole
<1>2. Commits(e) /\ opening' = "up" /\ joined' = joined /\ renames' = renames /\ h < Tip(conn) /\ h \in Nat
  BY <1>1, StorageAssumption DEF Reorg
<1>3. DOMAIN conn.blocks = 0..Tip(conn) /\ Tip(conn) \in Int
  BY <1>1, TipIs
<1>4. DOMAIN bs = 0..((h + 1) - 1) /\ DOMAIN bs \subseteq DOMAIN conn.blocks /\ (\A x \in DOMAIN bs : bs[x] = conn.blocks[x])
      /\ DOMAIN bs = {x \in DOMAIN conn.blocks : x <= h}
  BY <1>2, <1>3 DEF Below
<1>5. DOMAIN au = {x \in DOMAIN conn.audit : x <= h} /\ \A x \in DOMAIN au : au[x] = conn.audit[x]
  BY DEF Below
<1>6. DOMAIN tx = {u \in DOMAIN conn.txs : conn.txs[u] <= h} /\ \A t \in DOMAIN tx : tx[t] = conn.txs[t]
  OBVIOUS
<1>7. DOMAIN rs = {u \in DOMAIN conn.receipts : conn.txs[u] <= h} /\ \A t \in DOMAIN rs : rs[t] = conn.receipts[t]
  BY <1>1 DEF Sound
<1>8. e = [conn EXCEPT !.blocks = bs, !.full = {x \in @ : x <= h}, !.audit = au, !.mismatches = {x \in @ : x <= h}, !.txs = tx, !.receipts = rs]
  BY DEF Truncated
<1>. HIDE DEF bs, au, tx, rs, e
<1>9. IsRows(e) /\ e.hashed = TRUE /\ e.blocks = bs /\ e.txs = tx /\ e.receipts = rs /\ e.audit = au /\ e.full = {x \in conn.full : x <= h}
  BY <1>1, <1>8 DEF IsRows, FieldNames
<1>10. Sound(e, joined)
  <2>1. \E n \in Nat : DOMAIN e.blocks = 0..(n - 1)
    BY <1>2, <1>4, <1>9
  <2>2. \A t \in DOMAIN e.txs : e.txs[t] \in Nat
    BY <1>1, <1>6, <1>9 DEF Sound
  <2>3. \A t \in DOMAIN e.receipts : t \in DOMAIN e.txs /\ e.receipts[t].height = e.txs[t]
    BY <1>1, <1>6, <1>7, <1>9 DEF Sound
  <2>4. \A x \in DOMAIN e.audit : x \in DOMAIN e.blocks => e.audit[x] = e.blocks[x]
    BY <1>1, <1>4, <1>5, <1>9 DEF Sound
  <2>5. ~joined => DOMAIN e.audit \subseteq DOMAIN e.blocks /\ \A t \in DOMAIN e.txs : e.txs[t] \in DOMAIN e.blocks
    BY <1>1, <1>4, <1>5, <1>6, <1>9 DEF Sound
  <2>6. ~joined => \A t \in DOMAIN e.receipts : e.receipts[t].hash = e.blocks[e.txs[t]]
    BY <1>1, <1>4, <1>6, <1>7, <1>9, <2>3, <2>5 DEF Sound
  <2>. QED  BY <1>9, <2>1, <2>2, <2>3, <2>4, <2>5, <2>6 DEF Sound
<1>11. Whole(e)
  BY <1>1, <1>4, <1>5, <1>6, <1>7, <1>9 DEF Whole, AllFull, AllAudit, BlockReceipts
<1>. QED  BY <1>1, <1>2, <1>10, <1>11, CommitsWhole

LEMMA TruncateAllStep ==
    ASSUME StorageInv, renames, TruncateAllBlocks
    PROVE  StorageInv'
<1>1. IsRows(conn) /\ conn.hashed = TRUE /\ Sound(conn, joined) /\ Whole(conn) /\ opening = "up"
  BY DEF StorageInv, Sound, TruncateAllBlocks, Whole
<1>. DEFINE e == [conn EXCEPT !.blocks = Empty, !.full = {}]
<1>2. Commits(e) /\ opening' = "up" /\ joined' = TRUE /\ renames' = renames
  BY <1>1 DEF TruncateAllBlocks
<1>3. IsRows(e) /\ e.hashed = TRUE /\ e.blocks = Empty /\ e.txs = conn.txs /\ e.receipts = conn.receipts /\ e.audit = conn.audit
  BY <1>1 DEF IsRows, FieldNames
<1>4. DOMAIN Empty = {} /\ 0 \in Nat /\ 0..(0 - 1) = {}
  BY DEF Empty
<1>. HIDE DEF e
<1>5. Sound(e, TRUE)
  BY <1>1, <1>3, <1>4 DEF Sound
<1>6. Whole(e)
  BY <1>1, <1>3, <1>4 DEF Whole, AllFull, AllAudit, BlockReceipts
<1>. QED  BY <1>1, <1>2, <1>5, <1>6, CommitsWhole

LEMMA StorageStep == StorageInv /\ [StorageNext]_storageVars => StorageInv'
<1>. SUFFICES ASSUME StorageInv, [StorageNext]_storageVars PROVE StorageInv'
  OBVIOUS
<1>0. renames' = renames
  BY DEF StorageNext, storageVars, Open, Crash, Then, CreateTables, RenameColumn, CopyHashes, AddColumns, BackfillData, BackfillReceipts,
         BackfillAudit, Configured, PersistBlock, Made, SaveTransaction, RecordStateRootMismatch, TruncateAllBlocks, Reorg
<1>1. CASE ~renames
  BY <1>0, <1>1 DEF StorageInv
<1>2. CASE renames
  <2>1. CASE Open
    BY <2>1 DEF Open, Then, StorageInv
  <2>2. CASE Crash
    BY <2>2 DEF Crash, StorageInv
  <2>3. CASE CreateTables \/ RenameColumn \/ CopyHashes \/ AddColumns
    BY <1>0, <1>2, <2>3, OpeningStep
  <2>4. CASE BackfillData \/ BackfillReceipts \/ BackfillAudit
    BY <1>2, <2>4, DataStep, ReceiptsStep, AuditStep
  <2>5. CASE Configured
    BY <1>2, <2>5 DEF Configured, Then, Commits, StorageInv, AllReceipts, BlockReceipts
  <2>6. ASSUME NEW ts \in SUBSET TxIds, PersistBlock(ts) PROVE StorageInv'
    BY <1>2, <2>6, PersistStep
  <2>7. ASSUME NEW t \in SpendIds, SaveTransaction(t) PROVE StorageInv'
    BY <1>2, <2>7, SaveStep
  <2>8. CASE RecordStateRootMismatch \/ TruncateAllBlocks
    BY <1>2, <2>8, MismatchStep, TruncateAllStep
  <2>9. ASSUME NEW h \in 0..MaxHeight, Reorg(h) PROVE StorageInv'
    BY <1>2, <2>9, ReorgStep
  <2>10. CASE UNCHANGED storageVars
    BY <2>10 DEF storageVars, StorageInv
  <2>. QED  BY <2>1, <2>2, <2>3, <2>4, <2>5, <2>6, <2>7, <2>8, <2>9, <2>10 DEF StorageNext
<1>. QED  BY <1>1, <1>2

LEMMA StorageNodeStep ==
    ASSUME StorageInv, [NodeNext]_nodeVars
    PROVE  StorageInv'
<1>1. CASE StorageNext
  BY <1>1, StorageStep
<1>2. CASE UNCHANGED storageVars
  BY <1>2, StorageStep
<1>. QED  BY <1>1, <1>2 DEF NodeNext, nodeVars

\* TablesAgree for every number of blocks, transactions and crashes (database.py, _configure,
\* _persist_block_locked, truncate_chain_state): a migration that crashes anywhere is
\* finished by the next start, and blocks, receipts and audit rows keep step.
THEOREM TablesKeepStep == NodeSpec => []TablesAgree
<1>1. NodeInit => StorageInv
  BY StorageStart DEF NodeInit
<1>2. StorageInv /\ [NodeNext]_nodeVars => StorageInv'
  BY StorageNodeStep
<1>3. StorageInv => TablesAgree
  BY SoundIsEnough
<1>. QED  BY <1>1, <1>2, <1>3, PTL DEF NodeSpec
=============================================================================
