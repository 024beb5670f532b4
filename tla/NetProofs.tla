------------------------------- MODULE NetProofs -------------------------------
(***************************************************************************)
(* The number registries for any documents IANA may publish, and the       *)
(* lookups that use them: the most specific entry is found, and nobody is  *)
(* asked who does not hold what the caller typed.                          *)
(***************************************************************************)
EXTENDS NetLookup, FiniteSetTheorems, WellFoundedInduction, TLAPS

-----------------------------------------------------------------------------
(* Least elements: what induction over the entries rests on.               *)

LEMMA LeastOf ==
    ASSUME NEW T \in SUBSET Nat, T # {}
    PROVE  \E x \in T : \A y \in T : x <= y
  <1> DEFINE R == OpToRel(<, Nat)
  <1>1. IsWellFoundedOn(R, Nat)
    BY NatLessThanWellFounded
  <1>2. PICK x \in T : \A y \in T : ~(<<y, x>> \in R)
    <2> HIDE DEF R
    <2> QED  BY <1>1, WFMin
  <1>3. ASSUME NEW y \in T
        PROVE  x <= y
    <2>1. ~(<<y, x>> \in R)
      BY <1>2
    <2>2. ~(y < x)
      BY <2>1 DEF OpToRel
    <2> QED  BY <2>2
  <1> QED  BY <1>3

-----------------------------------------------------------------------------
(* LookupIP: the loop of the code and its closed form.                     *)

NoBest == [ones |-> -1, bases |-> <<>>]

\* What entry i makes of the best so far.
Better(b, s, ip, i) ==
    IF InPrefix(s[i].key, ip) /\ s[i].key.ones > b.ones
    THEN [ones |-> s[i].key.ones, bases |-> s[i].bases] ELSE b

IsLoop(g, s, ip) ==
    g = [i \in 0 .. Len(s) |-> IF i = 0 THEN NoBest ELSE Better(g[i - 1], s, ip, i)]

LEMMA LookupIPIsLoop ==
    ASSUME NEW s, NEW ip
    PROVE  LookupIP(s, ip) = (CHOOSE g : IsLoop(g, s, ip))[Len(s)].bases
  BY DEF LookupIP, IsLoop, Better, NoBest

\* The entries among the first i that cover the address.
Covering(s, ip, i) == {j \in 1 .. i : InPrefix(s[j].key, ip)}

\* w has the longest prefix of them, and is the first of equals.
Wins(w, s, ip, i) ==
    /\ w \in Covering(s, ip, i)
    /\ \A j \in Covering(s, ip, i) : /\ s[j].key.ones <= s[w].key.ones
                                     /\ s[j].key.ones = s[w].key.ones => w <= j

Typed(s) == Len(s) \in Nat /\ \A j \in 1 .. Len(s) : s[j].key.ones \in Nat

LEMMA CoveringWith ==
    ASSUME NEW s, NEW ip, NEW i \in Nat, i # 0, InPrefix(s[i].key, ip)
    PROVE  Covering(s, ip, i) = Covering(s, ip, i - 1) \cup {i}
  <1>1. 1 .. i = (1 .. i - 1) \cup {i}
    OBVIOUS
  <1> QED  BY <1>1 DEF Covering

LEMMA CoveringWithout ==
    ASSUME NEW s, NEW ip, NEW i \in Nat, i # 0, ~InPrefix(s[i].key, ip)
    PROVE  Covering(s, ip, i) = Covering(s, ip, i - 1)
  <1>1. 1 .. i = (1 .. i - 1) \cup {i}
    OBVIOUS
  <1> QED  BY <1>1 DEF Covering

LEMMA WinsNext ==
    ASSUME NEW s, NEW ip, Typed(s), NEW i \in 1 .. Len(s), NEW w, Wins(w, s, ip, i - 1)
    PROVE  IF InPrefix(s[i].key, ip) /\ s[i].key.ones > s[w].key.ones
           THEN Wins(i, s, ip, i) ELSE Wins(w, s, ip, i)
  <1>0. i \in Nat /\ i # 0
    BY DEF Typed
  <1>1. /\ Covering(s, ip, i - 1) \subseteq 1 .. Len(s)
        /\ \A j \in Covering(s, ip, i - 1) : j \in Nat /\ j < i
    BY DEF Covering, Typed
  <1>2. \A j \in 1 .. Len(s) : s[j].key.ones \in Nat
    BY DEF Typed
  <1>3. w \in Covering(s, ip, i - 1)
    BY DEF Wins
  <1>c. PICK C : C = Covering(s, ip, i - 1)
    OBVIOUS
  <1>w. \A j \in C : /\ s[j].key.ones <= s[w].key.ones
                     /\ s[j].key.ones = s[w].key.ones => w <= j
    BY <1>c DEF Wins
  <1>4. CASE ~InPrefix(s[i].key, ip)
    <2>1. Covering(s, ip, i) = C
      BY <1>0, <1>4, <1>c, CoveringWithout
    <2> QED  BY <1>3, <1>4, <1>c, <1>w, <2>1 DEF Wins
  <1>5. CASE InPrefix(s[i].key, ip) /\ s[i].key.ones > s[w].key.ones
    <2>1. Covering(s, ip, i) = C \cup {i}
      BY <1>0, <1>5, <1>c, CoveringWith
    <2>2. \A j \in C : s[j].key.ones \in Nat /\ s[j].key.ones < s[i].key.ones
      BY <1>1, <1>2, <1>3, <1>5, <1>c, <1>w
    <2> QED  BY <1>0, <1>2, <1>5, <2>1, <2>2 DEF Wins
  <1>6. CASE InPrefix(s[i].key, ip) /\ ~(s[i].key.ones > s[w].key.ones)
    <2>1. Covering(s, ip, i) = C \cup {i}
      BY <1>0, <1>6, <1>c, CoveringWith
    <2>2. s[i].key.ones <= s[w].key.ones /\ w <= i
      BY <1>1, <1>2, <1>3, <1>6
    <2> QED  BY <1>3, <1>6, <1>c, <1>w, <2>1, <2>2 DEF Wins
  <1> QED  BY <1>4, <1>5, <1>6

LEMMA SomeoneWins ==
    ASSUME NEW s, NEW ip, Typed(s), NEW i \in 0 .. Len(s)
    PROVE  Covering(s, ip, i) = {} \/ \E w : Wins(w, s, ip, i)
  <1> DEFINE Bad == {n \in 0 .. Len(s) : /\ Covering(s, ip, n) # {}
                                         /\ \A w : ~Wins(w, s, ip, n)}
  <1> SUFFICES ASSUME Bad # {} PROVE FALSE
    OBVIOUS
  <1>1. Bad \in SUBSET Nat
    BY DEF Typed
  <1>2. PICK n \in Bad : \A y \in Bad : n <= y
    BY <1>1, LeastOf
  <1>3. n # 0
    BY <1>2 DEF Covering
  <1>4. n \in 1 .. Len(s) /\ n - 1 \in 0 .. Len(s) /\ ~(n <= n - 1)
    BY <1>2, <1>3 DEF Typed
  <1>5. Covering(s, ip, n - 1) = {} \/ \E w : Wins(w, s, ip, n - 1)
    BY <1>2, <1>4
  <1>6. CASE \E w : Wins(w, s, ip, n - 1)
    BY <1>2, <1>4, <1>6, WinsNext
  <1>7. CASE Covering(s, ip, n - 1) = {}
    <2>0. Covering(s, ip, n) # {} /\ n \in Nat
      BY <1>1, <1>2
    <2>1. Covering(s, ip, n) = {n}
      BY <2>0, <1>3, <1>7, CoveringWith, CoveringWithout
    <2>2. Wins(n, s, ip, n)
      <3>1. s[n].key.ones \in Nat
        BY <1>4 DEF Typed
      <3> QED  BY <1>1, <2>1, <3>1 DEF Wins
    <2> QED  BY <1>2, <2>2
  <1> QED  BY <1>5, <1>6, <1>7

Entry(s, w) == [ones |-> s[w].key.ones, bases |-> s[w].bases]

\* The best of the first i entries.
Best(s, ip, i) ==
    IF Covering(s, ip, i) = {} THEN NoBest ELSE Entry(s, CHOOSE w : Wins(w, s, ip, i))

LEMMA WinsAlone ==
    ASSUME NEW s, NEW ip, Typed(s), NEW i \in 0 .. Len(s),
           NEW v, Wins(v, s, ip, i), NEW w, Wins(w, s, ip, i)
    PROVE  v = w
  <1>1. v \in 1 .. Len(s) /\ w \in 1 .. Len(s)
    BY DEF Wins, Covering, Typed
  <1>2. s[v].key.ones \in Nat /\ s[w].key.ones \in Nat
    BY <1>1 DEF Typed
  <1>3. s[v].key.ones = s[w].key.ones
    BY <1>2 DEF Wins
  <1>4. v <= w /\ w <= v
    BY <1>3 DEF Wins
  <1> QED  BY <1>1, <1>4 DEF Typed

LEMMA BestIs ==
    ASSUME NEW s, NEW ip, Typed(s), NEW i \in 0 .. Len(s), NEW w, Wins(w, s, ip, i)
    PROVE  Best(s, ip, i) = Entry(s, w)
  <1>1. PICK v : v = CHOOSE u : Wins(u, s, ip, i)
    OBVIOUS
  <1>2. Wins(v, s, ip, i)
    BY <1>1
  <1>3. v = w
    BY <1>2, WinsAlone
  <1>4. Covering(s, ip, i) # {}
    BY DEF Wins
  <1> QED  BY <1>1, <1>3, <1>4 DEF Best

LEMMA BestNext ==
    ASSUME NEW s, NEW ip, Typed(s), NEW i \in 1 .. Len(s)
    PROVE  Best(s, ip, i) = Better(Best(s, ip, i - 1), s, ip, i)
  <1>0. /\ i \in Nat /\ i # 0 /\ i - 1 \in 0 .. Len(s) /\ i \in 0 .. Len(s)
        /\ s[i].key.ones \in Nat
    BY DEF Typed
  <1>1. CASE Covering(s, ip, i - 1) = {}
    <2>1. Best(s, ip, i - 1) = NoBest
      BY <1>1 DEF Best
    <2>2. CASE InPrefix(s[i].key, ip)
      <3>1. Covering(s, ip, i) = {i}
        BY <1>0, <1>1, <2>2, CoveringWith
      <3>2. Wins(i, s, ip, i)
        BY <1>0, <3>1 DEF Wins
      <3>3. Best(s, ip, i) = Entry(s, i)
        BY <1>0, <3>2, BestIs
      <3>4. NoBest.ones = -1 /\ s[i].key.ones > -1
        BY <1>0 DEF NoBest
      <3> QED  BY <2>1, <2>2, <3>3, <3>4 DEF Better, Entry
    <2>3. CASE ~InPrefix(s[i].key, ip)
      <3>1. Covering(s, ip, i) = {}
        BY <1>0, <1>1, <2>3, CoveringWithout
      <3> QED  BY <2>1, <2>3, <3>1 DEF Better, Best
    <2> QED  BY <2>2, <2>3
  <1>2. ASSUME NEW w, Wins(w, s, ip, i - 1)
        PROVE  Best(s, ip, i) = Better(Best(s, ip, i - 1), s, ip, i)
    <2>1. Best(s, ip, i - 1) = Entry(s, w)
      BY <1>0, <1>2, BestIs
    <2>2. Entry(s, w).ones = s[w].key.ones
      BY DEF Entry
    <2>3. CASE InPrefix(s[i].key, ip) /\ s[i].key.ones > s[w].key.ones
      <3>1. Wins(i, s, ip, i)
        BY <1>2, <2>3, WinsNext
      <3>2. Best(s, ip, i) = Entry(s, i)
        BY <1>0, <3>1, BestIs
      <3> QED  BY <2>1, <2>2, <2>3, <3>2 DEF Better, Entry
    <2>4. CASE ~(InPrefix(s[i].key, ip) /\ s[i].key.ones > s[w].key.ones)
      <3>1. Wins(w, s, ip, i)
        BY <1>2, <2>4, WinsNext
      <3>2. Best(s, ip, i) = Entry(s, w)
        BY <1>0, <3>1, BestIs
      <3> QED  BY <2>1, <2>2, <2>4, <3>2 DEF Better
    <2> QED  BY <2>3, <2>4
  <1> QED  BY <1>0, <1>1, <1>2, SomeoneWins

\* The loop computes it.
LEMMA LoopIsBest ==
    ASSUME NEW s, NEW ip, Typed(s), NEW g, IsLoop(g, s, ip), NEW i \in 0 .. Len(s)
    PROVE  g[i] = Best(s, ip, i)
  <1> DEFINE Bad == {n \in 0 .. Len(s) : g[n] # Best(s, ip, n)}
  <1> SUFFICES ASSUME Bad # {} PROVE FALSE
    OBVIOUS
  <1>1. Bad \in SUBSET Nat
    BY DEF Typed
  <1>2. PICK n \in Bad : \A y \in Bad : n <= y
    BY <1>1, LeastOf
  <1>3. g[n] = IF n = 0 THEN NoBest ELSE Better(g[n - 1], s, ip, n)
    BY <1>2 DEF IsLoop
  <1>4. CASE n = 0
    <2>1. Covering(s, ip, 0) = {}
      BY DEF Covering
    <2> QED  BY <1>2, <1>3, <1>4, <2>1 DEF Best
  <1>5. CASE n # 0
    <2>1. n \in 1 .. Len(s) /\ n - 1 \in 0 .. Len(s) /\ ~(n <= n - 1)
      BY <1>2, <1>5 DEF Typed
    <2>2. g[n - 1] = Best(s, ip, n - 1)
      BY <1>2, <2>1
    <2> QED  BY <1>2, <1>3, <1>5, <2>1, <2>2, BestNext
  <1> QED  BY <1>4, <1>5

LEMMA BestIsLoop ==
    ASSUME NEW s, NEW ip, Typed(s)
    PROVE  IsLoop([i \in 0 .. Len(s) |-> Best(s, ip, i)], s, ip)
  <1> DEFINE g == [i \in 0 .. Len(s) |-> Best(s, ip, i)]
             h == [i \in 0 .. Len(s) |-> IF i = 0 THEN NoBest ELSE Better(g[i - 1], s, ip, i)]
  <1>1. ASSUME NEW i \in 0 .. Len(s)
        PROVE  g[i] = h[i]
    <2>1. CASE i = 0
      <3>1. Covering(s, ip, 0) = {}
        BY DEF Covering
      <3> QED  BY <2>1, <3>1 DEF Best
    <2>2. CASE i # 0
      <3>1. i \in 1 .. Len(s) /\ i - 1 \in 0 .. Len(s)
        BY <2>2 DEF Typed
      <3>2. g[i] = Best(s, ip, i) /\ g[i - 1] = Best(s, ip, i - 1)
        BY <3>1
      <3>3. h[i] = Better(g[i - 1], s, ip, i)
        BY <2>2
      <3> QED  BY <3>1, <3>2, <3>3, BestNext
    <2> QED  BY <2>1, <2>2
  <1>2. g = h
    BY <1>1
  <1> QED  BY <1>2 DEF IsLoop

(* LookupIP, for any list of entries and any address, gives the bases of   *)
(* the longest prefix that covers the address, the first of equals.        *)
LEMMA LookupIPIsBest ==
    ASSUME NEW s, NEW ip, Typed(s)
    PROVE  LookupIP(s, ip) = Best(s, ip, Len(s)).bases
  <1>1. PICK g : g = CHOOSE f : IsLoop(f, s, ip)
    OBVIOUS
  <1>2. IsLoop(g, s, ip)
    BY <1>1, BestIsLoop
  <1>3. Len(s) \in 0 .. Len(s)
    BY DEF Typed
  <1>4. g[Len(s)] = Best(s, ip, Len(s))
    BY <1>2, <1>3, LoopIsBest
  <1> QED  BY <1>1, <1>4, LookupIPIsLoop

-----------------------------------------------------------------------------
(* What the families hold.                                                 *)

\* How many files a refresh has been through.
FilesDone(at) ==
    IF at = "mark" THEN 3 ELSE IF at = "asn" THEN 2 ELSE IF at = "v6" THEN 1 ELSE 0

(* Every family holds an accepted document's entries; and as long as every *)
(* file of this refresh failed, and none before it was accepted, those of  *)
(* the snapshot.                                                           *)
NetRegInv ==
    /\ netreg \in [Families -> UNION {Accepted[f] : f \in Families}]
    /\ \A f \in Families : netreg[f] \in Accepted[f]
    /\ netRefresh.at \in Families \cup {"idle", "mark"}
    /\ netRefresh.errs \in Nat /\ netRefresh.errs <= FilesDone(netRefresh.at)
    /\ \/ fromNetwork
       \/ netRefresh.at # "idle" /\ netRefresh.errs < FilesDone(netRefresh.at)
       \/ \A f \in Families : netreg[f] \in Snapshots[f]

LEMMA LoadedIsAccepted ==
    ASSUME NEW f \in Families
    PROVE  /\ Snapshots[f] \subseteq Accepted[f]
           /\ \A d \in NetDocuments[f] : UsableNet(d) => Loaded(f, d) \subseteq Accepted[f]
  BY DEF Accepted

LEMMA NetRegInvInit == NetRegistryInit => NetRegInv
  <1> SUFFICES ASSUME NetRegistryInit PROVE NetRegInv
    OBVIOUS
  <1>1. \A f \in Families : netreg[f] \in Snapshots[f] /\ netreg[f] \in Accepted[f]
    BY LoadedIsAccepted DEF NetRegistryInit
  <1>2. netreg \in [Families -> UNION {Accepted[f] : f \in Families}]
    <2>1. netreg \in [Families -> UNION {Snapshots[f] : f \in Families}]
      BY DEF NetRegistryInit
    <2> QED  BY <1>1, <2>1
  <1>3. netRefresh.at = "idle" /\ netRefresh.errs = 0
    BY DEF NetRegistryInit
  <1> QED  BY <1>1, <1>2, <1>3 DEF NetRegInv, FilesDone

LEMMA AfterIs ==
    ASSUME NEW f \in Families
    PROVE  /\ After(f) \in {"v6", "asn", "mark"}
           /\ FilesDone(After(f)) = FilesDone(f) + 1
           /\ FilesDone(f) \in Nat
  BY DEF After, FilesDone, Families

LEMMA NetRegInvStep ==
    ASSUME NetRegInv, NetRefresh \/ UNCHANGED netregVars
    PROVE  NetRegInv'
  <1>1. CASE RefreshNet
    <2>1. /\ netRefresh'.at = "v4" /\ netRefresh'.errs = 0 /\ netRefresh.at = "idle"
          /\ netreg' = netreg /\ fromNetwork' = fromNetwork
      BY <1>1 DEF RefreshNet
    <2> QED  BY <2>1 DEF NetRegInv, FilesDone, Families
  <1>2. CASE RefreshEnds
    <2>1. /\ netRefresh'.at = "idle" /\ netRefresh'.errs = 0 /\ netRefresh.at = "mark"
          /\ netreg' = netreg /\ (fromNetwork' <=> fromNetwork \/ netRefresh.errs < 3)
      BY <1>2 DEF RefreshEnds
    <2> QED  BY <2>1 DEF NetRegInv, FilesDone, Families
  <1>3. ASSUME NEW f \in Families, netRefresh.at = f,
               netRefresh' = [at |-> After(f), errs |-> netRefresh.errs + 1],
               UNCHANGED <<netreg, fromNetwork>>
        PROVE  NetRegInv'
    <2>1. netRefresh'.at = After(f) /\ netRefresh'.errs = netRefresh.errs + 1
      BY <1>3
    <2>2. netRefresh.at # "idle" /\ After(f) # "idle" /\ After(f) \in Families \cup {"idle", "mark"}
      BY <1>3, AfterIs DEF Families
    <2>3. netRefresh.errs \in Nat /\ netRefresh.errs <= FilesDone(f)
      BY <1>3 DEF NetRegInv
    <2>4. /\ netRefresh'.errs \in Nat /\ netRefresh'.errs <= FilesDone(After(f))
          /\ netRefresh.errs < FilesDone(f) => netRefresh'.errs < FilesDone(After(f))
      BY <2>1, <2>3, AfterIs
    <2> QED  BY <1>3, <2>1, <2>2, <2>4 DEF NetRegInv
  <1>4. ASSUME NEW f \in Families, NEW d \in NetDocuments[f], FamilyLoaded(f, d)
        PROVE  NetRegInv'
    <2>1. /\ netRefresh'.at = After(f) /\ netRefresh'.errs = netRefresh.errs
          /\ netRefresh.at = f /\ UsableNet(d) /\ fromNetwork' = fromNetwork
      BY <1>4 DEF FamilyLoaded
    <2>2. PICK entries \in Loaded(f, d) : netreg' = [netreg EXCEPT ![f] = entries]
      BY <1>4 DEF FamilyLoaded
    <2>3. entries \in Accepted[f]
      BY <2>1, <2>2, LoadedIsAccepted
    <2>4. netreg' \in [Families -> UNION {Accepted[g] : g \in Families}]
      BY <2>2, <2>3 DEF NetRegInv
    <2>5. \A g \in Families : netreg'[g] \in Accepted[g]
      BY <2>2, <2>3 DEF NetRegInv
    <2>6. netRefresh.errs \in Nat /\ netRefresh.errs <= FilesDone(f)
      BY <2>1 DEF NetRegInv
    <2>7. After(f) # "idle" /\ After(f) \in Families \cup {"idle", "mark"}
      BY AfterIs DEF Families
    <2>8. /\ netRefresh'.errs \in Nat /\ netRefresh'.errs <= FilesDone(After(f))
          /\ netRefresh'.errs < FilesDone(After(f))
      BY <2>1, <2>6, AfterIs
    <2> QED  BY <2>1, <2>4, <2>5, <2>7, <2>8 DEF NetRegInv
  <1>5. CASE UNCHANGED netregVars
    BY <1>5 DEF netregVars, NetRegInv
  <1>6. ASSUME NEW f \in Families,
               FetchFailed(f) \/ \E d \in NetDocuments[f] : FamilyRejected(f, d)
        PROVE  NetRegInv'
    BY <1>3, <1>6 DEF FetchFailed, FamilyRejected
  <1> QED  BY <1>1, <1>2, <1>4, <1>5, <1>6 DEF NetRefresh

LEMMA NetStepOfRegistry == [NetNext]_netVars => NetRefresh \/ UNCHANGED netregVars
  BY DEF NetNext, netVars, netregVars, Proceed

(* Whichever files of a refresh fail, no family is ever between documents, *)
(* and the snapshot is only gone once the mark is or will be set.          *)
THEOREM NetRegistryInvariant == NetSpec => []NetRegInv
  <1>1. NetInit => NetRegInv
    BY NetRegInvInit DEF NetInit
  <1>2. NetRegInv /\ [NetNext]_netVars => NetRegInv'
    BY NetStepOfRegistry, NetRegInvStep
  <1> QED  BY <1>1, <1>2, PTL DEF NetSpec

(* A family's data change only to those of an accepted document of its     *)
(* own: a refresh (NetRegistry.Refresh) that fails at any of its files, in *)
(* any way, leaves what was there before it, and until a first document    *)
(* was accepted that is the snapshot.                                      *)
THEOREM FamiliesAlwaysKept == NetSpec => FamiliesKept
  <1> DEFINE A == \A f \in Families : netreg'[f] # netreg[f] =>
                      /\ netRefresh.at = f /\ netRefresh'.errs = netRefresh.errs
                      /\ \E d \in NetDocuments[f] : UsableNet(d) /\ netreg'[f] \in Loaded(f, d)
  <1>1. NetRegInv => FamiliesWhole
    BY DEF NetRegInv, FamiliesWhole
  <1>2. NetRegInv /\ [NetNext]_netVars => [A]_netregVars
    <2> SUFFICES ASSUME NetRegInv, [NetNext]_netVars
                 PROVE  [A]_netregVars
      OBVIOUS
    <2>1. CASE UNCHANGED netreg
      BY <2>1
    <2>2. ASSUME NEW g \in Families, NEW d \in NetDocuments[g], FamilyLoaded(g, d)
          PROVE  A
      <3>1. PICK entries \in Loaded(g, d) : netreg' = [netreg EXCEPT ![g] = entries]
        BY <2>2 DEF FamilyLoaded
      <3>2. netreg'[g] = entries /\ \A f \in Families \ {g} : netreg'[f] = netreg[f]
        BY <3>1 DEF NetRegInv
      <3>3. netRefresh.at = g /\ netRefresh'.errs = netRefresh.errs /\ UsableNet(d)
        BY <2>2 DEF FamilyLoaded
      <3> QED  BY <3>1, <3>2, <3>3
    <2>3. NetRefresh => UNCHANGED netreg
                        \/ \E g \in Families : \E d \in NetDocuments[g] : FamilyLoaded(g, d)
      BY DEF NetRefresh, RefreshNet, RefreshEnds, FetchFailed, FamilyRejected
    <2>4. UNCHANGED netregVars => UNCHANGED netreg
      BY DEF netregVars
    <2> QED  BY <2>1, <2>2, <2>3, <2>4, NetStepOfRegistry
  <1>3. NetSpec => []FamiliesWhole /\ [][A]_netregVars
    BY <1>1, <1>2, NetRegistryInvariant, PTL DEF NetSpec
  <1> QED  BY <1>3 DEF FamiliesKept

-----------------------------------------------------------------------------
(* The entries a family may hold, and the two lookups in them.             *)

\* Documents a family may have been loaded from.
Sources(f) == {d \in NetDocuments[f] \cup {NetEmbedded[f]} : UsableNet(d)}

LEMMA AcceptedFromSource ==
    ASSUME NEW f \in Families, NEW entries \in Accepted[f]
    PROVE  \E d \in Sources(f) : entries \in Loaded(f, d)
  <1>1. UsableNet(NetEmbedded[f])
    BY NetRegistryConstants
  <1> QED  BY <1>1 DEF Accepted, Snapshots, Sources

LEMMA SourceTyped ==
    ASSUME NEW f \in Families, NEW d \in Sources(f)
    PROVE  LET e == EntriesOf(d)
           IN  /\ Len(e) \in Nat /\ DOMAIN e = 1 .. Len(e)
               /\ \A i \in 1 .. Len(e) : WellFormed(f, e[i])
  <1>1. /\ EntriesOf(d) \in Seq(ToSet(EntriesOf(d)))
        /\ \A i \in DOMAIN EntriesOf(d) : WellFormed(f, EntriesOf(d)[i])
    BY NetRegistryConstants DEF Sources
  <1>2. PICK e, S : e = EntriesOf(d) /\ S = ToSet(EntriesOf(d))
    OBVIOUS
  <1>3. e \in Seq(S) /\ \A i \in DOMAIN e : WellFormed(f, e[i])
    BY <1>1, <1>2
  <1>4. Len(e) \in Nat /\ DOMAIN e = 1 .. Len(e)
    BY <1>3
  <1>5. \A i \in 1 .. Len(e) : WellFormed(f, e[i])
    BY <1>3, <1>4
  <1> QED  BY <1>2, <1>4, <1>5

LEMMA PrefixesTyped ==
    ASSUME NEW f \in {"v4", "v6"}, NEW entries \in Accepted[f]
    PROVE  /\ Typed(entries) /\ DOMAIN entries = 1 .. Len(entries)
           /\ \A i \in DOMAIN entries : WellFormed(f, entries[i])
  <1>1. f \in Families /\ f # "asn"
    BY DEF Families
  <1>2. PICK d \in Sources(f) : entries \in Loaded(f, d)
    BY <1>1, AcceptedFromSource
  <1>3. entries = EntriesOf(d)
    BY <1>1, <1>2 DEF Loaded
  <1>4. /\ Len(entries) \in Nat /\ DOMAIN entries = 1 .. Len(entries)
        /\ \A i \in 1 .. Len(entries) : WellFormed(f, entries[i])
    BY <1>1, <1>3, SourceTyped
  <1>5. ASSUME NEW i \in 1 .. Len(entries)
        PROVE  entries[i].key.ones \in Nat
    <2>1. entries[i].key.ones \in 0 .. Width
      BY <1>1, <1>4 DEF WellFormed
    <2>2. Width \in Nat
      BY NetRegistryConstants
    <2> QED  BY <2>1, <2>2
  <1> QED  BY <1>4, <1>5 DEF Typed

\* n ranges in the order of their lower bounds.
SortedRanges(ranges, n) ==
    /\ n \in Nat /\ DOMAIN ranges = 1 .. n
    /\ \A i \in 1 .. n : WellFormed("asn", ranges[i])
    /\ \A i \in 1 .. n - 1 : ranges[i].key.lo <= ranges[i + 1].key.lo

LEMMA RangesSorted ==
    ASSUME NEW ranges \in Accepted["asn"]
    PROVE  \E n : SortedRanges(ranges, n)
  <1>1. "asn" \in Families
    BY DEF Families
  <1>2. PICK d \in Sources("asn") : ranges \in Loaded("asn", d)
    BY <1>1, AcceptedFromSource
  <1>3. PICK e : e = EntriesOf(d)
    OBVIOUS
  <1>4. ranges \in SortedByLo(e)
    BY <1>2, <1>3 DEF Loaded
  <1>5. PICK n \in Nat : n = Len(e) /\ \A i \in 1 .. n : WellFormed("asn", e[i])
    BY <1>1, <1>3, SourceTyped
  <1>6. PICK p \in [1 .. n -> 1 .. n] :
            /\ \A i \in 1 .. n - 1 : e[p[i]].key.lo <= e[p[i + 1]].key.lo
            /\ ranges = [i \in 1 .. n |-> e[p[i]]]
    BY <1>4, <1>5 DEF SortedByLo
  <1>7. DOMAIN ranges = 1 .. n /\ \A i \in 1 .. n : ranges[i] = e[p[i]]
    BY <1>6
  <1>8. \A i \in 1 .. n : WellFormed("asn", ranges[i])
    BY <1>5, <1>6, <1>7
  <1>9. ASSUME NEW i \in 1 .. n - 1
        PROVE  ranges[i].key.lo <= ranges[i + 1].key.lo
    <2>1. i \in 1 .. n /\ i + 1 \in 1 .. n
      BY <1>5
    <2> QED  BY <1>6, <1>7, <2>1
  <1> QED  BY <1>5, <1>7, <1>8, <1>9 DEF SortedRanges

\* Ordered neighbours make an ordered list.
LEMMA LowerBoundsOrdered ==
    ASSUME NEW ranges, NEW n, SortedRanges(ranges, n),
           NEW i \in 1 .. n, NEW j \in 1 .. n, i <= j
    PROVE  ranges[i].key.lo <= ranges[j].key.lo
  <1> DEFINE Bad == {k \in 1 .. n : i <= k /\ ~(ranges[i].key.lo <= ranges[k].key.lo)}
  <1> SUFFICES ASSUME Bad # {} PROVE FALSE
    OBVIOUS
  <1>0. n \in Nat /\ \A k \in 1 .. n : ranges[k].key.lo \in Nat
    BY DEF SortedRanges, WellFormed
  <1>1. Bad \in SUBSET Nat
    BY <1>0
  <1>2. PICK k \in Bad : \A y \in Bad : k <= y
    BY <1>1, LeastOf
  <1>3. k # i
    BY <1>0, <1>2
  <1>4. k - 1 \in 1 .. n - 1 /\ k - 1 \in 1 .. n /\ i <= k - 1 /\ ~(k <= k - 1)
    BY <1>0, <1>2, <1>3
  <1>5. ranges[i].key.lo <= ranges[k - 1].key.lo
    BY <1>2, <1>4
  <1>6. ranges[k - 1].key.lo <= ranges[k].key.lo
    <2>1. ranges[k - 1].key.lo <= ranges[(k - 1) + 1].key.lo
      BY <1>4 DEF SortedRanges
    <2>2. (k - 1) + 1 = k
      BY <1>0, <1>2
    <2> QED  BY <2>1, <2>2
  <1> QED  BY <1>0, <1>2, <1>4, <1>5, <1>6

LEMMA MaxOf ==
    ASSUME NEW n \in Nat, NEW T \in SUBSET (1 .. n), T # {}
    PROVE  Max(T) \in T
  <1> DEFINE D == {n - t : t \in T}
  <1>1. D \in SUBSET Nat /\ D # {}
    <2>1. \A t \in T : n - t \in Nat
      OBVIOUS
    <2> QED  BY <2>1
  <1>2. PICK x \in D : \A y \in D : x <= y
    BY <1>1, LeastOf
  <1>3. PICK t \in T : x = n - t
    BY <1>2
  <1>4. ASSUME NEW u \in T
        PROVE  t >= u
    <2>1. n - u \in D
      OBVIOUS
    <2>2. n - t <= n - u
      BY <1>2, <1>3, <2>1
    <2>3. t \in 1 .. n /\ u \in 1 .. n
      OBVIOUS
    <2> QED  BY <2>2, <2>3
  <1> QED  BY <1>4 DEF Max

LEMMA MinOf ==
    ASSUME NEW T \in SUBSET Nat, NEW t \in T, \A u \in T : t <= u
    PROVE  Min(T) = t
  <1>1. PICK m : m = Min(T)
    OBVIOUS
  <1>2. m \in T /\ \A u \in T : m <= u
    BY <1>1 DEF Min
  <1>3. m <= t /\ t <= m
    BY <1>2
  <1> QED  BY <1>1, <1>2, <1>3

\* The ranges that start no later than a number come first.
LEMMA StartedFirst ==
    ASSUME NEW ranges, NEW n, SortedRanges(ranges, n), NEW a \in Nat
    PROVE  LET K == {k \in DOMAIN ranges : ranges[k].key.lo <= a}
           IN  Cardinality(K) \in 0 .. n /\ K = 1 .. Cardinality(K)
  <1> DEFINE K == {k \in DOMAIN ranges : ranges[k].key.lo <= a}
             Later == (1 .. n) \ K
  <1>0. /\ n \in Nat /\ DOMAIN ranges = 1 .. n
        /\ \A k \in 1 .. n : ranges[k].key.lo \in Nat
    BY DEF SortedRanges, WellFormed
  <1>1. ASSUME NEW m \in 0 .. n, K = 1 .. m
        PROVE  Cardinality(K) = m
    <2>1. Cardinality(1 .. m) = m
      <3>1. 1 \in Int /\ m \in Int
        BY <1>0
      <3>2. Cardinality(1 .. m) = IF 1 > m THEN 0 ELSE m - 1 + 1
        BY <3>1, FS_Interval
      <3> QED  BY <1>0, <3>2
    <2> QED  BY <1>1, <2>1
  <1>2. CASE Later = {}
    <2>1. K = 1 .. n /\ n \in 0 .. n
      BY <1>0, <1>2
    <2>2. Cardinality(K) = n
      BY <1>1, <2>1
    <2> QED  BY <2>1, <2>2
  <1>3. CASE Later # {}
    <2>1. Later \in SUBSET Nat
      BY <1>0
    <2>2. PICK j \in Later : \A y \in Later : j <= y
      BY <1>3, <2>1, LeastOf
    <2>3. j \in 1 .. n /\ j - 1 \in 0 .. n /\ ~(ranges[j].key.lo <= a)
      BY <1>0, <2>2
    <2>4. \A k \in 1 .. j - 1 : k \in K
      BY <1>0, <2>2, <2>3
    <2>5. ASSUME NEW k \in K
          PROVE  k \in 1 .. j - 1
      <3>1. CASE j <= k
        <4>1. ranges[j].key.lo <= ranges[k].key.lo
          BY <1>0, <2>3, <3>1, LowerBoundsOrdered
        <4> QED  BY <1>0, <2>3, <4>1
      <3>2. CASE ~(j <= k)
        BY <1>0, <2>3, <3>2
      <3> QED  BY <3>1, <3>2
    <2>6. K = 1 .. j - 1
      BY <2>4, <2>5
    <2>7. Cardinality(K) = j - 1
      BY <1>1, <2>3, <2>6
    <2> QED  BY <2>3, <2>6, <2>7
  <1> QED  BY <1>2, <1>3

\* What LookupASN returns comes from a range that covers the number.
LEMMA LookupASNCovers ==
    ASSUME NEW ranges, NEW n, SortedRanges(ranges, n), NEW a \in Nat
    PROVE  \/ LookupASN(ranges, a) = <<>>
           \/ \E i \in 1 .. n : Covers(ranges[i].key, a) /\ LookupASN(ranges, a) = ranges[i].bases
  <1> DEFINE i == Cardinality({k \in DOMAIN ranges : ranges[k].key.lo <= a})
             found == {j \in DOMAIN ranges :
                           j \in i + 1 - StepsBack .. i /\ Covers(ranges[j].key, a)}
  <1>1. LookupASN(ranges, a) = IF found = {} THEN <<>> ELSE ranges[Max(found)].bases
    BY DEF LookupASN
  <1>2. n \in Nat /\ found \in SUBSET (1 .. n)
    BY DEF SortedRanges
  <1>3. found # {} => Max(found) \in found
    BY <1>2, MaxOf
  <1>4. \A j \in found : j \in 1 .. n /\ Covers(ranges[j].key, a)
    BY <1>2
  <1> HIDE DEF found
  <1> QED  BY <1>1, <1>3, <1>4

Simple(ranges) ==
    \A i \in DOMAIN ranges :
        Cardinality({j \in DOMAIN ranges \ {i} : Overlap(ranges[i].key, ranges[j].key)})
            < StepsBack

(* A covered number is found: a range further back than LookupASN steps    *)
(* would overlap every range passed over.                                  *)
LEMMA LookupASNFinds ==
    ASSUME NEW ranges, NEW n, SortedRanges(ranges, n), Simple(ranges), NEW a \in Nat,
           NEW c \in 1 .. n, Covers(ranges[c].key, a)
    PROVE  \E i \in 1 .. n : Covers(ranges[i].key, a) /\ LookupASN(ranges, a) = ranges[i].bases
  <1> DEFINE K == {k \in DOMAIN ranges : ranges[k].key.lo <= a}
             found == {j \in DOMAIN ranges :
                           /\ j \in Cardinality(K) + 1 - StepsBack .. Cardinality(K)
                           /\ Covers(ranges[j].key, a)}
  <1>0. /\ n \in Nat /\ DOMAIN ranges = 1 .. n
        /\ \A k \in 1 .. n : /\ ranges[k].key.lo \in Nat /\ ranges[k].key.hi \in Nat
                             /\ ranges[k].key.lo <= ranges[k].key.hi
    BY DEF SortedRanges, WellFormed
  <1>1. LookupASN(ranges, a) = IF found = {} THEN <<>> ELSE ranges[Max(found)].bases
    BY DEF LookupASN
  <1>2. PICK m \in 0 .. n : m = Cardinality(K) /\ K = 1 .. m
    <2>1. Cardinality(K) \in 0 .. n /\ K = 1 .. Cardinality(K)
      BY StartedFirst
    <2> HIDE DEF K
    <2> QED  BY <2>1
  <1>3. c \in 1 .. m
    BY <1>0, <1>2 DEF Covers
  <1>4. CASE c \in found
    <2>1. found \in SUBSET (1 .. n)
      BY <1>0
    <2>2. Max(found) \in found
      BY <1>0, <1>4, <2>1, MaxOf
    <2>3. \A j \in found : j \in 1 .. n /\ Covers(ranges[j].key, a)
      BY <1>0
    <2> HIDE DEF found
    <2> QED  BY <1>1, <1>4, <2>2, <2>3
  <1>5. CASE c \notin found
    <2> DEFINE S == {j \in DOMAIN ranges \ {c} : Overlap(ranges[c].key, ranges[j].key)}
    <2>1. c < m - 3
      <3>1. ~(c \in m + 1 - 4 .. m)
        BY <1>0, <1>2, <1>5 DEF StepsBack
      <3> QED  BY <1>0, <1>2, <1>3, <3>1
    <2>3. ASSUME NEW k \in 1 .. m, c < k
          PROVE  k \in S
      <3>1. k \in 1 .. n /\ ranges[k].key.lo <= a
        BY <1>0, <1>2
      <3>2. ranges[c].key.lo <= ranges[k].key.lo
        BY <1>0, <1>3, <2>3, <3>1, LowerBoundsOrdered
      <3>3. a <= ranges[c].key.hi
        BY DEF Covers
      <3>4. ranges[c].key.lo <= ranges[k].key.hi /\ ranges[k].key.lo <= ranges[c].key.hi
        BY <1>0, <3>1, <3>2, <3>3
      <3> QED  BY <1>0, <2>3, <3>1, <3>4 DEF Overlap
    <2>4. c + 1 .. m \subseteq S
      BY <1>0, <1>3, <2>3
    <2>5. IsFiniteSet(S)
      <3>1. IsFiniteSet(1 .. n)
        <4>1. 1 \in Int /\ n \in Int
          BY <1>0
        <4> QED  BY <4>1, FS_Interval
      <3>2. S \in SUBSET (1 .. n)
        BY <1>0
      <3> QED  BY <3>1, <3>2, FS_Subset
    <2>6. Cardinality(c + 1 .. m) = m - c
      <3>1. c + 1 \in Int /\ m \in Int
        BY <1>0
      <3>2. Cardinality(c + 1 .. m) = IF c + 1 > m THEN 0 ELSE m - (c + 1) + 1
        BY <3>1, FS_Interval
      <3> QED  BY <1>0, <2>1, <3>2
    <2>7. Cardinality(c + 1 .. m) <= Cardinality(S)
      BY <2>4, <2>5, FS_Subset
    <2>8. Cardinality(S) \in Nat
      BY <2>5, FS_CardinalityType
    <2>9. Cardinality(S) < 4
      BY <1>0 DEF Simple, StepsBack
    <2>10. PICK s \in Nat : s = Cardinality(S) /\ s < 4 /\ m - c <= s
      BY <2>6, <2>7, <2>8, <2>9
    <2> QED  BY <1>0, <2>1, <2>10
  <1> QED  BY <1>4, <1>5

-----------------------------------------------------------------------------
(* The lookups in the registry as it stands.                               *)

LEMMA PrefixFound ==
    ASSUME NEW f \in {"v4", "v6"}, NEW services \in Accepted[f], NEW ip
    PROVE  LET covering == {i \in DOMAIN services : InPrefix(services[i].key, ip)}
               longest == {i \in covering :
                               \A j \in covering : services[j].key.ones <= services[i].key.ones}
           IN  /\ covering = {} => LookupIP(services, ip) = <<>>
               /\ covering # {} => /\ Min(longest) \in longest
                                   /\ LookupIP(services, ip) = services[Min(longest)].bases
  <1> DEFINE covering == {i \in DOMAIN services : InPrefix(services[i].key, ip)}
             longest == {i \in covering :
                             \A j \in covering : services[j].key.ones <= services[i].key.ones}
  <1>0. Typed(services) /\ DOMAIN services = 1 .. Len(services)
    BY PrefixesTyped
  <1>1. LookupIP(services, ip) = Best(services, ip, Len(services)).bases
    BY <1>0, LookupIPIsBest
  <1>2. covering = Covering(services, ip, Len(services))
    BY <1>0 DEF Covering
  <1>3. CASE covering = {}
    BY <1>1, <1>2, <1>3 DEF Best, NoBest
  <1>4. CASE covering # {}
    <2>1. Len(services) \in 0 .. Len(services)
      BY <1>0 DEF Typed
    <2>2. PICK w : Wins(w, services, ip, Len(services))
      BY <1>0, <1>2, <1>4, <2>1, SomeoneWins
    <2>3. LookupIP(services, ip) = services[w].bases
      BY <1>0, <1>1, <2>1, <2>2, BestIs DEF Entry
    <2>4. /\ w \in covering
          /\ \A j \in covering : /\ services[j].key.ones <= services[w].key.ones
                                 /\ services[j].key.ones = services[w].key.ones => w <= j
      BY <1>2, <2>2 DEF Wins
    <2>5. \A j \in covering : j \in Nat /\ services[j].key.ones \in Nat
      BY <1>0 DEF Typed
    <2>6. w \in longest
      BY <2>4
    <2>7. ASSUME NEW j \in longest
          PROVE  w <= j
      <3>1. j \in covering /\ services[w].key.ones <= services[j].key.ones
        BY <2>4
      <3>2. services[j].key.ones = services[w].key.ones
        BY <2>4, <2>5, <3>1
      <3> QED  BY <2>4, <3>1, <3>2
    <2>8. longest \in SUBSET Nat
      BY <2>5
    <2>9. Min(longest) = w
      <3> HIDE DEF longest
      <3> QED  BY <2>6, <2>7, <2>8, MinOf
    <2> QED  BY <1>4, <2>3, <2>6, <2>9
  <1> QED  BY <1>3, <1>4

(* Whatever documents are in place, the two lookups find the most specific *)
(* entry at every address, and a covering range at every number.           *)
THEOREM MostSpecificAlwaysFound == NetSpec => []LookupsMostSpecific
  <1>1. ASSUME NetRegInv
        PROVE  LongestPrefixWins
    <2> SUFFICES ASSUME NEW f \in {"v4", "v6"}, NEW ip \in Addresses
                 PROVE  LET services == netreg[f]
                            covering == {i \in DOMAIN services : InPrefix(services[i].key, ip)}
                            longest == {i \in covering : \A j \in covering :
                                            services[j].key.ones <= services[i].key.ones}
                        IN LookupIP(services, ip) =
                               IF covering = {} THEN <<>> ELSE services[Min(longest)].bases
      BY DEF LongestPrefixWins
    <2>1. netreg[f] \in Accepted[f]
      BY <1>1 DEF NetRegInv, Families
    <2>2. PICK services \in Accepted[f] : services = netreg[f]
      BY <2>1
    <2> QED  BY <2>2, PrefixFound
  <1>2. ASSUME NetRegInv
        PROVE  RangesFound
    <2>1. netreg["asn"] \in Accepted["asn"]
      BY <1>2 DEF NetRegInv, Families
    <2>2. PICK ranges \in Accepted["asn"] : ranges = netreg["asn"]
      BY <2>1
    <2>3. PICK n : SortedRanges(ranges, n)
      BY RangesSorted
    <2>4. DOMAIN ranges = 1 .. n
      BY <2>3 DEF SortedRanges
    <2>5. ASSUME Simple(ranges), NEW a \in 0 .. MaxASN
          PROVE  LET covering == {i \in DOMAIN ranges : Covers(ranges[i].key, a)}
                 IN IF covering = {} THEN LookupASN(ranges, a) = <<>>
                    ELSE \E i \in covering : LookupASN(ranges, a) = ranges[i].bases
      <3> DEFINE covering == {i \in DOMAIN ranges : Covers(ranges[i].key, a)}
      <3>1. a \in Nat
        BY NetRegistryConstants
      <3>2. CASE covering = {}
        BY <2>3, <2>4, <3>1, <3>2, LookupASNCovers
      <3>3. CASE covering # {}
        <4>1. PICK c \in 1 .. n : Covers(ranges[c].key, a)
          BY <2>4, <3>3
        <4>2. PICK i \in 1 .. n :
                  Covers(ranges[i].key, a) /\ LookupASN(ranges, a) = ranges[i].bases
          BY <2>3, <2>5, <3>1, <4>1, LookupASNFinds
        <4> QED  BY <2>4, <3>3, <4>2
      <3> QED  BY <3>2, <3>3
    <2> QED  BY <2>2, <2>5 DEF RangesFound, Simple
  <1>3. NetRegInv => LookupsMostSpecific
    BY <1>1, <1>2 DEF LookupsMostSpecific
  <1> QED  BY <1>3, NetRegistryInvariant, PTL

-----------------------------------------------------------------------------
(* Who is asked, and who is quoted.                                        *)

\* b holds a resource that somebody may ask about under key k.
HeldUnder(k, b) == \E q \in Requests : KeyOf(q) = k /\ b \in HoldersOf[q.res]

CallHeld(q) ==
    /\ q.req \in Requests
    /\ q.left \in Seq(HoldersOf[q.req.res])
    /\ q.stage = "done" => HeldUnder(KeyOf(q.req), q.answer)

CallsHeld == call = [c \in Callers |-> call[c]] /\ \A c \in Callers : CallHeld(call[c])

CacheHeld ==
    /\ stored = [k \in Keys |-> stored[k]]
    /\ \A k \in Keys : stored[k] = NoEntry \/ HeldUnder(k, stored[k].base)

\* QueryResource only ever goes on with bases of an entry that covers what was typed.
LEMMA BasesHeld ==
    ASSUME NetRegInv, NEW q \in Requests, ~Blocked(q.res)
    PROVE  Bases(q.res) \in Seq(HoldersOf[q.res])
  <1> DEFINE res == q.res
             H(e) == Holders(res, e)
  <1>1. HoldersOf[res] = UNION {Holders(res, e) : e \in Accepted[res.family]}
    BY DEF HoldersOf
  <1>2. <<>> \in Seq(HoldersOf[res])
    OBVIOUS
  <1>3. ASSUME NEW f \in Families, NEW e \in Accepted[f], f = res.family,
               NEW i, WellFormed(f, e[i]), ToSet(e[i].bases) \subseteq Holders(res, e)
        PROVE  e[i].bases \in Seq(HoldersOf[res])
    <2>1. PICK b, S : b = e[i].bases /\ S = ToSet(e[i].bases)
      OBVIOUS
    <2>2. b \in Seq(S)
      BY <1>3, <2>1 DEF WellFormed
    <2>3. S \subseteq HoldersOf[res]
      BY <1>1, <1>3, <2>1
    <2>4. PICK T : T = HoldersOf[res]
      OBVIOUS
    <2>5. b \in Seq(T)
      BY <2>2, <2>3, <2>4
    <2> QED  BY <2>1, <2>4, <2>5
  <1>4. CASE res.kind = "asn"
    <2>1. res.family = "asn" /\ res.num \in Nat /\ "asn" \in Families
      BY <1>4, NetLookupConstants, NetRegistryConstants DEF Families
    <2>2. PICK e \in Accepted["asn"] : e = netreg["asn"]
      BY <2>1 DEF NetRegInv
    <2>3. Bases(res) = LookupASN(e, res.num)
      BY <1>4, <2>2 DEF Bases
    <2>4. PICK n : SortedRanges(e, n)
      BY RangesSorted
    <2>5. CASE LookupASN(e, res.num) = <<>>
      BY <1>2, <2>3, <2>5
    <2>6. ASSUME NEW i \in 1 .. n, Covers(e[i].key, res.num),
                 LookupASN(e, res.num) = e[i].bases
          PROVE  Bases(res) \in Seq(HoldersOf[res])
      <3>1. i \in DOMAIN e /\ WellFormed("asn", e[i])
        BY <2>4 DEF SortedRanges
      <3>2. ToSet(e[i].bases) \subseteq Holders(res, e)
        BY <1>4, <2>6, <3>1 DEF Holders
      <3> QED  BY <1>3, <2>1, <2>3, <2>6, <3>1, <3>2
    <2> QED  BY <2>1, <2>4, <2>5, <2>6, LookupASNCovers
  <1>5. CASE res.kind # "asn"
    <2>1. res.family \in {"v4", "v6"} /\ res.family \in Families
      BY <1>5, NetLookupConstants DEF Families
    <2>2. PICK f \in {"v4", "v6"} : f = res.family
      BY <2>1
    <2>3. PICK e \in Accepted[f] : e = netreg[f]
      BY <2>1, <2>2 DEF NetRegInv
    <2>4. Bases(res) = LookupIP(e, res.num)
      BY <1>5, <2>2, <2>3 DEF Bases
    <2> DEFINE covering == {i \in DOMAIN e : InPrefix(e[i].key, res.num)}
               longest == {i \in covering :
                               \A j \in covering : e[j].key.ones <= e[i].key.ones}
    <2>5. CASE covering = {}
      <3>1. LookupIP(e, res.num) = <<>>
        BY <2>5, PrefixFound
      <3> QED  BY <1>2, <2>4, <3>1
    <2>6. CASE covering # {}
      <3>1. PICK w : w = Min(longest)
        OBVIOUS
      <3>2. w \in longest /\ LookupIP(e, res.num) = e[w].bases
        BY <2>6, <3>1, PrefixFound
      <3>3. WellFormed(f, e[w])
        BY <3>2, PrefixesTyped
      <3>4. Holders(res, e) = UNION {ToSet(e[i].bases) : i \in longest}
        BY <1>5 DEF Holders
      <3>5. ToSet(e[w].bases) \subseteq Holders(res, e)
        <4> HIDE DEF longest
        <4> QED  BY <3>2, <3>4
      <3> QED  BY <1>3, <2>1, <2>2, <2>4, <3>2, <3>3, <3>5
    <2> QED  BY <2>5, <2>6
  <1> QED  BY <1>4, <1>5

NetHeld == CallsHeld /\ CacheHeld

LEMMA NoCallHeld == CallHeld(NoCall)
  <1>1. PICK q \in Requests : q = CHOOSE r \in Requests : TRUE
    BY NetLookupConstants
  <1>2. <<>> \in Seq(HoldersOf[q.res])
    OBVIOUS
  <1> QED  BY <1>1, <1>2 DEF CallHeld, NoCall, Call

LEMMA NetHeldInit == NetLookupInit => NetHeld
  <1> SUFFICES ASSUME NetLookupInit PROVE NetHeld
    OBVIOUS
  <1>1. CallsHeld
    BY NoCallHeld DEF NetLookupInit, CallsHeld
  <1>2. CacheHeld
    BY DEF NetLookupInit, CacheHeld
  <1> QED  BY <1>1, <1>2 DEF NetHeld

\* One caller goes on, the others stay where they are.
LEMMA OneCallHeld ==
    ASSUME CallsHeld, NEW c \in Callers, NEW q, CallHeld(q), call' = [call EXCEPT ![c] = q]
    PROVE  CallsHeld'
  <1>1. call' = [w \in Callers |-> IF w = c THEN q ELSE call[w]]
    BY DEF CallsHeld
  <1>2. \A w \in Callers : CallHeld(call'[w])
    BY <1>1 DEF CallsHeld
  <1> QED  BY <1>1, <1>2 DEF CallsHeld, CallHeld, HeldUnder

\* A flight lands: everybody in it asked under the leader's key.
LEMMA LandedHeld ==
    ASSUME CallsHeld, NEW c \in Callers, NEW stage, NEW answer,
           stage = "done" => HeldUnder(Key(c), answer),
           Land(c, stage, answer)
    PROVE  CallsHeld'
  <1>1. call' = [w \in Callers |->
            IF w \notin Flight(c) THEN call[w] ELSE Call(stage, call[w].req, <<>>, 0, answer)]
    BY DEF Land
  <1>2. ASSUME NEW w \in Callers
        PROVE  CallHeld(call'[w])
    <2>1. CASE w \notin Flight(c)
      BY <1>1, <2>1 DEF CallsHeld
    <2>2. CASE w \in Flight(c)
      <3>1. KeyOf(call[w].req) = Key(c)
        BY <2>2 DEF Flight, Key
      <3>2. call'[w] = Call(stage, call[w].req, <<>>, 0, answer)
        BY <1>1, <2>2
      <3>3. call[w].req \in Requests
        BY DEF CallsHeld, CallHeld
      <3>4. <<>> \in Seq(HoldersOf[call[w].req.res])
        OBVIOUS
      <3> QED  BY <3>1, <3>2, <3>3, <3>4 DEF CallHeld, Call
    <2> QED  BY <2>1, <2>2
  <1> QED  BY <1>1, <1>2 DEF CallsHeld, CallHeld, HeldUnder

LEMMA FailHeld ==
    ASSUME NetHeld, NEW c \in Callers, Fail(c)
    PROVE  NetHeld'
  <1>1. CallsHeld'
    BY LandedHeld DEF Fail, NetHeld
  <1>2. CacheHeld'
    BY DEF Fail, NetHeld, CacheHeld, HeldUnder
  <1> QED  BY <1>1, <1>2 DEF NetHeld

\* Going on to another stage, with the same bases to ask.
LEMMA GotoHeld ==
    ASSUME CallsHeld, NEW c \in Callers, NEW stage, stage # "done", Goto(c, stage)
    PROVE  CallsHeld'
  <1>1. PICK q : q = Call(stage, call[c].req, call[c].left, call[c].age, call[c].answer)
    OBVIOUS
  <1>2. CallHeld(q)
    BY <1>1 DEF CallsHeld, CallHeld, Call
  <1>3. call' = [call EXCEPT ![c] = q]
    BY <1>1 DEF Goto
  <1> QED  BY <1>2, <1>3, OneCallHeld

LEMMA CacheKept ==
    ASSUME CacheHeld, stored' = stored
    PROVE  CacheHeld'
  BY DEF CacheHeld, HeldUnder

\* The base at the head of the list holds what was typed, whatever else shares the key.
LEMMA HeadHeld ==
    ASSUME CallsHeld, NEW c \in Callers, Asking(c)
    PROVE  /\ Key(c) \in Keys
           /\ HeldUnder(Key(c), call[c].left[1])
           /\ Tail(call[c].left) \in Seq(HoldersOf[Res(c)])
  <1>1. call[c].req \in Requests /\ call[c].left \in Seq(HoldersOf[Res(c)])
    BY DEF CallsHeld, CallHeld, Res
  <1>2. PICK S, s : S = HoldersOf[Res(c)] /\ s = call[c].left
    OBVIOUS
  <1>3. s \in Seq(S) /\ s # <<>>
    BY <1>1, <1>2 DEF Asking
  <1>4. s[1] \in S /\ Tail(s) \in Seq(S)
    BY <1>3
  <1> QED  BY <1>1, <1>2, <1>4 DEF Keys, Key, HeldUnder, Res

LEMMA AnsweredHeld ==
    ASSUME NetHeld, NEW c \in Callers, Answered(c)
    PROVE  NetHeld'
  <1>1. Key(c) \in Keys /\ HeldUnder(Key(c), call[c].left[1])
    BY HeadHeld DEF NetHeld, Answered
  <1>2. CallsHeld'
    BY <1>1, LandedHeld DEF NetHeld, Answered
  <1>3. PICK e : /\ stored' = [stored EXCEPT ![Key(c)] = e]
                 /\ e.base = call[c].left[1]
    <2> DEFINE raw == [base |-> call[c].left[1], age |-> 0, ttl |-> TTLRaw]
               report == [base |-> call[c].left[1], age |-> call[c].age, ttl |-> TTLNet]
               entry == IF call[c].req.want = "raw" THEN raw ELSE report
    <2>1. stored' = [stored EXCEPT ![Key(c)] = entry]
      BY DEF Answered, StoreAnswer
    <2>2. entry.base = call[c].left[1]
      OBVIOUS
    <2> QED  BY <2>1, <2>2
  <1>4. stored' = [k \in Keys |-> IF k = Key(c) THEN e ELSE stored[k]]
    BY <1>3 DEF NetHeld, CacheHeld
  <1>5. \A k \in Keys : stored'[k] = NoEntry \/ HeldUnder(k, stored'[k].base)
    BY <1>1, <1>3, <1>4 DEF NetHeld, CacheHeld
  <1>6. CacheHeld'
    BY <1>4, <1>5 DEF CacheHeld, HeldUnder
  <1> QED  BY <1>2, <1>6 DEF NetHeld

LEMMA TickHeld ==
    ASSUME NetHeld, NetTick
    PROVE  NetHeld'
  <1>1. stored' = [k \in Keys |-> Older(stored[k])]
    BY DEF NetTick
  <1>2. ASSUME NEW k \in Keys
        PROVE  stored'[k] = NoEntry \/ HeldUnder(k, stored'[k].base)
    BY <1>1 DEF NetHeld, CacheHeld, Older
  <1>3. CacheHeld'
    BY <1>1, <1>2 DEF CacheHeld, HeldUnder
  <1>4. call' = [c \in Callers |->
            IF Querying(c)
            THEN Call(call[c].stage, call[c].req, call[c].left, call[c].age + 1, call[c].answer)
            ELSE call[c]]
    BY DEF NetTick
  <1>5. ASSUME NEW c \in Callers
        PROVE  CallHeld(call'[c])
    BY <1>4 DEF NetHeld, CallsHeld, CallHeld, Call
  <1>6. CallsHeld'
    BY <1>4, <1>5 DEF CallsHeld, CallHeld, HeldUnder
  <1> QED  BY <1>3, <1>6 DEF NetHeld

LEMMA NetHeldStep ==
    ASSUME NetRegInv, NetHeld, [NetNext]_netVars
    PROVE  NetHeld'
  <1> USE DEF NetHeld
  <1>1. CASE UNCHANGED lookupVars
    BY <1>1, CacheKept DEF lookupVars, CallsHeld, CallHeld, HeldUnder
  <1>2. ASSUME NEW c \in Callers, NEW q \in Requests, Ask(c, q)
        PROVE  NetHeld'
    <2>1. PICK x : x = Call("check", q, <<>>, 0, NoAnswer)
      OBVIOUS
    <2>2. <<>> \in Seq(HoldersOf[q.res])
      OBVIOUS
    <2>3. CallHeld(x)
      BY <2>1, <2>2 DEF CallHeld, Call
    <2>4. call' = [call EXCEPT ![c] = x] /\ stored' = stored
      BY <1>2, <2>1 DEF Ask
    <2> QED  BY <2>3, <2>4, OneCallHeld, CacheKept
  <1>3. ASSUME NEW c \in Callers, CheckHit(c)
        PROVE  NetHeld'
    <2>1. PICK x : x = Call("done", call[c].req, call[c].left, call[c].age, stored[Key(c)].base)
      OBVIOUS
    <2>2. call[c].req \in Requests /\ Key(c) \in Keys
      BY DEF CallsHeld, CallHeld, Keys, Key
    <2>3. HeldUnder(Key(c), stored[Key(c)].base)
      BY <1>3, <2>2 DEF CheckHit, Tolerable, CacheHeld
    <2>4. CallHeld(x)
      BY <2>1, <2>3 DEF CallsHeld, CallHeld, Call, Key
    <2>5. call' = [call EXCEPT ![c] = x] /\ stored' = stored
      BY <1>3, <2>1 DEF CheckHit
    <2> QED  BY <2>4, <2>5, OneCallHeld, CacheKept
  <1>4. ASSUME NEW c \in Callers, CheckMiss(c) \/ Lead(c) \/ Join(c)
        PROVE  NetHeld'
    <2>1. PICK stage \in {"query", "fly", "wait"} : Goto(c, stage)
      BY <1>4 DEF CheckMiss, Lead, Join
    <2>2. stored' = stored
      BY <1>4 DEF CheckMiss, Lead, Join
    <2>3. stage # "done"
      BY <2>1
    <2> QED  BY <2>1, <2>2, <2>3, GotoHeld, CacheKept
  <1>5. ASSUME NEW c \in Callers,
               Unclaimed(c) \/ BaseCancelled(c) \/ BasesExhausted(c) \/ AnswerUseless(c)
        PROVE  NetHeld'
    <2>1. Fail(c)
      BY <1>5 DEF Unclaimed, BaseCancelled, BasesExhausted, AnswerUseless
    <2> QED  BY <2>1, FailHeld
  <1>6. ASSUME NEW c \in Callers, Claimed(c)
        PROVE  NetHeld'
    <2>1. PICK x : x = Call("ask", call[c].req, Bases(Res(c)), call[c].age, call[c].answer)
      OBVIOUS
    <2>2. PICK q \in Requests : q = call[c].req
      BY DEF CallsHeld, CallHeld
    <2>3. Bases(q.res) \in Seq(HoldersOf[q.res])
      BY <1>6, <2>2, BasesHeld DEF Claimed, Res
    <2>4. CallHeld(x)
      BY <2>1, <2>2, <2>3 DEF CallHeld, Call, Res
    <2>5. call' = [call EXCEPT ![c] = x] /\ stored' = stored
      BY <1>6, <2>1 DEF Claimed
    <2> QED  BY <2>4, <2>5, OneCallHeld, CacheKept
  <1>7. ASSUME NEW c \in Callers, BaseSkipped(c) \/ BaseFailed(c)
        PROVE  NetHeld'
    <2>1. Asking(c) /\ NextBase(c)
      BY <1>7 DEF BaseSkipped, BaseFailed
    <2>2. PICK x : x = Call("ask", call[c].req, Tail(call[c].left), call[c].age, call[c].answer)
      OBVIOUS
    <2>3. call[c].req \in Requests /\ Tail(call[c].left) \in Seq(HoldersOf[Res(c)])
      BY <2>1, HeadHeld DEF CallsHeld, CallHeld
    <2>4. CallHeld(x)
      BY <2>2, <2>3 DEF CallHeld, Call, Res
    <2>5. call' = [call EXCEPT ![c] = x] /\ stored' = stored
      BY <2>1, <2>2 DEF NextBase
    <2> QED  BY <2>4, <2>5, OneCallHeld, CacheKept
  <1>8. ASSUME NEW c \in Callers, Answered(c)
        PROVE  NetHeld'
    BY <1>8, AnsweredHeld
  <1>9. ASSUME NEW c \in Callers, CancelCaller(c)
        PROVE  NetHeld'
    BY <1>9, CacheKept DEF CancelCaller, CallsHeld, CallHeld, HeldUnder
  <1>10. ASSUME NEW c \in Callers, Leave(c)
         PROVE  NetHeld'
    BY <1>10, NoCallHeld, OneCallHeld, CacheKept DEF Leave
  <1>11. CASE NetTick
    BY <1>11, TickHeld
  <1>12. UNCHANGED netVars => UNCHANGED lookupVars
    BY DEF netVars
  <1> QED  BY <1>1, <1>2, <1>3, <1>4, <1>5, <1>6, <1>7, <1>8, <1>9, <1>10, <1>11, <1>12
           DEF NetNext, Proceed

(* Whatever IANA publishes and however a refresh, the flights and the      *)
(* cache interleave with a lookup, QueryResource asks only bases that hold *)
(* what the caller typed according to one published document, and an       *)
(* answer comes from such a base of a resource with the same name.         *)
THEOREM OnlyHoldersAnswer == NetSpec => []AnsweredByHolder
  <1>1. NetSpec => []NetHeld
    <2>1. NetInit => NetHeld
      BY NetHeldInit DEF NetInit
    <2>2. NetRegInv /\ NetHeld /\ [NetNext]_netVars => NetHeld'
      BY NetHeldStep
    <2> QED  BY <2>1, <2>2, NetRegistryInvariant, PTL DEF NetSpec
  <1>2. NetHeld => AnsweredByHolder
    <2> SUFFICES ASSUME NetHeld, NEW c \in Callers
                 PROVE  /\ ToSet(call[c].left) \subseteq HoldersOf[Res(c)]
                        /\ At(c, "done") =>
                               \E res \in DOMAIN HoldersOf :
                                   /\ String(res) = String(Res(c))
                                   /\ call[c].answer \in HoldersOf[res]
      BY DEF AnsweredByHolder
    <2>1. CallHeld(call[c])
      BY DEF NetHeld, CallsHeld
    <2>2. ToSet(call[c].left) \subseteq HoldersOf[Res(c)]
      <3>1. PICK S, s : S = HoldersOf[Res(c)] /\ s = call[c].left
        OBVIOUS
      <3>2. s \in Seq(S)
        BY <2>1, <3>1 DEF CallHeld, Res
      <3>3. ToSet(s) \subseteq S
        BY <3>2 DEF ToSet
      <3> QED  BY <3>1, <3>3
    <2>3. ASSUME At(c, "done")
          PROVE  \E res \in DOMAIN HoldersOf :
                     String(res) = String(Res(c)) /\ call[c].answer \in HoldersOf[res]
      <3>1. PICK q \in Requests : /\ KeyOf(q) = KeyOf(call[c].req)
                                  /\ call[c].answer \in HoldersOf[q.res]
        BY <2>1, <2>3 DEF CallHeld, HeldUnder, At
      <3>2. String(q.res) = String(Res(c))
        BY <3>1 DEF KeyOf, Res
      <3>3. q.res \in DOMAIN HoldersOf
        BY DEF HoldersOf
      <3> QED  BY <3>1, <3>2, <3>3
    <2> QED  BY <2>2, <2>3
  <1> QED  BY <1>1, <1>2, PTL
=============================================================================
