------------------------------ MODULE ServerProofs ------------------------------
(***************************************************************************)
(* Whom the process lets in: what Server promises for every set of keys,   *)
(* tokens, grants and configurations, and every lifetime of a token, and   *)
(* Enrollment for any number of sources and overlapping attempts and any   *)
(* threshold, backoff and window.                                          *)
(*                                                                         *)
(* Which tokens a restart keeps rests on where keys come from: every key   *)
(* that signed a token, and every key an operator made, is among the used  *)
(* ones, and a generated key is not.  The rest of the invariant says which *)
(* settings a process can be running with.                                 *)
(***************************************************************************)
EXTENDS Server, Enrollment, FiniteSetTheorems, TLAPS

\* The settings of the configurations that are accepted.
Setups == {Setup(c) : c \in {d \in Configs : Starts(d)}}

ProcOK ==
    \/ \E c \in Configs : proc = [phase |-> "boot", conf |-> c]
    \/ proc = [phase |-> "refused"]
    \/ \E s \in Setups, p \in {"down", "up"} : proc = [phase |-> p, setup |-> s]

\* The audiences a token may name: the URL of some server that minted.
Audiences == {s.url : s \in Setups} \cup {NoKey}

Minted ==
    [kid : Keys \cup {NoKey}, scopes : Grants \cup {{}}, aud : Audiences,
     left : -1 .. AccessTokenTTL, own : BOOLEAN, under : Keys \cup {NoKey}]

LEMMA MinIsLess ==
    ASSUME NEW a \in Int, NEW b \in Int
    PROVE  Min({a, b}) = IF a <= b THEN a ELSE b
  <1>1. \E x \in {a, b} : \A y \in {a, b} : x =< y
    OBVIOUS
  <1>2. /\ Min({a, b}) \in {a, b}
        /\ \A y \in {a, b} : Min({a, b}) =< y
    BY <1>1 DEF Min
  <1> QED  BY <1>2

LEMMA MaxIsMore ==
    ASSUME NEW a \in Int, NEW b \in Int
    PROVE  Max({a, b}) = IF a >= b THEN a ELSE b
  <1>1. \E x \in {a, b} : \A y \in {a, b} : x >= y
    OBVIOUS
  <1>2. /\ Max({a, b}) \in {a, b}
        /\ \A y \in {a, b} : Max({a, b}) >= y
    BY <1>1 DEF Max
  <1> QED  BY <1>2

(* What requireLoopback lets pass, the kernel serves on loopback only.     *)
LEMMA GateReadsTheKernel ==
    ASSUME NEW host, requireLoopback(host)
    PROVE  Interfaces(host) = {"loopback"}
  <1>1. host \in {"localhost"} \cup LoopbackAddresses
    BY DEF requireLoopback
  <1>2. host \notin {AllInterfaces, "::"}
    BY <1>1 DEF AllInterfaces, LoopbackAddresses
  <1>3. host # Empty
    BY <1>1, StartupAssumption
  <1> QED  BY <1>1, <1>2, <1>3 DEF Interfaces

(* checkExposure and buildAuth: what an accepted configuration amounts to; *)
(* an address the gate lets pass is one the kernel serves on loopback.     *)
LEMMA AcceptedSetup ==
    ASSUME NEW s \in Setups
    PROVE  /\ {s.local, s.auth, s.static} \subseteq BOOLEAN
           /\ ~s.local => s.auth /\ ~s.static
           /\ s.key \in OperatorKeys \cup {Unset}
  <1>1. PICK c \in Configs : Starts(c) /\ s = Setup(c)
    BY DEF Setups
  <1>2. /\ c.enrollment \in BOOLEAN /\ c.devStaticBearer \in BOOLEAN
        /\ c.signingKey \in Keys \cup {Unset, Bad}
    BY ConfigAssumption
  <1> DEFINE l == resolveListen(c)
             h == l.host
  <1>3. checkExposure(h, c) /\ buildAuth(l, c)
    BY <1>1 DEF Starts
  <1>4. /\ s.local = (Interfaces(h) = {"loopback"})
        /\ s.auth = c.enrollment
        /\ s.static = (c.enrollment /\ c.devStaticBearer)
        /\ s.key = IF c.enrollment THEN c.signingKey ELSE Unset
    BY <1>1 DEF Setup
  <1> HIDE DEF l, h
  <1>5. requireLoopback(h) => Interfaces(h) = {"loopback"}
    BY GateReadsTheKernel
  <1>6. s.local \/ (c.enrollment /\ ~c.devStaticBearer)
    BY <1>3, <1>4, <1>5 DEF checkExposure
  <1>7. s.key \in OperatorKeys \cup {Unset}
    BY <1>2, <1>3, <1>4 DEF buildAuth, OperatorKeys
  <1> QED
    BY <1>2, <1>4, <1>6, <1>7

(* The shapes the record of a process can have, by its phase.              *)
LEMMA ProcShape ==
    ASSUME ProcOK
    PROVE  /\ proc.phase \in {"boot", "refused", "down", "up"}
           /\ proc.phase = "boot" =>
                  proc.conf \in Configs /\ proc = [phase |-> "boot", conf |-> proc.conf]
           /\ proc.phase \in {"down", "up"} =>
                  proc.setup \in Setups /\ proc = [phase |-> proc.phase, setup |-> proc.setup]
  BY DEF ProcOK

(* What a process that is set up mints for, and the key it was given.      *)
LEMMA Running ==
    ASSUME ProcOK, proc.phase \in {"down", "up"}
    PROVE  /\ proc.setup.auth \in BOOLEAN
           /\ proc.setup.url \in Audiences
           /\ configured \in OperatorKeys \cup {NoKey}
           /\ configured \in Keys \cup {NoKey}
  <1>1. proc.setup \in Setups
    BY ProcShape
  <1>2. proc.setup.auth \in BOOLEAN /\ proc.setup.key \in OperatorKeys \cup {Unset}
    BY <1>1, AcceptedSetup
  <1> QED  BY <1>1, <1>2 DEF Audiences, configured, OperatorKeys

-----------------------------------------------------------------------------
(* The shapes of the state.                                                *)

KeyringTypeOK ==
    /\ active \in Keys \cup {NoKey}
    /\ used \subseteq Keys
    /\ token \in [Tokens -> Minted]

LEMMA NewKeyringTyped ==
    ASSUME KeyringTypeOK, NEW c, NEW k \in Keys, NewKeyring(c, k)
    PROVE  KeyringTypeOK' /\ active' \in Keys
  <1>1. \A t \in Tokens : [token[t] EXCEPT !.own = FALSE] \in Minted
    BY DEF KeyringTypeOK, Minted
  <1>2. Foreign \in [Tokens -> Minted]
    BY <1>1 DEF Foreign
  <1> QED  BY <1>2 DEF KeyringTypeOK, NewKeyring

\* What Mint issues.
Fresh(k, g, url, c) ==
    [kid |-> k, scopes |-> g, aud |-> url, left |-> AccessTokenTTL, own |-> TRUE, under |-> c]

LEMMA MintTyped ==
    ASSUME KeyringTypeOK, active \in Keys, NEW t \in Tokens, NEW g \in Grants,
           NEW url \in Audiences, NEW c \in Keys \cup {NoKey}, Mint(t, g, url, c)
    PROVE  /\ KeyringTypeOK' /\ active' = active
           /\ token' = [token EXCEPT ![t] = Fresh(active, g, url, c)]
  <1>1. Fresh(active, g, url, c) \in Minted
    BY KeyringAssumption DEF Minted, Fresh
  <1>2. token' = [token EXCEPT ![t] = Fresh(active, g, url, c)]
    BY DEF Mint, Fresh
  <1> QED  BY <1>1, <1>2 DEF KeyringTypeOK, Mint

\* What a tick makes of one token.
Aged(r) == [r EXCEPT !.left = Max({-1, @ - 1})]

LEMMA AgedToken ==
    ASSUME NEW r \in Minted
    PROVE  /\ Aged(r) \in Minted
           /\ Aged(r).kid = r.kid /\ Aged(r).own = r.own /\ Aged(r).aud = r.aud /\ Aged(r).under = r.under
           /\ Aged(r).left >= 0 => r.left >= 0
  <1>1. r.left \in -1 .. AccessTokenTTL /\ AccessTokenTTL \in Nat
    BY KeyringAssumption DEF Minted
  <1>2. Max({-1, r.left - 1}) = IF -1 >= r.left - 1 THEN -1 ELSE r.left - 1
    BY <1>1, MaxIsMore
  <1>3. Max({-1, r.left - 1}) \in -1 .. AccessTokenTTL
    BY <1>1, <1>2
  <1>4. Max({-1, r.left - 1}) >= 0 => r.left >= 0
    BY <1>1, <1>2
  <1> QED  BY <1>3, <1>4 DEF Aged, Minted

LEMMA KeyTickTyped ==
    ASSUME KeyringTypeOK, KeyTick
    PROVE  /\ KeyringTypeOK' /\ active' = active
           /\ token' = [t \in Tokens |-> Aged(token[t])]
  <1>1. \A t \in Tokens : Aged(token[t]) \in Minted
    BY AgedToken DEF KeyringTypeOK
  <1>2. token' = [t \in Tokens |-> Aged(token[t])]
    BY DEF KeyTick, Aged
  <1> HIDE DEF Aged
  <1> QED  BY <1>1, <1>2 DEF KeyringTypeOK, KeyTick

\* While an authenticating server is up its keyring has an active key.
ServerTypeOK ==
    /\ ProcOK
    /\ KeyringTypeOK
    /\ Phase("up") /\ proc.setup.auth => active \in Keys

LEMMA ServerInitTyped == ServerInit => ServerTypeOK
  <1> SUFFICES ASSUME ServerInit PROVE ServerTypeOK
    OBVIOUS
  <1>1. ProcOK /\ ~Phase("up")
    BY DEF ServerInit, ProcOK, Phase
  <1>2. NoToken \in Minted
    BY KeyringAssumption DEF Minted, NoToken, Audiences
  <1>3. KeyringTypeOK
    BY <1>2 DEF ServerInit, KeyringTypeOK, OperatorKeys
  <1> QED  BY <1>1, <1>3 DEF ServerTypeOK

(* The life of the process, and what each step of it leaves alone.         *)
LEMMA ProcessSteps ==
    ASSUME ProcOK
    PROVE  /\ Refuse => proc' = [phase |-> "refused"] /\ UNCHANGED <<reply, keyVars>>
           /\ Accept => /\ Setup(proc.conf) \in Setups /\ proc.phase = "boot"
                        /\ proc' = [phase |-> "down", setup |-> Setup(proc.conf)]
                        /\ UNCHANGED <<reply, keyVars>>
           /\ Listen => /\ proc.phase = "down" /\ proc.setup \in Setups
                        /\ proc' = [phase |-> "up", setup |-> proc.setup]
           /\ Stop => /\ proc.phase = "up" /\ proc.setup \in Setups
                      /\ proc' = [phase |-> "down", setup |-> proc.setup]
                      /\ UNCHANGED keyVars
  <1>1. ASSUME Accept
        PROVE  Setup(proc.conf) \in Setups
    <2>1. proc.conf \in Configs /\ Starts(proc.conf)
      BY <1>1, ProcShape DEF Accept, Phase
    <2> QED  BY <2>1 DEF Setups
  <1>2. ASSUME Listen
        PROVE  /\ proc.phase = "down" /\ proc.setup \in Setups
               /\ proc' = [phase |-> "up", setup |-> proc.setup]
    <2>1. proc.setup \in Setups /\ proc = [phase |-> "down", setup |-> proc.setup]
      BY <1>2, ProcShape DEF Listen, Phase
    <2> QED  BY <1>2, <2>1 DEF Listen, Phase
  <1>3. ASSUME Stop
        PROVE  /\ proc.phase = "up" /\ proc.setup \in Setups
               /\ proc' = [phase |-> "down", setup |-> proc.setup]
    <2>1. proc.setup \in Setups /\ proc = [phase |-> "up", setup |-> proc.setup]
      BY <1>3, ProcShape DEF Stop, Phase
    <2> QED  BY <1>3, <2>1 DEF Stop, Phase
  <1> QED  BY <1>1, <1>2, <1>3 DEF Refuse, Accept, Stop, Phase

LEMMA ServerStepTyped == ServerTypeOK /\ [ServerNext]_serverVars => ServerTypeOK'
  <1> SUFFICES ASSUME ServerTypeOK, [ServerNext]_serverVars PROVE ServerTypeOK'
    OBVIOUS
  <1>0. /\ ProcOK /\ KeyringTypeOK
        /\ Phase("up") /\ proc.setup.auth => active \in Keys
    BY DEF ServerTypeOK
  <1> USE <1>0
  <1>1. CASE Refuse
    <2>1. proc' = [phase |-> "refused"] /\ UNCHANGED keyVars
      BY <1>1, ProcessSteps
    <2> QED  BY <2>1 DEF ServerTypeOK, ProcOK, KeyringTypeOK, keyVars, Phase
  <1>2. CASE Accept
    <2>1. /\ Setup(proc.conf) \in Setups /\ UNCHANGED keyVars
          /\ proc' = [phase |-> "down", setup |-> Setup(proc.conf)]
      BY <1>2, ProcessSteps
    <2>2. ProcOK' /\ ~Phase("up")'
      BY <2>1 DEF ProcOK, Phase
    <2> QED  BY <2>1, <2>2 DEF ServerTypeOK, KeyringTypeOK, keyVars
  <1>3. CASE Listen
    <2>1. proc.setup \in Setups /\ proc' = [phase |-> "up", setup |-> proc.setup]
      BY <1>3, ProcessSteps
    <2>2. ProcOK' /\ proc'.setup = proc.setup
      BY <2>1 DEF ProcOK
    <2>3. CASE proc.setup.auth
      <3>1. PICK k \in Keys : NewKeyring(configured, k)
        BY <1>3, <2>3 DEF Listen
      <3>2. KeyringTypeOK' /\ active' \in Keys
        BY <3>1, NewKeyringTyped
      <3> QED  BY <2>2, <3>2 DEF ServerTypeOK
    <2>4. CASE ~proc.setup.auth
      <3>1. UNCHANGED keyVars
        BY <1>3, <2>4 DEF Listen
      <3>2. KeyringTypeOK'
        BY <3>1 DEF keyVars, KeyringTypeOK
      <3> QED  BY <2>2, <2>4, <3>2 DEF ServerTypeOK
    <2> QED  BY <2>3, <2>4
  <1>4. CASE Stop
    <2>1. /\ proc.setup \in Setups /\ UNCHANGED keyVars
          /\ proc' = [phase |-> "down", setup |-> proc.setup]
      BY <1>4, ProcessSteps
    <2>2. ProcOK' /\ ~Phase("up")'
      BY <2>1 DEF ProcOK, Phase
    <2> QED  BY <2>1, <2>2 DEF ServerTypeOK, KeyringTypeOK, keyVars
  <1>5. ASSUME NEW c \in Reconfigs, Reconfigure(c)
        PROVE  ServerTypeOK'
    <2>1. c \in Configs
      BY ConfigAssumption
    <2>2. proc' = [phase |-> "boot", conf |-> c] /\ UNCHANGED keyVars
      BY <1>5 DEF Reconfigure
    <2>3. ProcOK' /\ ~Phase("up")'
      BY <2>1, <2>2 DEF ProcOK, Phase
    <2> QED  BY <2>2, <2>3 DEF ServerTypeOK, KeyringTypeOK, keyVars
  <1>6. ASSUME NEW b \in Bodies, NEW c \in Credentials, ServeMCP(b, c)
        PROVE  ServerTypeOK'
    <2>1. UNCHANGED <<proc, keyVars>>
      BY <1>6 DEF ServeMCP
    <2> QED  BY <2>1 DEF ServerTypeOK, ProcOK, KeyringTypeOK, keyVars, Phase
  <1>7. ASSUME UNCHANGED proc, KeyringTypeOK', active' = active
        PROVE  ServerTypeOK'
    BY <1>7 DEF ServerTypeOK, ProcOK, Phase
  <1>8. ASSUME NEW t \in Tokens, NEW g \in Grants, ServeToken(t, g)
        PROVE  ServerTypeOK'
    <2>1. active \in Keys /\ UNCHANGED proc /\ Mint(t, g, proc.setup.url, configured)
      BY <1>8 DEF ServeToken
    <2>2. proc.setup.url \in Audiences /\ configured \in Keys \cup {NoKey}
      BY <1>8, Running DEF ServeToken, Phase
    <2> QED  BY <2>1, <2>2, <1>7, MintTyped
  <1>9. CASE ServerTick
    BY <1>9, <1>7, KeyTickTyped DEF ServerTick
  <1>10. CASE UNCHANGED serverVars
    BY <1>10 DEF serverVars, keyVars, ServerTypeOK, ProcOK, KeyringTypeOK, Phase
  <1> QED
    BY <1>1, <1>2, <1>3, <1>4, <1>5, <1>6, <1>8, <1>9, <1>10 DEF ServerNext

(* Type correctness, and which settings a process runs with: those of a    *)
(* configuration that passed every early return of run.                    *)
THEOREM ServerTypeCorrect == ServerSpec => []ServerTypeOK
  BY ServerInitTyped, ServerStepTyped, PTL DEF ServerSpec

-----------------------------------------------------------------------------
(* Tokens and the keys that signed them.                                   *)

\* Signed with the key its process was configured with, or with a generated one.
Signed(t) ==
    IF token[t].under = NoKey THEN token[t].kid \in used \ OperatorKeys
    ELSE token[t].kid = token[t].under /\ token[t].under \in OperatorKeys

KeysUsed ==
    /\ OperatorKeys \subseteq used
    /\ \A t \in Tokens : token[t].left >= 0 => Signed(t)

\* The key in force is the configured one, or generated; a token names it and
\* the URL if this process minted it, and no other generated key is the same.
InForce(t) ==
    IF token[t].own THEN token[t].kid = active /\ token[t].aud = proc.setup.url
    ELSE token[t].under = NoKey => token[t].kid # active

KeysInForce ==
    Phase("up") /\ proc.setup.auth =>
        /\ IF configured = NoKey THEN active \in used \ OperatorKeys ELSE active = configured
        /\ \A t \in Tokens : token[t].left >= 0 => InForce(t)

KeysInv == KeysUsed /\ KeysInForce

LEMMA KeysInitially == ServerInit => KeysInv
  BY DEF ServerInit, KeysInv, KeysUsed, KeysInForce, Phase, NoToken

(* A process that starts finds only tokens of others, and its key, if it   *)
(* generates one, has signed none of them.                                 *)
LEMMA ListenKeepsKeys ==
    ASSUME ServerTypeOK, KeysInv, Listen
    PROVE  KeysInv'
  <1>0. ProcOK /\ KeyringTypeOK
    BY DEF ServerTypeOK
  <1>1. proc' = [phase |-> "up", setup |-> proc.setup] /\ proc.phase = "down"
    BY <1>0, ProcessSteps
  <1>2. proc'.setup = proc.setup /\ configured' = configured
    BY <1>1 DEF configured
  <1>3. proc.setup.auth \in BOOLEAN /\ configured \in OperatorKeys \cup {NoKey}
    BY <1>0, <1>1, Running
  <1>4. CASE ~proc.setup.auth
    <2>1. UNCHANGED keyVars
      BY <1>4 DEF Listen
    <2>2. KeysUsed'
      BY <2>1 DEF KeysInv, KeysUsed, Signed, keyVars
    <2> QED  BY <1>2, <1>4, <2>2 DEF KeysInv, KeysInForce
  <1>5. CASE proc.setup.auth
    <2>1. PICK k \in Keys : NewKeyring(configured, k)
      BY <1>5 DEF Listen
    <2>2. /\ active' = k /\ used' = used \cup {k}
          /\ k \in (IF configured = NoKey THEN Keys \ used ELSE {configured})
      BY <2>1 DEF NewKeyring
    <2>3. ASSUME NEW t \in Tokens
          PROVE  /\ ~token'[t].own /\ token'[t].kid = token[t].kid
                 /\ token'[t].under = token[t].under /\ token'[t].left = token[t].left
      <3>1. token[t] \in Minted
        BY <1>0 DEF KeyringTypeOK
      <3>2. token'[t] = [token[t] EXCEPT !.own = FALSE]
        BY <2>1 DEF NewKeyring, Foreign
      <3> QED  BY <3>1, <3>2 DEF Minted
    <2>4. OperatorKeys \subseteq used
      BY DEF KeysInv, KeysUsed
    <2>5. \A t \in Tokens : token[t].left >= 0 => Signed(t)
      BY DEF KeysInv, KeysUsed
    <2>6. KeysUsed'
      BY <2>2, <2>3, <2>4, <2>5 DEF KeysUsed, Signed
    <2>7. IF configured = NoKey THEN k \in used' \ OperatorKeys ELSE k = configured
      BY <2>2, <2>4
    <2>8. ASSUME NEW t \in Tokens, token'[t].left >= 0
          PROVE  InForce(t)'
      <3>1. token[t].under = NoKey => token[t].kid \in used \ OperatorKeys
        BY <2>3, <2>5, <2>8 DEF Signed
      <3>2. token[t].under = NoKey => token[t].kid # k
        BY <1>3, <2>2, <3>1
      <3> QED  BY <2>2, <2>3, <3>2 DEF InForce
    <2> QED  BY <1>2, <2>2, <2>6, <2>7, <2>8 DEF KeysInv, KeysInForce
  <1> QED  BY <1>3, <1>4, <1>5

LEMMA MintKeepsKeys ==
    ASSUME ServerTypeOK, KeysInv, NEW u \in Tokens, NEW g \in Grants, ServeToken(u, g)
    PROVE  KeysInv'
  <1> DEFINE new == Fresh(active, g, proc.setup.url, configured)
  <1>0. ProcOK /\ KeyringTypeOK /\ Phase("up") /\ proc.setup.auth /\ active \in Keys
    BY DEF ServerTypeOK, ServeToken
  <1>1. proc' = proc /\ UNCHANGED <<active, used>> /\ Mint(u, g, proc.setup.url, configured)
    BY DEF ServeToken, Mint
  <1>2. token' = [token EXCEPT ![u] = new]
    BY <1>0, <1>1, Running, MintTyped DEF Phase
  <1>3. \A t \in Tokens : token'[t] = IF t = u THEN new ELSE token[t]
    BY <1>0, <1>2 DEF KeyringTypeOK
  <1>4. new.kid = active /\ new.aud = proc.setup.url /\ new.own /\ new.under = configured
    BY DEF Fresh
  <1>5. configured' = configured /\ configured \in OperatorKeys \cup {NoKey}
    BY <1>0, <1>1, Running DEF configured, Phase
  <1>6. /\ IF configured = NoKey THEN active \in used \ OperatorKeys ELSE active = configured
        /\ OperatorKeys \subseteq used
        /\ \A t \in Tokens : token[t].left >= 0 => Signed(t) /\ InForce(t)
    BY <1>0 DEF KeysInv, KeysUsed, KeysInForce
  <1> HIDE DEF new
  <1>7. ASSUME NEW t \in Tokens, token'[t].left >= 0
        PROVE  Signed(t)' /\ InForce(t)'
    <2>1. CASE t = u
      <3>1. token'[t].kid = active /\ token'[t].aud = proc.setup.url /\ token'[t].own
            /\ token'[t].under = configured
        BY <1>3, <1>4, <2>1
      <3>2. Signed(t)'
        BY <1>1, <1>5, <1>6, <3>1 DEF Signed
      <3> QED  BY <1>1, <3>1, <3>2 DEF InForce
    <2>2. CASE t # u
      <3>1. token'[t] = token[t]
        BY <1>3, <2>2
      <3>2. Signed(t) /\ InForce(t)
        BY <1>6, <1>7, <3>1
      <3> QED  BY <1>1, <3>1, <3>2 DEF Signed, InForce
    <2> QED  BY <2>1, <2>2
  <1> QED  BY <1>1, <1>5, <1>6, <1>7 DEF KeysInv, KeysUsed, KeysInForce

LEMMA TickKeepsKeys ==
    ASSUME ServerTypeOK, KeysInv, ServerTick
    PROVE  KeysInv'
  <1>0. ProcOK /\ KeyringTypeOK
    BY DEF ServerTypeOK
  <1>1. proc' = proc /\ UNCHANGED <<active, used>> /\ token' = [t \in Tokens |-> Aged(token[t])]
    BY <1>0, KeyTickTyped DEF ServerTick, KeyTick
  <1>2. ASSUME NEW t \in Tokens
        PROVE  /\ token'[t].kid = token[t].kid /\ token'[t].own = token[t].own
               /\ token'[t].aud = token[t].aud /\ token'[t].under = token[t].under
               /\ token'[t].left >= 0 => token[t].left >= 0
    <2>1. token[t] \in Minted /\ token'[t] = Aged(token[t])
      BY <1>0, <1>1 DEF KeyringTypeOK
    <2> QED  BY <2>1, AgedToken
  <1>3. configured' = configured /\ (Phase("up")' <=> Phase("up"))
    BY <1>1 DEF configured, Phase
  <1>4. KeysUsed'
    BY <1>1, <1>2 DEF KeysInv, KeysUsed, Signed
  <1>5. KeysInForce'
    BY <1>1, <1>2, <1>3 DEF KeysInv, KeysInForce, InForce
  <1> QED  BY <1>4, <1>5 DEF KeysInv

LEMMA KeysStep ==
    ServerTypeOK /\ KeysInv /\ [ServerNext]_serverVars => KeysInv'
  <1> SUFFICES ASSUME ServerTypeOK, KeysInv, [ServerNext]_serverVars PROVE KeysInv'
    OBVIOUS
  <1>0. ProcOK
    BY DEF ServerTypeOK
  <1>1. ASSUME UNCHANGED keyVars, ~Phase("up")'
        PROVE  KeysInv'
    <2>1. KeysUsed'
      BY <1>1 DEF KeysInv, KeysUsed, Signed, keyVars
    <2> QED  BY <1>1, <2>1 DEF KeysInv, KeysInForce
  <1>2. CASE Refuse \/ Accept \/ Stop \/ \E c \in Reconfigs : Reconfigure(c)
    <2>1. UNCHANGED keyVars /\ ~Phase("up")'
      BY <1>0, <1>2, ProcessSteps DEF Reconfigure, Phase
    <2> QED  BY <1>1, <2>1
  <1>3. ASSUME UNCHANGED <<proc, keyVars>>
        PROVE  KeysInv'
    BY <1>3 DEF KeysInv, KeysUsed, KeysInForce, Signed, InForce, configured, keyVars, Phase
  <1>4. ASSUME NEW b \in Bodies, NEW c \in Credentials, ServeMCP(b, c)
        PROVE  KeysInv'
    BY <1>3, <1>4 DEF ServeMCP
  <1>5. CASE UNCHANGED serverVars
    BY <1>3, <1>5 DEF serverVars
  <1> QED
    BY <1>2, <1>4, <1>5, ListenKeepsKeys, MintKeepsKeys, TickKeepsKeys DEF ServerNext

(* Across restarts and changes of configuration, a live token is accepted  *)
(* exactly if the running process minted it, or one that was configured    *)
(* with the same signing key and URL (buildKeyring).                       *)
THEOREM TokensAlwaysFollowKey == ServerSpec => []TokensFollowKey
  <1>1. KeysInv => TokensFollowKey
    <2> SUFFICES ASSUME KeysInv, Phase("up"), proc.setup.auth,
                        NEW t \in Tokens, token[t].left >= 0
                 PROVE  Verify(t, proc.setup.url) <=>
                            \/ token[t].own
                            \/ /\ token[t].under = configured /\ configured # NoKey
                               /\ token[t].aud = proc.setup.url
      BY DEF TokensFollowKey
    <2>1. /\ IF configured = NoKey THEN active \in used \ OperatorKeys ELSE active = configured
          /\ Signed(t) /\ InForce(t)
      BY DEF KeysInv, KeysUsed, KeysInForce
    <2>2. CASE token[t].own
      BY <2>1, <2>2 DEF Verify, InForce
    <2>3. CASE ~token[t].own /\ token[t].under = NoKey
      BY <2>1, <2>3 DEF Verify, InForce
    <2>4. CASE ~token[t].own /\ token[t].under # NoKey
      <3>1. token[t].kid = token[t].under /\ token[t].under \in OperatorKeys
        BY <2>1, <2>4 DEF Signed
      <3>2. token[t].kid = active <=> token[t].under = configured /\ configured # NoKey
        BY <2>1, <2>4, <3>1
      <3> QED  BY <2>4, <3>2 DEF Verify
    <2> QED  BY <2>2, <2>3, <2>4
  <1> QED  BY <1>1, KeysInitially, KeysStep, ServerTypeCorrect, PTL DEF ServerSpec

-----------------------------------------------------------------------------
(* Requests: scopes, and whom a socket on the network answers.             *)

\* The scope a tool needs, by the table of the gate.
Needs(n) == IF n \in DOMAIN PrivilegedTools THEN PrivilegedTools[n] ELSE "read"

(* What the gate asks for, the handler asks for too.                       *)
LEMMA HandlersAgree ==
    ASSUME NEW n, NEW scopes, ScopeHeld(n, scopes, TRUE), "read" \in scopes
    PROVE  Needs(n) \in scopes
  BY DEF Needs, ScopeHeld, PrivilegedTools, HandlerScopes

LEMMA HoldingAllPasses ==
    ASSUME NEW body
    PROVE  MinimumScopes \subseteq AllScopes /\ ScopeGate(body, AllScopes)
  BY DEF MinimumScopes, AllScopes, ScopeGate, PrivilegedTools

LEMMA ProtectedAnswer ==
    ASSUME NEW body, NEW scopes
    PROVE  /\ \A n \in ServeProtected(body, scopes).ran : Needs(n) \in scopes
           /\ ServeProtected(body, scopes).status = 403 => scopes # AllScopes
  <1> DEFINE passes == MinimumScopes \subseteq scopes /\ ScopeGate(body, scopes)
             handled == Handled(Buffered(body), scopes, TRUE)
  <1>1. CASE ~passes
    <2>1. ServeProtected(body, scopes) = Forbidden
      BY <1>1 DEF ServeProtected
    <2> QED  BY <1>1, <2>1, HoldingAllPasses DEF Forbidden
  <1>2. CASE passes
    <2>1. ServeProtected(body, scopes) = Done(handled)
      BY <1>2 DEF ServeProtected
    <2>2. "read" \in scopes
      BY <1>2 DEF MinimumScopes
    <2>3. ASSUME NEW n \in handled
          PROVE  Needs(n) \in scopes
      BY <2>2, <2>3, HandlersAgree DEF Handled
    <2>4. Done(handled).ran = handled /\ Done(handled).status = 200
      BY DEF Done
    <2> HIDE DEF handled
    <2> QED  BY <2>1, <2>3, <2>4
  <1> QED  BY <1>1, <1>2

\* A caller from the network showed a token that verifies.
ShownToken == reply.cred \in Tokens /\ Verify(reply.cred, proc.setup.url)

\* ScopesHold and NeverOpenOffHost, and that an answer is only looked at while
\* the process is up.
RepliesInv ==
    /\ proc.phase # "up" => reply = NoReply
    /\ ~proc.setup.local /\ reply.ran # {} => ShownToken
    /\ \A n \in reply.ran : (~proc.setup.auth /\ proc.setup.local) \/ Needs(n) \in reply.held
    /\ reply.status = 403 => reply.held # AllScopes

LEMMA NoReplyHolds ==
    ASSUME reply = NoReply
    PROVE  RepliesInv
  BY DEF RepliesInv, NoReply

LEMMA ServeHolds ==
    ASSUME ProcOK, NEW b \in Bodies, NEW c \in Credentials, ServeMCP(b, c)
    PROVE  RepliesInv'
  <1>1. proc.phase = "up" /\ proc' = proc
    BY DEF ServeMCP, Phase
  <1>2. /\ proc.setup.auth \in BOOLEAN
        /\ ~proc.setup.auth => proc.setup.local
        /\ ~proc.setup.local => ~proc.setup.static
    BY <1>1, ProcShape, AcceptedSetup
  <1>0. reply'.cred = c
    BY DEF ServeMCP
  <1>3. CASE ~proc.setup.auth
    <2> DEFINE a == ServeOpen(b)
    <2>1. reply' = [status |-> a.status, ran |-> a.ran, held |-> {}, cred |-> c]
      BY <1>3 DEF ServeMCP
    <2>2. a.status = 200
      BY DEF ServeOpen, Done
    <2> HIDE DEF a
    <2> QED  BY <1>1, <1>2, <1>3, <2>1, <2>2 DEF RepliesInv
  <1>4. CASE proc.setup.auth /\ ~Accepted(c)
    <2>1. reply' = [status |-> Unauthorized.status, ran |-> Unauthorized.ran, held |-> {}, cred |-> c]
      BY <1>4 DEF ServeMCP
    <2> QED  BY <1>1, <2>1 DEF RepliesInv, Unauthorized
  <1>5. CASE proc.setup.auth /\ Accepted(c)
    <2> DEFINE scopes == Scopes(c)
               a == ServeProtected(b, scopes)
    <2>1. reply' = [status |-> a.status, ran |-> a.ran, held |-> scopes, cred |-> c]
      BY <1>5 DEF ServeMCP
    <2>2. /\ \A n \in a.ran : Needs(n) \in scopes
          /\ a.status = 403 => scopes # AllScopes
      BY ProtectedAnswer
    <2>3. ~proc.setup.local => ShownToken'
      <3>1. ~proc.setup.local => c \in Tokens /\ Verify(c, proc.setup.url)
        BY <1>2, <1>5 DEF Accepted
      <3>2. Verify(c, proc.setup.url)' <=> Verify(c, proc.setup.url)
        BY <1>1 DEF ServeMCP, keyVars, Verify
      <3> QED  BY <1>0, <1>1, <3>1, <3>2 DEF ShownToken
    <2> HIDE DEF a, scopes
    <2> QED  BY <1>1, <2>1, <2>2, <2>3 DEF RepliesInv
  <1> QED  BY <1>2, <1>3, <1>4, <1>5

LEMMA RepliesStep ==
    ProcOK /\ RepliesInv /\ [ServerNext]_serverVars => RepliesInv'
  <1> SUFFICES ASSUME ProcOK, RepliesInv, [ServerNext]_serverVars PROVE RepliesInv'
    OBVIOUS
  <1>1. ASSUME reply' = NoReply
        PROVE  RepliesInv'
    BY <1>1 DEF RepliesInv, NoReply
  <1>2. CASE Refuse \/ Accept \/ Listen
    <2>1. proc.phase # "up" /\ reply' = reply
      BY <1>2 DEF Refuse, Accept, Listen, Phase
    <2> QED  BY <1>1, <2>1 DEF RepliesInv
  <1>3. ASSUME NEW b \in Bodies, NEW c \in Credentials, ServeMCP(b, c)
        PROVE  RepliesInv'
    BY <1>3, ServeHolds
  <1>4. CASE UNCHANGED serverVars
    BY <1>4 DEF serverVars, keyVars, RepliesInv, ShownToken, Verify
  <1>5. ASSUME NEW c \in Reconfigs, Reconfigure(c)
        PROVE  RepliesInv'
    <2>1. proc.phase # "up" /\ reply' = reply
      BY <1>5 DEF Reconfigure, Phase
    <2> QED  BY <1>1, <2>1 DEF RepliesInv
  <1> QED
    BY <1>1, <1>2, <1>3, <1>4, <1>5 DEF ServerNext, Stop, ServeToken, ServerTick

(* A tool does its work only for a caller who holds its scope, or for one  *)
(* on this machine where nothing is enforced; and a caller with every      *)
(* scope is never told one is missing (ScopeGate, RequireScope).           *)
THEOREM ScopesAlwaysHold == ServerSpec => []ScopesHold
  <1>1. ServerInit => RepliesInv
    BY NoReplyHolds DEF ServerInit
  <1>2. ServerTypeOK => ProcOK
    BY DEF ServerTypeOK
  <1>3. RepliesInv => ScopesHold
    BY DEF RepliesInv, ScopesHold, Needs
  <1> QED  BY <1>1, <1>2, <1>3, RepliesStep, ServerTypeCorrect, PTL DEF ServerSpec

(* On a socket the network reaches, no tool does its work but for a caller *)
(* whose token verifies (checkExposure, buildAuth, the bearer middleware), *)
(* and a process that comes up passes the question /readyz asks again.     *)
THEOREM OffHostAlwaysClosed == ServerSpec => []NeverOpenOffHost
  <1>1. ServerInit => RepliesInv
    BY NoReplyHolds DEF ServerInit
  <1>2. ServerTypeOK => ProcOK
    BY DEF ServerTypeOK
  <1>3. ProcOK /\ RepliesInv => NeverOpenOffHost
    <2> SUFFICES ASSUME ProcOK, RepliesInv PROVE NeverOpenOffHost
      OBVIOUS
    <2>1. ASSUME Phase("boot"), Starts(proc.conf)
          PROVE  readyz(proc.conf)
      <3>1. proc.conf.enrollment \in BOOLEAN
        BY <2>1, ProcShape, ConfigAssumption DEF Phase
      <3>2. checkExposure(resolveListen(proc.conf).host, proc.conf)
        BY <2>1 DEF Starts
      <3> QED  BY <3>1, <3>2 DEF checkExposure, readyz
    <2> QED  BY <2>1 DEF NeverOpenOffHost, RepliesInv, ShownToken
  <1> QED  BY <1>1, <1>2, <1>3, RepliesStep, ServerTypeCorrect, PTL DEF ServerSpec

-----------------------------------------------------------------------------
(* The listen address.                                                     *)

LEMMA PrecedenceIsResolved ==
    ASSUME NEW c,
           Bad \notin {c.envListen, c.envAddress, c.envPort, c.flagListen, c.flagAddress, c.flagPort}
    PROVE  resolveListen(c) = ByPrecedence(c)
  <1> DEFINE default == [host |-> DefaultAddress, port |-> DefaultPort]
             env == Override(c.envListen, default)
             parts == [host |-> Override(c.envAddress, env.host),
                       port |-> Override(c.envPort, env.port)]
             flags == Override(c.flagListen, parts)
  <1>1. resolveListen(c) = [host |-> Override(c.flagAddress, flags.host),
                            port |-> Override(c.flagPort, flags.port)]
    BY DEF resolveListen
  <1>2. ByPrecedence(c).host = Override(c.flagAddress, flags.host)
    BY DEF ByPrecedence, InTier, Override
  <1>3. ByPrecedence(c).port = Override(c.flagPort, flags.port)
    BY DEF ByPrecedence, InTier, Override
  <1>4. ByPrecedence(c) = [host |-> ByPrecedence(c).host, port |-> ByPrecedence(c).port]
    BY DEF ByPrecedence
  <1> HIDE DEF flags
  <1> QED  BY <1>1, <1>2, <1>3, <1>4

(* resolveListen computes what its comment's three rules say, for any      *)
(* settings whatever, or refuses where one does not validate.              *)
THEOREM ListenAlwaysByPrecedence == ServerSpec => []ListenPrecedence
  <1>1. ListenPrecedence
    BY PrecedenceIsResolved DEF ListenPrecedence, resolveListen
  <1> QED  BY <1>1, PTL

-----------------------------------------------------------------------------
(* The lockout of the enrollment secret.                                   *)

(* LockoutBase doubled with every failure, up to LockoutMax.               *)
Doubled(f) == Min({LockoutMax, LockoutBase * 2 ^ (f - LockoutThreshold)})

(* A duration holds what is shifted at most MaxShift far.                  *)
LEMMA FittingIsKept ==
    ASSUME NEW x \in 0 .. Half - 1
    PROVE  Wrapped(x) = x
  <1>1. Half \in Nat \ {0}
    BY ShiftAssumption
  <1>2. x + Half \in 0 .. 2 * Half - 1 /\ 2 * Half \in Nat \ {0}
    BY <1>1
  <1>3. \A m \in Nat \ {0} : \A y \in 0 .. m - 1 : y % m = y
    OBVIOUS
  <1> HIDE DEF Half
  <1>4. (x + Half) % (2 * Half) = x + Half
    BY <1>2, <1>3
  <1> QED  BY <1>1, <1>4 DEF Wrapped

(* The machine's backoff is the lock that is meant: the shift is capped    *)
(* before it wraps, and not before LockoutMax is reached.  Every lockout   *)
(* outlasts any hash and ends inside the attempt window.                   *)
LEMMA BackoffBounds ==
    ASSUME NEW f \in LockoutThreshold .. MaxFailures
    PROVE  /\ backoff(f) = Doubled(f)
           /\ backoff(f) \in Int
           /\ LockoutBase <= backoff(f)
           /\ backoff(f) <= LockoutMax
  <1> DEFINE n == f - LockoutThreshold
             m == Min({n, MaxShift})
  <1>1. n \in 0 .. LockoutMax
    BY LockoutAssumption DEF MaxFailures
  <1>2. m = IF n =< MaxShift THEN n ELSE MaxShift
    BY <1>1, MinIsLess, ShiftAssumption
  <1> HIDE DEF n, m
  <1>3. PICK k \in Nat \ {0}, j \in Nat \ {0}, t \in Nat \ {0} :
            k = 2 ^ n /\ j = 2 ^ m /\ t = 2 ^ MaxShift
    BY <1>1, <1>2, DoublingGrows
  <1>4. /\ n =< MaxShift => j = k /\ k =< t
        /\ ~(n =< MaxShift) => j = t /\ t =< k
    BY <1>1, <1>2, <1>3, DoublingGrows
  <1>5. LockoutBase * t \in LockoutMax .. Half - 1
    BY <1>3, ShiftAssumption
  <1>6. /\ LockoutBase * k \in Int /\ LockoutBase * j \in Int /\ LockoutBase * t \in Int
        /\ LockoutBase * k >= LockoutBase /\ LockoutBase * j >= LockoutBase
        /\ ~(n =< MaxShift) => LockoutBase * t =< LockoutBase * k
        /\ LockoutBase * j =< LockoutBase * t
    <2>1. LockoutBase \in Nat \ {0}
      BY LockoutAssumption
    <2>2. j =< t /\ (~(n =< MaxShift) => t =< k)
      BY <1>4, <1>2, <1>1, ShiftAssumption
    <2>3. \A x, y \in Nat : x =< y => LockoutBase * x =< LockoutBase * y
      BY <2>1
    <2> QED  BY <2>1, <2>2, <2>3
  <1>7. Half \in Nat
    BY ShiftAssumption
  <1> HIDE DEF Half
  <1>8. LockoutBase * j \in 0 .. Half - 1
    BY <1>5, <1>6, <1>7, LockoutAssumption
  <1>9. Wrapped(LockoutBase * j) = LockoutBase * j
    BY <1>8, FittingIsKept
  <1>10. backoff(f) = IF LockoutBase * j > LockoutMax \/ LockoutBase * j <= 0
                      THEN LockoutMax ELSE LockoutBase * j
    BY <1>3, <1>9 DEF backoff, n, m
  <1>11. Doubled(f) = IF LockoutMax <= LockoutBase * k THEN LockoutMax ELSE LockoutBase * k
    BY <1>3, <1>6, LockoutAssumption, MinIsLess DEF Doubled, n
  <1>12. ~(n =< MaxShift) => LockoutBase * j >= LockoutMax /\ LockoutBase * k >= LockoutMax
    BY <1>4, <1>5, <1>6, LockoutAssumption
  <1>13. n =< MaxShift => LockoutBase * j = LockoutBase * k
    BY <1>4
  <1>14. n =< MaxShift \/ ~(n =< MaxShift)
    OBVIOUS
  <1>15. backoff(f) = Doubled(f)
    BY <1>6, <1>10, <1>11, <1>12, <1>13, LockoutAssumption
  <1> QED BY <1>6, <1>10, <1>15, LockoutAssumption

-----------------------------------------------------------------------------

attemptState ==
    [failures : 0 .. MaxFailures, lastFail : 0 .. Long, lockedThru : 0 .. LockoutMax]

Hashing == [stage : {"hash"}, source : Sources, now : 0 .. MaxHash]

(* Counts, ages and locks stay in their ranges.                            *)
EnrollTypeOK ==
    /\ sources \in [Sources -> attemptState]
    /\ attempts \in [Attempts -> {Idle} \cup Hashing]
    /\ burst \in [Sources -> Nat]

(* The lock a count has earned, now that its last failure is l old.        *)
Earned(f, l) ==
    IF f < LockoutThreshold THEN 0
    ELSE IF backoff(f) > l THEN backoff(f) - l ELSE 0

Locked(st) == st.lockedThru = Earned(st.failures, st.lastFail)

LEMMA LockMatchesIsLocked ==
    EnrollTypeOK => (LockMatchesFailures <=> \A s \in Sources : Locked(sources[s]))
  <1> SUFFICES ASSUME EnrollTypeOK, NEW s \in Sources
               PROVE  (IF sources[s].failures - LockoutThreshold < 0 THEN 0
                       ELSE Max({0, Doubled(sources[s].failures) - sources[s].lastFail}))
                      = Earned(sources[s].failures, sources[s].lastFail)
    BY DEF LockMatchesFailures, Locked, Doubled
  <1>1. sources[s].failures \in 0 .. MaxFailures /\ sources[s].lastFail \in 0 .. Long
    BY DEF EnrollTypeOK, attemptState
  <1>2. CASE sources[s].failures < LockoutThreshold
    BY <1>1, <1>2, LockoutAssumption DEF Earned
  <1>3. CASE ~(sources[s].failures < LockoutThreshold)
    <2>1. /\ backoff(sources[s].failures) = Doubled(sources[s].failures)
          /\ backoff(sources[s].failures) \in Int
      BY <1>1, <1>3, BackoffBounds, LockoutAssumption DEF MaxFailures
    <2>2. ~(sources[s].failures - LockoutThreshold < 0)
      BY <1>1, <1>3, LockoutAssumption
    <2> QED BY <1>1, <1>3, <2>1, <2>2, MaxIsMore, LockoutAssumption DEF Earned, Long
  <1> QED BY <1>2, <1>3

LEMMA EarnedBounds ==
    ASSUME NEW f \in 0 .. MaxFailures, NEW l \in 0 .. Long
    PROVE  Earned(f, l) \in 0 .. LockoutMax
  <1>1. f >= LockoutThreshold => backoff(f) \in Int /\ backoff(f) <= LockoutMax
    BY BackoffBounds, LockoutAssumption DEF MaxFailures
  <1> QED BY <1>1, LockoutAssumption DEF Earned, Long, MaxFailures

(* Forgetting leaves a source as it was or clear.                          *)
LEMMA ForgetFacts ==
    ASSUME NEW st \in attemptState, Locked(st)
    PROVE  /\ Forget(st) \in attemptState
           /\ Locked(Forget(st))
           /\ \/ Forget(st) = st
              \/ Forget(st).failures = 0 /\ Forget(st).lockedThru = 0 /\ st.lockedThru = 0
  <1>1. Cleared(st) \in attemptState /\ Locked(Cleared(st))
    BY LockoutAssumption DEF Cleared, attemptState, Locked, Earned, MaxFailures
  <1>2. ASSUME st.lastFail > AttemptWindow
        PROVE  st.lockedThru = 0
    <2>1. st.failures \in 0 .. MaxFailures /\ st.lastFail \in 0 .. Long
      BY DEF attemptState
    <2>2. CASE st.failures < LockoutThreshold
      BY <2>2 DEF Locked, Earned
    <2>3. CASE ~(st.failures < LockoutThreshold)
      <3>1. backoff(st.failures) \in Int /\ backoff(st.failures) <= LockoutMax
        BY <2>1, <2>3, BackoffBounds, LockoutAssumption DEF MaxFailures
      <3> QED BY <1>2, <2>1, <2>3, <3>1, LockoutAssumption DEF Locked, Earned, Long
    <2> QED BY <2>2, <2>3
  <1> QED BY <1>1, <1>2 DEF Forget, Cleared

(* A booked failure counts once, and its lock outlasts the hash.           *)
LEMMA FailedFacts ==
    ASSUME NEW st \in attemptState, Locked(st), NEW now \in 0 .. MaxHash
    PROVE  /\ Failed(st, now) \in attemptState
           /\ Locked(Failed(st, now))
           /\ Failed(st, now).failures < LockoutThreshold
                  => /\ Failed(st, now).failures = st.failures + 1
                     /\ st.lockedThru = 0
           /\ Failed(st, now).failures >= LockoutThreshold
                  => /\ Failed(st, now).lockedThru > 0
                     /\ st.failures >= LockoutThreshold - 1
  <1> DEFINE n == Min({MaxFailures, st.failures + 1})
  <1>1. st.failures \in 0 .. MaxFailures /\ st.lastFail \in 0 .. Long
    BY DEF attemptState
  <1>2. MaxFailures \in Nat /\ LockoutThreshold < MaxFailures
    BY LockoutAssumption DEF MaxFailures
  <1>3. n = IF st.failures < MaxFailures THEN st.failures + 1 ELSE MaxFailures
    BY <1>1, <1>2, MinIsLess
  <1> HIDE DEF n
  <1>4. n \in 0 .. MaxFailures
    BY <1>1, <1>2, <1>3
  <1>5. now \in 0 .. Long
    BY LockoutAssumption DEF Long
  <1>6. CASE n < LockoutThreshold
    <2>1. st.failures < LockoutThreshold /\ n = st.failures + 1
      BY <1>1, <1>2, <1>3, <1>6, LockoutAssumption
    <2>2. st.lockedThru = 0
      BY <2>1 DEF Locked, Earned
    <2>3. Failed(st, now) = [failures |-> n, lastFail |-> now, lockedThru |-> 0]
      BY <1>4, <1>6, <2>2, LockoutAssumption DEF Failed, n
    <2> QED BY <1>4, <1>5, <1>6, <2>1, <2>2, <2>3, LockoutAssumption
            DEF attemptState, Locked, Earned
  <1>7. CASE n >= LockoutThreshold
    <2>1. backoff(n) \in Int /\ LockoutBase <= backoff(n) /\ backoff(n) <= LockoutMax
      BY <1>2, <1>4, <1>7, BackoffBounds, LockoutAssumption
    <2>2. backoff(n) - now \in 1 .. LockoutMax
      BY <2>1, LockoutAssumption
    <2>3. Max({0, backoff(n) - now}) = backoff(n) - now
      BY <2>2, MaxIsMore, LockoutAssumption
    <2>4. Failed(st, now) = [failures |-> n, lastFail |-> now, lockedThru |-> backoff(n) - now]
      BY <1>7, <2>3 DEF Failed, n
    <2>5. st.failures >= LockoutThreshold - 1
      BY <1>1, <1>2, <1>3, <1>7, LockoutAssumption
    <2>6. Failed(st, now) \in attemptState
      BY <1>4, <1>5, <2>2, <2>4, LockoutAssumption DEF attemptState
    <2>7. Locked(Failed(st, now))
      BY <1>4, <1>7, <2>1, <2>2, <2>4, LockoutAssumption DEF Locked, Earned
    <2> QED BY <1>4, <1>7, <2>2, <2>4, <2>5, <2>6, <2>7, LockoutAssumption
  <1> QED BY <1>4, <1>6, <1>7, LockoutAssumption

-----------------------------------------------------------------------------

AllLocked == \A s \in Sources : Locked(sources[s])

LockInv == EnrollTypeOK /\ AllLocked

LEMMA HashingIsNotIdle ==
    ASSUME EnrollTypeOK, NEW a \in Attempts, attempts[a] # Idle
    PROVE  /\ attempts[a] \in Hashing
           /\ attempts[a].source \in Sources
           /\ attempts[a].now \in 0 .. MaxHash
  BY DEF EnrollTypeOK, Hashing

LEMMA TickedState ==
    ASSUME NEW st \in attemptState, Locked(st)
    PROVE  LET next == [failures |-> st.failures, lastFail |-> Min({Long, st.lastFail + 1}),
                        lockedThru |-> Max({0, st.lockedThru - 1})]
           IN  /\ next \in attemptState
               /\ Locked(next)
               /\ next.lockedThru = IF st.lockedThru > 0 THEN st.lockedThru - 1 ELSE 0
  <1>1. /\ st.failures \in 0 .. MaxFailures /\ st.lastFail \in 0 .. Long
        /\ st.lockedThru \in 0 .. LockoutMax /\ Long \in Nat
    BY LockoutAssumption DEF attemptState, Long
  <1>2. Min({Long, st.lastFail + 1}) = IF Long <= st.lastFail + 1 THEN Long ELSE st.lastFail + 1
    BY <1>1, MinIsLess
  <1>3. Max({0, st.lockedThru - 1}) = IF st.lockedThru > 0 THEN st.lockedThru - 1 ELSE 0
    BY <1>1, MaxIsMore, LockoutAssumption
  <1> DEFINE l == Min({Long, st.lastFail + 1})
             k == Max({0, st.lockedThru - 1})
  <1>4. l \in 0 .. Long /\ k \in 0 .. LockoutMax
    BY <1>1, <1>2, <1>3, LockoutAssumption
  <1>5. k = Earned(st.failures, l)
    <2>1. CASE st.failures < LockoutThreshold
      BY <1>1, <1>3, <2>1 DEF Earned, Locked
    <2>2. CASE ~(st.failures < LockoutThreshold)
      <3>1. backoff(st.failures) \in Int /\ backoff(st.failures) <= LockoutMax
        BY <1>1, <2>2, BackoffBounds, LockoutAssumption DEF MaxFailures
      <3>2. LockoutMax < Long
        BY LockoutAssumption DEF Long
      <3>3. st.lockedThru = IF backoff(st.failures) > st.lastFail
                            THEN backoff(st.failures) - st.lastFail ELSE 0
        BY <2>2 DEF Locked, Earned
      <3> HIDE DEF l, k
      <3>4. /\ l = IF Long <= st.lastFail + 1 THEN Long ELSE st.lastFail + 1
            /\ k = IF st.lockedThru > 0 THEN st.lockedThru - 1 ELSE 0
        BY <1>2, <1>3 DEF l, k
      <3>5. Earned(st.failures, l) = IF backoff(st.failures) > l
                                     THEN backoff(st.failures) - l ELSE 0
        BY <2>2 DEF Earned
      <3> QED BY <1>1, <3>1, <3>2, <3>3, <3>4, <3>5, LockoutAssumption
    <2> QED BY <2>1, <2>2
  <1> QED BY <1>1, <1>3, <1>4, <1>5 DEF attemptState, Locked

LEMMA LockInvStep == LockInv /\ [EnrollNext]_enrollVars => LockInv'
  <1> SUFFICES ASSUME LockInv, [EnrollNext]_enrollVars
               PROVE  LockInv'
    OBVIOUS
  <1>0. /\ EnrollTypeOK /\ AllLocked
        /\ \A s \in Sources : sources[s] \in attemptState /\ Locked(sources[s])
    BY DEF LockInv, EnrollTypeOK, AllLocked
  <1>1. ASSUME NEW s \in Sources, NEW st \in attemptState, Locked(st),
               sources' = [sources EXCEPT ![s] = st],
               attempts' \in [Attempts -> {Idle} \cup Hashing], burst' \in [Sources -> Nat]
        PROVE  LockInv'
    BY <1>0, <1>1 DEF LockInv, EnrollTypeOK, AllLocked
  <1>2. ASSUME NEW a \in Attempts, NEW s \in Sources, LockedOut(a, s)
        PROVE  LockInv'
    BY <1>0, <1>1, <1>2, ForgetFacts DEF LockedOut, EnrollTypeOK
  <1>3. ASSUME NEW a \in Attempts, NEW s \in Sources, Admit(a, s)
        PROVE  LockInv'
    <2>1. [stage |-> "hash", source |-> s, now |-> 0] \in Hashing
      BY LockoutAssumption DEF Hashing
    <2>2. attempts' \in [Attempts -> {Idle} \cup Hashing] /\ burst' \in [Sources -> Nat]
      BY <1>0, <1>3, <2>1 DEF Admit, EnrollTypeOK
    <2> QED BY <1>0, <1>1, <1>3, <2>2, ForgetFacts DEF Admit
  <1>4. ASSUME NEW a \in Attempts, RightSecret(a)
        PROVE  LockInv'
    <2>1. attempts[a].source \in Sources
      BY <1>0, <1>4, HashingIsNotIdle DEF RightSecret
    <2>2. attempts' \in [Attempts -> {Idle} \cup Hashing] /\ burst' \in [Sources -> Nat]
      BY <1>0, <1>4 DEF RightSecret, EnrollTypeOK
    <2>3. \A st \in attemptState : Cleared(st) \in attemptState /\ Locked(Cleared(st))
      BY LockoutAssumption DEF Cleared, attemptState, Locked, Earned, MaxFailures
    <2> QED BY <1>0, <1>1, <1>4, <2>1, <2>2, <2>3 DEF RightSecret
  <1>5. ASSUME NEW a \in Attempts, WrongSecret(a)
        PROVE  LockInv'
    <2>1. attempts[a].source \in Sources /\ attempts[a].now \in 0 .. MaxHash
      BY <1>0, <1>5, HashingIsNotIdle DEF WrongSecret
    <2>2. attempts' \in [Attempts -> {Idle} \cup Hashing] /\ burst' \in [Sources -> Nat]
      BY <1>0, <1>5 DEF WrongSecret, EnrollTypeOK
    <2>3. LET st == Failed(sources[attempts[a].source], attempts[a].now)
          IN  st \in attemptState /\ Locked(st)
      BY <1>0, <2>1, FailedFacts
    <2> QED BY <1>1, <1>5, <2>1, <2>2, <2>3 DEF WrongSecret
  <1>6. CASE Tick
    <2>1. sources' \in [Sources -> attemptState] /\ AllLocked'
      BY <1>0, <1>6, TickedState DEF Tick, AllLocked
    <2>2. attempts' \in [Attempts -> {Idle} \cup Hashing]
      <3>1. ASSUME NEW a \in Attempts, attempts[a] # Idle
            PROVE  [attempts[a] EXCEPT !.now = @ + 1] \in Hashing
        <4>1. attempts[a] \in Hashing /\ attempts[a].now < MaxHash
          BY <1>0, <1>6, <3>1, HashingIsNotIdle DEF Tick
        <4> QED BY <4>1, LockoutAssumption DEF Hashing
      <3> QED BY <1>6, <3>1 DEF Tick
    <2>3. burst' \in [Sources -> Nat]
      BY <1>0, <1>6 DEF Tick, EnrollTypeOK
    <2> QED BY <2>1, <2>2, <2>3 DEF LockInv, EnrollTypeOK
  <1>7. CASE UNCHANGED enrollVars
    BY <1>0, <1>7 DEF enrollVars, LockInv, EnrollTypeOK, AllLocked
  <1> QED BY <1>2, <1>3, <1>4, <1>5, <1>6, <1>7 DEF EnrollNext

LEMMA LockInvInit == EnrollInit => LockInv
  <1> SUFFICES ASSUME EnrollInit
               PROVE  LockInv
    OBVIOUS
  <1>1. NoState \in attemptState /\ Locked(NoState)
    BY LockoutAssumption DEF NoState, attemptState, Locked, Earned, MaxFailures, Long
  <1> QED BY <1>1 DEF EnrollInit, LockInv, EnrollTypeOK, AllLocked

(* No count, age or lock leaves its range: a lock never outlasts           *)
(* LockoutMax, however many failures overlap.                              *)
THEOREM EnrollTypeCorrect == EnrollSpec => []EnrollTypeOK
  <1>1. LockInv => EnrollTypeOK BY DEF LockInv
  <1> QED BY <1>1, LockInvInit, LockInvStep, PTL DEF EnrollSpec

(* A source is locked exactly for what its failures have earned.           *)
THEOREM LockAlwaysMatches == EnrollSpec => []LockMatchesFailures
  <1>1. LockInv => LockMatchesFailures
    BY LockMatchesIsLocked DEF LockInv, AllLocked
  <1> QED BY <1>1, LockInvInit, LockInvStep, PTL DEF EnrollSpec

-----------------------------------------------------------------------------

(* Attempts of s between the two critical sections.                        *)
InFlight(s) == {a \in Attempts : attempts[a] # Idle /\ attempts[a].source = s}

(* An admission is accounted for by a failure that was booked or by an     *)
(* attempt that is still hashing; a lock leaves at most the attempts that  *)
(* were in flight when the threshold was reached.                          *)
Accounted(st, b, inFlight) ==
    /\ st.lockedThru > 0 => b <= LockoutThreshold - 1 + Cardinality(Attempts)
    /\ st.lockedThru = 0 /\ st.failures < LockoutThreshold
           => b <= st.failures + Cardinality(inFlight)
    /\ st.lockedThru = 0 /\ st.failures >= LockoutThreshold => b <= Cardinality(inFlight)

AllAccounted == \A s \in Sources : Accounted(sources[s], burst[s], InFlight(s))

BurstInv == LockInv /\ AllAccounted

LEMMA InFlightFinite ==
    ASSUME NEW s
    PROVE  /\ IsFiniteSet(InFlight(s))
           /\ Cardinality(InFlight(s)) \in Nat
           /\ Cardinality(InFlight(s)) <= Cardinality(Attempts)
           /\ Cardinality(Attempts) \in Nat
  <1>1. InFlight(s) \in SUBSET Attempts
    BY DEF InFlight
  <1>2. IsFiniteSet(Attempts)
    BY LockoutAssumption
  <1>3. IsFiniteSet(InFlight(s)) /\ Cardinality(InFlight(s)) <= Cardinality(Attempts)
    BY <1>1, <1>2, FS_Subset
  <1> QED BY <1>2, <1>3, FS_CardinalityType

LEMMA InFlightEnds ==
    ASSUME EnrollTypeOK, NEW a \in Attempts, NEW s \in Sources, attempts[a] # Idle,
           s = attempts[a].source, attempts' = [attempts EXCEPT ![a] = Idle]
    PROVE  /\ Cardinality(InFlight(s)') = Cardinality(InFlight(s)) - 1
           /\ \A u \in Sources \ {s} : InFlight(u)' = InFlight(u)
  <1>1. a \in InFlight(s) /\ InFlight(s)' = InFlight(s) \ {a}
    BY DEF InFlight, EnrollTypeOK
  <1>2. \A u \in Sources \ {s} : InFlight(u)' = InFlight(u)
    BY DEF InFlight, EnrollTypeOK
  <1> QED BY <1>1, <1>2, InFlightFinite, FS_RemoveElement

LEMMA InFlightBegins ==
    ASSUME EnrollTypeOK, NEW a \in Attempts, NEW s \in Sources, attempts[a] = Idle,
           attempts' = [attempts EXCEPT ![a] = [stage |-> "hash", source |-> s, now |-> 0]]
    PROVE  /\ Cardinality(InFlight(s)') = Cardinality(InFlight(s)) + 1
           /\ \A u \in Sources \ {s} : InFlight(u)' = InFlight(u)
  <1>1. [stage |-> "hash", source |-> s, now |-> 0] # Idle
    <2>1. [stage |-> "hash", source |-> s, now |-> 0].stage # Idle.stage
      BY DEF Idle
    <2> QED BY <2>1
  <1>2. a \notin InFlight(s) /\ InFlight(s)' = InFlight(s) \cup {a}
    BY <1>1 DEF InFlight, EnrollTypeOK
  <1>3. \A u \in Sources \ {s} : InFlight(u)' = InFlight(u)
    BY <1>1 DEF InFlight, EnrollTypeOK
  <1> QED BY <1>2, <1>3, InFlightFinite, FS_AddElement

LEMMA BurstInvStep == BurstInv /\ [EnrollNext]_enrollVars => BurstInv'
  <1> SUFFICES ASSUME BurstInv, [EnrollNext]_enrollVars
               PROVE  BurstInv'
    OBVIOUS
  <1>0. /\ EnrollTypeOK /\ AllLocked /\ AllAccounted /\ LockInv'
        /\ \A s \in Sources : /\ sources[s] \in attemptState /\ Locked(sources[s])
                              /\ burst[s] \in Nat
    BY LockInvStep DEF BurstInv, LockInv, EnrollTypeOK, AllLocked
  <1> SUFFICES AllAccounted'
    BY <1>0 DEF BurstInv
  <1>1. ASSUME NEW s \in Sources, Accounted(sources'[s], burst'[s], InFlight(s)'),
               \A u \in Sources \ {s} : /\ sources'[u] = sources[u] /\ burst'[u] = burst[u]
                                        /\ InFlight(u)' = InFlight(u)
        PROVE  AllAccounted'
    <2> SUFFICES ASSUME NEW u \in Sources
                 PROVE  Accounted(sources'[u], burst'[u], InFlight(u)')
      BY DEF AllAccounted
    <2>1. CASE u = s
      BY <1>1, <2>1
    <2>2. CASE u # s
      BY <1>0, <1>1, <2>2 DEF AllAccounted
    <2> QED BY <2>1, <2>2
  <1>2. ASSUME NEW a \in Attempts, NEW s \in Sources, LockedOut(a, s)
        PROVE  AllAccounted'
    <2>1. sources[s].lockedThru \in 0 .. LockoutMax
      BY <1>0 DEF attemptState
    <2>2. Forget(sources[s]) = sources[s]
      BY <1>0, <1>2, <2>1, ForgetFacts DEF LockedOut
    <2>3. sources' = sources /\ burst' = burst /\ \A u \in Sources : InFlight(u)' = InFlight(u)
      BY <1>0, <1>2, <2>2 DEF LockedOut, EnrollTypeOK, InFlight
    <2> QED BY <1>0, <2>3 DEF AllAccounted
  <1>3. ASSUME NEW a \in Attempts, NEW s \in Sources, Admit(a, s)
        PROVE  AllAccounted'
    <2>1. /\ Cardinality(InFlight(s)') = Cardinality(InFlight(s)) + 1
          /\ \A u \in Sources \ {s} : InFlight(u)' = InFlight(u)
      BY <1>0, <1>3, InFlightBegins DEF Admit
    <2>2. /\ sources'[s] = Forget(sources[s]) /\ sources'[s].lockedThru = 0
          /\ \A u \in Sources \ {s} : sources'[u] = sources[u] /\ burst'[u] = burst[u]
          /\ burst'[s] = IF Forget(sources[s]) = sources[s] THEN burst[s] + 1 ELSE 1
      BY <1>0, <1>3 DEF Admit, EnrollTypeOK
    <2>3. Cardinality(InFlight(s)) \in Nat /\ sources[s].failures \in Nat
      BY <1>0, InFlightFinite, LockoutAssumption DEF attemptState, MaxFailures
    <2>4. Accounted(sources'[s], burst'[s], InFlight(s)')
      <3>1. CASE Forget(sources[s]) = sources[s]
        BY <1>0, <2>1, <2>2, <2>3, <3>1, LockoutAssumption DEF AllAccounted, Accounted
      <3>2. CASE Forget(sources[s]) # sources[s]
        <4>1. sources'[s].failures = 0 /\ burst'[s] = 1
          BY <1>0, <2>2, <3>2, ForgetFacts
        <4> QED BY <2>1, <2>2, <2>3, <4>1, LockoutAssumption DEF Accounted
      <3> QED BY <3>1, <3>2
    <2> QED BY <1>1, <2>1, <2>2, <2>4
  <1>4. ASSUME NEW a \in Attempts, RightSecret(a)
        PROVE  AllAccounted'
    <2>1. PICK s \in Sources : s = attempts[a].source
      BY <1>0, <1>4, HashingIsNotIdle DEF RightSecret
    <2>2. /\ Cardinality(InFlight(s)') = Cardinality(InFlight(s)) - 1
          /\ \A u \in Sources \ {s} : InFlight(u)' = InFlight(u)
      BY <1>0, <1>4, <2>1, InFlightEnds DEF RightSecret
    <2>3. /\ sources'[s].lockedThru = 0 /\ sources'[s].failures = 0 /\ burst'[s] = 0
          /\ \A u \in Sources \ {s} : sources'[u] = sources[u] /\ burst'[u] = burst[u]
      BY <1>0, <1>4, <2>1 DEF RightSecret, EnrollTypeOK, Cleared
    <2>4. Cardinality(InFlight(s)') \in Nat
      <3>1. a \in InFlight(s)
        BY <1>4, <2>1 DEF InFlight, RightSecret
      <3>2. Cardinality(InFlight(s)) # 0
        BY <3>1, InFlightFinite, FS_EmptySet
      <3> QED BY <2>2, <3>2, InFlightFinite
    <2>5. Accounted(sources'[s], burst'[s], InFlight(s)')
      BY <2>3, <2>4, LockoutAssumption DEF Accounted
    <2> QED BY <1>1, <2>2, <2>3, <2>5
  <1>5. ASSUME NEW a \in Attempts, WrongSecret(a)
        PROVE  AllAccounted'
    <2>1. PICK s \in Sources : s = attempts[a].source
      BY <1>0, <1>5, HashingIsNotIdle DEF WrongSecret
    <2>2. /\ Cardinality(InFlight(s)') = Cardinality(InFlight(s)) - 1
          /\ \A u \in Sources \ {s} : InFlight(u)' = InFlight(u)
      BY <1>0, <1>5, <2>1, InFlightEnds DEF WrongSecret
    <2>3. /\ sources'[s] = Failed(sources[s], attempts[a].now) /\ burst' = burst
          /\ \A u \in Sources \ {s} : sources'[u] = sources[u]
          /\ attempts[a].now \in 0 .. MaxHash
      BY <1>0, <1>5, <2>1, HashingIsNotIdle DEF WrongSecret, EnrollTypeOK
    <2>4. /\ sources'[s].failures < LockoutThreshold
                 => sources'[s].failures = sources[s].failures + 1 /\ sources[s].lockedThru = 0
          /\ sources'[s].failures >= LockoutThreshold
                 => /\ sources'[s].lockedThru > 0
                    /\ sources[s].failures >= LockoutThreshold - 1
          /\ sources'[s] \in attemptState
      BY <1>0, <2>3, FailedFacts
    <2>5. /\ Cardinality(InFlight(s)) \in Nat /\ Cardinality(Attempts) \in Nat
          /\ Cardinality(InFlight(s)) <= Cardinality(Attempts)
      BY InFlightFinite
    <2>6. /\ sources[s].failures \in Nat /\ sources'[s].failures \in Nat
          /\ sources[s].lockedThru \in Nat /\ sources'[s].lockedThru \in Nat
          /\ burst[s] \in Nat /\ LockoutThreshold \in Nat \ {0}
      BY <1>0, <2>4, LockoutAssumption DEF attemptState, MaxFailures
    <2>7. Accounted(sources[s], burst[s], InFlight(s))
      BY <1>0 DEF AllAccounted
    <2>8. Accounted(sources'[s], burst'[s], InFlight(s)')
      BY <2>2, <2>3, <2>4, <2>5, <2>6, <2>7 DEF Accounted
    <2> QED BY <1>1, <2>2, <2>3, <2>8
  <1>6. CASE Tick
    <2> SUFFICES ASSUME NEW s \in Sources
                 PROVE  Accounted(sources'[s], burst'[s], InFlight(s)')
      BY DEF AllAccounted
    <2>1. InFlight(s)' = InFlight(s)
      <3>1. ASSUME NEW a \in Attempts, attempts[a] # Idle
            PROVE  attempts'[a] # Idle /\ attempts'[a].source = attempts[a].source
        <4>1. attempts'[a] = [attempts[a] EXCEPT !.now = @ + 1] /\ attempts[a] \in Hashing
          BY <1>0, <1>6, <3>1, HashingIsNotIdle DEF Tick
        <4>2. attempts'[a].stage = "hash" /\ attempts'[a].source = attempts[a].source
          BY <4>1 DEF Hashing
        <4> QED BY <4>2 DEF Idle
      <3>2. ASSUME NEW a \in Attempts, attempts[a] = Idle
            PROVE  attempts'[a] = Idle
        BY <1>6, <3>2 DEF Tick
      <3> QED BY <3>1, <3>2 DEF InFlight
    <2>2. /\ sources'[s].failures = sources[s].failures
          /\ sources'[s].lockedThru = IF sources[s].lockedThru > 0
                                      THEN sources[s].lockedThru - 1 ELSE 0
          /\ burst'[s] = IF sources[s].lockedThru = 1 THEN 0 ELSE burst[s]
      BY <1>0, <1>6, TickedState DEF Tick
    <2>3. /\ Cardinality(InFlight(s)) \in Nat /\ Cardinality(Attempts) \in Nat
          /\ Cardinality(InFlight(s)) <= Cardinality(Attempts)
      BY InFlightFinite
    <2>4. /\ sources[s].failures \in Nat /\ sources[s].lockedThru \in Nat
          /\ burst[s] \in Nat /\ LockoutThreshold \in Nat \ {0}
      BY <1>0, LockoutAssumption DEF attemptState, MaxFailures
    <2>5. Accounted(sources[s], burst[s], InFlight(s))
      BY <1>0 DEF AllAccounted
    <2> QED BY <2>1, <2>2, <2>3, <2>4, <2>5 DEF Accounted
  <1>7. CASE UNCHANGED enrollVars
    BY <1>0, <1>7 DEF enrollVars, AllAccounted, InFlight
  <1> QED BY <1>2, <1>3, <1>4, <1>5, <1>6, <1>7 DEF EnrollNext

(* The check and the count are two critical sections, yet overlapping      *)
(* attempts gain a source no more than their own number.                   *)
THEOREM BurstAlwaysBounded == EnrollSpec => []BurstBounded
  <1>1. EnrollInit => BurstInv
    <2> SUFFICES ASSUME EnrollInit
                 PROVE  AllAccounted
      BY LockInvInit DEF BurstInv
    <2>1. ASSUME NEW s \in Sources
          PROVE  /\ sources[s].failures = 0 /\ sources[s].lockedThru = 0 /\ burst[s] = 0
                 /\ Cardinality(InFlight(s)) \in Nat
      BY InFlightFinite DEF EnrollInit, NoState
    <2> QED BY <2>1, LockoutAssumption DEF AllAccounted, Accounted
  <1>2. BurstInv => BurstBounded
    <2> SUFFICES ASSUME BurstInv, NEW s \in Sources
                 PROVE  /\ burst[s] =< LockoutThreshold - 1 + Cardinality(Attempts)
                        /\ sources[s].failures >= LockoutThreshold
                               /\ sources[s].lockedThru = 0
                           => burst[s] =< Cardinality(Attempts)
      BY DEF BurstBounded
    <2>1. /\ Cardinality(InFlight(s)) \in Nat /\ Cardinality(Attempts) \in Nat
          /\ Cardinality(InFlight(s)) <= Cardinality(Attempts)
      BY InFlightFinite
    <2>2. /\ sources[s].failures \in Nat /\ sources[s].lockedThru \in Nat
          /\ burst[s] \in Nat /\ LockoutThreshold \in Nat \ {0}
      BY LockoutAssumption
         DEF BurstInv, LockInv, EnrollTypeOK, attemptState, MaxFailures
    <2>3. Accounted(sources[s], burst[s], InFlight(s))
      BY DEF BurstInv, AllAccounted
    <2> QED BY <2>1, <2>2, <2>3 DEF Accounted
  <1> QED BY <1>1, <1>2, BurstInvStep, PTL DEF EnrollSpec
=============================================================================
