------------------------- MODULE TenantContextProofs -------------------------
(***************************************************************************)
(* Proofs for TenantContext, for any tenants, aliases, regions, settings   *)
(* and nesting depth. IInv is inductive: one lemma per kind of step.       *)
(* Then the refinement of TenantScopes, the tenant in force in the body of *)
(* a scope, and the agreement of a single alias with the active tenant.    *)
(***************************************************************************)
EXTENDS TenantContext, SequenceTheorems, TLAPS

(***************************************************************************)
(* The stack of scopes                                                     *)
(***************************************************************************)

\* Entering a scope keeps the outer ones in place and puts the new one on top.
LEMMA AppendFacts ==
  ASSUME NEW s \in Seq(Frame), NEW f \in Frame
  PROVE  /\ Append(s, f) \in Seq(Frame)
         /\ Append(s, f) # <<>>
         /\ Len(Append(s, f)) = Len(s) + 1
         /\ DOMAIN Append(s, f) = 1..(Len(s) + 1)
         /\ DOMAIN s = 1..Len(s)
         /\ Len(s) \in Nat
         /\ \A i \in 1..Len(s) : Append(s, f)[i] = s[i]
         /\ Append(s, f)[Len(s) + 1] = f
  BY AppendProperties

\* Leaving a scope keeps the outer ones in place.
LEMMA PopFacts ==
  ASSUME TypeOK, Len(frames) > 0
  PROVE  /\ Pop \in Seq(Frame)
         /\ Len(frames) \in Nat
         /\ Len(Pop) = Len(frames) - 1
         /\ DOMAIN Pop = 1..(Len(frames) - 1)
         /\ DOMAIN frames = 1..Len(frames)
         /\ Pop = <<>> <=> Len(frames) = 1
         /\ \A i \in 1..(Len(frames) - 1) : Pop[i] = frames[i]
         /\ Top \in Frame
<1> DEFINE n == Len(frames)
<1>1. frames \in Seq(Frame) /\ n \in Nat /\ n > 0
  BY DEF TypeOK
<1>2. \A i \in 1..(n - 1) : frames[i] \in Frame
  BY <1>1
<1>3. /\ Pop \in Seq(Frame)
      /\ Len(Pop) = IF 1 <= n - 1 THEN n - 1 - 1 + 1 ELSE 0
      /\ \A i \in 1..(n - 1 - 1 + 1) : Pop[i] = frames[1 + i - 1]
  <2>1. n - 1 \in Int
    BY <1>1
  <2> HIDE DEF n
  <2>2. QED
    BY <1>2, <2>1, SubSeqProperties DEF Pop, n
<1>4. Len(Pop) = n - 1 /\ DOMAIN Pop = 1..(n - 1)
  <2> HIDE DEF n
  <2>1. Len(Pop) = IF 1 <= n - 1 THEN n - 1 - 1 + 1 ELSE 0
    BY <1>3
  <2>2. Len(Pop) = n - 1
    BY <1>1, <2>1
  <2>3. DOMAIN Pop = 1..Len(Pop)
    BY <1>3, LenProperties
  <2>4. QED
    BY <2>2, <2>3
<1>5. \A i \in 1..(n - 1) : Pop[i] = frames[i]
  BY <1>1, <1>3
<1>6. Pop = <<>> <=> n = 1
  BY <1>1, <1>3, <1>4, EmptySeq
<1>7. Top \in Frame
  BY <1>1 DEF Top
<1>8. QED
  BY <1>1, <1>3, <1>4, <1>5, <1>6, <1>7

(***************************************************************************)
(* The part of the invariant that is about the stack                       *)
(***************************************************************************)

StackInv == TokensChain /\ OneOwner /\ SavepointsAgree /\ DepthCounts

\* The aliases of a tenant are aliases.
LEMMA TargetsAreAliases ==
  ASSUME NEW t \in Scope
  PROVE  TargetAliases(t) \subseteq Aliases
  BY AliasAssumption, RegionAssumption DEF TargetAliases, RegionalAlias, Scope

\* What entering a scope f does to the worker, as far as the stack is
\* concerned: the active tenant is its token, it opens transactions only
\* where there is none, and a bypass is counted once.
Pushes(f) ==
    /\ frames' = Append(frames, f)
    /\ f.prev = tenant /\ tenant' = f.tenant
    /\ f.kind \in {"bare", "bypass", "atomic"} => f.tenant = tenant
    /\ \A a \in f.owned : ~conn[a].inTx
    /\ \A a \in Aliases : conn'[a].inTx <=> conn[a].inTx \/ a \in f.owned
    /\ f.kind \in {"bypass", "atomic"} => /\ conn[f.alias].inTx \/ f.alias \in f.owned
                                         /\ f.owned \subseteq {f.alias}
    /\ \A a \in Aliases : depth'[a] = IF f.kind = "bypass" /\ a = f.alias
                                      THEN depth[a] + 1 ELSE depth[a]
    /\ f.kind = "bypass" => f.level = depth[f.alias]
    /\ f.kind = "atomic" => /\ f.savedVar = conn[f.alias].var
                            /\ f.savedFlag = conn[f.alias].flag
                            /\ ~conn[f.alias].aborted

\* Entering any such scope keeps the stack in order.
LEMMA PushStep ==
  ASSUME IInv, NEW f \in Frame, Pushes(f)
  PROVE  StackInv'
<1> DEFINE n == Len(frames)
<1>t. /\ tenant \in Scope /\ depth \in [Aliases -> Nat] /\ frames \in Seq(Frame)
      /\ conn \in [Aliases -> Connection] /\ n \in Nat
  BY DEF IInv, TypeOK
<1>s. /\ frames' # <<>>
      /\ Len(frames') = n + 1
      /\ DOMAIN frames' = 1..(n + 1)
      /\ DOMAIN frames = 1..n
      /\ \A i \in 1..n : frames'[i] = frames[i]
      /\ frames'[n + 1] = f
  BY <1>t, AppendFacts DEF Pushes
<1>a. f.alias \in Aliases /\ f.owned \subseteq Aliases /\ f.level \in Nat
  BY DEF Frame
<1>n. n \in Nat
  BY <1>t
<1>e. frames = <<>> <=> n = 0
  BY <1>t, EmptySeq
<1>o. OneOwner
  BY DEF IInv
<1> HIDE DEF n
<1>1. TokensChain'
  <2>1. tenant' = frames'[Len(frames')].tenant
    BY <1>t, <1>s DEF Pushes
  <2>2. ASSUME NEW i \in 1..(n + 1)
        PROVE  /\ frames'[i].prev = IF i = 1 THEN NoTenant ELSE frames'[i - 1].tenant
               /\ frames'[i].kind \in {"bare", "bypass", "atomic"} =>
                     frames'[i].tenant = frames'[i].prev
    <3>1. CASE i = n + 1
      <4>1. CASE n = 0
        BY <1>s, <1>e, <3>1, <4>1 DEF IInv, TokensChain, Pushes
      <4>2. CASE n > 0
        <5>1. n \in 1..n /\ frames'[n] = frames[n] /\ tenant = frames[n].tenant
          BY <1>t, <1>s, <1>e, <4>2 DEF IInv, TokensChain, n
        <5>2. QED
          BY <1>n, <1>s, <3>1, <4>2, <5>1 DEF Pushes
      <4>3. QED
        BY <1>n, <4>1, <4>2
    <3>2. CASE i \in 1..n
      <4>1. frames'[i] = frames[i] /\ (i # 1 => frames'[i - 1] = frames[i - 1])
        BY <1>t, <1>s, <3>2
      <4>2. QED
        BY <1>s, <3>2, <4>1 DEF IInv, TokensChain, Outside
    <3>3. QED
      BY <1>n, <3>1, <3>2
  <2>3. QED
    BY <1>s, <2>1, <2>2 DEF TokensChain, Outside
<1>2. OneOwner'
  <2>1. ASSUME NEW a \in Aliases
        PROVE  conn'[a].inTx <=> \E i \in 1..(n + 1) : a \in frames'[i].owned
    <3>1. conn[a].inTx <=> \E i \in 1..n : a \in frames[i].owned
      BY <1>o, <1>s DEF OneOwner
    <3>2. (\E i \in 1..(n + 1) : a \in frames'[i].owned)
             <=> (a \in f.owned \/ \E i \in 1..n : a \in frames[i].owned)
      BY <1>t, <1>s
    <3>3. QED
      BY <3>1, <3>2 DEF Pushes
  <2>2. ASSUME NEW i \in 1..n
        PROVE  frames[i].owned \cap f.owned = {}
    BY <1>a, <1>o, <1>s DEF OneOwner, Pushes
  <2>3. ASSUME NEW i \in 1..(n + 1), NEW j \in 1..(n + 1), i # j
        PROVE  frames'[i].owned \cap frames'[j].owned = {}
    <3>1. \A k, l \in 1..n : k # l => frames[k].owned \cap frames[l].owned = {}
      BY <1>o, <1>s DEF OneOwner
    <3>2. QED
      BY <1>n, <1>s, <2>2, <2>3, <3>1
  <2>4. ASSUME NEW i \in 1..(n + 1), frames'[i].kind \in {"bypass", "atomic"}
        PROVE  \E j \in 1..i : frames'[i].alias \in frames'[j].owned
    <3>1. CASE i = n + 1
      BY <1>a, <1>s, <2>1, <2>4, <3>1 DEF Pushes
    <3>2. CASE i \in 1..n
      <4>1. PICK j \in 1..i : frames[i].alias \in frames[j].owned
        BY <1>o, <1>s, <2>4, <3>2 DEF OneOwner
      <4>2. j \in 1..n /\ frames'[j] = frames[j] /\ frames'[i] = frames[i]
        BY <1>t, <1>s, <3>2
      <4>3. QED
        BY <4>1, <4>2
    <3>3. QED
      BY <1>n, <3>1, <3>2
  <2>5. ASSUME NEW i \in 1..(n + 1), frames'[i].kind \in {"bypass", "atomic"}
        PROVE  frames'[i].owned \subseteq {frames'[i].alias}
    <3>1. CASE i = n + 1
      BY <1>s, <2>5, <3>1 DEF Pushes
    <3>2. CASE i \in 1..n
      BY <1>o, <1>s, <2>5, <3>2 DEF OneOwner
    <3>3. QED
      BY <1>n, <3>1, <3>2
  <2>6. QED
    BY <1>s, <2>1, <2>3, <2>4, <2>5 DEF OneOwner
<1>3. SavepointsAgree'
  <2>b. ASSUME NEW i \in 1..(n + 1), NEW a \in Aliases
        PROVE  (\E j \in 1..(i - 1) : BypassAt(j, a)') <=> \E j \in 1..(i - 1) : BypassAt(j, a)
    <3>1. \A j \in 1..(i - 1) : j \in 1..n
      BY <1>n
    <3>2. QED
      BY <3>1, <1>s DEF BypassAt
  <2>c. ASSUME NEW a \in Aliases, ~conn[a].inTx
        PROVE  ~\E j \in 1..n : BypassAt(j, a)
    <3>1. SUFFICES ASSUME NEW j \in 1..n, BypassAt(j, a) PROVE FALSE
      OBVIOUS
    <3>2. PICK k \in 1..j : a \in frames[k].owned
      BY <1>o, <1>s, <3>1 DEF OneOwner, BypassAt
    <3>3. k \in 1..n
      BY <1>n
    <3>4. QED
      BY <1>o, <1>s, <2>c, <3>2, <3>3 DEF OneOwner
  <2>1. ASSUME NEW i \in 1..(n + 1), NEW g, g = frames'[i], g.kind = "atomic"
        PROVE  g.savedVar # NoTenant => WritesVar(g.alias)
    <3>1. CASE i = n + 1
      <4>1. g.savedVar = conn[g.alias].var /\ g.alias \in Aliases
        BY <1>a, <1>s, <2>1, <3>1 DEF Pushes
      <4>2. QED
        BY <4>1 DEF IInv, ConnectionsClean
    <3>2. CASE i \in 1..n
      BY <1>s, <2>1, <3>2 DEF IInv, SavepointsAgree
    <3>3. QED
      BY <1>n, <3>1, <3>2
  <2>2. ASSUME NEW i \in 1..(n + 1), NEW g, g = frames'[i], g.kind = "atomic",
               g.tenant # NoTenant, g.alias \in TargetAliases(g.tenant),
               ~(g.alias = Default /\ DefaultExposed)
        PROVE  g.savedVar \in {NoTenant, g.tenant}
    <3>1. CASE i = n + 1
      <4>1. /\ g.savedVar = conn[g.alias].var /\ g.alias \in Aliases
            /\ g.tenant = tenant /\ ~conn[g.alias].aborted
        BY <1>a, <1>s, <2>2, <3>1 DEF Pushes
      <4>2. CASE conn[g.alias].inTx
        BY <2>2, <4>1, <4>2 DEF IInv, NoForeignScope, Guarded, ScopeAgrees, Usable
      <4>3. CASE ~conn[g.alias].inTx
        BY <4>1, <4>3 DEF IInv, ConnectionsClean, Idle
      <4>4. QED
        BY <4>2, <4>3
    <3>2. CASE i \in 1..n
      BY <1>s, <2>2, <3>2 DEF IInv, SavepointsAgree
    <3>3. QED
      BY <1>n, <3>1, <3>2
  <2>3. ASSUME NEW i \in 1..(n + 1), NEW g, g = frames'[i], g.kind = "atomic",
               g.alias \in Postgres
        PROVE  g.savedFlag <=> \E j \in 1..(i - 1) : BypassAt(j, g.alias)'
    <3>1. CASE i = n + 1
      <4>1. /\ g.savedFlag = conn[g.alias].flag /\ g.alias \in Aliases
            /\ ~conn[g.alias].aborted /\ i - 1 = n
        BY <1>a, <1>n, <1>s, <2>3, <3>1 DEF Pushes
      <4>2. conn[g.alias].flag <=> \E j \in 1..n : BypassAt(j, g.alias)
        <5>1. CASE conn[g.alias].inTx
          BY <1>s, <2>3, <4>1, <5>1 DEF IInv, BypassIffOpen, OpenBypass, Usable
        <5>2. CASE ~conn[g.alias].inTx
          <6>1. conn[g.alias].flag = FALSE
            BY <4>1, <5>2 DEF IInv, ConnectionsClean, Idle
          <6>2. QED
            BY <2>c, <4>1, <5>2, <6>1
        <5>3. QED
          BY <5>1, <5>2
      <4>3. QED
        BY <2>b, <4>1, <4>2, Zenon
    <3>2. CASE i \in 1..n
      <4>1. g = frames[i] /\ g.alias \in Aliases
        BY <1>s, <2>3, <3>2, AliasAssumption
      <4>2. g.savedFlag <=> \E j \in 1..(i - 1) : BypassAt(j, g.alias)
        BY <1>s, <2>3, <3>2, <4>1 DEF IInv, SavepointsAgree
      <4>3. QED
        BY <2>b, <4>1, <4>2, Zenon
    <3>3. QED
      BY <1>n, <3>1, <3>2
  <2>4. QED
    BY <1>s, <2>1, <2>2, <2>3 DEF SavepointsAgree, WritesVar, TargetAliases, RegionalAlias,
                                  DefaultExposed
<1>4. DepthCounts'
  <2> SUFFICES ASSUME NEW a \in Aliases
               PROVE  /\ depth'[a] = 0 <=> ~\E i \in 1..(n + 1) : BypassAt(i, a)'
                      /\ \A i \in 1..(n + 1) : BypassAt(i, a)' =>
                            (frames'[i].level = 0 <=> ~\E j \in 1..(i - 1) : BypassAt(j, a)')
    BY <1>s DEF DepthCounts, BypassAt
  <2>1. /\ depth[a] = 0 <=> ~\E i \in 1..n : BypassAt(i, a)
        /\ \A i \in 1..n : BypassAt(i, a) =>
              (frames[i].level = 0 <=> ~\E j \in 1..(i - 1) : BypassAt(j, a))
    BY <1>s DEF IInv, DepthCounts
  <2>2. \A i \in 1..n : BypassAt(i, a)' <=> BypassAt(i, a)
    BY <1>s DEF BypassAt
  <2>4. depth'[a] = 0 <=> ~\E i \in 1..(n + 1) : BypassAt(i, a)'
    <3>1. (\E i \in 1..(n + 1) : BypassAt(i, a)')
             <=> (f.kind = "bypass" /\ f.alias = a) \/ \E i \in 1..n : BypassAt(i, a)
      BY <1>n, <1>s DEF BypassAt
    <3>2. depth'[a] = IF f.kind = "bypass" /\ a = f.alias THEN depth[a] + 1 ELSE depth[a]
      BY DEF Pushes
    <3>3. depth[a] \in Nat
      BY <1>t
    <3>4. QED
      BY <2>1, <3>1, <3>2, <3>3
  <2>5. ASSUME NEW i \in 1..(n + 1), BypassAt(i, a)'
        PROVE  frames'[i].level = 0 <=> ~\E j \in 1..(i - 1) : BypassAt(j, a)'
    <3>1. CASE i = n + 1
      <4>1. f.level = depth[a] /\ frames'[i].level = f.level
        BY <1>s, <2>5, <3>1 DEF Pushes, BypassAt
      <4>2. (\E j \in 1..(i - 1) : BypassAt(j, a)') <=> (\E j \in 1..n : BypassAt(j, a))
        BY <1>t, <2>2, <3>1
      <4>3. QED
        BY <2>1, <4>1, <4>2
    <3>2. CASE i \in 1..n
      <4>1. \A j \in 1..(i - 1) : BypassAt(j, a)' <=> BypassAt(j, a)
        BY <1>t, <2>2, <3>2
      <4>2. QED
        BY <1>s, <2>1, <2>2, <2>5, <3>2, <4>1
    <3>3. QED
      BY <1>n, <3>1, <3>2
  <2>6. QED
    BY <2>4, <2>5
<1>5. QED
  BY <1>1, <1>2, <1>3, <1>4 DEF StackInv

\* What leaving the innermost scope does to the worker, as far as the stack
\* is concerned: the token is restored, the scope's transactions end, and a
\* bypass restores the depth it found.
Pops ==
    /\ Len(frames) > 0
    /\ frames' = Pop
    /\ tenant' = Top.prev
    /\ \A a \in Aliases : conn'[a].inTx <=> conn[a].inTx /\ a \notin Top.owned
    /\ \A a \in Aliases : depth'[a] = IF Top.kind = "bypass" /\ a = Top.alias
                                      THEN Top.level ELSE depth[a]

\* Leaving the innermost scope keeps the stack in order.
LEMMA PopStep ==
  ASSUME IInv, Pops
  PROVE  StackInv'
<1> DEFINE n == Len(frames)
<1>t. /\ depth \in [Aliases -> Nat] /\ frames \in Seq(Frame) /\ conn \in [Aliases -> Connection]
  BY DEF IInv, TypeOK
<1>n. n \in Nat /\ n > 0 /\ n \in 1..n
  BY <1>t DEF Pops
<1>s. /\ Len(frames') = n - 1
      /\ DOMAIN frames' = 1..(n - 1)
      /\ DOMAIN frames = 1..n
      /\ frames' = <<>> <=> n = 1
      /\ \A i \in 1..(n - 1) : i \in 1..n /\ frames'[i] = frames[i]
      /\ Top = frames[n] /\ Top \in Frame
  BY <1>n, PopFacts DEF IInv, Pops, Top
<1>o. OneOwner
  BY DEF IInv
<1> HIDE DEF n
<1>1. TokensChain'
  <2>1. frames[n].prev = IF n = 1 THEN NoTenant ELSE frames[n - 1].tenant
    BY <1>n, <1>s DEF IInv, TokensChain, Outside
  <2>2. tenant' = IF frames' = <<>> THEN NoTenant ELSE frames'[Len(frames')].tenant
    <3>1. CASE n = 1
      BY <1>s, <2>1, <3>1 DEF Pops
    <3>2. CASE n # 1
      <4>1. n - 1 \in 1..(n - 1)
        BY <1>n, <3>2
      <4>2. QED
        BY <1>s, <2>1, <3>2, <4>1 DEF Pops
    <3>3. QED
      BY <3>1, <3>2
  <2>3. ASSUME NEW i \in 1..(n - 1)
        PROVE  /\ frames'[i].prev = Outside(i)'
               /\ frames'[i].kind \in {"bare", "bypass", "atomic"} =>
                     frames'[i].tenant = frames'[i].prev
    <3>1. frames'[i] = frames[i] /\ (i # 1 => frames'[i - 1] = frames[i - 1])
      BY <1>n, <1>s
    <3>2. i \in 1..n
      BY <1>n
    <3>3. frames[i].prev = Outside(i)
      BY <1>s, <3>2 DEF IInv, TokensChain
    <3>4. frames[i].kind \in {"bare", "bypass", "atomic"} => frames[i].tenant = frames[i].prev
      BY <1>s, <3>2 DEF IInv, TokensChain
    <3>5. QED
      BY <3>1, <3>3, <3>4 DEF Outside
  <2>4. QED
    BY <1>s, <2>2, <2>3 DEF TokensChain
<1>2. OneOwner'
  <2>1. ASSUME NEW a \in Aliases
        PROVE  conn'[a].inTx <=> \E i \in 1..(n - 1) : a \in frames'[i].owned
    <3>1. conn'[a].inTx <=> conn[a].inTx /\ a \notin frames[n].owned
      BY <1>s DEF Pops
    <3>2. conn[a].inTx <=> \E i \in 1..n : a \in frames[i].owned
      BY <1>o, <1>s DEF OneOwner
    <3>3. \A i \in 1..(n - 1) : a \in frames[i].owned => a \notin frames[n].owned
      <4>1. \A i \in 1..(n - 1) : i # n
        BY <1>n
      <4>2. QED
        BY <1>n, <1>o, <1>s, <4>1 DEF OneOwner
    <3>4. \A i \in 1..n : i # n => i \in 1..(n - 1)
      BY <1>n
    <3>5. QED
      BY <1>n, <1>s, <3>1, <3>2, <3>3, <3>4
  <2>2. ASSUME NEW i \in 1..(n - 1), NEW j \in 1..(n - 1), i # j
        PROVE  frames'[i].owned \cap frames'[j].owned = {}
    BY <1>o, <1>s, <2>2 DEF OneOwner
  <2>3. ASSUME NEW i \in 1..(n - 1), frames'[i].kind \in {"bypass", "atomic"}
        PROVE  \E j \in 1..i : frames'[i].alias \in frames'[j].owned
    <3>1. PICK j \in 1..i : frames[i].alias \in frames[j].owned
      BY <1>o, <1>s, <2>3 DEF OneOwner
    <3>2. j \in 1..(n - 1)
      BY <1>n
    <3>3. QED
      BY <1>s, <3>1, <3>2
  <2>4. ASSUME NEW i \in 1..(n - 1), frames'[i].kind \in {"bypass", "atomic"}
        PROVE  frames'[i].owned \subseteq {frames'[i].alias}
    BY <1>o, <1>s, <2>4 DEF OneOwner
  <2>5. QED
    BY <1>s, <2>1, <2>2, <2>3, <2>4 DEF OneOwner
<1>b. ASSUME NEW i \in 1..(n - 1), NEW a
      PROVE  (\E j \in 1..(i - 1) : BypassAt(j, a)') <=> \E j \in 1..(i - 1) : BypassAt(j, a)
  <2>1. \A j \in 1..(i - 1) : j \in 1..(n - 1)
    BY <1>n
  <2>2. QED
    BY <1>s, <2>1 DEF BypassAt
<1>3. SavepointsAgree'
  <2>1. ASSUME NEW i \in 1..(n - 1), NEW g, g = frames'[i], g.kind = "atomic"
        PROVE  /\ g.savedVar # NoTenant => WritesVar(g.alias)
               /\ g.tenant # NoTenant /\ g.alias \in TargetAliases(g.tenant)
                  /\ ~(g.alias = Default /\ DefaultExposed)
                      => g.savedVar \in {NoTenant, g.tenant}
    BY <1>s, <2>1 DEF IInv, SavepointsAgree
  <2>2. ASSUME NEW i \in 1..(n - 1), NEW g, g = frames'[i], g.kind = "atomic", g.alias \in Postgres
        PROVE  g.savedFlag <=> \E j \in 1..(i - 1) : BypassAt(j, g.alias)'
    <3>1. g.savedFlag <=> \E j \in 1..(i - 1) : BypassAt(j, g.alias)
      BY <1>s, <2>2 DEF IInv, SavepointsAgree
    <3>2. QED
      BY <1>b, <3>1, Zenon
  <2>3. QED
    BY <1>s, <2>1, <2>2 DEF SavepointsAgree, WritesVar, TargetAliases, RegionalAlias,
                            DefaultExposed
<1>4. DepthCounts'
  <2> SUFFICES ASSUME NEW a \in Aliases
               PROVE  /\ depth'[a] = 0 <=> ~\E i \in 1..(n - 1) : BypassAt(i, a)'
                      /\ \A i \in 1..(n - 1) : BypassAt(i, a)' =>
                            (frames'[i].level = 0 <=> ~\E j \in 1..(i - 1) : BypassAt(j, a)')
    BY <1>s DEF DepthCounts, BypassAt
  <2>1. /\ depth[a] = 0 <=> ~\E i \in 1..n : BypassAt(i, a)
        /\ \A i \in 1..n : BypassAt(i, a) =>
              (frames[i].level = 0 <=> ~\E j \in 1..(i - 1) : BypassAt(j, a))
    BY <1>s DEF IInv, DepthCounts
  <2>2. \A i \in 1..(n - 1) : BypassAt(i, a)' <=> BypassAt(i, a)
    BY <1>s DEF BypassAt
  <2>3. \A i \in 1..n : i = n \/ i \in 1..(n - 1)
    BY <1>n
  <2>4. depth'[a] = 0 <=> ~\E i \in 1..(n - 1) : BypassAt(i, a)'
    <3>1. CASE BypassAt(n, a)
      <4>1. depth'[a] = frames[n].level
        BY <1>s, <3>1 DEF Pops, BypassAt
      <4>2. frames[n].level = 0 <=> ~\E j \in 1..(n - 1) : BypassAt(j, a)
        BY <1>n, <2>1, <3>1
      <4>3. QED
        BY <2>2, <4>1, <4>2
    <3>2. CASE ~BypassAt(n, a)
      <4>1. depth'[a] = depth[a]
        BY <1>s, <3>2 DEF Pops, BypassAt
      <4>2. (\E i \in 1..n : BypassAt(i, a)) <=> \E i \in 1..(n - 1) : BypassAt(i, a)
        BY <1>s, <2>3, <3>2
      <4>3. QED
        BY <2>1, <2>2, <4>1, <4>2
    <3>3. QED
      BY <3>1, <3>2
  <2>5. ASSUME NEW i \in 1..(n - 1), BypassAt(i, a)'
        PROVE  frames'[i].level = 0 <=> ~\E j \in 1..(i - 1) : BypassAt(j, a)'
    <3>1. frames[i].level = 0 <=> ~\E j \in 1..(i - 1) : BypassAt(j, a)
      BY <1>s, <2>1, <2>2, <2>5
    <3>2. QED
      BY <1>b, <1>s, <3>1
  <2>6. QED
    BY <2>4, <2>5
<1>5. QED
  BY <1>1, <1>2, <1>3, <1>4 DEF StackInv

\* Entering a scope adds its own bypass, if it is one, and no other.
LEMMA PushBypass ==
  ASSUME IInv, NEW f \in Frame, frames' = Append(frames, f), NEW a
  PROVE  OpenBypass(a)' <=> OpenBypass(a) \/ (f.kind = "bypass" /\ f.alias = a)
<1>1. frames \in Seq(Frame) /\ Len(frames) \in Nat
  BY DEF IInv, TypeOK
<1>2. /\ DOMAIN frames' = 1..(Len(frames) + 1)
      /\ DOMAIN frames = 1..Len(frames)
      /\ \A i \in 1..Len(frames) : frames'[i] = frames[i]
      /\ frames'[Len(frames) + 1] = f
  BY <1>1, AppendFacts
<1>3. \A i \in 1..(Len(frames) + 1) : i \in 1..Len(frames) \/ i = Len(frames) + 1
  BY <1>1
<1>4. \A i \in 1..Len(frames) : i \in 1..(Len(frames) + 1)
  BY <1>1
<1>5. Len(frames) + 1 \in 1..(Len(frames) + 1)
  BY <1>1
<1>6. OpenBypass(a)' <=> \E i \in 1..(Len(frames) + 1) :
                            frames'[i].kind = "bypass" /\ frames'[i].alias = a
  BY <1>2 DEF OpenBypass, BypassAt
<1>7. OpenBypass(a) <=> \E i \in 1..Len(frames) : frames[i].kind = "bypass" /\ frames[i].alias = a
  BY <1>2 DEF OpenBypass, BypassAt
<1>8. QED
  BY <1>2, <1>3, <1>4, <1>5, <1>6, <1>7, Zenon

\* Leaving a scope takes away its own bypass, if it is one, and no other.
LEMMA PopBypass ==
  ASSUME IInv, Len(frames) > 0, frames' = Pop, NEW a
  PROVE  OpenBypass(a) <=> OpenBypass(a)' \/ (Top.kind = "bypass" /\ Top.alias = a)
<1> DEFINE n == Len(frames)
<1>1. n \in Nat /\ n > 0
  BY DEF IInv, TypeOK
<1>2. /\ DOMAIN frames' = 1..(n - 1)
      /\ DOMAIN frames = 1..n
      /\ \A i \in 1..(n - 1) : frames'[i] = frames[i]
      /\ Top = frames[n]
  BY PopFacts DEF IInv, Top
<1> HIDE DEF n
<1>3. \A i \in 1..n : i \in 1..(n - 1) \/ i = n
  BY <1>1
<1>4. \A i \in 1..(n - 1) : i \in 1..n
  BY <1>1
<1>5. n \in 1..n
  BY <1>1
<1>6. OpenBypass(a)' <=> \E i \in 1..(n - 1) : frames'[i].kind = "bypass" /\ frames'[i].alias = a
  BY <1>2 DEF OpenBypass, BypassAt
<1>7. OpenBypass(a) <=> \E i \in 1..n : frames[i].kind = "bypass" /\ frames[i].alias = a
  BY <1>2 DEF OpenBypass, BypassAt
<1>8. QED
  BY <1>2, <1>3, <1>4, <1>5, <1>6, <1>7, Zenon

\* A bypass is only open on an alias in a transaction.
LEMMA BypassInTx ==
  ASSUME IInv, NEW a \in Aliases, OpenBypass(a)
  PROVE  conn[a].inTx
<1>1. frames \in Seq(Frame) /\ DOMAIN frames = 1..Len(frames) /\ Len(frames) \in Nat
  BY DEF IInv, TypeOK
<1>2. PICK i \in 1..Len(frames) : BypassAt(i, a)
  BY <1>1 DEF OpenBypass
<1>3. PICK j \in 1..i : a \in frames[j].owned
  BY <1>1, <1>2 DEF IInv, OneOwner, BypassAt
<1>4. j \in 1..Len(frames)
  BY <1>1
<1>5. QED
  BY <1>1, <1>3, <1>4 DEF IInv, OneOwner

(***************************************************************************)
(* One lemma per step                                                      *)
(***************************************************************************)

\* What entering a scope with set() does to the connections: the scope's
\* transactions begin and the tenant's usable aliases take its variable.
LEMMA SetScopeFacts ==
  ASSUME IInv, NEW kind, NEW t \in Scope, NEW own \in SUBSET Aliases, SetScope(kind, t, own)
  PROVE  /\ conn' \in [Aliases -> Connection]
         /\ \A a \in Aliases :
              /\ conn'[a].inTx = (conn[a].inTx \/ a \in own)
              /\ conn'[a].aborted = conn[a].aborted
              /\ conn'[a].flag = conn[a].flag
              /\ conn'[a].var = IF /\ t # NoTenant /\ a \in TargetAliases(t) /\ WritesVar(a)
                                   /\ conn'[a].inTx /\ ~conn[a].aborted
                                THEN t ELSE conn[a].var
<1>t. conn \in [Aliases -> Connection]
  BY DEF IInv, TypeOK
<1>1. conn' = [a \in Aliases |->
                 LET c == IF a \in own THEN Begin(conn[a]) ELSE conn[a]
                 IN  IF t # NoTenant /\ a \in TargetAliases(t)
                     THEN SetDbSession(a, c, t) ELSE c]
  BY DEF SetScope
<1>2. QED
  BY <1>1, <1>t DEF Begin, SetDbSession, Usable, Connection

\* A successful set(), whatever transactions the scope opened for it,
\* preserves the invariant (TenantContext.set, using, the handlers).
LEMMA SetScopeStep ==
  ASSUME IInv, Depth < MaxDepth,
         NEW kind \in {"using", "handler"}, NEW t \in Scope,
         NEW own \in SUBSET Aliases, \A a \in own : ~conn[a].inTx,
         SetScope(kind, t, own)
  PROVE  IInv'
<1> DEFINE f == [kind |-> kind, tenant |-> t, prev |-> tenant, owned |-> own,
                 alias |-> Default, level |-> depth[Default],
                 savedVar |-> conn[Default].var, savedFlag |-> conn[Default].flag]
<1>t. /\ tenant \in Scope /\ depth \in [Aliases -> Nat] /\ frames \in Seq(Frame)
      /\ conn \in [Aliases -> Connection] /\ Len(frames) \in Nat
  BY DEF IInv, TypeOK
<1>f. f \in Frame
  <2>1. Default \in Aliases
    BY AliasAssumption
  <2>2. depth[Default] \in Nat /\ conn[Default].var \in Scope /\ conn[Default].flag \in BOOLEAN
    BY <1>t, <2>1 DEF Connection
  <2>3. QED
    BY <1>t, <2>1, <2>2 DEF Frame, Kinds
<1>p. frames' = Append(frames, f) /\ tenant' = t /\ depth' = depth
  BY DEF SetScope, Push
<1>c. /\ conn' \in [Aliases -> Connection]
      /\ \A a \in Aliases :
           /\ conn'[a].inTx = (conn[a].inTx \/ a \in own)
           /\ conn'[a].aborted = conn[a].aborted
           /\ conn'[a].flag = conn[a].flag
           /\ conn'[a].var = IF /\ t # NoTenant /\ a \in TargetAliases(t) /\ WritesVar(a)
                                /\ conn'[a].inTx /\ ~conn[a].aborted
                             THEN t ELSE conn[a].var
  BY SetScopeFacts
<1>k. /\ f.kind = kind /\ f.tenant = t /\ f.prev = tenant /\ f.owned = own
  OBVIOUS
<1> HIDE DEF f
<1>1. StackInv'
  <2>1. Pushes(f)
    BY <1>p, <1>c, <1>k DEF Pushes
  <2>2. QED
    BY <2>1, <1>f, PushStep
<1>2. TypeOK'
  <2>1. frames' \in Seq(Frame) /\ Len(frames') <= MaxDepth
    BY <1>t, <1>f, <1>p, AppendFacts, SettingsAssumption DEF Depth
  <2>2. QED
    BY <2>1, <1>t, <1>p, <1>c DEF TypeOK
<1>3. ConnectionsClean'
  <2> SUFFICES ASSUME NEW a \in Aliases
               PROVE  /\ ~conn'[a].inTx => conn'[a] = Idle
                      /\ conn'[a].aborted => a \in FailingAliases
                      /\ conn'[a].var # NoTenant => WritesVar(a)
    BY DEF ConnectionsClean, WritesVar
  <2>1. /\ ~conn[a].inTx => conn[a] = Idle
        /\ conn[a].aborted => a \in FailingAliases
        /\ conn[a].var # NoTenant => WritesVar(a)
    BY DEF IInv, ConnectionsClean
  <2>2. conn'[a] \in Connection /\ conn[a] \in Connection
    BY <1>t, <1>c
  <2>3. ~conn'[a].inTx => conn'[a] = Idle
    BY <1>c, <2>1, <2>2 DEF Idle, Connection
  <2>4. QED
    BY <1>c, <2>1, <2>3
<1>4. NoForeignScope'
  <2> SUFFICES ASSUME NEW a \in Aliases, t # NoTenant, a \in TargetAliases(t), Usable(conn'[a])
               PROVE  conn'[a].var \in {NoTenant, t}
    BY <1>p DEF NoForeignScope, Guarded, ScopeAgrees, Usable, TargetAliases, RegionalAlias
  <2>1. conn'[a].var = IF WritesVar(a) THEN t ELSE conn[a].var
    BY <1>c DEF Usable
  <2>2. ~WritesVar(a) => conn[a].var = NoTenant
    BY DEF IInv, ConnectionsClean
  <2>3. QED
    BY <2>1, <2>2
<1>5. BypassIffOpen'
  <2> SUFFICES ASSUME NEW a \in Postgres, Usable(conn'[a])
               PROVE  conn'[a].flag <=> OpenBypass(a)'
    BY DEF BypassIffOpen, Usable
  <2>1. a \in Aliases
    BY AliasAssumption
  <2>2. OpenBypass(a)' <=> OpenBypass(a)
    BY <1>f, <1>k, <1>p, PushBypass
  <2>3. conn'[a].flag = conn[a].flag
    BY <1>c, <2>1
  <2>4. conn[a].flag <=> OpenBypass(a)
    <3>1. CASE conn[a].inTx
      BY <1>c, <2>1, <3>1 DEF IInv, BypassIffOpen, Usable
    <3>2. CASE ~conn[a].inTx
      <4>1. conn[a].flag = FALSE
        BY <2>1, <3>2 DEF IInv, ConnectionsClean, Idle
      <4>2. ~OpenBypass(a)
        BY <2>1, <3>2, BypassInTx
      <4>3. QED
        BY <4>1, <4>2, Zenon
    <3>3. QED
      BY <3>1, <3>2
  <2>5. QED
    BY <2>2, <2>3, <2>4, Zenon
<1>6. QED
  BY <1>1, <1>2, <1>3, <1>4, <1>5 DEF IInv, StackInv

\* What a scope that sets no tenant does to the connections on entry: it
\* begins its transactions, and a bypass raises the flag on its alias.
Quiet(f) ==
    /\ conn' \in [Aliases -> Connection]
    /\ \A a \in Aliases :
          /\ conn'[a].inTx = (conn[a].inTx \/ a \in f.owned)
          /\ conn'[a].aborted = conn[a].aborted
          /\ conn'[a].var = conn[a].var
          /\ conn'[a].flag = IF f.kind = "bypass" /\ f.alias = a THEN TRUE ELSE conn[a].flag

\* Entering a scope that sets no tenant preserves the invariant.
LEMMA EnterStep ==
  ASSUME IInv, NEW f \in Frame, f.kind \in {"bare", "bypass", "atomic"}, f.tenant = tenant,
         Pushes(f), Quiet(f), Depth < MaxDepth, depth' \in [Aliases -> Nat]
  PROVE  IInv'
<1>t. /\ tenant \in Scope /\ frames \in Seq(Frame)
      /\ conn \in [Aliases -> Connection] /\ Len(frames) \in Nat
  BY DEF IInv, TypeOK
<1>p. frames' = Append(frames, f) /\ tenant' = tenant
  BY DEF Pushes
<1>1. StackInv'
  BY PushStep
<1>2. TypeOK'
  <2>1. frames' \in Seq(Frame) /\ Len(frames') <= MaxDepth
    BY <1>t, <1>p, AppendFacts, SettingsAssumption DEF Depth
  <2>2. QED
    BY <2>1, <1>t, <1>p DEF TypeOK, Quiet
<1>3. ConnectionsClean'
  <2> SUFFICES ASSUME NEW a \in Aliases
               PROVE  /\ ~conn'[a].inTx => conn'[a] = Idle
                      /\ conn'[a].aborted => a \in FailingAliases
                      /\ conn'[a].var # NoTenant => WritesVar(a)
    BY DEF ConnectionsClean, WritesVar
  <2>1. /\ ~conn[a].inTx => conn[a] = Idle
        /\ conn[a].aborted => a \in FailingAliases
        /\ conn[a].var # NoTenant => WritesVar(a)
    BY DEF IInv, ConnectionsClean
  <2>2. conn'[a] \in Connection /\ conn[a] \in Connection
    BY <1>t DEF Quiet
  <2>3. f.kind = "bypass" /\ f.alias = a => conn'[a].inTx
    BY DEF Pushes, Quiet
  <2>4. /\ conn'[a].inTx = (conn[a].inTx \/ a \in f.owned)
        /\ conn'[a].aborted = conn[a].aborted
        /\ conn'[a].var = conn[a].var
        /\ ~conn'[a].inTx => conn'[a].flag = conn[a].flag
    BY <2>3 DEF Quiet
  <2>5. ~conn'[a].inTx => conn'[a] = Idle
    BY <2>1, <2>2, <2>4 DEF Idle, Connection
  <2>6. QED
    BY <2>1, <2>4, <2>5
<1>4. NoForeignScope'
  <2> SUFFICES ASSUME NEW a \in Aliases, ~(a = Default /\ DefaultExposed),
                      tenant # NoTenant, a \in TargetAliases(tenant), Usable(conn'[a])
               PROVE  conn'[a].var \in {NoTenant, tenant}
    BY <1>p DEF NoForeignScope, Guarded, ScopeAgrees, Usable, TargetAliases, RegionalAlias,
                DefaultExposed
  <2>1. conn'[a].var = conn[a].var /\ ~conn[a].aborted
    BY DEF Quiet, Usable
  <2>2. CASE conn[a].inTx
    BY <2>1, <2>2 DEF IInv, NoForeignScope, Guarded, ScopeAgrees, Usable
  <2>3. CASE ~conn[a].inTx
    BY <2>1, <2>3 DEF IInv, ConnectionsClean, Idle
  <2>4. QED
    BY <2>2, <2>3
<1>5. BypassIffOpen'
  <2> SUFFICES ASSUME NEW a \in Postgres, Usable(conn'[a])
               PROVE  conn'[a].flag <=> OpenBypass(a)'
    BY DEF BypassIffOpen, Usable
  <2>1. a \in Aliases
    BY AliasAssumption
  <2>2. OpenBypass(a)' <=> OpenBypass(a) \/ (f.kind = "bypass" /\ f.alias = a)
    BY <1>p, PushBypass
  <2>3. CASE f.kind = "bypass" /\ f.alias = a
    <3>1. conn'[a].flag = TRUE
      BY <2>1, <2>3 DEF Quiet
    <3>2. QED
      BY <2>2, <2>3, <3>1, Zenon
  <2>4. CASE ~(f.kind = "bypass" /\ f.alias = a)
    <3>1. conn'[a].flag = conn[a].flag /\ ~conn[a].aborted
      BY <2>1, <2>4 DEF Quiet, Usable
    <3>2. conn[a].flag <=> OpenBypass(a)
      <4>1. CASE conn[a].inTx
        BY <3>1, <4>1 DEF IInv, BypassIffOpen, Usable
      <4>2. CASE ~conn[a].inTx
        <5>1. conn[a].flag = FALSE
          BY <2>1, <4>2 DEF IInv, ConnectionsClean, Idle
        <5>2. ~OpenBypass(a)
          BY <2>1, <4>2, BypassInTx
        <5>3. QED
          BY <5>1, <5>2, Zenon
      <4>3. QED
        BY <4>1, <4>2
    <3>3. QED
      BY <2>2, <2>4, <3>1, <3>2, Zenon
  <2>5. QED
    BY <2>3, <2>4
<1>6. QED
  BY <1>1, <1>2, <1>3, <1>4, <1>5 DEF IInv, StackInv

\* What leaving the innermost scope f does to the connections: f's own
\* transactions end, and where a usable connection stays in its transaction
\* the variable agrees with the tenant restored and the flag is unchanged,
\* unless the scope is the outermost bypass there or a savepoint.
Settles(f) ==
    /\ conn' \in [Aliases -> Connection]
    /\ \A a \in f.owned : conn'[a] = Idle
    /\ \A a \in Aliases \ f.owned :
          /\ conn'[a].inTx = conn[a].inTx
          /\ ~conn[a].inTx => conn'[a] = Idle
          /\ conn'[a].aborted => conn[a].aborted
          /\ conn'[a].var # NoTenant => WritesVar(a)
          /\ Usable(conn'[a]) /\ f.prev # NoTenant /\ a \in TargetAliases(f.prev)
             /\ ~(a = Default /\ DefaultExposed)
                => conn'[a].var \in {NoTenant, f.prev}
          /\ Usable(conn'[a]) /\ a \in Postgres => (conn'[a].flag <=> OpenBypass(a)')

\* Leaving the innermost scope in that way preserves the invariant.
LEMMA ExitStep ==
  ASSUME IInv, Pops, Settles(Top), depth' \in [Aliases -> Nat]
  PROVE  IInv'
<1>p. /\ Len(frames) > 0 /\ frames' = Pop /\ tenant' = Top.prev
  BY DEF Pops
<1>t. /\ Top \in Frame /\ Pop \in Seq(Frame) /\ Len(Pop) = Len(frames) - 1
      /\ Len(frames) \in Nat /\ Len(frames) <= MaxDepth
  BY <1>p, PopFacts DEF IInv, TypeOK
<1>o. Top.prev \in Scope /\ Top.owned \subseteq Aliases
  BY <1>t DEF Frame
<1>1. StackInv'
  BY PopStep
<1>2. TypeOK'
  <2>1. Len(frames') <= MaxDepth
    BY <1>p, <1>t, SettingsAssumption
  <2>2. QED
    BY <2>1, <1>p, <1>t, <1>o DEF TypeOK, Settles
<1>3. ConnectionsClean'
  <2> SUFFICES ASSUME NEW a \in Aliases
               PROVE  /\ ~conn'[a].inTx => conn'[a] = Idle
                      /\ conn'[a].aborted => a \in FailingAliases
                      /\ conn'[a].var # NoTenant => WritesVar(a)
    BY DEF ConnectionsClean, WritesVar
  <2>1. CASE a \in Top.owned
    BY <2>1 DEF Settles, Idle
  <2>2. CASE a \notin Top.owned
    BY <2>2 DEF Settles, IInv, ConnectionsClean
  <2>3. QED
    BY <2>1, <2>2
<1>4. NoForeignScope'
  <2> SUFFICES ASSUME NEW a \in Aliases, ~(a = Default /\ DefaultExposed), Top.prev # NoTenant,
                      a \in TargetAliases(Top.prev), Usable(conn'[a])
               PROVE  conn'[a].var \in {NoTenant, Top.prev}
    BY <1>p DEF NoForeignScope, Guarded, ScopeAgrees, Usable, TargetAliases, RegionalAlias,
                DefaultExposed
  <2>1. a \notin Top.owned
    BY DEF Settles, Usable, Idle
  <2>2. QED
    BY <2>1 DEF Settles
<1>5. BypassIffOpen'
  <2> SUFFICES ASSUME NEW a \in Postgres, Usable(conn'[a])
               PROVE  conn'[a].flag <=> OpenBypass(a)'
    BY DEF BypassIffOpen, Usable
  <2>1. a \in Aliases /\ a \notin Top.owned
    BY AliasAssumption DEF Settles, Usable, Idle
  <2>2. QED
    BY <2>1 DEF Settles
<1>6. QED
  BY <1>1, <1>2, <1>3, <1>4, <1>5 DEF IInv, StackInv

\* What the exit of using() and clear() does to the connections: the scope's
\* transactions end; a usable connection takes the variable of the tenant restored on its
\* aliases, and loses the variable on the aliases of the tenant left.
LEMMA RestoreFacts ==
  ASSUME IInv, Depth > 0, RestoreScope(Top)
  PROVE  /\ conn' \in [Aliases -> Connection]
         /\ \A a \in Top.owned : conn'[a] = Idle
         /\ \A a \in Aliases \ Top.owned :
              /\ conn'[a].inTx = conn[a].inTx
              /\ conn'[a].aborted = conn[a].aborted
              /\ conn'[a].flag = conn[a].flag
              /\ ~Usable(conn[a]) \/ ~WritesVar(a) => conn'[a] = conn[a]
              /\ /\ Usable(conn[a]) /\ WritesVar(a)
                 /\ Top.prev # NoTenant /\ a \in TargetAliases(Top.prev)
                 => conn'[a].var = Top.prev
              /\ /\ Usable(conn[a]) /\ WritesVar(a) /\ a \in TargetAliases(Top.tenant)
                 /\ ~(Top.prev # NoTenant /\ a \in TargetAliases(Top.prev))
                 => conn'[a].var = NoTenant
              /\ /\ a \notin TargetAliases(Top.tenant)
                 /\ ~(Top.prev # NoTenant /\ a \in TargetAliases(Top.prev))
                 => conn'[a] = conn[a]
<1>t. Top \in Frame /\ conn \in [Aliases -> Connection]
  BY PopFacts DEF IInv, TypeOK, Depth
<1>f. Top.prev \in Scope /\ Top.owned \subseteq Aliases
  BY <1>t DEF Frame
<1> DEFINE Cleared(a) == IF a \in TargetAliases(Top.tenant)
                         THEN SetDbSession(a, conn[a], NoTenant) ELSE conn[a]
           Back(a) == IF Top.prev # NoTenant /\ a \in TargetAliases(Top.prev)
                      THEN SetDbSession(a, Cleared(a), Top.prev) ELSE Cleared(a)
<1>1. conn' = [a \in Aliases |-> IF a \in Top.owned THEN Idle ELSE Back(a)]
  BY DEF RestoreScope
<1>2. ASSUME NEW a \in Aliases
      PROVE  /\ Cleared(a) \in Connection
             /\ Cleared(a).inTx = conn[a].inTx /\ Cleared(a).aborted = conn[a].aborted
             /\ Cleared(a).flag = conn[a].flag
             /\ ~Usable(conn[a]) \/ ~WritesVar(a) => Cleared(a) = conn[a]
             /\ /\ Usable(conn[a]) /\ WritesVar(a) /\ a \in TargetAliases(Top.tenant)
                => Cleared(a).var = NoTenant
             /\ a \notin TargetAliases(Top.tenant) => Cleared(a) = conn[a]
  <2>1. conn[a] \in Connection
    BY <1>t
  <2>2. QED
    BY <2>1 DEF SetDbSession, Usable, Connection, Scope
<1> HIDE DEF Cleared
<1>3. ASSUME NEW a \in Aliases
      PROVE  /\ Back(a) \in Connection
             /\ Back(a).inTx = conn[a].inTx /\ Back(a).aborted = conn[a].aborted
             /\ Back(a).flag = conn[a].flag
             /\ ~Usable(conn[a]) \/ ~WritesVar(a) => Back(a) = conn[a]
             /\ /\ Usable(conn[a]) /\ WritesVar(a)
                /\ Top.prev # NoTenant /\ a \in TargetAliases(Top.prev)
                => Back(a).var = Top.prev
             /\ ~(Top.prev # NoTenant /\ a \in TargetAliases(Top.prev)) => Back(a) = Cleared(a)
  BY <1>f, <1>2 DEF SetDbSession, Usable, Connection
<1> HIDE DEF Back
<1>4. Idle \in Connection
  BY DEF Idle, Connection, Scope
<1>5. conn' \in [Aliases -> Connection]
  BY <1>1, <1>3, <1>4
<1>6. \A a \in Top.owned : conn'[a] = Idle
  BY <1>f, <1>1
<1>7. \A a \in Aliases \ Top.owned : conn'[a] = Back(a)
  BY <1>1
<1>8. QED
  BY <1>2, <1>3, <1>5, <1>6, <1>7

\* The exit of using() and clear() preserves the invariant.
LEMMA RestoreStep ==
  ASSUME IInv, Depth > 0, Top.kind \in {"using", "handler"}, RestoreScope(Top),
         frames' = Pop, depth' = depth
  PROVE  IInv'
<1>t. /\ Top \in Frame /\ conn \in [Aliases -> Connection] /\ depth \in [Aliases -> Nat]
      /\ Len(frames) > 0
  BY PopFacts DEF IInv, TypeOK, Depth
<1>f. Top.prev \in Scope /\ Top.owned \subseteq Aliases
  BY <1>t DEF Frame
<1>c. /\ conn' \in [Aliases -> Connection]
      /\ \A a \in Top.owned : conn'[a] = Idle
      /\ \A a \in Aliases \ Top.owned :
           /\ conn'[a].inTx = conn[a].inTx
           /\ conn'[a].aborted = conn[a].aborted
           /\ conn'[a].flag = conn[a].flag
           /\ ~Usable(conn[a]) \/ ~WritesVar(a) => conn'[a] = conn[a]
           /\ /\ Usable(conn[a]) /\ WritesVar(a)
              /\ Top.prev # NoTenant /\ a \in TargetAliases(Top.prev)
              => conn'[a].var = Top.prev
  BY RestoreFacts
<1>1. Pops
  BY <1>t, <1>c DEF Pops, RestoreScope, Idle
<1>2. Settles(Top)
  <2> SUFFICES ASSUME NEW a \in Aliases \ Top.owned
               PROVE  /\ conn'[a].inTx = conn[a].inTx
                      /\ ~conn[a].inTx => conn'[a] = Idle
                      /\ conn'[a].aborted => conn[a].aborted
                      /\ conn'[a].var # NoTenant => WritesVar(a)
                      /\ /\ Usable(conn'[a]) /\ Top.prev # NoTenant
                         /\ a \in TargetAliases(Top.prev)
                         => conn'[a].var \in {NoTenant, Top.prev}
                      /\ Usable(conn'[a]) /\ a \in Postgres => (conn'[a].flag <=> OpenBypass(a)')
    BY <1>c DEF Settles
  <2>1. conn'[a].inTx = conn[a].inTx /\ conn'[a].aborted = conn[a].aborted
    BY <1>c
  <2>2. ~conn[a].inTx => conn'[a] = Idle
    BY <1>c DEF IInv, ConnectionsClean, Usable
  <2>3. conn'[a].var # NoTenant => WritesVar(a)
    BY <1>c DEF IInv, ConnectionsClean
  <2>4. ASSUME Usable(conn'[a]), Top.prev # NoTenant, a \in TargetAliases(Top.prev)
        PROVE  conn'[a].var \in {NoTenant, Top.prev}
    BY <1>c, <2>1, <2>3, <2>4 DEF Usable
  <2>5. ASSUME Usable(conn'[a]), a \in Postgres
        PROVE  conn'[a].flag <=> OpenBypass(a)'
    <3>1. OpenBypass(a) <=> OpenBypass(a)'
      BY <1>t, PopBypass
    <3>2. conn[a].flag <=> OpenBypass(a)
      BY <2>1, <2>5 DEF IInv, BypassIffOpen, Usable
    <3>3. conn'[a].flag = conn[a].flag
      BY <1>c
    <3>4. QED
      BY <3>1, <3>2, <3>3, Zenon
  <2>6. QED
    BY <2>1, <2>2, <2>3, <2>4, <2>5
<1>3. QED
  BY <1>1, <1>2, <1>t, ExitStep

\* What a set() that raises does to the connections: the only trace it can
\* leave is the new tenant on an exposed "default".
LEMMA SetRaisesFacts ==
  ASSUME IInv, NEW t \in Scope, NEW own \in SUBSET Aliases, SetRaises(t, own)
  PROVE  /\ conn' \in [Aliases -> Connection]
         /\ \A a \in Aliases :
              /\ conn'[a].inTx = conn[a].inTx
              /\ conn'[a].aborted = conn[a].aborted
              /\ conn'[a].flag = conn[a].flag
              /\ a # Default \/ ~Usable(conn[a]) \/ ~WritesVar(a) => conn'[a] = conn[a]
              /\ conn'[a] # conn[a] => a = Default /\ DefaultExposed
<1>t. conn \in [Aliases -> Connection] /\ Default \in Aliases
  BY AliasAssumption DEF IInv, TypeOK
<1>c. /\ conn' \in [Aliases -> Connection]
      /\ \A a \in Aliases :
           /\ conn'[a].inTx = conn[a].inTx
           /\ conn'[a].aborted = conn[a].aborted
           /\ conn'[a].flag = conn[a].flag
           /\ a # Default \/ ~Usable(conn[a]) \/ ~WritesVar(a) => conn'[a] = conn[a]
           /\ conn'[a] # conn[a] => Default \notin Refusing(t)
  <2>1. conn' = [conn EXCEPT ![Default] =
                   IF Default \in own \cup Refusing(t) THEN conn[Default]
                   ELSE SetDbSession(Default, conn[Default], t)]
    BY DEF SetRaises
  <2>2. conn[Default] \in Connection
    BY <1>t
  <2>3. QED
    BY <1>t, <2>1, <2>2 DEF SetDbSession, Usable, Connection
<1>x. \A a \in Aliases : conn'[a] # conn[a] => a = Default /\ DefaultExposed
  <2> SUFFICES ASSUME NEW a \in Aliases, conn'[a] # conn[a]
               PROVE  a = Default /\ DefaultExposed
    OBVIOUS
  <2>1. a = Default /\ WritesVar(a) /\ Default \notin Refusing(t)
    BY <1>c
  <2>2. PICK b \in TargetAliases(t) : b # Default /\ conn[b].aborted /\ t # NoTenant
    BY <2>1 DEF SetRaises, Refusing
  <2>3. b \in RegionalAlias(t) /\ b \in FailingAliases /\ t \in Tenants
    BY <2>2, TargetsAreAliases DEF TargetAliases, Scope, IInv, ConnectionsClean
  <2>4. QED
    BY <2>1, <2>3 DEF DefaultExposed, WritesVar
<1>1. QED
  BY <1>c, <1>x

\* A set() that raises preserves the invariant.
LEMMA SetRaisesStep ==
  ASSUME IInv, NEW t \in Scope, NEW own \in SUBSET Aliases, SetRaises(t, own)
  PROVE  IInv'
<1>u. tenant' = tenant /\ depth' = depth /\ frames' = frames
  BY DEF SetRaises
<1>c. /\ conn' \in [Aliases -> Connection]
      /\ \A a \in Aliases :
           /\ conn'[a].inTx = conn[a].inTx
           /\ conn'[a].aborted = conn[a].aborted
           /\ conn'[a].flag = conn[a].flag
           /\ a # Default \/ ~Usable(conn[a]) \/ ~WritesVar(a) => conn'[a] = conn[a]
  BY SetRaisesFacts
<1>x. \A a \in Aliases : conn'[a] # conn[a] => a = Default /\ DefaultExposed
  BY SetRaisesFacts
<1>1. TypeOK'
  BY <1>u, <1>c DEF IInv, TypeOK
<1>2. StackInv'
  <2>1. TokensChain' /\ DepthCounts'
    BY <1>u DEF IInv, TokensChain, DepthCounts, Outside, BypassAt
  <2>2. OneOwner'
    BY <1>u, <1>c DEF IInv, OneOwner
  <2>3. SavepointsAgree'
    BY <1>u DEF IInv, SavepointsAgree, BypassAt, WritesVar, TargetAliases, RegionalAlias,
                DefaultExposed
  <2>4. QED
    BY <2>1, <2>2, <2>3 DEF StackInv
<1>3. ConnectionsClean'
  <2> SUFFICES ASSUME NEW a \in Aliases
               PROVE  /\ ~conn'[a].inTx => conn'[a] = Idle
                      /\ conn'[a].aborted => a \in FailingAliases
                      /\ conn'[a].var # NoTenant => WritesVar(a)
    BY DEF ConnectionsClean, WritesVar
  <2>1. QED
    BY <1>c DEF IInv, ConnectionsClean, Usable
<1>4. NoForeignScope'
  <2> SUFFICES ASSUME NEW a \in Aliases, ~(a = Default /\ DefaultExposed), tenant # NoTenant,
                      a \in TargetAliases(tenant), Usable(conn'[a])
               PROVE  conn'[a].var \in {NoTenant, tenant}
    BY <1>u DEF NoForeignScope, Guarded, ScopeAgrees, Usable, TargetAliases, RegionalAlias,
                DefaultExposed
  <2>1. conn'[a] = conn[a]
    BY <1>x
  <2>2. QED
    BY <2>1 DEF IInv, NoForeignScope, Guarded, ScopeAgrees
<1>5. BypassIffOpen'
  <2> SUFFICES ASSUME NEW a \in Postgres, Usable(conn'[a])
               PROVE  conn'[a].flag <=> OpenBypass(a)'
    BY DEF BypassIffOpen, Usable
  <2>1. a \in Aliases
    BY AliasAssumption
  <2>2. OpenBypass(a)' <=> OpenBypass(a)
    BY <1>u DEF OpenBypass, BypassAt
  <2>3. conn[a].flag <=> OpenBypass(a)
    BY <1>c, <2>1 DEF IInv, BypassIffOpen, Usable
  <2>4. conn'[a].flag = conn[a].flag
    BY <1>c, <2>1
  <2>5. QED
    BY <2>2, <2>3, <2>4, Zenon
<1>6. QED
  BY <1>1, <1>2, <1>3, <1>4, <1>5 DEF IInv, StackInv

\* The frame Push puts on the stack for a scope that sets no tenant.
QuietFrame(kind, own, a) ==
    [kind |-> kind, tenant |-> tenant, prev |-> tenant, owned |-> own, alias |-> a,
     level |-> depth[a], savedVar |-> conn[a].var, savedFlag |-> conn[a].flag]

\* It is a frame, and its fields are what they should be.
LEMMA QuietFrameFacts ==
  ASSUME IInv, NEW kind \in Kinds, NEW own \in SUBSET Aliases, NEW a \in Aliases
  PROVE  LET f == QuietFrame(kind, own, a) IN
         /\ f \in Frame
         /\ f.kind = kind /\ f.tenant = tenant /\ f.prev = tenant /\ f.owned = own
         /\ f.alias = a /\ f.level = depth[a] /\ f.savedVar = conn[a].var
         /\ f.savedFlag = conn[a].flag
<1>1. /\ tenant \in Scope /\ depth[a] \in Nat
      /\ conn[a].var \in Scope /\ conn[a].flag \in BOOLEAN
  BY DEF IInv, TypeOK, Connection
<1>2. QED
  BY <1>1 DEF QuietFrame, Frame

\* A task without tenant header preserves the invariant on entry.
LEMMA BareEnterStep ==
  ASSUME IInv, BareEnter
  PROVE  IInv'
<1> DEFINE own == EnsureAtomic({Default})
           f == QuietFrame("bare", own, Default)
<1>t. /\ conn \in [Aliases -> Connection] /\ depth \in [Aliases -> Nat]
      /\ Default \in Aliases /\ own \subseteq Aliases
  BY AliasAssumption DEF IInv, TypeOK, EnsureAtomic
<1>o. \A a \in own : ~conn[a].inTx
  BY DEF EnsureAtomic
<1>a. /\ Depth < MaxDepth /\ frames' = Append(frames, f) /\ tenant' = tenant /\ depth' = depth
      /\ conn' = [a \in Aliases |-> IF a \in own THEN Begin(conn[a]) ELSE conn[a]]
  BY DEF BareEnter, Push, QuietFrame
<1> HIDE DEF own
<1>f. /\ f \in Frame /\ f.kind = "bare" /\ f.tenant = tenant /\ f.prev = tenant
      /\ f.owned = own
  BY <1>t, QuietFrameFacts DEF Kinds
<1> HIDE DEF f
<1>q. Quiet(f)
  BY <1>t, <1>a, <1>f DEF Quiet, Begin, Connection
<1>p. Pushes(f)
  BY <1>t, <1>o, <1>a, <1>f, <1>q DEF Pushes, Quiet
<1>1. QED
  BY <1>t, <1>a, <1>f, <1>q, <1>p, EnterStep

\* admin_bypass() preserves the invariant on entry.
LEMMA BypassEnterStep ==
  ASSUME IInv, NEW b \in Aliases, BypassEnter(b)
  PROVE  IInv'
<1> DEFINE own == EnsureAtomic({b})
           f == QuietFrame("bypass", own, b)
           c == IF b \in own THEN Begin(conn[b]) ELSE conn[b]
<1>t. /\ conn \in [Aliases -> Connection] /\ depth \in [Aliases -> Nat]
      /\ own \subseteq {b}
  BY DEF IInv, TypeOK, EnsureAtomic
<1>o. \A a \in own : ~conn[a].inTx
  BY DEF EnsureAtomic
<1>a. /\ Depth < MaxDepth /\ frames' = Append(frames, f) /\ tenant' = tenant
      /\ depth' = [depth EXCEPT ![b] = @ + 1]
      /\ Usable(c) /\ conn' = [conn EXCEPT ![b] = [c EXCEPT !.flag = TRUE]]
  BY DEF BypassEnter, Push, QuietFrame
<1> HIDE DEF own
<1>f. /\ f \in Frame /\ f.kind = "bypass" /\ f.tenant = tenant /\ f.prev = tenant
      /\ f.owned = own /\ f.alias = b /\ f.level = depth[b]
  BY <1>t, QuietFrameFacts DEF Kinds
<1> HIDE DEF f
<1>c. /\ c \in Connection /\ c.inTx = (conn[b].inTx \/ b \in own) /\ c.inTx
      /\ c.aborted = conn[b].aborted /\ c.var = conn[b].var
  BY <1>t, <1>a DEF Begin, Connection, Usable
<1> HIDE DEF c
<1>q. Quiet(f)
  <2>1. conn'[b] = [c EXCEPT !.flag = TRUE] /\ \A a \in Aliases \ {b} : conn'[a] = conn[a]
    BY <1>t, <1>a
  <2>2. /\ conn'[b].inTx = c.inTx /\ conn'[b].aborted = c.aborted /\ conn'[b].var = c.var
        /\ conn'[b].flag = TRUE /\ conn'[b] \in Connection
    BY <1>c, <2>1 DEF Connection
  <2>3. conn' \in [Aliases -> Connection]
    BY <1>t, <1>a, <2>1, <2>2
  <2>4. \A a \in Aliases \ {b} : a \notin own /\ conn[a].inTx \in BOOLEAN
    BY <1>t DEF Connection
  <2>5. ASSUME NEW a \in Aliases
        PROVE  /\ conn'[a].inTx = (conn[a].inTx \/ a \in own)
               /\ conn'[a].aborted = conn[a].aborted
               /\ conn'[a].var = conn[a].var
               /\ conn'[a].flag = IF b = a THEN TRUE ELSE conn[a].flag
    <3>1. CASE a = b
      BY <1>c, <2>2, <3>1
    <3>2. CASE a # b
      <4>1. conn'[a] = conn[a] /\ a \notin own /\ conn[a].inTx \in BOOLEAN
        BY <2>1, <2>4, <3>2
      <4>2. QED
        BY <3>2, <4>1
    <3>3. QED
      BY <3>1, <3>2
  <2>6. QED
    BY <1>f, <2>3, <2>5 DEF Quiet
<1>d. /\ depth' \in [Aliases -> Nat] /\ depth'[b] = depth[b] + 1
      /\ \A a \in Aliases \ {b} : depth'[a] = depth[a]
  BY <1>t, <1>a
<1>p. Pushes(f)
  <2>1. conn[b].inTx \/ b \in own
    BY <1>c
  <2>2. \A a \in Aliases : conn'[a].inTx <=> conn[a].inTx \/ a \in f.owned
    BY <1>q DEF Quiet
  <2>3. QED
    BY <1>t, <1>o, <1>a, <1>f, <1>d, <2>1, <2>2 DEF Pushes
<1>1. QED
  BY <1>a, <1>d, <1>f, <1>q, <1>p, EnterStep

\* transaction.atomic() preserves the invariant on entry.
LEMMA AtomicEnterStep ==
  ASSUME IInv, NEW b \in Aliases, AtomicEnter(b)
  PROVE  IInv'
<1> DEFINE own == {b} \ {a \in Aliases : conn[a].inTx}
           f == QuietFrame("atomic", own, b)
<1>t. conn \in [Aliases -> Connection] /\ depth \in [Aliases -> Nat]
  BY DEF IInv, TypeOK
<1>o. own \subseteq {b} /\ (b \in own <=> ~conn[b].inTx)
  OBVIOUS
<1>a. /\ Depth < MaxDepth /\ frames' = Append(frames, f) /\ tenant' = tenant /\ depth' = depth
      /\ ~conn[b].aborted /\ conn' = [conn EXCEPT ![b] = Begin(conn[b])]
  BY DEF AtomicEnter, Push, QuietFrame
<1> HIDE DEF own
<1>f. /\ f \in Frame /\ f.kind = "atomic" /\ f.tenant = tenant /\ f.prev = tenant
      /\ f.owned = own /\ f.alias = b /\ f.savedVar = conn[b].var
      /\ f.savedFlag = conn[b].flag
  BY <1>o, QuietFrameFacts DEF Kinds
<1> HIDE DEF f
<1>q. Quiet(f)
  <2>1. conn'[b] = Begin(conn[b]) /\ \A a \in Aliases \ {b} : conn'[a] = conn[a]
    BY <1>t, <1>a
  <2>2. /\ conn'[b].inTx = TRUE /\ conn'[b].aborted = conn[b].aborted
        /\ conn'[b].var = conn[b].var /\ conn'[b].flag = conn[b].flag
        /\ conn'[b] \in Connection
    BY <1>t, <2>1 DEF Begin, Connection
  <2>3. conn' \in [Aliases -> Connection]
    BY <1>t, <1>a, <2>1, <2>2
  <2>4. \A a \in Aliases \ {b} : a \notin own /\ conn[a].inTx \in BOOLEAN
    BY <1>t, <1>o DEF Connection
  <2>5. ASSUME NEW a \in Aliases
        PROVE  /\ conn'[a].inTx = (conn[a].inTx \/ a \in own)
               /\ conn'[a].aborted = conn[a].aborted
               /\ conn'[a].var = conn[a].var
               /\ conn'[a].flag = conn[a].flag
    <3>1. CASE a = b
      BY <1>o, <2>2, <3>1
    <3>2. CASE a # b
      <4>1. conn'[a] = conn[a] /\ a \notin own /\ conn[a].inTx \in BOOLEAN
        BY <2>1, <2>4, <3>2
      <4>2. QED
        BY <3>2, <4>1
    <3>3. QED
      BY <3>1, <3>2
  <2>6. QED
    BY <1>f, <2>3, <2>5 DEF Quiet
<1>p. Pushes(f)
  <2>1. \A a \in Aliases : conn'[a].inTx <=> conn[a].inTx \/ a \in f.owned
    BY <1>q DEF Quiet
  <2>2. \A a \in own : ~conn[a].inTx
    BY <1>o
  <2>3. QED
    BY <1>o, <1>a, <1>f, <2>1, <2>2 DEF Pushes
<1>1. QED
  BY <1>t, <1>a, <1>f, <1>q, <1>p, EnterStep

\* A task without tenant header preserves the invariant on exit.
LEMMA BareExitStep ==
  ASSUME IInv, BareExit
  PROVE  IInv'
<1>t. /\ Top \in Frame /\ conn \in [Aliases -> Connection] /\ depth \in [Aliases -> Nat]
      /\ Len(frames) > 0 /\ Len(frames) \in DOMAIN frames
  BY PopFacts DEF IInv, TypeOK, Depth, BareExit
<1>f. Top.owned \subseteq Aliases
  BY <1>t DEF Frame
<1>a. /\ Top.kind = "bare" /\ frames' = Pop /\ tenant' = tenant /\ depth' = depth
      /\ conn' = [a \in Aliases |-> IF a \in Top.owned THEN Idle ELSE conn[a]]
  BY DEF BareExit
<1>k. tenant = Top.prev
  BY <1>t, <1>a, EmptySeq DEF IInv, TokensChain, Top
<1>c. /\ conn' \in [Aliases -> Connection]
      /\ \A a \in Top.owned : conn'[a] = Idle
      /\ \A a \in Aliases \ Top.owned : conn'[a] = conn[a]
  BY <1>t, <1>f, <1>a DEF Idle, Connection, Scope
<1>1. Pops
  BY <1>t, <1>a, <1>k, <1>c DEF Pops, Idle
<1>2. Settles(Top)
  <2> SUFFICES ASSUME NEW a \in Aliases \ Top.owned
               PROVE  /\ ~conn[a].inTx => conn[a] = Idle
                      /\ conn[a].var # NoTenant => WritesVar(a)
                      /\ /\ Usable(conn[a]) /\ tenant # NoTenant /\ a \in TargetAliases(tenant)
                         /\ ~(a = Default /\ DefaultExposed)
                         => conn[a].var \in {NoTenant, tenant}
                      /\ Usable(conn[a]) /\ a \in Postgres => (conn[a].flag <=> OpenBypass(a)')
    BY <1>k, <1>c DEF Settles
  <2>1. OpenBypass(a) <=> OpenBypass(a)'
    BY <1>t, <1>a, PopBypass
  <2>2. Usable(conn[a]) /\ a \in Postgres => (conn[a].flag <=> OpenBypass(a))
    BY DEF IInv, BypassIffOpen
  <2>3. Usable(conn[a]) /\ a \in Postgres => (conn[a].flag <=> OpenBypass(a)')
    BY <2>1, <2>2, Zenon
  <2>4. QED
    BY <2>3 DEF IInv, ConnectionsClean, NoForeignScope, Guarded, ScopeAgrees
<1>3. QED
  BY <1>1, <1>2, <1>t, <1>a, ExitStep

\* The scope an innermost bypass or atomic block works in still has its
\* transaction, and its tenant is the active one.
LEMMA TopFacts ==
  ASSUME IInv, Depth > 0, Top.kind \in {"bypass", "atomic"}
  PROVE  /\ Top \in Frame /\ Top.alias \in Aliases /\ Top.owned \subseteq {Top.alias}
         /\ Len(frames) \in Nat /\ Len(frames) > 0 /\ DOMAIN frames = 1..Len(frames)
         /\ Len(frames) \in DOMAIN frames
         /\ tenant = Top.tenant /\ tenant = Top.prev
         /\ conn[Top.alias].inTx
<1>1. /\ Top \in Frame /\ Len(frames) \in Nat /\ Len(frames) > 0
      /\ DOMAIN frames = 1..Len(frames) /\ Len(frames) \in DOMAIN frames /\ frames # <<>>
  BY PopFacts, EmptySeq DEF IInv, TypeOK, Depth
<1>2. tenant = Top.tenant /\ tenant = Top.prev
  BY <1>1 DEF IInv, TokensChain, Top
<1>3. PICK j \in 1..Len(frames) : Top.alias \in frames[j].owned
  BY <1>1 DEF IInv, OneOwner, Top
<1>4. Top.alias \in Aliases
  BY <1>1 DEF Frame
<1>5. Top.owned \subseteq {Top.alias}
  BY <1>1 DEF IInv, OneOwner, Top
<1>6. QED
  BY <1>1, <1>2, <1>3, <1>4, <1>5 DEF IInv, OneOwner

\* On every alias but the one it works on, leaving a bypass or an atomic
\* block changes nothing, so it settles there.
LEMMA SettlesElsewhere ==
  ASSUME IInv, Len(frames) > 0, frames' = Pop,
         NEW a \in Aliases, a # Top.alias \/ Top.kind # "bypass", conn'[a] = conn[a]
  PROVE  /\ ~conn[a].inTx => conn'[a] = Idle
         /\ conn'[a].var # NoTenant => WritesVar(a)
         /\ /\ Usable(conn'[a]) /\ tenant # NoTenant /\ a \in TargetAliases(tenant)
            /\ ~(a = Default /\ DefaultExposed)
            => conn'[a].var \in {NoTenant, tenant}
         /\ Usable(conn'[a]) /\ a \in Postgres => (conn'[a].flag <=> OpenBypass(a)')
<1>1. OpenBypass(a) <=> OpenBypass(a)'
  BY PopBypass
<1>2. Usable(conn[a]) /\ a \in Postgres => (conn[a].flag <=> OpenBypass(a))
  BY DEF IInv, BypassIffOpen
<1>3. Usable(conn'[a]) /\ a \in Postgres => (conn'[a].flag <=> OpenBypass(a)')
  BY <1>1, <1>2, Zenon
<1>4. QED
  BY <1>3 DEF IInv, ConnectionsClean, NoForeignScope, Guarded, ScopeAgrees

\* admin_bypass() preserves the invariant on exit: only the outermost one
\* finds depth zero, and only it lowers the flag.
LEMMA BypassExitStep ==
  ASSUME IInv, BypassExit
  PROVE  IInv'
<1> DEFINE b == Top.alias
           c == IF Top.level = 0 /\ Usable(conn[b])
                THEN [conn[b] EXCEPT !.flag = FALSE] ELSE conn[b]
<1>t. conn \in [Aliases -> Connection] /\ depth \in [Aliases -> Nat]
  BY DEF IInv, TypeOK
<1>a. /\ Depth > 0 /\ Top.kind = "bypass" /\ frames' = Pop /\ tenant' = tenant
      /\ conn' = [conn EXCEPT ![b] = IF b \in Top.owned THEN Idle ELSE c]
      /\ depth' = [depth EXCEPT ![b] = Top.level]
  BY DEF BypassExit
<1>f. /\ Top \in Frame /\ b \in Aliases /\ Top.owned \subseteq {b} /\ Len(frames) > 0
      /\ Len(frames) \in Nat /\ DOMAIN frames = 1..Len(frames) /\ Len(frames) \in DOMAIN frames
      /\ tenant = Top.prev /\ conn[b].inTx /\ Top.level \in Nat
  <2>1. Top \in Frame
    BY <1>a, TopFacts
  <2>2. QED
    BY <1>a, <2>1, TopFacts DEF Frame
<1>c. /\ c \in Connection /\ c.inTx = conn[b].inTx /\ c.aborted = conn[b].aborted
      /\ c.var = conn[b].var
      /\ c.flag = IF Top.level = 0 /\ Usable(conn[b]) THEN FALSE ELSE conn[b].flag
  BY <1>t, <1>f DEF Connection, Usable
<1>d. /\ depth' \in [Aliases -> Nat] /\ depth'[b] = Top.level
      /\ \A a \in Aliases \ {b} : depth'[a] = depth[a]
  BY <1>t, <1>a, <1>f
<1> HIDE DEF c
<1>e. /\ conn'[b] = IF b \in Top.owned THEN Idle ELSE c
      /\ \A a \in Aliases \ {b} : conn'[a] = conn[a]
      /\ conn' \in [Aliases -> Connection]
  <2>1. Idle \in Connection
    BY DEF Idle, Connection, Scope
  <2>2. QED
    BY <1>t, <1>a, <1>f, <1>c, <2>1
<1>1. Pops
  <2>1. ASSUME NEW a \in Aliases
        PROVE  conn'[a].inTx <=> conn[a].inTx /\ a \notin Top.owned
    <3>1. CASE a = b
      <4>1. b \in Top.owned => conn'[b].inTx = FALSE
        BY <1>e DEF Idle
      <4>2. b \notin Top.owned => conn'[b].inTx = conn[b].inTx
        BY <1>c, <1>e
      <4>3. QED
        BY <1>f, <3>1, <4>1, <4>2
    <3>2. CASE a # b
      BY <1>f, <1>e, <3>2
    <3>3. QED
      BY <3>1, <3>2
  <2>2. QED
    BY <1>a, <1>f, <1>d, <2>1 DEF Pops
<1>2. Settles(Top)
  <2>1. \A a \in Top.owned : conn'[a] = Idle
    BY <1>f, <1>e
  <2>2. ASSUME NEW a \in Aliases \ Top.owned
        PROVE  /\ conn'[a].inTx = conn[a].inTx
               /\ ~conn[a].inTx => conn'[a] = Idle
               /\ conn'[a].aborted => conn[a].aborted
               /\ conn'[a].var # NoTenant => WritesVar(a)
               /\ /\ Usable(conn'[a]) /\ tenant # NoTenant /\ a \in TargetAliases(tenant)
                  /\ ~(a = Default /\ DefaultExposed)
                  => conn'[a].var \in {NoTenant, tenant}
               /\ Usable(conn'[a]) /\ a \in Postgres => (conn'[a].flag <=> OpenBypass(a)')
    <3>1. CASE a # b
      BY <1>a, <1>f, <1>e, <3>1, SettlesElsewhere
    <3>2. CASE a = b
      <4>1. /\ conn'[a] = c /\ conn'[a].inTx = conn[a].inTx /\ conn[a].inTx
            /\ conn'[a].aborted = conn[a].aborted /\ conn'[a].var = conn[a].var
        BY <1>f, <1>c, <1>e, <3>2
      <4>2. conn'[a].var # NoTenant => WritesVar(a)
        BY <4>1 DEF IInv, ConnectionsClean
      <4>3. /\ Usable(conn'[a]) /\ tenant # NoTenant /\ a \in TargetAliases(tenant)
            /\ ~(a = Default /\ DefaultExposed)
            => conn'[a].var \in {NoTenant, tenant}
        BY <4>1 DEF IInv, NoForeignScope, Guarded, ScopeAgrees, Usable
      <4>4. ASSUME Usable(conn'[a]), a \in Postgres
            PROVE  conn'[a].flag <=> OpenBypass(a)'
        <5>1. BypassAt(Len(frames), a)
          BY <1>a, <3>2 DEF BypassAt, Top
        <5>2. Top.level = 0 <=> ~\E j \in 1..(Len(frames) - 1) : BypassAt(j, a)
          BY <1>f, <5>1 DEF IInv, DepthCounts, Top
        <5>3. OpenBypass(a)' <=> \E j \in 1..(Len(frames) - 1) : BypassAt(j, a)
          <6>1. /\ DOMAIN frames' = 1..(Len(frames) - 1)
                /\ \A j \in 1..(Len(frames) - 1) : frames'[j] = frames[j]
            BY <1>a, <1>f, PopFacts DEF IInv
          <6>2. QED
            BY <6>1 DEF OpenBypass, BypassAt
        <5>4. Usable(conn[a])
          BY <4>1, <4>4 DEF Usable
        <5>5. conn[a].flag
          <6>1. OpenBypass(a)
            BY <1>f, <5>1 DEF OpenBypass
          <6>2. QED
            BY <4>4, <5>4, <6>1 DEF IInv, BypassIffOpen
        <5>6. CASE Top.level = 0
          <6>1. conn'[a].flag = FALSE
            BY <1>c, <3>2, <4>1, <5>4, <5>6
          <6>2. QED
            BY <5>2, <5>3, <5>6, <6>1, Zenon
        <5>7. CASE Top.level # 0
          <6>1. conn'[a].flag = conn[a].flag
            BY <1>c, <3>2, <4>1, <5>7
          <6>2. QED
            BY <5>2, <5>3, <5>5, <5>7, <6>1, Zenon
        <5>8. QED
          BY <5>6, <5>7
      <4>5. QED
        BY <4>1, <4>2, <4>3, <4>4
    <3>3. QED
      BY <3>1, <3>2
  <2>3. QED
    BY <1>e, <1>f, <2>1, <2>2 DEF Settles
<1>3. QED
  BY <1>1, <1>2, <1>d, ExitStep

\* transaction.atomic() preserves the invariant on exit: a rolled back
\* savepoint brings back what its frame recorded.
LEMMA AtomicExitStep ==
  ASSUME IInv, NEW raised \in BOOLEAN, AtomicExit(raised)
  PROVE  IInv'
<1> DEFINE b == Top.alias
           back == raised \/ conn[b].aborted
           c == IF back THEN [conn[b] EXCEPT !.aborted = FALSE, !.var = Top.savedVar,
                                             !.flag = Top.savedFlag]
                ELSE conn[b]
<1>t. conn \in [Aliases -> Connection] /\ depth \in [Aliases -> Nat]
  BY DEF IInv, TypeOK
<1>a. /\ Depth > 0 /\ Top.kind = "atomic" /\ frames' = Pop /\ tenant' = tenant /\ depth' = depth
      /\ conn' = [conn EXCEPT ![b] = IF b \in Top.owned THEN Idle ELSE c]
  BY DEF AtomicExit
<1>f. /\ Top \in Frame /\ b \in Aliases /\ Top.owned \subseteq {b} /\ Len(frames) > 0
      /\ Len(frames) \in Nat /\ DOMAIN frames = 1..Len(frames) /\ Len(frames) \in DOMAIN frames
      /\ tenant = Top.prev /\ tenant = Top.tenant /\ conn[b].inTx
  BY <1>a, TopFacts
<1>g. Top.savedVar \in Scope /\ Top.savedFlag \in BOOLEAN
  BY <1>f DEF Frame
<1>c. /\ c \in Connection /\ c.inTx = conn[b].inTx
      /\ c.aborted = IF back THEN FALSE ELSE conn[b].aborted
      /\ c.var = IF back THEN Top.savedVar ELSE conn[b].var
      /\ c.flag = IF back THEN Top.savedFlag ELSE conn[b].flag
  BY <1>t, <1>f, <1>g DEF Connection
<1>d. ~back => c = conn[b]
  OBVIOUS
<1> HIDE DEF c, back
<1>e. /\ conn'[b] = IF b \in Top.owned THEN Idle ELSE c
      /\ \A a \in Aliases \ {b} : conn'[a] = conn[a]
      /\ conn' \in [Aliases -> Connection]
  <2>1. Idle \in Connection
    BY DEF Idle, Connection, Scope
  <2>2. QED
    BY <1>t, <1>a, <1>f, <1>c, <2>1
<1>1. Pops
  <2>1. ASSUME NEW a \in Aliases
        PROVE  conn'[a].inTx <=> conn[a].inTx /\ a \notin Top.owned
    <3>1. CASE a = b
      <4>1. b \in Top.owned => conn'[b].inTx = FALSE
        BY <1>e DEF Idle
      <4>2. b \notin Top.owned => conn'[b].inTx = conn[b].inTx
        BY <1>c, <1>e
      <4>3. QED
        BY <1>f, <3>1, <4>1, <4>2
    <3>2. CASE a # b
      BY <1>f, <1>e, <3>2
    <3>3. QED
      BY <3>1, <3>2
  <2>2. QED
    BY <1>a, <1>f, <2>1 DEF Pops
<1>2. Settles(Top)
  <2>1. \A a \in Top.owned : conn'[a] = Idle
    BY <1>f, <1>e
  <2>2. ASSUME NEW a \in Aliases \ Top.owned
        PROVE  /\ conn'[a].inTx = conn[a].inTx
               /\ ~conn[a].inTx => conn'[a] = Idle
               /\ conn'[a].aborted => conn[a].aborted
               /\ conn'[a].var # NoTenant => WritesVar(a)
               /\ /\ Usable(conn'[a]) /\ tenant # NoTenant /\ a \in TargetAliases(tenant)
                  /\ ~(a = Default /\ DefaultExposed)
                  => conn'[a].var \in {NoTenant, tenant}
               /\ Usable(conn'[a]) /\ a \in Postgres => (conn'[a].flag <=> OpenBypass(a)')
    <3>1. CASE a # b
      BY <1>a, <1>f, <1>e, <3>1, SettlesElsewhere
    <3>2. CASE a = b /\ ~back
      <4>1. conn'[a] = conn[a]
        BY <1>d, <1>e, <3>2
      <4>2. QED
        BY <1>a, <1>f, <4>1, SettlesElsewhere
    <3>3. CASE a = b /\ back
      <4>1. /\ conn'[a].inTx = conn[a].inTx /\ conn[a].inTx
            /\ conn'[a].aborted = FALSE
            /\ conn'[a].var = Top.savedVar /\ conn'[a].flag = Top.savedFlag
        BY <1>f, <1>c, <1>e, <3>3
      <4>2. /\ Top.savedVar # NoTenant => WritesVar(a)
            /\ tenant # NoTenant /\ a \in TargetAliases(tenant)
               /\ ~(a = Default /\ DefaultExposed)
                   => Top.savedVar \in {NoTenant, tenant}
            /\ a \in Postgres =>
                  (Top.savedFlag <=> \E j \in 1..(Len(frames) - 1) : BypassAt(j, a))
        BY <1>a, <1>f, <3>3 DEF IInv, SavepointsAgree, Top
      <4>3. OpenBypass(a)' <=> \E j \in 1..(Len(frames) - 1) : BypassAt(j, a)
        <5>1. /\ DOMAIN frames' = 1..(Len(frames) - 1)
              /\ \A j \in 1..(Len(frames) - 1) : frames'[j] = frames[j]
          BY <1>a, <1>f, PopFacts DEF IInv
        <5>2. QED
          BY <5>1 DEF OpenBypass, BypassAt
      <4>4. a \in Postgres => (conn'[a].flag <=> OpenBypass(a)')
        BY <4>1, <4>2, <4>3, Zenon
      <4>5. QED
        BY <4>1, <4>2, <4>4
    <3>4. QED
      BY <3>1, <3>2, <3>3
  <2>3. QED
    BY <1>e, <1>f, <2>1, <2>2 DEF Settles
<1>3. QED
  BY <1>1, <1>2, <1>a, <1>t, ExitStep

\* A statement that raises in the body preserves the invariant.
LEMMA SqlErrorStep ==
  ASSUME IInv, NEW b \in Aliases, SqlError(b)
  PROVE  IInv'
<1>t. conn \in [Aliases -> Connection]
  BY DEF IInv, TypeOK
<1>u. tenant' = tenant /\ depth' = depth /\ frames' = frames /\ b \in FailingAliases
  BY DEF SqlError
<1>c. /\ conn' \in [Aliases -> Connection]
      /\ \A a \in Aliases :
           /\ conn'[a].inTx = conn[a].inTx
           /\ conn'[a].flag = conn[a].flag
           /\ conn'[a].var = conn[a].var
           /\ conn'[a].aborted => conn[a].aborted \/ a = b
           /\ conn[a].aborted => conn'[a].aborted
           /\ conn'[a] # conn[a] => conn[a].inTx
  <2>1. conn' = [conn EXCEPT ![b].aborted = TRUE] /\ Usable(conn[b])
    BY DEF SqlError
  <2>2. QED
    BY <1>t, <2>1 DEF Connection, Usable
<1>1. TypeOK'
  BY <1>u, <1>c DEF IInv, TypeOK
<1>2. StackInv'
  <2>1. TokensChain' /\ DepthCounts'
    BY <1>u DEF IInv, TokensChain, DepthCounts, Outside, BypassAt
  <2>2. OneOwner'
    BY <1>u, <1>c DEF IInv, OneOwner
  <2>3. SavepointsAgree'
    BY <1>u DEF IInv, SavepointsAgree, BypassAt, WritesVar, TargetAliases, RegionalAlias,
                DefaultExposed
  <2>4. QED
    BY <2>1, <2>2, <2>3 DEF StackInv
<1>3. ConnectionsClean'
  <2> SUFFICES ASSUME NEW a \in Aliases
               PROVE  /\ ~conn'[a].inTx => conn'[a] = Idle
                      /\ conn'[a].aborted => a \in FailingAliases
                      /\ conn'[a].var # NoTenant => WritesVar(a)
    BY DEF ConnectionsClean, WritesVar
  <2>1. QED
    BY <1>u, <1>c DEF IInv, ConnectionsClean
<1>4. NoForeignScope'
  <2> SUFFICES ASSUME NEW a \in Aliases, ~(a = Default /\ DefaultExposed), tenant # NoTenant,
                      a \in TargetAliases(tenant), Usable(conn'[a])
               PROVE  conn'[a].var \in {NoTenant, tenant}
    BY <1>u DEF NoForeignScope, Guarded, ScopeAgrees, Usable, TargetAliases, RegionalAlias,
                DefaultExposed
  <2>1. QED
    BY <1>c DEF IInv, NoForeignScope, Guarded, ScopeAgrees, Usable
<1>5. BypassIffOpen'
  <2> SUFFICES ASSUME NEW a \in Postgres, Usable(conn'[a])
               PROVE  conn'[a].flag <=> OpenBypass(a)'
    BY DEF BypassIffOpen, Usable
  <2>1. a \in Aliases
    BY AliasAssumption
  <2>2. OpenBypass(a)' <=> OpenBypass(a)
    BY <1>u DEF OpenBypass, BypassAt
  <2>3. conn[a].flag <=> OpenBypass(a)
    BY <1>c, <2>1 DEF IInv, BypassIffOpen, Usable
  <2>4. conn'[a].flag = conn[a].flag
    BY <1>c, <2>1
  <2>5. QED
    BY <2>2, <2>3, <2>4, Zenon
<1>6. QED
  BY <1>1, <1>2, <1>3, <1>4, <1>5 DEF IInv, StackInv

(***************************************************************************)
(* The theorems                                                            *)
(***************************************************************************)

\* A fresh worker satisfies the invariant.
LEMMA InitStep == Init => IInv
<1> SUFFICES ASSUME Init PROVE IInv
  OBVIOUS
<1>1. /\ tenant = NoTenant /\ depth = [a \in Aliases |-> 0] /\ frames = <<>>
      /\ conn = [a \in Aliases |-> Idle]
  BY DEF Init
<1>2. TypeOK
  BY <1>1, SettingsAssumption DEF TypeOK, Scope, Connection, Idle
<1>3. DOMAIN frames = {}
  BY <1>1
<1>4. TokensChain /\ SavepointsAgree
  BY <1>1, <1>3 DEF TokensChain, SavepointsAgree
<1>5. OneOwner
  BY <1>1, <1>3 DEF OneOwner, Idle
<1>6. DepthCounts
  BY <1>1, <1>3 DEF DepthCounts
<1>7. ConnectionsClean /\ NoForeignScope
  BY <1>1 DEF ConnectionsClean, NoForeignScope, Guarded, ScopeAgrees, Usable, Idle
<1>8. BypassIffOpen
  BY <1>1, AliasAssumption DEF BypassIffOpen, Usable, Idle
<1>9. QED
  BY <1>2, <1>4, <1>5, <1>6, <1>7, <1>8 DEF IInv

\* EnsureAtomic only ever opens a transaction where there is none.
LEMMA EnsureAtomicFacts ==
  ASSUME NEW as
  PROVE  /\ EnsureAtomic(as) \in SUBSET Aliases
         /\ \A a \in EnsureAtomic(as) : ~conn[a].inTx
  BY AliasAssumption DEF EnsureAtomic

\* Every step of the worker preserves the invariant.
LEMMA NextStep == IInv /\ [Next]_vars => IInv'
<1> SUFFICES ASSUME IInv, [Next]_vars PROVE IInv'
  OBVIOUS
<1>1. ASSUME NEW t \in Scope, UsingEnter(t) PROVE IInv'
  <2>1. /\ Depth < MaxDepth
        /\ SetScope("using", t, EnsureAtomic(TargetAliases(t)))
    BY <1>1 DEF UsingEnter
  <2>2. QED
    BY <2>1, EnsureAtomicFacts, SetScopeStep
<1>2. ASSUME NEW t \in Scope, UsingRaises(t) PROVE IInv'
  <2>1. SetRaises(t, EnsureAtomic(TargetAliases(t)))
    BY <1>2 DEF UsingRaises
  <2>2. QED
    BY <2>1, EnsureAtomicFacts, SetRaisesStep
<1>3. CASE UsingExit
  BY <1>3, RestoreStep DEF UsingExit
<1>4. ASSUME NEW t \in Tenants, HandlerEnter(t) PROVE IInv'
  <2>1. /\ Depth < MaxDepth /\ t \in Scope
        /\ SetScope("handler", t, EnsureAtomic({Default}))
    BY <1>4 DEF HandlerEnter, Scope
  <2>2. QED
    BY <2>1, EnsureAtomicFacts, SetScopeStep
<1>5. ASSUME NEW t \in Tenants, HandlerRaises(t) PROVE IInv'
  <2>1. SetRaises(t, EnsureAtomic({Default})) /\ t \in Scope
    BY <1>5 DEF HandlerRaises, Scope
  <2>2. QED
    BY <2>1, EnsureAtomicFacts, SetRaisesStep
<1>6. CASE HandlerExit
  BY <1>6, RestoreStep DEF HandlerExit
<1>7. CASE BareEnter
  BY <1>7, BareEnterStep
<1>8. CASE BareExit
  BY <1>8, BareExitStep
<1>9. ASSUME NEW a \in Aliases, BypassEnter(a) PROVE IInv'
  BY <1>9, BypassEnterStep
<1>10. CASE BypassExit
  BY <1>10, BypassExitStep
<1>11. ASSUME NEW a \in Aliases, AtomicEnter(a) PROVE IInv'
  BY <1>11, AtomicEnterStep
<1>12. ASSUME NEW raised \in BOOLEAN, AtomicExit(raised) PROVE IInv'
  BY <1>12, AtomicExitStep
<1>13. ASSUME NEW a \in Aliases, SqlError(a) PROVE IInv'
  BY <1>13, SqlErrorStep
<1>14. CASE UNCHANGED vars
  BY <1>14 DEF vars, IInv, TypeOK, TokensChain, Outside, OneOwner, ConnectionsClean,
               SavepointsAgree, DepthCounts, NoForeignScope, Guarded, ScopeAgrees, DefaultExposed,
               BypassIffOpen, OpenBypass, BypassAt, Usable, WritesVar, TargetAliases,
               RegionalAlias
<1>15. QED
  BY <1>1, <1>2, <1>3, <1>4, <1>5, <1>6, <1>7, <1>8, <1>9, <1>10, <1>11, <1>12, <1>13, <1>14
     DEF Next

\* The invariant holds of every worker, for any tenants, aliases, regions,
\* settings, errors and nesting depth.
THEOREM Invariance == Spec => []IInv
  BY InitStep, NextStep, PTL DEF Spec

\* The worker's variables have their types; the bypass depth never goes
\* below zero (admin_bypass).
THEOREM TypeCorrect == Spec => []TypeOK
<1>1. IInv => TypeOK
  BY DEF IInv
<1>2. QED
  BY <1>1, Invariance, PTL

\* RLS never evaluates a foreign tenant id on an alias the active tenant
\* uses (TenantContext.using, set and clear under any nesting and errors).
THEOREM NoForeignScopeHolds == Spec => []NoForeignScope
<1>1. IInv => NoForeignScope
  BY DEF IInv
<1>2. QED
  BY <1>1, Invariance, PTL

\* The admin flag follows admin_bypass() exactly, alias by alias.
THEOREM BypassExact == Spec => []BypassIffOpen
<1>1. IInv => BypassIffOpen
  BY DEF IInv
<1>2. QED
  BY <1>1, Invariance, PTL

\* A worker outside every scope is as it was before its first: the thread
\* and its connections can serve another tenant.
THEOREM NothingOutlives == Spec => []NothingOutlivesTheLastScope
<1>1. IInv => NothingOutlivesTheLastScope
  <2> SUFFICES ASSUME IInv, frames = <<>>
               PROVE  /\ tenant = NoTenant
                      /\ \A a \in Aliases : conn[a] = Idle /\ depth[a] = 0
    BY DEF NothingOutlivesTheLastScope
  <2>1. DOMAIN frames = {}
    OBVIOUS
  <2>2. tenant = NoTenant
    BY DEF IInv, TokensChain
  <2>3. ASSUME NEW a \in Aliases PROVE conn[a] = Idle /\ depth[a] = 0
    <3>1. ~conn[a].inTx
      BY <2>1 DEF IInv, OneOwner
    <3>2. conn[a] = Idle
      BY <3>1 DEF IInv, ConnectionsClean
    <3>3. depth[a] = 0
      BY <2>1 DEF IInv, DepthCounts
    <3>4. QED
      BY <3>2, <3>3
  <2>4. QED
    BY <2>2, <2>3
<1>2. QED
  BY <1>1, Invariance, PTL

(***************************************************************************)
(* The abstract specification: TenantContext implements TenantScopes. IInv *)
(* says what the active tenant's aliases carry; VariablesHaveScopes adds   *)
(* that whatever else is carried has its scope open, and the two together  *)
(* are inductive.                                                          *)
(***************************************************************************)

RInv == IInv /\ VariablesHaveScopes

(***************************************************************************)
(* VariablesHaveScopes, by the three ways a step can treat the stack       *)
(***************************************************************************)

\* A step inside the scope (a statement, a set() that raises) that gives no
\* usable connection a new variable.
LEMMA StillHaveScopes ==
  ASSUME VariablesHaveScopes, frames' = frames,
         \A a \in Guarded : Usable(conn'[a]) /\ conn'[a].var # NoTenant =>
             Usable(conn[a]) /\ conn[a].var = conn'[a].var
  PROVE  VariablesHaveScopes'
<1> SUFFICES ASSUME NEW a \in Guarded
             PROVE  /\ Usable(conn'[a]) /\ conn'[a].var # NoTenant =>
                         HasScope(a, conn'[a].var, Len(frames))
                    /\ \A i \in DOMAIN frames : LET f == frames[i] IN
                         f.kind = "atomic" /\ f.alias = a /\ f.savedVar # NoTenant =>
                             HasScope(a, f.savedVar, i - 1)
  BY DEF VariablesHaveScopes, HasScope, Guarded, DefaultExposed, RegionalAlias, TargetAliases,
         Usable
<1>1. QED
  BY DEF VariablesHaveScopes

\* Entering a scope f: a variable is f's own tenant's or was there before, and
\* a savepoint remembers what was there before.
LEMMA EnterHasScopes ==
  ASSUME IInv, VariablesHaveScopes, NEW f \in Frame, frames' = Append(frames, f),
         \A a \in Guarded : Usable(conn'[a]) /\ conn'[a].var # NoTenant =>
             \/ conn'[a].var = f.tenant /\ a \in TargetAliases(f.tenant)
             \/ Usable(conn[a]) /\ conn[a].var = conn'[a].var,
         f.kind = "atomic" /\ f.savedVar # NoTenant =>
             Usable(conn[f.alias]) /\ conn[f.alias].var = f.savedVar
  PROVE  VariablesHaveScopes'
<1> DEFINE n == Len(frames)
<1>s. /\ n \in Nat /\ Len(frames') = n + 1 /\ DOMAIN frames' = 1..(n + 1)
      /\ DOMAIN frames = 1..n
      /\ \A i \in 1..n : frames'[i] = frames[i]
      /\ frames'[n + 1] = f
  BY AppendFacts DEF IInv, TypeOK
<1> HIDE DEF n
<1> SUFFICES ASSUME NEW a \in Guarded
             PROVE  /\ Usable(conn'[a]) /\ conn'[a].var # NoTenant =>
                         a \in TargetAliases(conn'[a].var)
                         /\ \E j \in 1..(n + 1) : frames'[j].tenant = conn'[a].var
                    /\ \A i \in 1..(n + 1) :
                         frames'[i].kind = "atomic" /\ frames'[i].alias = a
                         /\ frames'[i].savedVar # NoTenant =>
                             a \in TargetAliases(frames'[i].savedVar)
                             /\ \E j \in 1..(i - 1) : frames'[j].tenant = frames'[i].savedVar
  BY <1>s DEF VariablesHaveScopes, HasScope, Guarded, DefaultExposed, RegionalAlias,
              TargetAliases, Usable
<1>v. ASSUME Usable(conn[a]), conn[a].var # NoTenant
      PROVE  HasScope(a, conn[a].var, n)
  BY <1>v DEF VariablesHaveScopes, n
<1>1. ASSUME NEW t, t = conn'[a].var, Usable(conn'[a]), t # NoTenant
      PROVE  a \in TargetAliases(t) /\ \E j \in 1..(n + 1) : frames'[j].tenant = t
  <2>1. CASE t = f.tenant /\ a \in TargetAliases(f.tenant)
    <3>1. n + 1 \in 1..(n + 1)
      BY <1>s
    <3>2. frames'[n + 1].tenant = t
      BY <1>s, <2>1
    <3>3. QED
      BY <2>1, <3>1, <3>2
  <2>2. CASE Usable(conn[a]) /\ conn[a].var = t
    <3>1. HasScope(a, t, n) /\ n \in 0..n
      BY <1>s, <1>1, <1>v, <2>2
    <3>2. a \in TargetAliases(t)
      BY <3>1 DEF HasScope
    <3>3. PICK j \in 1..n : frames[j].tenant = t
      BY <3>1 DEF HasScope
    <3>4. j \in 1..(n + 1)
      BY <1>s, <3>3
    <3>5. frames'[j].tenant = t
      BY <1>s, <3>3
    <3>6. QED
      BY <3>2, <3>4, <3>5
  <2>3. QED
    BY <1>1, <2>1, <2>2
<1>2. ASSUME NEW i \in 1..(n + 1), NEW t, t = frames'[i].savedVar, t # NoTenant,
             frames'[i].kind = "atomic", frames'[i].alias = a
      PROVE  a \in TargetAliases(t) /\ \E j \in 1..(i - 1) : frames'[j].tenant = t
  <2>1. HasScope(a, t, i - 1)
    <3>1. CASE i = n + 1
      <4>1. i - 1 = n /\ frames'[i] = f
        BY <1>s, <3>1
      <4>2. Usable(conn[a]) /\ conn[a].var = t
        BY <1>2, <4>1
      <4>3. HasScope(a, t, n)
        BY <1>v, <1>2, <4>2
      <4>4. QED
        BY <4>1, <4>3
    <3>2. CASE i \in 1..n
      BY <1>s, <1>2, <3>2 DEF VariablesHaveScopes
    <3>3. QED
      BY <1>s, <3>1, <3>2
  <2>2. a \in TargetAliases(t)
    BY <2>1 DEF HasScope
  <2>3. PICK j \in 1..(i - 1) : frames[j].tenant = t
    BY <2>1 DEF HasScope
  <2>4. j \in 1..n
    BY <1>s, <2>3
  <2>5. frames'[j].tenant = t
    BY <1>s, <2>3, <2>4
  <2>6. QED
    BY <2>2, <2>3, <2>5
<1>3. QED
  BY <1>1, <1>2

\* Leaving the innermost scope: what a usable connection then carries has a
\* scope among those that remain.
LEMMA ExitHasScopes ==
  ASSUME IInv, VariablesHaveScopes, Len(frames) > 0, frames' = Pop,
         \A a \in Guarded : Usable(conn'[a]) /\ conn'[a].var # NoTenant =>
             HasScope(a, conn'[a].var, Len(frames) - 1)
  PROVE  VariablesHaveScopes'
<1> DEFINE n == Len(frames)
<1>s. /\ n \in Nat /\ n > 0 /\ Len(frames') = n - 1 /\ DOMAIN frames' = 1..(n - 1)
      /\ DOMAIN frames = 1..n
      /\ \A i \in 1..(n - 1) : i \in 1..n /\ frames'[i] = frames[i]
  BY PopFacts DEF IInv
<1>d. \A a \in Guarded : Usable(conn'[a]) /\ conn'[a].var # NoTenant =>
                             HasScope(a, conn'[a].var, n - 1)
  OBVIOUS
<1> HIDE DEF n
<1>h. ASSUME NEW a, NEW t, NEW m \in 0..(n - 1), HasScope(a, t, m)
      PROVE  a \in TargetAliases(t) /\ \E j \in 1..m : frames'[j].tenant = t
  <2>1. PICK j \in 1..m : frames[j].tenant = t
    BY <1>h DEF HasScope
  <2>2. j \in 1..(n - 1)
    BY <1>s
  <2>3. QED
    BY <1>s, <1>h, <2>1, <2>2 DEF HasScope
<1> SUFFICES ASSUME NEW a \in Guarded
             PROVE  /\ Usable(conn'[a]) /\ conn'[a].var # NoTenant =>
                         a \in TargetAliases(conn'[a].var)
                         /\ \E j \in 1..(n - 1) : frames'[j].tenant = conn'[a].var
                    /\ \A i \in 1..(n - 1) :
                         frames'[i].kind = "atomic" /\ frames'[i].alias = a
                         /\ frames'[i].savedVar # NoTenant =>
                             a \in TargetAliases(frames'[i].savedVar)
                             /\ \E j \in 1..(i - 1) : frames'[j].tenant = frames'[i].savedVar
  BY <1>s DEF VariablesHaveScopes, HasScope, Guarded, DefaultExposed, RegionalAlias,
              TargetAliases, Usable
<1>1. ASSUME Usable(conn'[a]), conn'[a].var # NoTenant
      PROVE  a \in TargetAliases(conn'[a].var)
             /\ \E j \in 1..(n - 1) : frames'[j].tenant = conn'[a].var
  <2>1. n - 1 \in 0..(n - 1)
    BY <1>s
  <2>2. QED
    BY <1>d, <1>h, <1>1, <2>1
<1>2. ASSUME NEW i \in 1..(n - 1), frames'[i].kind = "atomic", frames'[i].alias = a,
             frames'[i].savedVar # NoTenant
      PROVE  a \in TargetAliases(frames'[i].savedVar)
             /\ \E j \in 1..(i - 1) : frames'[j].tenant = frames'[i].savedVar
  <2>1. HasScope(a, frames'[i].savedVar, i - 1)
    BY <1>s, <1>2 DEF VariablesHaveScopes
  <2>2. i - 1 \in 0..(n - 1)
    BY <1>s
  <2>3. QED
    BY <1>h, <2>1, <2>2
<1>3. QED
  BY <1>1, <1>2

(***************************************************************************)
(* VariablesHaveScopes, action by action                                   *)
(***************************************************************************)

\* Entering a scope with set() (using, the handlers).
LEMMA SetScopeKeeps ==
  ASSUME RInv, NEW kind \in {"using", "handler"}, NEW t \in Scope,
         NEW own \in SUBSET Aliases, \A a \in own : ~conn[a].inTx, SetScope(kind, t, own)
  PROVE  VariablesHaveScopes'
<1> DEFINE f == [kind |-> kind, tenant |-> t, prev |-> tenant, owned |-> own,
                 alias |-> Default, level |-> depth[Default],
                 savedVar |-> conn[Default].var, savedFlag |-> conn[Default].flag]
<1>1. f \in Frame
  <2>1. /\ tenant \in Scope /\ depth[Default] \in Nat /\ Default \in Aliases
        /\ conn[Default].var \in Scope /\ conn[Default].flag \in BOOLEAN
    BY AliasAssumption DEF RInv, IInv, TypeOK, Connection
  <2>2. QED
    BY <2>1 DEF Frame, Kinds
<1>2. frames' = Append(frames, f) /\ f.kind = kind /\ f.tenant = t
  BY DEF SetScope, Push
<1> HIDE DEF f
<1>3. ASSUME NEW a \in Guarded, Usable(conn'[a]), conn'[a].var # NoTenant
      PROVE  \/ conn'[a].var = f.tenant /\ a \in TargetAliases(f.tenant)
             \/ Usable(conn[a]) /\ conn[a].var = conn'[a].var
  <2>1. a \in Aliases
    BY DEF Guarded
  <2>2. /\ conn'[a].inTx = (conn[a].inTx \/ a \in own)
        /\ conn'[a].aborted = conn[a].aborted
        /\ conn'[a].var = IF /\ t # NoTenant /\ a \in TargetAliases(t) /\ WritesVar(a)
                             /\ conn'[a].inTx /\ ~conn[a].aborted
                          THEN t ELSE conn[a].var
    BY <2>1, SetScopeFacts DEF RInv
  <2>3. ~conn[a].inTx => conn[a].var = NoTenant
    BY <2>1 DEF RInv, IInv, ConnectionsClean, Idle
  <2>4. QED
    BY <1>2, <1>3, <2>2, <2>3 DEF Usable
<1>4. QED
  BY <1>1, <1>2, <1>3, EnterHasScopes DEF RInv

\* Entering a scope that sets no tenant leaves every variable alone.
LEMMA QuietEnterKeeps ==
  ASSUME RInv, NEW kind \in {"bare", "bypass", "atomic"}, NEW own \in SUBSET Aliases,
         NEW b \in Aliases, frames' = Append(frames, QuietFrame(kind, own, b)),
         kind = "atomic" => ~conn[b].aborted,
         \A a \in Aliases : conn'[a].var = conn[a].var /\ conn'[a].aborted = conn[a].aborted
  PROVE  VariablesHaveScopes'
<1> DEFINE f == QuietFrame(kind, own, b)
<1>1. /\ f \in Frame /\ f.kind = kind /\ f.alias = b /\ f.savedVar = conn[b].var
  BY QuietFrameFacts DEF RInv, Kinds
<1> HIDE DEF f
<1>2. \A a \in Aliases : conn[a].var # NoTenant => conn[a].inTx
  BY DEF RInv, IInv, ConnectionsClean, Idle
<1>3. \A a \in Guarded : Usable(conn'[a]) /\ conn'[a].var # NoTenant =>
          Usable(conn[a]) /\ conn[a].var = conn'[a].var
  BY <1>2 DEF Usable, Guarded
<1>4. f.kind = "atomic" /\ f.savedVar # NoTenant =>
          Usable(conn[f.alias]) /\ conn[f.alias].var = f.savedVar
  BY <1>1, <1>2 DEF Usable
<1>5. frames' = Append(frames, f)
  BY DEF f
<1>6. QED
  BY <1>1, <1>3, <1>4, <1>5, EnterHasScopes DEF RInv

\* The scope left is not the only one that holds a tenant when it set none, or
\* when the tenant is not its own.
LEMMA HeldOutside ==
  ASSUME RInv, Len(frames) > 0, NEW a, NEW t, t # NoTenant, HasScope(a, t, Len(frames)),
         Top.kind \in {"bare", "bypass", "atomic"} \/ Top.tenant # t \/ Top.prev = t
  PROVE  HasScope(a, t, Len(frames) - 1)
<1> DEFINE n == Len(frames)
<1>n. n \in Nat /\ n > 0 /\ DOMAIN frames = 1..n /\ Top = frames[n]
  BY PopFacts DEF RInv, IInv, Top
<1>1. /\ Top.prev = IF n = 1 THEN NoTenant ELSE frames[n - 1].tenant
      /\ Top.kind \in {"bare", "bypass", "atomic"} => Top.tenant = Top.prev
  BY <1>n DEF RInv, IInv, TokensChain, Outside
<1>2. PICK i \in 1..n : frames[i].tenant = t
  BY DEF HasScope
<1>3. a \in TargetAliases(t)
  BY DEF HasScope
<1> HIDE DEF n
<1>4. CASE i = n
  <2>1. frames[n - 1].tenant = t /\ n - 1 \in 1..(n - 1)
    BY <1>n, <1>1, <1>2, <1>4
  <2>2. QED
    BY <1>3, <2>1 DEF HasScope, n
<1>5. CASE i # n
  <2>1. i \in 1..(n - 1)
    BY <1>n, <1>5
  <2>2. QED
    BY <1>2, <1>3, <2>1 DEF HasScope, n
<1>6. QED
  BY <1>4, <1>5

\* The exit of using() and clear(): the tenant left loses its aliases, the one
\* restored is that of the scope outside.
LEMMA RestoreKeeps ==
  ASSUME RInv, Depth > 0, Top.kind \in {"using", "handler"}, RestoreScope(Top), frames' = Pop
  PROVE  VariablesHaveScopes'
<1> DEFINE n == Len(frames)
<1>n. n \in Nat /\ n > 0 /\ DOMAIN frames = 1..n /\ Top = frames[n]
  BY PopFacts DEF RInv, IInv, Depth, Top
<1>p. Top.prev = IF n = 1 THEN NoTenant ELSE frames[n - 1].tenant
  BY <1>n DEF RInv, IInv, TokensChain, Outside
<1>1. ASSUME NEW a \in Guarded, NEW t, t = conn'[a].var, Usable(conn'[a]), t # NoTenant
      PROVE  HasScope(a, t, n - 1)
  <2>1. a \in Aliases \ Top.owned
    BY <1>1, RestoreFacts DEF RInv, Usable, Idle, Guarded
  <2>2. /\ conn'[a].inTx = conn[a].inTx
        /\ conn'[a].aborted = conn[a].aborted
        /\ ~Usable(conn[a]) \/ ~WritesVar(a) => conn'[a] = conn[a]
        /\ /\ Usable(conn[a]) /\ WritesVar(a)
           /\ Top.prev # NoTenant /\ a \in TargetAliases(Top.prev)
           => conn'[a].var = Top.prev
        /\ /\ Usable(conn[a]) /\ WritesVar(a) /\ a \in TargetAliases(Top.tenant)
           /\ ~(Top.prev # NoTenant /\ a \in TargetAliases(Top.prev))
           => conn'[a].var = NoTenant
        /\ /\ a \notin TargetAliases(Top.tenant)
           /\ ~(Top.prev # NoTenant /\ a \in TargetAliases(Top.prev))
           => conn'[a] = conn[a]
    BY <2>1, RestoreFacts DEF RInv
  <2>3. Usable(conn[a])
    BY <1>1, <2>2 DEF Usable
  <2>4. conn[a].var # NoTenant => WritesVar(a)
    BY <2>1 DEF RInv, IInv, ConnectionsClean
  <2>5. WritesVar(a)
    BY <1>1, <2>2, <2>4
  <2>6. CASE Top.prev # NoTenant /\ a \in TargetAliases(Top.prev)
    <3>1. t = Top.prev
      BY <1>1, <2>2, <2>3, <2>5, <2>6
    <3>2. n # 1 /\ frames[n - 1].tenant = t
      BY <1>p, <2>6, <3>1
    <3>3. n - 1 \in 1..(n - 1)
      BY <1>n, <3>2
    <3>4. QED
      BY <2>6, <3>1, <3>2, <3>3 DEF HasScope
  <2>7. CASE ~(Top.prev # NoTenant /\ a \in TargetAliases(Top.prev))
    <3>1. a \notin TargetAliases(Top.tenant) /\ t = conn[a].var
      BY <1>1, <2>2, <2>3, <2>5, <2>7
    <3>2. HasScope(a, t, n)
      BY <1>1, <2>3, <3>1 DEF RInv, VariablesHaveScopes
    <3>3. Top.tenant # t
      BY <3>1, <3>2 DEF HasScope
    <3>4. QED
      BY <1>1, <1>n, <3>2, <3>3, HeldOutside
  <2>8. QED
    BY <2>6, <2>7
<1>2. QED
  BY <1>1, <1>n, ExitHasScopes DEF RInv

\* Leaving a scope that set no tenant, where the variables stay.
LEMMA QuietExitKeeps ==
  ASSUME RInv, Depth > 0, Top.kind \in {"bare", "bypass", "atomic"}, frames' = Pop,
         \A a \in Guarded : Usable(conn'[a]) /\ conn'[a].var # NoTenant =>
             \/ Usable(conn[a]) /\ conn[a].var = conn'[a].var
             \/ HasScope(a, conn'[a].var, Len(frames) - 1)
  PROVE  VariablesHaveScopes'
<1>n. Len(frames) \in Nat /\ Len(frames) > 0
  BY PopFacts DEF RInv, IInv, Depth
<1>1. ASSUME NEW a \in Guarded, NEW t, t = conn'[a].var, Usable(conn'[a]), t # NoTenant
      PROVE  HasScope(a, t, Len(frames) - 1)
  <2>1. CASE Usable(conn[a]) /\ conn[a].var = t
    <3>1. HasScope(a, t, Len(frames))
      BY <1>1, <2>1 DEF RInv, VariablesHaveScopes
    <3>2. QED
      BY <1>1, <1>n, <3>1, HeldOutside
  <2>2. QED
    BY <1>1, <2>1
<1>2. QED
  BY <1>1, <1>n, ExitHasScopes DEF RInv

\* Leaving a task without tenant header.
LEMMA BareExitKeeps ==
  ASSUME RInv, BareExit
  PROVE  VariablesHaveScopes'
<1>1. ASSUME NEW a \in Guarded, Usable(conn'[a]), conn'[a].var # NoTenant
      PROVE  Usable(conn[a]) /\ conn[a].var = conn'[a].var
  BY <1>1 DEF BareExit, Guarded, Usable, Idle
<1>2. QED
  BY <1>1, QuietExitKeeps DEF BareExit

\* Leaving admin_bypass(): only its alias's flag changes, or its transaction
\* ends.
LEMMA BypassExitKeeps ==
  ASSUME RInv, BypassExit
  PROVE  VariablesHaveScopes'
<1>t. conn \in [Aliases -> Connection] /\ Depth > 0 /\ Top.kind = "bypass" /\ frames' = Pop
  BY DEF RInv, IInv, TypeOK, BypassExit
<1>b. Top.alias \in Aliases
  BY <1>t, TopFacts DEF RInv
<1>1. ASSUME NEW a \in Guarded, Usable(conn'[a]), conn'[a].var # NoTenant
      PROVE  Usable(conn[a]) /\ conn[a].var = conn'[a].var
  <2>1. CASE a # Top.alias
    <3>1. conn'[a] = conn[a]
      BY <1>t, <2>1 DEF BypassExit, Guarded
    <3>2. QED
      BY <1>1, <3>1
  <2>2. CASE a = Top.alias
    <3>1. conn[a] \in Connection
      BY <1>t, <1>b, <2>2
    <3>2. \/ conn'[a] = Idle
          \/ conn'[a] = conn[a]
          \/ conn'[a] = [conn[a] EXCEPT !.flag = FALSE]
      BY <1>t, <1>b, <2>2 DEF BypassExit
    <3>3. QED
      BY <1>1, <3>1, <3>2 DEF Usable, Idle, Connection
  <2>3. QED
    BY <2>1, <2>2
<1>2. QED
  BY <1>1, <1>t, QuietExitKeeps

\* Leaving transaction.atomic(): a rolled back savepoint brings back the
\* variable of a scope open around it.
LEMMA AtomicExitKeeps ==
  ASSUME RInv, NEW raised \in BOOLEAN, AtomicExit(raised)
  PROVE  VariablesHaveScopes'
<1> DEFINE b == Top.alias
           back == [conn[b] EXCEPT !.aborted = FALSE, !.var = Top.savedVar,
                                   !.flag = Top.savedFlag]
<1>t. /\ conn \in [Aliases -> Connection] /\ Depth > 0 /\ Top.kind = "atomic"
      /\ frames' = Pop
  BY DEF RInv, IInv, TypeOK, AtomicExit
<1>b. /\ b \in Aliases /\ Len(frames) \in DOMAIN frames /\ Top = frames[Len(frames)]
      /\ Len(frames) \in Nat
  BY <1>t, TopFacts DEF RInv, Top
<1>1. ASSUME NEW a \in Guarded, NEW t, t = conn'[a].var, Usable(conn'[a]), t # NoTenant
      PROVE  \/ Usable(conn[a]) /\ conn[a].var = t
             \/ HasScope(a, t, Len(frames) - 1)
  <2>1. CASE a # b
    <3>1. conn'[a] = conn[a]
      BY <1>t, <2>1 DEF AtomicExit, Guarded
    <3>2. QED
      BY <1>1, <3>1
  <2>2. CASE a = b
    <3>1. conn[b] \in Connection
      BY <1>t, <1>b
    <3>2. conn'[b] = Idle \/ conn'[b] = conn[b] \/ conn'[b] = back
      BY <1>t, <1>b DEF AtomicExit
    <3>3. back.var = Top.savedVar
      BY <3>1 DEF Connection
    <3> HIDE DEF back
    <3>4. CASE conn'[b] = back
      <4>1. t = Top.savedVar
        BY <1>1, <2>2, <3>3, <3>4
      <4>2. HasScope(a, Top.savedVar, Len(frames) - 1)
        BY <1>1, <1>t, <1>b, <2>2, <4>1 DEF RInv, VariablesHaveScopes
      <4>3. QED
        BY <4>1, <4>2
    <3>5. CASE conn'[b] = Idle \/ conn'[b] = conn[b]
      BY <1>1, <2>2, <3>5 DEF Usable, Idle
    <3>6. QED
      BY <3>2, <3>4, <3>5
  <2>3. QED
    BY <2>1, <2>2
<1>2. QED
  BY <1>1, <1>t, QuietExitKeeps

\* Entering admin_bypass() leaves the variables alone: it begins its alias's
\* transaction, where there was none, and raises the flag there.
LEMMA BypassEnterLeaves ==
  ASSUME IInv, NEW b \in Aliases, BypassEnter(b)
  PROVE  \A a \in Aliases : conn'[a].var = conn[a].var /\ conn'[a].aborted = conn[a].aborted
<1>t. conn \in [Aliases -> Connection]
  BY DEF IInv, TypeOK
<1>1. \E c \in {conn[b], Begin(conn[b])} : conn' = [conn EXCEPT ![b] = [c EXCEPT !.flag = TRUE]]
  BY DEF BypassEnter
<1>2. ASSUME NEW a \in Aliases
      PROVE  conn'[a].var = conn[a].var /\ conn'[a].aborted = conn[a].aborted
  <2>1. CASE a # b
    BY <1>t, <1>1, <2>1
  <2>2. CASE a = b
    <3>1. PICK c \in {conn[b], Begin(conn[b])} : conn'[a] = [c EXCEPT !.flag = TRUE]
      BY <1>t, <1>1, <2>2
    <3>2. conn[b] \in Connection
      BY <1>t
    <3>3. c \in Connection /\ c.var = conn[b].var /\ c.aborted = conn[b].aborted
      BY <3>2 DEF Begin, Connection
    <3>4. QED
      BY <2>2, <3>1, <3>3 DEF Connection
  <2>3. QED
    BY <2>1, <2>2
<1>3. QED
  BY <1>2

\* Every step of the worker preserves the strengthened invariant.
LEMMA RInvStep == RInv /\ [Next]_vars => RInv'
<1> SUFFICES ASSUME RInv, [Next]_vars PROVE VariablesHaveScopes'
  BY NextStep DEF RInv
<1>t. conn \in [Aliases -> Connection]
  BY DEF RInv, IInv, TypeOK
<1>1. ASSUME NEW t \in Scope, UsingEnter(t) PROVE VariablesHaveScopes'
  <2>1. SetScope("using", t, EnsureAtomic(TargetAliases(t)))
    BY <1>1 DEF UsingEnter
  <2>2. QED
    BY <2>1, EnsureAtomicFacts, SetScopeKeeps
<1>2. ASSUME NEW t \in Tenants, HandlerEnter(t) PROVE VariablesHaveScopes'
  <2>1. SetScope("handler", t, EnsureAtomic({Default})) /\ t \in Scope
    BY <1>2 DEF HandlerEnter, Scope
  <2>2. QED
    BY <2>1, EnsureAtomicFacts, SetScopeKeeps
<1>3. ASSUME NEW t \in Scope, NEW own \in SUBSET Aliases, SetRaises(t, own)
      PROVE  VariablesHaveScopes'
  <2>1. \A a \in Guarded : conn'[a] = conn[a]
    BY <1>3, SetRaisesFacts DEF RInv, Guarded
  <2>2. frames' = frames
    BY <1>3 DEF SetRaises
  <2>3. QED
    BY <2>1, <2>2, StillHaveScopes DEF RInv
<1>4. ASSUME NEW t \in Scope, UsingRaises(t) PROVE VariablesHaveScopes'
  BY <1>3, <1>4, EnsureAtomicFacts DEF UsingRaises
<1>5. ASSUME NEW t \in Tenants, HandlerRaises(t) PROVE VariablesHaveScopes'
  BY <1>3, <1>5, EnsureAtomicFacts DEF HandlerRaises, Scope
<1>6. CASE UsingExit \/ HandlerExit
  BY <1>6, RestoreKeeps DEF UsingExit, HandlerExit
<1>7. CASE BareEnter
  <2>1. frames' = Append(frames, QuietFrame("bare", EnsureAtomic({Default}), Default))
    BY <1>7 DEF BareEnter, Push, QuietFrame
  <2>2. \A a \in Aliases : conn'[a].var = conn[a].var /\ conn'[a].aborted = conn[a].aborted
    BY <1>t, <1>7 DEF BareEnter, Begin, Connection
  <2>3. QED
    BY <2>1, <2>2, AliasAssumption, EnsureAtomicFacts, QuietEnterKeeps
<1>8. ASSUME NEW b \in Aliases, BypassEnter(b) PROVE VariablesHaveScopes'
  <2>1. frames' = Append(frames, QuietFrame("bypass", EnsureAtomic({b}), b))
    BY <1>8 DEF BypassEnter, Push, QuietFrame
  <2>2. \A a \in Aliases : conn'[a].var = conn[a].var /\ conn'[a].aborted = conn[a].aborted
    BY <1>8, BypassEnterLeaves DEF RInv
  <2>3. QED
    BY <2>1, <2>2, EnsureAtomicFacts, QuietEnterKeeps
<1>9. ASSUME NEW b \in Aliases, AtomicEnter(b) PROVE VariablesHaveScopes'
  <2>1. /\ frames' = Append(frames,
              QuietFrame("atomic", {b} \ {a \in Aliases : conn[a].inTx}, b))
        /\ ~conn[b].aborted
    BY <1>9 DEF AtomicEnter, Push, QuietFrame
  <2>2. \A a \in Aliases : conn'[a].var = conn[a].var /\ conn'[a].aborted = conn[a].aborted
    BY <1>t, <1>9 DEF AtomicEnter, Begin, Connection
  <2>3. QED
    BY <2>1, <2>2, QuietEnterKeeps
<1>10. CASE BareExit
  BY <1>10, BareExitKeeps
<1>11. CASE BypassExit
  BY <1>11, BypassExitKeeps
<1>12. ASSUME NEW raised \in BOOLEAN, AtomicExit(raised) PROVE VariablesHaveScopes'
  BY <1>12, AtomicExitKeeps
<1>13. ASSUME NEW b \in Aliases, SqlError(b) PROVE VariablesHaveScopes'
  <2>1. frames' = frames /\ conn' = [conn EXCEPT ![b].aborted = TRUE]
    BY <1>13 DEF SqlError
  <2>2. \A a \in Guarded : Usable(conn'[a]) =>
            Usable(conn[a]) /\ conn[a].var = conn'[a].var
    BY <1>t, <2>1 DEF Usable, Connection, Guarded
  <2>3. QED
    BY <2>1, <2>2, StillHaveScopes DEF RInv
<1>14. CASE UNCHANGED vars
  <2>1. frames' = frames /\ conn' = conn
    BY <1>14 DEF vars
  <2>2. QED
    BY <2>1, StillHaveScopes DEF RInv
<1>15. QED
  BY <1>1, <1>2, <1>4, <1>5, <1>6, <1>7, <1>8, <1>9, <1>10, <1>11, <1>12, <1>13, <1>14
     DEF Next

(***************************************************************************)
(* The refinement                                                          *)
(***************************************************************************)

\* The tenants of the open scopes: the abstract stack.
OpenScopes == [i \in DOMAIN frames |-> frames[i].tenant]

LEMMA OpenScopesFacts ==
  ASSUME TypeOK
  PROVE  /\ OpenScopes \in Seq(Scope)
         /\ Len(OpenScopes) = Len(frames)
         /\ Len(frames) \in Nat
         /\ DOMAIN OpenScopes = 1..Len(frames)
         /\ \A i \in 1..Len(frames) : OpenScopes[i] = frames[i].tenant
<1>1. /\ frames \in Seq(Frame) /\ Len(frames) \in Nat /\ DOMAIN frames = 1..Len(frames)
      /\ \A i \in 1..Len(frames) : frames[i] \in Frame
  BY DEF TypeOK
<1>2. \A i \in 1..Len(frames) : frames[i].tenant \in Scope
  BY <1>1 DEF Frame
<1>3. OpenScopes \in [1..Len(frames) -> Scope]
  BY <1>1, <1>2 DEF OpenScopes
<1>4. OpenScopes \in Seq(Scope) /\ DOMAIN OpenScopes = 1..Len(frames)
  BY <1>1, <1>3
<1>5. Len(OpenScopes) = Len(frames)
  BY <1>1, <1>4, LenProperties
<1>6. QED
  BY <1>1, <1>4, <1>5 DEF OpenScopes

\* Entering a scope pushes its tenant on the abstract stack.
LEMMA EntersAbstractly ==
  ASSUME IInv, IInv', NEW f \in Frame, frames' = Append(frames, f)
  PROVE  /\ OpenScopes' = Append(OpenScopes, f.tenant)
         /\ tenant' = f.tenant /\ f.tenant \in Scope
<1> DEFINE n == Len(frames)
           s == Append(OpenScopes, f.tenant)
<1>1. /\ n \in Nat /\ DOMAIN frames = 1..n /\ DOMAIN frames' = 1..(n + 1)
      /\ Len(frames') = n + 1 /\ frames' # <<>>
      /\ \A i \in 1..n : frames'[i] = frames[i]
      /\ frames'[n + 1] = f
  BY AppendFacts DEF IInv, TypeOK
<1>2. /\ OpenScopes \in Seq(Scope) /\ Len(OpenScopes) = n
      /\ \A i \in 1..n : OpenScopes[i] = frames[i].tenant
  BY OpenScopesFacts DEF IInv
<1>3. f.tenant \in Scope
  BY DEF Frame
<1>4. OpenScopes' = [i \in 1..(n + 1) |-> frames'[i].tenant]
  BY <1>1 DEF OpenScopes
<1> HIDE DEF n
<1>5. /\ s \in Seq(Scope)
      /\ Len(s) = n + 1
      /\ \A i \in 1..n : s[i] = OpenScopes[i]
      /\ s[n + 1] = f.tenant
  BY <1>2, <1>3, AppendProperties
<1>6. DOMAIN s = 1..(n + 1)
  BY <1>5, LenProperties
<1> HIDE DEF s
<1>7. ASSUME NEW i \in 1..(n + 1)
      PROVE  frames'[i].tenant = s[i]
  <2>1. CASE i = n + 1
    BY <1>1, <1>5, <2>1
  <2>2. CASE i \in 1..n
    BY <1>1, <1>2, <1>5, <2>2
  <2>3. i = n + 1 \/ i \in 1..n
    BY <1>1
  <2>4. QED
    BY <2>1, <2>2, <2>3
<1>8. OpenScopes' = s
  <2>1. s = [i \in 1..(n + 1) |-> s[i]]
    BY <1>5, <1>6
  <2>2. QED
    BY <1>4, <1>7, <2>1
<1>9. tenant' = f.tenant
  BY <1>1 DEF IInv, TokensChain
<1>10. QED
  BY <1>3, <1>8, <1>9 DEF s

\* Leaving a scope pops the abstract stack, and the tenant outside it is
\* active again.
LEMMA ExitsAbstractly ==
  ASSUME IInv, IInv', Len(frames) > 0, frames' = Pop
  PROVE  /\ Len(OpenScopes) > 0
         /\ OpenScopes' = SubSeq(OpenScopes, 1, Len(OpenScopes) - 1)
         /\ tenant' = IF Len(OpenScopes) = 1 THEN NoTenant ELSE OpenScopes[Len(OpenScopes) - 1]
<1> DEFINE n == Len(frames)
<1>1. /\ n \in Nat /\ n > 0 /\ DOMAIN frames' = 1..(n - 1) /\ Len(frames') = n - 1
      /\ frames' = <<>> <=> n = 1
      /\ \A i \in 1..(n - 1) : frames'[i] = frames[i]
  BY PopFacts DEF IInv
<1>2. /\ OpenScopes \in Seq(Scope) /\ Len(OpenScopes) = n
      /\ \A i \in 1..n : OpenScopes[i] = frames[i].tenant
  BY OpenScopesFacts DEF IInv
<1>3. OpenScopes' = [i \in 1..(n - 1) |-> frames'[i].tenant]
  BY <1>1 DEF OpenScopes
<1>t. tenant' = IF frames' = <<>> THEN NoTenant ELSE frames'[Len(frames')].tenant
  BY DEF IInv, TokensChain
<1> HIDE DEF n
<1>4. \A i \in 1..(n - 1) : i \in 1..n /\ OpenScopes[i] \in Scope
  BY <1>1, <1>2
<1>5. /\ SubSeq(OpenScopes, 1, n - 1) \in Seq(Scope)
      /\ Len(SubSeq(OpenScopes, 1, n - 1)) = IF 1 <= n - 1 THEN n - 1 - 1 + 1 ELSE 0
      /\ \A i \in 1..(n - 1 - 1 + 1) : SubSeq(OpenScopes, 1, n - 1)[i] = OpenScopes[1 + i - 1]
  <2>1. n - 1 \in Int
    BY <1>1
  <2>2. QED
    BY <1>2, <1>4, <2>1, SubSeqProperties
<1>6. Len(SubSeq(OpenScopes, 1, n - 1)) = n - 1
  BY <1>1, <1>5
<1>7. DOMAIN SubSeq(OpenScopes, 1, n - 1) = 1..(n - 1)
  BY <1>5, <1>6, LenProperties
<1>8. \A i \in 1..(n - 1) : SubSeq(OpenScopes, 1, n - 1)[i] = OpenScopes[i]
  BY <1>1, <1>5
<1>9. \A i \in 1..(n - 1) : OpenScopes'[i] = SubSeq(OpenScopes, 1, n - 1)[i]
  BY <1>1, <1>2, <1>3, <1>4, <1>8
<1>10. OpenScopes' = SubSeq(OpenScopes, 1, n - 1)
  BY <1>3, <1>5, <1>7, <1>9
<1>11. tenant' = IF n = 1 THEN NoTenant ELSE OpenScopes[n - 1]
  <2>1. CASE n = 1
    BY <1>1, <1>t, <2>1
  <2>2. CASE n # 1
    <3>1. n - 1 \in 1..(n - 1) /\ n - 1 \in 1..n
      BY <1>1, <2>2
    <3>2. QED
      BY <1>1, <1>2, <1>t, <2>2, <3>1
  <2>3. QED
    BY <2>1, <2>2
<1>12. QED
  BY <1>1, <1>2, <1>10, <1>11

\* At every moment row-level security evaluates the active tenant, or one
\* whose scope is open, or nothing.
LEMMA AgreesAlways == RInv => Scopes!Agrees
<1> SUFFICES ASSUME RInv PROVE Scopes!Agrees
  OBVIOUS
<1> SUFFICES ASSUME NEW a \in Guarded, Evaluates(a) # NoTenant
             PROVE  /\ \E i \in DOMAIN OpenScopes : OpenScopes[i] = Evaluates(a)
                    /\ tenant # NoTenant /\ a \in TargetAliases(tenant) => Evaluates(a) = tenant
  <2>1. tenant \in Scope
    BY DEF RInv, IInv, TypeOK
  <2>2. tenant # NoTenant => tenant \in Tenants
    BY <2>1 DEF Scope
  <2>3. QED
    BY <2>2 DEF Scopes!Agrees, Scopes!Open, OpenScopes
<1>1. Usable(conn[a]) /\ conn[a].var = Evaluates(a)
  BY DEF Evaluates
<1>2. PICK i \in 1..Len(frames) : frames[i].tenant = Evaluates(a)
  BY <1>1 DEF RInv, VariablesHaveScopes, HasScope
<1>3. i \in DOMAIN OpenScopes /\ OpenScopes[i] = Evaluates(a)
  BY <1>2, OpenScopesFacts DEF RInv, IInv
<1>4. tenant # NoTenant /\ a \in TargetAliases(tenant) => Evaluates(a) = tenant
  BY <1>1 DEF RInv, IInv, NoForeignScope, ScopeAgrees
<1>5. QED
  BY <1>3, <1>4

\* What row-level security evaluates after a step is a tenant or nothing.
LEMMA SeesScope ==
  ASSUME IInv'
  PROVE  [a \in Guarded |-> Evaluates(a)]' \in [Guarded -> Scope]
<1>1. Guarded' = Guarded
  BY DEF Guarded, DefaultExposed, RegionalAlias
<1>2. ASSUME NEW a \in Guarded PROVE Evaluates(a)' \in Scope
  <2>1. conn'[a].var \in Scope
    BY DEF IInv, TypeOK, Connection, Guarded, Scope
  <2>2. QED
    BY <2>1 DEF Evaluates, Scope
<1>3. QED
  BY <1>1, <1>2

\* A fresh worker is a fresh stack.
LEMMA AbstractInit == Init => Scopes!Init
<1> SUFFICES ASSUME Init PROVE Scopes!Init
  OBVIOUS
<1>1. frames = <<>> /\ tenant = NoTenant /\ conn = [a \in Aliases |-> Idle]
  BY DEF Init
<1>2. OpenScopes = <<>>
  BY <1>1 DEF OpenScopes
<1>3. [a \in Guarded |-> Evaluates(a)] = [a \in Guarded |-> NoTenant]
  BY <1>1 DEF Evaluates, Usable, Idle, Guarded
<1>4. QED
  BY <1>1, <1>2, <1>3 DEF Scopes!Init, OpenScopes

\* Every step of the worker enters a scope, leaves one, or works inside it.
LEMMA AbstractStep == RInv /\ RInv' /\ Scopes!Agrees' /\ Next => Scopes!Next
<1> SUFFICES ASSUME RInv, RInv', Scopes!Agrees', Next PROVE Scopes!Next
  OBVIOUS
<1>i. IInv /\ IInv' /\ TypeOK
  BY DEF RInv, IInv
<1>v. [a \in Guarded |-> Evaluates(a)]' \in [Guarded -> Scope]
  BY <1>i, SeesScope
<1>e. ASSUME NEW f \in Frame, frames' = Append(frames, f)
      PROVE  \E t \in Scope : Scopes!Enter(t)
  BY <1>i, <1>e, EntersAbstractly DEF Scopes!Enter, OpenScopes
<1>x. ASSUME Depth > 0, frames' = Pop
      PROVE  Scopes!Exit
  BY <1>i, <1>x, ExitsAbstractly DEF Scopes!Exit, OpenScopes, Depth
<1>w. ASSUME UNCHANGED <<tenant, frames>>
      PROVE  Scopes!Work
  BY <1>w DEF Scopes!Work
<1>p. ASSUME NEW kind \in Kinds, NEW t \in Scope, NEW own \in SUBSET Aliases, NEW b \in Aliases,
             Push(kind, t, own, b)
      PROVE  \E s \in Scope : Scopes!Enter(s)
  <2> DEFINE f == [kind |-> kind, tenant |-> t, prev |-> tenant, owned |-> own, alias |-> b,
                   level |-> depth[b], savedVar |-> conn[b].var, savedFlag |-> conn[b].flag]
  <2>1. f \in Frame
    <3>1. /\ tenant \in Scope /\ depth[b] \in Nat
          /\ conn[b].var \in Scope /\ conn[b].flag \in BOOLEAN
      BY <1>i DEF TypeOK, Connection
    <3>2. QED
      BY <3>1 DEF Frame
  <2>2. frames' = Append(frames, f)
    BY <1>p DEF Push
  <2> HIDE DEF f
  <2>3. QED
    BY <1>e, <2>1, <2>2
<1>t. tenant \in Scope /\ Default \in Aliases /\ Tenants \subseteq Scope
  BY <1>i, AliasAssumption DEF TypeOK, Scope
<1>1. (\E t \in Scope : Scopes!Enter(t)) \/ Scopes!Exit \/ Scopes!Work
  <2>1. ASSUME NEW t \in Scope, UsingEnter(t) PROVE \E s \in Scope : Scopes!Enter(s)
    <3>1. Push("using", t, EnsureAtomic(TargetAliases(t)), Default)
      BY <2>1 DEF UsingEnter, SetScope
    <3>2. QED
      BY <1>p, <1>t, <3>1, EnsureAtomicFacts DEF Kinds
  <2>2. ASSUME NEW t \in Tenants, HandlerEnter(t) PROVE \E s \in Scope : Scopes!Enter(s)
    <3>1. Push("handler", t, EnsureAtomic({Default}), Default)
      BY <2>2 DEF HandlerEnter, SetScope
    <3>2. QED
      BY <1>p, <1>t, <3>1, EnsureAtomicFacts DEF Kinds
  <2>3. CASE BareEnter
    <3>1. Push("bare", tenant, EnsureAtomic({Default}), Default)
      BY <2>3 DEF BareEnter
    <3>2. QED
      BY <1>p, <1>t, <3>1, EnsureAtomicFacts DEF Kinds
  <2>4. ASSUME NEW b \in Aliases, BypassEnter(b) PROVE \E s \in Scope : Scopes!Enter(s)
    <3>1. Push("bypass", tenant, EnsureAtomic({b}), b)
      BY <2>4 DEF BypassEnter
    <3>2. QED
      BY <1>p, <1>t, <3>1, EnsureAtomicFacts DEF Kinds
  <2>5. ASSUME NEW b \in Aliases, AtomicEnter(b) PROVE \E s \in Scope : Scopes!Enter(s)
    <3>1. Push("atomic", tenant, {b} \ {a \in Aliases : conn[a].inTx}, b)
      BY <2>5 DEF AtomicEnter
    <3>2. QED
      BY <1>p, <1>t, <3>1 DEF Kinds
  <2>6. CASE UsingExit \/ HandlerExit \/ BareExit \/ BypassExit
    BY <1>x, <2>6 DEF UsingExit, HandlerExit, BareExit, BypassExit
  <2>7. ASSUME NEW raised \in BOOLEAN, AtomicExit(raised) PROVE Scopes!Exit
    BY <1>x, <2>7 DEF AtomicExit
  <2>8. ASSUME NEW t \in Scope, NEW own, SetRaises(t, own) PROVE Scopes!Work
    BY <1>w, <2>8 DEF SetRaises
  <2>9. ASSUME NEW t \in Scope, UsingRaises(t) PROVE Scopes!Work
    BY <2>8, <2>9 DEF UsingRaises
  <2>10. ASSUME NEW t \in Tenants, HandlerRaises(t) PROVE Scopes!Work
    BY <1>t, <2>8, <2>10 DEF HandlerRaises
  <2>11. ASSUME NEW b \in Aliases, SqlError(b) PROVE Scopes!Work
    BY <1>w, <2>11 DEF SqlError
  <2>12. QED
    BY <2>1, <2>2, <2>3, <2>4, <2>5, <2>6, <2>7, <2>9, <2>10, <2>11 DEF Next
<1>2. QED
  BY <1>1, <1>v DEF Scopes!Next, Scopes!Scope, Scope

(***************************************************************************)
(* The theorems                                                            *)
(***************************************************************************)

\* The strengthened invariant holds of every worker.
LEMMA RInvariance == Spec => []RInv
<1>1. Init => VariablesHaveScopes
  BY DEF Init, VariablesHaveScopes, Usable, Idle, Guarded
<1>2. Init => RInv
  BY <1>1, InitStep DEF RInv
<1>3. QED
  BY <1>2, RInvStep, PTL DEF Spec

\* No usable connection carries a tenant whose scope is gone, whatever nesting,
\* errors, savepoint rollbacks and half-done set() calls led to it
\* (TenantContext.using and clear).
THEOREM NoOrphanedScopeHolds == Spec => []NoOrphanedScope
<1>1. RInv => NoOrphanedScope
  <2> SUFFICES ASSUME RInv, NEW a \in Guarded, Usable(conn[a]), conn[a].var # NoTenant
               PROVE  \E i \in DOMAIN frames : frames[i].tenant = conn[a].var
    BY DEF NoOrphanedScope
  <2>1. DOMAIN frames = 1..Len(frames)
    BY DEF RInv, IInv, TypeOK
  <2>2. HasScope(a, conn[a].var, Len(frames))
    BY DEF RInv, VariablesHaveScopes
  <2>3. QED
    BY <2>1, <2>2 DEF HasScope
<1>2. QED
  BY <1>1, RInvariance, PTL

\* Tokens, transactions, savepoints, bypasses and failing statements implement
\* the plain stack of tenants of TenantScopes: each step of boundary/context.py
\* enters a scope, leaves one or works inside it, and row-level security
\* evaluates the active tenant or nothing.
THEOREM Refinement == Spec => ImplementsScopes
<1>1. RInv /\ RInv' /\ Scopes!Agrees' /\ [Next]_vars => [Scopes!Next]_Scopes!vars
  <2>1. CASE UNCHANGED vars
    BY <2>1 DEF vars, Scopes!vars, Evaluates, Usable, Guarded, DefaultExposed, RegionalAlias
  <2>2. QED
    BY <2>1, AbstractStep
<1>2. QED
  BY <1>1, AbstractInit, AgreesAlways, RInvariance, PTL DEF Spec, ImplementsScopes, Scopes!Spec

(***************************************************************************)
(* The tenant in force                                                     *)
(***************************************************************************)

\* At place p of the stack fs the tenant there is to be in force on a: the
\* innermost using() or handler up to p covers a.
Sets(f) == f.kind \in {"using", "handler"}
Covered(fs, p, a) ==
    /\ a \in Postgres /\ fs[p].tenant # NoTenant
    /\ \E i \in 1..p : /\ Sets(fs[i]) /\ \A j \in (i + 1)..p : ~Sets(fs[j])
                       /\ a \in IF fs[i].kind = "using" THEN TargetAliases(fs[p].tenant)
                                ELSE {Default}

\* Where a tenant is to be in force, a scope up to there holds the
\* transaction, and on the aliases G a savepoint there brings the tenant's
\* variable back.
PlacesCovered(fs, G) ==
    \A p \in 1..Len(fs), a \in Aliases : Covered(fs, p, a) =>
        /\ \E j \in 1..p : a \in fs[j].owned
        /\ fs[p].kind = "atomic" /\ fs[p].alias = a /\ a \in G => fs[p].savedVar = fs[p].tenant

\* Where one scope set the tenant, one did so last.
LastSetter(fs) ==
    \A p \in 1..Len(fs) :
        (\E i \in 1..p : Sets(fs[i])) =>
            \E i \in 1..p : Sets(fs[i]) /\ \A j \in 1..p : Sets(fs[j]) => j <= i

\* The innermost place's tenant is in force on the aliases G.
TopInForce(G) ==
    \A a \in G : Len(frames) > 0 /\ Covered(frames, Len(frames), a) /\ Usable(conn[a])
        => conn[a].var = tenant

\* The three together, when the settings let a tenant be in force.
ForceOn(G) ==
    WrapAtomic /\ SetDbSessionVar =>
        PlacesCovered(frames, G) /\ LastSetter(frames) /\ TopInForce(G)

FInv == ForceOn(Guarded)
BInv == IInv /\ FInv

\* Covered looks at the places up to p only, and a scope that sets no tenant
\* covers what the one around it does.
LEMMA CoveredPlaces ==
  ASSUME NEW fs, NEW p \in Nat \ {0}, NEW a
  PROVE  /\ \A gs : (\A i \in 1..p : gs[i] = fs[i]) => (Covered(gs, p, a) <=> Covered(fs, p, a))
         /\ ~Sets(fs[p]) /\ (p > 1 => fs[p].tenant = fs[p - 1].tenant)
               => (Covered(fs, p, a) <=> p > 1 /\ Covered(fs, p - 1, a))
<1>1. ASSUME NEW gs, \A i \in 1..p : gs[i] = fs[i]
      PROVE  Covered(gs, p, a) <=> Covered(fs, p, a)
  <2>1. gs[p] = fs[p]
    BY <1>1
  <2>2. \A i \in 1..p : \A j \in (i + 1)..p : gs[j] = fs[j]
    BY <1>1
  <2>3. QED
    BY <1>1, <2>1, <2>2 DEF Covered, Sets
<1>2. ASSUME ~Sets(fs[p]), p > 1 => fs[p].tenant = fs[p - 1].tenant
      PROVE  Covered(fs, p, a) <=> p > 1 /\ Covered(fs, p - 1, a)
  <2>1. ASSUME Covered(fs, p, a)
        PROVE  p > 1 /\ Covered(fs, p - 1, a)
    <3>1. PICK i \in 1..p : /\ Sets(fs[i]) /\ \A j \in (i + 1)..p : ~Sets(fs[j])
                            /\ a \in IF fs[i].kind = "using" THEN TargetAliases(fs[p].tenant)
                                     ELSE {Default}
      BY <2>1 DEF Covered
    <3>2. i # p
      BY <1>2, <3>1
    <3>3. i \in 1..(p - 1) /\ p > 1
      BY <3>2
    <3>4. \A j \in (i + 1)..(p - 1) : ~Sets(fs[j])
      BY <3>1
    <3>5. QED
      BY <1>2, <2>1, <3>1, <3>3, <3>4 DEF Covered
  <2>2. ASSUME p > 1, Covered(fs, p - 1, a)
        PROVE  Covered(fs, p, a)
    <3>1. PICK i \in 1..(p - 1) :
             /\ Sets(fs[i]) /\ \A j \in (i + 1)..(p - 1) : ~Sets(fs[j])
             /\ a \in IF fs[i].kind = "using" THEN TargetAliases(fs[p - 1].tenant)
                      ELSE {Default}
      BY <2>2 DEF Covered
    <3>2. i \in 1..p
      OBVIOUS
    <3>3. ASSUME NEW j \in (i + 1)..p PROVE ~Sets(fs[j])
      <4>1. CASE j = p
        BY <1>2, <4>1
      <4>2. CASE j # p
        BY <3>1, <4>2
      <4>3. QED
        BY <4>1, <4>2
    <3>4. QED
      BY <1>2, <2>2, <3>1, <3>2, <3>3 DEF Covered
  <2>3. QED
    BY <2>1, <2>2
<1>3. QED
  BY <1>1, <1>2

\* A scope that sets the tenant covers its own aliases.
LEMMA CoveredBySetter ==
  ASSUME NEW fs, NEW p \in Nat \ {0}, NEW a, Sets(fs[p]), Covered(fs, p, a)
  PROVE  /\ a \in Postgres /\ fs[p].tenant # NoTenant
         /\ a \in IF fs[p].kind = "using" THEN TargetAliases(fs[p].tenant) ELSE {Default}
<1>1. PICK i \in 1..p : /\ Sets(fs[i]) /\ \A j \in (i + 1)..p : ~Sets(fs[j])
                        /\ a \in IF fs[i].kind = "using" THEN TargetAliases(fs[p].tenant)
                                 ELSE {Default}
  BY DEF Covered
<1>2. CASE i # p
  <2>1. p \in (i + 1)..p
    BY <1>2
  <2>2. QED
    BY <1>1, <2>1
<1>3. CASE i = p
  BY <1>1, <1>3 DEF Covered
<1>4. QED
  BY <1>2, <1>3

\* What is covered is an alias of the tenant.
LEMMA CoveredAliases ==
  ASSUME NEW fs, NEW p, NEW a, Covered(fs, p, a)
  PROVE  /\ a \in Postgres /\ a \in Aliases /\ fs[p].tenant # NoTenant
         /\ a \in TargetAliases(fs[p].tenant)
  BY AliasAssumption DEF Covered, TargetAliases

\* What the place a scope f is entered at covers has its transaction and f's
\* tenant as its variable.
EntersInForce(f, G) ==
    \A a \in Aliases : Covered(frames', Len(frames) + 1, a) =>
        /\ \E j \in 1..(Len(frames) + 1) : a \in frames'[j].owned
        /\ Usable(conn'[a]) /\ a \in G => conn'[a].var = f.tenant
        /\ f.kind = "atomic" /\ f.alias = a /\ a \in G => f.savedVar = f.tenant

\* Entering a scope in that way keeps the tenants in force.
LEMMA EnterInForce ==
  ASSUME IInv, NEW G \in SUBSET Aliases, ForceOn(G), WrapAtomic, SetDbSessionVar,
         NEW f \in Frame,
         frames' = Append(frames, f), tenant' = f.tenant, EntersInForce(f, G)
  PROVE  PlacesCovered(frames', G) /\ LastSetter(frames') /\ TopInForce(G)'
<1> DEFINE n == Len(frames)
<1>t. frames \in Seq(Frame) /\ n \in Nat
  BY DEF IInv, TypeOK
<1>s. /\ Len(frames') = n + 1
      /\ \A i \in 1..n : frames'[i] = frames[i]
      /\ frames'[n + 1] = f
  BY <1>t, AppendFacts
<1>n. n \in Nat
  BY <1>t
<1>i. PlacesCovered(frames, G) /\ LastSetter(frames)
  BY DEF ForceOn
<1>c. \A a \in Aliases : Covered(frames', n + 1, a) =>
         /\ \E j \in 1..(n + 1) : a \in frames'[j].owned
         /\ Usable(conn'[a]) /\ a \in G => conn'[a].var = f.tenant
         /\ f.kind = "atomic" /\ f.alias = a /\ a \in G => f.savedVar = f.tenant
  BY DEF EntersInForce
<1> HIDE DEF n
<1>1. PlacesCovered(frames', G)
  <2> SUFFICES ASSUME NEW p \in 1..(n + 1), NEW a \in Aliases, Covered(frames', p, a)
               PROVE  /\ \E j \in 1..p : a \in frames'[j].owned
                      /\ frames'[p].kind = "atomic" /\ frames'[p].alias = a /\ a \in G
                            => frames'[p].savedVar = frames'[p].tenant
    BY <1>s DEF PlacesCovered
  <2>0. p = n + 1 \/ p \in 1..n
    BY <1>n
  <2>1. CASE p = n + 1
    BY <1>c, <1>s, <2>1
  <2>2. CASE p \in 1..n
    <3>1. \A i \in 1..p : i \in 1..n /\ frames'[i] = frames[i]
      BY <1>n, <1>s, <2>2
    <3>p. p \in Nat \ {0} /\ p \in 1..p
      BY <1>n
    <3>2. Covered(frames, p, a)
      BY <3>1, <3>p, CoveredPlaces
    <3>3. /\ \E j \in 1..p : a \in frames[j].owned
          /\ frames[p].kind = "atomic" /\ frames[p].alias = a /\ a \in G => frames[p].savedVar = frames[p].tenant
      BY <1>i, <2>2, <3>2 DEF PlacesCovered, n
    <3>4. QED
      BY <3>p, <3>1, <3>3
  <2>3. QED
    BY <2>0, <2>1, <2>2
<1>2. LastSetter(frames')
  <2> SUFFICES ASSUME NEW p \in 1..(n + 1), NEW k \in 1..p, Sets(frames'[k])
               PROVE  \E i \in 1..p : Sets(frames'[i]) /\ \A j \in 1..p : Sets(frames'[j]) => j <= i
    BY <1>s DEF LastSetter
  <2>p. p \in 1..p /\ \A j \in 1..p : j <= p
    BY <1>n
  <2>1. CASE Sets(frames'[p])
    BY <2>p, <2>1
  <2>2. CASE ~Sets(frames'[p])
    <3>0. k # p
      BY <2>2
    <3>1. k \in 1..(p - 1) /\ p - 1 \in 1..n
      BY <1>n, <3>0
    <3>2. Sets(frames[k])
      BY <1>s, <1>n, <3>1
    <3>3. PICK i \in 1..(p - 1) : Sets(frames[i]) /\ \A j \in 1..(p - 1) : Sets(frames[j]) => j <= i
      BY <1>i, <3>1, <3>2 DEF LastSetter, n
    <3>4. i \in 1..p /\ Sets(frames'[i])
      BY <1>s, <1>n, <3>1, <3>3
    <3>5. ASSUME NEW j \in 1..p, Sets(frames'[j]) PROVE j <= i
      <4>0. j # p
        BY <2>2, <3>5
      <4>1. j \in 1..(p - 1)
        BY <1>n, <4>0
      <4>2. frames'[j] = frames[j]
        BY <1>s, <1>n, <3>1, <4>1
      <4>3. QED
        BY <3>3, <3>5, <4>1, <4>2
    <3>6. QED
      BY <3>4, <3>5
  <2>3. QED
    BY <2>1, <2>2
<1>3. TopInForce(G)'
  BY <1>c, <1>s DEF TopInForce, Usable
<1>4. QED
  BY <1>1, <1>2, <1>3

\* Where the scope left is not the one that holds the transaction, what was
\* covered outside it has the variable of the tenant restored.
ExitsInForce(G) ==
    \A a \in G \ Top.owned :
        Len(frames) > 1 /\ Covered(frames, Len(frames) - 1, a) /\ conn[a].inTx /\ Usable(conn'[a])
            => conn'[a].var = Top.prev

\* Leaving a scope in that way keeps the tenants in force.
LEMMA ExitInForce ==
  ASSUME IInv, NEW G \in SUBSET Aliases, ForceOn(G), WrapAtomic, SetDbSessionVar, Len(frames) > 0,
         frames' = Pop, tenant' = Top.prev, ExitsInForce(G)
  PROVE  PlacesCovered(frames', G) /\ LastSetter(frames') /\ TopInForce(G)'
<1> DEFINE n == Len(frames)
<1>n. n \in Nat /\ n > 0 /\ DOMAIN frames = 1..n /\ Top = frames[n]
  BY PopFacts DEF IInv, Top
<1>s. Len(frames') = n - 1 /\ \A i \in 1..(n - 1) : frames'[i] = frames[i]
  BY PopFacts DEF IInv
<1>i. PlacesCovered(frames, G) /\ LastSetter(frames)
  BY DEF ForceOn
<1>o. /\ \A a \in Aliases : conn[a].inTx <=> \E i \in 1..n : a \in frames[i].owned
      /\ \A i, j \in 1..n : i # j => frames[i].owned \cap frames[j].owned = {}
  BY <1>n DEF IInv, OneOwner
<1>x. \A a \in G \ Top.owned :
          n > 1 /\ Covered(frames, n - 1, a) /\ conn[a].inTx /\ Usable(conn'[a])
             => conn'[a].var = Top.prev
  BY DEF ExitsInForce
<1> HIDE DEF n
<1>c. ASSUME NEW p \in 1..(n - 1), NEW a \in Aliases, Covered(frames', p, a)
      PROVE  Covered(frames, p, a)
  <2>1. p \in Nat \ {0} /\ \A i \in 1..p : i \in 1..(n - 1)
    BY <1>n
  <2>2. \A i \in 1..p : frames'[i] = frames[i]
    BY <1>s, <2>1
  <2>3. QED
    BY <1>c, <2>1, <2>2, CoveredPlaces
<1>d. \A p \in 1..(n - 1) : p \in 1..n /\ p \in 1..p /\ \A i \in 1..p : i \in 1..(n - 1)
  BY <1>n
<1>1. PlacesCovered(frames', G)
  <2> SUFFICES ASSUME NEW p \in 1..(n - 1), NEW a \in Aliases, Covered(frames', p, a)
               PROVE  /\ \E j \in 1..p : a \in frames'[j].owned
                      /\ frames'[p].kind = "atomic" /\ frames'[p].alias = a /\ a \in G
                            => frames'[p].savedVar = frames'[p].tenant
    BY <1>s DEF PlacesCovered
  <2>1. Covered(frames, p, a) /\ p \in 1..n
    BY <1>c, <1>d
  <2>2. /\ \E j \in 1..p : a \in frames[j].owned
        /\ frames[p].kind = "atomic" /\ frames[p].alias = a /\ a \in G => frames[p].savedVar = frames[p].tenant
    BY <1>i, <2>1 DEF PlacesCovered, n
  <2>3. QED
    BY <1>d, <1>s, <2>2
<1>2. LastSetter(frames')
  <2> SUFFICES ASSUME NEW p \in 1..(n - 1), NEW k \in 1..p, Sets(frames'[k])
               PROVE  \E i \in 1..p : Sets(frames'[i]) /\ \A j \in 1..p : Sets(frames'[j]) => j <= i
    BY <1>s DEF LastSetter
  <2>1. p \in 1..n /\ \A i \in 1..p : frames'[i] = frames[i]
    BY <1>d, <1>s
  <2>2. Sets(frames[k])
    BY <2>1
  <2>3. \E i \in 1..p : Sets(frames[i]) /\ \A j \in 1..p : Sets(frames[j]) => j <= i
    BY <1>i, <2>1, <2>2 DEF LastSetter, n
  <2>4. QED
    BY <2>1, <2>3
<1>3. TopInForce(G)'
  <2> SUFFICES ASSUME NEW a \in G, n - 1 > 0, Covered(frames', n - 1, a), Usable(conn'[a])
               PROVE  conn'[a].var = Top.prev
    BY <1>s DEF TopInForce, Usable
  <2>1. n - 1 \in 1..(n - 1) /\ n > 1
    BY <1>n
  <2>2. Covered(frames, n - 1, a)
    BY <1>c, <2>1
  <2>3. PICK j \in 1..(n - 1) : a \in frames[j].owned
    BY <1>d, <1>i, <2>1, <2>2 DEF PlacesCovered, n
  <2>4. j \in 1..n /\ n \in 1..n /\ j # n
    BY <1>n
  <2>5. a \notin Top.owned /\ conn[a].inTx
    BY <1>n, <1>o, <2>3, <2>4
  <2>6. QED
    BY <1>x, <2>1, <2>2, <2>5
<1>4. QED
  BY <1>1, <1>2, <1>3

\* Steps that leave the stack, and the variables of what is covered, alone.
LEMMA StillInForce ==
  ASSUME IInv, NEW G \in SUBSET Aliases, ForceOn(G), WrapAtomic, SetDbSessionVar,
         frames' = frames, tenant' = tenant,
         \A a \in G : Usable(conn'[a]) => Usable(conn[a]) /\ conn'[a].var = conn[a].var
  PROVE  PlacesCovered(frames', G) /\ LastSetter(frames') /\ TopInForce(G)'
<1>1. PlacesCovered(frames', G) /\ LastSetter(frames')
  BY DEF ForceOn
<1>2. ASSUME NEW a \in G, Len(frames) > 0, Covered(frames, Len(frames), a), Usable(conn'[a])
      PROVE  conn'[a].var = tenant
  BY <1>2, CoveredAliases DEF ForceOn, TopInForce
<1>3. TopInForce(G)'
  BY <1>2 DEF TopInForce, Usable
<1>4. QED
  BY <1>1, <1>3

\* A set() puts its tenant in force on every alias it covers, each of which
\* is in a transaction by then (using, the handlers).
LEMMA SetScopeInForce ==
  ASSUME IInv, NEW G \in SUBSET Aliases, ForceOn(G), IInv', WrapAtomic, SetDbSessionVar,
         NEW kind \in {"using", "handler"}, NEW t \in Scope, NEW own \in SUBSET Aliases,
         EnsureAtomic(IF kind = "using" THEN TargetAliases(t) ELSE {Default}) \subseteq own,
         SetScope(kind, t, own)
  PROVE  PlacesCovered(frames', G) /\ LastSetter(frames') /\ TopInForce(G)'
<1> DEFINE f == [kind |-> kind, tenant |-> t, prev |-> tenant, owned |-> own,
                 alias |-> Default, level |-> depth[Default],
                 savedVar |-> conn[Default].var, savedFlag |-> conn[Default].flag]
           n == Len(frames)
<1>1. f \in Frame
  <2>1. /\ tenant \in Scope /\ depth[Default] \in Nat /\ Default \in Aliases
        /\ conn[Default].var \in Scope /\ conn[Default].flag \in BOOLEAN
    BY AliasAssumption DEF IInv, TypeOK, Connection
  <2>2. QED
    BY <2>1 DEF Frame, Kinds
<1>2. /\ frames' = Append(frames, f) /\ tenant' = t
      /\ f.kind = kind /\ f.tenant = t
  BY DEF SetScope, Push
<1> HIDE DEF f
<1>3. n \in Nat /\ DOMAIN frames' = 1..(n + 1) /\ frames'[n + 1] = f
  BY <1>1, <1>2, AppendFacts DEF IInv, TypeOK
<1>4. n \in Nat
  BY <1>3
<1>5. /\ f.tenant = t /\ f.kind # "atomic"
  BY <1>2
<1> HIDE DEF n
<1>6. ASSUME NEW a \in Aliases, Covered(frames', n + 1, a)
      PROVE  /\ \E j \in 1..(n + 1) : a \in frames'[j].owned
             /\ Usable(conn'[a]) => conn'[a].var = t
  <2>1. /\ a \in Postgres /\ t # NoTenant
        /\ a \in IF kind = "using" THEN TargetAliases(t) ELSE {Default}
    <3>1. n + 1 \in Nat \ {0} /\ Sets(frames'[n + 1])
      BY <1>2, <1>3, <1>4 DEF Sets
    <3>2. QED
      BY <1>2, <1>3, <1>6, <3>1, CoveredBySetter
  <2>2. a \in TargetAliases(t) /\ WritesVar(a) /\ a \in Configured
    BY <2>1, AliasAssumption DEF TargetAliases, WritesVar
  <2>3. conn'[a].inTx /\ (conn'[a].aborted = conn[a].aborted)
        /\ conn'[a].var = IF /\ t # NoTenant /\ a \in TargetAliases(t) /\ WritesVar(a)
                             /\ conn'[a].inTx /\ ~conn[a].aborted
                          THEN t ELSE conn[a].var
    <3>1. conn[a].inTx \/ a \in own
      BY <2>1, <2>2 DEF EnsureAtomic
    <3>2. IInv
      OBVIOUS
    <3>3. /\ conn'[a].inTx = (conn[a].inTx \/ a \in own)
          /\ conn'[a].aborted = conn[a].aborted
          /\ conn'[a].var = IF /\ t # NoTenant /\ a \in TargetAliases(t) /\ WritesVar(a)
                               /\ conn'[a].inTx /\ ~conn[a].aborted
                            THEN t ELSE conn[a].var
      BY <3>2, SetScopeFacts
    <3>4. QED
      BY <3>1, <3>3
  <2>4. \E j \in 1..(n + 1) : a \in frames'[j].owned
    BY <1>3, <2>3 DEF IInv, OneOwner
  <2>5. QED
    BY <2>1, <2>2, <2>3, <2>4 DEF Usable
<1>7. EntersInForce(f, G)
  BY <1>5, <1>6 DEF EntersInForce, n
<1>8. QED
  BY <1>1, <1>2, <1>7, EnterInForce

\* A scope that sets no tenant covers what the one around it does, so its
\* tenant was in force there and a savepoint remembers it.
LEMMA QuietEnterInForce ==
  ASSUME IInv, NEW G \in SUBSET Aliases, ForceOn(G), WrapAtomic, SetDbSessionVar,
         NEW kind \in {"bare", "bypass", "atomic"},
         NEW own \in SUBSET Aliases, NEW b \in Aliases,
         frames' = Append(frames, QuietFrame(kind, own, b)), tenant' = tenant,
         kind = "atomic" => ~conn[b].aborted,
         \A a \in Aliases : conn'[a].var = conn[a].var /\ conn'[a].aborted = conn[a].aborted
  PROVE  PlacesCovered(frames', G) /\ LastSetter(frames') /\ TopInForce(G)'
<1> DEFINE f == QuietFrame(kind, own, b)
           n == Len(frames)
<1>1. /\ f \in Frame /\ f.kind = kind /\ f.tenant = tenant /\ f.alias = b
      /\ f.savedVar = conn[b].var
  BY QuietFrameFacts DEF Kinds
<1>2. frames' = Append(frames, f)
  BY DEF f
<1> HIDE DEF f
<1>3. /\ n \in Nat /\ frames'[n + 1] = f /\ DOMAIN frames = 1..n
      /\ \A i \in 1..n : frames'[i] = frames[i]
  BY <1>1, <1>2, AppendFacts DEF IInv, TypeOK
<1>4. n \in Nat
  BY <1>3
<1>5. n > 0 => tenant = frames[n].tenant
  BY EmptySeq DEF IInv, TypeOK, TokensChain
<1>6. \A a \in Aliases : conn[a].inTx <=> \E i \in 1..n : a \in frames[i].owned
  BY <1>3 DEF IInv, OneOwner
<1>7. PlacesCovered(frames, G) /\ TopInForce(G)
  BY DEF ForceOn
<1>8. n = Len(frames)
  BY DEF n
<1> HIDE DEF n
<1>9. ASSUME NEW a \in Aliases, Covered(frames', n + 1, a)
      PROVE  /\ \E j \in 1..(n + 1) : a \in frames'[j].owned
             /\ conn[a].inTx
             /\ ~conn[a].aborted /\ a \in G => conn[a].var = tenant
  <2>1. n + 1 \in Nat \ {0} /\ (n + 1) - 1 = n /\ (n + 1 > 1 => n \in 1..n)
    BY <1>4
  <2>2. ~Sets(frames'[n + 1])
    BY <1>1, <1>3 DEF Sets
  <2>3. n + 1 > 1 => frames'[n + 1].tenant = frames'[n].tenant
    BY <1>1, <1>3, <1>4, <1>5, <2>1
  <2>4. n > 0 /\ Covered(frames', n, a)
    <3>1. n + 1 > 1 /\ Covered(frames', (n + 1) - 1, a)
      BY <1>9, <2>1, <2>2, <2>3, CoveredPlaces
    <3>2. QED
      BY <1>4, <2>1, <3>1
  <2>5. n \in Nat \ {0} /\ n \in 1..n
    BY <1>4, <2>4
  <2>6. Covered(frames, n, a)
    BY <1>3, <2>4, <2>5, CoveredPlaces
  <2>7. PICK j \in 1..n : a \in frames[j].owned
    BY <1>7, <1>8, <2>5, <2>6 DEF PlacesCovered
  <2>8. j \in 1..(n + 1) /\ a \in frames'[j].owned
    BY <1>3, <1>4, <2>7
  <2>9. conn[a].inTx
    BY <1>6, <2>7
  <2>10. ~conn[a].aborted /\ a \in G => conn[a].var = tenant
    BY <1>7, <1>8, <2>4, <2>6, <2>9 DEF TopInForce, Usable
  <2>11. QED
    BY <2>8, <2>9, <2>10
<1>10. EntersInForce(f, G)
  BY <1>1, <1>9 DEF EntersInForce, Usable, n
<1>11. QED
  BY <1>1, <1>2, <1>10, EnterInForce

\* The exit of using() and clear() re-applies the tenant outside on all its
\* aliases, so that it is in force again wherever it was.
LEMMA RestoreInForce ==
  ASSUME IInv, NEW G \in SUBSET Aliases, ForceOn(G), WrapAtomic, SetDbSessionVar,
         Depth > 0, RestoreScope(Top), frames' = Pop
  PROVE  PlacesCovered(frames', G) /\ LastSetter(frames') /\ TopInForce(G)'
<1>i. Len(frames) > 0
  BY DEF Depth
<1>n. Len(frames) \in Nat /\ DOMAIN frames = 1..Len(frames) /\ Top = frames[Len(frames)]
  BY <1>i, PopFacts DEF IInv, Top
<1>1. ASSUME NEW a \in G \ Top.owned, Len(frames) > 1,
             Covered(frames, Len(frames) - 1, a), Usable(conn'[a])
      PROVE  conn'[a].var = Top.prev
  <2>1. Top.prev = frames[Len(frames) - 1].tenant
    BY <1>i, <1>n, <1>1 DEF IInv, TokensChain, Outside
  <2>2. a \in Postgres /\ Top.prev # NoTenant /\ a \in TargetAliases(Top.prev)
    BY <1>1, <2>1, CoveredAliases
  <2>3. /\ conn'[a].inTx = conn[a].inTx
        /\ conn'[a].aborted = conn[a].aborted
        /\ /\ Usable(conn[a]) /\ WritesVar(a)
           /\ Top.prev # NoTenant /\ a \in TargetAliases(Top.prev)
           => conn'[a].var = Top.prev
    BY <1>i, RestoreFacts
  <2>4. QED
    BY <1>1, <2>2, <2>3 DEF Usable, WritesVar
<1>2. ExitsInForce(G)
  BY <1>1 DEF ExitsInForce
<1>3. tenant' = Top.prev
  BY DEF RestoreScope
<1>4. QED
  BY <1>i, <1>2, <1>3, ExitInForce

\* A scope that set no tenant leaves the tenant's variable on its exit, or
\* rolls it back to the one its savepoint found: the tenant's own.
LEMMA QuietExitInForce ==
  ASSUME IInv, NEW G \in SUBSET Aliases, ForceOn(G), WrapAtomic, SetDbSessionVar, Depth > 0,
         Top.kind \in {"bare", "bypass", "atomic"}, frames' = Pop, tenant' = tenant,
         \A a \in Aliases \ Top.owned : Usable(conn'[a]) =>
             \/ Usable(conn[a]) /\ conn'[a].var = conn[a].var
             \/ Top.kind = "atomic" /\ Top.alias = a /\ conn'[a].var = Top.savedVar
  PROVE  PlacesCovered(frames', G) /\ LastSetter(frames') /\ TopInForce(G)'
<1> DEFINE n == Len(frames)
<1>i. n > 0
  BY DEF Depth
<1>n. n \in Nat /\ DOMAIN frames = 1..n /\ Top = frames[n] /\ frames # <<>>
  BY <1>i, PopFacts DEF IInv, Top
<1>t. /\ tenant = Top.tenant /\ Top.tenant = Top.prev
      /\ n > 1 => Top.prev = frames[n - 1].tenant
  BY <1>i, <1>n DEF IInv, TokensChain, Outside, Top
<1>f. PlacesCovered(frames, G) /\ TopInForce(G)
  BY DEF ForceOn
<1>l. n \in Nat /\ n = Len(frames)
  BY <1>n DEF n
<1> HIDE DEF n
<1>1. ASSUME NEW a \in G \ Top.owned, n > 1, Covered(frames, n - 1, a), Usable(conn'[a])
      PROVE  conn'[a].var = Top.prev
  <2>1. n \in Nat \ {0} /\ n \in 1..n
    BY <1>l, <1>1
  <2>2. ~Sets(frames[n]) /\ (n > 1 => frames[n].tenant = frames[n - 1].tenant)
    BY <1>n, <1>t DEF Sets
  <2>3. Covered(frames, n, a)
    BY <1>1, <2>1, <2>2, CoveredPlaces
  <2>4. Usable(conn[a]) => conn[a].var = tenant
    BY <1>f, <1>i, <1>l, <2>3 DEF TopInForce
  <2>5. Top.kind = "atomic" /\ Top.alias = a => Top.savedVar = Top.tenant
    BY <1>f, <1>l, <1>n, <2>1, <2>3 DEF PlacesCovered
  <2>6. QED
    BY <1>1, <1>t, <2>4, <2>5
<1>2. ExitsInForce(G)
  BY <1>1 DEF ExitsInForce, n
<1>3. Len(frames) > 0 /\ tenant' = Top.prev
  BY <1>i, <1>t DEF n
<1>4. QED
  BY <1>2, <1>3, ExitInForce

\* Every step of the worker keeps the tenants in force on the aliases G, unless
\* it changes a variable there without entering or leaving a scope.
LEMMA ForceStep ==
  ASSUME IInv, IInv', NEW G \in SUBSET Aliases, ForceOn(G), [Next]_vars,
         frames' = frames => \A a \in G :
             Usable(conn'[a]) => Usable(conn[a]) /\ conn'[a].var = conn[a].var
  PROVE  ForceOn(G)'
<1> SUFFICES ASSUME WrapAtomic, SetDbSessionVar
             PROVE  PlacesCovered(frames', G) /\ LastSetter(frames') /\ TopInForce(G)'
  BY DEF ForceOn
<1>t. conn \in [Aliases -> Connection]
  BY DEF IInv, TypeOK
<1>1. ASSUME NEW t \in Scope, UsingEnter(t)
      PROVE  PlacesCovered(frames', G) /\ LastSetter(frames') /\ TopInForce(G)'
  <2>1. SetScope("using", t, EnsureAtomic(TargetAliases(t)))
    BY <1>1 DEF UsingEnter
  <2>2. QED
    BY <2>1, EnsureAtomicFacts, SetScopeInForce
<1>2. ASSUME NEW t \in Tenants, HandlerEnter(t)
      PROVE  PlacesCovered(frames', G) /\ LastSetter(frames') /\ TopInForce(G)'
  <2>1. SetScope("handler", t, EnsureAtomic({Default})) /\ t \in Scope
    BY <1>2 DEF HandlerEnter, Scope
  <2>2. QED
    BY <2>1, EnsureAtomicFacts, SetScopeInForce
<1>3. ASSUME NEW t \in Scope, NEW own \in SUBSET Aliases, SetRaises(t, own)
      PROVE  PlacesCovered(frames', G) /\ LastSetter(frames') /\ TopInForce(G)'
  <2>1. frames' = frames /\ tenant' = tenant
    BY <1>3 DEF SetRaises
  <2>2. QED
    BY <2>1, StillInForce
<1>4. ASSUME NEW t \in Scope, UsingRaises(t)
      PROVE  PlacesCovered(frames', G) /\ LastSetter(frames') /\ TopInForce(G)'
  BY <1>3, <1>4, EnsureAtomicFacts DEF UsingRaises
<1>5. ASSUME NEW t \in Tenants, HandlerRaises(t)
      PROVE  PlacesCovered(frames', G) /\ LastSetter(frames') /\ TopInForce(G)'
  BY <1>3, <1>5, EnsureAtomicFacts DEF HandlerRaises, Scope
<1>6. CASE UsingExit \/ HandlerExit
  BY <1>6, RestoreInForce DEF UsingExit, HandlerExit
<1>7. CASE BareEnter
  <2>1. /\ frames' = Append(frames, QuietFrame("bare", EnsureAtomic({Default}), Default))
        /\ tenant' = tenant
    BY <1>7 DEF BareEnter, Push, QuietFrame
  <2>2. \A a \in Aliases : conn'[a].var = conn[a].var /\ conn'[a].aborted = conn[a].aborted
    BY <1>t, <1>7 DEF BareEnter, Begin, Connection
  <2>3. QED
    BY <2>1, <2>2, AliasAssumption, EnsureAtomicFacts, QuietEnterInForce
<1>8. ASSUME NEW b \in Aliases, BypassEnter(b)
      PROVE  PlacesCovered(frames', G) /\ LastSetter(frames') /\ TopInForce(G)'
  <2>1. /\ frames' = Append(frames, QuietFrame("bypass", EnsureAtomic({b}), b))
        /\ tenant' = tenant
    BY <1>8 DEF BypassEnter, Push, QuietFrame
  <2>2. \A a \in Aliases : conn'[a].var = conn[a].var /\ conn'[a].aborted = conn[a].aborted
    BY <1>8, BypassEnterLeaves
  <2>3. QED
    BY <2>1, <2>2, EnsureAtomicFacts, QuietEnterInForce
<1>9. ASSUME NEW b \in Aliases, AtomicEnter(b)
      PROVE  PlacesCovered(frames', G) /\ LastSetter(frames') /\ TopInForce(G)'
  <2>1. /\ frames' = Append(frames,
              QuietFrame("atomic", {b} \ {a \in Aliases : conn[a].inTx}, b))
        /\ ~conn[b].aborted /\ tenant' = tenant
    BY <1>9 DEF AtomicEnter, Push, QuietFrame
  <2>2. \A a \in Aliases : conn'[a].var = conn[a].var /\ conn'[a].aborted = conn[a].aborted
    BY <1>t, <1>9 DEF AtomicEnter, Begin, Connection
  <2>3. QED
    BY <2>1, <2>2, QuietEnterInForce
<1>10. CASE BareExit
  <2>1. \A a \in Aliases \ Top.owned : conn'[a] = conn[a]
    BY <1>10 DEF BareExit
  <2>2. QED
    BY <1>10, <2>1, QuietExitInForce DEF BareExit
<1>11. CASE BypassExit
  <2>1. ASSUME NEW a \in Aliases \ Top.owned
        PROVE  conn'[a] = conn[a] \/ conn'[a] = [conn[a] EXCEPT !.flag = FALSE]
    BY <1>t, <1>11 DEF BypassExit
  <2>2. ASSUME NEW a \in Aliases \ Top.owned, Usable(conn'[a])
        PROVE  Usable(conn[a]) /\ conn'[a].var = conn[a].var
    <3>1. conn[a] \in Connection
      BY <1>t
    <3>2. QED
      BY <2>1, <2>2, <3>1 DEF Usable, Connection
  <2>3. QED
    BY <1>11, <2>2, QuietExitInForce DEF BypassExit
<1>12. ASSUME NEW raised \in BOOLEAN, AtomicExit(raised)
       PROVE  PlacesCovered(frames', G) /\ LastSetter(frames') /\ TopInForce(G)'
  <2>1. ASSUME NEW a \in Aliases \ Top.owned
        PROVE  \/ conn'[a] = conn[a]
               \/ a = Top.alias /\ conn'[a] = [conn[a] EXCEPT !.aborted = FALSE,
                                                  !.var = Top.savedVar, !.flag = Top.savedFlag]
    BY <1>t, <1>12 DEF AtomicExit
  <2>2. ASSUME NEW a \in Aliases \ Top.owned, Usable(conn'[a])
        PROVE  \/ Usable(conn[a]) /\ conn'[a].var = conn[a].var
               \/ Top.alias = a /\ conn'[a].var = Top.savedVar
    <3>1. conn[a] \in Connection
      BY <1>t
    <3>2. QED
      BY <2>1, <2>2, <3>1 DEF Connection
  <2>3. Depth > 0 /\ Top.kind = "atomic" /\ frames' = Pop /\ tenant' = tenant
    BY <1>12 DEF AtomicExit
  <2>4. QED
    BY <2>2, <2>3, QuietExitInForce
<1>13. ASSUME NEW b \in Aliases, SqlError(b)
       PROVE  PlacesCovered(frames', G) /\ LastSetter(frames') /\ TopInForce(G)'
  <2>1. frames' = frames /\ tenant' = tenant
    BY <1>13 DEF SqlError
  <2>2. QED
    BY <2>1, StillInForce
<1>14. CASE UNCHANGED vars
  <2>1. frames' = frames /\ tenant' = tenant
    BY <1>14 DEF vars
  <2>2. QED
    BY <2>1, StillInForce
<1>15. QED
  BY <1>1, <1>2, <1>4, <1>5, <1>6, <1>7, <1>8, <1>9, <1>10, <1>11, <1>12, <1>13, <1>14
     DEF Next

\* What a step that neither enters nor leaves a scope can change: it ends no
\* transaction, and of the variables a half-done set() reaches the one of
\* "default" only, where that is exposed.
LEMMA StayFacts ==
  ASSUME IInv, [Next]_vars, frames' = frames, NEW a \in Aliases
  PROVE  /\ conn'[a].inTx <=> conn[a].inTx
         /\ Usable(conn'[a]) => Usable(conn[a])
         /\ a \in Guarded \/ a # Default => conn'[a].var = conn[a].var
<1>t. /\ conn \in [Aliases -> Connection] /\ Len(frames) \in Nat
      /\ frames \in Seq(Frame)
  BY DEF IInv, TypeOK
<1>s. ASSUME NEW t \in Scope, NEW own \in SUBSET Aliases, SetRaises(t, own)
      PROVE  /\ conn'[a].inTx = conn[a].inTx /\ conn'[a].aborted = conn[a].aborted
             /\ a \in Guarded \/ a # Default => conn'[a].var = conn[a].var
  <2>1. /\ conn'[a].inTx = conn[a].inTx
        /\ conn'[a].aborted = conn[a].aborted
        /\ conn'[a] # conn[a] => a = Default /\ DefaultExposed
    BY <1>s, SetRaisesFacts
  <2>2. QED
    BY <2>1 DEF Guarded
<1>1. ASSUME NEW t \in Scope, UsingRaises(t)
      PROVE  /\ conn'[a].inTx = conn[a].inTx /\ conn'[a].aborted = conn[a].aborted
             /\ a \in Guarded \/ a # Default => conn'[a].var = conn[a].var
  BY <1>s, <1>1, EnsureAtomicFacts DEF UsingRaises
<1>2. ASSUME NEW t \in Tenants, HandlerRaises(t)
      PROVE  /\ conn'[a].inTx = conn[a].inTx /\ conn'[a].aborted = conn[a].aborted
             /\ a \in Guarded \/ a # Default => conn'[a].var = conn[a].var
  BY <1>s, <1>2, EnsureAtomicFacts DEF HandlerRaises, Scope
<1>3. ASSUME NEW b \in Aliases, SqlError(b)
      PROVE  /\ conn'[a].inTx = conn[a].inTx /\ conn'[a].var = conn[a].var
             /\ Usable(conn'[a]) => Usable(conn[a])
  <2>1. conn' = [conn EXCEPT ![b].aborted = TRUE]
    BY <1>3 DEF SqlError
  <2>2. QED
    BY <1>t, <2>1 DEF Usable, Connection
<1>4. CASE UNCHANGED vars
  BY <1>4 DEF vars
<1>5. ASSUME NEW f, frames' = Append(frames, f) PROVE FALSE
  <2>1. Len(frames') = Len(frames) + 1
    BY <1>t, <1>5
  <2>2. QED
    BY <1>t, <2>1
<1>6. ASSUME Depth > 0, frames' = Pop PROVE FALSE
  <2>1. Len(Pop) = Len(frames) - 1
    BY <1>6, PopFacts DEF IInv, Depth
  <2>2. QED
    BY <1>t, <1>6, <2>1
<1>7. \A t \in Scope : ~UsingEnter(t)
  BY <1>5 DEF UsingEnter, SetScope, Push
<1>8. \A t \in Tenants : ~HandlerEnter(t)
  BY <1>5 DEF HandlerEnter, SetScope, Push
<1>9. ~BareEnter /\ \A b \in Aliases : ~BypassEnter(b) /\ ~AtomicEnter(b)
  BY <1>5 DEF BareEnter, BypassEnter, AtomicEnter, Push
<1>10. /\ ~UsingExit /\ ~HandlerExit /\ ~BareExit /\ ~BypassExit
       /\ \A raised \in BOOLEAN : ~AtomicExit(raised)
  BY <1>6 DEF UsingExit, HandlerExit, BareExit, BypassExit, AtomicExit
<1>11. \/ \E t \in Scope : UsingRaises(t)
       \/ \E t \in Tenants : HandlerRaises(t)
       \/ \E b \in Aliases : SqlError(b)
       \/ UNCHANGED vars
  BY <1>7, <1>8, <1>9, <1>10 DEF Next
<1>12. QED
  BY <1>1, <1>2, <1>3, <1>4, <1>11 DEF Usable

\* Every step of the worker preserves the invariant with the tenants in force.
LEMMA BInvStep == BInv /\ [Next]_vars => BInv'
<1> SUFFICES ASSUME BInv, [Next]_vars PROVE BInv'
  OBVIOUS
<1>1. IInv /\ IInv' /\ ForceOn(Guarded)
  BY NextStep DEF BInv, FInv
<1>2. Guarded \in SUBSET Aliases
  BY DEF Guarded
<1>3. frames' = frames => \A a \in Guarded :
          Usable(conn'[a]) => Usable(conn[a]) /\ conn'[a].var = conn[a].var
  BY <1>1, <1>2, StayFacts
<1>4. ForceOn(Guarded)'
  BY <1>1, <1>2, <1>3, ForceStep
<1>5. QED
  BY <1>1, <1>4 DEF BInv, FInv, ForceOn, TopInForce, PlacesCovered, Usable, Guarded,
                    DefaultExposed, RegionalAlias

\* Where tenants are in force on G, the body of using(t) runs under t on every
\* PostgreSQL alias of t in G, and that of a handler on "default" if it is in G.
LEMMA BodyInForce ==
  ASSUME IInv, NEW G \in SUBSET Aliases, ForceOn(G), WrapAtomic, SetDbSessionVar,
         tenant # NoTenant, Setter > 0, NEW a \in G \cap Postgres,
         a \in IF frames[Setter].kind = "using" THEN TargetAliases(tenant) ELSE {Default}
  PROVE  conn[a].inTx /\ (Usable(conn[a]) => conn[a].var = tenant)
<1> DEFINE n == Len(frames)
           S == {i \in DOMAIN frames : frames[i].kind \in {"using", "handler"}}
<1>1. n \in Nat /\ DOMAIN frames = 1..n
  BY DEF IInv, TypeOK
<1>2. S # {} /\ Setter = CHOOSE i \in S : \A j \in S : j <= i
  BY DEF Setter
<1>3. PICK k \in 1..n : Sets(frames[k])
  BY <1>1, <1>2 DEF Sets
<1>4. n \in 1..n /\ n > 0
  BY <1>1, <1>3
<1>5. PICK m \in 1..n : Sets(frames[m]) /\ \A j \in 1..n : Sets(frames[j]) => j <= m
  BY <1>3, <1>4 DEF ForceOn, LastSetter
<1>6. m \in S /\ \A j \in S : j <= m
  BY <1>1, <1>5 DEF Sets
<1>7. Setter \in S /\ \A j \in S : j <= Setter
  <2> HIDE DEF S
  <2>1. QED
    BY <1>2, <1>6
<1>8. /\ Setter \in 1..n /\ Sets(frames[Setter])
      /\ \A j \in (Setter + 1)..n : ~Sets(frames[j])
  BY <1>1, <1>7 DEF Sets
<1>9. tenant = frames[n].tenant
  BY <1>4, EmptySeq DEF IInv, TypeOK, TokensChain
<1>10. Covered(frames, n, a)
  BY <1>8, <1>9 DEF Covered, Sets
<1>11. a \in Aliases
  OBVIOUS
<1>12. PICK j \in 1..n : a \in frames[j].owned
  BY <1>4, <1>10, <1>11 DEF ForceOn, PlacesCovered
<1>13. conn[a].inTx
  BY <1>1, <1>11, <1>12 DEF IInv, OneOwner
<1>14. Usable(conn[a]) => conn[a].var = tenant
  BY <1>4, <1>10, <1>11 DEF ForceOn, TopInForce
<1>15. QED
  BY <1>13, <1>14

\* The body of using(t) runs under t on every PostgreSQL alias of t, and a
\* request or task body under its tenant on "default", whatever nested scopes,
\* errors and rollbacks came before it (TenantContext.using and clear,
\* TenantMiddleware, tenant_task).
THEOREM BodyHolds == Spec => []BodyIsInForce
<1>1. Init => BInv
  <2> SUFFICES ASSUME Init PROVE BInv
    OBVIOUS
  <2>1. frames = <<>> /\ Len(frames) = 0
    BY DEF Init
  <2>2. PlacesCovered(frames, Guarded) /\ LastSetter(frames) /\ TopInForce(Guarded)
    BY <2>1 DEF PlacesCovered, LastSetter, TopInForce
  <2>3. QED
    BY <2>2, InitStep DEF BInv, FInv, ForceOn
<1>2. BInv => BodyIsInForce
  <2> SUFFICES ASSUME BInv, WrapAtomic, SetDbSessionVar, tenant # NoTenant, Setter > 0,
                      NEW a \in Covers(frames[Setter].kind) \cap Postgres
               PROVE  conn[a].inTx /\ (Usable(conn[a]) => conn[a].var = tenant)
    BY DEF BodyIsInForce, InForce
  <2>1. IInv /\ ForceOn(Guarded) /\ Guarded \in SUBSET Aliases
    BY DEF BInv, FInv, Guarded
  <2>2. /\ a \in Guarded \cap Postgres
        /\ a \in IF frames[Setter].kind = "using" THEN TargetAliases(tenant) ELSE {Default}
    BY DEF Covers
  <2>3. QED
    BY <2>1, <2>2, BodyInForce
<1>3. QED
  BY <1>1, <1>2, BInvStep, PTL DEF Spec

(***************************************************************************)
(* Agreement on one alias, the exposed "default" included, until a         *)
(* half-done set() reaches it                                              *)
(***************************************************************************)

\* On the alias a usable connection carries the active tenant's variable or
\* none, and each savepoint would bring back its own tenant's or none.
Agrees(a) ==
    /\ ScopeAgrees(a)
    /\ \A i \in 1..Len(frames) :
          frames[i].kind = "atomic" /\ frames[i].alias = a /\ frames[i].tenant # NoTenant
          /\ a \in TargetAliases(frames[i].tenant)
             => frames[i].savedVar \in {NoTenant, frames[i].tenant}

\* Entering a scope whose tenant the alias then carries, if any, and whose
\* savepoint remembers it.
LEMMA EnterAgrees ==
  ASSUME IInv, NEW a \in Aliases, Agrees(a), NEW f \in Frame,
         frames' = Append(frames, f), tenant' = f.tenant,
         f.tenant # NoTenant /\ a \in TargetAliases(f.tenant) =>
             /\ Usable(conn'[a]) => conn'[a].var \in {NoTenant, f.tenant}
             /\ f.kind = "atomic" /\ f.alias = a => f.savedVar \in {NoTenant, f.tenant}
  PROVE  Agrees(a)'
<1> DEFINE n == Len(frames)
<1>s. /\ n \in Nat /\ Len(frames') = n + 1 /\ frames'[n + 1] = f
      /\ \A i \in 1..n : frames'[i] = frames[i]
  BY AppendFacts DEF IInv, TypeOK
<1>n. n \in Nat
  BY <1>s
<1>o. \A i \in 1..n : frames[i].kind = "atomic" /\ frames[i].alias = a
                      /\ frames[i].tenant # NoTenant /\ a \in TargetAliases(frames[i].tenant)
                         => frames[i].savedVar \in {NoTenant, frames[i].tenant}
  BY DEF Agrees
<1> HIDE DEF n
<1>1. ASSUME NEW i \in 1..(n + 1), frames'[i].kind = "atomic", frames'[i].alias = a,
             frames'[i].tenant # NoTenant, a \in TargetAliases(frames'[i].tenant)
      PROVE  frames'[i].savedVar \in {NoTenant, frames'[i].tenant}
  <2>1. CASE i = n + 1
    BY <1>s, <1>1, <2>1
  <2>2. CASE i # n + 1
    <3>1. i \in 1..n
      BY <1>n, <2>2
    <3>2. QED
      BY <1>s, <1>o, <1>1, <3>1
  <2>3. QED
    BY <2>1, <2>2
<1>2. ScopeAgrees(a)'
  BY DEF ScopeAgrees, Usable, TargetAliases, RegionalAlias
<1>3. QED
  BY <1>1, <1>2, <1>s DEF Agrees, TargetAliases, RegionalAlias

\* Leaving a scope where the alias then carries the tenant outside, if any.
LEMMA ExitAgrees ==
  ASSUME IInv, NEW a \in Aliases, Agrees(a), Depth > 0, frames' = Pop, tenant' = Top.prev,
         Top.prev # NoTenant /\ a \in TargetAliases(Top.prev) /\ Usable(conn'[a])
             => conn'[a].var \in {NoTenant, Top.prev}
  PROVE  Agrees(a)'
<1> DEFINE n == Len(frames)
<1>s. n \in Nat /\ Len(frames') = n - 1 /\ \A i \in 1..(n - 1) : frames'[i] = frames[i]
  BY PopFacts DEF IInv, Depth
<1>n. n \in Nat /\ \A i \in 1..(n - 1) : i \in 1..n
  BY <1>s
<1>o. \A i \in 1..n : frames[i].kind = "atomic" /\ frames[i].alias = a
                      /\ frames[i].tenant # NoTenant /\ a \in TargetAliases(frames[i].tenant)
                         => frames[i].savedVar \in {NoTenant, frames[i].tenant}
  BY DEF Agrees
<1> HIDE DEF n
<1>1. \A i \in 1..(n - 1) :
         frames'[i].kind = "atomic" /\ frames'[i].alias = a /\ frames'[i].tenant # NoTenant
         /\ a \in TargetAliases(frames'[i].tenant)
            => frames'[i].savedVar \in {NoTenant, frames'[i].tenant}
  BY <1>n, <1>o, <1>s
<1>2. ScopeAgrees(a)'
  BY DEF ScopeAgrees, Usable, TargetAliases, RegionalAlias
<1>3. QED
  BY <1>1, <1>2, <1>s DEF Agrees, TargetAliases, RegionalAlias

\* Entering a scope with set().
LEMMA SetScopeAgrees ==
  ASSUME IInv, NEW a \in Aliases, Agrees(a),
         NEW kind \in {"using", "handler"}, NEW t \in Scope, NEW own \in SUBSET Aliases,
         SetScope(kind, t, own)
  PROVE  Agrees(a)'
<1> DEFINE f == [kind |-> kind, tenant |-> t, prev |-> tenant, owned |-> own,
                 alias |-> Default, level |-> depth[Default],
                 savedVar |-> conn[Default].var, savedFlag |-> conn[Default].flag]
<1>1. f \in Frame
  <2>1. /\ tenant \in Scope /\ depth[Default] \in Nat /\ Default \in Aliases
        /\ conn[Default].var \in Scope /\ conn[Default].flag \in BOOLEAN
    BY AliasAssumption DEF IInv, TypeOK, Connection
  <2>2. QED
    BY <2>1 DEF Frame, Kinds
<1>2. frames' = Append(frames, f) /\ tenant' = f.tenant /\ f.tenant = t /\ f.kind # "atomic"
  BY DEF SetScope, Push
<1> HIDE DEF f
<1>3. ASSUME t # NoTenant, a \in TargetAliases(t), Usable(conn'[a])
      PROVE  conn'[a].var \in {NoTenant, t}
  <2>1. /\ conn'[a].inTx = (conn[a].inTx \/ a \in own)
        /\ conn'[a].aborted = conn[a].aborted
        /\ conn'[a].var = IF /\ t # NoTenant /\ a \in TargetAliases(t) /\ WritesVar(a)
                             /\ conn'[a].inTx /\ ~conn[a].aborted
                          THEN t ELSE conn[a].var
    BY SetScopeFacts
  <2>2. ~WritesVar(a) => conn[a].var = NoTenant
    BY DEF IInv, ConnectionsClean
  <2>3. QED
    BY <1>3, <2>1, <2>2 DEF Usable
<1>4. QED
  BY <1>1, <1>2, <1>3, EnterAgrees

\* Entering a scope that sets no tenant.
LEMMA QuietEnterAgrees ==
  ASSUME IInv, NEW a \in Aliases, Agrees(a), NEW kind \in {"bare", "bypass", "atomic"},
         NEW own \in SUBSET Aliases, NEW b \in Aliases,
         frames' = Append(frames, QuietFrame(kind, own, b)), tenant' = tenant,
         kind = "atomic" => ~conn[b].aborted,
         conn'[a].var = conn[a].var /\ conn'[a].aborted = conn[a].aborted
  PROVE  Agrees(a)'
<1> DEFINE f == QuietFrame(kind, own, b)
<1>1. /\ f \in Frame /\ f.kind = kind /\ f.alias = b /\ f.tenant = tenant
      /\ f.savedVar = conn[b].var
  BY QuietFrameFacts DEF Kinds
<1>2. frames' = Append(frames, f)
  BY DEF f
<1> HIDE DEF f
<1>3. conn[a].var # NoTenant => conn[a].inTx
  BY DEF IInv, ConnectionsClean, Idle
<1>4. tenant # NoTenant /\ a \in TargetAliases(tenant) /\ ~conn[a].aborted
         => conn[a].var \in {NoTenant, tenant}
  BY <1>3 DEF Agrees, ScopeAgrees, Usable
<1>5. f.tenant # NoTenant /\ a \in TargetAliases(f.tenant) =>
        /\ Usable(conn'[a]) => conn'[a].var \in {NoTenant, f.tenant}
        /\ f.kind = "atomic" /\ f.alias = a => f.savedVar \in {NoTenant, f.tenant}
  BY <1>1, <1>4 DEF Usable
<1>6. QED
  BY <1>1, <1>2, <1>5, EnterAgrees

\* The exit of using() and clear().
LEMMA RestoreAgrees ==
  ASSUME IInv, NEW a \in Aliases, Agrees(a), Depth > 0, RestoreScope(Top), frames' = Pop
  PROVE  Agrees(a)'
<1>1. ASSUME Top.prev # NoTenant, a \in TargetAliases(Top.prev), Usable(conn'[a])
      PROVE  conn'[a].var \in {NoTenant, Top.prev}
  <2>1. a \in Aliases \ Top.owned
    BY <1>1, RestoreFacts DEF Usable, Idle
  <2>2. /\ conn'[a].inTx = conn[a].inTx /\ conn'[a].aborted = conn[a].aborted
        /\ ~Usable(conn[a]) \/ ~WritesVar(a) => conn'[a] = conn[a]
        /\ /\ Usable(conn[a]) /\ WritesVar(a)
           /\ Top.prev # NoTenant /\ a \in TargetAliases(Top.prev)
           => conn'[a].var = Top.prev
    BY <2>1, RestoreFacts
  <2>3. ~WritesVar(a) => conn[a].var = NoTenant
    BY DEF IInv, ConnectionsClean
  <2>4. Usable(conn[a])
    BY <1>1, <2>2 DEF Usable
  <2>5. CASE WritesVar(a)
    BY <1>1, <2>2, <2>4, <2>5
  <2>6. CASE ~WritesVar(a)
    BY <2>2, <2>3, <2>6
  <2>7. QED
    BY <2>5, <2>6
<1>2. tenant' = Top.prev
  BY DEF RestoreScope
<1>3. QED
  BY <1>1, <1>2, ExitAgrees

\* Leaving a scope that set no tenant.
LEMMA QuietExitAgrees ==
  ASSUME IInv, NEW a \in Aliases, Agrees(a), Depth > 0,
         Top.kind \in {"bare", "bypass", "atomic"}, frames' = Pop, tenant' = tenant,
         a \notin Top.owned /\ Usable(conn'[a]) =>
             \/ Usable(conn[a]) /\ conn'[a].var = conn[a].var
             \/ Top.kind = "atomic" /\ Top.alias = a /\ conn'[a].var = Top.savedVar,
         a \in Top.owned => ~Usable(conn'[a])
  PROVE  Agrees(a)'
<1> DEFINE n == Len(frames)
<1>n. n \in Nat /\ n > 0 /\ n \in 1..n /\ DOMAIN frames = 1..n /\ Top = frames[n] /\ frames # <<>>
  BY PopFacts DEF IInv, Depth, Top
<1>t. tenant = Top.tenant /\ Top.tenant = Top.prev
  BY <1>n DEF IInv, TokensChain
<1>1. Top.kind = "atomic" /\ Top.alias = a /\ Top.tenant # NoTenant
      /\ a \in TargetAliases(Top.tenant) => Top.savedVar \in {NoTenant, Top.tenant}
  BY <1>n DEF Agrees
<1>2. tenant # NoTenant /\ a \in TargetAliases(tenant) /\ Usable(conn[a])
         => conn[a].var \in {NoTenant, tenant}
  BY DEF Agrees, ScopeAgrees
<1>3. Top.prev # NoTenant /\ a \in TargetAliases(Top.prev) /\ Usable(conn'[a])
         => conn'[a].var \in {NoTenant, Top.prev}
  BY <1>1, <1>2, <1>t
<1>4. QED
  BY <1>3, <1>t, ExitAgrees

\* Every step of the worker keeps agreement, unless it changes the variable
\* without entering or leaving a scope.
LEMMA AgreeStep ==
  ASSUME IInv, NEW a \in Aliases, Agrees(a), [Next]_vars,
         frames' = frames =>
             (Usable(conn'[a]) => Usable(conn[a]) /\ conn'[a].var = conn[a].var)
  PROVE  Agrees(a)'
<1>t. conn \in [Aliases -> Connection] /\ conn[a] \in Connection
  BY DEF IInv, TypeOK
<1>s. ASSUME frames' = frames, tenant' = tenant PROVE Agrees(a)'
  BY <1>s DEF Agrees, ScopeAgrees, Usable, TargetAliases, RegionalAlias
<1>1. ASSUME NEW t \in Scope, UsingEnter(t) PROVE Agrees(a)'
  <2>1. SetScope("using", t, EnsureAtomic(TargetAliases(t)))
    BY <1>1 DEF UsingEnter
  <2>2. QED
    BY <2>1, EnsureAtomicFacts, SetScopeAgrees
<1>2. ASSUME NEW t \in Tenants, HandlerEnter(t) PROVE Agrees(a)'
  <2>1. SetScope("handler", t, EnsureAtomic({Default})) /\ t \in Scope
    BY <1>2 DEF HandlerEnter, Scope
  <2>2. QED
    BY <2>1, EnsureAtomicFacts, SetScopeAgrees
<1>3. ASSUME NEW t \in Scope, UsingRaises(t) PROVE Agrees(a)'
  BY <1>s, <1>3 DEF UsingRaises, SetRaises
<1>4. ASSUME NEW t \in Tenants, HandlerRaises(t) PROVE Agrees(a)'
  BY <1>s, <1>4 DEF HandlerRaises, SetRaises
<1>5. CASE UsingExit \/ HandlerExit
  BY <1>5, RestoreAgrees DEF UsingExit, HandlerExit
<1>6. CASE BareEnter
  <2>1. /\ frames' = Append(frames, QuietFrame("bare", EnsureAtomic({Default}), Default))
        /\ tenant' = tenant
    BY <1>6 DEF BareEnter, Push, QuietFrame
  <2>2. conn'[a].var = conn[a].var /\ conn'[a].aborted = conn[a].aborted
    BY <1>t, <1>6 DEF BareEnter, Begin, Connection
  <2>3. QED
    BY <2>1, <2>2, AliasAssumption, EnsureAtomicFacts, QuietEnterAgrees
<1>7. ASSUME NEW b \in Aliases, BypassEnter(b) PROVE Agrees(a)'
  <2>1. /\ frames' = Append(frames, QuietFrame("bypass", EnsureAtomic({b}), b))
        /\ tenant' = tenant
    BY <1>7 DEF BypassEnter, Push, QuietFrame
  <2>2. conn'[a].var = conn[a].var /\ conn'[a].aborted = conn[a].aborted
    BY <1>7, BypassEnterLeaves
  <2>3. QED
    BY <2>1, <2>2, EnsureAtomicFacts, QuietEnterAgrees
<1>8. ASSUME NEW b \in Aliases, AtomicEnter(b) PROVE Agrees(a)'
  <2>1. /\ frames' = Append(frames,
              QuietFrame("atomic", {b} \ {c \in Aliases : conn[c].inTx}, b))
        /\ ~conn[b].aborted /\ tenant' = tenant
    BY <1>8 DEF AtomicEnter, Push, QuietFrame
  <2>2. conn'[a].var = conn[a].var /\ conn'[a].aborted = conn[a].aborted
    BY <1>t, <1>8 DEF AtomicEnter, Begin, Connection
  <2>3. QED
    BY <2>1, <2>2, QuietEnterAgrees
<1>9. CASE BareExit
  <2>1. IF a \in Top.owned THEN conn'[a] = Idle ELSE conn'[a] = conn[a]
    BY <1>9 DEF BareExit
  <2>2. QED
    BY <1>9, <2>1, QuietExitAgrees DEF BareExit, Usable, Idle
<1>10. CASE BypassExit
  <2>1. Top.owned \subseteq {Top.alias} /\ Top.alias \in Aliases
    BY <1>10, TopFacts DEF BypassExit
  <2>2. IF a \in Top.owned THEN conn'[a] = Idle
        ELSE conn'[a] = conn[a] \/ conn'[a] = [conn[a] EXCEPT !.flag = FALSE]
    BY <1>t, <1>10, <2>1 DEF BypassExit
  <2>3. a \notin Top.owned /\ Usable(conn'[a]) => Usable(conn[a]) /\ conn'[a].var = conn[a].var
    BY <1>t, <2>2 DEF Usable, Connection
  <2>4. a \in Top.owned => ~Usable(conn'[a])
    BY <2>2 DEF Usable, Idle
  <2>5. QED
    BY <1>10, <2>3, <2>4, QuietExitAgrees DEF BypassExit
<1>11. ASSUME NEW raised \in BOOLEAN, AtomicExit(raised) PROVE Agrees(a)'
  <2>1. /\ Depth > 0 /\ Top.kind = "atomic" /\ frames' = Pop /\ tenant' = tenant
    BY <1>11 DEF AtomicExit
  <2>2. Top.owned \subseteq {Top.alias} /\ Top.alias \in Aliases
    BY <2>1, TopFacts
  <2>3. IF a \in Top.owned THEN conn'[a] = Idle
        ELSE \/ conn'[a] = conn[a]
             \/ a = Top.alias /\ conn'[a] = [conn[a] EXCEPT !.aborted = FALSE,
                                                !.var = Top.savedVar, !.flag = Top.savedFlag]
    BY <1>t, <1>11, <2>2 DEF AtomicExit
  <2>4. a \notin Top.owned /\ Usable(conn'[a]) =>
           \/ Usable(conn[a]) /\ conn'[a].var = conn[a].var
           \/ Top.alias = a /\ conn'[a].var = Top.savedVar
    BY <1>t, <2>3 DEF Connection
  <2>5. a \in Top.owned => ~Usable(conn'[a])
    BY <2>3 DEF Usable, Idle
  <2>6. QED
    BY <2>1, <2>4, <2>5, QuietExitAgrees
<1>12. ASSUME NEW b \in Aliases, SqlError(b) PROVE Agrees(a)'
  BY <1>s, <1>12 DEF SqlError
<1>13. CASE UNCHANGED vars
  BY <1>s, <1>13 DEF vars
<1>14. QED
  BY <1>1, <1>2, <1>3, <1>4, <1>5, <1>6, <1>7, <1>8, <1>9, <1>10, <1>11, <1>12, <1>13 DEF Next
=============================================================================
