--------------------------- MODULE SigningShares ---------------------------
(***************************************************************************)
(* What the operations of Signing do to shares and recovered signatures.   *)
(***************************************************************************)
EXTENDS SigningInvariant, FiniteSetTheorems, FunctionTheorems

\* The default backend; the steps that need first-order reasoning name Zenon.
USE SMTT(60)

-----------------------------------------------------------------------------
(* Threshold sets of one quorum.                                           *)

\* Two sets of at least Threshold members of a quorum share an honest member.
LEMMA ThresholdSetsIntersect ==
    ASSUME NEW q \in Quorums,
           NEW A \in SUBSET MembersOf[q], NEW B \in SUBSET MembersOf[q],
           Cardinality(A) >= Threshold[q], Cardinality(B) >= Threshold[q]
    PROVE  \E n \in A \cap B : n \in Honest
<1> DEFINE M == MembersOf[q]
           F == M \cap Faulty
<1>1. /\ IsFiniteSet(M)
      /\ 2 * Threshold[q] > Cardinality(M) + Cardinality(F)
      /\ Threshold[q] \in Nat
      /\ M \subseteq Members
  BY QuorumAssumption, SigningAssumption, ZenonT(60)
<1>2. IsFiniteSet(A) /\ IsFiniteSet(B) /\ IsFiniteSet(F) /\ IsFiniteSet(A \cap B)
  BY <1>1, FS_Subset
<1>3. Cardinality(A \cup B) = Cardinality(A) + Cardinality(B) - Cardinality(A \cap B)
  BY <1>2, FS_Union
<1>4. Cardinality(A \cup B) <= Cardinality(M)
  BY <1>1, FS_Subset
<1>5. /\ Cardinality(A) \in Nat /\ Cardinality(B) \in Nat
      /\ Cardinality(A \cap B) \in Nat /\ Cardinality(M) \in Nat
      /\ Cardinality(F) \in Nat
  BY <1>1, <1>2, FS_CardinalityType
<1>6. Cardinality(A \cap B) > Cardinality(F)
  BY <1>1, <1>3, <1>4, <1>5
<1>7. ASSUME A \cap B \subseteq F PROVE FALSE
  <2>1. Cardinality(A \cap B) <= Cardinality(F)
    BY <1>2, <1>7, FS_Subset
  <2> QED
    BY <2>1, <1>5, <1>6
<1>8. PICK n \in A \cap B : n \notin F
  BY <1>7
<1> QED
  BY <1>1, <1>8 DEF Honest

\* Shares of one session are as many as their members: if all their members can
\* be found among the signers of the session, Threshold shares mean Threshold
\* signers.
LEMMA SharesCountSigners ==
    ASSUME NEW s \in Sessions, NEW X \in SUBSET Shares, NEW Y \in SUBSET MembersOf[s.quorum],
           \A sh \in X : sh.session = s /\ sh.member \in Y
    PROVE  IsFiniteSet(X) /\ Cardinality(X) <= Cardinality(Y)
<1> DEFINE f == [sh \in X |-> sh.member]
<1>1. IsFiniteSet(Y)
  <2>1. s.quorum \in Quorums
    BY DEF Sessions, RecSigs
  <2> QED
    BY <2>1, QuorumAssumption, FS_Subset, ZenonT(60)
<1>2. f \in Injection(X, Y)
  <2>1. f \in [X -> Y]
    OBVIOUS
  <2>2. ASSUME NEW a \in X, NEW b \in X, f[a] = f[b] PROVE a = b
    BY <2>2 DEF Shares
  <2> QED
    BY <2>1, <2>2, Fun_IsInj
<1> QED
  BY <1>1, <1>2, FS_Injection

-----------------------------------------------------------------------------
(* Shares and recovered signatures.                                        *)

\* Shares are never withdrawn, so the signers of a session only grow.
LEMMA SignersGrow ==
    ASSUME shares \subseteq shares', NEW s \in Sessions
    PROVE  /\ Signers(s) \subseteq Signers(s)'
           /\ Signers(s)' \subseteq MembersOf[s.quorum]
           /\ Cardinality(Signers(s)) >= Threshold[s.quorum]
                => Cardinality(Signers(s)') >= Threshold[s.quorum]
<1>1. s.quorum \in Quorums
  BY DEF Sessions, RecSigs
<1>2. Signers(s) \subseteq Signers(s)' /\ Signers(s)' \subseteq MembersOf[s.quorum]
  BY DEF Signers
<1>3. IsFiniteSet(Signers(s)) /\ IsFiniteSet(Signers(s)')
  BY <1>1, <1>2, QuorumAssumption, FS_Subset, ZenonT(60)
<1>4. /\ Cardinality(Signers(s)) <= Cardinality(Signers(s)')
      /\ Cardinality(Signers(s)) \in Nat
      /\ Cardinality(Signers(s)') \in Nat
  BY <1>2, <1>3, FS_Subset, FS_CardinalityType
<1>5. Threshold[s.quorum] \in Nat
  BY <1>1, SigningAssumption
<1> QED
  BY <1>2, <1>4, <1>5

\* The step adds no share to a node and recovers nothing.
SharesUntouched ==
    /\ shares \subseteq shares'
    /\ \A n \in Honest : sigShares'[n] \subseteq sigShares[n]
    /\ recovered' = recovered

\* Such a step preserves the invariants about shares and signatures.
LEMMA ShareFrame ==
    ASSUME TypeOK, ShareInv, RecoveredInv, SharesUntouched
    PROVE  ShareInv' /\ RecoveredInv'
<1> USE DEF SharesUntouched
<1>1. ASSUME NEW n \in Honest, NEW sh \in sigShares'[n]
      PROVE  sh.member \in Signers(sh.session)'
  <2>1. sh.session \in Sessions
    BY DEF TypeOK, Shares
  <2> QED
    BY <2>1, SignersGrow DEF ShareInv
<1>2. ASSUME NEW rs \in recovered'
      PROVE  Cardinality(Signers(rs)') >= Threshold[rs.quorum]
  <2>1. rs \in Sessions
    BY DEF TypeOK, Sessions
  <2> QED
    BY <2>1, SignersGrow DEF RecoveredInv
<1> QED
  BY <1>1, <1>2 DEF ShareInv, RecoveredInv

\* The effect of ProcessRecoveredSig on the shares: it only drops some of held.
LEMMA ProcessRecoveredSigShares ==
    ASSUME TypeOK, NEW n \in Honest, NEW rs, NEW held, NEW recon,
           ProcessRecoveredSig(n, rs, held, recon)
    PROVE  /\ sigShares'[n] \subseteq held
           /\ \A x \in Honest \ {n} : sigShares'[x] = sigShares[x]
BY DEF ProcessRecoveredSig, TypeOK

\* ProcessSigShare, given a share of a real signer, keeps shares and recovered
\* signatures backed by signers.
LEMMA ProcessSigShareShares ==
    ASSUME TypeOK, ShareInv, RecoveredInv, shares \subseteq shares',
           NEW n \in Honest, NEW sh \in Shares, sh.member \in Signers(sh.session)',
           ProcessSigShare(n, sh)
    PROVE  ShareInv' /\ RecoveredInv'
<1> DEFINE s == sh.session
           held == sigShares[n] \cup {sh}
<1>1. s \in Sessions /\ held \subseteq Shares
  BY DEF Shares, TypeOK
<1>2. ASSUME NEW x \in held PROVE x.member \in Signers(x.session)'
  <2>1. x.session \in Sessions
    BY <1>1 DEF Shares
  <2> QED
    BY <2>1, SignersGrow DEF ShareInv
<1>3. /\ sigShares'[n] \subseteq held
      /\ \A x \in Honest \ {n} : sigShares'[x] = sigShares[x]
  BY ProcessRecoveredSigShares DEF ProcessSigShare, TypeOK
<1>4. ShareInv'
  <2> SUFFICES ASSUME NEW x \in Honest, NEW y \in sigShares'[x]
               PROVE  y.member \in Signers(y.session)'
    BY DEF ShareInv
  <2>1. CASE x = n
    BY <1>2, <1>3, <2>1
  <2>2. CASE x # n
    <3>1. y \in sigShares[x] /\ y.session \in Sessions
      BY <1>3, <2>2 DEF TypeOK, Shares
    <3> QED
      BY <3>1, SignersGrow DEF ShareInv
  <2> QED
    BY <2>1, <2>2
<1>5. ASSUME NEW rs \in recovered
      PROVE  Cardinality(Signers(rs)') >= Threshold[rs.quorum]
  <2>1. rs \in Sessions
    BY DEF TypeOK, Sessions
  <2> QED
    BY <2>1, SignersGrow DEF RecoveredInv
<1>6. CASE recovered' = recovered
  BY <1>4, <1>5, <1>6 DEF RecoveredInv
<1>7. CASE /\ recovered' = recovered \cup {s}
           /\ Cardinality(SharesFor(held, s)) >= Threshold[s.quorum]
  <2> DEFINE X == SharesFor(held, s)
             Y == Signers(s)'
  <2>1. X \in SUBSET Shares /\ \A x \in X : x.session = s /\ x.member \in Y
    BY <1>1, <1>2 DEF SharesFor
  <2>2. Y \in SUBSET MembersOf[s.quorum]
    BY <1>1, SignersGrow
  <2>3. IsFiniteSet(X) /\ Cardinality(X) <= Cardinality(Y)
    BY <1>1, <2>1, <2>2, SharesCountSigners, ZenonT(60)
  <2>4. s.quorum \in Quorums /\ IsFiniteSet(Y)
    BY <1>1, <2>2, QuorumAssumption, FS_Subset, ZenonT(60) DEF Sessions, RecSigs
  <2>5. Cardinality(X) \in Nat /\ Cardinality(Y) \in Nat /\ Threshold[s.quorum] \in Nat
    BY <2>3, <2>4, FS_CardinalityType, SigningAssumption
  <2>6. Cardinality(Y) >= Threshold[s.quorum]
    BY <1>7, <2>3, <2>5
  <2> QED
    BY <1>4, <1>5, <1>7, <2>6 DEF RecoveredInv
<1> QED
  BY <1>6, <1>7 DEF ProcessSigShare

=============================================================================
