------------------------- MODULE GatewayVerifierProofs -------------------------
(***************************************************************************)
(* The bounded cache of request ids is as good as the list of all accepted *)
(* requests, up to its capacity and lifetime: proved for any number of     *)
(* ids, any capacity, any lifetime and a clock without bound.              *)
(***************************************************************************)
EXTENDS GatewayVerifier, FiniteSetTheorems, SequenceTheorems, TLAPS

USE VerifierAssumption

\* An entry belongs to the acceptance that made it, and to no other.
EntriesAreAcceptances ==
    \A e \in cache :
        /\ e.nth \in DOMAIN accepted
        /\ e.key = accepted[e.nth].id
        /\ e.expires = accepted[e.nth].at + MaxAge

\* An acceptance without an entry is past its lifetime, or so far back that the cache
\* had to forget it.
ForgottenIsOld ==
    \A i \in DOMAIN accepted :
        \/ now >= accepted[i].at + MaxAge
        \/ Len(accepted) - i >= MaxReplayEntries
        \/ \E e \in cache : e.nth = i

VerifierInv ==
    /\ VerifierTypeOK
    /\ IsFiniteSet(cache)
    /\ EntriesAreAcceptances
    /\ ForgottenIsOld
    /\ NoEarlyRepeat

\* Among entries that belong to acceptances, no more than n are of the n last ones.
LEMMA YoungerEntries ==
    ASSUME VerifierInv, NEW C \in SUBSET cache, NEW n \in DOMAIN accepted
    PROVE  /\ IsFiniteSet(C)
           /\ Cardinality({f \in C : f.nth > n}) \in Nat
           /\ Cardinality({f \in C : f.nth > n}) <= Len(accepted) - n
<1> DEFINE Y == {f \in C : f.nth > n}
           I == (n + 1) .. Len(accepted)
           rank == [f \in Y |-> f.nth]
<1>1. IsFiniteSet(C) /\ IsFiniteSet(Y)
  <2>1. IsFiniteSet(C)
    BY FS_Subset DEF VerifierInv
  <2>2. QED
    BY <2>1, FS_Subset
<1>2. n \in Nat /\ Len(accepted) \in Nat /\ n <= Len(accepted) /\ 1 <= n
      /\ DOMAIN accepted = 1 .. Len(accepted)
  BY DEF VerifierInv, VerifierTypeOK
<1>3. rank \in [Y -> I]
  BY <1>2 DEF VerifierInv, EntriesAreAcceptances, VerifierTypeOK, Entry
<1>4. \A e, f \in Y : rank[e] = rank[f] => e = f
  <2> SUFFICES ASSUME NEW e \in Y, NEW f \in Y, e.nth = f.nth PROVE e = f
    OBVIOUS
  <2>1. e \in cache /\ f \in cache /\ e \in Entry /\ f \in Entry
    BY DEF VerifierInv, VerifierTypeOK
  <2>2. e.key = f.key /\ e.expires = f.expires
    BY <2>1 DEF VerifierInv, EntriesAreAcceptances
  <2>3. QED
    BY <2>1, <2>2 DEF Entry
<1>5. rank \in Injection(Y, I)
  BY <1>3, <1>4 DEF Injection, IsInjective
<1>6. IsFiniteSet(I) /\ Cardinality(I) = Len(accepted) - n
  <2> DEFINE last == Len(accepted)
  <2>1. n \in Nat /\ last \in Nat /\ n <= last
    BY <1>2
  <2>2. I = (n + 1) .. last
    OBVIOUS
  <2> HIDE DEF I, last
  <2>3. n + 1 \in Int /\ last \in Int
    BY <2>1
  <2>4. /\ IsFiniteSet((n + 1) .. last)
        /\ Cardinality((n + 1) .. last) = IF n + 1 > last THEN 0 ELSE last - (n + 1) + 1
    BY <2>3, FS_Interval
  <2>5. (IF n + 1 > last THEN 0 ELSE last - (n + 1) + 1) = last - n
    BY <2>1
  <2>6. IsFiniteSet(I) /\ Cardinality(I) = last - n
    BY <2>2, <2>4, <2>5, Zenon
  <2>7. QED
    BY <2>6 DEF last
<1>7. Cardinality(Y) <= Cardinality(I)
  BY <1>5, <1>6, FS_Injection
<1>8. Cardinality(Y) \in Nat
  BY <1>1, FS_CardinalityType
<1>9. QED
  BY <1>1, <1>6, <1>7, <1>8

\* The types in the form that the steps use.
LEMMA AcceptedTyped ==
    ASSUME VerifierTypeOK
    PROVE  /\ now \in Nat /\ Len(accepted) \in Nat
           /\ DOMAIN accepted = 1 .. Len(accepted)
           /\ \A i \in DOMAIN accepted : accepted[i].id \in Ids /\ accepted[i].at \in Nat
<1>1. accepted \in Seq([id : Ids, at : Nat]) /\ now \in Nat
  BY DEF VerifierTypeOK
<1>2. Len(accepted) \in Nat /\ DOMAIN accepted = 1 .. Len(accepted)
      /\ \A i \in DOMAIN accepted : accepted[i] \in [id : Ids, at : Nat]
  BY <1>1, LenProperties, ElementOfSeq
<1>3. QED
  BY <1>1, <1>2

\* What is left of the cache after the removals is made of entries that it had.
LEMMA AcceptStep ==
    ASSUME VerifierInv, NEW id \in Ids, ~Replayed(id),
           cache' = Evicted(Unexpired) \cup {Remembered(id)},
           accepted' = Append(accepted, [id |-> id, at |-> now]),
           now' = now, mode' = mode
    PROVE  VerifierInv'
<1> DEFINE L == Len(accepted)
<1>1. /\ L = Len(accepted) /\ L \in Nat /\ now \in Nat /\ DOMAIN accepted = 1 .. L
      /\ accepted \in Seq([id : Ids, at : Nat])
      /\ \A i \in 1 .. L : accepted[i].id \in Ids /\ accepted[i].at \in Nat
  BY AcceptedTyped DEF VerifierInv, VerifierTypeOK
<1> HIDE DEF L
<1>2. /\ accepted' \in Seq([id : Ids, at : Nat])
      /\ Len(accepted') = L + 1 /\ DOMAIN accepted' = 1 .. (L + 1)
      /\ accepted'[L + 1] = [id |-> id, at |-> now]
      /\ \A i \in 1 .. L : accepted'[i] = accepted[i]
  BY <1>1
<1>3. Remembered(id) = [key |-> id, expires |-> now + MaxAge, nth |-> L + 1]
  BY <1>1 DEF Remembered, Lifetime
<1>4. Evicted(Unexpired) \subseteq Unexpired /\ Unexpired \subseteq cache
  BY DEF Evicted, Unexpired
<1>5. VerifierTypeOK'
  <2>1. Remembered(id) \in Entry
    BY <1>1, <1>3 DEF Entry
  <2>2. cache' \subseteq Entry
    BY <1>4, <2>1 DEF VerifierInv, VerifierTypeOK
  <2>3. QED
    BY <1>2, <2>2 DEF VerifierInv, VerifierTypeOK
<1>6. IsFiniteSet(cache')
  <2>1. IsFiniteSet(Evicted(Unexpired))
    BY <1>4, FS_Subset DEF VerifierInv
  <2>2. QED
    BY <2>1, FS_AddElement
<1>7. EntriesAreAcceptances'
  <2> SUFFICES ASSUME NEW e \in cache'
               PROVE  /\ e.nth \in 1 .. (L + 1)
                      /\ e.key = accepted'[e.nth].id
                      /\ e.expires = accepted'[e.nth].at + MaxAge
    BY <1>2 DEF EntriesAreAcceptances
  <2>1. CASE e = Remembered(id)
    BY <1>1, <1>2, <1>3, <2>1
  <2>2. CASE e \in cache
    <3>1. e.nth \in 1 .. L /\ e.key = accepted[e.nth].id /\ e.expires = accepted[e.nth].at + MaxAge
      BY <1>1, <2>2 DEF VerifierInv, EntriesAreAcceptances
    <3>2. QED
      BY <1>1, <1>2, <3>1
  <2>3. QED
    BY <1>4, <2>1, <2>2
<1>8. ForgottenIsOld'
  <2> DEFINE Old(i) == \/ now >= accepted'[i].at + MaxAge
                       \/ Len(accepted') - i >= MaxReplayEntries
                       \/ \E e \in cache' : e.nth = i
  <2> SUFFICES \A i \in 1 .. (L + 1) : Old(i)
    BY <1>2 DEF ForgottenIsOld
  <2> TAKE i \in 1 .. (L + 1)
  <2>1. CASE i = L + 1
    BY <1>3, <2>1
  <2>2. CASE i \in 1 .. L
    <3>1. \/ now >= accepted[i].at + MaxAge
          \/ L - i >= MaxReplayEntries
          \/ \E e \in cache : e.nth = i
      BY <1>1, <2>2 DEF VerifierInv, ForgottenIsOld
    <3>2. CASE now >= accepted[i].at + MaxAge
      BY <1>2, <2>2, <3>2
    <3>3. CASE L - i >= MaxReplayEntries
      BY <1>1, <2>2, <3>3
    <3>4. CASE \E e \in cache : e.nth = i
      <4>1. PICK e \in cache : e.nth = i
        BY <3>4
      <4>2. e.expires = accepted[i].at + MaxAge /\ e \in Entry
        BY <4>1 DEF VerifierInv, EntriesAreAcceptances, VerifierTypeOK
      <4>3. CASE e \notin Unexpired
        <5>1. ~(e.expires > now)
          BY <4>1, <4>3 DEF Unexpired
        <5>2. now >= accepted[i].at + MaxAge
          BY <1>1, <1>2, <2>2, <4>2, <5>1
        <5>3. QED
          BY <1>2, <2>2, <5>2
      <4>4. CASE e \in Evicted(Unexpired)
        BY <4>1, <4>4
      <4>5. CASE e \in Unexpired \ Evicted(Unexpired)
        <5> DEFINE younger == Cardinality({f \in Unexpired : f.nth > i})
        <5>1. ~(younger + 1 < MaxReplayEntries)
          BY <4>1, <4>5 DEF Evicted
        <5>2. younger \in Nat /\ younger <= L - i
          BY <1>1, <1>4, <2>2, YoungerEntries
        <5>3. QED
          BY <1>1, <2>2, <5>1, <5>2
      <4>6. QED
        BY <4>3, <4>4, <4>5
    <3>5. QED
      BY <3>1, <3>2, <3>3, <3>4
  <2>3. QED
    BY <1>1, <2>1, <2>2
<1>9. NoEarlyRepeat'
  <2> SUFFICES ASSUME NEW i \in 1 .. (L + 1), NEW j \in 1 .. (L + 1),
                      i < j, accepted'[i].id = accepted'[j].id
               PROVE  \/ accepted'[j].at >= accepted'[i].at + MaxAge
                      \/ j - i > MaxReplayEntries
    BY <1>2 DEF NoEarlyRepeat
  <2>1. CASE j \in 1 .. L
    <3>1. i \in 1 .. L
      BY <1>1, <2>1
    <3>2. QED
      BY <1>1, <1>2, <2>1, <3>1 DEF VerifierInv, NoEarlyRepeat
  <2>2. CASE j = L + 1
    <3>1. i \in 1 .. L /\ accepted[i].id = id /\ accepted'[j].at = now
          /\ accepted'[i].at = accepted[i].at
      BY <1>1, <1>2, <2>2
    <3>2. CASE now >= accepted[i].at + MaxAge
      BY <3>1, <3>2
    <3>3. CASE L - i >= MaxReplayEntries
      BY <1>1, <2>2, <3>1, <3>3
    <3>4. ASSUME NEW e \in cache, e.nth = i
          PROVE  now >= accepted[i].at + MaxAge
      <4>1. e.key = id /\ e.expires = accepted[i].at + MaxAge
        BY <3>1, <3>4 DEF VerifierInv, EntriesAreAcceptances
      <4>2. ~(e.expires > now)
        BY <4>1 DEF Replayed, Unexpired
      <4>3. QED
        BY <1>1, <1>2, <3>1, <4>1, <4>2
    <3>5. QED
      BY <1>1, <3>1, <3>2, <3>3, <3>4 DEF VerifierInv, ForgottenIsOld
  <2>3. j \in 1 .. L \/ j = L + 1
    BY <1>1
  <2>4. QED
    BY <2>1, <2>2, <2>3
<1>10. QED
  BY <1>5, <1>6, <1>7, <1>8, <1>9 DEF VerifierInv

\* Forgetting what expired loses nothing.
LEMMA ReplayStep ==
    ASSUME VerifierInv, cache' = Unexpired, UNCHANGED <<mode, now, accepted>>
    PROVE  VerifierInv'
<1>1. Unexpired \subseteq cache
  BY DEF Unexpired
<1>2. VerifierTypeOK' /\ EntriesAreAcceptances' /\ NoEarlyRepeat'
  BY <1>1 DEF VerifierInv, VerifierTypeOK, EntriesAreAcceptances, NoEarlyRepeat
<1>3. IsFiniteSet(cache')
  BY <1>1, FS_Subset DEF VerifierInv
<1>4. ForgottenIsOld'
  <2> SUFFICES ASSUME NEW i \in DOMAIN accepted, NEW e \in cache, e.nth = i,
                      ~(now >= accepted[i].at + MaxAge)
               PROVE  e \in Unexpired
    BY DEF VerifierInv, ForgottenIsOld
  <2>1. e.expires = accepted[i].at + MaxAge /\ accepted[i].at \in Nat /\ now \in Nat
    BY AcceptedTyped DEF VerifierInv, EntriesAreAcceptances, VerifierTypeOK
  <2>2. QED
    BY <2>1 DEF Unexpired
<1>5. QED
  BY <1>2, <1>3, <1>4 DEF VerifierInv

\* No step of the verifier breaks the invariant.
LEMMA VerifierStep == VerifierInv /\ [VerifierNext]_vvars => VerifierInv'
<1> SUFFICES ASSUME VerifierInv, [VerifierNext]_vvars PROVE VerifierInv'
  OBVIOUS
<1>1. ASSUME NEW id \in Ids, NEW timestamp \in Nat, NEW signing \in Signing,
             Verify(id, timestamp, signing)
      PROVE  VerifierInv'
  <2> DEFINE verdict == Verdict(id, timestamp, signing)
  <2>1. CASE verdict = "accepted"
    <3>1. ~Replayed(id)
      BY <2>1 DEF Verdict
    <3>2. QED
      BY <1>1, <2>1, <3>1, AcceptStep DEF Verify
  <2>2. CASE verdict = "replayed"
    <3>1. cache' = Unexpired /\ UNCHANGED <<mode, now, accepted>>
      BY <1>1, <2>2 DEF Verify
    <3>2. QED
      BY <3>1, ReplayStep
  <2>3. CASE verdict \notin {"accepted", "replayed"}
    <3>1. UNCHANGED vvars
      BY <1>1, <2>3 DEF Verify, vvars
    <3>2. QED
      BY <3>1 DEF vvars, VerifierInv, VerifierTypeOK, EntriesAreAcceptances, ForgottenIsOld,
                  NoEarlyRepeat
  <2>4. QED
    BY <2>1, <2>2, <2>3
<1>2. CASE Tick
  <2>1. VerifierTypeOK' /\ EntriesAreAcceptances' /\ NoEarlyRepeat' /\ IsFiniteSet(cache')
    BY <1>2 DEF Tick, VerifierInv, VerifierTypeOK, EntriesAreAcceptances, NoEarlyRepeat
  <2>2. ForgottenIsOld'
    <3> SUFFICES ASSUME NEW i \in DOMAIN accepted, now >= accepted[i].at + MaxAge
                 PROVE  now + 1 >= accepted[i].at + MaxAge
      BY <1>2 DEF Tick, VerifierInv, ForgottenIsOld
    <3>1. accepted[i].at \in Nat /\ now \in Nat
      BY AcceptedTyped DEF VerifierInv
    <3>2. QED
      BY <3>1
  <2>3. QED
    BY <2>1, <2>2 DEF VerifierInv
<1>3. CASE ForgetReplays
  <2>1. accepted' = <<>> /\ cache' = {} /\ DOMAIN accepted' = {}
    BY <1>3 DEF ForgetReplays
  <2>2. IsFiniteSet(cache')
    BY <2>1, FS_EmptySet
  <2>3. QED
    BY <1>3, <2>1, <2>2 DEF ForgetReplays, VerifierInv, VerifierTypeOK, EntriesAreAcceptances,
                            ForgottenIsOld, NoEarlyRepeat
<1>4. CASE UNCHANGED vvars
  BY <1>4 DEF vvars, VerifierInv, VerifierTypeOK, EntriesAreAcceptances, ForgottenIsOld,
              NoEarlyRepeat
<1>5. QED
  BY <1>1, <1>2, <1>3, <1>4 DEF VerifierNext

\* Whatever requests come, what the cache knows, or once knew, is in line with what was
\* accepted (verifyRequest with its removals and evictions).
THEOREM VerifierCorrect == VerifierSpec => []VerifierInv
<1>1. VerifierInit => VerifierInv
  <2> SUFFICES ASSUME VerifierInit PROVE VerifierInv
    OBVIOUS
  <2>1. IsFiniteSet(cache) /\ DOMAIN accepted = {} /\ accepted = <<>> /\ cache = {}
    BY FS_EmptySet DEF VerifierInit
  <2>2. QED
    BY <2>1 DEF VerifierInit, VerifierInv, VerifierTypeOK, EntriesAreAcceptances,
                ForgottenIsOld, NoEarlyRepeat
<1>2. QED
  BY <1>1, VerifierStep, PTL DEF VerifierSpec

\* A process accepts one request id again only after the lifetime of its entry, or after
\* more than a cacheful of other requests (replayCache of createGatewayVerifier).
THEOREM RepeatsAreLate == VerifierSpec => []NoEarlyRepeat
<1>1. VerifierInv => NoEarlyRepeat
  BY DEF VerifierInv
<1>2. QED
  BY <1>1, VerifierCorrect, PTL
================================================================================
