-------------------------- MODULE UploadQueueProofs --------------------------
(***************************************************************************)
(* For any files, any concurrency and any number of retries, whenever the  *)
(* user clicks: the uploads the user still has are capped, only requests   *)
(* begun for files removed before their effect go on without a card, and   *)
(* only they can mix the photos of two users.                              *)
(***************************************************************************)
EXTENDS UploadQueue, FiniteSetTheorems, WellFoundedInduction, TLAPS

-----------------------------------------------------------------------------
(* The first of some numbered things. *)

(* A finite set of numbers has a greatest.                                 *)
LEMMA FiniteSetsHaveALast ==
  ASSUME NEW S \in SUBSET Nat, IsFiniteSet(S), S # {}
  PROVE  \E m \in S : \A x \in S : x <= m
<1> DEFINE after(x) == {y \in S : y > x}
           T == {after(x) : x \in S}
<1>1. T \subseteq FiniteSubsetsOf(S) /\ T # {}
  <2>1. \A x \in S : after(x) \in SUBSET S
    OBVIOUS
  <2>2. \A U \in SUBSET S : IsFiniteSet(U)
    BY FS_Subset
  <2> QED
    BY <2>1, <2>2 DEF FiniteSubsetsOf
<1>2. \E U \in T : \A V \in T : <<V, U>> \notin StrictSubsetOrdering(S)
  BY <1>1, FS_StrictSubsetOrderingWellFounded, WFMin
<1>3. PICK m \in S : \A x \in S : <<after(x), after(m)>> \notin StrictSubsetOrdering(S)
  BY <1>2
<1>4. ASSUME NEW x \in S, x > m PROVE FALSE
  <2>0. S \subseteq Nat /\ m \in Nat /\ x \in Nat
    OBVIOUS
  <2>1. after(x) \subseteq after(m) /\ x \in after(m) /\ x \notin after(x)
    <3>1. \A y \in S : y \in Nat /\ (y > x => y > m)
      BY <1>4, <2>0
    <3>2. ~(x > x)
      BY <2>0
    <3> QED
      BY <1>4, <3>1, <3>2
  <2>2. <<after(x), after(m)>> \in (SUBSET S) \X (SUBSET S)
    OBVIOUS
  <2>3. <<after(x), after(m)>> \in StrictSubsetOrdering(S)
    <3> HIDE DEF after
    <3> QED
      BY <2>1, <2>2 DEF StrictSubsetOrdering
  <2> QED
    BY <1>3, <2>3
<1> QED
  BY <1>4

(* Fewer than k come before no more than k of them.                        *)
LEMMA FirstFew ==
  ASSUME NEW W \in SUBSET Nat, IsFiniteSet(W), NEW k \in Int
  PROVE  LET first == {f \in W : Cardinality({g \in W : g < f}) < k}
         IN  /\ IsFiniteSet(first)
             /\ Cardinality(first) <= IF k < 0 THEN 0 ELSE k
<1> DEFINE before(f) == {g \in W : g < f}
           first == {f \in W : Cardinality(before(f)) < k}
<1>1. IsFiniteSet(first) /\ first \in SUBSET Nat
  BY FS_Subset
<1>2. \A f \in W : IsFiniteSet(before(f)) /\ Cardinality(before(f)) \in Nat
  <2>1. \A f \in W : before(f) \in SUBSET W
    OBVIOUS
  <2> QED
    BY <2>1, FS_Subset, FS_CardinalityType
<1>3. CASE first = {}
  <2> HIDE DEF first
  <2>1. Cardinality(first) = 0
    BY <1>3, FS_EmptySet
  <2> QED
    BY <1>1, <2>1 DEF first
<1>4. CASE first # {}
  <2>1. PICK m \in first : \A x \in first : x <= m
    <3> HIDE DEF first
    <3> QED
      BY <1>1, <1>4, FiniteSetsHaveALast
  <2>0. first \subseteq Nat /\ m \in Nat /\ W \subseteq Nat
    OBVIOUS
  <2>2. first \subseteq before(m) \cup {m}
    <3>1. ASSUME NEW x \in first, x # m PROVE x \in W /\ x < m
      BY <2>0, <2>1, <3>1
    <3> QED
      BY <3>1
  <2>3. /\ IsFiniteSet(before(m) \cup {m})
        /\ Cardinality(before(m) \cup {m}) <= Cardinality(before(m)) + 1
    <3>1. IsFiniteSet(before(m)) /\ Cardinality(before(m)) \in Nat
      BY <1>2
    <3>2. /\ IsFiniteSet(before(m) \cup {m})
          /\ Cardinality(before(m) \cup {m}) =
               IF m \in before(m) THEN Cardinality(before(m)) ELSE Cardinality(before(m)) + 1
      <4> HIDE DEF before
      <4> QED
        BY <3>1, FS_AddElement
    <3> HIDE DEF before
    <3> QED
      BY <3>1, <3>2
  <2>4. /\ Cardinality(first) <= Cardinality(before(m) \cup {m})
        /\ Cardinality(first) \in Nat
        /\ Cardinality(before(m) \cup {m}) \in Nat
    BY <1>1, <2>2, <2>3, FS_Subset, FS_CardinalityType
  <2>5. Cardinality(before(m)) < k /\ Cardinality(before(m)) \in Nat
    BY <1>2
  <2> HIDE DEF first, before
  <2>6. Cardinality(first) <= k /\ k > 0
    BY <2>3, <2>4, <2>5
  <2> QED
    BY <1>1, <2>6 DEF first, before
<1> QED
  BY <1>3, <1>4

(* A finite set with no more than one element.                             *)
LEMMA OneAtMost ==
  ASSUME NEW S, IsFiniteSet(S), Cardinality(S) <= 1, NEW x \in S, NEW y \in S
  PROVE  x = y
<1>1. IsFiniteSet({x}) /\ Cardinality({x}) = 1 /\ {x} \in SUBSET S
  BY FS_Singleton
<1>2. Cardinality(S) \in Nat /\ Cardinality({x}) <= Cardinality(S)
  BY <1>1, FS_Subset, FS_CardinalityType
<1>3. Cardinality(S) = Cardinality({x})
  BY <1>1, <1>2
<1>4. S = {x}
  BY <1>1, <1>3, FS_Subset
<1> QED
  BY <1>4

-----------------------------------------------------------------------------
(* Requests. *)

(* The tries of each file, and nothing else.                               *)
LEMMA RequestsAreTries ==
  /\ \A f \in File : \A n \in 1 .. MaxTries[f] : <<f, n>> \in Request
  /\ \A r \in Request : /\ r = <<r[1], r[2]>>
                        /\ r[1] \in File
                        /\ r[2] \in 1 .. MaxTries[r[1]]
BY DEF Request

(* A cookie without a user is no user's.                                   *)
LEMMA NoUserIsNoRequest == NoUser \notin Request
BY RequestsAreTries, TriesAreBounded DEF NoUser

-----------------------------------------------------------------------------
(* The invariant. *)

(* What the page shows as uploading.                                       *)
UploadingFiles == {f \in File : phase[f] = "uploading"}

(* A card that says it is uploading has a request, and a request without   *)
(* such a card is an escape, whose item the user has removed.              *)
OnlyRemovedUploadsEscape ==
  /\ UploadingFiles \subseteq active
  /\ \A f \in active : /\ phase[f] \in {"uploading", "gone"}
                       /\ phase[f] = "gone" => Current(f) \in escaped

(* The cap holds of the uploads that are shown.                            *)
UploadsShownAreCapped == Cardinality(UploadingFiles) <= Allowed

(* The server knows of requests that were sent, the gallery of images that *)
(* were stored.                                                            *)
ServedAreSent ==
  /\ \A r \in Request : served[r] # "unsent" => r[2] <= tries[r[1]]
  /\ \A r \in gallery : served[r] = "stored"

(* However many files there are, finitely many have been added.            *)
Added == {f \in File : phase[f] # "none"}

(* What an effect sees that has still to run, although the user may have   *)
(* removed a file from the queue since.                                    *)
PhasesFollow ==
  \A f \in File : /\ phase[f] = "none" => shown[f] = "none" /\ tries[f] = 0
                  /\ phase[f] = "queued" => tries[f] < MaxTries[f]
                  /\ effectDue /\ shown[f] = "queued" => /\ phase[f] \in {"queued", "gone"}
                                                         /\ tries[f] < MaxTries[f]
                  /\ effectDue /\ phase[f] = "uploading" => shown[f] = "uploading"

(* A browser with photos, or that has sent a cookie, has one.              *)
SessionsAreKnown == /\ session \/ gallery # {} => cookie # NoUser
                    /\ \A r \in Request : carried[r] # NoUser => cookie # NoUser

(* The tab, however late its effects run.                                  *)
IInv == /\ TypeOK
        /\ tries \in [File -> Nat]
        /\ OnlyRemovedUploadsEscape
        /\ \A f \in active : tries[f] >= 1
        /\ PhasesFollow
        /\ ServedAreSent
        /\ SessionsAreKnown
        /\ IsFiniteSet(Added)
        /\ UploadsShownAreCapped

(* Whatever is no longer shown takes no slot.                              *)
LEMMA FewerShownAreCapped ==
  ASSUME IInv, UploadingFiles' \subseteq UploadingFiles, cookie = NoUser \/ cookie' # NoUser
  PROVE  UploadsShownAreCapped'
<1>1. UploadingFiles \subseteq Added
  BY DEF UploadingFiles, Added
<1>2. IsFiniteSet(UploadingFiles)
  BY <1>1, FS_Subset DEF IInv
<1>3. /\ IsFiniteSet(UploadingFiles')
      /\ Cardinality(UploadingFiles') <= Cardinality(UploadingFiles)
  BY <1>2, FS_Subset
<1>4. Cardinality(UploadingFiles) \in Nat /\ Cardinality(UploadingFiles') \in Nat
  BY <1>2, <1>3, FS_CardinalityType
<1>5. Cardinality(UploadingFiles) <= Allowed
  BY DEF IInv, UploadsShownAreCapped
<1> QED
  BY <1>3, <1>4, <1>5, ConcurrencyIsPositive DEF UploadsShownAreCapped, Allowed

(* New files are neither uploading nor seen by an effect that is due.      *)
LEMMA AddFilesKeepsIInv ==
  ASSUME IInv, NEW n \in File, AddFiles(n)
  PROVE  IInv'
<1> DEFINE new == {f \in File : phase[f] = "none" /\ f <= n}
<1>1. PICK bad \in SUBSET new :
        phase' = [f \in File |-> IF f \in bad THEN "rejected"
                                 ELSE IF f \in new THEN "queued" ELSE phase[f]]
  BY DEF AddFiles
<1>2. UNCHANGED <<shown, session, effectDue, tries, active, gallery, cookie, served, carried, escaped>>
  BY DEF AddFiles
<1>3. \A f \in File : \/ phase'[f] = phase[f]
                      \/ /\ phase[f] = "none" /\ f \in new
                         /\ phase'[f] \in {"queued", "rejected"}
  BY <1>1
<1>4. TypeOK'
  <2>1. phase' \in [File -> Phase]
    BY <1>1 DEF IInv, TypeOK, Phase
  <2> QED
    BY <1>2, <2>1 DEF IInv, TypeOK
<1>5. UploadingFiles' = UploadingFiles
  BY <1>3 DEF UploadingFiles
<1>6. OnlyRemovedUploadsEscape'
  <2>1. \A f \in active : /\ f \in File /\ phase[f] \in {"uploading", "gone"}
                          /\ phase[f] = "gone" => Current(f) \in escaped
    BY DEF IInv, TypeOK, OnlyRemovedUploadsEscape
  <2>2. \A f \in active : phase'[f] = phase[f] /\ Current(f)' = Current(f)
    BY <1>2, <1>3, <2>1 DEF Current
  <2>3. \A f \in active' : /\ phase'[f] \in {"uploading", "gone"}
                           /\ phase'[f] = "gone" => Current(f)' \in escaped'
    BY <1>2, <2>1, <2>2
  <2> QED
    BY <1>2, <1>5, <2>3 DEF IInv, OnlyRemovedUploadsEscape
<1>7. PhasesFollow'
  <2> SUFFICES ASSUME NEW f \in File
               PROVE  /\ phase'[f] = "none" => shown'[f] = "none" /\ tries'[f] = 0
                      /\ phase'[f] = "queued" => tries'[f] < MaxTries[f]
                      /\ effectDue' /\ shown'[f] = "queued" =>
                           phase'[f] \in {"queued", "gone"} /\ tries'[f] < MaxTries[f]
                      /\ effectDue' /\ phase'[f] = "uploading" => shown'[f] = "uploading"
    BY Zenon DEF PhasesFollow
  <2>1. CASE phase'[f] = phase[f]
    BY <1>2, <2>1 DEF IInv, PhasesFollow
  <2>2. CASE phase[f] = "none" /\ phase'[f] \in {"queued", "rejected"}
    <3>1. shown[f] = "none" /\ tries[f] = 0 /\ MaxTries[f] \in Nat \ {0}
      BY <2>2, TriesAreBounded DEF IInv, PhasesFollow
    <3> QED
      BY <1>2, <2>2, <3>1
  <2> QED
    BY <1>3, <2>1, <2>2
<1>8. ServedAreSent' /\ SessionsAreKnown' /\ \A f \in active' : tries'[f] >= 1
  BY <1>2 DEF IInv, ServedAreSent, SessionsAreKnown
<1>9. IsFiniteSet(Added)'
  <2>1. IsFiniteSet(new)
    <3>1. new \subseteq 0 .. n /\ n \in Nat
      <4>1. \A f \in File : f \in Nat
        BY FilesAreNumbered
      <4> QED
        BY <4>1
    <3>2. IsFiniteSet(0 .. n)
      BY <3>1, FS_Interval
    <3> HIDE DEF new
    <3> QED
      BY <3>1, <3>2, FS_Subset
  <2>2. Added' \subseteq Added \cup new
    BY <1>3 DEF Added
  <2> HIDE DEF new
  <2>3. IsFiniteSet(Added \cup new)
    BY <2>1, FS_Union DEF IInv
  <2> QED
    BY <2>2, <2>3, FS_Subset
<1>10. UploadsShownAreCapped'
  BY <1>2, <1>5, FewerShownAreCapped
<1> QED
  BY <1>2, <1>4, <1>6, <1>7, <1>8, <1>9, <1>10 DEF IInv

(* A click on what is shown, though something else may be the case: a      *)
(* retry is ignored then, and a removal aborts what is under way.          *)
LEMMA ClicksKeepIInv ==
  ASSUME IInv, NEW g \in File, Retry(g) \/ Remove(g)
  PROVE  IInv'
<1>1. /\ UNCHANGED <<shown, session, effectDue, tries, gallery, cookie, served, carried, escaped>>
      /\ \/ active' = active
         \/ active' = active \ {g} /\ phase'[g] = "gone"
  <2>1. CASE Retry(g)
    BY <2>1 DEF Retry, Dispatch, IInv, TypeOK
  <2>2. CASE Remove(g)
    BY <2>2 DEF Remove, IInv, TypeOK
  <2> QED
    BY <2>1, <2>2
<1>2. \A f \in File : \/ phase'[f] = phase[f]
                      \/ /\ f = g /\ phase[f] = "failed" /\ shown[f] = "failed"
                         /\ phase'[f] = "queued" /\ tries[f] < MaxTries[f]
                      \/ f = g /\ shown[f] # "none" /\ phase'[f] = "gone"
  BY DEF Retry, Remove, Dispatch, IInv, TypeOK
<1>3. TypeOK'
  <2>1. phase' \in [File -> Phase]
    BY DEF IInv, TypeOK, Retry, Remove, Dispatch, Phase
  <2> QED
    BY <1>1, <2>1 DEF IInv, TypeOK
<1>4. UploadingFiles' \subseteq UploadingFiles
  BY <1>2 DEF UploadingFiles
<1>5. OnlyRemovedUploadsEscape'
  <2>1. \A f \in active : /\ f \in File /\ phase[f] \in {"uploading", "gone"}
                          /\ phase[f] = "gone" => Current(f) \in escaped
    BY DEF IInv, TypeOK, OnlyRemovedUploadsEscape
  <2>2. \A f \in UploadingFiles' : f \in active'
    BY <1>1, <1>2 DEF UploadingFiles, IInv, OnlyRemovedUploadsEscape
  <2>3. \A f \in active' : f \in active /\ phase'[f] \in {phase[f], "gone"}
                           /\ (phase'[f] # phase[f] => f = g /\ active' = active)
    BY <1>1, <1>2, <2>1
  <2>4. \A f : Current(f)' = Current(f)
    BY <1>1 DEF Current
  <2>5. active' = active => phase'[g] = phase[g] \/ g \notin active
    BY <2>1 DEF Retry, Remove, Dispatch, IInv, TypeOK
  <2>6. \A f \in active' : /\ phase'[f] \in {"uploading", "gone"}
                           /\ phase'[f] = "gone" => Current(f)' \in escaped'
    BY <1>1, <2>1, <2>3, <2>4, <2>5
  <2> QED
    BY <2>2, <2>6 DEF OnlyRemovedUploadsEscape
<1>6. PhasesFollow'
  BY <1>1, <1>2 DEF IInv, PhasesFollow
<1>7. ServedAreSent' /\ SessionsAreKnown' /\ \A f \in active' : tries'[f] >= 1
  BY <1>1 DEF IInv, ServedAreSent, SessionsAreKnown
<1>8. IsFiniteSet(Added)'
  <2>1. Added' \subseteq Added
    BY <1>2 DEF Added, IInv, PhasesFollow
  <2> QED
    BY <2>1, FS_Subset DEF IInv
<1>9. UploadsShownAreCapped'
  BY <1>1, <1>4, FewerShownAreCapped
<1> QED
  BY <1>1, <1>3, <1>5, <1>6, <1>7, <1>8, <1>9 DEF IInv

(* What a commit shows is what is the case.                                *)
LEMMA CommitKeepsIInv ==
  ASSUME IInv, Commit
  PROVE  IInv'
<1>1. /\ shown' = phase /\ session' = (gallery # {}) /\ effectDue' = TRUE
      /\ UNCHANGED <<phase, tries, active, gallery, cookie, served, carried, escaped>>
  BY DEF Commit
<1>2. TypeOK'
  <2>1. session' \in BOOLEAN
    BY <1>1
  <2> QED
    BY <1>1, <2>1 DEF IInv, TypeOK
<1>3. OnlyRemovedUploadsEscape' /\ ServedAreSent' /\ \A f \in active' : tries'[f] >= 1
  BY <1>1 DEF IInv, OnlyRemovedUploadsEscape, UploadingFiles, ServedAreSent,
     Current
<1>4. PhasesFollow'
  BY <1>1 DEF IInv, PhasesFollow
<1>5. SessionsAreKnown'
  BY <1>1 DEF IInv, SessionsAreKnown
<1>6. IsFiniteSet(Added)'
  BY <1>1 DEF IInv, Added
<1>7. UploadsShownAreCapped'
  BY <1>1 DEF IInv, UploadsShownAreCapped, Allowed, UploadingFiles
<1> QED
  BY <1>1, <1>2, <1>3, <1>4, <1>5, <1>6, <1>7 DEF IInv

(* What the effect starts was queued at the commit: by now it may be gone, *)
(* but has tries left.                                                     *)
LEMMA StartedWereQueued ==
  ASSUME IInv, RunEffect, NEW f \in StartedFiles
  PROVE  /\ f \in File /\ f \notin active
         /\ shown[f] = "queued"
         /\ phase[f] \in {"queued", "gone"}
         /\ tries[f] + 1 \in 1 .. MaxTries[f]
<1>1. f \in File /\ f \notin active /\ shown[f] = "queued" /\ effectDue
  BY DEF StartedFiles, UploadsToStart, Waiting, RunEffect
<1>2. phase[f] \in {"queued", "gone"} /\ tries[f] < MaxTries[f]
  BY <1>1 DEF IInv, PhasesFollow
<1>3. tries[f] \in Nat /\ MaxTries[f] \in Nat
  BY <1>1, TriesAreBounded DEF IInv
<1> QED
  BY <1>1, <1>2, <1>3

(* Only an item that is still queued shows its upload.                     *)
LEMMA EffectByFile ==
  ASSUME IInv, RunEffect
  PROVE  /\ \A f \in File :
              /\ phase'[f] = IF f \in StartedFiles /\ phase[f] = "queued"
                             THEN "uploading" ELSE phase[f]
              /\ tries'[f] = IF f \in StartedFiles THEN tries[f] + 1 ELSE tries[f]
         /\ \A r \in Request :
              IF r[1] \in StartedFiles /\ r[2] = tries[r[1]] + 1
              THEN served'[r] = "sent" /\ carried'[r] = cookie
              ELSE served'[r] = served[r] /\ carried'[r] = carried[r]
         /\ active' = active \cup StartedFiles
         /\ ~effectDue'
         /\ escaped \subseteq escaped' /\ escaped' \subseteq Request
         /\ \A r \in escaped' \ escaped : \E f \in StartedFiles : r = <<f, tries[f] + 1>>
         /\ \A f \in StartedFiles : phase[f] = "gone" => <<f, tries[f] + 1>> \in escaped'
         /\ UNCHANGED <<shown, session, gallery, cookie>>
<1> DEFINE sent == {<<f, tries[f] + 1>> : f \in StartedFiles}
<1>1. /\ active' = active \cup StartedFiles
      /\ tries' = [f \in File |-> IF f \in StartedFiles THEN tries[f] + 1 ELSE tries[f]]
      /\ served' = [r \in Request |-> IF r \in sent THEN "sent" ELSE served[r]]
      /\ carried' = [r \in Request |-> IF r \in sent THEN cookie ELSE carried[r]]
      /\ phase' = [f \in File |-> IF f \in StartedFiles /\ phase[f] = "queued"
                                  THEN "uploading" ELSE phase[f]]
      /\ effectDue' = FALSE
      /\ escaped' = escaped \cup {r \in sent : phase[r[1]] = "gone"}
      /\ UNCHANGED <<shown, session, gallery, cookie>>
  BY Zenon DEF RunEffect
<1>2. ASSUME NEW r \in Request
      PROVE  r \in sent <=> r[1] \in StartedFiles /\ r[2] = tries[r[1]] + 1
  BY RequestsAreTries
<1>3. \A f \in StartedFiles : phase[f] = "gone" => <<f, tries[f] + 1>> \in escaped'
  BY <1>1
<1>4. sent \subseteq Request
  BY RequestsAreTries, StartedWereQueued
<1>5. /\ escaped \subseteq escaped' /\ escaped' \subseteq Request
      /\ \A r \in escaped' \ escaped : \E f \in StartedFiles : r = <<f, tries[f] + 1>>
  BY <1>1, <1>4 DEF IInv, TypeOK
<1> HIDE DEF sent
<1> QED
  BY <1>1, <1>2, <1>3, <1>5

(* No file is tried more often than it may be.                             *)
LEMMA EffectKeepsTypes ==
  ASSUME IInv, RunEffect
  PROVE  TypeOK' /\ tries' \in [File -> Nat]
<1> DEFINE sent == {<<f, tries[f] + 1>> : f \in StartedFiles}
<1>1. /\ tries' = [f \in File |-> IF f \in StartedFiles THEN tries[f] + 1 ELSE tries[f]]
      /\ served' = [r \in Request |-> IF r \in sent THEN "sent" ELSE served[r]]
      /\ carried' = [r \in Request |-> IF r \in sent THEN cookie ELSE carried[r]]
      /\ phase' = [f \in File |-> IF f \in StartedFiles /\ phase[f] = "queued"
                                  THEN "uploading" ELSE phase[f]]
  BY Zenon DEF RunEffect
<1>2. tries' \in [File -> Nat]
  BY <1>1 DEF IInv
<1>3. \A f \in File : tries'[f] \in 0 .. MaxTries[f]
  BY <1>1, StartedWereQueued DEF IInv, TypeOK
<1>4. phase' \in [File -> Phase]
  BY <1>1 DEF IInv, TypeOK, Phase
<1> HIDE DEF sent
<1>5. /\ served' \in [Request -> {"unsent", "sent", "deleted"} \cup Outcome]
      /\ carried' \in [Request -> Request \cup {NoUser}]
  BY <1>1 DEF IInv, TypeOK
<1>6. active' \subseteq File /\ ~effectDue' /\ effectDue' \in BOOLEAN
  BY StartedWereQueued DEF IInv, TypeOK, RunEffect
<1> QED
  BY <1>2, <1>3, <1>4, <1>5, <1>6, EffectByFile DEF IInv, TypeOK

(* It sees all uploads that are shown, and counts them.                    *)
LEMMA ShownStartsAreCapped ==
  ASSUME IInv, RunEffect, StartedFiles # {}
  PROVE  Cardinality(UploadingFiles \cup StartedFiles) <= Limit
<1>1. /\ Uploading \subseteq Added /\ Waiting \subseteq Added
      /\ UploadingFiles \subseteq Uploading /\ UploadingFiles \cap StartedFiles = {}
  <2>1. ASSUME NEW f \in File, shown[f] # "none" PROVE f \in Added
    BY <2>1 DEF IInv, PhasesFollow, Added
  <2>2. effectDue
    BY DEF RunEffect
  <2>3. ASSUME NEW f \in UploadingFiles PROVE f \in Uploading /\ f \notin StartedFiles
    <3>1. f \in File /\ phase[f] = "uploading"
      BY DEF UploadingFiles
    <3> QED
      BY <2>2, <3>1, StartedWereQueued DEF IInv, PhasesFollow, Uploading
  <2> QED
    BY <2>1, <2>3 DEF Uploading, Waiting
<1>2. IsFiniteSet(Uploading) /\ IsFiniteSet(Waiting) /\ IsFiniteSet(UploadingFiles)
  BY <1>1, FS_Subset DEF IInv
<1>3. Cardinality(UploadingFiles) <= Cardinality(Uploading)
  BY <1>1, <1>2, FS_Subset
<1>4. Cardinality(Uploading) \in Nat /\ Cardinality(UploadingFiles) \in Nat
  BY <1>2, FS_CardinalityType
<1>5. Limit \in Nat \ {0}
  BY ConcurrencyIsPositive DEF Limit
<1> DEFINE k == FreeSlots(Limit)
<1>6. k = Limit - Cardinality(Uploading) /\ k \in Int
  BY <1>4, <1>5 DEF FreeSlots
<1>7. /\ IsFiniteSet(UploadsToStart(Limit))
      /\ Cardinality(UploadsToStart(Limit)) <= IF k < 0 THEN 0 ELSE k
  <2>1. Waiting \in SUBSET Nat
    BY FilesAreNumbered DEF Waiting
  <2> HIDE DEF k
  <2>2. /\ IsFiniteSet({f \in Waiting : Cardinality({g \in Waiting : g < f}) < k})
        /\ Cardinality({f \in Waiting : Cardinality({g \in Waiting : g < f}) < k})
             <= IF k < 0 THEN 0 ELSE k
    BY <1>2, <1>6, <2>1, FirstFew
  <2> QED
    BY <2>2 DEF UploadsToStart, k
<1>8. /\ IsFiniteSet(StartedFiles)
      /\ Cardinality(StartedFiles) <= Cardinality(UploadsToStart(Limit))
  <2>1. StartedFiles \in SUBSET UploadsToStart(Limit)
    BY DEF StartedFiles
  <2> QED
    BY <1>7, <2>1, FS_Subset
<1>9. Cardinality(StartedFiles) \in Nat /\ Cardinality(UploadsToStart(Limit)) \in Nat
  BY <1>7, <1>8, FS_CardinalityType
<1>10. Cardinality(StartedFiles) # 0
  BY <1>8, FS_EmptySet
<1>11. Cardinality(UploadingFiles \cup StartedFiles)
         = Cardinality(UploadingFiles) + Cardinality(StartedFiles)
  <2>1. Cardinality(UploadingFiles \cup StartedFiles)
          = Cardinality(UploadingFiles) + Cardinality(StartedFiles) - Cardinality({})
    BY <1>1, <1>2, <1>8, FS_Union
  <2> QED
    BY <1>4, <1>9, <2>1, FS_EmptySet
<1> HIDE DEF k
<1> QED
  BY <1>3, <1>4, <1>5, <1>6, <1>7, <1>8, <1>9, <1>10, <1>11

(* An effect may start the upload of an item that is gone, but no more     *)
(* that are shown than there are slots.                                    *)
LEMMA RunEffectKeepsIInv ==
  ASSUME IInv, RunEffect
  PROVE  IInv'
<1>1. /\ \A f \in File :
           /\ phase'[f] = IF f \in StartedFiles /\ phase[f] = "queued"
                          THEN "uploading" ELSE phase[f]
           /\ tries'[f] = IF f \in StartedFiles THEN tries[f] + 1 ELSE tries[f]
      /\ \A r \in Request :
           IF r[1] \in StartedFiles /\ r[2] = tries[r[1]] + 1
           THEN served'[r] = "sent" /\ carried'[r] = cookie
           ELSE served'[r] = served[r] /\ carried'[r] = carried[r]
      /\ active' = active \cup StartedFiles
      /\ ~effectDue'
      /\ escaped \subseteq escaped'
      /\ \A f \in StartedFiles : phase[f] = "gone" => <<f, tries[f] + 1>> \in escaped'
      /\ UNCHANGED <<shown, session, gallery, cookie>>
  BY EffectByFile
<1>2. \A f \in StartedFiles : /\ f \in File /\ f \notin active /\ shown[f] = "queued"
                              /\ phase[f] \in {"queued", "gone"}
                              /\ tries[f] + 1 \in 1 .. MaxTries[f]
  BY StartedWereQueued
<1>3. TypeOK' /\ tries' \in [File -> Nat]
  BY EffectKeepsTypes
<1>4. \A f \in active : /\ f \in File /\ phase[f] \in {"uploading", "gone"} /\ tries[f] >= 1
                        /\ phase[f] = "gone" => Current(f) \in escaped
  BY DEF IInv, TypeOK, OnlyRemovedUploadsEscape
<1>5. OnlyRemovedUploadsEscape'
  <2>1. \A f \in UploadingFiles' : f \in active'
    BY <1>1 DEF UploadingFiles, IInv, OnlyRemovedUploadsEscape
  <2>2. ASSUME NEW f \in active
        PROVE  /\ phase'[f] \in {"uploading", "gone"}
               /\ phase'[f] = "gone" => Current(f)' \in escaped'
    BY <1>1, <1>2, <1>4 DEF Current
  <2>3. ASSUME NEW f \in StartedFiles
        PROVE  /\ phase'[f] \in {"uploading", "gone"}
               /\ phase'[f] = "gone" => Current(f)' \in escaped'
    BY <1>1, <1>2 DEF Current
  <2> QED
    BY <1>1, <2>1, <2>2, <2>3 DEF OnlyRemovedUploadsEscape
<1>6. \A f \in active' : tries'[f] >= 1
  BY <1>1, <1>2, <1>4
<1>7. PhasesFollow'
  <2>1. \A f \in File : phase'[f] \in {"none", "queued"} => /\ f \notin StartedFiles
                                                           /\ phase'[f] = phase[f]
                                                           /\ tries'[f] = tries[f]
    BY <1>1, <1>2
  <2> QED
    BY <1>1, <2>1 DEF IInv, PhasesFollow
<1>8. ServedAreSent'
  <2>1. ASSUME NEW r \in Request, served'[r] # "unsent" PROVE r[2] <= tries'[r[1]]
    <3>1. r[1] \in File /\ r[2] \in Nat /\ tries[r[1]] \in Nat
      BY RequestsAreTries DEF IInv
    <3>2. CASE r[1] \in StartedFiles /\ r[2] = tries[r[1]] + 1
      BY <1>1, <3>1, <3>2
    <3>3. CASE served'[r] = served[r]
      BY <1>1, <2>1, <3>1, <3>3 DEF IInv, ServedAreSent
    <3> QED
      BY <1>1, <3>2, <3>3
  <2>2. ASSUME NEW r \in gallery PROVE served'[r] = "stored"
    <3>1. r \in Request /\ r[2] <= tries[r[1]] /\ served[r] = "stored"
      BY DEF IInv, TypeOK, ServedAreSent
    <3>2. r[1] \in File /\ r[2] \in Nat /\ tries[r[1]] \in Nat
      BY <3>1, RequestsAreTries DEF IInv
    <3> QED
      BY <1>1, <3>1, <3>2
  <2> QED
    BY <1>1, <2>1, <2>2 DEF ServedAreSent
<1>9. SessionsAreKnown'
  BY <1>1 DEF IInv, SessionsAreKnown
<1>10. IsFiniteSet(Added)'
  <2>1. Added' \subseteq Added
    BY <1>1 DEF Added
  <2> QED
    BY <2>1, FS_Subset DEF IInv
<1>11. UploadsShownAreCapped'
  <2>1. CASE StartedFiles = {}
    <3>1. UploadingFiles' \subseteq UploadingFiles
      BY <1>1, <2>1 DEF UploadingFiles
    <3> QED
      BY <1>1, <3>1, FewerShownAreCapped
  <2>2. CASE StartedFiles # {}
    <3>1. UploadingFiles' \subseteq UploadingFiles \cup StartedFiles
      BY <1>1 DEF UploadingFiles
    <3>2. Cardinality(UploadingFiles \cup StartedFiles) <= Limit
      BY <2>2, ShownStartsAreCapped
    <3>3. UploadingFiles \cup StartedFiles \subseteq Added
      <4>1. UploadingFiles \subseteq Added
        BY DEF UploadingFiles, Added
      <4>2. \A f \in StartedFiles : f \in Added
        BY <1>2 DEF Added
      <4> QED
        BY <4>1, <4>2
    <3>4. IsFiniteSet(UploadingFiles \cup StartedFiles)
      BY <3>3, FS_Subset DEF IInv
    <3>5. /\ IsFiniteSet(UploadingFiles')
          /\ Cardinality(UploadingFiles') <= Cardinality(UploadingFiles \cup StartedFiles)
      BY <3>1, <3>4, FS_Subset
    <3>6. /\ Cardinality(UploadingFiles') \in Nat
          /\ Cardinality(UploadingFiles \cup StartedFiles) \in Nat
      BY <3>4, <3>5, FS_CardinalityType
    <3>7. Limit = 1 \/ (Limit = Concurrency /\ cookie # NoUser)
      BY DEF Limit, IInv, SessionsAreKnown
    <3> QED
      BY <1>1, <3>2, <3>5, <3>6, <3>7, ConcurrencyIsPositive DEF UploadsShownAreCapped, Allowed
  <2> QED
    BY <2>1, <2>2
<1> QED
  BY <1>3, <1>5, <1>6, <1>7, <1>8, <1>9, <1>10, <1>11 DEF IInv

(* The server and the list change nothing in the queue.                    *)
LEMMA ServerKeepsIInv ==
  ASSUME IInv,
         \/ \E r \in Request, o \in Outcome : Serve(r, o)
         \/ \E r \in Request : DeleteImage(r)
         \/ Refetch
  PROVE  IInv'
<1>1. UNCHANGED <<phase, shown, session, effectDue, tries, active, cookie, carried, escaped>>
  BY DEF Serve, DeleteImage, Refetch, reactVars
<1>2. /\ served' \in [Request -> {"unsent", "sent", "deleted"} \cup Outcome]
      /\ gallery' \subseteq Request
      /\ \A r \in Request : served'[r] = served[r] \/ served[r] # "unsent"
      /\ \A r \in gallery' : served'[r] = "stored"
  <2>1. ASSUME NEW r \in Request, NEW o \in Outcome, Serve(r, o)
        PROVE  /\ served' \in [Request -> {"unsent", "sent", "deleted"} \cup Outcome]
               /\ gallery' \subseteq Request
               /\ \A q \in Request : served'[q] = served[q] \/ served[q] # "unsent"
               /\ \A q \in gallery' : served'[q] = "stored"
    BY <2>1 DEF Serve, IInv, TypeOK, ServedAreSent
  <2>2. ASSUME NEW r \in Request, DeleteImage(r)
        PROVE  /\ served' \in [Request -> {"unsent", "sent", "deleted"} \cup Outcome]
               /\ gallery' \subseteq Request
               /\ \A q \in Request : served'[q] = served[q] \/ served[q] # "unsent"
               /\ \A q \in gallery' : served'[q] = "stored"
    BY <2>2 DEF DeleteImage, reactVars, IInv, TypeOK, ServedAreSent
  <2>3. CASE Refetch
    BY <2>3 DEF Refetch, IInv, TypeOK, ServedAreSent
  <2> QED
    BY <2>1, <2>2, <2>3
<1>3. gallery' # {} => cookie # NoUser
  <2>1. ASSUME NEW r \in gallery', Refetch PROVE cookie # NoUser
    <3>1. r \in Request /\ UserOf(r) = cookie
      BY <2>1 DEF Refetch
    <3> QED
      BY <3>1, NoUserIsNoRequest DEF UserOf
  <2>2. Refetch \/ gallery' \subseteq gallery
    BY DEF Serve, DeleteImage
  <2> QED
    BY <2>1, <2>2 DEF IInv, SessionsAreKnown
<1>4. TypeOK'
  BY <1>1, <1>2 DEF IInv, TypeOK
<1>5. ServedAreSent' /\ SessionsAreKnown'
  BY <1>1, <1>2, <1>3 DEF IInv, ServedAreSent, SessionsAreKnown
<1>6. OnlyRemovedUploadsEscape' /\ PhasesFollow' /\ \A f \in active' : tries'[f] >= 1
  BY <1>1 DEF IInv, OnlyRemovedUploadsEscape, UploadingFiles, PhasesFollow, Current
<1>7. IsFiniteSet(Added)' /\ UploadsShownAreCapped'
  BY <1>1 DEF IInv, Added, UploadsShownAreCapped, Allowed, UploadingFiles
<1> QED
  BY <1>1, <1>4, <1>5, <1>6, <1>7 DEF IInv

(* What a request that ends changes: nothing on the page, if its item is   *)
(* gone.                                                                   *)
LEMMA EndsOfRequests ==
  ASSUME IInv, NEW g \in File, Hear(g) \/ Lose(g)
  PROVE  /\ g \in active /\ active' = active \ {g}
         /\ UNCHANGED <<shown, session, effectDue, tries, served, carried, escaped>>
         /\ phase' \in [File -> Phase]
         /\ phase'[g] \in {"gone", "rejected", "failed"} /\ phase[g] \in {"uploading", "gone"}
         /\ \A f \in File \ {g} : phase'[f] = phase[f]
         /\ phase[g] = "gone" => phase'[g] = "gone"
         /\ gallery' = gallery \/ /\ gallery' = gallery \cup {Current(g)}
                                  /\ served[Current(g)] = "stored"
         /\ cookie' = cookie \/ cookie' = Current(g)
         /\ gallery' # gallery => cookie' # NoUser
<1>1. g \in active /\ active' = active \ {g}
      /\ UNCHANGED <<shown, session, effectDue, tries, served, carried, escaped>>
  BY DEF Hear, Lose
<1>2. phase[g] \in {"uploading", "gone"} /\ phase \in [File -> Phase]
  BY <1>1 DEF IInv, TypeOK, OnlyRemovedUploadsEscape
<1>3. PICK outcome \in Outcome \cup {"lost"} : Settle(g, outcome)
  BY DEF Hear, Lose
<1>4. /\ phase' \in [File -> Phase]
      /\ phase'[g] \in {"gone", "rejected", "failed"}
      /\ \A f \in File \ {g} : phase'[f] = phase[f]
      /\ phase[g] = "gone" => phase'[g] = "gone"
  <2> DEFINE to == IF outcome = "stored" THEN "gone"
                   ELSE IF outcome = "refused" THEN "rejected" ELSE "failed"
  <2>1. to \in {"gone", "rejected", "failed"} /\ to \in Phase
    BY DEF Phase
  <2>2. phase' = IF phase[g] = "uploading" THEN [phase EXCEPT ![g] = to] ELSE phase
    BY <1>3 DEF Settle, Dispatch
  <2> HIDE DEF to
  <2> QED
    BY <1>2, <2>1, <2>2
<1>5. /\ Current(g) \in Request
      /\ carried[Current(g)] # NoUser => cookie # NoUser
  <2>1. tries[g] \in 1 .. MaxTries[g]
    BY <1>1 DEF IInv, TypeOK
  <2>2. Current(g) \in Request
    BY <2>1, RequestsAreTries DEF Current
  <2> QED
    BY <2>2 DEF IInv, SessionsAreKnown
<1>6. /\ gallery' = gallery \/ /\ gallery' = gallery \cup {Current(g)}
                               /\ served[Current(g)] = "stored"
      /\ cookie' = cookie \/ cookie' = Current(g)
      /\ gallery' # gallery => cookie' # NoUser
  <2>1. CASE Hear(g)
    BY <1>5, <2>1, NoUserIsNoRequest DEF Hear, SetCookie, HasUser
  <2>2. CASE Lose(g)
    BY <2>2 DEF Lose
  <2> QED
    BY <2>1, <2>2
<1> QED
  BY <1>1, <1>2, <1>4, <1>6

(* The end of a request frees the slot of what it shows.                   *)
LEMMA EndsKeepIInv ==
  ASSUME IInv, NEW g \in File, Hear(g) \/ Lose(g)
  PROVE  IInv'
<1>1. /\ g \in active /\ active' = active \ {g}
      /\ UNCHANGED <<shown, session, effectDue, tries, served, carried, escaped>>
      /\ phase' \in [File -> Phase]
      /\ phase'[g] \in {"gone", "rejected", "failed"} /\ phase[g] \in {"uploading", "gone"}
      /\ \A f \in File \ {g} : phase'[f] = phase[f]
      /\ phase[g] = "gone" => phase'[g] = "gone"
      /\ gallery' = gallery \/ /\ gallery' = gallery \cup {Current(g)}
                               /\ served[Current(g)] = "stored"
      /\ cookie' = cookie \/ cookie' = Current(g)
      /\ gallery' # gallery => cookie' # NoUser
  BY EndsOfRequests
<1>2. Current(g) \in Request /\ Current(g) # NoUser
  <2>1. tries[g] \in 1 .. MaxTries[g]
    BY <1>1 DEF IInv, TypeOK
  <2> QED
    BY <2>1, RequestsAreTries, NoUserIsNoRequest DEF Current
<1>3. cookie = NoUser \/ cookie' # NoUser
  BY <1>1, <1>2
<1>4. TypeOK'
  <2>1. cookie' \in Request \cup {NoUser} /\ gallery' \subseteq Request
    BY <1>1, <1>2 DEF IInv, TypeOK
  <2> QED
    BY <1>1, <2>1 DEF IInv, TypeOK
<1>5. UploadingFiles' \subseteq UploadingFiles
  BY <1>1 DEF UploadingFiles
<1>6. OnlyRemovedUploadsEscape'
  <2>1. \A f \in active : /\ f \in File /\ phase[f] \in {"uploading", "gone"}
                          /\ phase[f] = "gone" => Current(f) \in escaped
    BY DEF IInv, TypeOK, OnlyRemovedUploadsEscape
  <2>2. \A f \in UploadingFiles' : f \in active /\ f # g
    BY <1>1 DEF UploadingFiles, IInv, OnlyRemovedUploadsEscape
  <2>3. \A f \in active' : /\ phase'[f] \in {"uploading", "gone"}
                           /\ phase'[f] = "gone" => Current(f)' \in escaped'
    BY <1>1, <2>1 DEF Current
  <2> QED
    BY <1>1, <2>2, <2>3 DEF OnlyRemovedUploadsEscape
<1>7. PhasesFollow'
  <2>1. \A f \in File : \/ phase'[f] = phase[f]
                        \/ /\ f = g /\ phase[f] = "uploading"
                           /\ phase'[f] \in {"gone", "rejected", "failed"}
    BY <1>1
  <2> QED
    BY <1>1, <2>1 DEF IInv, PhasesFollow
<1>8. ServedAreSent' /\ \A f \in active' : tries'[f] >= 1
  BY <1>1 DEF IInv, ServedAreSent
<1>9. SessionsAreKnown'
  BY <1>1, <1>3 DEF IInv, SessionsAreKnown
<1>10. IsFiniteSet(Added)'
  <2>1. Added' \subseteq Added
    BY <1>1 DEF Added
  <2> QED
    BY <2>1, FS_Subset DEF IInv
<1>11. UploadsShownAreCapped'
  BY <1>3, <1>5, FewerShownAreCapped
<1> QED
  BY <1>1, <1>4, <1>6, <1>7, <1>8, <1>9, <1>10, <1>11 DEF IInv

(* Every step, whenever clicks come.                                       *)
LEMMA IInvHolds == Spec => []IInv
<1>1. ASSUME Init PROVE IInv
  <2>1. TypeOK /\ tries \in [File -> Nat]
    <3>1. \A f \in File : 0 \in 0 .. MaxTries[f]
      BY TriesAreBounded
    <3> QED
      BY <1>1, <3>1 DEF Init, TypeOK, Phase
  <2>2. PhasesFollow /\ ServedAreSent /\ SessionsAreKnown /\ active = {}
    BY <1>1 DEF Init, PhasesFollow, ServedAreSent, SessionsAreKnown
  <2>3. Added = {} /\ UploadingFiles = {}
    BY <1>1 DEF Init, Added, UploadingFiles
  <2> QED
    BY <2>1, <2>2, <2>3, FS_EmptySet, ConcurrencyIsPositive
    DEF IInv, OnlyRemovedUploadsEscape, UploadsShownAreCapped, Allowed
<1>2. ASSUME IInv, [Next]_vars PROVE IInv'
  <2>1. CASE TabStep
    BY <1>2, <2>1, CommitKeepsIInv, RunEffectKeepsIInv DEF TabStep
  <2>2. CASE UserStep
    BY <1>2, <2>2, AddFilesKeepsIInv, ClicksKeepIInv, ServerKeepsIInv DEF UserStep
  <2>3. CASE Refetch \/ \E r \in Request, o \in Outcome : Serve(r, o)
    BY <1>2, <2>3, ServerKeepsIInv
  <2>4. CASE \E f \in File : Hear(f) \/ Lose(f)
    BY <1>2, <2>4, EndsKeepIInv
  <2>5. CASE UNCHANGED vars
    BY <1>2, <2>5 DEF vars, reactVars, IInv, TypeOK, OnlyRemovedUploadsEscape,
       UploadingFiles, PhasesFollow, ServedAreSent, SessionsAreKnown, Added,
       UploadsShownAreCapped, Allowed, Current
  <2> QED
    BY <1>2, <2>1, <2>2, <2>3, <2>4, <2>5 DEF Next
<1> QED
  BY <1>1, <1>2, PTL DEF Spec

-----------------------------------------------------------------------------
(* The users the browser may become. *)

(* The user it is, those of its photos, and those the answers it waits for *)
(* may make of it.                                                         *)
KnownUsers == {cookie} \cup {UserOf(r) : r \in gallery} \cup {UserOf(Current(f)) : f \in active}

(* There is one, but for those that escapes make.                          *)
OneUserIsKnown ==
  \A u, v \in KnownUsers : u # NoUser /\ v # NoUser => u = v \/ u \in escaped \/ v \in escaped

(* A user that is no longer heard of mixes nothing.                        *)
LEMMA FewerAreKnown ==
  ASSUME OneUserIsKnown, KnownUsers' \subseteq KnownUsers \cup {NoUser}, escaped \subseteq escaped'
  PROVE  OneUserIsKnown'
BY DEF OneUserIsKnown

(* What a request under way is, and whose.                                 *)
LEMMA OpenRequests ==
  ASSUME IInv, NEW f \in active
  PROVE  /\ f \in File
         /\ Current(f) \in Request /\ Current(f) # NoUser
         /\ UserOf(Current(f)) # NoUser
         /\ cookie = NoUser => UserOf(Current(f)) = Current(f)
<1>1. f \in File /\ tries[f] \in 1 .. MaxTries[f]
  BY DEF IInv, TypeOK
<1>2. Current(f) \in Request /\ Current(f) # NoUser
  BY <1>1, RequestsAreTries, NoUserIsNoRequest DEF Current
<1>3. cookie = NoUser => carried[Current(f)] = NoUser
  BY <1>2 DEF IInv, SessionsAreKnown
<1> QED
  BY <1>1, <1>2, <1>3 DEF UserOf

(* Without a session an effect leaves one upload under way that is not an  *)
(* escape.                                                                 *)
LEMMA OneFirstUpload ==
  ASSUME IInv, RunEffect, cookie = NoUser, NEW f \in active', NEW g \in active'
  PROVE  f = g \/ Current(f)' \in escaped' \/ Current(g)' \in escaped'
<1>1. IInv' /\ cookie' = NoUser
  BY RunEffectKeepsIInv, EffectByFile
<1>2. IsFiniteSet(UploadingFiles') /\ Cardinality(UploadingFiles') <= 1
  <2>1. UploadingFiles' \subseteq Added'
    BY DEF UploadingFiles, Added
  <2>2. IsFiniteSet(Added')
    BY <1>1 DEF IInv
  <2>3. IsFiniteSet(UploadingFiles')
    BY <2>1, <2>2, FS_Subset
  <2> QED
    BY <1>1, <2>3 DEF IInv, UploadsShownAreCapped, Allowed
<1>3. \A h \in active' : h \in UploadingFiles' \/ Current(h)' \in escaped'
  BY <1>1 DEF IInv, TypeOK, OnlyRemovedUploadsEscape, UploadingFiles
<1> QED
  BY <1>2, <1>3, OneAtMost

(* The effect makes a new user only if there is none.                      *)
LEMMA RunEffectKnowsOneUser ==
  ASSUME IInv, OneUserIsKnown, RunEffect
  PROVE  OneUserIsKnown'
<1>1. /\ active' = active \cup StartedFiles
      /\ UNCHANGED <<gallery, cookie>>
      /\ escaped \subseteq escaped'
      /\ \A f \in File :
           tries'[f] = IF f \in StartedFiles THEN tries[f] + 1 ELSE tries[f]
      /\ \A r \in Request :
           carried'[r] = IF r[1] \in StartedFiles /\ r[2] = tries[r[1]] + 1
                         THEN cookie ELSE carried[r]
  BY EffectByFile
<1>2. IInv'
  BY RunEffectKeepsIInv
<1>3. CASE cookie = NoUser
  <2>1. gallery' = {} /\ cookie' = NoUser
    BY <1>1, <1>3 DEF IInv, SessionsAreKnown
  <2>2. ASSUME NEW f \in active'
        PROVE  UserOf(Current(f))' = Current(f)'
    <3>1. /\ Current(f)' \in Request
          /\ carried'[Current(f)'] # NoUser => cookie' # NoUser
      <4>1. f \in File /\ tries'[f] \in 1 .. MaxTries[f]
        BY <1>2 DEF IInv, TypeOK
      <4>2. Current(f)' \in Request
        BY <4>1, RequestsAreTries DEF Current
      <4> QED
        BY <1>2, <4>2 DEF IInv, SessionsAreKnown
    <3> QED
      BY <2>1, <3>1 DEF UserOf
  <2>3. ASSUME NEW f \in active', NEW g \in active'
        PROVE  f = g \/ Current(f)' \in escaped' \/ Current(g)' \in escaped'
    BY <1>3, OneFirstUpload
  <2> QED
    BY <2>1, <2>2, <2>3 DEF OneUserIsKnown, KnownUsers
<1>4. CASE cookie # NoUser
  <2>1. ASSUME NEW r \in gallery PROVE UserOf(r)' = UserOf(r)
    <3>1. r \in Request /\ r[2] <= tries[r[1]]
      BY DEF IInv, TypeOK, ServedAreSent
    <3>2. r[1] \in File /\ r[2] \in Nat /\ tries[r[1]] \in Nat
      BY <3>1, RequestsAreTries DEF IInv
    <3> QED
      BY <1>1, <3>1, <3>2 DEF UserOf
  <2>2. ASSUME NEW f \in active PROVE UserOf(Current(f))' = UserOf(Current(f))
    <3>1. f \in File /\ f \notin StartedFiles /\ Current(f) \in Request
      BY OpenRequests, StartedWereQueued
    <3>2. tries'[f] = tries[f] /\ carried'[<<f, tries[f]>>] = carried[<<f, tries[f]>>]
      BY <1>1, <3>1 DEF Current
    <3> QED
      BY <3>2 DEF UserOf, Current
  <2>3. ASSUME NEW f \in StartedFiles PROVE UserOf(Current(f))' = cookie
    <3>1. f \in File /\ <<f, tries[f] + 1>> \in Request /\ tries'[f] = tries[f] + 1
      BY <1>1, StartedWereQueued, RequestsAreTries
    <3>2. carried'[<<f, tries[f] + 1>>] = cookie
      BY <1>1, <3>1
    <3> QED
      BY <1>4, <3>1, <3>2 DEF UserOf, Current
  <2>4. KnownUsers' \subseteq KnownUsers
    BY <1>1, <2>1, <2>2, <2>3 DEF KnownUsers
  <2> QED
    BY <1>1, <2>4, FewerAreKnown
<1> QED
  BY <1>3, <1>4

(* An answer makes the browser the user it waited to become, or nobody new. *)
LEMMA HearKnowsNobodyNew ==
  ASSUME IInv, NEW g \in File, Hear(g)
  PROVE  KnownUsers' \subseteq KnownUsers
<1>1. /\ g \in active /\ active' = active \ {g}
      /\ SetCookie(Current(g))
      /\ gallery' = IF served[Current(g)] = "stored"
                    THEN gallery \cup {Current(g)} ELSE gallery
      /\ UNCHANGED <<tries, carried>>
  BY DEF Hear
<1>2. /\ \A r : UserOf(r)' = UserOf(r)
      /\ \A f : Current(f)' = Current(f)
  BY <1>1 DEF UserOf, Current
<1>3. cookie' = cookie \/ cookie' = UserOf(Current(g))
  BY <1>1 DEF SetCookie, UserOf
<1> QED
  BY <1>1, <1>2, <1>3, Zenon DEF KnownUsers

(* Nor does any other step.                                                *)
LEMMA NextKnowsOneUser ==
  ASSUME IInv, OneUserIsKnown, [Next]_vars
  PROVE  OneUserIsKnown'
<1>1. CASE RunEffect
  BY <1>1, RunEffectKnowsOneUser
<1>2. CASE \E g \in File : Hear(g)
  <2>1. KnownUsers' \subseteq KnownUsers /\ UNCHANGED escaped
    BY <1>2, HearKnowsNobodyNew DEF Hear
  <2> QED
    BY <2>1, FewerAreKnown
<1>3. CASE ~RunEffect /\ ~(\E g \in File : Hear(g))
  <2>1. /\ UNCHANGED <<tries, carried, cookie, escaped>>
        /\ active' \subseteq active
        /\ gallery' \subseteq gallery \/ Refetch
    BY <1>3 DEF Next, TabStep, UserStep, Commit, AddFiles, Retry, Remove, DeleteImage, Serve,
       Lose, Refetch, reactVars, vars
  <2>2. /\ \A r : UserOf(r)' = UserOf(r)
        /\ \A f : Current(f)' = Current(f)
    BY <2>1 DEF UserOf, Current
  <2>3. \A r \in gallery' : r \in gallery \/ UserOf(r) = cookie
    BY <2>1 DEF Refetch
  <2>4. KnownUsers' \subseteq KnownUsers
    BY <2>1, <2>2, <2>3, Zenon DEF KnownUsers
  <2> QED
    BY <2>1, <2>4, FewerAreKnown
<1> QED
  BY <1>1, <1>2, <1>3

(* One user, whatever is lost, aborted or heard late.                      *)
LEMMA OneUserStaysKnown == Spec => []OneUserIsKnown
<1>1. Init => OneUserIsKnown
  BY DEF Init, OneUserIsKnown, KnownUsers
<1> QED
  BY <1>1, NextKnowsOneUser, IInvHolds, PTL DEF Spec

-----------------------------------------------------------------------------
(* What no step does. *)

(* The effect starts an upload only of what waits for one: once, never of  *)
(* what is under way; and if the user has removed it since the commit, it  *)
(* is an escape that no card shows.                                        *)
StartsAreDue(f) ==
  tries'[f] # tries[f] =>
    /\ shown[f] = "queued"
    /\ f \notin active /\ f \in active'
    /\ tries'[f] = tries[f] + 1
    /\ \/ phase[f] = "queued" /\ phase'[f] = "uploading"
       \/ phase[f] = "gone" /\ phase'[f] = "gone" /\ Current(f)' \in escaped'

(* So no file has two uploads, though the effect runs again before the     *)
(* reducer has heard of the first.                                         *)
OnlyQueuedFilesAreStarted == [][\A f \in File : StartsAreDue(f)]_vars

(* A request is sent once, and what the server did with it is not undone.  *)
GoesOnOnce(r) ==
  /\ served[r] # "unsent" => served'[r] # "unsent" /\ carried'[r] = carried[r]
  /\ served'[r] = "sent" => served[r] \in {"unsent", "sent"}
  /\ served[r] \in {"refused", "broken", "deleted"} => served'[r] = served[r]

(* So the retries of a file are requests of their own, each sent and served *)
(* once; only a stored photo may still be deleted.                         *)
RequestsAreSentOnce == [][\A r \in Request : GoesOnOnce(r)]_vars

(* A session, once the browser has it, is only replaced if an escape has   *)
(* made it, or makes the next.                                             *)
KeepsSession == cookie # NoUser => \/ cookie' = cookie
                                  \/ cookie \in escaped
                                  \/ cookie' \in escaped
SessionIsKept == [][KeepsSession]_vars

(* The uploads this tab waits for, and the session they are about.         *)
OpenUploads == {Current(f) : f \in active}

Session == INSTANCE BrowserSession WITH open <- OpenUploads, strays <- escaped

(* A step that starts nothing has no effect on requests but the server's.  *)
LEMMA OtherStepsStartNothing ==
  ASSUME Next, ~RunEffect
  PROVE  /\ UNCHANGED <<tries, carried>>
         /\ active' \subseteq active
         /\ \/ UNCHANGED served
            \/ \E r \in Request, o \in Outcome : Serve(r, o)
            \/ \E r \in Request : DeleteImage(r)
BY DEF Next, TabStep, UserStep, Commit, AddFiles, Retry, Remove, DeleteImage, Serve, Hear,
   Lose, Refetch, reactVars

(* What the effect starts was queued when it was rendered.                 *)
LEMMA StartsOfAStep ==
  ASSUME IInv, Next, NEW f \in File
  PROVE  StartsAreDue(f)
<1>1. CASE RunEffect
  <2>1. CASE f \in StartedFiles
    <3>1. /\ shown[f] = "queued" /\ f \notin active
          /\ phase[f] \in {"queued", "gone"}
      BY <1>1, <2>1, StartedWereQueued
    <3>2. /\ tries'[f] = tries[f] + 1 /\ f \in active'
          /\ phase'[f] = IF phase[f] = "queued" THEN "uploading" ELSE phase[f]
          /\ phase[f] = "gone" => <<f, tries[f] + 1>> \in escaped'
      BY <1>1, <2>1, EffectByFile
    <3> QED
      BY <3>1, <3>2 DEF StartsAreDue, Current
  <2>2. CASE f \notin StartedFiles
    BY <1>1, <2>2, EffectByFile DEF StartsAreDue
  <2> QED
    BY <2>1, <2>2
<1>2. CASE ~RunEffect
  BY <1>2, OtherStepsStartNothing DEF StartsAreDue
<1> QED
  BY <1>1, <1>2

(* What it sends was not sent before, whenever a click came.               *)
LEMMA RequestsOfAStep ==
  ASSUME IInv, Next, NEW r \in Request
  PROVE  GoesOnOnce(r)
<1>1. CASE RunEffect
  <2>1. r[1] \in File /\ r[2] \in Nat /\ tries[r[1]] \in Nat
    BY RequestsAreTries, TriesAreBounded DEF IInv
  <2>2. served[r] # "unsent" => r[2] <= tries[r[1]]
    BY DEF IInv, ServedAreSent
  <2>3. r[2] = tries[r[1]] + 1 => served[r] = "unsent"
    BY <2>1, <2>2
  <2>4. IF r[1] \in StartedFiles /\ r[2] = tries[r[1]] + 1
        THEN served'[r] = "sent" /\ carried'[r] = cookie
        ELSE served'[r] = served[r] /\ carried'[r] = carried[r]
    BY <1>1, EffectByFile
  <2> QED
    BY <2>3, <2>4 DEF GoesOnOnce
<1>2. CASE ~RunEffect
  <2>1. /\ UNCHANGED carried
        /\ \/ UNCHANGED served
           \/ \E q \in Request, o \in Outcome : Serve(q, o)
           \/ \E q \in Request : DeleteImage(q)
    BY <1>2, OtherStepsStartNothing
  <2>2. ASSUME NEW q \in Request, NEW o \in Outcome, Serve(q, o)
        PROVE  GoesOnOnce(r)
    BY <2>1, <2>2 DEF Serve, GoesOnOnce, Outcome, IInv, TypeOK
  <2>3. ASSUME NEW q \in Request, DeleteImage(q)
        PROVE  GoesOnOnce(r)
    <3>1. served[q] = "stored"
      BY <2>3 DEF DeleteImage, IInv, ServedAreSent
    <3> QED
      BY <2>1, <2>3, <3>1 DEF DeleteImage, GoesOnOnce, IInv, TypeOK
  <2>4. CASE UNCHANGED served
    BY <2>1, <2>4 DEF GoesOnOnce
  <2> QED
    BY <2>1, <2>2, <2>3, <2>4
<1> QED
  BY <1>1, <1>2

(* No two requests of one file are open at once.                           *)
LEMMA OpenUploadsAreOfFiles ==
  \A f, g : Current(f) = Current(g) => f = g
BY DEF Current

(* An effect begins uploads: one, if there is no session, and escapes.     *)
LEMMA RunEffectBegins ==
  ASSUME IInv, RunEffect
  PROVE  Session!Begin
<1>1. /\ active' = active \cup StartedFiles
      /\ cookie' = cookie
      /\ escaped \subseteq escaped'
      /\ \A r \in escaped' \ escaped : \E f \in StartedFiles : r = <<f, tries[f] + 1>>
      /\ \A f \in File :
           tries'[f] = IF f \in StartedFiles THEN tries[f] + 1 ELSE tries[f]
  BY EffectByFile
<1>2. \A f \in active : f \in File /\ f \notin StartedFiles
  BY StartedWereQueued DEF IInv, TypeOK
<1>3. \A f \in StartedFiles : f \in File /\ tries[f] \in Nat
  BY StartedWereQueued DEF IInv
<1>4. \A f \in active : Current(f)' = Current(f)
  BY <1>1, <1>2 DEF Current
<1>5. OpenUploads \subseteq OpenUploads'
  BY <1>1, <1>4 DEF OpenUploads
<1>6. ASSUME NEW r \in escaped' \ escaped
      PROVE  r \in OpenUploads' /\ r \notin OpenUploads
  <2>1. PICK f \in StartedFiles : r = <<f, tries[f] + 1>>
    BY <1>1
  <2>2. r = Current(f)' /\ f \in active'
    BY <1>1, <1>3, <2>1 DEF Current
  <2>3. ASSUME NEW g \in active, r = Current(g) PROVE FALSE
    BY <1>2, <2>1, <2>3 DEF Current
  <2> QED
    BY <2>2, <2>3 DEF OpenUploads
<1>7. \E s \in SUBSET (OpenUploads' \ OpenUploads) : escaped' = escaped \cup s
  <2>1. escaped' \ escaped \in SUBSET (OpenUploads' \ OpenUploads)
    BY <1>6
  <2>2. escaped' = escaped \cup (escaped' \ escaped)
    BY <1>1
  <2> QED
    BY <2>1, <2>2
<1>8. ASSUME cookie = NoUser,
             NEW f \in active', Current(f)' \notin escaped',
             NEW g \in active', Current(g)' \notin escaped'
      PROVE  Current(f)' = Current(g)'
  <2>1. f = g \/ Current(f)' \in escaped' \/ Current(g)' \in escaped'
    BY <1>8, OneFirstUpload
  <2> QED
    BY <1>8, <2>1
<1>9. cookie = NoUser => \A r, s \in OpenUploads' \ escaped' : r = s
  BY <1>8 DEF OpenUploads
<1> QED
  BY <1>1, <1>5, <1>7, <1>9 DEF Session!Begin

(* Whatever takes a request from those under way ends it.                  *)
LEMMA EndsAreSeen ==
  ASSUME IInv, NEW g \in File, active' = active \ {g}, UNCHANGED <<tries, cookie, escaped>>
  PROVE  [Session!Next]_(Session!vars)
<1>1. \A f : Current(f)' = Current(f)
  BY DEF Current
<1>2. OpenUploads' = OpenUploads \ {Current(g)}
  BY <1>1, OpenUploadsAreOfFiles DEF OpenUploads
<1>3. CASE g \in active
  <2>1. Current(g) \in OpenUploads
    BY <1>3 DEF OpenUploads
  <2> QED
    BY <1>2, <2>1 DEF Session!End, Session!Next
<1>4. CASE g \notin active
  <2>1. Current(g) \notin OpenUploads
    BY <1>4, OpenUploadsAreOfFiles DEF OpenUploads
  <2> QED
    BY <1>2, <2>1 DEF Session!vars
<1> QED
  BY <1>3, <1>4

(* A Set-Cookie header is that of the one first upload, or of an escape.   *)
LEMMA AnswersIdentify ==
  ASSUME IInv, OneUserIsKnown, NEW g \in File, Hear(g), cookie' # cookie
  PROVE  Session!Identify(Current(g))
<1>1. /\ g \in active /\ active' = active \ {g} /\ UNCHANGED <<tries, escaped>>
      /\ SetCookie(Current(g))
  BY DEF Hear
<1>2. cookie' = Current(g) /\ UserOf(Current(g)) = Current(g)
  BY <1>1 DEF SetCookie, UserOf
<1>3. OpenUploads' = OpenUploads \ {Current(g)} /\ Current(g) \in OpenUploads
  BY <1>1, OpenUploadsAreOfFiles DEF OpenUploads, Current
<1>4. Current(g) \in KnownUsers /\ cookie \in KnownUsers /\ Current(g) # NoUser
  BY <1>1, <1>2, OpenRequests DEF KnownUsers
<1>5. cookie = NoUser \/ cookie \in escaped \/ Current(g) \in escaped
  BY <1>2, <1>4 DEF OneUserIsKnown
<1> QED
  BY <1>1, <1>2, <1>3, <1>5 DEF Session!Identify

(* Every step, seen as one of the session.                                 *)
LEMMA StepsOfTheSession ==
  ASSUME IInv, OneUserIsKnown, [Next]_vars
  PROVE  [Session!Next]_(Session!vars)
<1>1. CASE RunEffect
  BY <1>1, RunEffectBegins DEF Session!Next
<1>2. ASSUME NEW g \in File, Hear(g)
      PROVE  [Session!Next]_(Session!vars)
  <2>1. active' = active \ {g} /\ g \in active /\ UNCHANGED <<tries, escaped>>
    BY <1>2 DEF Hear
  <2>2. CASE cookie' = cookie
    BY <2>1, <2>2, EndsAreSeen
  <2>3. CASE cookie' # cookie
    <3>1. Session!Identify(Current(g))
      BY <1>2, <2>3, AnswersIdentify
    <3>2. Current(g) \in OpenUploads
      BY <2>1 DEF OpenUploads
    <3> QED
      BY <3>1, <3>2 DEF Session!Next
  <2> QED
    BY <2>2, <2>3
<1>3. ASSUME NEW g \in File, Lose(g) \/ Remove(g)
      PROVE  [Session!Next]_(Session!vars)
  BY <1>3, EndsAreSeen DEF Lose, Remove
<1>4. CASE UNCHANGED <<active, tries, cookie, escaped>>
  BY <1>4 DEF Session!vars, OpenUploads, Current
<1> QED
  BY <1>1, <1>2, <1>3, <1>4 DEF Next, TabStep, UserStep, Commit, AddFiles, Retry, DeleteImage,
     Serve, Refetch, reactVars, vars

-----------------------------------------------------------------------------
(* The theorems. *)

(* The phases, tries, requests and cookies stay within their types.        *)
THEOREM UploadsTypeCorrect == Spec => []TypeOK
<1>1. IInv => TypeOK
  BY DEF IInv
<1> QED
  BY <1>1, IInvHolds, PTL

(* useUploads.ts starts uploads from the items of an earlier render, and   *)
(* yet no more than CONCURRENCY of the files the user still has are under  *)
(* way, and no more than one until the browser has its session.            *)
THEOREM ListedAreCapped == Spec => []ListedUploadsAreCapped
<1>1. ASSUME IInv PROVE ListedUploadsAreCapped
  <2> DEFINE listed == {f \in active : Current(f) \notin escaped}
  <2>1. listed \subseteq UploadingFiles /\ UploadingFiles \subseteq Added
    BY <1>1 DEF IInv, TypeOK, OnlyRemovedUploadsEscape, UploadingFiles, Added
  <2>2. IsFiniteSet(UploadingFiles)
    BY <1>1, <2>1, FS_Subset DEF IInv
  <2> HIDE DEF listed
  <2>3. IsFiniteSet(listed) /\ Cardinality(listed) <= Cardinality(UploadingFiles)
    BY <2>1, <2>2, FS_Subset
  <2>4. Cardinality(listed) \in Nat /\ Cardinality(UploadingFiles) \in Nat
    BY <2>2, <2>3, FS_CardinalityType
  <2>5. Cardinality(UploadingFiles) <= Allowed /\ Allowed \in Nat
    BY <1>1, ConcurrencyIsPositive DEF IInv, UploadsShownAreCapped, Allowed
  <2> QED
    BY <2>3, <2>4, <2>5 DEF ListedUploadsAreCapped, listed
<1> QED
  BY <1>1, IInvHolds, PTL

(* `remove` cancels the upload of an item in flight: what goes on without  *)
(* a card was begun by an effect that came after the removal.  No card     *)
(* spins without a request.                                                *)
THEOREM OnlyEscapesGoUnshown == Spec => []UploadsAreShownOrEscaped
<1>1. IInv => UploadsAreShownOrEscaped
  BY DEF IInv, OnlyRemovedUploadsEscape, UploadingFiles, UploadsAreShownOrEscaped
<1> QED
  BY <1>1, IInvHolds, PTL

(* Whatever first uploads were lost, refused, aborted or retried, every    *)
(* photo in the gallery is of the user in the browser's cookie, but for    *)
(* what escapes do.                                                        *)
THEOREM GalleriesMixOnlyByEscapes == Spec => []OnlyEscapesMixSessions
<1>1. ASSUME IInv, OneUserIsKnown PROVE OnlyEscapesMixSessions
  <2> SUFFICES ASSUME NEW r \in gallery
               PROVE  UserOf(r) = cookie \/ UserOf(r) \in escaped \/ cookie \in escaped
    BY DEF OnlyEscapesMixSessions
  <2>1. r \in Request /\ cookie # NoUser
    BY <1>1 DEF IInv, TypeOK, SessionsAreKnown
  <2>2. UserOf(r) # NoUser
    BY <2>1, NoUserIsNoRequest DEF UserOf
  <2>3. UserOf(r) \in KnownUsers /\ cookie \in KnownUsers
    BY DEF KnownUsers
  <2> QED
    BY <1>1, <2>1, <2>2, <2>3 DEF OneUserIsKnown
<1> QED
  BY <1>1, IInvHolds, OneUserStaysKnown, PTL

(* Although the effect decides by an earlier render, it starts nothing that *)
(* is under way, nothing twice, and of what it starts only what was removed *)
(* after that render is not due.                                           *)
THEOREM EffectsStartWhatWasQueued == Spec => OnlyQueuedFilesAreStarted
<1>1. IInv /\ [Next]_vars => [\A f \in File : StartsAreDue(f)]_vars
  BY StartsOfAStep
<1> QED
  BY <1>1, IInvHolds, PTL DEF Spec, OnlyQueuedFilesAreStarted

(* Retries make requests of their own: none is sent again, nor loses what  *)
(* the server did with it or the cookie it carried.                        *)
THEOREM EachRequestIsSentOnce == Spec => RequestsAreSentOnce
<1>1. IInv /\ [Next]_vars => [\A r \in Request : GoesOnOnce(r)]_vars
  BY RequestsOfAStep
<1> QED
  BY <1>1, IInvHolds, PTL DEF Spec, RequestsAreSentOnce

(* useUploads.ts: the queue keeps what the API relies on in a browser, as  *)
(* ApiImplementsSessions has it: without a session one upload at a time,   *)
(* and escapes.                                                            *)
THEOREM QueueImplementsSession == Spec => Session!Spec
<1>1. Init => Session!Init
  BY DEF Init, Session!Init, OpenUploads
<1>2. IInv /\ OneUserIsKnown /\ [Next]_vars => [Session!Next]_(Session!vars)
  BY StepsOfTheSession
<1> QED
  BY <1>1, <1>2, IInvHolds, OneUserStaysKnown, PTL DEF Spec, Session!Spec

(* However answers are lost, late or of several tries, the browser stays   *)
(* the user it has become, unless by an escape.                            *)
THEOREM SessionLasts == Spec => SessionIsKept
<1>1. IInv /\ OneUserIsKnown /\ [Next]_vars => [KeepsSession]_vars
  BY StepsOfTheSession DEF KeepsSession, Session!Next, Session!Begin, Session!End,
     Session!Identify, Session!vars
<1> QED
  BY <1>1, IInvHolds, OneUserStaysKnown, PTL DEF Spec, SessionIsKept
=============================================================================
