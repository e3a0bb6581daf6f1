-------------------------- MODULE FileLocksProofs --------------------------
(***************************************************************************)
(* Proofs about record locks and file claims, for every number of jobs,    *)
(* channels, files and records, and any set of careless jobs.              *)
(***************************************************************************)
EXTENDS FileLocks, FiniteSetTheorems, TLAPS

-----------------------------------------------------------------------------
(* The inductive invariant.                                                *)

(* A channel that is not open has nothing, one that is about to be set up  *)
(* has claimed nothing, and one that is about to lock or to be closed has  *)
(* no record.                                                              *)
Tidy == \A j \in Jobs :
  /\ \A c \in Channels : ~IsOpen(j, c) => files[j][c] = Closed
  /\ pc[j] = "claim" => ~files[j][at[j].chan].claimed
  /\ pc[j] \in {"claim", "lock", "close", "closeNext"}
       => files[j][at[j].chan].lockedRec = NoRecord

(* What a careful program is. *)
OneChannel == \A j \in Careful, c, d \in Channels :
  IsOpen(j, c) /\ files[j][c].file = files[j][d].file => c = d

(* The count is never short, and right for careful jobs. *)
Counted == \A j \in Jobs, f \in Files :
  /\ fileJobs[f][j] >= Cardinality(Claims(j, f))
  /\ j \in Careful => fileJobs[f][j] = Cardinality(Claims(j, f))

(* The exclusive claim of a careful job stands beside its channel. *)
ExclusiveSet == \A j \in Careful, c \in Channels :
  LET x == files[j][c] IN x.exclusive /\ x.claimed => fileExcl[x.file] = j
ExclusiveOwned == \A j \in Careful, f \in Files :
  fileExcl[f] = j => \E c \in Claims(j, f) : files[j][c].exclusive

LockInv == RecordHeld /\ RecordFreed
ClaimInv == Counted /\ ExclusiveSet /\ ExclusiveOwned /\ ExclusiveKept

IInv == TypeOK /\ Tidy /\ OneChannel /\ LockInv /\ ClaimInv

-----------------------------------------------------------------------------
(* One channel changes. *)
Changes(j, c, y) ==
  /\ files' \in [Jobs -> [Channels -> Channel]]
  /\ files'[j][c] = y
  /\ \A k \in Jobs, d \in Channels :
       k # j \/ d # c => files'[k][d] = files[k][d]

LEMMA ChangesChannel ==
  ASSUME TypeOK, NEW j \in Jobs, NEW c \in Channels, NEW y \in Channel,
         files' = [files EXCEPT ![j][c] = y]
  PROVE  Changes(j, c, y)
BY DEF TypeOK, Changes

LEMMA ChannelTyped ==
  ASSUME NEW x \in Channel
  PROVE  /\ x.file \in Files \cup {NoFile}
         /\ x.lockedRec \in Records \cup {NoRecord}
         /\ x.exclusive \in BOOLEAN /\ x.claimed \in BOOLEAN /\ x.wait \in BOOLEAN
BY DEF Channel

(* The values the actions write. *)
LEMMA ClosedTyped ==
  /\ Closed \in Channel /\ Closed.file = NoFile
  /\ ~Closed.claimed /\ Closed.lockedRec = NoRecord
BY DEF Closed, Channel

LEMMA WithRecord ==
  ASSUME NEW x \in Channel, NEW r \in Records \cup {NoRecord}
  PROVE  LET y == [x EXCEPT !.lockedRec = r]
         IN /\ y \in Channel /\ y.file = x.file /\ y.exclusive = x.exclusive
            /\ y.wait = x.wait /\ y.claimed = x.claimed /\ y.lockedRec = r
BY DEF Channel

LEMMA WithClaim ==
  ASSUME NEW x \in Channel
  PROVE  LET y == [x EXCEPT !.claimed = TRUE]
         IN /\ y \in Channel /\ y.file = x.file /\ y.exclusive = x.exclusive
            /\ y.claimed /\ y.lockedRec = x.lockedRec
BY DEF Channel

LEMMA InitTyped == Init => TypeOK
BY ClosedTyped, FileAssumption DEF Init, TypeOK, PC

LEMMA UnlockedTyped ==
  ASSUME TypeOK, NEW j \in Jobs, NEW x \in Channel, x.file \in Files
  PROVE  /\ Unlocked(j, x) \in [Files -> [Records -> Jobs \cup {NoJob}]]
         /\ \A f \in Files, r \in Records :
              Unlocked(j, x)[f][r] =
                IF f = x.file /\ r = x.lockedRec /\ locks[f][r] = j
                THEN NoJob ELSE locks[f][r]
<1>1. x.lockedRec \in Records \cup {NoRecord}
  BY ChannelTyped
<1>2. CASE x.lockedRec = NoRecord
  BY <1>2, FileAssumption DEF Unlocked, TypeOK
<1>3. CASE x.lockedRec \in Records
  <2>1. Unlocked(j, x) = [locks EXCEPT ![x.file][x.lockedRec] = IF @ = j THEN NoJob ELSE @]
    BY <1>3, FileAssumption DEF Unlocked
  <2>2. QED
    BY <1>3, <2>1 DEF TypeOK
<1>4. QED
  BY <1>1, <1>2, <1>3

LEMMA ReleaseTyped ==
  ASSUME TypeOK, NEW j \in Jobs, NEW x \in Channel, x.claimed => x.file \in Files,
         ReleaseFile(j, x)
  PROVE  /\ fileJobs' \in [Files -> [Jobs -> Nat]]
         /\ fileExcl' \in [Files -> Jobs \cup {NoJob}]
         /\ \A f \in Files, k \in Jobs :
              fileJobs'[f][k] = IF x.claimed /\ f = x.file /\ k = j /\ fileJobs[f][k] # 0
                                THEN fileJobs[f][k] - 1 ELSE fileJobs[f][k]
         /\ \A f \in Files :
              fileExcl'[f] = IF x.claimed /\ f = x.file /\ fileExcl[f] = j
                             THEN NoJob ELSE fileExcl[f]
<1>1. CASE ~x.claimed
  BY <1>1 DEF ReleaseFile, TypeOK
<1>2. CASE x.claimed
  <2>1. /\ x.file \in Files
        /\ fileJobs' = [fileJobs EXCEPT ![x.file][j] = IF @ = 0 THEN 0 ELSE @ - 1]
        /\ fileExcl' = [fileExcl EXCEPT ![x.file] = IF @ = j THEN NoJob ELSE @]
    BY <1>2 DEF ReleaseFile
  <2>2. fileJobs[x.file][j] \in Nat
    BY <2>1 DEF TypeOK
  <2>3. (IF fileJobs[x.file][j] = 0 THEN 0 ELSE fileJobs[x.file][j] - 1) \in Nat
    BY <2>2
  <2>4. QED
    BY <1>2, <2>1, <2>2, <2>3 DEF TypeOK
<1>3. QED
  BY <1>1, <1>2

-----------------------------------------------------------------------------
(* Claims.                                                                 *)

LEMMA ClaimsFinite ==
  ASSUME NEW j, NEW f
  PROVE  /\ IsFiniteSet(Claims(j, f)) /\ Cardinality(Claims(j, f)) \in Nat
         /\ Claims(j, f) \subseteq Channels
         /\ \A c : c \in Claims(j, f) <=>
              c \in Channels /\ files[j][c].file = f /\ files[j][c].claimed
<1>1. Claims(j, f) \subseteq Channels
  BY DEF Claims, OnFile
<1>2. IsFiniteSet(Claims(j, f))
  BY <1>1, FS_Subset, FileAssumption
<1>3. Cardinality(Claims(j, f)) \in Nat
  BY <1>2, FS_CardinalityType
<1>4. QED
  BY <1>1, <1>2, <1>3 DEF Claims, OnFile

(* A step that leaves file, exclusive and claimed of every channel alone. *)
LEMMA KeepClaims ==
  ASSUME ClaimInv, UNCHANGED <<fileExcl, fileJobs>>,
         \A k \in Jobs, d \in Channels :
           /\ files'[k][d].file = files[k][d].file
           /\ files'[k][d].exclusive = files[k][d].exclusive
           /\ files'[k][d].claimed = files[k][d].claimed
  PROVE  ClaimInv'
<1>1. \A f : \A k \in Jobs : Claims(k, f)' = Claims(k, f)
  BY DEF Claims, OnFile
<1>2. Counted'
  BY <1>1 DEF ClaimInv, Counted
<1>3. ExclusiveSet'
  BY DEF ClaimInv, ExclusiveSet, Careful
<1>4. ExclusiveOwned'
  <2> SUFFICES ASSUME NEW k \in Careful, NEW f \in Files, fileExcl[f] = k
               PROVE  \E c \in Claims(k, f)' : files'[k][c].exclusive
    BY DEF ExclusiveOwned
  <2>1. k \in Jobs
    BY DEF Careful
  <2>2. PICK c \in Claims(k, f) : files[k][c].exclusive
    BY DEF ClaimInv, ExclusiveOwned
  <2>3. c \in Channels
    BY <2>2 DEF Claims, OnFile
  <2>4. QED
    BY <1>1, <2>1, <2>2, <2>3
<1>5. ExclusiveKept'
  BY <1>1, SMTT(30) DEF ClaimInv, ExclusiveKept, Careful
<1>6. QED
  BY <1>2, <1>3, <1>4, <1>5 DEF ClaimInv

(* A channel goes away or is replaced by one that has claimed nothing. *)
LEMMA DropClaims ==
  ASSUME TypeOK, Tidy, OneChannel, ClaimInv,
         NEW j \in Jobs, NEW c \in Channels, NEW y \in Channel,
         Changes(j, c, y), ~y.claimed,
         \/ ReleaseFile(j, files[j][c])
         \/ j \notin Careful /\ UNCHANGED <<fileExcl, fileJobs>>
  PROVE  ClaimInv'
<1> DEFINE x == files[j][c]
<1>1. x \in Channel /\ (x.claimed => x.file \in Files /\ IsOpen(j, c))
  <2>1. x \in Channel
    BY DEF TypeOK
  <2>2. ~IsOpen(j, c) => ~x.claimed
    BY ClosedTyped DEF Tidy
  <2>3. QED
    BY <2>1, <2>2, ChannelTyped DEF IsOpen
<1>2. /\ \A f : \A k \in Jobs : k # j => Claims(k, f)' = Claims(k, f)
      /\ \A f : Claims(j, f)' = Claims(j, f) \ {c}
      /\ \A f : \A k \in Jobs : Claims(k, f)' \subseteq Claims(k, f)
      /\ \A f : c \in Claims(j, f) => x.claimed /\ f = x.file
  BY DEF Claims, OnFile, Changes
<1>3. /\ \A f \in Files, k \in Jobs : fileJobs[f][k] \in Nat
      /\ \A f \in Files, k \in Jobs :
           ~(x.claimed /\ f = x.file /\ k = j) => fileJobs'[f][k] = fileJobs[f][k]
      /\ \A f \in Files : x.claimed /\ f = x.file =>
           \/ fileJobs'[f][j] = (IF fileJobs[f][j] # 0 THEN fileJobs[f][j] - 1 ELSE 0)
           \/ j \notin Careful /\ fileJobs'[f][j] = fileJobs[f][j]
  BY <1>1, ReleaseTyped DEF TypeOK
<1>4. \A f \in Files :
        \/ fileExcl'[f] = fileExcl[f] /\ (x.claimed /\ f = x.file => fileExcl[f] # j)
        \/ x.claimed /\ f = x.file /\ fileExcl[f] = j /\ fileExcl'[f] = NoJob
        \/ j \notin Careful /\ fileExcl'[f] = fileExcl[f]
  BY <1>1, ReleaseTyped DEF TypeOK
<1>5. Counted'
  <2> SUFFICES ASSUME NEW k \in Jobs, NEW f \in Files
               PROVE  /\ fileJobs'[f][k] >= Cardinality(Claims(k, f)')
                      /\ k \in Careful => fileJobs'[f][k] = Cardinality(Claims(k, f)')
    BY DEF Counted, Careful
  <2>1. /\ fileJobs[f][k] \in Nat
        /\ fileJobs[f][k] >= Cardinality(Claims(k, f))
        /\ k \in Careful => fileJobs[f][k] = Cardinality(Claims(k, f))
    BY <1>3 DEF ClaimInv, Counted
  <2>2. CASE k = j /\ x.claimed /\ f = x.file
    <3>1. c \in Claims(j, f)
      BY <2>2 DEF Claims, OnFile
    <3>2. IsFiniteSet(Claims(j, f)) /\ Cardinality(Claims(j, f)) \in Nat
      BY ClaimsFinite
    <3>3. Cardinality(Claims(j, f) \ {c}) = Cardinality(Claims(j, f)) - 1
      BY <3>1, <3>2, FS_RemoveElement
    <3>4. Cardinality(Claims(j, f)) >= 1
      BY <3>1, <3>2, FS_EmptySet
    <3>5. Claims(k, f)' = Claims(j, f) \ {c}
      BY <1>2, <2>2
    <3>6. \/ fileJobs'[f][j] = (IF fileJobs[f][j] # 0 THEN fileJobs[f][j] - 1 ELSE 0)
          \/ j \notin Careful /\ fileJobs'[f][j] = fileJobs[f][j]
      BY <1>3, <2>2
    <3>7. QED
      BY <2>1, <2>2, <3>2, <3>3, <3>4, <3>5, <3>6
  <2>3. CASE ~(k = j /\ x.claimed /\ f = x.file)
    <3>1. Claims(k, f)' = Claims(k, f)
      BY <1>2, <2>3
    <3>2. fileJobs'[f][k] = fileJobs[f][k]
      BY <1>3, <2>3
    <3>3. QED
      BY <2>1, <3>1, <3>2
  <2>4. QED
    BY <2>2, <2>3
<1>6. ExclusiveSet'
  <2> SUFFICES ASSUME NEW k \in Careful, NEW d \in Channels,
                      files'[k][d].exclusive, files'[k][d].claimed
               PROVE  fileExcl'[files'[k][d].file] = k
    BY DEF ExclusiveSet, Careful
  <2>1. k \in Jobs /\ (k # j \/ d # c) /\ files'[k][d] = files[k][d]
    BY DEF Changes, Careful
  <2>2. fileExcl[files[k][d].file] = k
    BY <2>1 DEF ClaimInv, ExclusiveSet
  <2>3. IsOpen(k, d) /\ files[k][d].file \in Files
    <3>1. IsOpen(k, d)
      BY <2>1, ClosedTyped DEF Tidy
    <3>2. QED
      BY <2>1, <3>1, ChannelTyped DEF IsOpen, TypeOK
  <2>4. ~(x.claimed /\ files[k][d].file = x.file /\ k = j)
    BY <1>1, <2>1 DEF OneChannel
  <2>5. QED
    BY <1>4, <2>1, <2>2, <2>3, <2>4
<1>7. ExclusiveOwned'
  <2> SUFFICES ASSUME NEW k \in Careful, NEW f \in Files, fileExcl'[f] = k
               PROVE  \E d \in Claims(k, f)' : files'[k][d].exclusive
    BY DEF ExclusiveOwned, Careful
  <2>1. k \in Jobs /\ k # NoJob
    BY FileAssumption DEF Careful
  <2>2. fileExcl[f] = k /\ ~(x.claimed /\ f = x.file /\ k = j)
    BY <1>4, <2>1
  <2>3. PICK d \in Claims(k, f) : files[k][d].exclusive
    BY <2>2 DEF ClaimInv, ExclusiveOwned
  <2>4. d \in Channels /\ files[k][d].claimed /\ files[k][d].file = f
    BY <2>3 DEF Claims, OnFile
  <2>5. k # j \/ d # c
    BY <2>2, <2>4
  <2>6. files'[k][d] = files[k][d]
    BY <2>1, <2>4, <2>5 DEF Changes
  <2>7. QED
    BY <2>3, <2>4, <2>6 DEF Claims, OnFile
<1>8. ExclusiveKept'
  <2> SUFFICES ASSUME NEW k \in Careful, NEW d \in Channels,
                      files'[k][d].exclusive, files'[k][d].claimed,
                      NEW l \in Jobs \ {k}, NEW e \in Channels,
                      files'[l][e].file = files'[k][d].file, files'[l][e].claimed
               PROVE  FALSE
    BY DEF ExclusiveKept, Careful, Claims, OnFile
  <2>1. k \in Jobs /\ files'[k][d] = files[k][d] /\ files'[l][e] = files[l][e]
    BY DEF Changes, Careful
  <2>2. Claims(l, files[k][d].file) = {}
    BY <2>1 DEF ClaimInv, ExclusiveKept
  <2>3. QED
    BY <2>1, <2>2 DEF Claims, OnFile
<1>9. QED
  BY <1>5, <1>6, <1>7, <1>8 DEF ClaimInv

(* disk.claimFile grants a claim. *)
LEMMA ClaimGranted ==
  ASSUME TypeOK, Tidy, OneChannel, ClaimInv, NEW j \in Jobs, Claim(j)
  PROVE  ClaimInv'
<1> DEFINE c == at[j].chan
           x == files[j][c]
           y == [x EXCEPT !.claimed = TRUE]
<1>1. /\ c \in Channels /\ x \in Channel /\ x.file \in Files
      /\ ~x.claimed /\ IsOpen(j, c)
  <2>1. c \in Channels /\ x \in Channel
    BY DEF TypeOK
  <2>2. pc[j] = "claim" /\ x.file # NoFile
    BY DEF Claim, TypeOK
  <2>3. QED
    BY <2>1, <2>2, ChannelTyped DEF Tidy, IsOpen
<1>2. /\ y \in Channel /\ y.file = x.file /\ y.exclusive = x.exclusive /\ y.claimed
  BY <1>1, WithClaim
<1>3. Changes(j, c, y)
  <2>1. files' = [files EXCEPT ![j][c] = y]
    BY DEF Claim, TypeOK
  <2>2. QED
    BY <1>1, <1>2, <2>1, ChangesChannel
<1>4. /\ \A f : \A k \in Jobs : k # j \/ f # x.file => Claims(k, f)' = Claims(k, f)
      /\ \A f : f = x.file => /\ Claims(j, f)' = Claims(j, f) \cup {c}
                             /\ c \notin Claims(j, f)
  <2>1. /\ files'[j][c].file = x.file /\ files'[j][c].claimed
        /\ \A k \in Jobs, d \in Channels : k # j \/ d # c => files'[k][d] = files[k][d]
    BY <1>2, <1>3 DEF Changes
  <2>2. \A f : f # x.file => c \notin Claims(j, f) /\ c \notin Claims(j, f)'
    BY <2>1 DEF Claims, OnFile
  <2>3. \A f : \A k \in Jobs : \A d \in Channels : k # j \/ d # c =>
          (d \in Claims(k, f)' <=> d \in Claims(k, f))
    BY <2>1 DEF Claims, OnFile
  <2>4. \A k, f : Claims(k, f) \subseteq Channels /\ Claims(k, f)' \subseteq Channels
    BY DEF Claims, OnFile
  <2>5. \A f : f = x.file => c \in Claims(j, f)' /\ c \notin Claims(j, f)
    BY <1>1, <2>1 DEF Claims, OnFile
  <2>6. \A f : \A k \in Jobs : k # j \/ f # x.file => Claims(k, f)' = Claims(k, f)
    <3> SUFFICES ASSUME NEW k \in Jobs, NEW f, k # j \/ f # x.file, NEW d \in Channels
                 PROVE  d \in Claims(k, f)' <=> d \in Claims(k, f)
      BY <2>4
    <3>1. CASE k # j \/ d # c
      BY <2>3, <3>1
    <3>2. CASE k = j /\ d = c
      BY <2>2, <3>2
    <3>3. QED
      BY <3>1, <3>2
  <2>7. \A f : f = x.file => Claims(j, f)' = Claims(j, f) \cup {c}
    BY <1>1, <2>3, <2>4, <2>5
  <2>8. QED
    BY <2>5, <2>6, <2>7
<1>5. /\ \A f \in Files, k \in Jobs : fileJobs[f][k] \in Nat
      /\ \A f \in Files, k \in Jobs :
           fileJobs'[f][k] = IF k = j /\ f = x.file THEN fileJobs[f][k] + 1
                             ELSE fileJobs[f][k]
  BY <1>1 DEF Claim, TypeOK
<1>6. \A f \in Files :
        fileExcl'[f] = IF f = x.file /\ x.exclusive THEN j ELSE fileExcl[f]
  BY <1>1, SMTT(30) DEF Claim, TypeOK
<1>7. /\ fileExcl[x.file] \in {NoJob, j}
      /\ x.exclusive => \A k \in Jobs \ {j} : ~(fileJobs[x.file][k] > 0)
  BY DEF Claim, InUse
<1>8. x.exclusive => \A k \in Jobs \ {j} : Claims(k, x.file) = {}
  <2> SUFFICES ASSUME x.exclusive, NEW k \in Jobs \ {j} PROVE Claims(k, x.file) = {}
    OBVIOUS
  <2>1. fileJobs[x.file][k] = 0
    BY <1>1, <1>5, <1>7
  <2>2. fileJobs[x.file][k] >= Cardinality(Claims(k, x.file))
    BY <1>1 DEF ClaimInv, Counted
  <2>3. Cardinality(Claims(k, x.file)) = 0
    BY <2>1, <2>2, ClaimsFinite
  <2>4. QED
    BY <2>3, ClaimsFinite, FS_EmptySet
<1>9. Counted'
  <2> SUFFICES ASSUME NEW k \in Jobs, NEW f \in Files
               PROVE  /\ fileJobs'[f][k] >= Cardinality(Claims(k, f)')
                      /\ k \in Careful => fileJobs'[f][k] = Cardinality(Claims(k, f)')
    BY DEF Counted, Careful
  <2>1. /\ fileJobs[f][k] \in Nat /\ Cardinality(Claims(k, f)) \in Nat
        /\ IsFiniteSet(Claims(k, f))
        /\ fileJobs[f][k] >= Cardinality(Claims(k, f))
        /\ k \in Careful => fileJobs[f][k] = Cardinality(Claims(k, f))
    BY <1>5, ClaimsFinite DEF ClaimInv, Counted
  <2>2. CASE k = j /\ f = x.file
    <3>1. Cardinality(Claims(k, f)') = Cardinality(Claims(k, f)) + 1
      BY <1>4, <2>1, <2>2, FS_AddElement
    <3>2. QED
      BY <1>5, <2>1, <2>2, <3>1
  <2>3. CASE k # j \/ f # x.file
    BY <1>4, <1>5, <2>1, <2>3
  <2>4. QED
    BY <2>2, <2>3
<1>10. ExclusiveSet'
  <2> SUFFICES ASSUME NEW k \in Careful, NEW d \in Channels,
                      files'[k][d].exclusive, files'[k][d].claimed
               PROVE  fileExcl'[files'[k][d].file] = k
    BY DEF ExclusiveSet, Careful
  <2>1. k \in Jobs
    BY DEF Careful
  <2>2. CASE k = j /\ d = c
    BY <1>1, <1>2, <1>3, <1>6, <2>2, ZenonT(60) DEF Changes
  <2>3. CASE k # j \/ d # c
    <3>1. files'[k][d] = files[k][d]
      BY <1>3, <2>1, <2>3 DEF Changes
    <3>2. fileExcl[files[k][d].file] = k
      BY <3>1 DEF ClaimInv, ExclusiveSet
    <3>3. files[k][d].file \in Files
      BY <2>1, <3>1, ClosedTyped, ChannelTyped DEF Tidy, IsOpen, TypeOK
    <3>4. files[k][d].file = x.file /\ x.exclusive => k = j
      BY <1>7, <2>1, <3>2, FileAssumption
    <3>5. QED
      BY <1>6, <3>1, <3>2, <3>3, <3>4
  <2>4. QED
    BY <2>2, <2>3
<1>11. ExclusiveOwned'
  <2> SUFFICES ASSUME NEW k \in Careful, NEW f \in Files, fileExcl'[f] = k
               PROVE  \E d \in Claims(k, f)' : files'[k][d].exclusive
    BY DEF ExclusiveOwned, Careful
  <2>1. k \in Jobs
    BY DEF Careful
  <2>2. CASE f = x.file /\ x.exclusive
    <3>1. k = j
      BY <1>1, <1>6, <2>2
    <3>2. c \in Claims(j, f)' /\ files'[j][c].exclusive
      BY <1>2, <1>3, <1>4, <2>2 DEF Changes
    <3>3. QED
      BY <3>1, <3>2
  <2>3. CASE ~(f = x.file /\ x.exclusive)
    <3>1. PICK d \in Claims(k, f) : files[k][d].exclusive
      BY <1>6, <2>3 DEF ClaimInv, ExclusiveOwned
    <3>2. d \in Channels /\ files[k][d].claimed /\ files[k][d].file = f
      BY <3>1 DEF Claims, OnFile
    <3>3. files'[k][d] = files[k][d]
      BY <1>1, <1>3, <2>1, <3>2 DEF Changes
    <3>4. QED
      BY <3>1, <3>2, <3>3 DEF Claims, OnFile
  <2>4. QED
    BY <2>2, <2>3
<1>12. ExclusiveKept'
  <2> SUFFICES ASSUME NEW k \in Careful, NEW d \in Channels,
                      files'[k][d].exclusive, files'[k][d].claimed,
                      NEW l \in Jobs \ {k}, NEW e \in Channels,
                      files'[l][e].file = files'[k][d].file, files'[l][e].claimed
               PROVE  FALSE
    BY DEF ExclusiveKept, Careful, Claims, OnFile
  <2>1. k \in Jobs
    BY DEF Careful
  <2>2. CASE k = j /\ d = c
    <3>1. files'[k][d] = y /\ files'[l][e] = files[l][e]
      BY <1>3, <2>2 DEF Changes
    <3>2. x.exclusive /\ e \in Claims(l, x.file)
      BY <1>2, <3>1 DEF Claims, OnFile
    <3>3. QED
      BY <1>8, <2>2, <3>2
  <2>3. CASE k # j \/ d # c
    <3>1. files'[k][d] = files[k][d]
      BY <1>3, <2>1, <2>3 DEF Changes
    <3>2. Claims(l, files[k][d].file) = {} /\ fileExcl[files[k][d].file] = k
      BY <3>1 DEF ClaimInv, ExclusiveKept, ExclusiveSet
    <3>3. CASE l = j /\ e = c
      <4>1. files[k][d].file = x.file
        BY <1>2, <1>3, <3>1, <3>3 DEF Changes
      <4>2. QED
        BY <1>7, <2>1, <3>2, <3>3, <4>1, FileAssumption
    <3>4. CASE l # j \/ e # c
      <4>1. files'[l][e] = files[l][e]
        BY <1>3, <3>4 DEF Changes
      <4>2. QED
        BY <3>1, <3>2, <4>1 DEF Claims, OnFile
    <3>5. QED
      BY <3>3, <3>4
  <2>4. QED
    BY <2>2, <2>3
<1>13. QED
  BY <1>9, <1>10, <1>11, <1>12 DEF ClaimInv

-----------------------------------------------------------------------------
(* Record locks.                                                           *)

LEMMA KeepRecords ==
  ASSUME LockInv, UNCHANGED locks,
         \A k \in Careful, d \in Channels :
           /\ files'[k][d].lockedRec = files[k][d].lockedRec
           /\ files[k][d].lockedRec # NoRecord => files'[k][d].file = files[k][d].file
  PROVE  LockInv'
<1>1. RecordHeld'
  BY DEF LockInv, RecordHeld, Careful
<1>2. RecordFreed'
  <2> SUFFICES ASSUME NEW k \in Careful, NEW f \in Files, NEW r \in Records,
                      locks[f][r] = k
               PROVE  \E d \in Channels : files'[k][d].file = f
                                             /\ files'[k][d].lockedRec = r
    BY DEF RecordFreed, Careful, OnFile
  <2>1. PICK d \in Channels : files[k][d].file = f /\ files[k][d].lockedRec = r
    BY DEF LockInv, RecordFreed, OnFile
  <2>2. r # NoRecord
    BY FileAssumption
  <2>3. QED
    BY <2>1, <2>2
<1>3. QED
  BY <1>1, <1>2 DEF LockInv

(* unlockChan. *)
LEMMA GiveBack ==
  ASSUME TypeOK, Tidy, OneChannel, LockInv, NEW j \in Jobs, NEW c \in Channels,
         IsOpen(j, c), locks' = Unlocked(j, files[j][c]),
         Changes(j, c, [files[j][c] EXCEPT !.lockedRec = NoRecord])
  PROVE  LockInv'
<1> DEFINE x == files[j][c]
<1>1. x \in Channel /\ x.file \in Files
  BY ChannelTyped DEF TypeOK, IsOpen
<1>2. \A f \in Files, r \in Records :
        locks'[f][r] = IF f = x.file /\ r = x.lockedRec /\ locks[f][r] = j
                       THEN NoJob ELSE locks[f][r]
  BY <1>1, UnlockedTyped
<1>3. /\ files'[j][c].file = x.file /\ files'[j][c].lockedRec = NoRecord
      /\ \A k \in Jobs, d \in Channels : k # j \/ d # c => files'[k][d] = files[k][d]
  BY <1>1, WithRecord DEF Changes
<1>4. RecordHeld'
  <2> SUFFICES ASSUME NEW k \in Careful, NEW d \in Channels,
                      files'[k][d].lockedRec # NoRecord
               PROVE  locks'[files'[k][d].file][files'[k][d].lockedRec] = k
    BY DEF RecordHeld, Careful
  <2>1. k \in Jobs /\ (k # j \/ d # c) /\ files'[k][d] = files[k][d]
    BY <1>3 DEF Careful
  <2> DEFINE z == files[k][d]
  <2>2. z \in Channel /\ z.lockedRec \in Records /\ locks[z.file][z.lockedRec] = k
    BY <2>1, ChannelTyped DEF TypeOK, LockInv, RecordHeld
  <2>3. z.file \in Files
    BY <2>1, <2>2, ChannelTyped, ClosedTyped DEF Tidy, IsOpen
  <2>4. ~(z.file = x.file /\ k = j)
    BY <2>1 DEF OneChannel, IsOpen
  <2>5. QED
    BY <1>2, <2>1, <2>2, <2>3, <2>4
<1>5. RecordFreed'
  <2> SUFFICES ASSUME NEW k \in Careful, NEW f \in Files, NEW r \in Records,
                      locks'[f][r] = k
               PROVE  \E d \in Channels : files'[k][d].file = f
                                             /\ files'[k][d].lockedRec = r
    BY DEF RecordFreed, Careful, OnFile
  <2>1. k \in Jobs /\ k # NoJob
    BY FileAssumption DEF Careful
  <2>2. locks[f][r] = k /\ ~(f = x.file /\ r = x.lockedRec /\ k = j)
    BY <1>2, <2>1
  <2>3. PICK d \in Channels : files[k][d].file = f /\ files[k][d].lockedRec = r
    BY <2>2 DEF LockInv, RecordFreed, OnFile
  <2>4. k # j \/ d # c
    BY <2>2, <2>3
  <2>5. QED
    BY <1>3, <2>1, <2>3, <2>4
<1>6. QED
  BY <1>4, <1>5 DEF LockInv

(* disk.lockRecord grants a lock. *)
LEMMA LockGranted ==
  ASSUME TypeOK, Tidy, LockInv, NEW j \in Jobs, LockRecord(j)
  PROVE  LockInv'
<1> DEFINE c == at[j].chan
           x == files[j][c]
           q == at[j].rec
<1>1. /\ c \in Channels /\ q \in Records /\ x \in Channel /\ x.file \in Files
      /\ x.lockedRec = NoRecord
  <2>1. c \in Channels /\ q \in Records /\ x \in Channel
    BY DEF TypeOK
  <2>2. pc[j] = "lock"
    BY DEF LockRecord
  <2>3. QED
    BY <2>1, <2>2, ChannelTyped DEF TypeOK, Tidy
<1>2. /\ files'[j][c].file = x.file /\ files'[j][c].lockedRec = q
      /\ \A k \in Jobs, d \in Channels : k # j \/ d # c => files'[k][d] = files[k][d]
  <2>1. files' = [files EXCEPT ![j][c] = [x EXCEPT !.lockedRec = q]]
    BY DEF LockRecord, TypeOK
  <2>2. [x EXCEPT !.lockedRec = q] \in Channel
    BY <1>1, WithRecord
  <2>3. Changes(j, c, [x EXCEPT !.lockedRec = q])
    BY <1>1, <2>1, <2>2, ChangesChannel
  <2>4. QED
    BY <1>1, <2>3, WithRecord DEF Changes
<1>3. /\ locks[x.file][q] \in {NoJob, j}
      /\ locks' = [locks EXCEPT ![x.file][q] = j]
  BY DEF LockRecord, Holder
<1>4. \A f \in Files, r \in Records :
        locks'[f][r] = IF f = x.file /\ r = q THEN j ELSE locks[f][r]
  BY <1>1, <1>3 DEF TypeOK
<1>5. RecordHeld'
  <2> SUFFICES ASSUME NEW k \in Careful, NEW d \in Channels,
                      files'[k][d].lockedRec # NoRecord
               PROVE  locks'[files'[k][d].file][files'[k][d].lockedRec] = k
    BY DEF RecordHeld, Careful
  <2>1. k \in Jobs /\ k # NoJob
    BY FileAssumption DEF Careful
  <2>2. CASE k = j /\ d = c
    BY <1>1, <1>2, <1>4, <2>2, SMTT(30)
  <2>3. CASE k # j \/ d # c
    <3> DEFINE z == files[k][d]
    <3>1. files'[k][d] = z
      BY <1>2, <2>1, <2>3
    <3>2. locks[z.file][z.lockedRec] = k /\ z \in Channel
      BY <2>1, <3>1 DEF LockInv, RecordHeld, TypeOK
    <3>3. z.lockedRec \in Records /\ z.file \in Files
      BY <2>1, <3>1, <3>2, ChannelTyped, ClosedTyped DEF Tidy, IsOpen
    <3>4. QED
      BY <1>3, <1>4, <2>1, <3>1, <3>2, <3>3, ZenonT(60)
  <2>4. QED
    BY <2>2, <2>3
<1>6. RecordFreed'
  <2> SUFFICES ASSUME NEW k \in Careful, NEW f \in Files, NEW r \in Records,
                      locks'[f][r] = k
               PROVE  \E d \in Channels : files'[k][d].file = f
                                             /\ files'[k][d].lockedRec = r
    BY DEF RecordFreed, Careful, OnFile
  <2>1. CASE f = x.file /\ r = q
    BY <1>1, <1>2, <1>4, <2>1
  <2>2. CASE ~(f = x.file /\ r = q)
    <3>1. PICK d \in Channels : files[k][d].file = f /\ files[k][d].lockedRec = r
      BY <1>4, <2>2 DEF LockInv, RecordFreed, OnFile
    <3>2. k # j \/ d # c
      BY <1>1, <3>1, FileAssumption
    <3>3. QED
      BY <1>2, <3>1, <3>2 DEF Careful
  <2>3. QED
    BY <2>1, <2>2
<1>7. QED
  BY <1>5, <1>6 DEF LockInv

-----------------------------------------------------------------------------
(* Types, and what a channel has at each place of the program.             *)

Busy == {"claim", "lock", "close", "closeNext"}

LEMMA ChannelStep ==
  ASSUME TypeOK, Tidy, NEW j \in Jobs, NEW c \in Channels, NEW y \in Channel,
         Changes(j, c, y), y.file = NoFile => y = Closed,
         NEW place \in PC, Goto(j, place),
         at' \in [Jobs -> [chan : Channels, rec : Records]],
         \A k \in Jobs \ {j} : at'[k] = at[k],
         place \in Busy =>
           at'[j].chan = c /\ y.file # NoFile /\ y.lockedRec = NoRecord,
         place = "claim" => ~y.claimed,
         locks' \in [Files -> [Records -> Jobs \cup {NoJob}]],
         fileExcl' \in [Files -> Jobs \cup {NoJob}],
         fileJobs' \in [Files -> [Jobs -> Nat]]
  PROVE  TypeOK' /\ Tidy'
<1>1. pc' \in [Jobs -> PC] /\ pc'[j] = place /\ \A k \in Jobs \ {j} : pc'[k] = pc[k]
  BY DEF Goto, TypeOK
<1>2. /\ files' \in [Jobs -> [Channels -> Channel]] /\ files'[j][c] = y
      /\ \A k \in Jobs, d \in Channels : k # j \/ d # c => files'[k][d] = files[k][d]
  BY DEF Changes
<1>3. \A k \in Jobs : at[k].chan \in Channels
  BY DEF TypeOK
<1>4. TypeOK'
  <2>1. \A k \in Jobs : pc'[k] \in Busy => files'[k][at'[k].chan].file # NoFile
    <3> SUFFICES ASSUME NEW k \in Jobs, pc'[k] \in Busy
                 PROVE  files'[k][at'[k].chan].file # NoFile
      OBVIOUS
    <3>1. CASE k = j
      BY <1>1, <1>2, <3>1
    <3>2. CASE k # j
      BY <1>1, <1>2, <1>3, <3>2 DEF TypeOK, Busy
    <3>3. QED
      BY <3>1, <3>2
  <2>2. QED
    BY <1>1, <1>2, <2>1 DEF TypeOK, Busy
<1>5. Tidy'
  <2> SUFFICES ASSUME NEW k \in Jobs
               PROVE  /\ \A d \in Channels : files'[k][d].file = NoFile => files'[k][d] = Closed
                      /\ pc'[k] = "claim" => ~files'[k][at'[k].chan].claimed
                      /\ pc'[k] \in Busy => files'[k][at'[k].chan].lockedRec = NoRecord
    BY DEF Tidy, IsOpen, Busy
  <2>1. CASE k = j
    BY <1>1, <1>2, <2>1, ZenonT(60) DEF Tidy, IsOpen, Busy
  <2>2. CASE k # j
    <3>1. /\ pc'[k] = pc[k] /\ at'[k].chan = at[k].chan
          /\ \A d \in Channels : files'[k][d] = files[k][d]
      BY <1>1, <1>2, <2>2
    <3>2. files'[k][at[k].chan] = files[k][at[k].chan]
      BY <1>3, <3>1
    <3>3. /\ \A d \in Channels : files[k][d].file = NoFile => files[k][d] = Closed
          /\ pc[k] = "claim" => ~files[k][at[k].chan].claimed
          /\ pc[k] \in Busy => files[k][at[k].chan].lockedRec = NoRecord
      BY DEF Tidy, IsOpen, Busy
    <3>4. QED
      BY <3>1, <3>2, <3>3
  <2>3. QED
    BY <2>1, <2>2
<1>6. QED
  BY <1>4, <1>5

(* A step that only moves the program on. *)
LEMMA MoveStep ==
  ASSUME IInv, NEW j \in Jobs, NEW place \in {"ready", "closeAll"}, Goto(j, place),
         UNCHANGED <<files, tables, at>>
  PROVE  IInv'
<1>1. pc' \in [Jobs -> PC] /\ pc'[j] = place /\ \A k \in Jobs \ {j} : pc'[k] = pc[k]
  BY DEF Goto, IInv, TypeOK, PC
<1>2. TypeOK' /\ Tidy'
  BY <1>1 DEF IInv, TypeOK, Tidy, IsOpen, tables
<1>3. OneChannel'
  BY DEF IInv, OneChannel, IsOpen, Careful
<1>4. LockInv'
  BY DEF IInv, LockInv, RecordHeld, RecordFreed, OnFile, Careful, tables
<1>5. ClaimInv'
  BY KeepClaims DEF IInv, tables
<1>6. QED
  BY <1>2, <1>3, <1>4, <1>5 DEF IInv

-----------------------------------------------------------------------------
(* The steps.                                                              *)

(* The file of the changed channel is the one it had, or none. *)
LEMMA SameFile ==
  ASSUME OneChannel, NEW j \in Jobs, NEW c \in Channels, NEW y,
         Changes(j, c, y), y.file \in {files[j][c].file, NoFile}
  PROVE  OneChannel'
BY DEF OneChannel, Changes, IsOpen, Careful

LEMMA OpenStep ==
  ASSUME IInv, NEW j \in Jobs, NEW c \in Channels, NEW f \in Files,
         NEW exclusive \in BOOLEAN, NEW wait \in BOOLEAN,
         OpenDiskFile(j, c, f, exclusive, wait)
  PROVE  IInv'
<1> DEFINE y == [Closed EXCEPT !.file = f, !.exclusive = exclusive, !.wait = wait]
           x == files[j][c]
<1>1. /\ y \in Channel /\ y.file = f /\ y.exclusive = exclusive
      /\ ~y.claimed /\ y.lockedRec = NoRecord /\ f # NoFile
  BY FileAssumption DEF Channel, Closed
<1>2. Changes(j, c, y)
  BY <1>1, ChangesChannel DEF OpenDiskFile, IInv
<1>3. x \in Channel /\ (x.claimed => x.file \in Files)
  BY ChannelTyped, ClosedTyped DEF IInv, TypeOK, Tidy, IsOpen
<1>4. TypeOK' /\ Tidy'
  <2>1. /\ at' \in [Jobs -> [chan : Channels, rec : Records]] /\ at'[j].chan = c
        /\ \A k \in Jobs \ {j} : at'[k] = at[k]
    BY DEF OpenDiskFile, IInv, TypeOK
  <2>2. /\ fileJobs' \in [Files -> [Jobs -> Nat]]
        /\ fileExcl' \in [Files -> Jobs \cup {NoJob}]
        /\ locks' \in [Files -> [Records -> Jobs \cup {NoJob}]]
    BY <1>3, ReleaseTyped DEF OpenDiskFile, IInv, TypeOK
  <2>3. Goto(j, "claim") /\ "claim" \in PC
    BY DEF OpenDiskFile, PC
  <2>4. QED
    BY <1>1, <1>2, <2>1, <2>2, <2>3, ChannelStep DEF IInv
<1>5. j \in Careful => \A d \in Channels : ~IsOpen(j, d) \/ (d # c /\ files[j][d].file # f)
  BY DEF OpenDiskFile, Careful
<1>6. OneChannel'
  <2> SUFFICES ASSUME NEW k \in Careful, NEW d \in Channels, NEW e \in Channels,
                      files'[k][d].file # NoFile, files'[k][d].file = files'[k][e].file
               PROVE  d = e
    BY DEF OneChannel, IsOpen, Careful
  <2>1. CASE k = j
    <3>1. files'[j][c].file = f /\ \A g \in Channels \ {c} : files'[j][g] = files[j][g]
      BY <1>1, <1>2 DEF Changes
    <3>2. \A g \in Channels \ {c} : files[j][g].file # f
      BY <1>1, <1>5, <2>1 DEF IsOpen
    <3>3. CASE d = c \/ e = c
      BY <2>1, <3>1, <3>2, <3>3
    <3>4. CASE d # c /\ e # c
      BY <2>1, <3>1, <3>4 DEF IInv, OneChannel, IsOpen
    <3>5. QED
      BY <3>3, <3>4
  <2>2. CASE k # j
    BY <1>2, <2>2 DEF IInv, OneChannel, IsOpen, Changes, Careful
  <2>3. QED
    BY <2>1, <2>2
<1>7. LockInv'
  <2>1. j \in Careful => x.lockedRec = NoRecord
    BY <1>5, ClosedTyped DEF IInv, Tidy, Careful
  <2>2. UNCHANGED locks
    BY DEF OpenDiskFile
  <2>3. \A k \in Careful, d \in Channels :
          /\ files'[k][d].lockedRec = files[k][d].lockedRec
          /\ files[k][d].lockedRec # NoRecord => files'[k][d].file = files[k][d].file
    BY <1>1, <1>2, <2>1 DEF Changes, Careful
  <2>4. QED
    BY <2>2, <2>3, KeepRecords DEF IInv
<1>8. ClaimInv'
  BY <1>1, <1>2, DropClaims DEF OpenDiskFile, IInv
<1>9. QED
  BY <1>4, <1>6, <1>7, <1>8 DEF IInv

LEMMA DeviceStep ==
  ASSUME IInv, NEW j \in Jobs, NEW c \in Channels, OpenDevice(j, c)
  PROVE  IInv'
<1>1. Changes(j, c, Closed)
  BY ClosedTyped, ChangesChannel DEF OpenDevice, IInv
<1>2. j \notin Careful /\ UNCHANGED <<locks, fileExcl, fileJobs, at, pc>>
      /\ pc[j] = "ready"
  BY DEF OpenDevice, Careful, tables
<1>3. TypeOK' /\ Tidy'
  <2>1. Goto(j, "ready") /\ "ready" \in PC /\ "ready" \notin Busy
    BY <1>2 DEF Goto, IInv, TypeOK, PC, Busy
  <2>2. /\ at' \in [Jobs -> [chan : Channels, rec : Records]]
        /\ locks' \in [Files -> [Records -> Jobs \cup {NoJob}]]
        /\ fileExcl' \in [Files -> Jobs \cup {NoJob}]
        /\ fileJobs' \in [Files -> [Jobs -> Nat]]
    BY <1>2 DEF IInv, TypeOK
  <2>3. QED
    BY <1>1, <1>2, <2>1, <2>2, ChannelStep, ClosedTyped DEF IInv
<1>4. OneChannel'
  BY <1>1, ClosedTyped, SameFile DEF IInv
<1>5. LockInv'
  <2>1. \A k \in Careful, d \in Channels : files'[k][d] = files[k][d]
    BY <1>1, <1>2 DEF Changes, Careful
  <2>2. QED
    BY <1>2, <2>1, KeepRecords DEF IInv
<1>6. ClaimInv'
  BY <1>1, <1>2, ClosedTyped, DropClaims DEF IInv
<1>7. QED
  BY <1>3, <1>4, <1>5, <1>6 DEF IInv

LEMMA ClaimStep ==
  ASSUME IInv, NEW j \in Jobs, Claim(j)
  PROVE  IInv'
<1> DEFINE c == at[j].chan
           x == files[j][c]
           y == [x EXCEPT !.claimed = TRUE]
<1>1. c \in Channels /\ x \in Channel /\ x.file \in Files
  BY ChannelTyped DEF IInv, TypeOK, Claim
<1>2. y \in Channel /\ y.file = x.file /\ y.lockedRec = x.lockedRec
  BY <1>1, WithClaim
<1>3. Changes(j, c, y)
  <2>1. files' = [files EXCEPT ![j][c] = y]
    BY DEF Claim, IInv, TypeOK
  <2>2. QED
    BY <1>1, <1>2, <2>1, ChangesChannel DEF IInv
<1>4. TypeOK' /\ Tidy'
  <2>1. /\ Goto(j, "ready") /\ "ready" \in PC \ Busy /\ UNCHANGED <<locks, at>>
    BY DEF Claim, PC, Busy
  <2>2. /\ fileExcl' \in [Files -> Jobs \cup {NoJob}]
        /\ fileJobs' \in [Files -> [Jobs -> Nat]]
    BY <1>1 DEF Claim, IInv, TypeOK
  <2>3. y.file # NoFile
    BY <1>1, <1>2, FileAssumption
  <2>4. /\ at' \in [Jobs -> [chan : Channels, rec : Records]]
        /\ locks' \in [Files -> [Records -> Jobs \cup {NoJob}]]
        /\ \A k \in Jobs \ {j} : at'[k] = at[k]
    BY <2>1 DEF IInv, TypeOK
  <2>5. QED
    BY <1>1, <1>2, <1>3, <2>1, <2>2, <2>3, <2>4, ChannelStep DEF IInv
<1>5. OneChannel'
  BY <1>1, <1>2, <1>3, SameFile DEF IInv
<1>6. LockInv'
  <2>1. UNCHANGED locks
    BY DEF Claim
  <2>2. \A k \in Careful, d \in Channels :
          /\ files'[k][d].lockedRec = files[k][d].lockedRec
          /\ files'[k][d].file = files[k][d].file
    BY <1>2, <1>3 DEF Changes, Careful
  <2>3. QED
    BY <2>1, <2>2, KeepRecords DEF IInv
<1>7. ClaimInv'
  BY ClaimGranted DEF IInv
<1>8. QED
  BY <1>4, <1>5, <1>6, <1>7 DEF IInv

(* Access, Unlock and the first half of a close. *)
LEMMA GiveBackStep ==
  ASSUME IInv, NEW j \in Jobs, NEW c \in Channels, NEW place \in PC, Goto(j, place),
         IsOpen(j, c), locks' = Unlocked(j, files[j][c]),
         files' = [files EXCEPT ![j][c].lockedRec = NoRecord],
         at' \in [Jobs -> [chan : Channels, rec : Records]],
         \A k \in Jobs \ {j} : at'[k] = at[k],
         place \in Busy => at'[j].chan = c /\ place # "claim",
         UNCHANGED <<fileExcl, fileJobs>>
  PROVE  IInv'
<1> DEFINE x == files[j][c]
           y == [x EXCEPT !.lockedRec = NoRecord]
<1>1. x \in Channel /\ x.file \in Files
  BY ChannelTyped DEF IInv, TypeOK, IsOpen
<1>2. /\ y \in Channel /\ y.file = x.file /\ y.exclusive = x.exclusive
      /\ y.claimed = x.claimed /\ y.lockedRec = NoRecord
  BY <1>1, WithRecord
<1>3. Changes(j, c, y)
  <2>1. files' = [files EXCEPT ![j][c] = y]
    BY DEF IInv, TypeOK
  <2>2. QED
    BY <1>2, <2>1, ChangesChannel DEF IInv
<1>4. TypeOK' /\ Tidy'
  <2>1. locks' \in [Files -> [Records -> Jobs \cup {NoJob}]]
    BY <1>1, UnlockedTyped DEF IInv
  <2>2. y.file # NoFile
    BY <1>1, <1>2, FileAssumption
  <2>3. /\ fileExcl' \in [Files -> Jobs \cup {NoJob}]
        /\ fileJobs' \in [Files -> [Jobs -> Nat]]
    BY DEF IInv, TypeOK
  <2>4. place = "claim" => FALSE
    BY DEF Busy
  <2>5. QED
    BY <1>2, <1>3, <2>1, <2>2, <2>3, <2>4, ChannelStep DEF IInv
<1>5. OneChannel'
  BY <1>2, <1>3, SameFile DEF IInv
<1>6. LockInv'
  BY <1>3, GiveBack DEF IInv
<1>7. ClaimInv'
  <2>1. \A k \in Jobs, d \in Channels :
          /\ files'[k][d].file = files[k][d].file
          /\ files'[k][d].exclusive = files[k][d].exclusive
          /\ files'[k][d].claimed = files[k][d].claimed
    BY <1>2, <1>3 DEF Changes
  <2>2. QED
    BY <2>1, KeepClaims DEF IInv
<1>8. QED
  BY <1>4, <1>5, <1>6, <1>7 DEF IInv

LEMMA LockStep ==
  ASSUME IInv, NEW j \in Jobs, LockRecord(j)
  PROVE  IInv'
<1> DEFINE c == at[j].chan
           x == files[j][c]
           y == [x EXCEPT !.lockedRec = at[j].rec]
<1>1. c \in Channels /\ at[j].rec \in Records /\ x \in Channel /\ x.file \in Files
  BY ChannelTyped DEF IInv, TypeOK, LockRecord
<1>2. /\ y \in Channel /\ y.file = x.file /\ y.exclusive = x.exclusive
      /\ y.claimed = x.claimed
  BY <1>1, WithRecord
<1>3. Changes(j, c, y)
  <2>1. files' = [files EXCEPT ![j][c] = y]
    BY DEF LockRecord, IInv, TypeOK
  <2>2. QED
    BY <1>1, <1>2, <2>1, ChangesChannel DEF IInv
<1>4. TypeOK' /\ Tidy'
  <2>1. /\ Goto(j, "ready") /\ "ready" \in PC \ Busy
        /\ UNCHANGED <<fileExcl, fileJobs, at>>
    BY DEF LockRecord, PC, Busy
  <2>2. locks' \in [Files -> [Records -> Jobs \cup {NoJob}]]
    BY <1>1 DEF LockRecord, IInv, TypeOK
  <2>3. y.file # NoFile
    BY <1>1, <1>2, FileAssumption
  <2>4. /\ at' \in [Jobs -> [chan : Channels, rec : Records]]
        /\ \A k \in Jobs \ {j} : at'[k] = at[k]
        /\ fileExcl' \in [Files -> Jobs \cup {NoJob}]
        /\ fileJobs' \in [Files -> [Jobs -> Nat]]
    BY <2>1 DEF IInv, TypeOK
  <2>5. QED
    BY <1>1, <1>2, <1>3, <2>1, <2>2, <2>3, <2>4, ChannelStep DEF IInv
<1>5. OneChannel'
  BY <1>1, <1>2, <1>3, SameFile DEF IInv
<1>6. LockInv'
  BY LockGranted DEF IInv
<1>7. ClaimInv'
  <2>1. \A k \in Jobs, d \in Channels :
          /\ files'[k][d].file = files[k][d].file
          /\ files'[k][d].exclusive = files[k][d].exclusive
          /\ files'[k][d].claimed = files[k][d].claimed
    BY <1>2, <1>3 DEF Changes
  <2>2. UNCHANGED <<fileExcl, fileJobs>>
    BY DEF LockRecord
  <2>3. QED
    BY <2>1, <2>2, KeepClaims DEF IInv
<1>8. QED
  BY <1>4, <1>5, <1>6, <1>7 DEF IInv

LEMMA CloseStep ==
  ASSUME IInv, NEW j \in Jobs, CloseChanFile(j)
  PROVE  IInv'
<1> DEFINE c == at[j].chan
           x == files[j][c]
           place == IF pc[j] = "close" THEN "ready" ELSE "closeAll"
<1>1. /\ c \in Channels /\ x \in Channel /\ x.file \in Files
      /\ x.lockedRec = NoRecord
  BY ChannelTyped DEF IInv, TypeOK, Tidy, CloseChanFile
<1>2. Changes(j, c, Closed)
  BY <1>1, ClosedTyped, ChangesChannel DEF CloseChanFile, IInv
<1>3. TypeOK' /\ Tidy'
  <2>1. /\ Goto(j, place) /\ place \in PC \ Busy /\ UNCHANGED <<locks, at>>
    BY DEF CloseChanFile, PC, Busy
  <2>2. /\ fileJobs' \in [Files -> [Jobs -> Nat]]
        /\ fileExcl' \in [Files -> Jobs \cup {NoJob}]
    BY <1>1, ReleaseTyped DEF CloseChanFile, IInv
  <2>3. /\ at' \in [Jobs -> [chan : Channels, rec : Records]]
        /\ \A k \in Jobs \ {j} : at'[k] = at[k]
        /\ locks' \in [Files -> [Records -> Jobs \cup {NoJob}]]
    BY <2>1 DEF IInv, TypeOK
  <2>4. QED
    BY <1>1, <1>2, <2>1, <2>2, <2>3, ClosedTyped, ChannelStep DEF IInv
<1>4. OneChannel'
  BY <1>1, <1>2, ClosedTyped, SameFile DEF IInv
<1>5. LockInv'
  <2>1. UNCHANGED locks
    BY DEF CloseChanFile
  <2>2. \A k \in Careful, d \in Channels :
          /\ files'[k][d].lockedRec = files[k][d].lockedRec
          /\ files[k][d].lockedRec # NoRecord => files'[k][d].file = files[k][d].file
    BY <1>1, <1>2, ClosedTyped DEF Changes, Careful
  <2>3. QED
    BY <2>1, <2>2, KeepRecords DEF IInv
<1>6. ClaimInv'
  BY <1>1, <1>2, ClosedTyped, DropClaims DEF CloseChanFile, IInv
<1>7. QED
  BY <1>3, <1>4, <1>5, <1>6 DEF IInv

-----------------------------------------------------------------------------
(* Every step keeps the invariant.                                         *)

LEMMA StepKeeps ==
  ASSUME IInv, Next
  PROVE  IInv'
<1> PICK j \in Jobs :
      \/ \E c \in Channels :
           \/ \E f \in Files, exclusive, wait \in BOOLEAN :
                OpenDiskFile(j, c, f, exclusive, wait)
           \/ OpenDevice(j, c)
           \/ \E r \in Records : Access(j, c, r)
           \/ Unlock(j, c) \/ CloseUnlock(j, c)
      \/ Claim(j) \/ ClaimRefused(j)
      \/ LockRecord(j) \/ Interlocked(j) \/ Interrupt(j)
      \/ CloseChanFile(j) \/ CloseAllFiles(j) \/ AllClosed(j)
  BY DEF Next
<1>1. ASSUME NEW c \in Channels, NEW f \in Files,
             NEW exclusive \in BOOLEAN, NEW wait \in BOOLEAN,
             OpenDiskFile(j, c, f, exclusive, wait)
      PROVE  IInv'
  BY <1>1, OpenStep
<1>2. ASSUME NEW c \in Channels, OpenDevice(j, c)
      PROVE  IInv'
  BY <1>2, DeviceStep
<1>3. ASSUME NEW c \in Channels, NEW r \in Records, Access(j, c, r)
      PROVE  IInv'
  <2>1. /\ Goto(j, "lock") /\ "lock" \in PC /\ IsOpen(j, c)
        /\ locks' = Unlocked(j, files[j][c])
        /\ files' = [files EXCEPT ![j][c].lockedRec = NoRecord]
        /\ UNCHANGED <<fileExcl, fileJobs>>
    BY <1>3 DEF Access, PC
  <2>2. /\ at' \in [Jobs -> [chan : Channels, rec : Records]]
        /\ at'[j].chan = c /\ \A k \in Jobs \ {j} : at'[k] = at[k]
    BY <1>3 DEF Access, IInv, TypeOK
  <2>3. QED
    BY <2>1, <2>2, GiveBackStep
<1>4. ASSUME NEW c \in Channels, Unlock(j, c)
      PROVE  IInv'
  <2>1. /\ IsOpen(j, c) /\ locks' = Unlocked(j, files[j][c])
        /\ files' = [files EXCEPT ![j][c].lockedRec = NoRecord]
        /\ UNCHANGED <<fileExcl, fileJobs, at>>
    BY <1>4 DEF Unlock
  <2>2. Goto(j, "ready") /\ "ready" \in PC \ Busy
    BY <1>4 DEF Unlock, Goto, IInv, TypeOK, PC, Busy
  <2>3. /\ at' \in [Jobs -> [chan : Channels, rec : Records]]
        /\ \A k \in Jobs \ {j} : at'[k] = at[k]
    BY <2>1 DEF IInv, TypeOK
  <2>4. QED
    BY <2>1, <2>2, <2>3, GiveBackStep
<1>5. ASSUME NEW c \in Channels, CloseUnlock(j, c)
      PROVE  IInv'
  <2>1. /\ IsOpen(j, c) /\ locks' = Unlocked(j, files[j][c])
        /\ files' = [files EXCEPT ![j][c].lockedRec = NoRecord]
        /\ UNCHANGED <<fileExcl, fileJobs>>
    BY <1>5 DEF CloseUnlock
  <2>2. /\ at' \in [Jobs -> [chan : Channels, rec : Records]]
        /\ at'[j].chan = c /\ \A k \in Jobs \ {j} : at'[k] = at[k]
    BY <1>5 DEF CloseUnlock, IInv, TypeOK
  <2>3. PICK place \in {"close", "closeNext"} : Goto(j, place)
    BY <1>5 DEF CloseUnlock
  <2>4. place \in PC /\ place # "claim"
    BY DEF PC
  <2>5. QED
    BY <2>1, <2>2, <2>3, <2>4, GiveBackStep
<1>6. CASE \/ ClaimRefused(j) \/ Interlocked(j) \/ Interrupt(j)
           \/ CloseAllFiles(j) \/ AllClosed(j)
  <2>1. UNCHANGED <<files, tables, at>>
    BY <1>6 DEF ClaimRefused, Interlocked, Interrupt, CloseAllFiles, AllClosed
  <2>2. PICK place \in {"ready", "closeAll"} : Goto(j, place)
    BY <1>6 DEF ClaimRefused, Interlocked, Interrupt, CloseAllFiles, AllClosed
  <2>3. QED
    BY <2>1, <2>2, MoveStep
<1>7. CASE Claim(j)
  BY <1>7, ClaimStep
<1>8. CASE LockRecord(j)
  BY <1>8, LockStep
<1>9. CASE CloseChanFile(j)
  BY <1>9, CloseStep
<1>10. QED
  BY <1>1, <1>2, <1>3, <1>4, <1>5, <1>6, <1>7, <1>8, <1>9

LEMMA StutterKeeps ==
  ASSUME IInv, UNCHANGED vars
  PROVE  IInv'
<1> USE DEF vars, tables
<1>1. TypeOK' /\ Tidy' /\ OneChannel'
  BY DEF IInv, TypeOK, Tidy, OneChannel, IsOpen, Careful
<1>2. LockInv'
  BY DEF IInv, LockInv, RecordHeld, RecordFreed, OnFile, Careful
<1>3. ClaimInv'
  BY KeepClaims DEF IInv
<1>4. QED
  BY <1>1, <1>2, <1>3 DEF IInv

LEMMA InitKeeps == Init => IInv
<1> SUFFICES ASSUME Init PROVE IInv
  OBVIOUS
<1>1. TypeOK
  BY InitTyped
<1>2. \A j \in Jobs, c \in Channels : files[j][c] = Closed
  BY DEF Init
<1>3. Tidy /\ OneChannel
  BY <1>2, ClosedTyped DEF Init, Tidy, OneChannel, IsOpen, Careful
<1>4. LockInv
  BY <1>2, ClosedTyped, FileAssumption
     DEF Init, LockInv, RecordHeld, RecordFreed, OnFile, Careful
<1>5. ClaimInv
  <2>1. \A j \in Jobs, f \in Files : Claims(j, f) = {}
    BY <1>2, ClosedTyped DEF Claims, OnFile
  <2>2. Cardinality({}) = 0
    BY FS_EmptySet
  <2>3. Counted
    <3> SUFFICES ASSUME NEW j \in Jobs, NEW f \in Files
                 PROVE  /\ fileJobs[f][j] >= Cardinality(Claims(j, f))
                        /\ j \in Careful => fileJobs[f][j] = Cardinality(Claims(j, f))
      BY DEF Counted
    <3>1. fileJobs[f][j] = 0
      BY DEF Init
    <3>2. Cardinality(Claims(j, f)) = 0
      BY <2>1, <2>2
    <3>3. QED
      BY <3>1, <3>2
  <2>4. ExclusiveSet /\ ExclusiveKept
    BY <1>2, ClosedTyped DEF ExclusiveSet, ExclusiveKept, Careful
  <2>5. ExclusiveOwned
    BY FileAssumption DEF Init, ExclusiveOwned, Careful
  <2>6. QED
    BY <2>3, <2>4, <2>5 DEF ClaimInv
<1>6. QED
  BY <1>1, <1>3, <1>4, <1>5 DEF IInv

LEMMA Inductive == Spec => []IInv
<1>1. IInv /\ [Next]_vars => IInv'
  BY StepKeeps, StutterKeeps
<1>2. QED
  BY <1>1, InitKeeps, PTL DEF Spec

-----------------------------------------------------------------------------
(* The tables and the channels stay well typed, and a program that is      *)
(* about to claim, lock or close is so for a channel that is open.         *)
THEOREM TypeCorrect == Spec => []TypeOK
<1>1. IInv => TypeOK
  BY DEF IInv
<1>2. QED
  BY <1>1, Inductive, PTL

(* The record that a channel of a careful job has locked is its own until  *)
(* the channel gives it back, whatever the other jobs do.                  *)
THEOREM RecordsHeld == Spec => []RecordHeld
<1>1. IInv => RecordHeld
  BY DEF IInv, LockInv
<1>2. QED
  BY <1>1, Inductive, PTL

(* No record stays locked by a careful job once the channel that locked it *)
(* has moved on, was unlocked or closed.                                   *)
THEOREM RecordsFreed == Spec => []RecordFreed
<1>1. IInv => RecordFreed
  BY DEF IInv, LockInv
<1>2. QED
  BY <1>1, Inductive, PTL

(* No job claims a file while a careful job has claimed it exclusively.    *)
THEOREM ExclusiveClaims == Spec => []ExclusiveKept
<1>1. IInv => ExclusiveKept
  BY DEF IInv, ClaimInv
<1>2. QED
  BY <1>1, Inductive, PTL

(* The claims in the tables of the disk are those of the channels: closing *)
(* gives back exactly what opening took.                                   *)
THEOREM ClaimsGivenBack == Spec => []ClaimsFreed
<1>1. IInv => ClaimsFreed
  BY DEF IInv, ClaimInv, Counted, ExclusiveOwned, ClaimsFreed, Careful
<1>2. QED
  BY <1>1, Inductive, PTL

-----------------------------------------------------------------------------
(* What the channels say a job has, and what becomes of it.                *)

ClaimOf(k, x) == [job |-> k, file |-> x.file, exclusive |-> x.exclusive]
RecordOf(k, x) == [job |-> k, file |-> x.file, rec |-> x.lockedRec]
ClaimSet(fs) ==
  {[job |-> p[1], file |-> fs[p[1]][p[2]].file, exclusive |-> fs[p[1]][p[2]].exclusive] :
     p \in {q \in AllChannels : fs[q[1]][q[2]].claimed}}
RecordSet(fs) ==
  {[job |-> p[1], file |-> fs[p[1]][p[2]].file, rec |-> fs[p[1]][p[2]].lockedRec] :
     p \in {q \in AllChannels : fs[q[1]][q[2]].lockedRec # NoRecord}}

LEMMA InClaimSet ==
  ASSUME NEW fs, NEW t
  PROVE  t \in ClaimSet(fs) <=>
           \E k \in Jobs, d \in Channels : fs[k][d].claimed /\ t = ClaimOf(k, fs[k][d])
<1>1. ASSUME t \in ClaimSet(fs)
      PROVE  \E k \in Jobs, d \in Channels : fs[k][d].claimed /\ t = ClaimOf(k, fs[k][d])
  <2>1. PICK p \in AllChannels : fs[p[1]][p[2]].claimed /\ t = ClaimOf(p[1], fs[p[1]][p[2]])
    BY <1>1 DEF ClaimSet, ClaimOf
  <2>2. p[1] \in Jobs /\ p[2] \in Channels
    BY DEF AllChannels
  <2> QED
    BY <2>1, <2>2
<1>2. ASSUME NEW k \in Jobs, NEW d \in Channels, fs[k][d].claimed, t = ClaimOf(k, fs[k][d])
      PROVE  t \in ClaimSet(fs)
  <2>1. <<k, d>> \in {q \in AllChannels : fs[q[1]][q[2]].claimed}
    BY <1>2 DEF AllChannels
  <2> QED
    BY <1>2, <2>1 DEF ClaimSet, ClaimOf
<1> QED
  BY <1>1, <1>2

LEMMA InRecordSet ==
  ASSUME NEW fs, NEW t
  PROVE  t \in RecordSet(fs) <=>
           \E k \in Jobs, d \in Channels :
             fs[k][d].lockedRec # NoRecord /\ t = RecordOf(k, fs[k][d])
<1>1. ASSUME t \in RecordSet(fs)
      PROVE  \E k \in Jobs, d \in Channels :
               fs[k][d].lockedRec # NoRecord /\ t = RecordOf(k, fs[k][d])
  <2>1. PICK p \in AllChannels : /\ fs[p[1]][p[2]].lockedRec # NoRecord
                                 /\ t = RecordOf(p[1], fs[p[1]][p[2]])
    BY <1>1 DEF RecordSet, RecordOf
  <2>2. p[1] \in Jobs /\ p[2] \in Channels
    BY DEF AllChannels
  <2> QED
    BY <2>1, <2>2
<1>2. ASSUME NEW k \in Jobs, NEW d \in Channels,
             fs[k][d].lockedRec # NoRecord, t = RecordOf(k, fs[k][d])
      PROVE  t \in RecordSet(fs)
  <2>1. <<k, d>> \in {q \in AllChannels : fs[q[1]][q[2]].lockedRec # NoRecord}
    BY <1>2 DEF AllChannels
  <2> QED
    BY <1>2, <2>1 DEF RecordSet, RecordOf
<1> QED
  BY <1>1, <1>2

LEMMA SetsAre ==
  /\ ClaimsOf = ClaimSet(files) /\ RecordsOf = RecordSet(files)
  /\ ClaimsOf' = ClaimSet(files') /\ RecordsOf' = RecordSet(files')
BY DEF ClaimsOf, RecordsOf, ClaimSet, RecordSet, AllChannels

(* A tuple names its job, its file and what it is. *)
LEMMA TuplesName ==
  ASSUME NEW k, NEW x
  PROVE  /\ ClaimOf(k, x).job = k /\ ClaimOf(k, x).file = x.file
         /\ ClaimOf(k, x).exclusive = x.exclusive
         /\ RecordOf(k, x).job = k /\ RecordOf(k, x).file = x.file
         /\ RecordOf(k, x).rec = x.lockedRec
BY DEF ClaimOf, RecordOf

(* A channel that claims no more than it did: no claim is new, and any      *)
(* that is gone was the job's, of the file the channel had.                 *)
LEMMA LessClaimed ==
  ASSUME NEW j \in Jobs, NEW c \in Channels, NEW y, Changes(j, c, y),
         y.claimed => /\ files[j][c].claimed /\ y.file = files[j][c].file
                      /\ y.exclusive = files[j][c].exclusive
  PROVE  /\ ClaimsOf' \subseteq ClaimsOf
         /\ ClaimsOf \ ClaimsOf' \subseteq Promised!Of(ClaimsOf, j, files[j][c].file)
<1>1. files'[j][c] = y /\ \A k \in Jobs, d \in Channels : k # j \/ d # c => files'[k][d] = files[k][d]
  BY DEF Changes
<1>2. ASSUME NEW t \in ClaimSet(files') PROVE t \in ClaimSet(files)
  <2>1. PICK k \in Jobs, d \in Channels : files'[k][d].claimed /\ t = ClaimOf(k, files'[k][d])
    BY InClaimSet
  <2>2. files[k][d].claimed /\ t = ClaimOf(k, files[k][d])
    <3>1. CASE k = j /\ d = c
      BY <1>1, <2>1, <3>1 DEF ClaimOf
    <3>2. CASE k # j \/ d # c
      BY <1>1, <2>1, <3>2
    <3> QED
      BY <3>1, <3>2
  <2> QED
    BY <2>2, InClaimSet
<1>3. ASSUME NEW t \in ClaimSet(files), t \notin ClaimSet(files')
      PROVE  t.job = j /\ t.file = files[j][c].file
  <2>1. PICK k \in Jobs, d \in Channels : files[k][d].claimed /\ t = ClaimOf(k, files[k][d])
    BY InClaimSet
  <2>2. k = j /\ d = c
    BY <1>1, <1>3, <2>1, InClaimSet
  <2> QED
    BY <2>1, <2>2, TuplesName
<1> QED
  BY <1>2, <1>3, SetsAre DEF Promised!Of

LEMMA LessHeld ==
  ASSUME NEW j \in Jobs, NEW c \in Channels, NEW y, Changes(j, c, y),
         y.lockedRec # NoRecord => /\ files[j][c].lockedRec = y.lockedRec
                                   /\ y.file = files[j][c].file
  PROVE  /\ RecordsOf' \subseteq RecordsOf
         /\ RecordsOf \ RecordsOf' \subseteq Promised!Of(RecordsOf, j, files[j][c].file)
<1>1. files'[j][c] = y /\ \A k \in Jobs, d \in Channels : k # j \/ d # c => files'[k][d] = files[k][d]
  BY DEF Changes
<1>2. ASSUME NEW t \in RecordSet(files') PROVE t \in RecordSet(files)
  <2>1. PICK k \in Jobs, d \in Channels : /\ files'[k][d].lockedRec # NoRecord
                                          /\ t = RecordOf(k, files'[k][d])
    BY InRecordSet
  <2>2. files[k][d].lockedRec # NoRecord /\ t = RecordOf(k, files[k][d])
    <3>1. CASE k = j /\ d = c
      BY <1>1, <2>1, <3>1 DEF RecordOf
    <3>2. CASE k # j \/ d # c
      BY <1>1, <2>1, <3>2
    <3> QED
      BY <3>1, <3>2
  <2> QED
    BY <2>2, InRecordSet
<1>3. ASSUME NEW t \in RecordSet(files), t \notin RecordSet(files')
      PROVE  t.job = j /\ t.file = files[j][c].file
  <2>1. PICK k \in Jobs, d \in Channels : /\ files[k][d].lockedRec # NoRecord
                                          /\ t = RecordOf(k, files[k][d])
    BY InRecordSet
  <2>2. k = j /\ d = c
    BY <1>1, <1>3, <2>1, InRecordSet
  <2> QED
    BY <2>1, <2>2, TuplesName
<1> QED
  BY <1>2, <1>3, SetsAre DEF Promised!Of

(* A careful job that has the channel has no other one on the file.         *)
LEMMA OnlyChannel ==
  ASSUME OneChannel, NEW j \in Careful, NEW c \in Channels, IsOpen(j, c)
  PROVE  /\ \A t \in Promised!Of(ClaimsOf, j, files[j][c].file) :
              files[j][c].claimed /\ t = ClaimOf(j, files[j][c])
         /\ \A t \in Promised!Of(RecordsOf, j, files[j][c].file) :
              files[j][c].lockedRec # NoRecord /\ t = RecordOf(j, files[j][c])
<1>1. ASSUME NEW t \in ClaimSet(files), t.job = j, t.file = files[j][c].file
      PROVE  files[j][c].claimed /\ t = ClaimOf(j, files[j][c])
  <2>1. PICK k \in Jobs, d \in Channels : files[k][d].claimed /\ t = ClaimOf(k, files[k][d])
    BY InClaimSet
  <2>2. k = j /\ files[j][d].file = files[j][c].file
    BY <1>1, <2>1, TuplesName
  <2>3. d = c
    BY <2>2 DEF OneChannel
  <2> QED
    BY <2>1, <2>2, <2>3
<1>2. ASSUME NEW t \in RecordSet(files), t.job = j, t.file = files[j][c].file
      PROVE  files[j][c].lockedRec # NoRecord /\ t = RecordOf(j, files[j][c])
  <2>1. PICK k \in Jobs, d \in Channels : /\ files[k][d].lockedRec # NoRecord
                                          /\ t = RecordOf(k, files[k][d])
    BY InRecordSet
  <2>2. k = j /\ files[j][d].file = files[j][c].file
    BY <1>2, <2>1, TuplesName
  <2>3. d = c
    BY <2>2 DEF OneChannel
  <2> QED
    BY <2>1, <2>2, <2>3
<1> QED
  BY <1>1, <1>2, SetsAre DEF Promised!Of

(* When the channel gives back what it has, the job has nothing of the file. *)
LEMMA NoneClaimed ==
  ASSUME OneChannel, NEW j \in Careful, NEW c \in Channels, IsOpen(j, c),
         NEW y, Changes(j, c, y), ~y.claimed
  PROVE  \A t \in ClaimsOf' : t \notin Promised!Of(ClaimsOf, j, files[j][c].file)
<1>1. files'[j][c] = y /\ \A d \in Channels : d # c => files'[j][d] = files[j][d]
  BY DEF Changes, Careful
<1>2. ASSUME NEW t \in ClaimSet(files'), t.job = j, t.file = files[j][c].file
      PROVE  FALSE
  <2>1. PICK k \in Jobs, d \in Channels : files'[k][d].claimed /\ t = ClaimOf(k, files'[k][d])
    BY InClaimSet
  <2>2. k = j /\ files'[j][d].file = files[j][c].file
    BY <1>2, <2>1, TuplesName
  <2>3. d # c /\ files[j][d].file = files[j][c].file
    BY <1>1, <2>1, <2>2
  <2> QED
    BY <2>3 DEF OneChannel
<1> QED
  BY <1>2, SetsAre DEF Promised!Of

LEMMA NoneHeld ==
  ASSUME OneChannel, NEW j \in Careful, NEW c \in Channels, IsOpen(j, c),
         NEW y, Changes(j, c, y), y.lockedRec = NoRecord
  PROVE  \A t \in RecordsOf' : t \notin Promised!Of(RecordsOf, j, files[j][c].file)
<1>1. files'[j][c] = y /\ \A d \in Channels : d # c => files'[j][d] = files[j][d]
  BY DEF Changes, Careful
<1>2. ASSUME NEW t \in RecordSet(files'), t.job = j, t.file = files[j][c].file
      PROVE  FALSE
  <2>1. PICK k \in Jobs, d \in Channels : /\ files'[k][d].lockedRec # NoRecord
                                          /\ t = RecordOf(k, files'[k][d])
    BY InRecordSet
  <2>2. k = j /\ files'[j][d].file = files[j][c].file
    BY <1>2, <2>1, TuplesName
  <2>3. d # c /\ files[j][d].file = files[j][c].file
    BY <1>1, <2>1, <2>2
  <2> QED
    BY <2>3 DEF OneChannel
<1> QED
  BY <1>2, SetsAre DEF Promised!Of

(* Nobody's file and record but his own: the tables of the disk say what    *)
(* the channels do.                                                         *)
LEMMA OthersClaim ==
  ASSUME IInv, NEW j \in Jobs, NEW f \in Files, NEW t \in Promised!OfOthers(ClaimsOf, j, f)
  PROVE  /\ t.job \in Jobs \ {j} /\ fileJobs[f][t.job] > 0
         /\ t.exclusive /\ t.job \in Careful => fileExcl[f] = t.job
<1>1. PICK k \in Jobs, d \in Channels : files[k][d].claimed /\ t = ClaimOf(k, files[k][d])
  BY SetsAre, InClaimSet DEF Promised!OfOthers
<1>2. t.job = k /\ k # j /\ files[k][d].file = f /\ t.exclusive = files[k][d].exclusive
  BY <1>1, TuplesName DEF Promised!OfOthers
<1>3. Cardinality(Claims(k, f)) > 0
  <2>1. d \in Claims(k, f)
    BY <1>1, <1>2 DEF Claims, OnFile
  <2>2. IsFiniteSet(Claims(k, f)) /\ Cardinality(Claims(k, f)) \in Nat
    BY ClaimsFinite
  <2>3. Cardinality(Claims(k, f)) # 0
    BY <2>1, <2>2, FS_EmptySet
  <2> QED
    BY <2>2, <2>3
<1>4. fileJobs[f][k] > 0
  <2>1. fileJobs[f][k] >= Cardinality(Claims(k, f)) /\ fileJobs[f][k] \in Nat
    BY DEF IInv, ClaimInv, Counted, TypeOK
  <2>2. Cardinality(Claims(k, f)) \in Nat
    BY ClaimsFinite
  <2> QED
    BY <1>3, <2>1, <2>2
<1>5. t.exclusive /\ k \in Careful => fileExcl[f] = k
  BY <1>1, <1>2 DEF IInv, ClaimInv, ExclusiveSet
<1> QED
  BY <1>2, <1>4, <1>5

LEMMA OthersHold ==
  ASSUME IInv, NEW j \in Jobs, NEW f \in Files, NEW t \in Promised!OfOthers(RecordsOf, j, f),
         t.job \in Careful
  PROVE  t.job \in Jobs \ {j} /\ locks[f][t.rec] = t.job
<1>1. PICK k \in Jobs, d \in Channels : /\ files[k][d].lockedRec # NoRecord
                                        /\ t = RecordOf(k, files[k][d])
  BY SetsAre, InRecordSet DEF Promised!OfOthers
<1>2. t.job = k /\ k # j /\ files[k][d].file = f /\ t.rec = files[k][d].lockedRec
  BY <1>1, TuplesName DEF Promised!OfOthers
<1> QED
  BY <1>1, <1>2 DEF IInv, LockInv, RecordHeld

-----------------------------------------------------------------------------
(* Every step is one of Reservations, or shows nothing of it.               *)

(* A careless job has less than it had. *)
LEMMA LoseStep ==
  ASSUME NEW j \in Careless, NEW c \in Channels, NEW y, Changes(j, c, y),
         files[j][c].file \in Files,
         y.claimed => /\ files[j][c].claimed /\ y.file = files[j][c].file
                      /\ y.exclusive = files[j][c].exclusive,
         y.lockedRec # NoRecord => /\ files[j][c].lockedRec = y.lockedRec
                                   /\ y.file = files[j][c].file
  PROVE  Promised!Next
<1>1. j \in Jobs
  BY FileAssumption
<1>2. Promised!Lose(j, files[j][c].file)
  BY <1>1, LessClaimed, LessHeld DEF Promised!Lose, Promised!Careful
<1> QED
  BY <1>1, <1>2 DEF Promised!Next

(* A channel that claimed nothing and does not. *)
LEMMA SameClaims ==
  ASSUME NEW j \in Jobs, NEW c \in Channels, NEW y, Changes(j, c, y),
         y.claimed <=> files[j][c].claimed,
         y.claimed => y.file = files[j][c].file /\ y.exclusive = files[j][c].exclusive
  PROVE  ClaimsOf' = ClaimsOf
<1>1. files'[j][c] = y /\ \A k \in Jobs, d \in Channels : k # j \/ d # c => files'[k][d] = files[k][d]
  BY DEF Changes
<1>2. \A k \in Jobs, d \in Channels :
        /\ files'[k][d].claimed <=> files[k][d].claimed
        /\ files[k][d].claimed => ClaimOf(k, files'[k][d]) = ClaimOf(k, files[k][d])
  <2> TAKE k \in Jobs, d \in Channels
  <2>1. CASE k = j /\ d = c
    BY <1>1, <2>1 DEF ClaimOf
  <2>2. CASE k # j \/ d # c
    BY <1>1, <2>2
  <2> QED
    BY <2>1, <2>2
<1>3. ASSUME NEW t PROVE t \in ClaimSet(files') <=> t \in ClaimSet(files)
  BY <1>2, InClaimSet
<1>4. ClaimSet(files') = ClaimSet(files)
  BY <1>3
<1> QED
  BY <1>4, SetsAre

LEMMA SameRecords ==
  ASSUME NEW j \in Jobs, NEW c \in Channels, NEW y, Changes(j, c, y),
         y.lockedRec = files[j][c].lockedRec,
         y.lockedRec # NoRecord => y.file = files[j][c].file
  PROVE  RecordsOf' = RecordsOf
<1>1. files'[j][c] = y /\ \A k \in Jobs, d \in Channels : k # j \/ d # c => files'[k][d] = files[k][d]
  BY DEF Changes
<1>2. \A k \in Jobs, d \in Channels :
        /\ files'[k][d].lockedRec = files[k][d].lockedRec
        /\ files[k][d].lockedRec # NoRecord
             => RecordOf(k, files'[k][d]) = RecordOf(k, files[k][d])
  <2> TAKE k \in Jobs, d \in Channels
  <2>1. CASE k = j /\ d = c
    BY <1>1, <2>1 DEF RecordOf
  <2>2. CASE k # j \/ d # c
    BY <1>1, <2>2
  <2> QED
    BY <2>1, <2>2
<1>3. ASSUME NEW t PROVE t \in RecordSet(files') <=> t \in RecordSet(files)
  BY <1>2, InRecordSet
<1>4. RecordSet(files') = RecordSet(files)
  BY <1>3
<1> QED
  BY <1>4, SetsAre

(* OPEN shows nothing until the claim, unless it takes the channel from     *)
(* another file.                                                            *)
LEMMA OpenShows ==
  ASSUME IInv, NEW j \in Jobs, NEW c \in Channels, NEW f \in Files,
         NEW exclusive \in BOOLEAN, NEW wait \in BOOLEAN,
         OpenDiskFile(j, c, f, exclusive, wait)
  PROVE  [Promised!Next]_<<ClaimsOf, RecordsOf>>
<1> DEFINE y == [Closed EXCEPT !.file = f, !.exclusive = exclusive, !.wait = wait]
<1>1. y \in Channel /\ ~y.claimed /\ y.lockedRec = NoRecord
  BY FileAssumption DEF Channel, Closed
<1>2. Changes(j, c, y)
  BY <1>1, ChangesChannel DEF OpenDiskFile, IInv
<1> HIDE DEF y
<1>3. CASE ~IsOpen(j, c)
  <2>1. ~files[j][c].claimed /\ files[j][c].lockedRec = NoRecord
    BY <1>3, ClosedTyped DEF IInv, Tidy
  <2> QED
    BY <1>1, <1>2, <2>1, SameClaims, SameRecords
<1>4. CASE IsOpen(j, c)
  <2>1. j \in Careless
    BY <1>4 DEF OpenDiskFile
  <2>2. files[j][c].file \in Files
    BY <1>4, ChannelTyped DEF IInv, TypeOK, IsOpen
  <2> QED
    BY <1>1, <1>2, <2>1, <2>2, LoseStep
<1> QED
  BY <1>3, <1>4

LEMMA DeviceShows ==
  ASSUME IInv, NEW j \in Jobs, NEW c \in Channels, OpenDevice(j, c)
  PROVE  Promised!Next
<1>1. Changes(j, c, Closed)
  BY ClosedTyped, ChangesChannel DEF OpenDevice, IInv
<1>2. j \in Careless /\ files[j][c].file \in Files
  BY ChannelTyped DEF OpenDevice, IInv, TypeOK, IsOpen
<1> QED
  BY <1>1, <1>2, ClosedTyped, LoseStep

(* The claim that is made is one more, and none of the others forbids it.   *)
LEMMA ClaimShows ==
  ASSUME IInv, NEW j \in Jobs, Claim(j)
  PROVE  Promised!Next
<1> DEFINE c == at[j].chan
           x == files[j][c]
           y == [x EXCEPT !.claimed = TRUE]
           f == x.file
<1>1. /\ c \in Channels /\ x \in Channel /\ f \in Files /\ IsOpen(j, c) /\ ~x.claimed
      /\ x.exclusive \in BOOLEAN
  BY ChannelTyped DEF IInv, TypeOK, Tidy, Claim, IsOpen
<1>2. y \in Channel /\ y.file = f /\ y.exclusive = x.exclusive /\ y.claimed
      /\ y.lockedRec = x.lockedRec
  BY <1>1, WithClaim
<1>3. Changes(j, c, y)
  <2>1. files' = [files EXCEPT ![j][c] = y]
    BY DEF Claim, IInv, TypeOK
  <2> QED
    BY <1>1, <1>2, <2>1, ChangesChannel DEF IInv
<1>4. fileExcl[f] \in {NoJob, j} /\ (x.exclusive => \A k \in Jobs \ {j} : ~(fileJobs[f][k] > 0))
  BY DEF Claim, InUse
<1> HIDE DEF y, x, c
<1>5. RecordsOf' = RecordsOf
  BY <1>1, <1>2, <1>3, SameRecords DEF x
<1>6. ClaimsOf' = ClaimsOf \cup {[job |-> j, file |-> f, exclusive |-> x.exclusive]}
  <2>1. files'[j][c] = y /\ \A k \in Jobs, d \in Channels : k # j \/ d # c => files'[k][d] = files[k][d]
    BY <1>3 DEF Changes
  <2>2. ClaimOf(j, y) = [job |-> j, file |-> f, exclusive |-> x.exclusive]
    BY <1>2 DEF ClaimOf
  <2>3. ASSUME NEW t PROVE t \in ClaimSet(files') <=> t \in ClaimSet(files) \/ t = ClaimOf(j, y)
    <3>1. ASSUME NEW k \in Jobs, NEW d \in Channels, files'[k][d].claimed, t = ClaimOf(k, files'[k][d])
          PROVE  t \in ClaimSet(files) \/ t = ClaimOf(j, y)
      BY <2>1, <3>1, InClaimSet
    <3>2. ASSUME NEW k \in Jobs, NEW d \in Channels, files[k][d].claimed, t = ClaimOf(k, files[k][d])
          PROVE  t \in ClaimSet(files')
      <4>1. k # j \/ d # c
        BY <1>1, <3>2 DEF x
      <4> QED
        BY <2>1, <3>2, <4>1, InClaimSet
    <3>3. t = ClaimOf(j, y) => t \in ClaimSet(files')
      BY <1>1, <1>2, <2>1, InClaimSet
    <3> QED
      BY <3>1, <3>2, <3>3, InClaimSet
  <2>4. ClaimSet(files') = ClaimSet(files) \cup {ClaimOf(j, y)}
    BY <2>3
  <2> QED
    BY <2>2, <2>4, SetsAre
<1>7. j \in Careful => Promised!Of(ClaimsOf, j, f) = {}
  BY <1>1, OnlyChannel DEF IInv, x
<1>8. \A t \in Promised!OfOthers(ClaimsOf, j, f) :
        /\ t.job \in Jobs \ {j} /\ fileJobs[f][t.job] > 0
        /\ t.exclusive /\ t.job \in Careful => fileExcl[f] = t.job
  BY <1>1, OthersClaim
<1>9. x.exclusive => Promised!OfOthers(ClaimsOf, j, f) = {}
  BY <1>4, <1>8
<1>10. \A t \in Promised!OfOthers(ClaimsOf, j, f) : t.exclusive => t.job \in Careless
  BY <1>4, <1>8, FileAssumption DEF Careful
<1>11. Promised!Claim(j, f, x.exclusive)
  BY <1>5, <1>6, <1>7, <1>9, <1>10 DEF Promised!Claim, Promised!Careful, Careful
<1> QED
  BY <1>1, <1>11 DEF Promised!Next

(* GET and PUT, UNLOCK and the first half of a CLOSE give a record back.    *)
LEMMA GiveBackShows ==
  ASSUME IInv, NEW j \in Jobs, NEW c \in Channels, IsOpen(j, c),
         files' = [files EXCEPT ![j][c].lockedRec = NoRecord]
  PROVE  [Promised!Next]_<<ClaimsOf, RecordsOf>>
<1> DEFINE x == files[j][c]
           y == [x EXCEPT !.lockedRec = NoRecord]
<1>1. x \in Channel /\ x.file \in Files
  BY ChannelTyped DEF IInv, TypeOK, IsOpen
<1>2. /\ y \in Channel /\ y.file = x.file /\ y.exclusive = x.exclusive
      /\ y.claimed = x.claimed /\ y.lockedRec = NoRecord
  BY <1>1, WithRecord
<1>3. Changes(j, c, y)
  <2>1. files' = [files EXCEPT ![j][c] = y]
    BY DEF IInv, TypeOK
  <2> QED
    BY <1>2, <2>1, ChangesChannel DEF IInv
<1> HIDE DEF y
<1>4. CASE j \in Careless
  BY <1>1, <1>2, <1>3, <1>4, LoseStep
<1>5. CASE j \in Careful
  <2>1. ClaimsOf' = ClaimsOf
    BY <1>2, <1>3, SameClaims
  <2>2. /\ RecordsOf' \subseteq RecordsOf
        /\ RecordsOf \ RecordsOf' \subseteq Promised!Of(RecordsOf, j, x.file)
    BY <1>2, <1>3, LessHeld
  <2>3. \A t \in RecordsOf' : t \notin Promised!Of(RecordsOf, j, x.file)
    BY <1>2, <1>3, <1>5, NoneHeld DEF IInv
  <2>4. RecordsOf' = RecordsOf \ Promised!Of(RecordsOf, j, x.file)
    BY <2>2, <2>3
  <2>5. Promised!GiveBack(j, x.file)
    BY <2>1, <2>4 DEF Promised!GiveBack
  <2> QED
    BY <1>1, <2>5 DEF Promised!Next
<1> QED
  BY <1>4, <1>5 DEF Careful

(* The record that is locked is nobody's or the job's own. *)
LEMMA LockShows ==
  ASSUME IInv, NEW j \in Jobs, LockRecord(j)
  PROVE  Promised!Next
<1> DEFINE c == at[j].chan
           x == files[j][c]
           r == at[j].rec
           y == [x EXCEPT !.lockedRec = r]
           f == x.file
<1>1. /\ c \in Channels /\ r \in Records /\ x \in Channel /\ f \in Files /\ IsOpen(j, c)
      /\ x.lockedRec = NoRecord /\ r # NoRecord
  BY ChannelTyped, FileAssumption DEF IInv, TypeOK, Tidy, LockRecord, IsOpen
<1>2. /\ y \in Channel /\ y.file = f /\ y.exclusive = x.exclusive
      /\ y.claimed = x.claimed /\ y.lockedRec = r
  BY <1>1, WithRecord
<1>3. Changes(j, c, y)
  <2>1. files' = [files EXCEPT ![j][c] = y]
    BY DEF LockRecord, IInv, TypeOK
  <2> QED
    BY <1>1, <1>2, <2>1, ChangesChannel DEF IInv
<1>4. locks[f][r] \in {NoJob, j}
  BY DEF LockRecord, Holder
<1> HIDE DEF y, x, c, r
<1>5. ClaimsOf' = ClaimsOf
  BY <1>1, <1>2, <1>3, SameClaims DEF x
<1>6. RecordsOf' = RecordsOf \cup {[job |-> j, file |-> f, rec |-> r]}
  <2>1. files'[j][c] = y /\ \A k \in Jobs, d \in Channels : k # j \/ d # c => files'[k][d] = files[k][d]
    BY <1>3 DEF Changes
  <2>2. RecordOf(j, y) = [job |-> j, file |-> f, rec |-> r]
    BY <1>2 DEF RecordOf
  <2>3. ASSUME NEW t PROVE t \in RecordSet(files') <=> t \in RecordSet(files) \/ t = RecordOf(j, y)
    <3>1. ASSUME NEW k \in Jobs, NEW d \in Channels, files'[k][d].lockedRec # NoRecord,
                 t = RecordOf(k, files'[k][d])
          PROVE  t \in RecordSet(files) \/ t = RecordOf(j, y)
      BY <2>1, <3>1, InRecordSet
    <3>2. ASSUME NEW k \in Jobs, NEW d \in Channels, files[k][d].lockedRec # NoRecord,
                 t = RecordOf(k, files[k][d])
          PROVE  t \in RecordSet(files')
      <4>1. k # j \/ d # c
        BY <1>1, <3>2 DEF x
      <4> QED
        BY <2>1, <3>2, <4>1, InRecordSet
    <3>3. t = RecordOf(j, y) => t \in RecordSet(files')
      BY <1>1, <1>2, <2>1, InRecordSet
    <3> QED
      BY <3>1, <3>2, <3>3, InRecordSet
  <2>4. RecordSet(files') = RecordSet(files) \cup {RecordOf(j, y)}
    BY <2>3
  <2> QED
    BY <2>2, <2>4, SetsAre
<1>7. j \in Careful => Promised!Of(RecordsOf, j, f) = {}
  BY <1>1, OnlyChannel DEF IInv, x
<1>8. \A t \in Promised!OfOthers(RecordsOf, j, f) : t.rec = r => t.job \in Careless
  <2> SUFFICES ASSUME NEW t \in Promised!OfOthers(RecordsOf, j, f), t.rec = r, t.job \notin Careless
               PROVE  FALSE
    OBVIOUS
  <2>1. t.job \in Jobs
    <3>1. PICK k \in Jobs, d \in Channels : t = RecordOf(k, files[k][d])
      BY SetsAre, InRecordSet DEF Promised!OfOthers
    <3> QED
      BY <3>1, TuplesName
  <2>2. t.job \in Jobs \ {j} /\ locks[f][r] = t.job
    BY <1>1, <2>1, OthersHold DEF Careful
  <2> QED
    BY <1>4, <2>2, FileAssumption
<1>9. Promised!Interlock(j, f, r)
  BY <1>5, <1>6, <1>7, <1>8 DEF Promised!Interlock, Promised!Careful, Careful
<1> QED
  BY <1>1, <1>9 DEF Promised!Next

LEMMA CloseShows ==
  ASSUME IInv, NEW j \in Jobs, CloseChanFile(j)
  PROVE  [Promised!Next]_<<ClaimsOf, RecordsOf>>
<1> DEFINE c == at[j].chan
           x == files[j][c]
<1>1. /\ c \in Channels /\ x \in Channel /\ x.file \in Files /\ IsOpen(j, c)
      /\ x.lockedRec = NoRecord
  BY ChannelTyped DEF IInv, TypeOK, Tidy, CloseChanFile, IsOpen
<1>2. Changes(j, c, Closed)
  BY <1>1, ClosedTyped, ChangesChannel DEF CloseChanFile, IInv
<1> HIDE DEF c
<1>3. CASE j \in Careless
  BY <1>1, <1>2, <1>3, ClosedTyped, LoseStep
<1>4. CASE j \in Careful
  <2>1. RecordsOf' = RecordsOf
    BY <1>1, <1>2, ClosedTyped, SameRecords
  <2>2. /\ ClaimsOf' \subseteq ClaimsOf
        /\ ClaimsOf \ ClaimsOf' \subseteq Promised!Of(ClaimsOf, j, x.file)
    BY <1>1, <1>2, ClosedTyped, LessClaimed
  <2>3. \A t \in ClaimsOf' : t \notin Promised!Of(ClaimsOf, j, x.file)
    BY <1>1, <1>2, <1>4, ClosedTyped, NoneClaimed DEF IInv
  <2>4. ClaimsOf' = ClaimsOf \ Promised!Of(ClaimsOf, j, x.file)
    BY <2>2, <2>3
  <2>5. Promised!Of(RecordsOf, j, x.file) = {}
    BY <1>1, <1>4, OnlyChannel DEF IInv
  <2>6. Promised!Close(j, x.file)
    BY <2>1, <2>4, <2>5 DEF Promised!Close
  <2> QED
    BY <1>1, <2>6 DEF Promised!Next
<1> QED
  BY <1>3, <1>4 DEF Careful

LEMMA StepShows ==
  ASSUME IInv, [Next]_vars
  PROVE  [Promised!Next]_<<ClaimsOf, RecordsOf>>
<1>1. CASE UNCHANGED files
  BY <1>1, SetsAre
<1>2. CASE UNCHANGED vars
  BY <1>1, <1>2 DEF vars
<1>3. CASE Next
  <2> PICK j \in Jobs :
        \/ \E c \in Channels :
             \/ \E f \in Files, exclusive, wait \in BOOLEAN :
                  OpenDiskFile(j, c, f, exclusive, wait)
             \/ OpenDevice(j, c)
             \/ \E r \in Records : Access(j, c, r)
             \/ Unlock(j, c) \/ CloseUnlock(j, c)
        \/ Claim(j) \/ ClaimRefused(j)
        \/ LockRecord(j) \/ Interlocked(j) \/ Interrupt(j)
        \/ CloseChanFile(j) \/ CloseAllFiles(j) \/ AllClosed(j)
    BY <1>3 DEF Next
  <2>1. ASSUME NEW c \in Channels, NEW f \in Files, NEW exclusive \in BOOLEAN,
               NEW wait \in BOOLEAN, OpenDiskFile(j, c, f, exclusive, wait)
        PROVE  [Promised!Next]_<<ClaimsOf, RecordsOf>>
    BY <2>1, OpenShows
  <2>2. ASSUME NEW c \in Channels, OpenDevice(j, c)
        PROVE  Promised!Next
    BY <2>2, DeviceShows
  <2>3. ASSUME NEW c \in Channels, NEW r \in Records, Access(j, c, r)
        PROVE  [Promised!Next]_<<ClaimsOf, RecordsOf>>
    BY <2>3, GiveBackShows DEF Access
  <2>4. ASSUME NEW c \in Channels, Unlock(j, c) \/ CloseUnlock(j, c)
        PROVE  [Promised!Next]_<<ClaimsOf, RecordsOf>>
    BY <2>4, GiveBackShows DEF Unlock, CloseUnlock
  <2>5. CASE Claim(j)
    BY <2>5, ClaimShows
  <2>6. CASE LockRecord(j)
    BY <2>6, LockShows
  <2>7. CASE CloseChanFile(j)
    BY <2>7, CloseShows
  <2>8. CASE \/ ClaimRefused(j) \/ Interlocked(j) \/ Interrupt(j)
             \/ CloseAllFiles(j) \/ AllClosed(j)
    <3>1. UNCHANGED files
      BY <2>8 DEF ClaimRefused, Interlocked, Interrupt, CloseAllFiles, AllClosed
    <3> QED
      BY <1>1, <3>1
  <2> QED
    BY <2>1, <2>2, <2>3, <2>4, <2>5, <2>6, <2>7, <2>8
<1> QED
  BY <1>2, <1>3

LEMMA InitShows == Init => Promised!Init
<1> SUFFICES ASSUME Init PROVE Promised!Init
  OBVIOUS
<1>1. \A j \in Jobs, c \in Channels : files[j][c] = Closed
  BY DEF Init
<1>2. \A t : t \notin ClaimSet(files) /\ t \notin RecordSet(files)
  BY <1>1, InClaimSet, InRecordSet, ClosedTyped
<1> QED
  BY <1>2, SetsAre DEF Promised!Init

(* What OPEN, GET, PUT, UNLOCK and CLOSE do to the channels of all jobs     *)
(* implements Reservations: nobody comes between a careful job and its file *)
(* or record, and careless jobs harm only themselves.                       *)
THEOREM FilesImplementReservations == Spec => ReservationSpec
<1>1. IInv /\ [Next]_vars => [Promised!Next]_<<ClaimsOf, RecordsOf>>
  BY StepShows
<1> QED
  BY <1>1, InitShows, Inductive, PTL DEF Spec, ReservationSpec, Promised!Spec
=============================================================================
