--------------------------- MODULE MasterCM_proofs ---------------------------
(***************************************************************************)
(* Proofs about the master change manager, for every set of slave          *)
(* instances, every limit they ask for, every change type and every        *)
(* argument of setAutoObsolete.                                            *)
(*                                                                         *)
(* The heart is _obsolete: on a sequence of retained data that is          *)
(* consecutive and in commit order, dropping a prefix up to the first      *)
(* entry that is young enough leaves a sequence that is consecutive, in    *)
(* commit order, not empty, and young but for its first entry.             *)
(***************************************************************************)
EXTENDS MasterCM, SequenceTheorems, TLAPS

USE DEF VERSION_NONE, VERSION_FIRST

(* A 64 bit sum is a 64 bit number.                                        *)
LEMMA WrapsIntoRange ==
    ASSUME NEW x \in Nat, NEW m \in Nat
    PROVE  x % (m + 1) \in 0..m
  BY Z3

(* The fields of retained data.                                            *)
LEMMA DataFields ==
    ASSUME NEW datas \in Seq(InstanceData), NEW k \in 1..Len(datas)
    PROVE  datas[k].version \in Nat /\ datas[k].commitCount \in Nat
  <1>1. datas[k] \in InstanceData
    BY ElementOfSeq
  <1> QED
    BY <1>1 DEF InstanceData

(* _obsolete retains a suffix that is not empty, and the entries it drops  *)
(* are obsolete.                                                           *)
LEMMA ObsoleteIsSuffix ==
    ASSUME NEW datas \in Seq(InstanceData),
           NEW count \in Nat, NEW n \in Nat,
           Obsolete(datas, count, n)
    PROVE  \E first \in 1..Len(datas) :
              /\ instanceDatas' \in Seq(InstanceData)
              /\ Len(instanceDatas') = Len(datas) - first + 1
              /\ \A k \in 1..Len(instanceDatas') :
                    instanceDatas'[k] = datas[first + k - 1]
              /\ \A k \in 1..first - 1 : IsObsolete(datas[k], count, n)
              /\ first = Len(datas) \/ ~IsObsolete(datas[first], count, n)
  <1>1. PICK first \in 1..Len(datas) :
              /\ \A k \in 1..first - 1 : IsObsolete(datas[k], count, n)
              /\ first = Len(datas) \/ ~IsObsolete(datas[first], count, n)
              /\ instanceDatas' = SubSeq(datas, first, Len(datas))
    BY DEF Obsolete
  <1>2. /\ instanceDatas' \in Seq(InstanceData)
        /\ Len(instanceDatas') = Len(datas) - first + 1
        /\ \A k \in 1..Len(instanceDatas') :
              instanceDatas'[k] = datas[first + k - 1]
    BY <1>1, SubSeqProperties
  <1> QED
    BY <1>1, <1>2

(* What _obsolete preserves and what it establishes.                       *)
LEMMA ObsoleteConsistent ==
    ASSUME NEW datas \in Seq(InstanceData),
           NEW v \in Nat, NEW count \in Nat, NEW n \in Nat,
           Consecutive(datas, v), InCommitOrder(datas, count),
           Obsolete(datas, count, n)
    PROVE  /\ instanceDatas' \in Seq(InstanceData)
           /\ instanceDatas' # <<>>
           /\ Consecutive(instanceDatas', v)
           /\ InCommitOrder(instanceDatas', count)
           /\ NoneObsolete(instanceDatas', count, n)
  <1>1. PICK first \in 1..Len(datas) :
              /\ instanceDatas' \in Seq(InstanceData)
              /\ Len(instanceDatas') = Len(datas) - first + 1
              /\ \A k \in 1..Len(instanceDatas') :
                    instanceDatas'[k] = datas[first + k - 1]
              /\ \A k \in 1..first - 1 : IsObsolete(datas[k], count, n)
              /\ first = Len(datas) \/ ~IsObsolete(datas[first], count, n)
    BY ObsoleteIsSuffix
  <1> DEFINE kept == instanceDatas'
  <1>2. Len(datas) \in Nat /\ Len(kept) \in Nat
    BY <1>1, LenProperties
  <1>3. \A k \in 1..Len(datas) : /\ datas[k].version \in Nat
                                 /\ datas[k].commitCount \in Nat
    BY DataFields
  <1>4. \A k \in 1..Len(kept) : /\ first + k - 1 \in 1..Len(datas)
                                /\ kept[k] = datas[first + k - 1]
    BY <1>1, <1>2
  <1>5. kept # <<>>
    BY <1>1, <1>2, EmptySeq
  <1>6. Consecutive(kept, v)
    <2> SUFFICES ASSUME NEW k \in 1..Len(kept)
                 PROVE  /\ kept[k].version # VERSION_NONE
                        /\ kept[k].version = v - Len(kept) + k
      BY DEF Consecutive
    <2>1. /\ datas[first + k - 1].version # VERSION_NONE
          /\ datas[first + k - 1].version = v - Len(datas) + (first + k - 1)
      BY <1>4 DEF Consecutive
    <2>2. kept[k] = datas[first + k - 1]
      BY <1>4
    <2>3. v - Len(datas) + (first + k - 1) = v - Len(kept) + k
      BY <1>1, <1>2
    <2> QED
      BY <2>1, <2>2, <2>3
  <1>7. InCommitOrder(kept, count)
    <2> SUFFICES ASSUME NEW k \in 1..Len(kept)
                 PROVE  /\ kept[k].commitCount =< count
                        /\ \A j \in 1..k : kept[j].commitCount =< kept[k].commitCount
      BY DEF InCommitOrder
    <2>1. /\ datas[first + k - 1].commitCount =< count
          /\ \A j \in 1..first + k - 1 :
                datas[j].commitCount =< datas[first + k - 1].commitCount
      BY <1>4 DEF InCommitOrder
    <2>2. ASSUME NEW j \in 1..k
          PROVE  kept[j] = datas[first + j - 1] /\ first + j - 1 \in 1..first + k - 1
      BY <1>1, <1>2, <1>4
    <2> QED
      BY <1>4, <2>1, <2>2
  <1>8. NoneObsolete(kept, count, n)
    <2> SUFFICES ASSUME NEW k \in 2..Len(kept)
                 PROVE  kept[k].commitCount + n >= count
      BY DEF NoneObsolete
    <2>1. first # Len(datas)
      BY <1>1, <1>2
    <2>2. ~(count > n /\ datas[first].commitCount < count - n)
      BY <1>1, <2>1 DEF IsObsolete
    <2>3. first + k - 1 \in 1..Len(datas) /\ kept[k] = datas[first + k - 1]
      BY <1>1, <1>2
    <2>4. datas[first].commitCount =< datas[first + k - 1].commitCount
      BY <1>1, <1>2, <2>3, SMTT(30) DEF InCommitOrder
    <2>5. /\ datas[first].commitCount \in Nat
          /\ datas[first + k - 1].commitCount \in Nat
      BY <1>3, <2>3
    <2>6. \A a, b \in Nat :
              ~(count > n /\ a < count - n) /\ a =< b => b + n >= count
      OBVIOUS
    <2>7. datas[first + k - 1].commitCount + n >= count
      BY <2>2, <2>4, <2>5, <2>6
    <2> QED
      BY <2>3, <2>7
  <1> QED
    BY <1>1, <1>5, <1>6, <1>7, <1>8

(* Data whose commit is young enough survives _obsolete.                   *)
LEMMA ObsoleteKeepsYoung ==
    ASSUME NEW datas \in Seq(InstanceData),
           NEW count \in Nat, NEW n \in Nat,
           Obsolete(datas, count, n),
           NEW k \in 1..Len(datas), datas[k].commitCount + n >= count
    PROVE  \E j \in 1..Len(instanceDatas') : instanceDatas'[j] = datas[k]
  <1>1. PICK first \in 1..Len(datas) :
              /\ instanceDatas' \in Seq(InstanceData)
              /\ Len(instanceDatas') = Len(datas) - first + 1
              /\ \A l \in 1..Len(instanceDatas') :
                    instanceDatas'[l] = datas[first + l - 1]
              /\ \A l \in 1..first - 1 : IsObsolete(datas[l], count, n)
    BY ObsoleteIsSuffix
  <1>2. Len(datas) \in Nat /\ datas[k].commitCount \in Nat
    BY LenProperties, DataFields
  <1>3. ~IsObsolete(datas[k], count, n)
    BY <1>2 DEF IsObsolete
  <1>4. k >= first
    BY <1>1, <1>2, <1>3, SMTT(30)
  <1>5. k - first + 1 \in 1..Len(instanceDatas') /\ first + (k - first + 1) - 1 = k
    BY <1>1, <1>2, <1>4
  <1> QED
    BY <1>1, <1>5

(* A commit appends data that is consecutive and in commit order.          *)
LEMMA AppendConsistent ==
    ASSUME NEW datas \in Seq(InstanceData),
           NEW v \in Nat, NEW count \in Nat, NEW newCount \in Nat,
           Consecutive(datas, v), InCommitOrder(datas, count),
           newCount >= count,
           NEW new \in InstanceData,
           new.version = v + 1, new.commitCount = newCount
    PROVE  /\ Append(datas, new) \in Seq(InstanceData)
           /\ Append(datas, new) # <<>>
           /\ Consecutive(Append(datas, new), v + 1)
           /\ InCommitOrder(Append(datas, new), newCount)
  <1> DEFINE more == Append(datas, new)
  <1>1. /\ more \in Seq(InstanceData)
        /\ Len(more) = Len(datas) + 1
        /\ \A k \in 1..Len(datas) : more[k] = datas[k]
        /\ more[Len(datas) + 1] = new
    BY AppendProperties
  <1>2. Len(datas) \in Nat
    BY LenProperties
  <1>3. \A k \in 1..Len(datas) : datas[k].commitCount \in Nat
    BY DataFields
  <1>4. Consecutive(more, v + 1)
    BY <1>1, <1>2 DEF Consecutive
  <1>5. InCommitOrder(more, newCount)
    <2> SUFFICES ASSUME NEW k \in 1..Len(more)
                 PROVE  /\ more[k].commitCount =< newCount
                        /\ \A j \in 1..k : more[j].commitCount =< more[k].commitCount
      BY DEF InCommitOrder
    <2>1. CASE k \in 1..Len(datas)
      BY <1>1, <1>2, <1>3, <2>1 DEF InCommitOrder
    <2>2. CASE k = Len(datas) + 1
      BY <1>1, <1>2, <1>3, <2>2 DEF InCommitOrder
    <2> QED
      BY <1>1, <1>2, <2>1, <2>2
  <1>6. more # <<>>
    BY <1>1, <1>2, EmptySeq
  <1> QED
    BY <1>1, <1>4, <1>5, <1>6

(* _updateMaxVersion yields the smallest limit.                            *)
LEMMA UpdateMaxVersionIsMinimum ==
    ASSUME slaves' \subseteq Instances,
           slaveMax' \in [Instances -> 0..UINT64_MAX],
           UpdateMaxVersion
    PROVE  maxVersion' \in 0..UINT64_MAX /\ SlowestSlaveLimits'
  <1>1. UINT64_MAX \in Nat
    BY MasterAssumption
  <1>2. maxVersion' \in {slaveMax'[i] : i \in slaves'} \cup {UINT64_MAX}
    BY DEF UpdateMaxVersion
  <1>3. \A i \in slaves' : maxVersion' =< slaveMax'[i]
    BY DEF UpdateMaxVersion
  <1> QED
    BY <1>1, <1>2, <1>3 DEF SlowestSlaveLimits

-----------------------------------------------------------------------------
(* The invariant holds initially.                                          *)
LEMMA MasterInitInv ==
    ASSUME MasterInit
    PROVE  MasterTypeOK /\ MasterInv /\ SlowestSlaveLimits
  <1>1. UINT64_MAX \in Nat
    BY MasterAssumption
  <1>2. SlowestSlaveLimits
    BY DEF MasterInit, SlowestSlaveLimits
  <1>3. CASE Buffered
    <2> DEFINE data == [version |-> 1, commitCount |-> 0]
    <2>1. instanceDatas = <<data>> /\ commitCount = 1 /\ version = 1 /\ nVersions = 0
      BY <1>3 DEF MasterInit
    <2>2. data \in InstanceData
      BY DEF InstanceData
    <2>3. instanceDatas \in Seq(InstanceData) /\ Len(instanceDatas) = 1
          /\ instanceDatas[1] = data
      BY <2>1, <2>2
    <2>4. MasterTypeOK
      BY <1>1, <2>1, <2>3 DEF MasterInit, MasterTypeOK
    <2>5. CheckConsistency
      BY <2>1, <2>3 DEF CheckConsistency, Consecutive, NoneObsolete
    <2>6. InCommitOrder(instanceDatas, commitCount)
      BY <2>1, <2>3 DEF InCommitOrder
    <2> QED
      BY <1>2, <2>4, <2>5, <2>6 DEF MasterInv
  <1>4. CASE ~Buffered
    <2>1. MasterTypeOK
      BY <1>1, <1>4 DEF MasterInit, MasterTypeOK
    <2> QED
      BY <1>2, <1>4, <2>1 DEF MasterInv, CheckConsistency
  <1> QED
    BY <1>3, <1>4

(* The actions that only touch the slaves keep the retained data, and      *)
(* those that touch the data keep the slaves.                              *)
LEMMA MasterSlaveSteps ==
    ASSUME MasterTypeOK, MasterInv, SlowestSlaveLimits,
           \/ \E i \in Instances : AddSlave(i)
           \/ \E i \in Instances : \E limit \in 0..UINT64_MAX : CmdMaxVersion(i, limit)
           \/ \E gone \in SUBSET Instances : RemoveSlaves(gone)
    PROVE  MasterTypeOK' /\ MasterInv' /\ SlowestSlaveLimits'
  <1>1. /\ UNCHANGED <<version, commitCount, nVersions, instanceDatas, committing>>
    BY DEF AddSlave, CmdMaxVersion, RemoveSlaves
  <1>2. MasterInv'
    BY <1>1 DEF MasterInv, CheckConsistency
  <1>3. /\ slaves' \subseteq Instances
        /\ slaveMax' \in [Instances -> 0..UINT64_MAX]
        /\ maxVersion' \in 0..UINT64_MAX
        /\ SlowestSlaveLimits'
    <2> DEFINE Goal == /\ slaves' \subseteq Instances
                       /\ slaveMax' \in [Instances -> 0..UINT64_MAX]
                       /\ maxVersion' \in 0..UINT64_MAX
                       /\ SlowestSlaveLimits'
    <2>0. UINT64_MAX \in Nat /\ MaxVersions \in [Instances -> 0..UINT64_MAX]
      BY MasterAssumption
    <2>1. ASSUME NEW i \in Instances, AddSlave(i)
          PROVE  Goal
      <3> DEFINE limit == (MaxVersions[i] + version) % (UINT64_MAX + 1)
      <3>1. limit \in 0..UINT64_MAX
        BY <2>0, WrapsIntoRange DEF MasterTypeOK
      <3>2. slaveMax' = [slaveMax EXCEPT ![i] =
                IF MaxVersions[i] \in {0, UINT64_MAX} THEN UINT64_MAX ELSE limit]
        BY <2>1 DEF AddSlave
      <3>3. slaves' \subseteq Instances /\ slaveMax' \in [Instances -> 0..UINT64_MAX]
        BY <2>0, <2>1, <3>1, <3>2 DEF AddSlave, MasterTypeOK
      <3> QED
        BY <2>1, <3>3, UpdateMaxVersionIsMinimum DEF AddSlave
    <2>2. ASSUME NEW i \in Instances, NEW limit \in 0..UINT64_MAX,
                 CmdMaxVersion(i, limit)
          PROVE  Goal
      <3>1. CASE i \in slaves
        <4>1. slaves' \subseteq Instances /\ slaveMax' \in [Instances -> 0..UINT64_MAX]
          BY <2>2, <3>1 DEF CmdMaxVersion, MasterTypeOK
        <4> QED
          BY <2>2, <3>1, <4>1, UpdateMaxVersionIsMinimum DEF CmdMaxVersion
      <3>2. CASE i \notin slaves
        BY <2>2, <3>2 DEF CmdMaxVersion, MasterTypeOK, SlowestSlaveLimits
      <3> QED
        BY <3>1, <3>2
    <2>3. ASSUME NEW gone \in SUBSET Instances, RemoveSlaves(gone)
          PROVE  Goal
      <3>1. slaves' \subseteq Instances /\ slaveMax' \in [Instances -> 0..UINT64_MAX]
        BY <2>0, <2>3 DEF RemoveSlaves, MasterTypeOK
      <3>2. CASE gone \cap slaves = {}
        <4>1. slaves' = slaves /\ \A i \in slaves : slaveMax'[i] = slaveMax[i]
          BY <2>3, <3>2 DEF RemoveSlaves, MasterTypeOK
        <4>2. maxVersion' = maxVersion
          BY <2>3, <3>2 DEF RemoveSlaves
        <4> QED
          BY <3>1, <4>1, <4>2 DEF MasterTypeOK, SlowestSlaveLimits
      <3>3. CASE gone \cap slaves # {}
        BY <2>3, <3>1, <3>3, UpdateMaxVersionIsMinimum DEF RemoveSlaves
      <3> QED
        BY <3>2, <3>3
    <2> QED
      BY <2>1, <2>2, <2>3
  <1> QED
    BY <1>1, <1>2, <1>3 DEF MasterTypeOK
(* A commit, or setAutoObsolete.                                           *)
LEMMA MasterCommitSteps ==
    ASSUME MasterTypeOK, MasterInv, SlowestSlaveLimits, MasterCommit
    PROVE  MasterTypeOK' /\ MasterInv' /\ SlowestSlaveLimits'
  <1>1. UNCHANGED <<slaves, slaveMax, maxVersion>>
    BY DEF MasterCommit, CommitBegin, CommitProceed, CommitClean, CommitLocked,
           CommitEmpty, SetAutoObsolete
  <1>2. SlowestSlaveLimits'
    BY <1>1 DEF SlowestSlaveLimits
  <1> DEFINE Goal == MasterTypeOK' /\ MasterInv'
  <1>3. ASSUME CommitBegin \/ CommitProceed
        PROVE  Goal
    BY <1>3 DEF CommitBegin, CommitProceed, MasterTypeOK, MasterInv, CheckConsistency
  <1>4. ASSUME Buffered, NEW count \in Nat, NEW n \in Nat, count >= commitCount,
               commitCount' = count, nVersions' = n, version' = version,
               committing' \in {"idle", "waiting", "released"},
               Obsolete(instanceDatas, count, n)
        PROVE  Goal
    <2>1. /\ Consecutive(instanceDatas, version)
          /\ InCommitOrder(instanceDatas, count)
      BY <1>4, DataFields DEF MasterTypeOK, MasterInv, CheckConsistency, InCommitOrder
    <2>2. /\ instanceDatas' \in Seq(InstanceData)
          /\ instanceDatas' # <<>>
          /\ Consecutive(instanceDatas', version)
          /\ InCommitOrder(instanceDatas', count)
          /\ NoneObsolete(instanceDatas', count, n)
      BY <1>4, <2>1, ObsoleteConsistent DEF MasterTypeOK
    <2> QED
      BY <1>1, <1>4, <2>2 DEF MasterTypeOK, MasterInv, CheckConsistency
  <1>5. ASSUME NEW incarnation \in commitCount..LastCommitCount,
               CommitClean(incarnation)
        PROVE  Goal
    BY <1>4, <1>5, MasterAssumption DEF CommitClean, UpdateCommitCount, MasterTypeOK
  <1>6. ASSUME NEW incarnation \in commitCount..LastCommitCount,
               CommitLocked(incarnation)
        PROVE  Goal
    <2>1. CASE Buffered
      <3> DEFINE new == [version |-> version + 1, commitCount |-> incarnation]
                 datas == Append(instanceDatas, new)
      <3>1. /\ incarnation \in Nat /\ incarnation >= commitCount
            /\ commitCount' = incarnation
            /\ version' = version + 1
            /\ nVersions' = nVersions
            /\ committing' = "idle"
            /\ Obsolete(datas, incarnation, nVersions)
        BY <1>6, <2>1, MasterAssumption
           DEF CommitLocked, UpdateCommitCount, MasterTypeOK
      <3>2. /\ new \in InstanceData
            /\ new.version = version + 1 /\ new.commitCount = incarnation
        BY <3>1 DEF InstanceData, MasterTypeOK
      <3>3. /\ Consecutive(instanceDatas, version)
            /\ InCommitOrder(instanceDatas, commitCount)
        BY <2>1 DEF MasterInv, CheckConsistency
      <3>4. /\ datas \in Seq(InstanceData)
            /\ Consecutive(datas, version + 1)
            /\ InCommitOrder(datas, incarnation)
        BY <3>1, <3>2, <3>3, AppendConsistent DEF MasterTypeOK
      <3>5. /\ instanceDatas' \in Seq(InstanceData)
            /\ instanceDatas' # <<>>
            /\ Consecutive(instanceDatas', version + 1)
            /\ InCommitOrder(instanceDatas', incarnation)
            /\ NoneObsolete(instanceDatas', incarnation, nVersions)
        <4> HIDE DEF datas
        <4> QED
          BY <3>1, <3>4, ObsoleteConsistent DEF MasterTypeOK
      <3> QED
        BY <1>1, <3>1, <3>5 DEF MasterTypeOK, MasterInv, CheckConsistency
    <2>2. CASE ~Buffered
      BY <1>6, <2>2 DEF CommitLocked, MasterTypeOK, MasterInv, CheckConsistency
    <2> QED
      BY <2>1, <2>2
  <1>7. ASSUME NEW incarnation \in commitCount..LastCommitCount,
               CommitEmpty(incarnation)
        PROVE  Goal
    <2>1. CASE Buffered
      BY <1>4, <1>7, <2>1, MasterAssumption
         DEF CommitEmpty, UpdateCommitCount, MasterTypeOK
    <2>2. CASE ~Buffered
      BY <1>7, <2>2 DEF CommitEmpty, MasterTypeOK, MasterInv, CheckConsistency
    <2> QED
      BY <2>1, <2>2
  <1>8. ASSUME NEW count \in AutoObsolete, SetAutoObsolete(count)
        PROVE  Goal
    BY <1>4, <1>8, MasterAssumption DEF SetAutoObsolete, MasterTypeOK
  <1>9. Goal
    BY <1>3, <1>5, <1>6, <1>7, <1>8 DEF MasterCommit
  <1> QED
    BY <1>2, <1>9

(* Every step preserves the invariant.                                     *)
LEMMA MasterStepInv ==
    ASSUME MasterTypeOK, MasterInv, SlowestSlaveLimits, [MasterNext]_masterVars
    PROVE  MasterTypeOK' /\ MasterInv' /\ SlowestSlaveLimits'
  <1>1. CASE MasterNext
    BY <1>1, MasterSlaveSteps, MasterCommitSteps DEF MasterNext
  <1>2. CASE UNCHANGED masterVars
    BY <1>2 DEF masterVars, MasterTypeOK, MasterInv, CheckConsistency,
                SlowestSlaveLimits
  <1> QED
    BY <1>1, <1>2

(* The inductive invariant of the change manager.                          *)
LEMMA MasterInvariant ==
    MasterSpec => [](MasterTypeOK /\ MasterInv /\ SlowestSlaveLimits)
  <1>1. MasterInit => MasterTypeOK /\ MasterInv /\ SlowestSlaveLimits
    BY MasterInitInv
  <1>2. (MasterTypeOK /\ MasterInv /\ SlowestSlaveLimits) /\ [MasterNext]_masterVars
        => (MasterTypeOK /\ MasterInv /\ SlowestSlaveLimits)'
    BY MasterStepInv
  <1> QED
    BY <1>1, <1>2, PTL DEF MasterSpec

-----------------------------------------------------------------------------
(* The change manager is type correct: limits of slaves stay 64 bit        *)
(* numbers, and the retained data is a sequence of versions.               *)
THEOREM MasterTypeCorrect == MasterSpec => []MasterTypeOK
  BY MasterInvariant, PTL

(* The assertions of _checkConsistency hold at all times: what the master  *)
(* retains is a gapless run of versions that ends with the current one.    *)
THEOREM MasterConsistent == MasterSpec => []CheckConsistency
  <1>1. MasterInv => CheckConsistency
    BY DEF MasterInv
  <1> QED
    BY <1>1, MasterInvariant, PTL

(* commit() is held back by the slowest current slave and by nothing else. *)
THEOREM MasterHeldBackBySlowest == MasterSpec => []SlowestSlaveLimits
  BY MasterInvariant, PTL

(* No step drops a version that setAutoObsolete promises to retain.        *)
THEOREM MasterRetainsYoung == MasterSpec => RetainsYoung
  <1> DEFINE Kept ==
        nVersions' = nVersions =>
          \A k \in 1..Len(instanceDatas) :
             instanceDatas[k].commitCount + nVersions >= commitCount' =>
                 \E j \in 1..Len(instanceDatas') :
                     instanceDatas'[j] = instanceDatas[k]
  <1>1. ASSUME MasterTypeOK, MasterNext
        PROVE  Kept
    <2> SUFFICES ASSUME nVersions' = nVersions,
                        NEW k \in 1..Len(instanceDatas),
                        instanceDatas[k].commitCount + nVersions >= commitCount'
                 PROVE  \E j \in 1..Len(instanceDatas') :
                            instanceDatas'[j] = instanceDatas[k]
      OBVIOUS
    <2>1. CASE UNCHANGED instanceDatas
      BY <2>1
    <2>2. ASSUME NEW count \in Nat, commitCount' = count,
                 Obsolete(instanceDatas, count, nVersions)
          PROVE  \E j \in 1..Len(instanceDatas') :
                     instanceDatas'[j] = instanceDatas[k]
      BY <1>1, <2>2, ObsoleteKeepsYoung DEF MasterTypeOK
    <2>3. ASSUME NEW incarnation \in commitCount..LastCommitCount, Buffered,
                 CommitLocked(incarnation)
          PROVE  \E j \in 1..Len(instanceDatas') :
                     instanceDatas'[j] = instanceDatas[k]
      <3> DEFINE new == [version |-> version + 1, commitCount |-> incarnation]
                 datas == Append(instanceDatas, new)
      <3>1. /\ incarnation \in Nat
            /\ commitCount' = incarnation
            /\ Obsolete(datas, incarnation, nVersions)
        BY <1>1, <2>3, MasterAssumption
           DEF CommitLocked, UpdateCommitCount, MasterTypeOK
      <3>2. new \in InstanceData
        BY <1>1, <3>1 DEF InstanceData, MasterTypeOK
      <3>3. /\ datas \in Seq(InstanceData)
            /\ Len(datas) = Len(instanceDatas) + 1
            /\ datas[k] = instanceDatas[k]
        BY <1>1, <3>2, AppendProperties DEF MasterTypeOK
      <3>4. k \in 1..Len(datas)
        BY <1>1, <3>3, LenProperties DEF MasterTypeOK
      <3>5. datas[k].commitCount + nVersions >= incarnation
        BY <3>1, <3>3
      <3> HIDE DEF datas
      <3> QED
        BY <1>1, <3>1, <3>3, <3>4, <3>5, ObsoleteKeepsYoung DEF MasterTypeOK
    <2>4. CASE \E incarnation \in commitCount..LastCommitCount :
                  CommitClean(incarnation) \/ CommitEmpty(incarnation)
      BY <1>1, <2>1, <2>2, <2>4, MasterAssumption
         DEF CommitClean, CommitEmpty, UpdateCommitCount, MasterTypeOK
    <2>5. CASE \E incarnation \in commitCount..LastCommitCount :
                  CommitLocked(incarnation)
      BY <2>1, <2>3, <2>5 DEF CommitLocked
    <2>6. CASE \E count \in AutoObsolete : SetAutoObsolete(count)
      BY <1>1, <2>2, <2>6 DEF SetAutoObsolete, MasterTypeOK
    <2>7. CASE CommitBegin \/ CommitProceed
      BY <2>1, <2>7 DEF CommitBegin, CommitProceed
    <2>8. CASE \/ \E i \in Instances : AddSlave(i)
               \/ \E i \in Instances : \E limit \in 0..UINT64_MAX :
                      CmdMaxVersion(i, limit)
               \/ \E gone \in SUBSET Instances : RemoveSlaves(gone)
      BY <2>1, <2>8 DEF AddSlave, CmdMaxVersion, RemoveSlaves
    <2> QED
      BY <1>1, <2>4, <2>5, <2>6, <2>7, <2>8 DEF MasterNext, MasterCommit
  <1>2. MasterTypeOK /\ [MasterNext]_masterVars => [Kept]_masterVars
    BY <1>1
  <1> QED
    BY <1>2, MasterInvariant, PTL DEF MasterSpec, RetainsYoung
=============================================================================
