------------------------------ MODULE MasterCM ------------------------------
(***************************************************************************)
(* The master change manager of one distributed object in Collage          *)
(* (libs/co): VersionedMasterCM with its three concrete forms,             *)
(* FullMasterCM (ChangeType "INSTANCE"), DeltaMasterCM ("DELTA") and       *)
(* UnbufferedMasterCM ("UNBUFFERED").                                      *)
(*                                                                         *)
(* commit() runs in an application thread, addSlave() and removeSlave() in *)
(* the command thread and _cmdMaxVersion() in the receiver thread.  They   *)
(* exclude each other by the lock of _slaves, except that commit() waits   *)
(* for _maxVersion before it takes the lock: that wait is a step of its    *)
(* own (CommitBegin, CommitProceed, and then the locked section).          *)
(***************************************************************************)
EXTENDS Integers, Sequences

CONSTANTS
    Instances,      \* the slave instances that may be mapped
    MaxVersions,    \* Object::getMaxVersions of each; 0 and UINT64_MAX are
                    \* "unlimited"
    ChangeType,     \* Object::ChangeType of the object
    UINT64_MAX,     \* std::numeric_limits< uint64_t >::max()
    AutoObsolete,   \* the arguments of setAutoObsolete
    LastCommitCount \* bound: the largest incarnation a commit is given

VERSION_NONE == 0

VERSION_FIRST == 1

\* The version argument of a mapObject that names no concrete version.
VERSION_OLDEST == -1

ASSUME MasterAssumption ==
    /\ UINT64_MAX \in Nat /\ UINT64_MAX > 1
    /\ MaxVersions \in [Instances -> 0..UINT64_MAX]
    /\ ChangeType \in {"INSTANCE", "DELTA", "UNBUFFERED"}
    /\ AutoObsolete \subseteq Nat
    /\ LastCommitCount \in Nat
    /\ ChangeType # "UNBUFFERED" => LastCommitCount > 0

VARIABLES
    version,        \* _version
    commitCount,    \* _commitCount
    nVersions,      \* _nVersions, the argument of setAutoObsolete
    instanceDatas,  \* _instanceDatas: the retained versions, oldest first
    slaves,         \* the instances of _slaveData
    slaveMax,       \* SlaveData::maxVersion of each of them
    maxVersion,     \* _maxVersion, the highest version commit may create
    committing      \* where the committing thread is

masterVars == <<version, commitCount, nVersions, instanceDatas, slaves,
                slaveMax, maxVersion, committing>>

InstanceData == [version : Nat, commitCount : Nat]

Buffered == ChangeType # "UNBUFFERED"

-----------------------------------------------------------------------------
(* Construction, and init() as Object::_setChangeManager calls it.         *)

MasterInit ==
    /\ version = VERSION_FIRST
    /\ nVersions = 0
    /\ slaves = {}
    /\ slaveMax = [i \in Instances |-> UINT64_MAX]
    /\ maxVersion = UINT64_MAX
    /\ committing = "idle"
    /\ IF Buffered
       THEN /\ instanceDatas = <<[version |-> VERSION_FIRST, commitCount |-> 0]>>
            /\ commitCount = 1
       ELSE instanceDatas = <<>> /\ commitCount = 0

\* Mutants: retain one commit too many, one too few.
IsObsolete_Late(data, count, n) == count > n + 1 /\ data.commitCount < count - n - 1
IsObsolete_Early(data, count, n) == count > n /\ data.commitCount =< count - n

(* _obsolete: drop retained data from the front until the front one is     *)
(* recent enough or is the last one.                                       *)
IsObsolete(data, count, n) == count > n /\ data.commitCount < count - n

Obsolete(datas, count, n) ==
    \E first \in 1..Len(datas) :
        /\ \A k \in 1..first - 1 : IsObsolete(datas[k], count, n)
        /\ first = Len(datas) \/ ~IsObsolete(datas[first], count, n)
        /\ instanceDatas' = SubSeq(datas, first, Len(datas))

(* _updateMaxVersion: the smallest limit of all slaves.                    *)
UpdateMaxVersion ==
    LET limits == {slaveMax'[i] : i \in slaves'} \cup {UINT64_MAX}
    IN  /\ maxVersion' \in limits
        /\ \A m \in limits : maxVersion' =< m

-----------------------------------------------------------------------------
(* commit(), the application thread.                                       *)

(* A commit without CO_COMMIT_NEXT passes an incarnation, which the        *)
(* application never decreases (_updateCommitCount asserts it).            *)
UpdateCommitCount(incarnation) ==
    /\ incarnation >= commitCount
    /\ commitCount' = incarnation

(* The object is not dirty: only the commit count advances.                *)
CommitClean(incarnation) ==
    /\ committing = "idle"
    /\ Buffered
    /\ UpdateCommitCount(incarnation)
    /\ Obsolete(instanceDatas, commitCount', nVersions)
    /\ UNCHANGED <<version, nVersions, slaves, slaveMax, maxVersion, committing>>

(* The object is dirty: commit waits in _maxVersion.waitGE without holding *)
(* the lock.                                                               *)
CommitBegin ==
    /\ committing = "idle"
    /\ committing' = "waiting"
    /\ UNCHANGED <<version, commitCount, nVersions, instanceDatas, slaves,
                   slaveMax, maxVersion>>

\* Mutant: waits for the current version instead of the next one.
CommitProceed_OneMore ==
    /\ committing = "waiting"
    /\ maxVersion >= version
    /\ committing' = "released"
    /\ UNCHANGED <<version, commitCount, nVersions, instanceDatas, slaves,
                   slaveMax, maxVersion>>

CommitProceed ==
    /\ committing = "waiting"
    /\ maxVersion >= version + 1
    /\ committing' = "released"
    /\ UNCHANGED <<version, commitCount, nVersions, instanceDatas, slaves,
                   slaveMax, maxVersion>>

(* The locked section of a commit whose serialization wrote data: a new    *)
(* version, its data retained when the object is buffered.  An unbuffered  *)
(* object needs a slave for that.                                          *)
CommitLocked(incarnation) ==
    /\ committing = "released"
    /\ committing' = "idle"
    /\ Buffered \/ slaves # {}
    /\ version' = version + 1
    /\ IF Buffered
       THEN /\ UpdateCommitCount(incarnation)
            /\ Obsolete(Append(instanceDatas, [version |-> version + 1,
                                               commitCount |-> commitCount']),
                        commitCount', nVersions)
       ELSE UNCHANGED <<commitCount, instanceDatas>>
    /\ UNCHANGED <<nVersions, slaves, slaveMax, maxVersion>>

(* The serialization wrote nothing, or the unbuffered object has no slave: *)
(* no new version.                                                         *)
CommitEmpty(incarnation) ==
    /\ committing = "released"
    /\ committing' = "idle"
    /\ IF Buffered
       THEN /\ UpdateCommitCount(incarnation)
            /\ Obsolete(instanceDatas, commitCount', nVersions)
       ELSE UNCHANGED <<commitCount, instanceDatas>>
    /\ UNCHANGED <<version, nVersions, slaves, slaveMax, maxVersion>>

SetAutoObsolete(count) ==
    /\ Buffered
    /\ nVersions' = count
    /\ Obsolete(instanceDatas, commitCount, count)
    /\ UNCHANGED <<version, commitCount, slaves, slaveMax, maxVersion, committing>>

-----------------------------------------------------------------------------
(* Slave subscription, the command thread, and acknowledgements, the       *)
(* receiver thread.                                                        *)

(* The version a slave that asks for "requested" is told it is mapped to.  *)
MappedVersion(requested) ==
    LET oldest == instanceDatas[1].version IN
    IF ~Buffered \/ requested = VERSION_NONE THEN version
    ELSE IF requested = VERSION_OLDEST \/ requested < oldest THEN oldest
    ELSE requested

\* Mutant: the head version is left to the next commit.
MapDataRange_WithoutHead(requested) ==
    LET start == MappedVersion(requested)
    IN  [start |-> start, end |-> IF start < version THEN version - 1 ELSE version]

(* The versions _initSlave has to provide, from its map data or from the   *)
(* cache of the slave's node; none for a request beyond the head.          *)
MapDataRange(requested) ==
    [start |-> MappedVersion(requested), end |-> version]

(* addSlave: the sum is a 64 bit one.                                      *)
AddSlave(i) ==
    /\ slaves' = slaves \cup {i}
    /\ slaveMax' = [slaveMax EXCEPT ![i] =
                       IF MaxVersions[i] \in {0, UINT64_MAX} THEN UINT64_MAX
                       ELSE (MaxVersions[i] + version) % (UINT64_MAX + 1)]
    /\ UpdateMaxVersion
    /\ UNCHANGED <<version, commitCount, nVersions, instanceDatas, committing>>

\* Mutant: the limit of the slave stays in force.
RemoveSlaves_NoUpdate(gone) ==
    /\ slaves' = slaves \ gone
    /\ slaveMax' = [i \in Instances |->
                       IF i \in gone THEN UINT64_MAX ELSE slaveMax[i]]
    /\ UNCHANGED <<version, commitCount, nVersions, instanceDatas, maxVersion,
                   committing>>

(* removeSlave of one instance, removeSlaves of all instances of a node.   *)
RemoveSlaves(gone) ==
    /\ slaves' = slaves \ gone
    /\ slaveMax' = [i \in Instances |->
                       IF i \in gone THEN UINT64_MAX ELSE slaveMax[i]]
    /\ IF gone \cap slaves = {} THEN UNCHANGED maxVersion ELSE UpdateMaxVersion
    /\ UNCHANGED <<version, commitCount, nVersions, instanceDatas, committing>>

\* Mutant: the limit that came last is in force, not the smallest.
CmdMaxVersion_LastWins(i, limit) ==
    /\ IF i \in slaves
       THEN /\ slaveMax' = [slaveMax EXCEPT ![i] = limit]
            /\ maxVersion' = limit
            /\ UNCHANGED slaves
       ELSE UNCHANGED <<slaves, slaveMax, maxVersion>>
    /\ UNCHANGED <<version, commitCount, nVersions, instanceDatas, committing>>

(* A limit from an instance that is no slave any more is ignored.          *)
CmdMaxVersion(i, limit) ==
    /\ IF i \in slaves
       THEN /\ slaveMax' = [slaveMax EXCEPT ![i] = limit]
            /\ UNCHANGED slaves
            /\ UpdateMaxVersion
       ELSE UNCHANGED <<slaves, slaveMax, maxVersion>>
    /\ UNCHANGED <<version, commitCount, nVersions, instanceDatas, committing>>

-----------------------------------------------------------------------------
(* The change manager by itself: its application commits, and slaves come, *)
(* acknowledge and go as they like.                                        *)

MasterCommit ==
    \/ CommitBegin
    \/ CommitProceed
    \/ \E incarnation \in commitCount..LastCommitCount :
          CommitClean(incarnation) \/ CommitLocked(incarnation)
          \/ CommitEmpty(incarnation)
    \/ \E count \in AutoObsolete : SetAutoObsolete(count)

MasterNext ==
    \/ MasterCommit
    \/ \E i \in Instances \ slaves : AddSlave(i)
    \/ \E i \in Instances : \E limit \in 0..UINT64_MAX : CmdMaxVersion(i, limit)
    \/ \E gone \in SUBSET Instances : RemoveSlaves(gone)

MasterSpec == MasterInit /\ [][MasterNext]_masterVars

-----------------------------------------------------------------------------
(* Type invariant of the change manager: in particular, the limits stay    *)
(* 64 bit numbers.                                                         *)
MasterTypeOK ==
    /\ version \in Nat \ {VERSION_NONE}
    /\ commitCount \in Nat
    /\ nVersions \in Nat
    /\ instanceDatas \in Seq(InstanceData)
    /\ slaves \subseteq Instances
    /\ slaveMax \in [Instances -> 0..UINT64_MAX]
    /\ maxVersion \in 0..UINT64_MAX
    /\ committing \in {"idle", "waiting", "released"}

(* The versions of a sequence of retained data are consecutive and end     *)
(* with v; their commit counts do not decrease and are none of the future; *)
(* all but the oldest are young enough to be retained.                     *)
Consecutive(datas, v) ==
    \A k \in 1..Len(datas) :
        /\ datas[k].version # VERSION_NONE
        /\ datas[k].version = v - Len(datas) + k

InCommitOrder(datas, count) ==
    \A k \in 1..Len(datas) :
        /\ datas[k].commitCount =< count
        /\ \A j \in 1..k : datas[j].commitCount =< datas[k].commitCount

NoneObsolete(datas, count, n) ==
    \A k \in 2..Len(datas) : datas[k].commitCount + n >= count

(* _checkConsistency: the retained versions are consecutive, none of them  *)
(* is VERSION_NONE, they end with the current version, and all but the     *)
(* oldest are at most nVersions commits old.  _initSlave relies on it to   *)
(* send a new slave every version from the mapped one on.                  *)
CheckConsistency ==
    Buffered =>
        /\ instanceDatas # <<>>
        /\ Consecutive(instanceDatas, version)
        /\ NoneObsolete(instanceDatas, commitCount, nVersions)

(* CheckConsistency made inductive: what _obsolete may drop is a prefix,   *)
(* since data is retained in the order of commit counts.                   *)
MasterInv ==
    /\ CheckConsistency
    /\ Buffered => InCommitOrder(instanceDatas, commitCount)

(* Commits are held back by the slowest slave and by no other: _maxVersion *)
(* is a limit of some slave and no slave has a smaller one; without slaves *)
(* there is no limit.  A limit that survived the removal of its slave      *)
(* would block commit() for ever.                                          *)
SlowestSlaveLimits ==
    /\ \A i \in slaves : maxVersion =< slaveMax[i]
    /\ maxVersion = UINT64_MAX \/ \E i \in slaves : maxVersion = slaveMax[i]

(* setAutoObsolete retains versions: while the count is not changed, no    *)
(* step drops data whose commit is at most nVersions commits old, and the  *)
(* data of a retained version never changes.                               *)
RetainsYoung ==
    [][nVersions' = nVersions =>
         \A k \in 1..Len(instanceDatas) :
            instanceDatas[k].commitCount + nVersions >= commitCount' =>
                \E j \in 1..Len(instanceDatas') :
                    instanceDatas'[j] = instanceDatas[k]]_masterVars
=============================================================================
