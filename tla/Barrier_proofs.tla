---------------------------- MODULE Barrier_proofs ----------------------------
(***************************************************************************)
(* Proofs about the barrier as Equalizer uses it, with a new version in    *)
(* each round: for any number of users on any number of nodes, also        *)
(* several on one node, with and without timeouts.                         *)
(*                                                                         *)
(* As long as nobody has given up a round up to v, version v is either     *)
(* open (IsOpen): no reply was sent, nobody has left, and each enter the   *)
(* master has counted or is about to count is that of another user; or it  *)
(* is over (IsOver): everybody has entered, and the one reply that each    *)
(* node gets is not late, since no user of the node has gone on before it. *)
(* The count of the open versions is what makes the release of a barrier   *)
(* mean that everybody has entered.                                        *)
(***************************************************************************)
EXTENDS Barrier, FiniteSetTheorems, FunctionTheorems, SequenceTheorems, TLAPS

(* The setups of Equalizer, whose compounds commit the swap barriers for   *)
(* each frame.                                                             *)
NewVersions == \A s \in Setups : s.commitEachRound

EnterPackets == [version : Rounds, incarnation : Nat]

Types ==
    /\ setup \in Setups
    /\ version \in [Nodes -> Rounds]
    /\ leaveNotify \in [Nodes -> Nat]
    /\ pc \in [Users -> {"idle", "syncing", "synced", "waiting"}]
    /\ round \in [Users -> 0..LastRound]
    /\ leaveVal \in [Users -> Nat]
    /\ enter \in [Nodes -> Seq(EnterPackets)]
    /\ reply \in [Nodes -> Seq(Rounds)]
    /\ enteredNodes \in [Rounds -> [nodes : Seq(Nodes), incarnation : Nat]]
    /\ left \in [Users -> SUBSET Rounds]
    /\ gaveUp \in [Users -> SUBSET Rounds]

(* Nobody has given up a round up to v.                                    *)
Clean(v) == \A u \in Users : \A q \in gaveUp[u] : q > v

(* The instance of a user's node has the version of the user's round.      *)
SyncInv ==
    /\ \A u \in Users :
          /\ pc[u] = "syncing" => /\ version[NodeOf[u]] + 1 = round[u]
                                  /\ Clean(round[u]) => leaveNotify[NodeOf[u]] = 0
          /\ pc[u] # "syncing" => version[NodeOf[u]] >= round[u]
          /\ pc[u] # "idle" => round[u] >= 1
          /\ pc[u] = "waiting" => leaveVal[u] >= 1
    /\ \A u, w \in Users : pc[u] = "syncing" /\ pc[w] = "syncing" /\ NodeOf[u] = NodeOf[w] => u = w

(* The users that have entered version v, and the enters of it under way.  *)
Entered(v) == {u \in Users : HasEntered(u, v)}

Slots(v) == UNION {{<<n, k>> : k \in {k \in 1..Len(enter[n]) : enter[n][k].version = v}} : n \in Nodes}

(* User u has not left version v, nor has its node been released.          *)
Behind(u, v) ==
    /\ round[u] =< v /\ (round[u] = v => pc[u] # "idle")
    /\ version[NodeOf[u]] =< v
    /\ version[NodeOf[u]] = v => leaveNotify[NodeOf[u]] = 0

IsOpen(v) ==
    /\ IsFiniteSet(Slots(v))
    /\ Len(enteredNodes[v].nodes) + Cardinality(Slots(v)) =< Cardinality(Entered(v))
    /\ enteredNodes[v].incarnation = 0
    /\ \A n \in Nodes : \A k \in 1..Len(enter[n]) :
          enter[n][k].version = v => enter[n][k].incarnation = 0
    /\ \A n \in Nodes : \A k \in 1..Len(reply[n]) : reply[n][k] # v
    /\ \A u \in Users : Behind(u, v)

(* The reply for version v that is under way to node n.                    *)
InTime(v, n) ==
    \A u \in Users : NodeOf[u] = n =>
        round[u] = v /\ pc[u] = "waiting" /\ version[n] = v /\ leaveNotify[n] = 0

IsOver(v) ==
    /\ enteredNodes[v].nodes = <<>>
    /\ \A n \in Nodes : \A k \in 1..Len(enter[n]) : enter[n][k].version # v
    /\ \A u \in Users : HasEntered(u, v)
    /\ \A n \in Nodes : \A k \in 1..Len(reply[n]) : reply[n][k] = v =>
          InTime(v, n) /\ \A j \in 1..Len(reply[n]) : reply[n][j] = v => j = k

PhaseInv == \A v \in Rounds : Clean(v) => IsOpen(v) \/ IsOver(v)

(* Without a timeout nobody gives up.                                      *)
PatientInv == ~Timed => \A u \in Users : gaveUp[u] = {}

BarrierInv == Types /\ SyncInv /\ PhaseInv /\ LeavesTogether /\ PatientInv

-----------------------------------------------------------------------------
(* What the setup fixes.                                                   *)
LEMMA SetupFacts ==
    ASSUME NewVersions, Types
    PROVE  /\ CommitEachRound /\ Versions = Rounds /\ \A r : VersionOf(r) = r
           /\ LastRound \in Nat \ {0} /\ NodeOf \in [Users -> Nodes]
           /\ \E u \in Users : NodeOf[u] = Master
           /\ IsFiniteSet(Users) /\ height \in Nat /\ Timed \in BOOLEAN
           /\ Rounds = 1..LastRound
  <1>1. setup \in Setups /\ setup.commitEachRound
        BY DEF Types, NewVersions
  <1>2. /\ setup.nodeOf \in [Users -> Nodes] /\ \E u \in Users : setup.nodeOf[u] = Master
        /\ setup.lastRound \in Nat \ {0} /\ setup.timed \in BOOLEAN
        BY <1>1, BarrierAssumption
  <1>3. IsFiniteSet(Users) /\ Cardinality(Users) \in Nat
        BY BarrierAssumption, FS_CardinalityType
  <1> QED BY <1>1, <1>2, <1>3
          DEF CommitEachRound, Versions, VersionOf, LastRound, NodeOf, height, Timed, Rounds

(* What no step changes.                                                   *)
LEMMA SetupSame ==
    ASSUME setup' = setup
    PROVE  /\ NodeOf' = NodeOf /\ CommitEachRound' = CommitEachRound /\ (Timed' <=> Timed)
           /\ LastRound' = LastRound /\ Rounds' = Rounds /\ EnterPackets' = EnterPackets
  BY DEF NodeOf, CommitEachRound, Timed, LastRound, Rounds, EnterPackets

(* Steps of users that send nothing.                                       *)
StreamsLeave ==
    setup' = setup /\ enter' = enter /\ reply' = reply /\ enteredNodes' = enteredNodes

\* An open version stays open when nobody enters it and nobody gets ahead of it.
LEMMA OpenKept ==
    ASSUME StreamsLeave, NEW v, IsOpen(v),
           \A u \in Users : HasEntered(u, v)' <=> HasEntered(u, v),
           \A u \in Users : Behind(u, v)'
    PROVE  IsOpen(v)'
  <1>1. Slots(v)' = Slots(v)
        BY DEF Slots, StreamsLeave
  <1>2. Entered(v)' = Entered(v)
        BY DEF Entered
  <1> QED BY <1>1, <1>2 DEF IsOpen, StreamsLeave

(* A version that is over stays over while its replies remain in time.     *)
LEMMA OverKept ==
    ASSUME StreamsLeave, NEW v, IsOver(v),
           \A u \in Users : HasEntered(u, v) => HasEntered(u, v)',
           \A n \in Nodes : \A k : k \in 1..Len(reply[n]) /\ reply[n][k] = v /\ InTime(v, n) => InTime(v, n)'
    PROVE  IsOver(v)'
  BY DEF IsOver, StreamsLeave

(* If nobody has given up a round up to v, nobody has up to an earlier one.*)
LEMMA CleanDown ==
    ASSUME Types, NEW v \in Int, NEW w \in Int, w =< v, Clean(v)
    PROVE  Clean(w)
  <1>1. \A u \in Users : \A q \in gaveUp[u] : q \in Int
    <2>1. \A u \in Users : \A q \in gaveUp[u] : q \in Rounds
          BY DEF Types
    <2> QED BY <2>1 DEF Rounds
  <1> QED BY <1>1 DEF Clean

(* LeavesTogether survives steps in which nobody leaves.                   *)
LEMMA TogetherKept ==
    ASSUME Types, LeavesTogether, left' = left,
           \A u \in Users : gaveUp[u] \subseteq gaveUp'[u],
           \A u \in Users, r \in Rounds : HasEntered(u, r) => HasEntered(u, r)'
    PROVE  LeavesTogether'
  <1>1. \A u \in Users : \A r \in left[u] : r \in Rounds
        BY DEF Types
  <1> QED BY <1>1 DEF LeavesTogether

(* getBarrier of a version the node already has.                           *)
LEMMA GetBarrierStep ==
    ASSUME NewVersions, BarrierInv, NEW u \in Users, GetBarrier(u)
    PROVE  BarrierInv'
  <1>t. Types /\ SyncInv /\ PhaseInv /\ LeavesTogether /\ PatientInv
        BY DEF BarrierInv
  <1>s. /\ \A r : VersionOf(r) = r
        /\ LastRound \in Nat \ {0} /\ NodeOf \in [Users -> Nodes] /\ Rounds = 1..LastRound
        BY <1>t, SetupFacts
  <1>0. /\ pc[u] = "idle" /\ round[u] < LastRound /\ version[NodeOf[u]] >= round[u] + 1
        /\ round' = [round EXCEPT ![u] = round[u] + 1] /\ pc' = [pc EXCEPT ![u] = "synced"]
        /\ StreamsLeave /\ version' = version /\ leaveNotify' = leaveNotify /\ leaveVal' = leaveVal
        /\ left' = left /\ gaveUp' = gaveUp
        BY <1>s DEF GetBarrier, StreamsLeave
  <1>n. /\ NodeOf' = NodeOf /\ (Timed' <=> Timed)
        /\ LastRound' = LastRound /\ Rounds' = Rounds /\ EnterPackets' = EnterPackets
        BY <1>0, SetupSame DEF StreamsLeave
  <1>1. /\ round \in [Users -> 0..LastRound] /\ pc \in [Users -> {"idle", "syncing", "synced", "waiting"}]
        /\ version \in [Nodes -> Rounds]
        BY <1>t DEF Types
  <1>2. /\ round'[u] = round[u] + 1 /\ pc'[u] = "synced"
        /\ \A w \in Users : w # u => round'[w] = round[w] /\ pc'[w] = pc[w]
        /\ round' \in [Users -> 0..LastRound] /\ pc' \in [Users -> {"idle", "syncing", "synced", "waiting"}]
        BY <1>0, <1>1, <1>s
  <1>3. Types'
        BY <1>0, <1>2, <1>n, <1>t DEF Types, StreamsLeave
  <1>4. \A v : Clean(v)' <=> Clean(v)
        BY <1>0 DEF Clean
  <1>5. SyncInv'
    <2>2. ASSUME NEW w \in Users
          PROVE  /\ pc'[w] = "syncing" => /\ version'[NodeOf[w]] + 1 = round'[w]
                                          /\ Clean(round'[w]) => leaveNotify'[NodeOf[w]] = 0
                 /\ pc'[w] # "syncing" => version'[NodeOf[w]] >= round'[w]
                 /\ pc'[w] # "idle" => round'[w] >= 1
                 /\ pc'[w] = "waiting" => leaveVal'[w] >= 1
      <3>1. CASE w = u
            BY <1>0, <1>1, <1>2, <1>s, <3>1
      <3>2. CASE w # u
            BY <1>0, <1>2, <1>s, <1>t, <3>2 DEF SyncInv
      <3> QED BY <3>1, <3>2
    <2>3. ASSUME NEW w \in Users, NEW x \in Users, pc'[w] = "syncing", pc'[x] = "syncing",
                 NodeOf[w] = NodeOf[x]
          PROVE  w = x
      <3>1. w # u /\ x # u
            BY <1>2, <2>3
      <3> QED BY <1>2, <1>t, <2>3, <3>1 DEF SyncInv
    <2> QED BY <1>0, <1>n, <2>2, <2>3 DEF SyncInv, Clean
  <1>6. \A w \in Users, r \in Rounds : HasEntered(w, r) => HasEntered(w, r)'
    <2>1. ASSUME NEW r \in Rounds, HasEntered(u, r)
          PROVE  HasEntered(u, r)'
      <3>1. r \in Int /\ round[u] \in Int
            BY <1>1, <1>s
      <3> QED BY <1>2, <2>1, <3>1 DEF HasEntered
    <2> QED BY <1>2, <2>1 DEF HasEntered
  <1>7. ASSUME NEW v \in Rounds, Clean(v)'
        PROVE  IsOpen(v)' \/ IsOver(v)'
    <2>1. IsOpen(v) \/ IsOver(v)
          BY <1>4, <1>7, <1>t DEF PhaseInv
    <2>2. CASE IsOpen(v)
      <3>1. \A w \in Users : Behind(w, v)
            BY <2>2 DEF IsOpen
      <3>2. round[u] < v /\ v \in Int /\ round[u] \in Int
            BY <1>0, <1>1, <1>s, <3>1 DEF Behind
      <3>3. \A w \in Users : HasEntered(w, v)' <=> HasEntered(w, v)
        <4>1. ~HasEntered(u, v)'
              BY <1>2, <3>2 DEF HasEntered
        <4> QED BY <1>2, <1>6, <4>1 DEF HasEntered
      <3>4. \A w \in Users : Behind(w, v)'
        <4>1. Behind(u, v)'
              BY <1>0, <1>2, <1>n, <3>1, <3>2 DEF Behind
        <4> QED BY <1>0, <1>2, <1>n, <3>1, <4>1 DEF Behind
      <3> QED BY <1>0, <2>2, <3>3, <3>4, OpenKept
    <2>3. CASE IsOver(v)
      <3>1. ASSUME NEW n \in Nodes, InTime(v, n)
            PROVE  InTime(v, n)'
        <4>1. NodeOf[u] # n
              BY <1>0, <3>1 DEF InTime
        <4> QED BY <1>0, <1>2, <1>n, <3>1, <4>1 DEF InTime
      <3> QED BY <1>0, <1>6, <2>3, <3>1, OverKept
    <2> QED BY <2>1, <2>2, <2>3
  <1>8. PhaseInv'
        BY <1>7, <1>n DEF PhaseInv
  <1>9. LeavesTogether'
        BY <1>0, <1>6, <1>t, TogetherKept
  <1>10. PatientInv'
         BY <1>0, <1>n, <1>t DEF PatientInv
  <1> QED BY <1>3, <1>5, <1>8, <1>9, <1>10 DEF BarrierInv

(* unpack resets leaveNotify.                                              *)
LEMMA UnpackStep ==
    ASSUME NewVersions, BarrierInv, NEW u \in Users, Unpack(u)
    PROVE  BarrierInv'
  <1>t. Types /\ SyncInv /\ PhaseInv /\ LeavesTogether /\ PatientInv
        BY DEF BarrierInv
  <1>s. /\ \A r : VersionOf(r) = r
        /\ LastRound \in Nat \ {0} /\ NodeOf \in [Users -> Nodes] /\ Rounds = 1..LastRound
        BY <1>t, SetupFacts
  <1>0. /\ pc[u] = "idle" /\ round[u] < LastRound /\ version[NodeOf[u]] < round[u] + 1
        /\ \A w \in Users : NodeOf[w] = NodeOf[u] => pc[w] # "syncing"
        /\ round' = [round EXCEPT ![u] = round[u] + 1] /\ pc' = [pc EXCEPT ![u] = "syncing"]
        /\ leaveNotify' = [leaveNotify EXCEPT ![NodeOf[u]] = 0]
        /\ StreamsLeave /\ version' = version /\ leaveVal' = leaveVal
        /\ left' = left /\ gaveUp' = gaveUp
        BY <1>s DEF Unpack, StreamsLeave
  <1>n. /\ NodeOf' = NodeOf /\ (Timed' <=> Timed)
        /\ LastRound' = LastRound /\ Rounds' = Rounds /\ EnterPackets' = EnterPackets
        BY <1>0, SetupSame DEF StreamsLeave
  <1>1. /\ round \in [Users -> 0..LastRound] /\ pc \in [Users -> {"idle", "syncing", "synced", "waiting"}]
        /\ version \in [Nodes -> Rounds] /\ leaveNotify \in [Nodes -> Nat]
        BY <1>t DEF Types
  <1>2. /\ round'[u] = round[u] + 1 /\ pc'[u] = "syncing"
        /\ \A w \in Users : w # u => round'[w] = round[w] /\ pc'[w] = pc[w]
        /\ round' \in [Users -> 0..LastRound] /\ pc' \in [Users -> {"idle", "syncing", "synced", "waiting"}]
        BY <1>0, <1>1, <1>s
  <1>l. /\ leaveNotify' \in [Nodes -> Nat] /\ leaveNotify'[NodeOf[u]] = 0
        /\ \A n \in Nodes : leaveNotify[n] = 0 => leaveNotify'[n] = 0
        BY <1>0, <1>1, <1>s
  <1>3. Types'
        BY <1>0, <1>2, <1>l, <1>n, <1>t DEF Types, StreamsLeave
  <1>4. \A v : Clean(v)' <=> Clean(v)
        BY <1>0 DEF Clean
  <1>v. version[NodeOf[u]] = round[u]
    <2>1. version[NodeOf[u]] >= round[u] /\ version[NodeOf[u]] \in Int /\ round[u] \in Int
          BY <1>0, <1>1, <1>s, <1>t DEF SyncInv
    <2> QED BY <1>0, <2>1
  <1>5. SyncInv'
    <2>1. \A w \in Users : round'[w] \in Nat /\ (w # u => round'[w] = round[w])
          BY <1>2, <1>s
    <2>2. ASSUME NEW w \in Users
          PROVE  /\ pc'[w] = "syncing" => /\ version'[NodeOf[w]] + 1 = round'[w]
                                          /\ Clean(round'[w]) => leaveNotify'[NodeOf[w]] = 0
                 /\ pc'[w] # "syncing" => version'[NodeOf[w]] >= round'[w]
                 /\ pc'[w] # "idle" => round'[w] >= 1
                 /\ pc'[w] = "waiting" => leaveVal'[w] >= 1
      <3>1. CASE w = u
            BY <1>0, <1>1, <1>2, <1>l, <1>s, <1>v, <3>1
      <3>2. CASE w # u
            BY <1>0, <1>2, <1>l, <1>s, <1>t, <3>2 DEF SyncInv
      <3> QED BY <3>1, <3>2
    <2>3. ASSUME NEW w \in Users, NEW x \in Users, pc'[w] = "syncing", pc'[x] = "syncing",
                 NodeOf[w] = NodeOf[x]
          PROVE  w = x
          BY <1>0, <1>2, <1>t, <2>3 DEF SyncInv
    <2> QED BY <1>0, <1>n, <2>2, <2>3 DEF SyncInv, Clean
  <1>6. \A w \in Users, r \in Rounds : HasEntered(w, r) => HasEntered(w, r)'
    <2>1. ASSUME NEW r \in Rounds, HasEntered(u, r)
          PROVE  HasEntered(u, r)'
      <3>1. r \in Int /\ round[u] \in Int
            BY <1>1, <1>s
      <3> QED BY <1>2, <2>1, <3>1 DEF HasEntered
    <2> QED BY <1>2, <2>1 DEF HasEntered
  <1>7. ASSUME NEW v \in Rounds, Clean(v)'
        PROVE  IsOpen(v)' \/ IsOver(v)'
    <2>1. IsOpen(v) \/ IsOver(v)
          BY <1>4, <1>7, <1>t DEF PhaseInv
    <2>2. CASE IsOpen(v)
      <3>1. \A w \in Users : Behind(w, v)
            BY <2>2 DEF IsOpen
      <3>2. round[u] < v /\ v \in Int /\ round[u] \in Int
            BY <1>0, <1>1, <1>s, <3>1 DEF Behind
      <3>3. \A w \in Users : HasEntered(w, v)' <=> HasEntered(w, v)
        <4>1. ~HasEntered(u, v)'
              BY <1>2, <3>2 DEF HasEntered
        <4> QED BY <1>2, <1>6, <4>1 DEF HasEntered
      <3>4. \A w \in Users : Behind(w, v)'
        <4>1. Behind(u, v)'
              BY <1>0, <1>2, <1>l, <1>n, <3>1, <3>2 DEF Behind
        <4> QED BY <1>0, <1>2, <1>l, <1>n, <1>s, <3>1, <4>1 DEF Behind
      <3> QED BY <1>0, <2>2, <3>3, <3>4, OpenKept
    <2>3. CASE IsOver(v)
      <3>1. ASSUME NEW n \in Nodes, InTime(v, n)
            PROVE  InTime(v, n)'
        <4>1. NodeOf[u] # n
              BY <1>0, <3>1 DEF InTime
        <4> QED BY <1>0, <1>2, <1>l, <1>n, <3>1, <4>1 DEF InTime
      <3> QED BY <1>0, <1>6, <2>3, <3>1, OverKept
    <2> QED BY <2>1, <2>2, <2>3
  <1>8. PhaseInv'
        BY <1>7, <1>n DEF PhaseInv
  <1>9. LeavesTogether'
        BY <1>0, <1>6, <1>t, TogetherKept
  <1>10. PatientInv'
         BY <1>0, <1>n, <1>t DEF PatientInv
  <1> QED BY <1>3, <1>5, <1>8, <1>9, <1>10 DEF BarrierInv

(* The version that a user waits for is always the next one of its node.   *)
LEMMA SetVersionStep ==
    ASSUME NewVersions, BarrierInv, NEW u \in Users, SetVersion(u)
    PROVE  BarrierInv'
  <1>t. Types /\ SyncInv /\ PhaseInv /\ LeavesTogether /\ PatientInv
        BY DEF BarrierInv
  <1>s. /\ \A r : VersionOf(r) = r
        /\ LastRound \in Nat \ {0} /\ NodeOf \in [Users -> Nodes] /\ Rounds = 1..LastRound
        BY <1>t, SetupFacts
  <1>1. /\ round \in [Users -> 0..LastRound] /\ pc \in [Users -> {"idle", "syncing", "synced", "waiting"}]
        /\ version \in [Nodes -> Rounds] /\ leaveNotify \in [Nodes -> Nat]
        BY <1>t DEF Types
  <1>v. pc[u] = "syncing" /\ version[NodeOf[u]] + 1 = round[u] /\ round[u] >= 1
        /\ (Clean(round[u]) => leaveNotify[NodeOf[u]] = 0)
        BY <1>t DEF SyncInv, SetVersion
  <1>0. /\ version' = [version EXCEPT ![NodeOf[u]] = round[u]] /\ pc' = [pc EXCEPT ![u] = "synced"]
        /\ StreamsLeave /\ round' = round /\ leaveNotify' = leaveNotify /\ leaveVal' = leaveVal
        /\ left' = left /\ gaveUp' = gaveUp
        BY <1>s, <1>v DEF SetVersion, StreamsLeave
  <1>n. /\ NodeOf' = NodeOf /\ (Timed' <=> Timed)
        /\ LastRound' = LastRound /\ Rounds' = Rounds /\ EnterPackets' = EnterPackets
        BY <1>0, SetupSame DEF StreamsLeave
  <1>2. /\ pc'[u] = "synced" /\ \A w \in Users : w # u => pc'[w] = pc[w]
        /\ pc' \in [Users -> {"idle", "syncing", "synced", "waiting"}]
        BY <1>0, <1>1
  <1>r. round[u] \in Rounds
        BY <1>1, <1>s, <1>v
  <1>w. /\ version'[NodeOf[u]] = round[u] /\ version' \in [Nodes -> Rounds]
        /\ \A n \in Nodes : n # NodeOf[u] => version'[n] = version[n]
        BY <1>0, <1>1, <1>r, <1>s
  <1>3. Types'
        BY <1>0, <1>2, <1>w, <1>n, <1>t DEF Types, StreamsLeave
  <1>4. \A v : Clean(v)' <=> Clean(v)
        BY <1>0 DEF Clean
  <1>5. SyncInv'
    <2>2. ASSUME NEW w \in Users
          PROVE  /\ pc'[w] = "syncing" => /\ version'[NodeOf[w]] + 1 = round'[w]
                                          /\ Clean(round'[w]) => leaveNotify'[NodeOf[w]] = 0
                 /\ pc'[w] # "syncing" => version'[NodeOf[w]] >= round'[w]
                 /\ pc'[w] # "idle" => round'[w] >= 1
                 /\ pc'[w] = "waiting" => leaveVal'[w] >= 1
      <3>1. CASE w = u
            BY <1>0, <1>1, <1>2, <1>s, <1>v, <1>w, <3>1
      <3>2. CASE w # u /\ NodeOf[w] = NodeOf[u]
        <4>1. pc[w] # "syncing" /\ version[NodeOf[u]] >= round[w]
              BY <1>t, <1>v, <3>2 DEF SyncInv
        <4>2. round[u] >= round[w]
              BY <4>1, <1>v, <1>1, <1>s
        <4> QED BY <1>0, <1>2, <1>t, <1>w, <3>2, <4>1, <4>2 DEF SyncInv
      <3>3. CASE NodeOf[w] # NodeOf[u]
        <4>1. w # u /\ version'[NodeOf[w]] = version[NodeOf[w]]
              BY <1>s, <1>w, <3>3
        <4> QED BY <1>0, <1>2, <1>t, <4>1 DEF SyncInv
      <3> QED BY <3>1, <3>2, <3>3
    <2>3. ASSUME NEW w \in Users, NEW x \in Users, pc'[w] = "syncing", pc'[x] = "syncing",
                 NodeOf[w] = NodeOf[x]
          PROVE  w = x
      <3>1. w # u /\ x # u
            BY <1>2, <2>3
      <3> QED BY <1>2, <1>t, <2>3, <3>1 DEF SyncInv
    <2> QED BY <1>0, <1>n, <2>2, <2>3 DEF SyncInv, Clean
  <1>6. \A w \in Users, r \in Rounds : HasEntered(w, r)' <=> HasEntered(w, r)
    <2>1. ASSUME NEW w \in Users, NEW r \in Rounds
          PROVE  HasEntered(w, r)' <=> HasEntered(w, r)
      <3>1. CASE w = u
            BY <1>0, <1>2, <1>v, <3>1 DEF HasEntered
      <3>2. CASE w # u
            BY <1>0, <1>2, <3>2 DEF HasEntered
      <3> QED BY <3>1, <3>2
    <2> QED BY <2>1
  <1>7. ASSUME NEW v \in Rounds, Clean(v)'
        PROVE  IsOpen(v)' \/ IsOver(v)'
    <2>1. (IsOpen(v) \/ IsOver(v)) /\ Clean(v)
          BY <1>4, <1>7, <1>t DEF PhaseInv
    <2>2. CASE IsOpen(v)
      <3>1. \A w \in Users : Behind(w, v)
            BY <2>2 DEF IsOpen
      <3>2. round[u] =< v /\ v \in Int /\ round[u] \in Int
            BY <1>1, <1>s, <3>1 DEF Behind
      <3>3. Clean(round[u])
            BY <2>1, <3>2, <1>t, CleanDown
      <3>4. ASSUME NEW w \in Users
            PROVE  Behind(w, v)'
        <4>1. round[w] =< v /\ (round[w] = v => pc'[w] # "idle")
              BY <1>2, <3>1 DEF Behind
        <4>2. version'[NodeOf[w]] =< v /\ (version'[NodeOf[w]] = v => leaveNotify[NodeOf[w]] = 0)
          <5>1. CASE NodeOf[w] = NodeOf[u]
                BY <1>v, <1>w, <3>2, <3>3, <5>1
          <5>2. CASE NodeOf[w] # NodeOf[u]
            <6>1. version'[NodeOf[w]] = version[NodeOf[w]]
                  BY <1>s, <1>w, <5>2
            <6> QED BY <3>1, <6>1 DEF Behind
          <5> QED BY <5>1, <5>2
        <4> QED BY <1>0, <1>n, <4>1, <4>2 DEF Behind
      <3> QED BY <1>0, <1>6, <2>2, <3>4, OpenKept
    <2>3. CASE IsOver(v)
      <3>1. ASSUME NEW n \in Nodes, InTime(v, n)
            PROVE  InTime(v, n)'
        <4>1. NodeOf[u] # n
              BY <1>v, <3>1 DEF InTime
        <4>2. version'[n] = version[n]
              BY <1>w, <4>1
        <4> QED BY <1>0, <1>2, <1>n, <3>1, <4>1, <4>2 DEF InTime
      <3> QED BY <1>0, <1>6, <2>3, <3>1, OverKept
    <2> QED BY <2>1, <2>2, <2>3
  <1>8. PhaseInv'
        BY <1>7, <1>n DEF PhaseInv
  <1>9. LeavesTogether'
        BY <1>0, <1>6, <1>t, TogetherKept
  <1>10. PatientInv'
         BY <1>0, <1>n, <1>t DEF PatientInv
  <1> QED BY <1>3, <1>5, <1>8, <1>9, <1>10 DEF BarrierInv

(* Who leaves a version that nobody has given up leaves one that is over.  *)
LEMMA LeaveStep ==
    ASSUME NewVersions, BarrierInv, NEW u \in Users, Leave(u)
    PROVE  BarrierInv'
  <1>t. Types /\ SyncInv /\ PhaseInv /\ LeavesTogether /\ PatientInv
        BY DEF BarrierInv
  <1>s. /\ LastRound \in Nat \ {0} /\ NodeOf \in [Users -> Nodes] /\ Rounds = 1..LastRound
        BY <1>t, SetupFacts
  <1>0. /\ pc[u] = "waiting" /\ leaveNotify[NodeOf[u]] = leaveVal[u]
        /\ pc' = [pc EXCEPT ![u] = "idle"] /\ left' = [left EXCEPT ![u] = @ \cup {round[u]}]
        /\ StreamsLeave /\ round' = round /\ version' = version /\ leaveNotify' = leaveNotify
        /\ leaveVal' = leaveVal /\ gaveUp' = gaveUp
        BY DEF Leave, StreamsLeave
  <1>n. /\ NodeOf' = NodeOf /\ (Timed' <=> Timed)
        /\ LastRound' = LastRound /\ Rounds' = Rounds /\ EnterPackets' = EnterPackets
        BY <1>0, SetupSame DEF StreamsLeave
  <1>1. /\ round \in [Users -> 0..LastRound] /\ pc \in [Users -> {"idle", "syncing", "synced", "waiting"}]
        /\ version \in [Nodes -> Rounds] /\ left \in [Users -> SUBSET Rounds]
        /\ leaveNotify \in [Nodes -> Nat] /\ gaveUp \in [Users -> SUBSET Rounds]
        BY <1>t DEF Types
  <1>v. version[NodeOf[u]] >= round[u] /\ round[u] \in Rounds /\ leaveNotify[NodeOf[u]] # 0
    <2>1. version[NodeOf[u]] >= round[u] /\ round[u] >= 1 /\ leaveVal[u] >= 1
          BY <1>0, <1>t DEF SyncInv
    <2> QED BY <1>0, <1>1, <1>s, <2>1
  <1>2. /\ pc'[u] = "idle" /\ \A w \in Users : w # u => pc'[w] = pc[w]
        /\ pc' \in [Users -> {"idle", "syncing", "synced", "waiting"}]
        BY <1>0, <1>1
  <1>f. /\ left' \in [Users -> SUBSET Rounds] /\ left'[u] = left[u] \cup {round[u]}
        /\ \A w \in Users : w # u => left'[w] = left[w]
        BY <1>0, <1>1, <1>v
  <1>3. Types'
        BY <1>0, <1>2, <1>f, <1>n, <1>t DEF Types, StreamsLeave
  <1>4. \A v : Clean(v)' <=> Clean(v)
        BY <1>0 DEF Clean
  <1>5. SyncInv'
    <2>2. ASSUME NEW w \in Users
          PROVE  /\ pc'[w] = "syncing" => /\ version'[NodeOf[w]] + 1 = round'[w]
                                          /\ Clean(round'[w]) => leaveNotify'[NodeOf[w]] = 0
                 /\ pc'[w] # "syncing" => version'[NodeOf[w]] >= round'[w]
                 /\ pc'[w] # "idle" => round'[w] >= 1
                 /\ pc'[w] = "waiting" => leaveVal'[w] >= 1
      <3>1. CASE w = u
            BY <1>0, <1>2, <1>v, <3>1
      <3>2. CASE w # u
            BY <1>0, <1>2, <1>t, <3>2 DEF SyncInv
      <3> QED BY <3>1, <3>2
    <2>3. ASSUME NEW w \in Users, NEW x \in Users, pc'[w] = "syncing", pc'[x] = "syncing",
                 NodeOf[w] = NodeOf[x]
          PROVE  w = x
      <3>1. w # u /\ x # u
            BY <1>2, <2>3
      <3> QED BY <1>2, <1>t, <2>3, <3>1 DEF SyncInv
    <2> QED BY <1>0, <1>n, <2>2, <2>3 DEF SyncInv, Clean
  <1>6. \A w \in Users : \A r : HasEntered(w, r)' <=> HasEntered(w, r)
        BY <1>0, <1>2 DEF HasEntered
  <1>7. ASSUME NEW v \in Rounds, Clean(v)'
        PROVE  IsOpen(v)' \/ IsOver(v)'
    <2>1. IsOpen(v) \/ IsOver(v)
          BY <1>4, <1>7, <1>t DEF PhaseInv
    <2>2. CASE IsOpen(v)
      <3>1. \A w \in Users : Behind(w, v)
            BY <2>2 DEF IsOpen
      <3>2. round[u] # v
        <4>1. /\ version[NodeOf[u]] =< v /\ version[NodeOf[u]] # v
              /\ version[NodeOf[u]] \in Int /\ round[u] \in Int /\ v \in Int
              BY <1>1, <1>s, <1>v, <3>1 DEF Behind
        <4> QED BY <4>1, <1>v
      <3>4. \A w \in Users : Behind(w, v)'
            BY <1>0, <1>2, <1>n, <3>1, <3>2 DEF Behind
      <3> QED BY <1>0, <1>6, <2>2, <3>4, OpenKept
    <2>3. CASE IsOver(v)
      <3>1. ASSUME NEW n \in Nodes, InTime(v, n)
            PROVE  InTime(v, n)'
        <4>1. NodeOf[u] # n
              BY <1>v, <3>1 DEF InTime
        <4> QED BY <1>0, <1>2, <1>n, <3>1, <4>1 DEF InTime
      <3> QED BY <1>0, <1>6, <2>3, <3>1, OverKept
    <2> QED BY <2>1, <2>2, <2>3
  <1>8. PhaseInv'
        BY <1>7, <1>n DEF PhaseInv
  <1>9. LeavesTogether'
    <2>1. CASE Clean(round[u])
      <3>1. ~IsOpen(round[u])
        <4>1. SUFFICES ASSUME IsOpen(round[u])
                       PROVE  FALSE
              OBVIOUS
        <4>2. /\ version[NodeOf[u]] =< round[u] /\ version[NodeOf[u]] # round[u]
              /\ version[NodeOf[u]] \in Int /\ round[u] \in Int
              BY <1>1, <1>s, <1>v, <4>1 DEF IsOpen, Behind
        <4> QED BY <4>2, <1>v
      <3>2. \A other \in Users : HasEntered(other, round[u])
            BY <1>t, <1>v, <2>1, <3>1 DEF PhaseInv, IsOver
      <3>3. ASSUME NEW w \in Users, NEW r \in left'[w]
            PROVE  \/ \A other \in Users : HasEntered(other, r)
                   \/ \E other \in Users : \E q \in gaveUp[other] : q =< r
        <4>1. r \in left[w] \/ r = round[u]
              BY <1>f, <3>3
        <4> QED BY <1>t, <3>2, <4>1 DEF LeavesTogether
      <3> QED BY <1>0, <1>6, <3>3 DEF LeavesTogether
    <2>2. CASE ~Clean(round[u])
      <3>1. PICK x \in Users : \E q \in gaveUp[x] : ~(q > round[u])
            BY <2>2 DEF Clean
      <3>2. PICK q \in gaveUp[x] : ~(q > round[u])
            BY <3>1
      <3>3. q =< round[u]
            BY <1>1, <1>s, <1>v, <3>2
      <3>4. ASSUME NEW w \in Users, NEW r \in left'[w]
            PROVE  \/ \A other \in Users : HasEntered(other, r)
                   \/ \E other \in Users : \E y \in gaveUp[other] : y =< r
        <4>1. r \in left[w] \/ r = round[u]
              BY <1>f, <3>4
        <4> QED BY <1>t, <3>2, <3>3, <4>1 DEF LeavesTogether
      <3> QED BY <1>0, <1>6, <3>4 DEF LeavesTogether
    <2> QED BY <2>1, <2>2
  <1>10. PatientInv'
         BY <1>0, <1>n, <1>t DEF PatientInv
  <1> QED BY <1>3, <1>5, <1>8, <1>9, <1>10 DEF BarrierInv

(* A timeout says nothing of the versions before the one that was given    *)
(* up, and the others are no longer clean.                                 *)
LEMMA TimeoutStep ==
    ASSUME NewVersions, BarrierInv, NEW u \in Users, TimeoutBarrier(u)
    PROVE  BarrierInv'
  <1>t. Types /\ SyncInv /\ PhaseInv /\ LeavesTogether /\ PatientInv
        BY DEF BarrierInv
  <1>s. /\ LastRound \in Nat \ {0} /\ NodeOf \in [Users -> Nodes] /\ Rounds = 1..LastRound
        BY <1>t, SetupFacts
  <1>0. /\ pc[u] = "waiting" /\ Timed
        /\ pc' = [pc EXCEPT ![u] = "idle"] /\ gaveUp' = [gaveUp EXCEPT ![u] = @ \cup {round[u]}]
        /\ StreamsLeave /\ round' = round /\ version' = version /\ leaveNotify' = leaveNotify
        /\ leaveVal' = leaveVal /\ left' = left
        BY DEF TimeoutBarrier, StreamsLeave
  <1>n. /\ NodeOf' = NodeOf /\ (Timed' <=> Timed)
        /\ LastRound' = LastRound /\ Rounds' = Rounds /\ EnterPackets' = EnterPackets
        BY <1>0, SetupSame DEF StreamsLeave
  <1>1. /\ round \in [Users -> 0..LastRound] /\ pc \in [Users -> {"idle", "syncing", "synced", "waiting"}]
        /\ gaveUp \in [Users -> SUBSET Rounds]
        BY <1>t DEF Types
  <1>v. version[NodeOf[u]] >= round[u] /\ round[u] \in Rounds
    <2>1. version[NodeOf[u]] >= round[u] /\ round[u] >= 1
          BY <1>0, <1>t DEF SyncInv
    <2> QED BY <1>1, <1>s, <2>1
  <1>2. /\ pc'[u] = "idle" /\ \A w \in Users : w # u => pc'[w] = pc[w]
        /\ pc' \in [Users -> {"idle", "syncing", "synced", "waiting"}]
        BY <1>0, <1>1
  <1>f. /\ gaveUp' \in [Users -> SUBSET Rounds] /\ gaveUp'[u] = gaveUp[u] \cup {round[u]}
        /\ \A w \in Users : gaveUp[w] \subseteq gaveUp'[w]
        BY <1>0, <1>1, <1>v
  <1>3. Types'
        BY <1>0, <1>2, <1>f, <1>n, <1>t DEF Types, StreamsLeave
  <1>4. \A v : Clean(v)' => Clean(v) /\ round[u] > v
        BY <1>f DEF Clean
  <1>5. SyncInv'
    <2>2. ASSUME NEW w \in Users
          PROVE  /\ pc'[w] = "syncing" => /\ version'[NodeOf[w]] + 1 = round'[w]
                                          /\ Clean(round[w]) => leaveNotify'[NodeOf[w]] = 0
                 /\ pc'[w] # "syncing" => version'[NodeOf[w]] >= round'[w]
                 /\ pc'[w] # "idle" => round'[w] >= 1
                 /\ pc'[w] = "waiting" => leaveVal'[w] >= 1
      <3>1. CASE w = u
            BY <1>0, <1>2, <1>v, <3>1
      <3>2. CASE w # u
            BY <1>0, <1>2, <1>t, <3>2 DEF SyncInv
      <3> QED BY <3>1, <3>2
    <2>3. ASSUME NEW w \in Users, NEW x \in Users, pc'[w] = "syncing", pc'[x] = "syncing",
                 NodeOf[w] = NodeOf[x]
          PROVE  w = x
      <3>1. w # u /\ x # u
            BY <1>2, <2>3
      <3> QED BY <1>2, <1>t, <2>3, <3>1 DEF SyncInv
    <2>4. ASSUME NEW w \in Users, Clean(round[w])'
          PROVE  Clean(round[w])
          BY <1>0, <1>f, <2>4 DEF Clean
    <2> QED BY <1>0, <1>n, <2>2, <2>3, <2>4 DEF SyncInv
  <1>6. \A w \in Users : \A r : HasEntered(w, r)' <=> HasEntered(w, r)
        BY <1>0, <1>2 DEF HasEntered
  <1>7. ASSUME NEW v \in Rounds, Clean(v)'
        PROVE  IsOver(v)'
    <2>1. (IsOpen(v) \/ IsOver(v)) /\ round[u] > v /\ round[u] \in Int /\ v \in Int
          BY <1>1, <1>4, <1>7, <1>s, <1>t DEF PhaseInv
    <2>2. IsOver(v)
          BY <2>1 DEF IsOpen, Behind
    <2>3. ASSUME NEW n \in Nodes, InTime(v, n)
          PROVE  InTime(v, n)'
      <3>1. NodeOf[u] # n
            BY <2>1, <2>3 DEF InTime
      <3> QED BY <1>0, <1>2, <1>n, <2>3, <3>1 DEF InTime
    <2> QED BY <1>0, <1>6, <2>2, <2>3, OverKept
  <1>8. PhaseInv'
        BY <1>7, <1>n DEF PhaseInv
  <1>9. LeavesTogether'
        BY <1>0, <1>6, <1>f, <1>t, TogetherKept
  <1>10. PatientInv'
         BY <1>0, <1>n DEF PatientInv
  <1> QED BY <1>3, <1>5, <1>8, <1>9, <1>10 DEF BarrierInv

(* The members of Slots, one by one.                                       *)
LEMMA SlotMember ==
    ASSUME NEW v, NEW p
    PROVE  p \in Slots(v) <=>
             \E n \in Nodes : \E k \in 1..Len(enter[n]) : p = <<n, k>> /\ enter[n][k].version = v
  BY DEF Slots

(* An enter: the version of the packet is the user's round, as long as     *)
(* nobody has given up.                                                    *)
LEMMA EnterStep ==
    ASSUME NewVersions, BarrierInv, NEW u \in Users, Enter(u)
    PROVE  BarrierInv'
  <1>t. Types /\ SyncInv /\ PhaseInv /\ LeavesTogether /\ PatientInv
        BY DEF BarrierInv
  <1>s. /\ LastRound \in Nat \ {0} /\ NodeOf \in [Users -> Nodes] /\ Rounds = 1..LastRound
        /\ IsFiniteSet(Users)
        BY <1>t, SetupFacts
  <1> DEFINE n == NodeOf[u]
             L == Len(enter[n])
             p == [version |-> version[n], incarnation |-> leaveNotify[n]]
  <1>0. /\ pc[u] = "synced" /\ pc' = [pc EXCEPT ![u] = "waiting"]
        /\ leaveVal' = [leaveVal EXCEPT ![u] = leaveNotify[n] + 1]
        /\ enter' = [enter EXCEPT ![n] = Append(enter[n], p)]
        BY DEF Enter
  <1>u. /\ setup' = setup /\ version' = version /\ leaveNotify' = leaveNotify /\ round' = round
        /\ reply' = reply /\ enteredNodes' = enteredNodes /\ left' = left /\ gaveUp' = gaveUp
        BY DEF Enter
  <1>n. /\ NodeOf' = NodeOf /\ (Timed' <=> Timed)
        /\ LastRound' = LastRound /\ Rounds' = Rounds /\ EnterPackets' = EnterPackets
        BY <1>u, SetupSame
  <1>1. /\ round \in [Users -> 0..LastRound] /\ pc \in [Users -> {"idle", "syncing", "synced", "waiting"}]
        /\ version \in [Nodes -> Rounds] /\ leaveNotify \in [Nodes -> Nat] /\ leaveVal \in [Users -> Nat]
        /\ enter \in [Nodes -> Seq(EnterPackets)]
        BY <1>t DEF Types
  <1>v. version[n] >= round[u] /\ round[u] \in Rounds /\ n \in Nodes
    <2>1. version[n] >= round[u] /\ round[u] >= 1
          BY <1>0, <1>t DEF SyncInv
    <2> QED BY <1>1, <1>s, <2>1
  <1>2. /\ pc'[u] = "waiting" /\ \A w \in Users : w # u => pc'[w] = pc[w]
        /\ pc' \in [Users -> {"idle", "syncing", "synced", "waiting"}]
        BY <1>0, <1>1
  <1>l. /\ leaveVal' \in [Users -> Nat] /\ leaveVal'[u] >= 1
        /\ \A w \in Users : w # u => leaveVal'[w] = leaveVal[w]
    <2>1. leaveNotify[n] \in Nat
          BY <1>1, <1>v
    <2> HIDE DEF n
    <2> QED BY <1>0, <1>1, <2>1
  <1>p. /\ p \in EnterPackets /\ p.version = version[n] /\ p.incarnation = leaveNotify[n]
        /\ version[n] \in Rounds
        BY <1>1, <1>v DEF EnterPackets
  <1> HIDE DEF p
  <1>e. /\ L \in Nat /\ Len(enter'[n]) = L + 1 /\ enter'[n][L + 1] = p
        /\ \A k \in 1..L : enter'[n][k] = enter[n][k]
        /\ \A x \in Nodes : x # n => enter'[x] = enter[x]
        /\ enter' \in [Nodes -> Seq(EnterPackets)]
    <2>1. enter[n] \in Seq(EnterPackets)
          BY <1>1, <1>v
    <2>2. enter'[n] = Append(enter[n], p)
          BY <1>0, <1>1, <1>v
    <2>3. Append(enter[n], p) \in Seq(EnterPackets)
          BY <2>1, <1>p
    <2>4. enter' \in [Nodes -> Seq(EnterPackets)] /\ \A x \in Nodes : x # n => enter'[x] = enter[x]
          BY <1>0, <1>1, <2>3
    <2> HIDE DEF n
    <2> QED BY <2>1, <2>2, <2>4, <1>p
  <1> HIDE DEF n, L
  <1>3. Types'
        BY <1>u, <1>2, <1>e, <1>l, <1>n, <1>t DEF Types
  <1>4. \A v : Clean(v)' <=> Clean(v)
        BY <1>u DEF Clean
  <1>5. SyncInv'
    <2>2. ASSUME NEW w \in Users
          PROVE  /\ pc'[w] = "syncing" => /\ version'[NodeOf[w]] + 1 = round'[w]
                                          /\ Clean(round'[w]) => leaveNotify'[NodeOf[w]] = 0
                 /\ pc'[w] # "syncing" => version'[NodeOf[w]] >= round'[w]
                 /\ pc'[w] # "idle" => round'[w] >= 1
                 /\ pc'[w] = "waiting" => leaveVal'[w] >= 1
      <3>1. CASE w = u
            BY <1>u, <1>2, <1>l, <1>s, <1>v, <3>1 DEF n
      <3>2. CASE w # u
            BY <1>u, <1>2, <1>l, <1>t, <3>2 DEF SyncInv
      <3> QED BY <3>1, <3>2
    <2>3. ASSUME NEW w \in Users, NEW x \in Users, pc'[w] = "syncing", pc'[x] = "syncing",
                 NodeOf[w] = NodeOf[x]
          PROVE  w = x
      <3>1. w # u /\ x # u
            BY <1>2, <2>3
      <3> QED BY <1>2, <1>t, <2>3, <3>1 DEF SyncInv
    <2> QED BY <1>u, <1>n, <2>2, <2>3 DEF SyncInv, Clean
  <1>6. \A w \in Users : \A r : HasEntered(w, r) => HasEntered(w, r)'
        BY <1>0, <1>u, <1>2 DEF HasEntered
  <1>w. \A w \in Users : \A r : w # u => (HasEntered(w, r) <=> HasEntered(w, r)')
        BY <1>0, <1>u, <1>2 DEF HasEntered
  <1>7. ASSUME NEW v \in Rounds, Clean(v)'
        PROVE  IsOpen(v)' \/ IsOver(v)'
    <2>i. v \in Int /\ round[u] \in Int /\ version[n] \in Int
          BY <1>s, <1>v, <1>p
    <2>1. (IsOpen(v) \/ IsOver(v)) /\ Clean(v)
          BY <1>4, <1>7, <1>t DEF PhaseInv
    <2>2. CASE IsOpen(v)
      <3>1. \A w \in Users : Behind(w, v)
            BY <2>2 DEF IsOpen
      <3>2. round[u] =< v /\ version[n] =< v /\ (version[n] = v => leaveNotify[n] = 0)
            BY <3>1 DEF Behind, n
      <3>3. \A w \in Users : Behind(w, v)'
            BY <1>u, <1>2, <1>n, <3>1 DEF Behind
      <3>4. \A x \in Nodes : \A k \in 1..Len(reply'[x]) : reply'[x][k] # v
            BY <1>u, <2>2 DEF IsOpen
      <3>5. ASSUME NEW x \in Nodes, NEW k \in 1..Len(enter'[x]), enter'[x][k].version = v
            PROVE  enter'[x][k].incarnation = 0
        <4>1. CASE x = n /\ k = L + 1
              BY <1>e, <1>p, <3>2, <3>5, <4>1
        <4>2. CASE x # n \/ k # L + 1
          <5>1. k \in 1..Len(enter[x]) /\ enter'[x][k] = enter[x][k]
                BY <1>e, <4>2 DEF L
          <5> QED BY <2>2, <3>5, <5>1 DEF IsOpen
        <4> QED BY <4>1, <4>2
      <3>a. ASSUME NEW q
            PROVE  q \in Slots(v)' <=> (q \in Slots(v) \/ (q = <<n, L + 1>> /\ version[n] = v))
        <4>1. q \in Slots(v)' <=>
                \E x \in Nodes : \E k \in 1..Len(enter'[x]) : q = <<x, k>> /\ enter'[x][k].version = v
              BY DEF Slots
        <4>2. ASSUME NEW x \in Nodes, NEW k \in 1..Len(enter'[x]), q = <<x, k>>, enter'[x][k].version = v
              PROVE  q \in Slots(v) \/ (q = <<n, L + 1>> /\ version[n] = v)
          <5>1. CASE x = n /\ k = L + 1
                BY <1>e, <1>p, <4>2, <5>1
          <5>2. CASE x # n \/ k # L + 1
            <6>1. k \in 1..Len(enter[x]) /\ enter'[x][k] = enter[x][k]
                  BY <1>e, <5>2 DEF L
            <6> QED BY <4>2, <6>1, SlotMember
          <5> QED BY <5>1, <5>2
        <4>3. ASSUME NEW x \in Nodes, NEW k \in 1..Len(enter[x]), q = <<x, k>>, enter[x][k].version = v
              PROVE  q \in Slots(v)'
          <5>1. k \in 1..Len(enter'[x]) /\ enter'[x][k] = enter[x][k]
                BY <1>e DEF L
          <5> QED BY <4>1, <4>3, <5>1
        <4>4. ASSUME q = <<n, L + 1>>, version[n] = v
              PROVE  q \in Slots(v)'
          <5>1. L + 1 \in 1..Len(enter'[n]) /\ enter'[n][L + 1].version = v
                BY <1>e, <1>p, <4>4
          <5> QED BY <1>v, <4>1, <4>4, <5>1
        <4>5. q \in Slots(v) => \E x \in Nodes : \E k \in 1..Len(enter[x]) :
                                   q = <<x, k>> /\ enter[x][k].version = v
              BY SlotMember
        <4> QED BY <4>1, <4>2, <4>3, <4>4, <4>5
      <3>b. /\ IsFiniteSet(Slots(v)) /\ enteredNodes[v].incarnation = 0
            /\ Len(enteredNodes[v].nodes) + Cardinality(Slots(v)) =< Cardinality(Entered(v))
            BY <2>2 DEF IsOpen
      <3>6. CASE version[n] # v
        <4>1. Slots(v)' = Slots(v)
              BY <3>a, <3>6
        <4>2. round[u] < v
              BY <1>v, <2>i, <3>2, <3>6
        <4>3. ~HasEntered(u, v) /\ ~HasEntered(u, v)'
              BY <1>u, <2>i, <4>2 DEF HasEntered
        <4>4. Entered(v)' = Entered(v)
              BY <1>w, <4>3 DEF Entered
        <4> QED BY <1>u, <3>3, <3>4, <3>5, <3>b, <4>1, <4>4 DEF IsOpen
      <3>7. CASE version[n] = v
        <4>1. round[u] = v
          <5>1. SUFFICES ASSUME round[u] # v
                         PROVE  FALSE
                OBVIOUS
          <5>2. round[u] < v
                BY <2>i, <3>2, <5>1
          <5>3. Clean(round[u])
                BY <1>t, <2>1, <2>i, <5>2, CleanDown
          <5>4. IsOpen(round[u]) \/ IsOver(round[u])
                BY <1>t, <1>v, <5>3 DEF PhaseInv
          <5>5. ~IsOver(round[u])
            <6>1. ~HasEntered(u, round[u])
                  BY <1>0, <2>i DEF HasEntered
            <6> QED BY <6>1 DEF IsOver
          <5>6. ~IsOpen(round[u])
            <6>1. ~(version[n] =< round[u])
                  BY <2>i, <3>7, <5>2
            <6> QED BY <6>1 DEF IsOpen, Behind, n
          <5> QED BY <5>4, <5>5, <5>6
        <4>2. ~HasEntered(u, v) /\ HasEntered(u, v)'
              BY <1>0, <1>2, <1>u, <2>i, <4>1 DEF HasEntered
        <4>3. Entered(v)' = Entered(v) \cup {u} /\ u \notin Entered(v)
              BY <1>w, <4>2 DEF Entered
        <4>4. IsFiniteSet(Entered(v))
              BY <1>s, FS_Subset DEF Entered
        <4>5. Cardinality(Entered(v)') = Cardinality(Entered(v)) + 1 /\ Cardinality(Entered(v)) \in Nat
              BY <4>3, <4>4, FS_AddElement, FS_CardinalityType
        <4>6. Slots(v)' = Slots(v) \cup {<<n, L + 1>>}
              BY <3>a, <3>7
        <4>7. IsFiniteSet(Slots(v)') /\ Cardinality(Slots(v)') =< Cardinality(Slots(v)) + 1
              /\ Cardinality(Slots(v)) \in Nat /\ Cardinality(Slots(v)') \in Nat
          <5>1. /\ IsFiniteSet(Slots(v) \cup {<<n, L + 1>>})
                /\ Cardinality(Slots(v) \cup {<<n, L + 1>>}) =
                     IF <<n, L + 1>> \in Slots(v) THEN Cardinality(Slots(v)) ELSE Cardinality(Slots(v)) + 1
                BY <3>b, FS_AddElement
          <5>2. Cardinality(Slots(v)) \in Nat
                BY <3>b, FS_CardinalityType
          <5> QED BY <4>6, <5>1, <5>2
        <4>8. Len(enteredNodes[v].nodes) \in Nat
              BY <1>t DEF Types
        <4>9. Len(enteredNodes[v].nodes) + Cardinality(Slots(v)') =< Cardinality(Entered(v)')
              BY <3>b, <4>5, <4>7, <4>8
        <4> QED BY <1>u, <3>3, <3>4, <3>5, <3>b, <4>7, <4>9 DEF IsOpen
      <3> QED BY <3>6, <3>7
    <2>3. CASE IsOver(v)
      <3>1. version[n] > v
        <4>1. HasEntered(u, v)
              BY <2>3 DEF IsOver
        <4> QED BY <1>0, <1>v, <2>i, <4>1 DEF HasEntered
      <3>2. ASSUME NEW x \in Nodes, NEW k \in 1..Len(enter'[x])
            PROVE  enter'[x][k].version # v
        <4>1. CASE x = n /\ k = L + 1
              BY <1>e, <1>p, <2>i, <3>1, <4>1
        <4>2. CASE x # n \/ k # L + 1
          <5>1. k \in 1..Len(enter[x]) /\ enter'[x][k] = enter[x][k]
                BY <1>e, <4>2 DEF L
          <5> QED BY <2>3, <5>1 DEF IsOver
        <4> QED BY <4>1, <4>2
      <3>3. ASSUME NEW x \in Nodes, InTime(v, x)
            PROVE  InTime(v, x)'
        <4>1. NodeOf[u] # x
              BY <1>0, <3>3 DEF InTime
        <4> QED BY <1>u, <1>2, <1>n, <3>3, <4>1 DEF InTime
      <3> QED BY <1>u, <1>6, <2>3, <3>2, <3>3 DEF IsOver
    <2> QED BY <2>1, <2>2, <2>3
  <1>8. PhaseInv'
        BY <1>7, <1>n DEF PhaseInv
  <1>9. LeavesTogether'
        BY <1>u, <1>6, <1>t, TogetherKept
  <1>10. PatientInv'
         BY <1>u, <1>n, <1>t DEF PatientInv
  <1> QED BY <1>3, <1>5, <1>8, <1>9, <1>10 DEF BarrierInv

(* A reply is never taken for that of a later version, and never resets    *)
(* what unpack did.                                                        *)
LEMMA ReplyStep ==
    ASSUME NewVersions, BarrierInv, NEW n \in Nodes, CmdEnterReply(n)
    PROVE  BarrierInv'
  <1>t. Types /\ SyncInv /\ PhaseInv /\ LeavesTogether /\ PatientInv
        BY DEF BarrierInv
  <1>s. /\ LastRound \in Nat \ {0} /\ NodeOf \in [Users -> Nodes] /\ Rounds = 1..LastRound
        BY <1>t, SetupFacts
  <1> DEFINE h == Head(reply[n])
  <1>0. /\ reply[n] # <<>> /\ reply' = [reply EXCEPT ![n] = Tail(reply[n])]
        /\ leaveNotify' = IF h = version[n] THEN [leaveNotify EXCEPT ![n] = @ + 1] ELSE leaveNotify
        BY DEF CmdEnterReply
  <1>u. /\ setup' = setup /\ version' = version /\ enter' = enter /\ enteredNodes' = enteredNodes
        /\ pc' = pc /\ round' = round /\ leaveVal' = leaveVal /\ left' = left /\ gaveUp' = gaveUp
        BY DEF CmdEnterReply, userVars
  <1>n. /\ NodeOf' = NodeOf /\ (Timed' <=> Timed)
        /\ LastRound' = LastRound /\ Rounds' = Rounds /\ EnterPackets' = EnterPackets
        BY <1>u, SetupSame
  <1>1. /\ version \in [Nodes -> Rounds] /\ leaveNotify \in [Nodes -> Nat] /\ reply \in [Nodes -> Seq(Rounds)]
        /\ round \in [Users -> 0..LastRound]
        BY <1>t DEF Types
  <1>r. /\ \A k \in 1..Len(reply'[n]) : k + 1 \in 1..Len(reply[n]) /\ reply'[n][k] = reply[n][k + 1]
        /\ Len(reply[n]) >= 1 /\ Len(reply[n]) \in Nat /\ Len(reply'[n]) \in Nat /\ h = reply[n][1]
        /\ \A x \in Nodes : x # n => reply'[x] = reply[x]
        /\ reply' \in [Nodes -> Seq(Rounds)]
    <2>1. reply[n] \in Seq(Rounds) /\ reply[n] # <<>> /\ reply'[n] = Tail(reply[n])
          BY <1>0, <1>1
    <2>2. Tail(reply[n]) \in Seq(Rounds)
          BY <2>1
    <2>3. reply' \in [Nodes -> Seq(Rounds)] /\ \A x \in Nodes : x # n => reply'[x] = reply[x]
          BY <1>0, <1>1, <2>2
    <2> QED BY <2>1, <2>3
  <1>l. /\ leaveNotify' \in [Nodes -> Nat]
        /\ \A x \in Nodes : x # n \/ h # version[n] => leaveNotify'[x] = leaveNotify[x]
    <2> HIDE DEF h
    <2> QED BY <1>0, <1>1
  <1> HIDE DEF h
  <1>3. Types'
        BY <1>u, <1>l, <1>n, <1>r, <1>t DEF Types
  <1>4. \A v : Clean(v)' <=> Clean(v)
        BY <1>u DEF Clean
  <1>5. SyncInv'
    <2>1. ASSUME NEW w \in Users, pc[w] = "syncing", Clean(round[w])
          PROVE  leaveNotify'[NodeOf[w]] = 0
      <3>1. leaveNotify[NodeOf[w]] = 0 /\ version[NodeOf[w]] + 1 = round[w]
            BY <1>t, <2>1 DEF SyncInv
      <3>2. CASE NodeOf[w] = n
        <4>1. version[n] \in Rounds /\ version[n] \in Int /\ round[w] \in Int /\ version[n] =< round[w]
              BY <1>1, <1>s, <3>1, <3>2
        <4>2. Clean(version[n])
              BY <1>t, <2>1, <4>1, CleanDown
        <4>3. IsOpen(version[n]) \/ IsOver(version[n])
              BY <1>t, <4>1, <4>2 DEF PhaseInv
        <4>4. h # version[n]
          <5>1. SUFFICES ASSUME h = version[n]
                         PROVE  FALSE
                OBVIOUS
          <5>2. 1 \in 1..Len(reply[n]) /\ reply[n][1] = version[n]
                BY <1>r, <5>1
          <5>3. ~IsOpen(version[n])
                BY <5>2 DEF IsOpen
          <5>4. InTime(version[n], n)
                BY <4>3, <5>2, <5>3 DEF IsOver
          <5> QED BY <2>1, <3>2, <5>4 DEF InTime
        <4> QED BY <1>l, <3>1, <3>2, <4>4
      <3>3. CASE NodeOf[w] # n
            BY <1>l, <1>s, <3>1, <3>3
      <3> QED BY <3>2, <3>3
    <2>2. ASSUME NEW w \in Users
          PROVE  /\ pc'[w] = "syncing" => /\ version'[NodeOf[w]] + 1 = round'[w]
                                          /\ Clean(round'[w]) => leaveNotify'[NodeOf[w]] = 0
                 /\ pc'[w] # "syncing" => version'[NodeOf[w]] >= round'[w]
                 /\ pc'[w] # "idle" => round'[w] >= 1
                 /\ pc'[w] = "waiting" => leaveVal'[w] >= 1
          BY <1>u, <1>t, <2>1 DEF SyncInv
    <2>3. ASSUME NEW w \in Users, NEW x \in Users, pc'[w] = "syncing", pc'[x] = "syncing",
                 NodeOf[w] = NodeOf[x]
          PROVE  w = x
          BY <1>u, <1>t, <2>3 DEF SyncInv
    <2> QED BY <1>u, <1>n, <2>2, <2>3 DEF SyncInv, Clean
  <1>6. \A w \in Users : \A r : HasEntered(w, r)' <=> HasEntered(w, r)
        BY <1>u DEF HasEntered
  <1>7. ASSUME NEW v \in Rounds, Clean(v)'
        PROVE  IsOpen(v)' \/ IsOver(v)'
    <2>1. IsOpen(v) \/ IsOver(v)
          BY <1>4, <1>7, <1>t DEF PhaseInv
    <2>2. CASE IsOpen(v)
      <3>1. h # v
            BY <1>r, <2>2 DEF IsOpen
      <3>2. \A x \in Nodes : \A k \in 1..Len(reply'[x]) : reply'[x][k] # v
            BY <1>r, <2>2 DEF IsOpen
      <3>3. ASSUME NEW w \in Users
            PROVE  Behind(w, v)'
        <4>1. Behind(w, v)
              BY <2>2 DEF IsOpen
        <4>2. version[NodeOf[w]] = v => leaveNotify'[NodeOf[w]] = leaveNotify[NodeOf[w]]
              BY <1>l, <1>s, <3>1
        <4> QED BY <1>n, <1>u, <4>1, <4>2 DEF Behind
      <3>4. Slots(v)' = Slots(v) /\ Entered(v)' = Entered(v)
            BY <1>6, <1>u DEF Slots, Entered
      <3> QED BY <1>u, <2>2, <3>2, <3>3, <3>4 DEF IsOpen
    <2>3. CASE IsOver(v)
      <3>1. ASSUME NEW x \in Nodes, NEW k \in 1..Len(reply'[x]), reply'[x][k] = v
            PROVE  InTime(v, x)' /\ \A j \in 1..Len(reply'[x]) : reply'[x][j] = v => j = k
        <4>1. CASE x # n
          <5>1. reply'[x] = reply[x] /\ leaveNotify'[x] = leaveNotify[x]
                BY <1>l, <1>r, <4>1
          <5>2. InTime(v, x) /\ \A j \in 1..Len(reply[x]) : reply[x][j] = v => j = k
                BY <2>3, <3>1, <5>1 DEF IsOver
          <5> QED BY <1>n, <1>u, <5>1, <5>2 DEF InTime
        <4>2. CASE x = n
          <5>1. k \in Nat /\ k + 1 \in 1..Len(reply[n]) /\ reply[n][k + 1] = v
                BY <1>r, <3>1, <4>2
          <5>2. InTime(v, n) /\ \A j \in 1..Len(reply[n]) : reply[n][j] = v => j = k + 1
                BY <2>3, <5>1 DEF IsOver
          <5>3. h # v
            <6>1. 1 \in 1..Len(reply[n]) /\ 1 # k + 1
                  BY <1>r, <3>1, <4>2
            <6> QED BY <1>r, <5>2, <6>1
          <5>4. InTime(v, n)'
                BY <1>l, <1>n, <1>u, <5>2, <5>3 DEF InTime
          <5>5. ASSUME NEW j \in 1..Len(reply'[n]), reply'[n][j] = v
                PROVE  j = k
            <6>1. j + 1 \in 1..Len(reply[n]) /\ reply[n][j + 1] = v
                  BY <1>r, <5>5
            <6>2. j + 1 = k + 1
                  BY <5>2, <6>1
            <6> QED BY <6>2, <5>1
          <5> QED BY <4>2, <5>4, <5>5
        <4> QED BY <4>1, <4>2
      <3> QED BY <1>6, <1>u, <2>3, <3>1 DEF IsOver
    <2> QED BY <2>1, <2>2, <2>3
  <1>8. PhaseInv'
        BY <1>7, <1>n DEF PhaseInv
  <1>9. LeavesTogether'
        BY <1>u, <1>6, <1>t, TogetherKept
  <1>10. PatientInv'
         BY <1>u, <1>n, <1>t DEF PatientInv
  <1> QED BY <1>3, <1>5, <1>8, <1>9, <1>10 DEF BarrierInv

(* What _sendNotify of version v may change.                               *)
Told(v) ==
    /\ leaveNotify' \in [Nodes -> Nat]
    /\ \A x \in Nodes : x # Master \/ version[Master] # v => leaveNotify'[x] = leaveNotify[x]
    /\ reply' \in [Nodes -> Seq(Rounds)]
    /\ \A x \in Nodes : reply'[x] = reply[x] \/ (x # Master /\ reply'[x] = Append(reply[x], v))

(* _sendNotify changes what Told says, whichever nodes are told.           *)
LEMMA NotifyTells ==
    ASSUME Types, Master \in Nodes, NEW v \in Rounds, NEW S, SendNotify(v, S)
    PROVE  Told(v)
  <1>1. leaveNotify \in [Nodes -> Nat] /\ reply \in [Nodes -> Seq(Rounds)]
        BY DEF Types
  <1>2. ASSUME NEW x \in Nodes
        PROVE  Append(reply[x], v) \in Seq(Rounds) /\ reply[x] \in Seq(Rounds)
        BY <1>1
  <1>3. reply' = [x \in Nodes |-> IF x \in S \ {Master} THEN Append(reply[x], v) ELSE reply[x]]
        BY DEF SendNotify
  <1>4. reply' \in [Nodes -> Seq(Rounds)]
        BY <1>2, <1>3
  <1>5. \A x \in Nodes : reply'[x] = reply[x] \/ (x # Master /\ reply'[x] = Append(reply[x], v))
        BY <1>3
  <1>6. leaveNotify' = IF Master \in S /\ v = version[Master]
                       THEN [leaveNotify EXCEPT ![Master] = @ + 1] ELSE leaveNotify
        BY DEF SendNotify
  <1>7. /\ leaveNotify' \in [Nodes -> Nat]
        /\ \A x \in Nodes : x # Master \/ version[Master] # v => leaveNotify'[x] = leaveNotify[x]
        BY <1>1, <1>6
  <1> QED BY <1>4, <1>5, <1>7 DEF Told

(* What _cleanup may forget.                                               *)
LEMMA CleanupForgets ==
    ASSUME NewVersions, Types, NEW v \in Rounds, NEW request \in [nodes : Seq(Nodes), incarnation : Nat],
           NEW requests \in Cleanup([enteredNodes EXCEPT ![v] = request], v)
    PROVE  /\ requests \in [Rounds -> [nodes : Seq(Nodes), incarnation : Nat]] /\ requests[v] = request
           /\ \A w \in Rounds : w # v => requests[w] \in {enteredNodes[w], NoRequest}
  <1>1. Versions = Rounds
        BY SetupFacts
  <1>2. enteredNodes \in [Rounds -> [nodes : Seq(Nodes), incarnation : Nat]]
        BY DEF Types
  <1>3. NoRequest \in [nodes : Seq(Nodes), incarnation : Nat]
        BY DEF NoRequest
  <1>4. PICK counted : counted = [enteredNodes EXCEPT ![v] = request]
        OBVIOUS
  <1>5. /\ counted \in [Rounds -> [nodes : Seq(Nodes), incarnation : Nat]] /\ counted[v] = request
        /\ \A w \in Rounds : w # v => counted[w] = enteredNodes[w]
        BY <1>2, <1>4
  <1>6. requests = counted \/ \E w \in Rounds \ {v} : requests = [counted EXCEPT ![w] = NoRequest]
        BY <1>1, <1>4 DEF Cleanup, Erase
  <1> QED BY <1>3, <1>5, <1>6

(* What is left of a queue when its first element is taken.                *)
LEMMA TailFacts ==
    ASSUME NEW S, NEW s \in Seq(S), s # <<>>
    PROVE  /\ \A k \in 1..Len(Tail(s)) : k + 1 \in 1..Len(s) /\ Tail(s)[k] = s[k + 1]
           /\ Len(s) >= 1 /\ Len(s) \in Nat /\ Head(s) = s[1] /\ Len(Tail(s)) \in Nat
           /\ Tail(s) \in Seq(S) /\ Head(s) \in S
  OBVIOUS

(* The first enter packet of node n is taken from its queue: the others of *)
(* each version move up.                                                   *)
LEMMA SlotsShrink ==
    ASSUME Types, NEW n \in Nodes, enter[n] # <<>>, enter' = [enter EXCEPT ![n] = Tail(@)],
           NEW v, IsFiniteSet(Slots(v))
    PROVE  /\ IsFiniteSet(Slots(v)') /\ Cardinality(Slots(v)') \in Nat
           /\ Cardinality(Slots(v)') =< Cardinality(Slots(v))
           /\ Head(enter[n]).version = v => Cardinality(Slots(v)') + 1 =< Cardinality(Slots(v))
  <1>e. /\ \A k \in 1..Len(enter'[n]) : k + 1 \in 1..Len(enter[n]) /\ enter'[n][k] = enter[n][k + 1]
        /\ Len(enter[n]) >= 1 /\ Len(enter[n]) \in Nat /\ Head(enter[n]) = enter[n][1]
        /\ \A x \in Nodes : x # n => enter'[x] = enter[x]
        /\ Len(enter'[n]) \in Nat
    <2>1. enter \in [Nodes -> Seq(EnterPackets)]
          BY DEF Types
    <2>2. enter[n] \in Seq(EnterPackets) /\ enter[n] # <<>> /\ enter'[n] = Tail(enter[n])
          BY <2>1
    <2>3. \A x \in Nodes : x # n => enter'[x] = enter[x]
          BY <2>1
    <2>4. ASSUME NEW s \in Seq(EnterPackets), s # <<>>, enter'[n] = Tail(s), enter[n] = s
          PROVE  /\ \A k \in 1..Len(enter'[n]) : k + 1 \in 1..Len(enter[n]) /\ enter'[n][k] = enter[n][k + 1]
                 /\ Len(enter[n]) >= 1 /\ Len(enter[n]) \in Nat /\ Head(enter[n]) = enter[n][1]
                 /\ Len(enter'[n]) \in Nat
      <3>1. /\ \A k \in 1..Len(Tail(s)) : k + 1 \in 1..Len(s) /\ Tail(s)[k] = s[k + 1]
            /\ Len(s) >= 1 /\ Len(s) \in Nat /\ Head(s) = s[1] /\ Len(Tail(s)) \in Nat
            BY <2>4, TailFacts
      <3> QED BY <2>4, <3>1
    <2> QED BY <2>2, <2>3, <2>4
  <1> DEFINE T == Slots(v) \ {<<n, 1>>}
             f == [q \in Slots(v)' |-> IF q[1] = n THEN <<n, q[2] + 1>> ELSE q]
  <1>m. ASSUME NEW q \in Slots(v)'
        PROVE  \E x \in Nodes : \E k \in 1..Len(enter'[x]) : q = <<x, k>> /\ enter'[x][k].version = v
        BY DEF Slots
  <1>1. ASSUME NEW q \in Slots(v)'
        PROVE  f[q] \in T
    <2>1. PICK x \in Nodes : \E k \in 1..Len(enter'[x]) : q = <<x, k>> /\ enter'[x][k].version = v
          BY <1>m
    <2>2. PICK k \in 1..Len(enter'[x]) : q = <<x, k>> /\ enter'[x][k].version = v
          BY <2>1
    <2>3. CASE x = n
      <3>1. k + 1 \in 1..Len(enter[n]) /\ enter[n][k + 1].version = v /\ k + 1 # 1
            BY <1>e, <2>2, <2>3, SMTT(30)
      <3>2. f[q] = <<n, k + 1>>
            BY <2>2, <2>3
      <3>3. <<n, k + 1>> \in Slots(v)
            BY <3>1, SlotMember
      <3>4. <<n, k + 1>> # <<n, 1>>
            BY <3>1
      <3> QED BY <3>2, <3>3, <3>4
    <2>4. CASE x # n
      <3>1. k \in 1..Len(enter[x]) /\ enter[x][k].version = v
            BY <1>e, <2>2, <2>4
      <3>2. f[q] = <<x, k>> /\ <<x, k>> # <<n, 1>>
            BY <2>2, <2>4
      <3>3. <<x, k>> \in Slots(v)
            BY <3>1, SlotMember
      <3> QED BY <3>2, <3>3
    <2> QED BY <2>3, <2>4
  <1>2. ASSUME NEW q \in Slots(v)', NEW r \in Slots(v)', f[q] = f[r]
        PROVE  q = r
    <2>1. PICK x \in Nodes : \E k \in 1..Len(enter'[x]) : q = <<x, k>>
          BY <1>m
    <2>2. PICK k \in 1..Len(enter'[x]) : q = <<x, k>>
          BY <2>1
    <2>3. PICK y \in Nodes : \E j \in 1..Len(enter'[y]) : r = <<y, j>>
          BY <1>m
    <2>4. PICK j \in 1..Len(enter'[y]) : r = <<y, j>>
          BY <2>3
    <2>5. /\ f[q] = IF x = n THEN <<n, k + 1>> ELSE <<x, k>>
          /\ f[r] = IF y = n THEN <<n, j + 1>> ELSE <<y, j>>
          BY <2>2, <2>4
    <2> HIDE DEF f
    <2> QED BY <1>2, <2>2, <2>4, <2>5
  <1>3. f \in Injection(Slots(v)', T)
        BY <1>1, <1>2 DEF Injection, IsInjective
  <1> HIDE DEF f
  <1>4. /\ IsFiniteSet(T)
        /\ Cardinality(T) = IF <<n, 1>> \in Slots(v) THEN Cardinality(Slots(v)) - 1 ELSE Cardinality(Slots(v))
        BY FS_RemoveElement
  <1> HIDE DEF T
  <1>5. IsFiniteSet(Slots(v)') /\ Cardinality(Slots(v)') =< Cardinality(T)
        BY <1>3, <1>4, FS_Injection
  <1>6. Cardinality(Slots(v)') \in Nat /\ Cardinality(Slots(v)) \in Nat
        BY <1>5, FS_CardinalityType
  <1>7. Head(enter[n]).version = v => <<n, 1>> \in Slots(v)
    <2>1. 1 \in 1..Len(enter[n]) /\ Head(enter[n]) = enter[n][1]
          BY <1>e
    <2> QED BY <2>1, SlotMember
  <1> QED BY <1>4, <1>5, <1>6, <1>7

(* _cmdEnter on the master.  For a version that nobody has given up it     *)
(* counts one enter of each user, and so it replies when all have entered. *)
LEMMA CmdEnterStep ==
    ASSUME NewVersions, BarrierInv, NEW n \in Nodes, CmdEnter(n)
    PROVE  BarrierInv'
  <1>t. Types /\ SyncInv /\ PhaseInv /\ LeavesTogether /\ PatientInv
        BY DEF BarrierInv
  <1>s. /\ LastRound \in Nat \ {0} /\ NodeOf \in [Users -> Nodes] /\ Rounds = 1..LastRound
        /\ IsFiniteSet(Users) /\ \E w \in Users : NodeOf[w] = Master
        BY <1>t, SetupFacts
  <1>M. Master \in Nodes
        BY <1>s
  <1> DEFINE p == Head(enter[n])
             m == p.version
             request == Counted(n, p)
  <1>0. enter[n] # <<>> /\ enter' = [enter EXCEPT ![n] = Tail(@)]
        BY DEF CmdEnter
  <1>u. /\ setup' = setup /\ version' = version
        /\ pc' = pc /\ round' = round /\ leaveVal' = leaveVal /\ left' = left /\ gaveUp' = gaveUp
        BY DEF CmdEnter, userVars
  <1>c. \/ Outdated(p) /\ SendNotify(m, {n}) /\ enteredNodes' = enteredNodes
        \/ ~Outdated(p) /\ \E requests \in Cleanup([enteredNodes EXCEPT ![m] = request], m) :
              \/ Late(p) /\ SendNotify(m, {n}) /\ enteredNodes' = requests
              \/ /\ ~Late(p) /\ Reached(p, request)
                 /\ SendNotify(m, {request.nodes[k] : k \in 1..Len(request.nodes)})
                 /\ enteredNodes' = Erase(requests, m)
              \/ /\ ~Late(p) /\ ~Reached(p, request) /\ enteredNodes' = requests
                 /\ leaveNotify' = leaveNotify /\ reply' = reply
        BY DEF CmdEnter
  <1>n. /\ NodeOf' = NodeOf /\ (Timed' <=> Timed)
        /\ LastRound' = LastRound /\ Rounds' = Rounds /\ EnterPackets' = EnterPackets
        BY <1>u, SetupSame
  <1>1. /\ version \in [Nodes -> Rounds] /\ leaveNotify \in [Nodes -> Nat] /\ reply \in [Nodes -> Seq(Rounds)]
        /\ round \in [Users -> 0..LastRound] /\ enter \in [Nodes -> Seq(EnterPackets)]
        /\ enteredNodes \in [Rounds -> [nodes : Seq(Nodes), incarnation : Nat]]
        BY <1>t DEF Types
  <1>e. /\ \A k \in 1..Len(enter'[n]) : k + 1 \in 1..Len(enter[n]) /\ enter'[n][k] = enter[n][k + 1]
        /\ Len(enter[n]) >= 1 /\ Len(enter[n]) \in Nat /\ p = enter[n][1] /\ p \in EnterPackets
        /\ \A x \in Nodes : x # n => enter'[x] = enter[x]
        /\ enter' \in [Nodes -> Seq(EnterPackets)]
    <2>1. enter[n] \in Seq(EnterPackets) /\ enter'[n] = Tail(enter[n])
          BY <1>0, <1>1
    <2>2. Tail(enter[n]) \in Seq(EnterPackets) /\ Head(enter[n]) \in EnterPackets
          BY <1>0, <2>1, TailFacts
    <2>3. enter' \in [Nodes -> Seq(EnterPackets)] /\ \A x \in Nodes : x # n => enter'[x] = enter[x]
          BY <1>0, <1>1, <2>2
    <2>4. ASSUME NEW s \in Seq(EnterPackets), s # <<>>, enter'[n] = Tail(s), enter[n] = s
          PROVE  /\ \A k \in 1..Len(enter'[n]) : k + 1 \in 1..Len(enter[n]) /\ enter'[n][k] = enter[n][k + 1]
                 /\ Len(enter[n]) >= 1 /\ Len(enter[n]) \in Nat /\ Head(enter[n]) = enter[n][1]
      <3>1. /\ \A k \in 1..Len(Tail(s)) : k + 1 \in 1..Len(s) /\ Tail(s)[k] = s[k + 1]
            /\ Len(s) >= 1 /\ Len(s) \in Nat /\ Head(s) = s[1] /\ Len(Tail(s)) \in Nat
            BY <2>4, TailFacts
      <3> QED BY <2>4, <3>1
    <2> QED BY <1>0, <2>1, <2>2, <2>3, <2>4
  <1> HIDE DEF p
  <1>p. m \in Rounds /\ p.incarnation \in Nat /\ 1 \in 1..Len(enter[n]) /\ enter[n][1].version = m
        /\ enter[n][1] = p
        BY <1>e DEF EnterPackets
  <1>q. request \in [nodes : Seq(Nodes), incarnation : Nat]
    <2>1. enteredNodes[m] \in [nodes : Seq(Nodes), incarnation : Nat]
          BY <1>1, <1>p
    <2>2. /\ [nodes |-> <<n>>, incarnation |-> p.incarnation] \in [nodes : Seq(Nodes), incarnation : Nat]
          /\ [enteredNodes[m] EXCEPT !.nodes = Append(@, n)] \in [nodes : Seq(Nodes), incarnation : Nat]
      <3>1. <<n>> \in Seq(Nodes) /\ Append(enteredNodes[m].nodes, n) \in Seq(Nodes)
            BY <2>1
      <3> QED BY <1>p, <2>1, <3>1
    <2> QED BY <2>2 DEF Counted
  <1> HIDE DEF m, request
  <1>b. /\ Told(m) /\ enteredNodes' \in [Rounds -> [nodes : Seq(Nodes), incarnation : Nat]]
        /\ \A w \in Rounds : w # m => enteredNodes'[w] \in {enteredNodes[w], NoRequest}
    <2>1. CASE Outdated(p) /\ SendNotify(m, {n}) /\ enteredNodes' = enteredNodes
          BY <1>1, <1>M, <1>p, <1>t, <2>1, NotifyTells
    <2>2. ASSUME NEW requests \in Cleanup([enteredNodes EXCEPT ![m] = request], m),
              \/ Late(p) /\ SendNotify(m, {n}) /\ enteredNodes' = requests
              \/ /\ ~Late(p) /\ Reached(p, request)
                 /\ SendNotify(m, {request.nodes[k] : k \in 1..Len(request.nodes)})
                 /\ enteredNodes' = Erase(requests, m)
              \/ /\ ~Late(p) /\ ~Reached(p, request) /\ enteredNodes' = requests
                 /\ leaveNotify' = leaveNotify /\ reply' = reply
          PROVE  /\ Told(m) /\ enteredNodes' \in [Rounds -> [nodes : Seq(Nodes), incarnation : Nat]]
                 /\ \A w \in Rounds : w # m => enteredNodes'[w] \in {enteredNodes[w], NoRequest}
      <3>1. /\ requests \in [Rounds -> [nodes : Seq(Nodes), incarnation : Nat]]
            /\ \A w \in Rounds : w # m => requests[w] \in {enteredNodes[w], NoRequest}
            BY <1>p, <1>q, <1>t, <2>2, CleanupForgets
      <3>2. NoRequest \in [nodes : Seq(Nodes), incarnation : Nat]
            BY DEF NoRequest
      <3>3. /\ Erase(requests, m) \in [Rounds -> [nodes : Seq(Nodes), incarnation : Nat]]
            /\ \A w \in Rounds : w # m => Erase(requests, m)[w] = requests[w]
            BY <3>1, <3>2 DEF Erase
      <3>4. enteredNodes' = requests \/ enteredNodes' = Erase(requests, m)
            BY <2>2
      <3>5. Told(m)
        <4>1. CASE leaveNotify' = leaveNotify /\ reply' = reply
              BY <1>1, <4>1 DEF Told
        <4>2. CASE \E S : SendNotify(m, S)
              BY <1>M, <1>p, <1>t, <4>2, NotifyTells
        <4> QED BY <2>2, <4>1, <4>2
      <3> QED BY <3>1, <3>3, <3>4, <3>5
    <2> QED BY <1>c, <2>1, <2>2
  <1>k. ASSUME Clean(m)
        PROVE  /\ IsOpen(m) /\ ~Outdated(p) /\ ~Late(p) /\ request.incarnation = 0
               /\ Len(request.nodes) = Len(enteredNodes[m].nodes) + 1 /\ Len(enteredNodes[m].nodes) \in Nat
    <2>1. IsOpen(m)
          BY <1>k, <1>p, <1>t DEF PhaseInv, IsOver
    <2>2. enteredNodes[m].incarnation = 0 /\ p.incarnation = 0
          BY <1>p, <2>1 DEF IsOpen
    <2>3. ~Outdated(p)
          BY <2>2 DEF Outdated, m
    <2>4. ~Late(p)
      <3>1. PICK w \in Users : NodeOf[w] = Master
            BY <1>s
      <3>2. version[Master] =< m /\ version[Master] \in Int /\ m \in Int
            BY <1>1, <1>M, <1>p, <1>s, <2>1, <3>1 DEF IsOpen, Behind
      <3> QED BY <3>2 DEF Late, m
    <2>5. enteredNodes[m].nodes \in Seq(Nodes) /\ enteredNodes[m] \in [nodes : Seq(Nodes), incarnation : Nat]
          BY <1>1, <1>p
    <2>6. request = IF enteredNodes[m].nodes = <<>> THEN [nodes |-> <<n>>, incarnation |-> 0]
                    ELSE [enteredNodes[m] EXCEPT !.nodes = Append(@, n)]
          BY <2>2 DEF Counted, request, m
    <2>7. CASE enteredNodes[m].nodes = <<>>
          BY <2>1, <2>3, <2>4, <2>6, <2>7
    <2>8. CASE enteredNodes[m].nodes # <<>>
      <3>1. request.nodes = Append(enteredNodes[m].nodes, n) /\ request.incarnation = 0
            BY <2>2, <2>5, <2>6, <2>8
      <3> QED BY <2>1, <2>3, <2>4, <2>5, <3>1
    <2> QED BY <2>7, <2>8
  <1>3. Types'
        BY <1>b, <1>e, <1>n, <1>t, <1>u DEF Types, Told
  <1>4. \A v : Clean(v)' <=> Clean(v)
        BY <1>u DEF Clean
  <1>l. \A x \in Nodes : x # Master \/ version[Master] # m => leaveNotify'[x] = leaveNotify[x]
        BY <1>b DEF Told
  <1>5. SyncInv'
    <2>1. ASSUME NEW w \in Users, pc[w] = "syncing", Clean(round[w])
          PROVE  leaveNotify'[NodeOf[w]] = 0
      <3>1. leaveNotify[NodeOf[w]] = 0 /\ version[NodeOf[w]] + 1 = round[w]
            BY <1>t, <2>1 DEF SyncInv
      <3>2. CASE NodeOf[w] = Master /\ version[Master] = m
        <4>1. m \in Int /\ round[w] \in Int /\ m < round[w]
              BY <1>1, <1>p, <1>s, <3>1, <3>2
        <4>2. Clean(m)
              BY <1>t, <2>1, <4>1, CleanDown
        <4>3. round[w] =< m
              BY <1>k, <4>2 DEF IsOpen, Behind
        <4> QED BY <4>1, <4>3
      <3>3. CASE NodeOf[w] # Master \/ version[Master] # m
            BY <1>l, <1>s, <3>1, <3>3
      <3> QED BY <3>2, <3>3
    <2>2. ASSUME NEW w \in Users
          PROVE  /\ pc'[w] = "syncing" => /\ version'[NodeOf[w]] + 1 = round'[w]
                                          /\ Clean(round'[w]) => leaveNotify'[NodeOf[w]] = 0
                 /\ pc'[w] # "syncing" => version'[NodeOf[w]] >= round'[w]
                 /\ pc'[w] # "idle" => round'[w] >= 1
                 /\ pc'[w] = "waiting" => leaveVal'[w] >= 1
          BY <1>u, <1>t, <2>1 DEF SyncInv
    <2>3. ASSUME NEW w \in Users, NEW x \in Users, pc'[w] = "syncing", pc'[x] = "syncing",
                 NodeOf[w] = NodeOf[x]
          PROVE  w = x
          BY <1>u, <1>t, <2>3 DEF SyncInv
    <2> QED BY <1>u, <1>n, <2>2, <2>3 DEF SyncInv, Clean
  <1>6. \A w \in Users : \A r : HasEntered(w, r)' <=> HasEntered(w, r)
        BY <1>u DEF HasEntered
  <1>7. ASSUME NEW v \in Rounds, Clean(v)', v # m
        PROVE  IsOpen(v)' \/ IsOver(v)'
    <2>1. IsOpen(v) \/ IsOver(v)
          BY <1>4, <1>7, <1>t DEF PhaseInv
    <2>2. enteredNodes'[v] = enteredNodes[v] \/ (enteredNodes'[v].nodes = <<>> /\ enteredNodes'[v].incarnation = 0)
          BY <1>7, <1>b DEF NoRequest
    <2>3. ASSUME NEW x \in Nodes, NEW k \in 1..Len(reply'[x]), reply'[x][k] = v
          PROVE  k \in 1..Len(reply[x]) /\ reply[x][k] = v
      <3>1. reply[x] \in Seq(Rounds) /\ (reply'[x] = reply[x] \/ reply'[x] = Append(reply[x], m))
            BY <1>1, <1>b DEF Told
      <3> QED BY <1>7, <2>3, <3>1
    <2>4. ASSUME NEW x \in Nodes, NEW k \in 1..Len(enter'[x])
          PROVE  \E j \in 1..Len(enter[x]) : enter'[x][k] = enter[x][j]
      <3>1. CASE x = n
            BY <1>e, <2>4, <3>1
      <3>2. CASE x # n
            BY <1>e, <2>4, <3>2
      <3> QED BY <3>1, <3>2
    <2>5. CASE IsOpen(v)
      <3>1. /\ IsFiniteSet(Slots(v)) /\ enteredNodes[v].incarnation = 0
            /\ Len(enteredNodes[v].nodes) + Cardinality(Slots(v)) =< Cardinality(Entered(v))
            BY <2>5 DEF IsOpen
      <3>2. /\ IsFiniteSet(Slots(v)') /\ Cardinality(Slots(v)') \in Nat
            /\ Cardinality(Slots(v)') =< Cardinality(Slots(v))
            BY <1>0, <1>t, <3>1, SlotsShrink
      <3>3. Entered(v)' = Entered(v)
            BY <1>6 DEF Entered
      <3>4. Len(enteredNodes'[v].nodes) =< Len(enteredNodes[v].nodes)
            /\ Len(enteredNodes[v].nodes) \in Nat /\ Len(enteredNodes'[v].nodes) \in Nat
            BY <1>1, <2>2
      <3>5. Cardinality(Slots(v)) \in Nat /\ Cardinality(Entered(v)) \in Nat
            BY <1>s, <3>1, FS_CardinalityType, FS_Subset DEF Entered
      <3>6. Len(enteredNodes'[v].nodes) + Cardinality(Slots(v)') =< Cardinality(Entered(v)')
            BY <3>1, <3>2, <3>3, <3>4, <3>5
      <3>7. enteredNodes'[v].incarnation = 0
            BY <2>2, <3>1
      <3>8. \A x \in Nodes : \A k \in 1..Len(enter'[x]) : enter'[x][k].version = v => enter'[x][k].incarnation = 0
            BY <2>4, <2>5, SMTT(30) DEF IsOpen
      <3>9. \A x \in Nodes : \A k \in 1..Len(reply'[x]) : reply'[x][k] # v
            BY <2>3, <2>5 DEF IsOpen
      <3>10. ASSUME NEW w \in Users
             PROVE  Behind(w, v)'
        <4>1. Behind(w, v)
              BY <2>5 DEF IsOpen
        <4>2. version[NodeOf[w]] = v => leaveNotify'[NodeOf[w]] = leaveNotify[NodeOf[w]]
              BY <1>7, <1>l, <1>s
        <4> QED BY <1>n, <1>u, <4>1, <4>2 DEF Behind
      <3> QED BY <3>2, <3>6, <3>7, <3>8, <3>9, <3>10 DEF IsOpen
    <2>6. CASE IsOver(v)
      <3>1. enteredNodes'[v].nodes = <<>>
            BY <2>2, <2>6 DEF IsOver
      <3>2. \A x \in Nodes : \A k \in 1..Len(enter'[x]) : enter'[x][k].version # v
            BY <2>4, <2>6 DEF IsOver
      <3>3. ASSUME NEW x \in Nodes, NEW k \in 1..Len(reply'[x]), reply'[x][k] = v
            PROVE  InTime(v, x)' /\ \A j \in 1..Len(reply'[x]) : reply'[x][j] = v => j = k
        <4>1. InTime(v, x) /\ \A j \in 1..Len(reply[x]) : reply[x][j] = v => j = k
              BY <2>3, <2>6, <3>3 DEF IsOver
        <4>2. version[x] = v => leaveNotify'[x] = leaveNotify[x]
              BY <1>7, <1>l
        <4>3. InTime(v, x)'
              BY <1>n, <1>u, <4>1, <4>2 DEF InTime
        <4> QED BY <2>3, <4>1, <4>3
      <3> QED BY <1>6, <2>6, <3>1, <3>2, <3>3 DEF IsOver
    <2> QED BY <2>1, <2>5, <2>6
  <1>8. ASSUME NEW v \in Rounds, Clean(v)', v = m
        PROVE  IsOpen(v)' \/ IsOver(v)'
    <2>1. /\ IsOpen(v) /\ ~Outdated(p) /\ ~Late(p) /\ request.incarnation = 0
          /\ Len(request.nodes) = Len(enteredNodes[v].nodes) + 1 /\ Len(enteredNodes[v].nodes) \in Nat
          BY <1>4, <1>8, <1>k
    <2>2. /\ IsFiniteSet(Slots(v)) /\ Cardinality(Slots(v)) \in Nat
          /\ Len(enteredNodes[v].nodes) + Cardinality(Slots(v)) =< Cardinality(Entered(v))
          BY <2>1, FS_CardinalityType DEF IsOpen
    <2>3. /\ IsFiniteSet(Slots(v)') /\ Cardinality(Slots(v)') \in Nat
          /\ Cardinality(Slots(v)') + 1 =< Cardinality(Slots(v))
          BY <1>0, <1>8, <1>t, <2>2, SlotsShrink DEF m, p
    <2>4. Entered(v)' = Entered(v)
          BY <1>6 DEF Entered
    <2>5. /\ Entered(v) \subseteq Users /\ Cardinality(Users) \in Nat /\ Cardinality(Entered(v)) \in Nat
          /\ Cardinality(Entered(v)) =< Cardinality(Users)
          /\ Cardinality(Users) = Cardinality(Entered(v)) => Users = Entered(v)
          BY <1>s, FS_CardinalityType, FS_Subset DEF Entered
    <2>6. PICK requests \in Cleanup([enteredNodes EXCEPT ![m] = request], m) :
              \/ Reached(p, request) /\ enteredNodes' = Erase(requests, m)
              \/ ~Reached(p, request) /\ enteredNodes' = requests /\ leaveNotify' = leaveNotify /\ reply' = reply
          BY <1>c, <2>1
    <2>7. requests \in [Rounds -> [nodes : Seq(Nodes), incarnation : Nat]] /\ requests[v] = request
          BY <1>8, <1>p, <1>q, <1>t, CleanupForgets
    <2>8. CASE enteredNodes' = requests /\ leaveNotify' = leaveNotify /\ reply' = reply
      <3>1. Len(enteredNodes'[v].nodes) + Cardinality(Slots(v)') =< Cardinality(Entered(v)')
            BY <2>1, <2>2, <2>3, <2>4, <2>5, <2>7, <2>8, SMTT(30)
      <3>2. enteredNodes'[v].incarnation = 0
            BY <2>1, <2>7, <2>8
      <3>3. ASSUME NEW x \in Nodes, NEW k \in 1..Len(enter'[x]), enter'[x][k].version = v
            PROVE  enter'[x][k].incarnation = 0
        <4>1. \E j \in 1..Len(enter[x]) : enter'[x][k] = enter[x][j]
          <5>1. CASE x = n
                BY <1>e, <3>3, <5>1
          <5>2. CASE x # n
                BY <1>e, <3>3, <5>2
          <5> QED BY <5>1, <5>2
        <4> QED BY <2>1, <3>3, <4>1 DEF IsOpen
      <3>4. \A x \in Nodes : \A k \in 1..Len(reply'[x]) : reply'[x][k] # v
            BY <2>1, <2>8 DEF IsOpen
      <3>5. \A w \in Users : Behind(w, v)'
            BY <1>n, <1>u, <2>1, <2>8 DEF IsOpen, Behind
      <3> QED BY <2>3, <3>1, <3>2, <3>3, <3>4, <3>5 DEF IsOpen
    <2>9. CASE Reached(p, request) /\ enteredNodes' = Erase(requests, m)
      <3>1. Len(enteredNodes[v].nodes) + 1 >= Cardinality(Users)
            BY <2>1, <2>9 DEF Reached, height
      <3>2. Cardinality(Slots(v)') = 0 /\ Cardinality(Users) = Cardinality(Entered(v))
            BY <2>1, <2>2, <2>3, <2>5, <3>1
      <3>3. Slots(v)' = {} /\ Users = Entered(v)
            BY <2>3, <2>5, <3>2, FS_EmptySet
      <3>4. \A w \in Users : HasEntered(w, v)
            BY <3>3 DEF Entered
      <3>5. ASSUME NEW x \in Nodes, NEW k \in 1..Len(enter'[x])
            PROVE  enter'[x][k].version # v
        <4>1. enter'[x][k].version = v => <<x, k>> \in Slots(v)'
              BY DEF Slots
        <4> QED BY <3>3, <4>1
      <3>6. enteredNodes'[v].nodes = <<>>
            BY <1>8, <2>7, <2>9 DEF Erase, NoRequest
      <3>7. ASSUME NEW x \in Nodes, NEW k \in 1..Len(reply'[x]), reply'[x][k] = v
            PROVE  InTime(v, x)' /\ \A j \in 1..Len(reply'[x]) : reply'[x][j] = v => j = k
        <4>1. \A j \in 1..Len(reply[x]) : reply[x][j] # v
              BY <2>1 DEF IsOpen
        <4>2. reply[x] \in Seq(Rounds) /\ x # Master /\ reply'[x] = Append(reply[x], m)
              BY <1>1, <1>b, <3>7, <4>1 DEF Told
        <4>3. \A j \in 1..Len(reply'[x]) : reply'[x][j] = v => j = Len(reply[x]) + 1
              BY <4>1, <4>2
        <4>4. leaveNotify'[x] = leaveNotify[x]
              BY <1>l, <4>2
        <4>5. ASSUME NEW w \in Users, NodeOf[w] = x
              PROVE  round[w] = v /\ pc[w] = "waiting" /\ version[x] = v /\ leaveNotify[x] = 0
          <5>1. v \in Int /\ round[w] \in Int /\ version[x] \in Int
                BY <1>1, <1>s
          <5>2. Behind(w, v) /\ HasEntered(w, v)
                BY <2>1, <3>4 DEF IsOpen
          <5>3. round[w] = v /\ pc[w] = "waiting"
                BY <5>1, <5>2 DEF Behind, HasEntered
          <5>4. version[x] >= v
                BY <1>t, <4>5, <5>3 DEF SyncInv
          <5>5. version[x] = v
                BY <4>5, <5>1, <5>2, <5>4 DEF Behind
          <5> QED BY <4>5, <5>2, <5>3, <5>5 DEF Behind
        <4>6. InTime(v, x)'
              BY <1>n, <1>u, <4>4, <4>5 DEF InTime
        <4> QED BY <3>7, <4>3, <4>6
      <3> QED BY <1>6, <3>4, <3>5, <3>6, <3>7 DEF IsOver
    <2> QED BY <2>6, <2>8, <2>9
  <1>9. PhaseInv'
        BY <1>7, <1>8, <1>n DEF PhaseInv
  <1>10. LeavesTogether'
         BY <1>u, <1>6, <1>t, TogetherKept
  <1>11. PatientInv'
         BY <1>u, <1>n, <1>t DEF PatientInv
  <1> QED BY <1>3, <1>5, <1>9, <1>10, <1>11 DEF BarrierInv

-----------------------------------------------------------------------------
(* All versions are open at first.                                         *)
LEMMA BarrierInit ==
    ASSUME NewVersions, Init
    PROVE  BarrierInv
  <1>1. /\ setup \in Setups /\ setup.commitEachRound
        BY DEF Init, NewVersions
  <1>2. /\ setup.nodeOf \in [Users -> Nodes] /\ setup.lastRound \in Nat \ {0}
        BY <1>1, BarrierAssumption
  <1>3. /\ LastRound \in Nat \ {0} /\ NodeOf \in [Users -> Nodes] /\ Rounds = 1..LastRound /\ Versions = Rounds
        BY <1>1, <1>2 DEF LastRound, NodeOf, Rounds, Versions, CommitEachRound
  <1>4. /\ version = [n \in Nodes |-> 1] /\ leaveNotify = [n \in Nodes |-> 0]
        /\ pc = [u \in Users |-> "idle"] /\ round = [u \in Users |-> 0] /\ leaveVal = [u \in Users |-> 0]
        /\ enter = [n \in Nodes |-> <<>>] /\ reply = [n \in Nodes |-> <<>>]
        /\ enteredNodes = [v \in Rounds |-> NoRequest]
        /\ left = [u \in Users |-> {}] /\ gaveUp = [u \in Users |-> {}]
        BY <1>3 DEF Init
  <1>5. Types
    <2>1. NoRequest \in [nodes : Seq(Nodes), incarnation : Nat]
          BY DEF NoRequest
    <2>2. /\ version \in [Nodes -> Rounds] /\ leaveNotify \in [Nodes -> Nat]
          /\ pc \in [Users -> {"idle", "syncing", "synced", "waiting"}] /\ round \in [Users -> 0..LastRound]
          /\ leaveVal \in [Users -> Nat] /\ left \in [Users -> SUBSET Rounds] /\ gaveUp \in [Users -> SUBSET Rounds]
          BY <1>3, <1>4
    <2>3. enter \in [Nodes -> Seq(EnterPackets)] /\ reply \in [Nodes -> Seq(Rounds)]
          BY <1>4
    <2>4. enteredNodes \in [Rounds -> [nodes : Seq(Nodes), incarnation : Nat]]
          BY <1>4, <2>1
    <2> QED BY <1>1, <2>2, <2>3, <2>4 DEF Types
  <1>6. SyncInv
        BY <1>3, <1>4 DEF SyncInv
  <1>7. ASSUME NEW v \in Rounds
        PROVE  IsOpen(v)
    <2>1. Slots(v) = {}
          BY <1>4 DEF Slots
    <2>2. \A u \in Users : ~HasEntered(u, v)
          BY <1>3, <1>4 DEF HasEntered
    <2>3. Entered(v) = {}
          BY <2>2 DEF Entered
    <2>4. IsFiniteSet({}) /\ Cardinality({}) = 0
          BY FS_EmptySet
    <2>5. enteredNodes[v].nodes = <<>> /\ enteredNodes[v].incarnation = 0
          BY <1>4 DEF NoRequest
    <2>6. Len(enteredNodes[v].nodes) + Cardinality(Slots(v)) =< Cardinality(Entered(v))
          BY <2>1, <2>3, <2>4, <2>5
    <2>7. \A u \in Users : Behind(u, v)
          BY <1>3, <1>4 DEF Behind
    <2> QED BY <1>4, <2>1, <2>4, <2>5, <2>6, <2>7 DEF IsOpen
  <1> QED BY <1>4, <1>5, <1>6, <1>7 DEF BarrierInv, PhaseInv, LeavesTogether, PatientInv

(* A step that changes nothing.                                            *)
LEMMA BarrierStutter ==
    ASSUME BarrierInv, vars' = vars
    PROVE  BarrierInv'
  <1>1. /\ setup' = setup /\ version' = version /\ leaveNotify' = leaveNotify /\ pc' = pc /\ round' = round
        /\ leaveVal' = leaveVal /\ enter' = enter /\ reply' = reply /\ enteredNodes' = enteredNodes
        /\ left' = left /\ gaveUp' = gaveUp
        BY DEF vars
  <1>2. /\ NodeOf' = NodeOf /\ (Timed' <=> Timed) /\ LastRound' = LastRound
        /\ Rounds' = Rounds /\ EnterPackets' = EnterPackets
        BY <1>1, SetupSame
  <1>3. Types' /\ SyncInv' /\ LeavesTogether' /\ PatientInv'
        BY <1>1, <1>2 DEF BarrierInv, Types, SyncInv, Clean, LeavesTogether, HasEntered, PatientInv
  <1>4. ASSUME NEW v \in Rounds, Clean(v)
        PROVE  IsOpen(v)' \/ IsOver(v)'
    <2>1. CASE IsOpen(v)
          BY <1>1, <1>2, <2>1 DEF IsOpen, Slots, Entered, HasEntered, Behind
    <2>2. CASE IsOver(v)
          BY <1>1, <1>2, <2>2 DEF IsOver, HasEntered, InTime
    <2> QED BY <1>4, <2>1, <2>2 DEF BarrierInv, PhaseInv
  <1>5. PhaseInv'
        BY <1>1, <1>2, <1>4 DEF PhaseInv, Clean
  <1> QED BY <1>3, <1>5 DEF BarrierInv

(* BarrierInv is inductive: one lemma above for each action.               *)
LEMMA BarrierNext ==
    ASSUME NewVersions, BarrierInv, [Next]_vars
    PROVE  BarrierInv'
  <1>1. ASSUME NEW u \in Users, UserStep(u) \/ TimeoutBarrier(u)
        PROVE  BarrierInv'
        BY <1>1, GetBarrierStep, UnpackStep, SetVersionStep, EnterStep, LeaveStep, TimeoutStep DEF UserStep
  <1>2. ASSUME NEW n \in Nodes, CmdEnter(n) \/ CmdEnterReply(n)
        PROVE  BarrierInv'
        BY <1>2, CmdEnterStep, ReplyStep
  <1> QED BY <1>1, <1>2, BarrierStutter DEF Next

(* The barrier synchronizes, for all users, nodes and rounds: whoever      *)
(* returns normally from Barrier::enter of a version has been waited for   *)
(* by everybody, or somebody's timeout of this version or of an earlier    *)
(* one has expired.                                                        *)
THEOREM BarrierLeavesTogether ==
    ASSUME NewVersions
    PROVE  Spec => []LeavesTogether
  <1>1. Init => BarrierInv
        BY BarrierInit
  <1>2. BarrierInv /\ [Next]_vars => BarrierInv'
        BY BarrierNext
  <1>3. BarrierInv => LeavesTogether
        BY DEF BarrierInv
  <1> QED BY <1>1, <1>2, <1>3, PTL DEF Spec

(* Without timeouts the types hold, among them that _cmdEnter never counts *)
(* more enters of a version than the height of the barrier, as it asserts. *)
THEOREM BarrierTypeCorrect ==
    ASSUME NewVersions, \A s \in Setups : ~s.timed
    PROVE  Spec => []TypeOK
  <1>1. Init => BarrierInv
        BY BarrierInit
  <1>2. BarrierInv /\ [Next]_vars => BarrierInv'
        BY BarrierNext
  <1>3. ASSUME BarrierInv
        PROVE  TypeOK
    <2>t. Types /\ PhaseInv /\ PatientInv
          BY <1>3 DEF BarrierInv
    <2>s. Versions = Rounds /\ IsFiniteSet(Users)
          BY <2>t, SetupFacts
    <2>1. \A u \in Users : gaveUp[u] = {}
          BY <2>t DEF Types, PatientInv, Timed
    <2>2. ASSUME NEW v \in Rounds
          PROVE  Len(enteredNodes[v].nodes) =< height
      <3>1. IsOpen(v) \/ IsOver(v)
            BY <2>1, <2>t DEF PhaseInv, Clean
      <3>2. Cardinality(Entered(v)) =< height /\ Cardinality(Entered(v)) \in Nat /\ height \in Nat
            BY <2>s, FS_Subset, FS_CardinalityType DEF Entered, height
      <3>3. Len(enteredNodes[v].nodes) \in Nat
            BY <2>t DEF Types
      <3>4. CASE IsOpen(v)
        <4>1. Cardinality(Slots(v)) \in Nat
              BY <3>4, FS_CardinalityType DEF IsOpen
        <4>2. Len(enteredNodes[v].nodes) + Cardinality(Slots(v)) =< Cardinality(Entered(v))
              BY <3>4 DEF IsOpen
        <4> QED BY <3>2, <3>3, <4>1, <4>2
      <3>5. CASE IsOver(v)
            BY <3>2, <3>5 DEF IsOver
      <3> QED BY <3>1, <3>4, <3>5
    <2>3. ASSUME NEW n \in Nodes
          PROVE  /\ \A k \in 1..Len(enter[n]) : enter[n][k].version \in Rounds
                 /\ \A k \in 1..Len(reply[n]) : reply[n][k] \in Rounds
      <3>1. enter[n] \in Seq(EnterPackets) /\ reply[n] \in Seq(Rounds)
            BY <2>t DEF Types
      <3>2. \A k \in 1..Len(enter[n]) : enter[n][k] \in EnterPackets
            BY <3>1
      <3>3. \A k \in 1..Len(reply[n]) : reply[n][k] \in Rounds
            BY <3>1
      <3> QED BY <3>2, <3>3 DEF EnterPackets
    <2> QED BY <2>2, <2>3, <2>s, <2>t DEF TypeOK, Types
  <1> QED BY <1>1, <1>2, <1>3, PTL DEF Spec
===============================================================================
