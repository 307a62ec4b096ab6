--------------------------- MODULE CallPoolProofs ---------------------------
(* Proofs about CallPool, for any table, any pools and any circuits, and   *)
(* about the names of circuits in any map.                                 *)
EXTENDS CallPool, SequenceTheorems, FiniteSetTheorems, WellFoundedInduction, TLAPS

\* A nonempty set of naturals has a least element.
LEMMA LeastNatural ==
    ASSUME NEW T \in SUBSET Nat, T # {}
    PROVE  \E m \in T : \A n \in T : m <= n
  <1> DEFINE R == OpToRel(<, Nat)
  <1>1. IsWellFoundedOn(R, Nat)
    BY NatLessThanWellFounded
  <1>2. PICK m \in T : \A n \in T : ~ (<<n, m>> \in R)
    BY <1>1, WFMin
  <1>3. \A n, k \in Nat : n < k => <<n, k>> \in R
    BY DEF OpToRel
  <1> HIDE DEF R
  <1>4. \A n \in T : m <= n
    <2> SUFFICES ASSUME NEW n \in T PROVE m <= n
      OBVIOUS
    <2>1. n \in Nat /\ m \in Nat
      OBVIOUS
    <2>2. ~ (n < m)
      BY <1>2, <1>3, <2>1, Zenon
    <2> QED BY <2>1, <2>2
  <1> QED BY <1>4

-----------------------------------------------------------------------------
(* Sequences of distinct ids.                                              *)

\* An id put in front of a pool that does not hold it.
LEMMA PushId ==
    ASSUME NEW s \in Seq(Nat), NEW x \in Nat
    PROVE  /\ <<x>> \o s \in Seq(Nat)
           /\ Members(<<x>> \o s) = {x} \cup Members(s)
           /\ Distinct(s) /\ x \notin Members(s) => Distinct(<<x>> \o s)
  <1> DEFINE t == <<x>> \o s
  <1>1. /\ <<x>> \in Seq(Nat) /\ Len(<<x>>) = 1 /\ <<x>>[1] = x
    OBVIOUS
  <1>2. /\ t \in Seq(Nat) /\ Len(t) = 1 + Len(s)
        /\ \A i \in 1 .. 1 + Len(s) : t[i] = IF i <= 1 THEN <<x>>[i] ELSE s[i - 1]
    BY <1>1, ConcatProperties
  <1>3. DOMAIN t = 1..(1 + Len(s)) /\ DOMAIN s = 1..Len(s) /\ Len(s) \in Nat
    BY <1>2, LenProperties
  <1> HIDE DEF t
  <1>4. t[1] = x /\ \A i \in DOMAIN s : i + 1 \in DOMAIN t /\ t[i + 1] = s[i]
    BY <1>1, <1>2, <1>3
  <1>5. \A i \in DOMAIN t : i = 1 \/ (i - 1 \in DOMAIN s /\ t[i] = s[i - 1])
    BY <1>2, <1>3
  <1>6. Members(t) = {x} \cup Members(s)
    BY <1>3, <1>4, <1>5 DEF Members
  <1>7. ASSUME Distinct(s), x \notin Members(s) PROVE Distinct(t)
    BY <1>3, <1>4, <1>5, <1>7 DEF Members, Distinct
  <1> QED BY <1>2, <1>6, <1>7 DEF t

\* Two pools joined.
LEMMA JoinIds ==
    ASSUME NEW s \in Seq(Nat), NEW t \in Seq(Nat)
    PROVE  /\ s \o t \in Seq(Nat)
           /\ Members(s \o t) = Members(s) \cup Members(t)
           /\ Distinct(s) /\ Distinct(t) /\ Members(s) \cap Members(t) = {} => Distinct(s \o t)
  <1> DEFINE u == s \o t
  <1>1. /\ u \in Seq(Nat) /\ Len(u) = Len(s) + Len(t)
        /\ \A i \in 1 .. Len(s) + Len(t) : u[i] = IF i <= Len(s) THEN s[i] ELSE t[i - Len(s)]
    BY ConcatProperties
  <1>2. /\ DOMAIN u = 1..(Len(s) + Len(t)) /\ DOMAIN s = 1..Len(s) /\ DOMAIN t = 1..Len(t)
        /\ Len(s) \in Nat /\ Len(t) \in Nat
    BY <1>1, LenProperties
  <1> HIDE DEF u
  <1>3. \A i \in DOMAIN s : i \in DOMAIN u /\ u[i] = s[i]
    BY <1>1, <1>2
  <1>4. \A i \in DOMAIN t : i + Len(s) \in DOMAIN u /\ u[i + Len(s)] = t[i]
    <2> SUFFICES ASSUME NEW i \in 1..Len(t)
                 PROVE  i + Len(s) \in DOMAIN u /\ u[i + Len(s)] = t[i]
      BY <1>2
    <2>1. /\ i + Len(s) \in 1..Len(s) + Len(t)
          /\ ~ (i + Len(s) <= Len(s)) /\ i + Len(s) - Len(s) = i
      BY <1>2
    <2>2. u[i + Len(s)] = t[i + Len(s) - Len(s)]
      BY <1>1, <2>1
    <2>3. u[i + Len(s)] = t[i]
      BY <2>1, <2>2, Zenon
    <2> QED BY <1>2, <2>1, <2>3
  <1>5. \A i \in DOMAIN u : \/ i \in DOMAIN s /\ u[i] = s[i]
                            \/ i - Len(s) \in DOMAIN t /\ u[i] = t[i - Len(s)]
    BY <1>1, <1>2
  <1>6. Members(u) = Members(s) \cup Members(t)
    BY <1>3, <1>4, <1>5 DEF Members
  <1>7. ASSUME Distinct(s), Distinct(t), Members(s) \cap Members(t) = {} PROVE Distinct(u)
    <2> SUFFICES ASSUME NEW i \in DOMAIN u, NEW j \in DOMAIN u, u[i] = u[j] PROVE i = j
      BY DEF Distinct
    <2>1. CASE i \in DOMAIN s /\ u[i] = s[i] /\ j \in DOMAIN s /\ u[j] = s[j]
      BY <1>7, <2>1 DEF Distinct
    <2>2. CASE /\ i - Len(s) \in DOMAIN t /\ u[i] = t[i - Len(s)]
               /\ j - Len(s) \in DOMAIN t /\ u[j] = t[j - Len(s)]
      <3>1. i - Len(s) = j - Len(s)
        BY <1>7, <2>2 DEF Distinct
      <3> QED BY <3>1, <1>2
    <2>3. \A a \in DOMAIN s, b \in DOMAIN t : s[a] # t[b]
      BY <1>7 DEF Members
    <2> QED BY <1>5, <2>1, <2>2, <2>3
  <1> QED BY <1>1, <1>6, <1>7 DEF u

\* A piece of a pool; two pieces that do not overlap share no id.
LEMMA PieceOfIds ==
    ASSUME NEW s \in Seq(Nat), NEW m \in Nat \ {0}, NEW n \in Nat, n <= Len(s)
    PROVE  /\ SubSeq(s, m, n) \in Seq(Nat)
           /\ Members(SubSeq(s, m, n)) = {s[i] : i \in m..n}
           /\ Distinct(s) => Distinct(SubSeq(s, m, n))
  <1> DEFINE t == SubSeq(s, m, n)
  <1>1. Len(s) \in Nat /\ DOMAIN s = 1..Len(s) /\ \A i \in 1..Len(s) : s[i] \in Nat
    BY LenProperties
  <1>2. \A i \in m..n : i \in DOMAIN s /\ s[i] \in Nat
    BY <1>1
  <1>3. /\ t \in Seq(Nat) /\ Len(t) = IF m <= n THEN n - m + 1 ELSE 0
        /\ \A i \in 1 .. n - m + 1 : t[i] = s[m + i - 1]
    BY <1>2, SubSeqProperties
  <1>4. DOMAIN t = 1..Len(t)
    BY <1>3, LenProperties
  <1> HIDE DEF t
  <1>5. \A i \in DOMAIN t : m + i - 1 \in m..n /\ t[i] = s[m + i - 1]
    <2> SUFFICES ASSUME NEW i \in 1..Len(t)
                 PROVE  m + i - 1 \in m..n /\ t[i] = s[m + i - 1]
      BY <1>4
    <2>1. i \in 1..n - m + 1 /\ m + i - 1 \in m..n
      BY <1>3
    <2> QED BY <1>3, <2>1
  <1>6. \A j \in m..n : j - m + 1 \in DOMAIN t /\ t[j - m + 1] = s[j]
    <2> SUFFICES ASSUME NEW j \in m..n
                 PROVE  j - m + 1 \in DOMAIN t /\ t[j - m + 1] = s[j]
      OBVIOUS
    <2>1. /\ j - m + 1 \in 1..n - m + 1 /\ m + (j - m + 1) - 1 = j
          /\ j - m + 1 \in DOMAIN t
      BY <1>3, <1>4
    <2> QED BY <1>3, <2>1
  <1>7. Members(t) = {s[i] : i \in m..n}
    <2>1. ASSUME NEW i \in DOMAIN t PROVE t[i] \in {s[j] : j \in m..n}
      BY <1>5
    <2>2. ASSUME NEW j \in m..n PROVE s[j] \in {t[i] : i \in DOMAIN t}
      BY <1>6
    <2> QED BY <2>1, <2>2, Zenon DEF Members
  <1>8. ASSUME Distinct(s) PROVE Distinct(t)
    <2> SUFFICES ASSUME NEW i \in DOMAIN t, NEW j \in DOMAIN t, t[i] = t[j] PROVE i = j
      BY DEF Distinct
    <2>1. m + i - 1 = m + j - 1
      BY <1>2, <1>5, <1>8 DEF Distinct
    <2> QED BY <2>1, <1>4, <1>3
  <1> QED BY <1>3, <1>7, <1>8 DEF t

\* The id a replacement takes is not among those that stay.
LEMMA PopId ==
    ASSUME NEW s \in Seq(Nat), s # <<>>
    PROVE  /\ s[Len(s)] \in Members(s)
           /\ SubSeq(s, 1, Len(s) - 1) \in Seq(Nat)
           /\ Members(SubSeq(s, 1, Len(s) - 1)) \subseteq Members(s)
           /\ Distinct(s) => /\ Distinct(SubSeq(s, 1, Len(s) - 1))
                             /\ s[Len(s)] \notin Members(SubSeq(s, 1, Len(s) - 1))
  <1> DEFINE n == Len(s)
  <1>1. n \in Nat \ {0} /\ DOMAIN s = 1..n
    BY EmptySeq, LenProperties
  <1>2. /\ n - 1 \in Nat /\ n - 1 <= n /\ 1 \in Nat \ {0}
        /\ n \in 1..n /\ \A i \in 1..n - 1 : i \in 1..n /\ i # n
    <2> HIDE DEF n
    <2> QED BY <1>1
  <1>3. /\ SubSeq(s, 1, n - 1) \in Seq(Nat)
        /\ Members(SubSeq(s, 1, n - 1)) = {s[i] : i \in 1..n - 1}
        /\ Distinct(s) => Distinct(SubSeq(s, 1, n - 1))
    BY <1>2, PieceOfIds, Zenon
  <1> HIDE DEF n
  <1>4. s[n] \in Members(s) /\ {s[i] : i \in 1..n - 1} \subseteq Members(s)
    BY <1>1, <1>2 DEF Members
  <1>5. Distinct(s) => s[n] \notin {s[i] : i \in 1..n - 1}
    BY <1>1, <1>2 DEF Distinct
  <1> QED BY <1>3, <1>4, <1>5 DEF n

-----------------------------------------------------------------------------
(* The inductive invariant.                                                *)

\* The types of the loop's own state, which calls and pools do not depend on.
LoopTypes ==
    /\ users \in Nat /\ limit \in Limits
    /\ paused \in BOOLEAN /\ soft \in BOOLEAN /\ hard \in BOOLEAN
    /\ created \in 0..Wrap - 1 /\ ended \in 0..Wrap - 1 /\ aside \in 0..Wrap - 1
    /\ mode \in Modes
    /\ phase \in {"refill", "top", "event", "place", "failing", "done"}
    /\ credit \in 0..MaxCredit
    /\ resume \in {"refill", "place", "done"}
    /\ asked \subseteq Stops

\* Calls are failed in their own phase, and only live ones.
DoomedAreLive ==
    /\ doomed \subseteq DOMAIN calls
    /\ phase # "failing" => doomed = {}

TableTypes == DOMAIN calls \subseteq CallIds /\ \A id \in DOMAIN calls : calls[id] \in Call

PoolTypes == free \in Seq(Nat) /\ retired \in Seq(Nat) /\ nextUserId \in Nat \ {0}

\* No id reaches nextUserId, so the next one is at no other place.
UserIdsAreOld == Members(free) \cup Members(retired) \cup Held \subseteq 1..nextUserId - 1

Ids == TableTypes /\ PoolTypes /\ UserIdsAreUnique /\ UserIdsAreOld

Tdm == TableTypes /\ busy \subseteq Circuits /\ CircuitsFollowCalls

\* The calls of a tick are placed by the pacer, which a pause has not stopped.
PlacesUnpaused ==
    phase = "place" \/ (phase = "failing" /\ resume = "place") => mode = "rate" /\ ~paused

IInv == LoopTypes /\ DoomedAreLive /\ PlacesUnpaused /\ Ids /\ Tdm

-----------------------------------------------------------------------------
(* The table and the pools.                                                *)

\* What leaves the table no longer holds its id; the others hold theirs.
LEMMA DropHolds ==
    ASSUME Ids, NEW id \in DOMAIN calls, calls' = Drop(id)
    PROVE  /\ TableTypes'
           /\ Held' = Held \ {calls[id].uid}
           /\ \A a, b \in DOMAIN calls' :
                 calls'[a].uid = calls'[b].uid /\ calls'[a].uid # 0 => a = b
  <1>1. /\ DOMAIN calls' = DOMAIN calls \ {id}
        /\ \A a \in DOMAIN calls' : calls'[a] = calls[a]
    BY DEF Drop
  <1>2. \A a, b \in DOMAIN calls : calls[a].uid = calls[b].uid /\ calls[a].uid # 0 => a = b
    BY DEF Ids, UserIdsAreUnique
  <1>3. Held' = {calls[a].uid : a \in DOMAIN calls \ {id}} \ {0}
    BY <1>1 DEF Held
  <1>4. Held' = Held \ {calls[id].uid}
    BY <1>2, <1>3 DEF Held
  <1>5. TableTypes'
    BY <1>1 DEF Ids, TableTypes
  <1> QED BY <1>1, <1>2, <1>4, <1>5

\* A call that enters it holds its id, which no other one does.
LEMMA AddHolds ==
    ASSUME Ids, Unused # {}, NEW call \in Call, call.uid \notin Held,
           calls' = Add(Slot, call)
    PROVE  /\ TableTypes'
           /\ Held' = Held \cup ({call.uid} \ {0})
           /\ \A a, b \in DOMAIN calls' :
                 calls'[a].uid = calls'[b].uid /\ calls'[a].uid # 0 => a = b
  <1>1. Slot \in CallIds /\ Slot \notin DOMAIN calls
    BY DEF Slot, Unused
  <1> DEFINE slot == Slot
  <1>2. /\ DOMAIN calls' = DOMAIN calls \cup {slot}
        /\ calls'[slot] = call
        /\ \A a \in DOMAIN calls : calls'[a] = calls[a]
    BY <1>1 DEF Add
  <1> HIDE DEF slot
  <1>3. \A a, b \in DOMAIN calls : calls[a].uid = calls[b].uid /\ calls[a].uid # 0 => a = b
    BY DEF Ids, UserIdsAreUnique
  <1>4. {calls'[a].uid : a \in DOMAIN calls'} = {calls[a].uid : a \in DOMAIN calls} \cup {call.uid}
    BY <1>2
  <1>5. Held' = Held \cup ({call.uid} \ {0})
    BY <1>4 DEF Held
  <1>6. \A a \in DOMAIN calls : calls[a].uid # 0 => calls[a].uid # call.uid
    BY DEF Held
  <1>7. ASSUME NEW a \in DOMAIN calls', NEW b \in DOMAIN calls',
               calls'[a].uid = calls'[b].uid, calls'[a].uid # 0
        PROVE  a = b
    BY <1>2, <1>3, <1>6, <1>7
  <1>8. TableTypes'
    BY <1>1, <1>2 DEF Ids, TableTypes, slot
  <1> QED BY <1>5, <1>7, <1>8

\* return_user: an id that no call holds goes to one of the pools.
LEMMA ReturnKeepsIds ==
    ASSUME Ids, TableTypes', NEW uid \in Nat, NEW left,
           uid # 0 => uid \in Held,
           Held' = Held \ {uid},
           \A a, b \in DOMAIN calls' :
              calls'[a].uid = calls'[b].uid /\ calls'[a].uid # 0 => a = b,
           ReturnUser(uid, left), UNCHANGED nextUserId
    PROVE  Ids'
  <1>1. /\ free \in Seq(Nat) /\ retired \in Seq(Nat) /\ nextUserId \in Nat \ {0}
        /\ Distinct(free) /\ Distinct(retired)
        /\ Members(free) \cap Members(retired) = {}
        /\ Held \cap (Members(free) \cup Members(retired)) = {}
        /\ Members(free) \cup Members(retired) \cup Held \subseteq 1..nextUserId - 1
    BY DEF Ids, PoolTypes, UserIdsAreUnique, UserIdsAreOld
  <1>2. CASE uid = 0 \/ UNCHANGED <<free, retired>>
    <2>1. free' = free /\ retired' = retired
      BY <1>2 DEF ReturnUser
    <2>2. UserIdsAreUnique' /\ UserIdsAreOld'
      BY <1>1, <2>1 DEF UserIdsAreUnique, UserIdsAreOld
    <2> QED BY <1>1, <2>1, <2>2 DEF Ids, PoolTypes
  <1>3. CASE uid # 0 /\ retired' = <<uid>> \o retired /\ free' = free
    <2>1. /\ retired' \in Seq(Nat) /\ Members(retired') = {uid} \cup Members(retired)
          /\ Distinct(retired')
      BY <1>1, <1>3, PushId
    <2>2. UserIdsAreUnique' /\ UserIdsAreOld'
      BY <1>1, <1>3, <2>1 DEF UserIdsAreUnique, UserIdsAreOld
    <2> QED BY <1>1, <1>3, <2>1, <2>2 DEF Ids, PoolTypes
  <1>4. CASE uid # 0 /\ free' = <<uid>> \o free /\ retired' = retired
    <2>1. /\ free' \in Seq(Nat) /\ Members(free') = {uid} \cup Members(free)
          /\ Distinct(free')
      BY <1>1, <1>4, PushId
    <2>2. UserIdsAreUnique' /\ UserIdsAreOld'
      BY <1>1, <1>4, <2>1 DEF UserIdsAreUnique, UserIdsAreOld
    <2> QED BY <1>1, <1>4, <2>1, <2>2 DEF Ids, PoolTypes
  <1> QED BY <1>2, <1>3, <1>4 DEF ReturnUser

\* A call that leaves the table gives its id back, once (remove_call, return_user).
LEMMA LeavingKeepsIds ==
    ASSUME Ids, NEW id \in DOMAIN calls, LeavesTable(id), UNCHANGED nextUserId
    PROVE  Ids'
  <1>1. calls' = Drop(id) /\ ReturnUser(calls[id].uid, Cardinality(MainOf(Drop(id))))
    BY DEF LeavesTable
  <1>2. calls[id].uid \in Nat
    BY DEF Ids, TableTypes, Call
  <1>3. calls[id].uid # 0 => calls[id].uid \in Held
    BY DEF Held
  <1> QED BY <1>1, <1>2, <1>3, DropHolds, ReturnKeepsIds

\* What start_call is given: no id, or one that was taken out of the free pool.
Taken(uid, pool) ==
    /\ uid \in Nat /\ uid < nextUserId
    /\ pool \in Seq(Nat) /\ Distinct(pool) /\ Members(pool) \subseteq Members(free)
    /\ uid \notin Members(pool) \cup Members(retired) \cup Held

\* A call without an id takes none.
LEMMA NoIdIsTaken ==
    ASSUME Ids
    PROVE  Taken(0, free)
  <1> QED BY DEF Ids, PoolTypes, UserIdsAreUnique, UserIdsAreOld, Taken, Held

\* refill_users takes the last free id, which is then at no other place.
LEMMA LastIdIsTaken ==
    ASSUME Ids, free # <<>>
    PROVE  Taken(free[Len(free)], SubSeq(free, 1, Len(free) - 1))
  <1> DEFINE uid == free[Len(free)]
             pool == SubSeq(free, 1, Len(free) - 1)
  <1>1. /\ uid \in Members(free) /\ pool \in Seq(Nat) /\ Members(pool) \subseteq Members(free)
        /\ Distinct(pool) /\ uid \notin Members(pool)
    BY PopId DEF Ids, PoolTypes, UserIdsAreUnique
  <1> HIDE DEF uid, pool
  <1>2. uid \in 1..nextUserId - 1 /\ uid \notin Members(retired) \cup Held
    BY <1>1 DEF Ids, UserIdsAreUnique, UserIdsAreOld
  <1>3. Taken(uid, pool)
    BY <1>1, <1>2 DEF Taken, Ids, PoolTypes
  <1> QED BY <1>3 DEF uid, pool

\* A call that lives holds the id that was taken for it.
LEMMA OpensKeepsIds ==
    ASSUME Ids, NEW uid, NEW pool, Taken(uid, pool), NEW circuit \in Nat, Unused # {},
           Opens(uid, circuit, pool), UNCHANGED nextUserId
    PROVE  Ids'
  <1> DEFINE call == [uid |-> uid, circuit |-> circuit, secondary |-> FALSE]
  <1>1. call \in Call /\ call.uid = uid /\ uid \in Nat
    BY DEF Call, Taken
  <1>2. calls' = Add(Slot, call) /\ free' = pool /\ retired' = retired
    BY DEF Opens
  <1> HIDE DEF call
  <1>3. uid \notin Held
    BY DEF Taken
  <1>4. /\ TableTypes' /\ Held' = Held \cup ({uid} \ {0})
        /\ \A a, b \in DOMAIN calls' :
              calls'[a].uid = calls'[b].uid /\ calls'[a].uid # 0 => a = b
    BY <1>1, <1>2, <1>3, AddHolds
  <1>5. UserIdsAreUnique' /\ UserIdsAreOld'
    BY <1>1, <1>2, <1>4 DEF Taken, Ids, UserIdsAreUnique, UserIdsAreOld, PoolTypes
  <1> QED BY <1>2, <1>4, <1>5 DEF Taken, Ids, PoolTypes

\* A call that ends while it is opened gives the id back.
LEMMA OpensAndEndsKeepsIds ==
    ASSUME Ids, NEW uid, NEW pool, Taken(uid, pool),
           OpensAndEnds(uid, pool), UNCHANGED nextUserId
    PROVE  Ids'
  <1>1. TableTypes' /\ Held' = Held /\ calls' = calls
    BY DEF OpensAndEnds, Ids, TableTypes, Held
  <1>2. /\ uid \in Nat /\ uid < nextUserId /\ uid \notin Members(pool) \cup Members(retired) \cup Held
        /\ pool \in Seq(Nat) /\ Distinct(pool) /\ Members(pool) \subseteq Members(free)
    BY DEF Taken
  <1>3. /\ free \in Seq(Nat) /\ retired \in Seq(Nat) /\ nextUserId \in Nat \ {0}
        /\ Distinct(free) /\ Distinct(retired)
        /\ Members(free) \cap Members(retired) = {}
        /\ Held \cap (Members(free) \cup Members(retired)) = {}
        /\ Members(free) \cup Members(retired) \cup Held \subseteq 1..nextUserId - 1
        /\ \A a, b \in DOMAIN calls :
              calls[a].uid = calls[b].uid /\ calls[a].uid # 0 => a = b
    BY DEF Ids, PoolTypes, UserIdsAreUnique, UserIdsAreOld
  <1>4. CASE uid # 0 /\ retired' = <<uid>> \o retired /\ free' = pool
    <2>1. /\ retired' \in Seq(Nat) /\ Members(retired') = {uid} \cup Members(retired)
          /\ Distinct(retired')
      BY <1>2, <1>3, <1>4, PushId
    <2>2. Distinct(free') /\ Members(free') = Members(pool)
      BY <1>2, <1>4
    <2>3. uid \in 1..nextUserId - 1 /\ nextUserId' = nextUserId
      BY <1>2, <1>3, <1>4
    <2>4. /\ Members(free') \cap Members(retired') = {}
          /\ Held' \cap (Members(free') \cup Members(retired')) = {}
          /\ Members(free') \cup Members(retired') \cup Held' \subseteq 1..nextUserId - 1
      BY <1>1, <1>2, <1>3, <2>1, <2>2, <2>3
    <2>5. UserIdsAreUnique' /\ UserIdsAreOld'
      BY <1>1, <1>3, <2>1, <2>2, <2>3, <2>4 DEF UserIdsAreUnique, UserIdsAreOld
    <2> QED BY <1>1, <1>2, <1>3, <1>4, <2>1, <2>5 DEF Ids, PoolTypes
  <1>5. CASE retired' = retired /\ uid # 0 /\ free' = <<uid>> \o pool
    <2>1. /\ free' \in Seq(Nat) /\ Members(free') = {uid} \cup Members(pool)
          /\ Distinct(free')
      BY <1>2, <1>5, PushId
    <2>2. uid \in 1..nextUserId - 1 /\ nextUserId' = nextUserId
      BY <1>2, <1>3, <1>5
    <2>3. /\ Members(free') \cap Members(retired) = {}
          /\ Held' \cap (Members(free') \cup Members(retired)) = {}
          /\ Members(free') \cup Members(retired) \cup Held' \subseteq 1..nextUserId - 1
      BY <1>1, <1>2, <1>3, <2>1, <2>2
    <2>4. UserIdsAreUnique' /\ UserIdsAreOld'
      BY <1>1, <1>3, <1>5, <2>1, <2>2, <2>3 DEF UserIdsAreUnique, UserIdsAreOld
    <2> QED BY <1>1, <1>3, <1>5, <2>1, <2>2, <2>4 DEF Ids, PoolTypes
  <1>6. CASE retired' = retired /\ free' = pool
    <2>1. UserIdsAreUnique' /\ UserIdsAreOld'
      BY <1>1, <1>2, <1>3, <1>6 DEF UserIdsAreUnique, UserIdsAreOld
    <2> QED BY <1>1, <1>2, <1>3, <1>6, <2>1 DEF Ids, PoolTypes
  <1> QED BY <1>4, <1>5, <1>6 DEF OpensAndEnds

\* The first free circuit is one.
LEMMA CircuitIsFree ==
    ASSUME Circuits = {} \/ FreeCircuits # {}
    PROVE  LET circuit == IF Circuits = {} THEN 0 ELSE Least(FreeCircuits)
           IN  /\ circuit \in Nat
               /\ circuit # 0 => circuit \in Circuits \ busy
  <1>1. FreeCircuits \in SUBSET Nat
    BY TableAssumption DEF FreeCircuits, TableAssumption
  <1>2. FreeCircuits # {} => Least(FreeCircuits) \in FreeCircuits
    BY <1>1, LeastNatural DEF Least
  <1> QED BY <1>1, <1>2 DEF FreeCircuits

\* start_call, whatever becomes of the call, leaves an id in one place.
LEMMA StartCallKeepsIds ==
    ASSUME Ids, NEW uid, NEW pool, NEW next, Taken(uid, pool),
           StartCall(uid, pool, next), UNCHANGED nextUserId
    PROVE  Ids'
  <1> DEFINE circuit == IF Circuits = {} THEN 0 ELSE Least(FreeCircuits)
  <1>1. CASE Circuits # {} /\ FreeCircuits = {}
    <2>1. calls' = calls /\ free' = pool /\ retired' = retired
      BY <1>1 DEF StartCall, Refused
    <2>2. UserIdsAreUnique' /\ UserIdsAreOld'
      BY <2>1 DEF Ids, Taken, UserIdsAreUnique, UserIdsAreOld, Held
    <2> QED BY <2>1, <2>2 DEF Ids, Taken, PoolTypes, TableTypes
  <1>2. CASE ~ (Circuits # {} /\ FreeCircuits = {})
    <2>1. circuit \in Nat
      BY <1>2, CircuitIsFree
    <2>2. Unused # {} /\ (Opens(uid, circuit, pool) \/ OpensAndEnds(uid, pool))
      BY <1>2 DEF StartCall
    <2> HIDE DEF circuit
    <2> QED BY <2>1, <2>2, OpensKeepsIds, OpensAndEndsKeepsIds
  <1> QED BY <1>1, <1>2

\* set_users: what a growth takes from the retired ids and what it creates are
\* apart, and both come before the free ones.
LEMMA RegrownKeepsIds ==
    ASSUME Ids, NEW target \in Nat, users \in Nat, UNCHANGED calls,
           free' = Regrown(target).free, retired' = Regrown(target).retired,
           nextUserId' = Regrown(target).next
    PROVE  Ids'
  <1> DEFINE short == IF target > users THEN target - users ELSE 0
             n     == Len(retired)
             back  == IF short < n THEN short ELSE n
             fresh == short - back
             made  == [i \in 1..fresh |-> nextUserId + fresh - i]
             kept  == SubSeq(retired, 1, n - back)
             taken == SubSeq(retired, n - back + 1, n)
  <1>1. /\ free \in Seq(Nat) /\ retired \in Seq(Nat) /\ nextUserId \in Nat \ {0}
        /\ Distinct(free) /\ Distinct(retired)
        /\ Members(free) \cap Members(retired) = {}
        /\ Held \cap (Members(free) \cup Members(retired)) = {}
        /\ Members(free) \cup Members(retired) \cup Held \subseteq 1..nextUserId - 1
        /\ \A a, b \in DOMAIN calls :
              calls[a].uid = calls[b].uid /\ calls[a].uid # 0 => a = b
    BY DEF Ids, PoolTypes, UserIdsAreUnique, UserIdsAreOld
  <1>2. n \in Nat /\ DOMAIN retired = 1..n
    BY <1>1, LenProperties
  <1>3. /\ short \in Nat /\ back \in Nat /\ back <= n /\ fresh \in Nat
        /\ n - back \in Nat /\ n - back <= n /\ n - back + 1 \in Nat \ {0}
        /\ 1 \in Nat \ {0} /\ n <= n
    <2> HIDE DEF n
    <2> QED BY <1>2
  <1>4. /\ free' = made \o taken \o free /\ retired' = kept
        /\ nextUserId' = nextUserId + fresh
    BY DEF Regrown, FreshUserId
  <1>5. /\ kept \in Seq(Nat) /\ Members(kept) = {retired[i] : i \in 1..n - back}
        /\ Distinct(kept)
    BY <1>1, <1>3, PieceOfIds, Zenon
  <1>6. /\ taken \in Seq(Nat) /\ Members(taken) = {retired[i] : i \in n - back + 1..n}
        /\ Distinct(taken)
    <2>1. \A m \in Nat \ {0} : /\ SubSeq(retired, m, n) \in Seq(Nat)
                              /\ Members(SubSeq(retired, m, n)) = {retired[i] : i \in m..n}
                              /\ Distinct(SubSeq(retired, m, n))
      BY <1>1, <1>2, <1>3, PieceOfIds
    <2> HIDE DEF n, back
    <2> QED BY <1>3, <2>1
  <1> HIDE DEF n, short, back
  <1> HIDE DEF fresh
  <1>7. made \in Seq(Nat) /\ DOMAIN made = 1..fresh
    <2>1. \A i \in 1..fresh : nextUserId + fresh - i \in Nat
      BY <1>1, <1>3
    <2>2. made \in [1..fresh -> Nat]
      BY <2>1
    <2> HIDE DEF made
    <2> QED BY <1>3, <2>2, SeqDef
  <1>8. /\ Distinct(made)
        /\ Members(made) \subseteq nextUserId..nextUserId + fresh - 1
    BY <1>1, <1>3, <1>7 DEF Distinct, Members
  <1> HIDE DEF made, kept, taken
  <1>9. \A i \in 1..n - back, j \in n - back + 1..n :
           i \in DOMAIN retired /\ j \in DOMAIN retired /\ i # j
    BY <1>2, <1>3
  <1>10. Members(kept) \cap Members(taken) = {}
    BY <1>1, <1>5, <1>6, <1>9 DEF Distinct
  <1>11. Members(kept) \subseteq Members(retired) /\ Members(taken) \subseteq Members(retired)
    <2>1. \A i \in 1..n - back : i \in DOMAIN retired
      BY <1>2, <1>3
    <2>2. \A i \in n - back + 1..n : i \in DOMAIN retired
      BY <1>2, <1>3
    <2> QED BY <1>5, <1>6, <2>1, <2>2 DEF Members
  <1>12. \A x \in Members(made) : x \notin 1..nextUserId - 1
    BY <1>1, <1>3, <1>8
  <1>13. /\ made \o taken \in Seq(Nat)
         /\ Members(made \o taken) = Members(made) \cup Members(taken)
         /\ Distinct(made \o taken)
    BY <1>1, <1>6, <1>7, <1>8, <1>11, <1>12, JoinIds
  <1>14. /\ free' \in Seq(Nat)
         /\ Members(free') = Members(made) \cup Members(taken) \cup Members(free)
         /\ Distinct(free')
    <2> DEFINE joined == made \o taken
    <2>1. free' = joined \o free
      BY <1>4
    <2>2. joined \in Seq(Nat) /\ Members(joined) = Members(made) \cup Members(taken)
          /\ Distinct(joined)
      BY <1>13
    <2> HIDE DEF joined
    <2>3. Members(joined) \cap Members(free) = {}
      BY <1>1, <1>11, <1>12, <2>2
    <2>4. /\ joined \o free \in Seq(Nat)
          /\ Members(joined \o free) = Members(joined) \cup Members(free)
          /\ Distinct(joined \o free)
      BY <1>1, <2>2, <2>3, JoinIds
    <2> QED BY <2>1, <2>2, <2>4
  <1>15. Held' = Held
    BY DEF Held
  <1>16. UserIdsAreUnique'
    <2>1. Distinct(retired') /\ Members(retired') = Members(kept)
      BY <1>4, <1>5
    <2>2. Members(free') \cap Members(retired') = {}
      BY <1>1, <1>10, <1>11, <1>12, <1>14, <2>1
    <2>3. Held' \cap (Members(free') \cup Members(retired')) = {}
      BY <1>1, <1>11, <1>12, <1>14, <1>15, <2>1
    <2> QED BY <1>1, <1>14, <2>1, <2>2, <2>3 DEF UserIdsAreUnique
  <1>17. UserIdsAreOld'
    <2>1. Members(made) \subseteq 1..nextUserId' - 1
      BY <1>1, <1>3, <1>4, <1>8
    <2>2. 1..nextUserId - 1 \subseteq 1..nextUserId' - 1
      BY <1>1, <1>3, <1>4
    <2> QED BY <1>1, <1>4, <1>11, <1>14, <1>15, <2>1, <2>2 DEF UserIdsAreOld
  <1>18. nextUserId' \in Nat \ {0}
    BY <1>1, <1>3, <1>4
  <1> QED BY <1>4, <1>5, <1>14, <1>16, <1>17, <1>18 DEF Ids, PoolTypes, TableTypes

\* A secondary call has no id.
LEMMA SecondaryKeepsIds ==
    ASSUME Ids, SpawnSecondary
    PROVE  Ids'
  <1> DEFINE call == [uid |-> 0, circuit |-> 0, secondary |-> TRUE]
  <1>1. call \in Call /\ call.uid = 0 /\ calls' = Add(Slot, call) /\ Unused # {}
    BY DEF Call, SpawnSecondary
  <1>2. UNCHANGED <<free, retired, nextUserId>>
    BY DEF SpawnSecondary, Still
  <1> HIDE DEF call
  <1>3. 0 \notin Held
    BY DEF Held
  <1>4. /\ TableTypes' /\ Held' = Held
        /\ \A a, b \in DOMAIN calls' :
              calls'[a].uid = calls'[b].uid /\ calls'[a].uid # 0 => a = b
    BY <1>1, <1>3, AddHolds
  <1>5. UserIdsAreUnique' /\ UserIdsAreOld'
    BY <1>2, <1>4 DEF Ids, UserIdsAreUnique, UserIdsAreOld
  <1> QED BY <1>2, <1>4, <1>5 DEF Ids, PoolTypes

\* It frees its circuit, and no other one.
LEMMA LeavingKeepsTdm ==
    ASSUME Ids, Tdm, NEW id \in DOMAIN calls, LeavesTable(id)
    PROVE  Tdm'
  <1>1. /\ DOMAIN calls' = DOMAIN calls \ {id}
        /\ \A a \in DOMAIN calls' : calls'[a] = calls[a]
        /\ busy' = busy \ {calls[id].circuit}
    BY DEF LeavesTable, Drop
  <1>2. TableTypes'
    BY <1>1 DEF Ids, TableTypes
  <1>3. /\ busy = {calls[a].circuit : a \in DOMAIN calls} \ {0}
        /\ \A a, b \in DOMAIN calls :
              calls[a].circuit = calls[b].circuit /\ calls[a].circuit # 0 => a = b
        /\ busy \subseteq Circuits
    BY DEF Tdm, CircuitsFollowCalls
  <1>4. {calls'[a].circuit : a \in DOMAIN calls'} = {calls[a].circuit : a \in DOMAIN calls \ {id}}
    BY <1>1
  <1>5. busy' = {calls'[a].circuit : a \in DOMAIN calls'} \ {0}
    BY <1>1, <1>3, <1>4
  <1> QED BY <1>1, <1>2, <1>3, <1>5 DEF Tdm, CircuitsFollowCalls

\* A call that enters the table with a circuit that is free, or with none.
LEMMA AddKeepsTdm ==
    ASSUME Tdm, Unused # {}, NEW call \in Call, TableTypes',
           call.circuit # 0 => call.circuit \in Circuits \ busy,
           calls' = Add(Slot, call), busy' = busy \cup ({call.circuit} \ {0})
    PROVE  Tdm'
  <1> DEFINE slot == Slot
  <1>1. slot \in CallIds /\ slot \notin DOMAIN calls
    BY DEF Slot, Unused
  <1>2. /\ DOMAIN calls' = DOMAIN calls \cup {slot}
        /\ calls'[slot] = call
        /\ \A a \in DOMAIN calls : calls'[a] = calls[a]
    BY <1>1 DEF Add
  <1> HIDE DEF slot
  <1>3. /\ busy = {calls[a].circuit : a \in DOMAIN calls} \ {0}
        /\ \A a, b \in DOMAIN calls :
              calls[a].circuit = calls[b].circuit /\ calls[a].circuit # 0 => a = b
        /\ busy \subseteq Circuits
    BY DEF Tdm, CircuitsFollowCalls
  <1>4. {calls'[a].circuit : a \in DOMAIN calls'}
          = {calls[a].circuit : a \in DOMAIN calls} \cup {call.circuit}
    BY <1>2
  <1>5. busy' = {calls'[a].circuit : a \in DOMAIN calls'} \ {0}
    BY <1>3, <1>4
  <1>6. \A a \in DOMAIN calls : calls[a].circuit # 0 => calls[a].circuit # call.circuit
    BY <1>3
  <1>7. ASSUME NEW a \in DOMAIN calls', NEW b \in DOMAIN calls',
               calls'[a].circuit = calls'[b].circuit, calls'[a].circuit # 0
        PROVE  a = b
    BY <1>2, <1>3, <1>6, <1>7
  <1>8. busy' \subseteq Circuits
    BY <1>3
  <1> QED BY <1>5, <1>7, <1>8 DEF Tdm, CircuitsFollowCalls

\* start_call takes a circuit that no live call holds.
LEMMA StartCallKeepsTdm ==
    ASSUME Ids, Ids', Tdm, NEW uid, NEW pool, NEW next, Taken(uid, pool),
           StartCall(uid, pool, next)
    PROVE  Tdm'
  <1> DEFINE circuit == IF Circuits = {} THEN 0 ELSE Least(FreeCircuits)
             call    == [uid |-> uid, circuit |-> circuit, secondary |-> FALSE]
  <1>1. CASE calls' = calls /\ busy' = busy
    BY <1>1 DEF Tdm, TableTypes, CircuitsFollowCalls
  <1>2. CASE Opens(uid, circuit, pool) /\ Unused # {} /\ ~ (Circuits # {} /\ FreeCircuits = {})
    <2>1. circuit \in Nat /\ (circuit # 0 => circuit \in Circuits \ busy)
      BY <1>2, CircuitIsFree
    <2>2. calls' = Add(Slot, call) /\ busy' = busy \cup ({circuit} \ {0})
      BY <1>2 DEF Opens
    <2> HIDE DEF circuit
    <2>3. call \in Call /\ call.circuit = circuit
      BY <2>1 DEF Call, Taken
    <2>4. TableTypes'
      BY DEF Ids
    <2> HIDE DEF call
    <2> QED BY <1>2, <2>1, <2>2, <2>3, <2>4, AddKeepsTdm
  <1>3. \/ calls' = calls /\ busy' = busy
        \/ Opens(uid, circuit, pool) /\ Unused # {} /\ ~ (Circuits # {} /\ FreeCircuits = {})
    BY DEF StartCall, Refused, OpensAndEnds
  <1> QED BY <1>1, <1>2, <1>3

\* A secondary call has no circuit.
LEMMA SecondaryKeepsTdm ==
    ASSUME Ids', Tdm, SpawnSecondary
    PROVE  Tdm'
  <1> DEFINE call == [uid |-> 0, circuit |-> 0, secondary |-> TRUE]
  <1>1. call \in Call /\ call.circuit = 0 /\ calls' = Add(Slot, call) /\ Unused # {}
    BY DEF Call, SpawnSecondary
  <1>2. busy' = busy \cup ({call.circuit} \ {0}) /\ TableTypes'
    BY <1>1 DEF SpawnSecondary, Ids
  <1> HIDE DEF call
  <1> QED BY <1>1, <1>2, AddKeepsTdm

\* What leaves the table and the pools alone leaves ids and circuits alone.
LEMMA SameTable ==
    ASSUME Ids, Tdm, UNCHANGED <<calls, free, retired, nextUserId, busy>>
    PROVE  Ids' /\ Tdm'
  <1>1. TableTypes' /\ PoolTypes' /\ Held' = Held
    BY DEF Ids, TableTypes, PoolTypes, Held
  <1>2. UserIdsAreUnique' /\ UserIdsAreOld' /\ CircuitsFollowCalls'
    BY <1>1 DEF Ids, Tdm, UserIdsAreUnique, UserIdsAreOld, CircuitsFollowCalls
  <1> QED BY <1>1, <1>2 DEF Ids, Tdm

-----------------------------------------------------------------------------
(* The loop's own state.                                                   *)

\* The counters stay below Wrap.
LEMMA CounterType ==
    /\ Wrap \in Nat /\ Wrap > 0
    /\ 0 \in 0..Wrap - 1
    /\ \A n \in Int : n % Wrap \in 0..Wrap - 1
  <1> QED BY CountersAssumption DEF CountersAssumption

\* The live calls can be counted.
LEMMA LiveMainType ==
    ASSUME TableTypes
    PROVE  LiveMain \in Nat
  <1>1. MainOf(calls) \in SUBSET CallIds /\ IsFiniteSet(CallIds)
    BY TableAssumption DEF TableAssumption, TableTypes, MainOf
  <1> QED BY <1>1, FS_Subset, FS_CardinalityType DEF LiveMain

\* What opening a call leaves of the loop's state.
LEMMA StartCallKeepsLoop ==
    ASSUME LoopTypes, DoomedAreLive, Ids, NEW uid, NEW pool, NEW next \in {"refill", "place"},
           StartCall(uid, pool, next), phase # "failing",
           UNCHANGED <<mode, load, asked>>, credit' \in 0..MaxCredit
    PROVE  LoopTypes' /\ DoomedAreLive'
  <1>1. /\ created' \in {created, (created + 1) % Wrap} /\ ended' \in {ended, (ended + 1) % Wrap}
        /\ aside' \in {aside, (aside + 1) % Wrap}
        /\ soft' \in {soft, TRUE} /\ hard' \in {hard, TRUE}
    BY DEF StartCall, Refused, CountsOne, Opens, OpensAndEnds
  <1>2. \/ phase' = next /\ doomed' = doomed /\ resume' = resume
        \/ phase' = "failing" /\ doomed' = DOMAIN calls \cup {Slot} /\ resume' = next
    BY DEF StartCall, GoTo
  <1>3. \/ calls' = calls
        \/ DOMAIN calls' = DOMAIN calls \cup {Slot}
    BY DEF StartCall, Refused, Opens, OpensAndEnds, Add
  <1>4. phase' = "failing" => DOMAIN calls' = DOMAIN calls \cup {Slot}
    BY DEF StartCall, GoTo, Opens, Add
  <1>5. DoomedAreLive'
    BY <1>2, <1>3, <1>4 DEF DoomedAreLive
  <1>6. /\ created' \in 0..Wrap - 1 /\ ended' \in 0..Wrap - 1 /\ aside' \in 0..Wrap - 1
    BY <1>1, CounterType DEF LoopTypes
  <1>7. LoopTypes'
    BY <1>1, <1>2, <1>6 DEF LoopTypes, load
  <1> QED BY <1>5, <1>7

\* A step that leaves calls, pools and circuits alone.
LEMMA LoopOnly ==
    ASSUME IInv, UNCHANGED <<calls, free, retired, nextUserId, busy>>,
           LoopTypes', DoomedAreLive', PlacesUnpaused'
    PROVE  IInv'
  <1> QED BY SameTable DEF IInv

\* A run begins with every id free and every circuit idle.
LEMMA InitHolds == Init => IInv
  <1> SUFFICES ASSUME Init PROVE IInv
    OBVIOUS
  <1> DEFINE n == IF Closed THEN InitUsers ELSE 0
  <1>1. n \in Nat
    BY UsersAssumption DEF UsersAssumption
  <1>2. LoopTypes /\ DoomedAreLive /\ PlacesUnpaused
    <2>1. /\ users = n /\ limit \in Limits /\ paused = FALSE /\ soft = FALSE /\ hard = FALSE
          /\ created = 0 /\ ended = 0 /\ aside = 0 /\ mode \in Modes /\ phase = "refill"
          /\ credit = 0 /\ doomed = {} /\ resume = "refill" /\ asked = {}
      BY DEF Init
    <2> HIDE DEF n
    <2>2. 0 \in 0..Wrap - 1 /\ 0 \in 0..MaxCredit
      BY CounterType, CountersAssumption DEF CountersAssumption
    <2> QED BY <1>1, <2>1, <2>2 DEF LoopTypes, DoomedAreLive, PlacesUnpaused
  <1>3. calls = <<>> /\ free = [i \in 1..n |-> i] /\ retired = <<>> /\ nextUserId = n + 1 /\ busy = {}
    BY DEF Init
  <1> HIDE DEF n
  <1>4. DOMAIN calls = {} /\ DOMAIN retired = {} /\ retired \in Seq(Nat)
    BY <1>3
  <1>5. DOMAIN free = 1..n /\ \A i \in 1..n : free[i] = i
    BY <1>3
  <1>6. free \in Seq(Nat)
    <2>1. free \in [1..n -> Nat]
      BY <1>3
    <2> QED BY <1>1, <2>1, SeqDef
  <1>7. Members(free) = 1..n /\ Distinct(free) /\ Members(retired) = {} /\ Distinct(retired)
    BY <1>4, <1>5 DEF Members, Distinct
  <1>8. TableTypes /\ Held = {} /\ CircuitsFollowCalls
    BY <1>3, <1>4 DEF TableTypes, Held, CircuitsFollowCalls
  <1>9. UserIdsAreUnique /\ UserIdsAreOld
    BY <1>1, <1>3, <1>4, <1>7, <1>8 DEF UserIdsAreUnique, UserIdsAreOld
  <1> QED BY <1>1, <1>2, <1>3, <1>4, <1>6, <1>8, <1>9 DEF IInv, Ids, Tdm, PoolTypes

\* A call that ends by itself, is failed, or is removed for a PING.
LEMMA LeavingKeeps ==
    ASSUME IInv, NEW id \in DOMAIN calls, LeavesTable(id), UNCHANGED nextUserId
    PROVE  Ids' /\ Tdm' /\ DOMAIN calls' = DOMAIN calls \ {id}
  <1>1. DOMAIN calls' = DOMAIN calls \ {id}
    BY DEF LeavesTable, Drop
  <1> QED BY <1>1, LeavingKeepsIds, LeavingKeepsTdm DEF IInv

\* The counts of a call that ends.
LEMMA EndCallCounts ==
    ASSUME IInv, NEW id \in DOMAIN calls, EndCall(id)
    PROVE  LeavesTable(id) /\ ended' \in 0..Wrap - 1
  <1>1. LeavesTable(id) /\ ended' \in {ended, (ended + 1) % Wrap}
    BY DEF EndCall
  <1> QED BY <1>1, CounterType DEF IInv, LoopTypes

\* A call is opened with an id, or without, from a phase that opens calls.
LEMMA StartCallKeeps ==
    ASSUME IInv, NEW uid, NEW pool, Taken(uid, pool), NEW next \in {"refill", "place"},
           StartCall(uid, pool, next), phase # "failing",
           next = "place" => mode = "rate" /\ ~paused,
           UNCHANGED <<mode, nextUserId, load, asked>>, credit' \in 0..MaxCredit
    PROVE  IInv'
  <1>1. LoopTypes' /\ DoomedAreLive'
    BY StartCallKeepsLoop DEF IInv
  <1>2. Ids'
    BY StartCallKeepsIds DEF IInv
  <1>3. Tdm'
    BY <1>2, StartCallKeepsTdm DEF IInv
  <1>4. \/ phase' = next
        \/ phase' = "failing" /\ resume' = next
    BY DEF StartCall, GoTo
  <1>5. PlacesUnpaused'
    BY <1>4 DEF PlacesUnpaused, load
  <1> QED BY <1>1, <1>2, <1>3, <1>5 DEF IInv

\* Calls are to be failed: the table is as it was.
LEMMA FailKeeps ==
    ASSUME IInv, NEW ids \in SUBSET DOMAIN calls, NEW next \in {"refill", "done"},
           Fail(ids, next), soft' \in BOOLEAN, hard' \in BOOLEAN,
           asked' \subseteq Stops, UNCHANGED <<mode, load, credit>>
    PROVE  IInv'
  <1>1. UNCHANGED <<calls, free, retired, nextUserId, busy, ended, created, aside>>
    BY DEF Fail, table, started
  <1>2. phase' = "failing" /\ doomed' = ids /\ resume' = next
    BY DEF Fail
  <1>3. LoopTypes' /\ DoomedAreLive' /\ PlacesUnpaused'
    BY <1>1, <1>2 DEF IInv, LoopTypes, DoomedAreLive, PlacesUnpaused, load
  <1> QED BY <1>1, <1>3, LoopOnly

\* The loop's own steps keep the invariant.
LEMMA LoopStepKeeps == IInv /\ LoopStep => IInv'
  <1> SUFFICES ASSUME IInv, LoopStep PROVE IInv'
    OBVIOUS
  <1> USE DEF Still
  <1>1. CASE Refill
    <2>1. Taken(free[Len(free)], SubSeq(free, 1, Len(free) - 1))
      BY <1>1, LastIdIsTaken DEF IInv, Refill, Short
    <2> QED BY <1>1, <2>1, StartCallKeeps DEF Refill, IInv, LoopTypes
  <1>2. CASE RefillOver
    <2>1. UNCHANGED <<calls, free, retired, nextUserId, busy>>
      BY <1>2 DEF RefillOver, table
    <2>2. LoopTypes' /\ DoomedAreLive' /\ PlacesUnpaused'
      BY <1>2 DEF RefillOver, table, started, load, IInv, LoopTypes, DoomedAreLive, PlacesUnpaused
    <2> QED BY <2>1, <2>2, LoopOnly
  <1>3. CASE Top
    <2>1. UNCHANGED <<calls, free, retired, nextUserId, busy>>
      BY <1>3 DEF Top, table
    <2>2. LoopTypes' /\ DoomedAreLive' /\ PlacesUnpaused'
      BY <1>3 DEF Top, table, started, load, IInv, LoopTypes, DoomedAreLive, PlacesUnpaused
    <2> QED BY <2>1, <2>2, LoopOnly
  <1>4. CASE FailOne
    <2>1. PICK id \in doomed : EndCall(id) /\ doomed' = doomed \ {id}
      BY <1>4 DEF FailOne
    <2>2. id \in DOMAIN calls /\ UNCHANGED nextUserId
      BY <1>4 DEF FailOne, IInv, DoomedAreLive
    <2>3. Ids' /\ Tdm' /\ ended' \in 0..Wrap - 1 /\ DOMAIN calls' = DOMAIN calls \ {id}
      BY <2>1, <2>2, EndCallCounts, LeavingKeeps
    <2>4. LoopTypes' /\ PlacesUnpaused'
      BY <1>4, <2>3 DEF FailOne, started, load, IInv, LoopTypes, PlacesUnpaused
    <2>5. DoomedAreLive'
      BY <1>4, <2>1, <2>3 DEF FailOne, IInv, DoomedAreLive
    <2> QED BY <2>3, <2>4, <2>5 DEF IInv
  <1>5. CASE FailingOver
    <2>1. UNCHANGED <<calls, free, retired, nextUserId, busy>>
      BY <1>5 DEF FailingOver, table
    <2>2. LoopTypes' /\ DoomedAreLive' /\ PlacesUnpaused'
      BY <1>5 DEF FailingOver, table, started, load, IInv, LoopTypes, DoomedAreLive, PlacesUnpaused
    <2> QED BY <2>1, <2>2, LoopOnly
  <1>6. CASE PlaceCall
    <2>1. Taken(0, free)
      BY NoIdIsTaken DEF IInv
    <2>2. credit' \in 0..MaxCredit
      BY <1>6, CountersAssumption DEF PlaceCall, IInv, LoopTypes, CountersAssumption
    <2>3. mode = "rate" /\ ~paused /\ phase # "failing"
      BY <1>6 DEF PlaceCall, IInv, PlacesUnpaused
    <2> QED BY <1>6, <2>1, <2>2, <2>3, StartCallKeeps DEF PlaceCall
  <1>7. CASE PlacingOver
    <2>1. UNCHANGED <<calls, free, retired, nextUserId, busy>>
      BY <1>7 DEF PlacingOver, table
    <2>2. LoopTypes' /\ DoomedAreLive' /\ PlacesUnpaused'
      BY <1>7, CountersAssumption
      DEF PlacingOver, table, started, load, IInv, LoopTypes, DoomedAreLive, PlacesUnpaused,
          CountersAssumption
    <2> QED BY <2>1, <2>2, LoopOnly
  <1> QED BY <1>1, <1>2, <1>3, <1>4, <1>5, <1>6, <1>7 DEF LoopStep

\* So does every event handler.
LEMMA EventKeeps == IInv /\ Event => IInv'
  <1> SUFFICES ASSUME IInv, Event PROVE IInv'
    OBVIOUS
  <1> USE DEF Still
  <1>1. CASE PacerTick
    <2>1. UNCHANGED <<calls, free, retired, nextUserId, busy>>
      BY <1>1 DEF PacerTick, table
    <2>2. LoopTypes' /\ DoomedAreLive' /\ PlacesUnpaused'
      BY <1>1 DEF PacerTick, GoTo, table, started, load, IInv, LoopTypes, DoomedAreLive,
                  PlacesUnpaused
    <2> QED BY <2>1, <2>2, LoopOnly
  <1>2. CASE CallsClose
    <2>1. PICK ids \in SUBSET DOMAIN calls : Fail(ids, "refill")
      BY <1>2 DEF CallsClose
    <2> QED BY <1>2, <2>1, FailKeeps DEF CallsClose, IInv, LoopTypes
  <1>3. CASE Incoming
    <2>1. Taken(0, free) /\ Unused # {} /\ UNCHANGED nextUserId
      BY <1>3, NoIdIsTaken DEF IInv, Incoming
    <2>2. Opens(0, 0, free) \/ OpensAndEnds(0, free)
      BY <1>3 DEF Incoming
    <2>3. Ids'
      BY <2>1, <2>2, OpensKeepsIds, OpensAndEndsKeepsIds DEF IInv
    <2>4. Tdm'
      <3>1. CASE Opens(0, 0, free)
        <4> DEFINE call == [uid |-> 0, circuit |-> 0, secondary |-> FALSE]
        <4>1. call \in Call /\ call.circuit = 0
          BY DEF Call
        <4>2. /\ calls' = Add(Slot, call) /\ busy' = busy \cup ({call.circuit} \ {0})
              /\ TableTypes'
          BY <3>1, <2>3 DEF Opens, Ids
        <4> HIDE DEF call
        <4> QED BY <2>1, <4>1, <4>2, AddKeepsTdm DEF IInv
      <3>2. CASE OpensAndEnds(0, free)
        BY <3>2, <2>3 DEF OpensAndEnds, IInv, Ids, Tdm, CircuitsFollowCalls
      <3> QED BY <2>2, <3>1, <3>2
    <2>5. /\ ended' \in {ended, (ended + 1) % Wrap} /\ created' = (created + 1) % Wrap
          /\ aside' = aside
          /\ DOMAIN calls \subseteq DOMAIN calls'
      BY <1>3 DEF Incoming, Opens, OpensAndEnds, CountsOne, Add
    <2>6. ended' \in 0..Wrap - 1 /\ created' \in 0..Wrap - 1
      BY <2>5, CounterType DEF IInv, LoopTypes
    <2>7. LoopTypes' /\ DoomedAreLive' /\ PlacesUnpaused'
      BY <1>3, <2>5, <2>6 DEF Incoming, Handled, load, IInv, LoopTypes, DoomedAreLive, PlacesUnpaused
    <2> QED BY <2>3, <2>4, <2>7 DEF IInv
  <1>4. CASE SpawnSecondary
    <2>1. Ids' /\ Tdm'
      BY <1>4, SecondaryKeepsIds, SecondaryKeepsTdm DEF IInv
    <2>2. DOMAIN calls \subseteq DOMAIN calls'
      BY <1>4 DEF SpawnSecondary, Add
    <2>3. LoopTypes' /\ DoomedAreLive' /\ PlacesUnpaused'
      BY <1>4, <2>2 DEF SpawnSecondary, Handled, started, load, IInv, LoopTypes, DoomedAreLive,
                        PlacesUnpaused
    <2> QED BY <2>1, <2>3 DEF IInv
  <1>5. CASE Commanded
    <2>1. Taken(0, free)
      BY NoIdIsTaken DEF IInv
    <2> QED BY <1>5, <2>1, StartCallKeeps DEF Commanded, IInv, LoopTypes
  <1>6. CASE SetLoad
    <2>1. UNCHANGED <<calls, free, retired, nextUserId, busy>>
      BY <1>6 DEF SetLoad, table
    <2>2. LoopTypes' /\ DoomedAreLive' /\ PlacesUnpaused'
      BY <1>6 DEF SetLoad, Handled, table, started, IInv, LoopTypes, DoomedAreLive, PlacesUnpaused
    <2> QED BY <2>1, <2>2, LoopOnly
  <1>7. CASE SetUsers
    <2>1. PICK target \in UserTargets :
            /\ users' = target
            /\ free' = Regrown(target).free
            /\ retired' = Regrown(target).retired
            /\ nextUserId' = Regrown(target).next
      BY <1>7 DEF SetUsers
    <2>2. target \in Nat /\ users \in Nat /\ UNCHANGED <<calls, busy>>
      BY <1>7, UsersAssumption DEF SetUsers, UsersAssumption, IInv, LoopTypes
    <2>3. Ids'
      BY <2>1, <2>2, RegrownKeepsIds DEF IInv
    <2>4. Tdm'
      BY <2>2, <2>3 DEF IInv, Ids, Tdm, CircuitsFollowCalls
    <2>5. LoopTypes' /\ DoomedAreLive' /\ PlacesUnpaused'
      BY <1>7, <2>1, <2>2 DEF SetUsers, Handled, started, IInv, LoopTypes, DoomedAreLive,
                              PlacesUnpaused
    <2> QED BY <2>3, <2>4, <2>5 DEF IInv
  <1>8. CASE ResetStats
    <2>1. UNCHANGED <<calls, free, retired, nextUserId, busy>>
      BY <1>8 DEF ResetStats, pools
    <2>2. created' \in 0..Wrap - 1 /\ ended' \in 0..Wrap - 1 /\ aside' \in 0..Wrap - 1
      BY <1>8, CounterType, LiveMainType DEF ResetStats, IInv, Ids
    <2>3. LoopTypes' /\ DoomedAreLive' /\ PlacesUnpaused'
      BY <1>8, <2>2 DEF ResetStats, Handled, load, IInv, LoopTypes, DoomedAreLive, PlacesUnpaused
    <2> QED BY <2>1, <2>3, LoopOnly
  <1>9. CASE GlobalTimeout
    BY <1>9, FailKeeps DEF GlobalTimeout, IInv, LoopTypes
  <1>10. CASE SocketError
    BY <1>10, FailKeeps DEF SocketError, IInv, LoopTypes
  <1>11. ASSUME phase = "event", Quits, asked' \subseteq Stops, UNCHANGED <<mode, load, credit>>
         PROVE  IInv'
    <2>1. UNCHANGED <<calls, free, retired, nextUserId, busy>>
      BY <1>11 DEF Quits, table
    <2>2. LoopTypes' /\ DoomedAreLive' /\ PlacesUnpaused'
      BY <1>11 DEF Quits, Handled, table, started, load, IInv, LoopTypes, DoomedAreLive,
                   PlacesUnpaused
    <2> QED BY <2>1, <2>2, LoopOnly
  <1>12. CASE TwinEnds
    BY <1>11, <1>12, FailKeeps DEF TwinEnds, IInv, LoopTypes
  <1>13. CASE ExecStops
    BY <1>11, <1>13, FailKeeps DEF ExecStops, IInv, LoopTypes
  <1>14. ASSUME NEW id \in CallIds, CallEnds(id) PROVE IInv'
    <2>1. id \in DOMAIN calls /\ EndCall(id) /\ UNCHANGED nextUserId
      BY <1>14 DEF CallEnds
    <2>2. Ids' /\ Tdm' /\ ended' \in 0..Wrap - 1 /\ DOMAIN calls' = DOMAIN calls \ {id}
      BY <2>1, EndCallCounts, LeavingKeeps
    <2>3. LoopTypes' /\ DoomedAreLive' /\ PlacesUnpaused'
      BY <1>14, <2>2 DEF CallEnds, Handled, started, load, IInv, LoopTypes, DoomedAreLive,
                         PlacesUnpaused
    <2> QED BY <2>2, <2>3 DEF IInv
  <1>15. ASSUME NEW request \in Stops, Serve(request) PROVE IInv'
    <2>1. asked' \subseteq Stops /\ phase = "event" /\ UNCHANGED <<mode, load, credit>>
      BY <1>15 DEF Serve, IInv, LoopTypes
    <2>2. Quits \/ HardQuits
      BY <1>15 DEF Serve
    <2> QED BY <1>11, <2>1, <2>2, FailKeeps DEF HardQuits
  <1>16. ASSUME NEW id \in CallIds, CallIsPinged(id) PROVE IInv'
    <2>1. id \in DOMAIN calls /\ LeavesTable(id) /\ UNCHANGED nextUserId
      BY <1>16 DEF CallIsPinged
    <2>2. Ids' /\ Tdm' /\ DOMAIN calls' = DOMAIN calls \ {id}
      BY <2>1, LeavingKeeps
    <2>3. aside' \in {aside, (aside - 1) % Wrap} /\ aside \in 0..Wrap - 1
      BY <1>16 DEF CallIsPinged, IInv, LoopTypes
    <2>4. aside' \in 0..Wrap - 1
      BY <2>3, CounterType
    <2>5. LoopTypes' /\ DoomedAreLive' /\ PlacesUnpaused'
      BY <1>16, <2>2, <2>4 DEF CallIsPinged, Handled, load, IInv, LoopTypes, DoomedAreLive,
                              PlacesUnpaused
    <2> QED BY <2>2, <2>5 DEF IInv
  <1> QED BY <1>1, <1>2, <1>3, <1>4, <1>5, <1>6, <1>7, <1>8, <1>9, <1>10, <1>12, <1>13, <1>14,
             <1>15, <1>16 DEF Event

\* So does every step.
LEMMA NextKeeps == IInv /\ [Next]_vars => IInv'
  <1> SUFFICES ASSUME IInv, [Next]_vars PROVE IInv'
    OBVIOUS
  <1>1. CASE Asks
    <2>1. UNCHANGED <<calls, free, retired, nextUserId, busy>> /\ asked' \subseteq Stops
      BY <1>1 DEF Asks, pools, IInv, LoopTypes
    <2>2. LoopTypes' /\ DoomedAreLive' /\ PlacesUnpaused'
      BY <1>1, <2>1 DEF Asks, started, load, IInv, LoopTypes, DoomedAreLive, PlacesUnpaused
    <2> QED BY <2>1, <2>2, LoopOnly
  <1>2. CASE UNCHANGED vars
    <2>1. UNCHANGED <<calls, free, retired, nextUserId, busy>>
      BY <1>2 DEF vars, pools
    <2>2. LoopTypes' /\ DoomedAreLive' /\ PlacesUnpaused'
      BY <1>2 DEF vars, started, load, IInv, LoopTypes, DoomedAreLive, PlacesUnpaused
    <2> QED BY <2>1, <2>2, LoopOnly
  <1> QED BY <1>1, <1>2, LoopStepKeeps, EventKeeps DEF Next, Over

-----------------------------------------------------------------------------
(* Theorems.                                                               *)

\* The inductive invariant: types, user ids and circuits, the calls that are
\* being failed, and the pause that holds while the pacer places calls.
THEOREM PoolInvariantHolds == Spec => []IInv
  <1> QED BY InitHolds, NextKeeps, PTL DEF Spec

\* Every variable keeps its type.
THEOREM PoolTypeCorrect == Spec => []TypeOK
  <1>1. IInv => TypeOK
    BY DEF IInv, LoopTypes, DoomedAreLive, Ids, Tdm, TableTypes, PoolTypes, TypeOK
  <1> QED BY <1>1, PoolInvariantHolds, PTL

\* However calls end and `set users` changes the count, a user id is in one
\* place (return_user, set_users).
THEOREM UserIdsStayUnique == Spec => []UserIdsAreUnique
  <1>1. IInv => UserIdsAreUnique
    BY DEF IInv, Ids
  <1> QED BY <1>1, PoolInvariantHolds, PTL

\* A circuit of -tdmmap is in use exactly while one live call holds it.
THEOREM CircuitsStayWithCalls == Spec => []CircuitsFollowCalls
  <1>1. IInv => CircuitsFollowCalls
    BY DEF IInv, Tdm
  <1> QED BY <1>1, PoolInvariantHolds, PTL

\* The main calls are no more than they were.
LEMMA NoneAdded ==
    ASSUME TableTypes, MainOf(calls') \subseteq MainOf(calls), TableTypes'
    PROVE  ~ (LiveMain' > LiveMain)
  <1>1. IsFiniteSet(MainOf(calls))
    <2>1. MainOf(calls) \in SUBSET CallIds /\ IsFiniteSet(CallIds)
      BY TableAssumption DEF TableAssumption, TableTypes, MainOf
    <2> QED BY <2>1, FS_Subset
  <1>2. Cardinality(MainOf(calls')) <= Cardinality(MainOf(calls))
    BY <1>1, FS_Subset
  <1>3. LiveMain \in Nat /\ LiveMain' = Cardinality(MainOf(calls')) /\ LiveMain' \in Nat
    <2>1. LiveMain' \in Nat
      <3>1. MainOf(calls') \in SUBSET MainOf(calls)
        OBVIOUS
      <3>2. IsFiniteSet(MainOf(calls'))
        BY <1>1, <3>1, FS_Subset
      <3> QED BY <3>2, FS_CardinalityType DEF LiveMain
    <2> QED BY <2>1, LiveMainType DEF LiveMain
  <1> QED BY <1>2, <1>3 DEF LiveMain

\* One step of CallsStartWithinCaps.
CapStep ==
    LiveMain' > LiveMain /\ mode # "server" =>
        /\ ~DoneCreating
        /\ mode = "rate" => LiveMain < limit /\ ~paused
        /\ Closed => LiveMain < users

\* Three actions open main calls outside a server, each under its own guard; no
\* other step adds one.
LEMMA NextWithinCaps == IInv /\ IInv' /\ [Next]_vars => CapStep
  <1> SUFFICES ASSUME IInv, IInv', [Next]_vars PROVE CapStep
    OBVIOUS
  <1>1. TableTypes /\ TableTypes'
    BY DEF IInv, Ids
  <1>2. CASE Refill
    BY <1>2 DEF Refill, Short, CapStep, Closed
  <1>3. CASE PlaceCall
    <2>1. mode = "rate" /\ ~paused /\ ~DoneCreating /\ ~AtLimit
      BY <1>3 DEF PlaceCall, IInv, PlacesUnpaused
    <2>2. LiveMain \in Nat /\ limit \in Nat
      BY <1>1, LiveMainType, TableAssumption DEF IInv, LoopTypes, TableAssumption
    <2>3. LiveMain < limit
      BY <2>1, <2>2 DEF AtLimit
    <2> QED BY <2>1, <2>3 DEF CapStep, Closed
  <1>4. CASE Commanded
    BY <1>4 DEF Commanded, CapStep, Closed
  <1>5. CASE Incoming
    BY <1>5 DEF Incoming, CapStep
  <1>6. ASSUME MainOf(calls') \subseteq MainOf(calls) PROVE CapStep
    BY <1>1, <1>6, NoneAdded DEF CapStep
  <1>7. CASE SpawnSecondary
    <2> DEFINE slot == Slot
    <2>1. slot \notin DOMAIN calls
      BY <1>7 DEF SpawnSecondary, Slot, Unused
    <2>2. /\ DOMAIN calls' = DOMAIN calls \cup {slot} /\ calls'[slot].secondary
          /\ \A a \in DOMAIN calls : calls'[a] = calls[a]
      BY <1>7, <2>1 DEF SpawnSecondary, Add
    <2> HIDE DEF slot
    <2>3. MainOf(calls') \subseteq MainOf(calls)
      BY <2>2 DEF MainOf
    <2> QED BY <1>6, <2>3
  <1>8. ASSUME NEW id, LeavesTable(id) PROVE CapStep
    <2>1. MainOf(calls') \subseteq MainOf(calls)
      BY <1>8 DEF LeavesTable, Drop, MainOf
    <2> QED BY <1>6, <2>1
  <1>9. ASSUME calls' = calls PROVE CapStep
    BY <1>6, <1>9
  <1>10. CASE LoopStep
    <2>1. \/ Refill \/ PlaceCall \/ calls' = calls
          \/ \E id : LeavesTable(id)
      BY <1>10 DEF LoopStep, RefillOver, Top, FailOne, FailingOver, PlacingOver, table, EndCall
    <2> QED BY <1>2, <1>3, <1>8, <1>9, <2>1
  <1>11. CASE Event
    <2>1. ASSUME NEW ids, NEW next, Fail(ids, next) PROVE calls' = calls
      BY <2>1 DEF Fail, table
    <2>2. Quits => calls' = calls
      BY DEF Quits, table
    <2>3. CASE CallsClose
      BY <1>9, <2>1, <2>3 DEF CallsClose
    <2>4. CASE GlobalTimeout \/ SocketError \/ TwinEnds \/ ExecStops
      BY <1>9, <2>1, <2>2, <2>4 DEF GlobalTimeout, SocketError, TwinEnds, ExecStops
    <2>5. CASE PacerTick \/ SetLoad \/ SetUsers \/ ResetStats
      BY <1>9, <2>5 DEF PacerTick, SetLoad, SetUsers, ResetStats, table
    <2>6. CASE \E id \in CallIds : CallEnds(id) \/ CallIsPinged(id)
      BY <1>8, <2>6 DEF CallEnds, CallIsPinged, EndCall
    <2>7. CASE \E request \in Stops : Serve(request)
      BY <1>9, <2>1, <2>2, <2>7 DEF Serve, HardQuits
    <2> QED BY <1>4, <1>5, <1>7, <1>11, <2>3, <2>4, <2>5, <2>6, <2>7 DEF Event
  <1>12. CASE Asks \/ UNCHANGED vars
    BY <1>9, <1>12 DEF Asks, vars
  <1> QED BY <1>10, <1>11, <1>12 DEF Next, Over

\* No handler opens a call past -m, -l, the count of -users, a drain or, by the
\* pacer, a pause (on_pacer_tick, refill_users, start_commanded_call).
THEOREM CallsAlwaysStartWithinCaps == Spec => CallsStartWithinCaps
  <1>1. IInv /\ IInv' /\ [Next]_vars => [CapStep]_vars
    BY NextWithinCaps
  <1> QED BY <1>1, PoolInvariantHolds, PTL DEF Spec, CallsStartWithinCaps, CapStep
-----------------------------------------------------------------------------
(* What a step does to the calls, the ids and the counts.                  *)

\* A call opens with the last free id of the closed loop, or without one.
Draws(uid, pool) ==
    IF Closed THEN free # <<>> /\ uid = free[Len(free)] /\ pool = SubSeq(free, 1, Len(free) - 1)
              ELSE uid = 0 /\ pool = free

Idles == UNCHANGED <<mode, users, calls, pools, started, ended>>
CountsEnd(id) == /\ ended' = IF calls[id].secondary THEN ended ELSE (ended + 1) % Wrap
                 /\ UNCHANGED aside
CountsPing(id) == /\ aside' = IF calls[id].secondary THEN aside ELSE (aside - 1) % Wrap
                  /\ UNCHANGED ended
Leaves(id) == /\ id \in DOMAIN calls /\ LeavesTable(id)
              /\ CountsEnd(id) \/ CountsPing(id)
              /\ UNCHANGED <<mode, users, nextUserId, created>>
Enters(uid, pool, circuit) ==
    /\ Draws(uid, pool) /\ circuit \in Nat /\ Unused # {} /\ CountsOne
    /\ Opens(uid, circuit, pool)
    /\ UNCHANGED <<mode, users, nextUserId>>
Passes(uid, pool) == /\ Draws(uid, pool) /\ CountsOne /\ OpensAndEnds(uid, pool)
                     /\ UNCHANGED <<mode, users, nextUserId>>
\* start_call finds no circuit.
Misses(uid, pool) == /\ Draws(uid, pool) /\ Circuits # {} /\ Refused(pool)
                     /\ UNCHANGED <<mode, users, nextUserId>>

Effect ==
    \/ Idles \/ SpawnSecondary \/ SetUsers \/ ResetStats
    \/ \E id : Leaves(id)
    \/ \E uid, pool, circuit : Enters(uid, pool, circuit)
    \/ \E uid, pool : Passes(uid, pool) \/ Misses(uid, pool)

\* start_call has one of three.
LEMMA StartCallEffect ==
    ASSUME NEW uid, NEW pool, NEW next, Draws(uid, pool), StartCall(uid, pool, next),
           UNCHANGED <<mode, nextUserId, load>>
    PROVE  Effect
  <1> DEFINE circuit == IF Circuits = {} THEN 0 ELSE Least(FreeCircuits)
  <1>1. UNCHANGED <<mode, users, nextUserId>>
    BY DEF load
  <1>2. CASE Circuits # {} /\ FreeCircuits = {}
    <2>1. Misses(uid, pool)
      BY <1>1, <1>2 DEF StartCall, Misses
    <2> QED BY <2>1 DEF Effect
  <1>3. CASE ~ (Circuits # {} /\ FreeCircuits = {})
    <2>1. circuit \in Nat
      BY <1>3, CircuitIsFree
    <2>2. Unused # {} /\ CountsOne /\ (Opens(uid, circuit, pool) \/ OpensAndEnds(uid, pool))
      BY <1>3 DEF StartCall
    <2> HIDE DEF circuit
    <2>3. Enters(uid, pool, circuit) \/ Passes(uid, pool)
      BY <1>1, <2>1, <2>2 DEF Enters, Passes
    <2> QED BY <2>3 DEF Effect
  <1> QED BY <1>2, <1>3

\* Every step has one of them.
LEMMA StepEffect == IInv /\ [Next]_vars => Effect
  <1> SUFFICES ASSUME IInv, [Next]_vars PROVE Effect
    OBVIOUS
  <1>1. ASSUME NEW id, id \in DOMAIN calls, EndCall(id), UNCHANGED started, Still
        PROVE  Effect
    <2>1. Leaves(id)
      BY <1>1 DEF Leaves, EndCall, CountsEnd, Still, load, started
    <2> QED BY <2>1 DEF Effect
  <1>2. ASSUME UNCHANGED <<mode, users, table, nextUserId, started>> PROVE Effect
    BY <1>2 DEF Effect, Idles, table, pools
  <1>3. CASE LoopStep
    <2>1. CASE Refill
      <3>1. Draws(free[Len(free)], SubSeq(free, 1, Len(free) - 1))
        BY <2>1 DEF Refill, Short, Draws
      <3> QED BY <2>1, <3>1, StartCallEffect DEF Refill, Still
    <2>2. CASE PlaceCall
      <3>1. Draws(0, free)
        BY <2>2 DEF PlaceCall, IInv, PlacesUnpaused, Draws, Closed
      <3> QED BY <2>2, <3>1, StartCallEffect DEF PlaceCall, Still
    <2>3. CASE FailOne
      <3>1. PICK id \in doomed : EndCall(id)
        BY <2>3 DEF FailOne
      <3> QED BY <1>1, <2>3, <3>1 DEF FailOne, IInv, DoomedAreLive
    <2>4. CASE RefillOver \/ Top \/ FailingOver \/ PlacingOver
      BY <1>2, <2>4 DEF RefillOver, Top, FailingOver, PlacingOver, Still, load
    <2> QED BY <1>3, <2>1, <2>2, <2>3, <2>4 DEF LoopStep
  <1>4. CASE Event
    <2>1. ASSUME NEW ids, NEW next, Fail(ids, next), UNCHANGED <<mode, load>> PROVE Effect
      BY <1>2, <2>1 DEF Fail, load
    <2>2. ASSUME Quits, UNCHANGED <<mode, load>> PROVE Effect
      BY <1>2, <2>2 DEF Quits, load
    <2>3. CASE PacerTick \/ SetLoad
      BY <1>2, <2>3 DEF PacerTick, SetLoad, Still, load
    <2>4. CASE CallsClose
      BY <2>1, <2>4 DEF CallsClose, Still
    <2>5. CASE GlobalTimeout \/ SocketError \/ TwinEnds \/ ExecStops
      BY <2>1, <2>2, <2>5 DEF GlobalTimeout, SocketError, TwinEnds, ExecStops
    <2>6. CASE \E request \in Stops : Serve(request)
      BY <2>1, <2>2, <2>6 DEF Serve, HardQuits
    <2>7. CASE \E id \in CallIds : CallEnds(id) \/ CallIsPinged(id)
      <3>1. PICK id \in CallIds : CallEnds(id) \/ CallIsPinged(id)
        BY <2>7
      <3>2. CASE CallIsPinged(id)
        <4>1. Leaves(id)
          BY <3>2 DEF Leaves, CallIsPinged, CountsPing, Still, load
        <4> QED BY <4>1 DEF Effect
      <3> QED BY <1>1, <3>1, <3>2 DEF CallEnds
    <2>8. CASE Commanded
      <3>1. Draws(0, free)
        BY <2>8 DEF Commanded, Draws, Closed
      <3> QED BY <2>8, <3>1, StartCallEffect DEF Commanded, Still
    <2>9. CASE Incoming
      <3>1. Draws(0, free) /\ 0 \in Nat
        BY <2>9 DEF Incoming, Draws, Closed
      <3>2. Enters(0, free, 0) \/ Passes(0, free)
        BY <2>9, <3>1 DEF Incoming, Enters, Passes, Still, load
      <3> QED BY <3>2 DEF Effect
    <2>10. CASE SpawnSecondary \/ SetUsers \/ ResetStats
      BY <2>10 DEF Effect
    <2> QED BY <1>4, <2>3, <2>4, <2>5, <2>6, <2>7, <2>8, <2>9, <2>10 DEF Event
  <1>5. CASE Asks \/ UNCHANGED vars
    BY <1>2, <1>5 DEF Asks, vars, pools, load, table, started
  <1> QED BY <1>3, <1>4, <1>5 DEF Next, Over
-----------------------------------------------------------------------------
(* How many main calls live.                                               *)

\* A main call that leaves is one less.
LEMMA OneLess ==
    ASSUME TableTypes, NEW id \in DOMAIN calls
    PROVE  /\ Cardinality(MainOf(Drop(id))) \in Nat
           /\ Cardinality(MainOf(Drop(id)))
                 = IF calls[id].secondary THEN LiveMain ELSE LiveMain - 1
  <1>1. MainOf(calls) \in SUBSET CallIds /\ IsFiniteSet(CallIds)
    BY TableAssumption DEF TableAssumption, TableTypes, MainOf
  <1>2. IsFiniteSet(MainOf(calls))
    BY <1>1, FS_Subset
  <1>3. MainOf(Drop(id)) = MainOf(calls) \ {id}
    BY DEF Drop, MainOf
  <1>4. id \in MainOf(calls) <=> ~calls[id].secondary
    BY DEF MainOf
  <1>5. /\ IsFiniteSet(MainOf(calls) \ {id})
        /\ Cardinality(MainOf(calls) \ {id})
              = IF id \in MainOf(calls) THEN Cardinality(MainOf(calls)) - 1
                                        ELSE Cardinality(MainOf(calls))
    BY <1>2, FS_RemoveElement
  <1> QED BY <1>3, <1>4, <1>5, FS_CardinalityType DEF LiveMain

\* A main call that enters is one more.
LEMMA OneMore ==
    ASSUME TableTypes, Unused # {}, NEW call, calls' = Add(Slot, call),
           call.secondary \in BOOLEAN
    PROVE  LiveMain' = IF call.secondary THEN LiveMain ELSE LiveMain + 1
  <1> DEFINE slot == Slot
  <1>1. slot \in CallIds /\ slot \notin DOMAIN calls
    BY DEF Slot, Unused
  <1>2. /\ DOMAIN calls' = DOMAIN calls \cup {slot}
        /\ calls'[slot] = call
        /\ \A a \in DOMAIN calls : calls'[a] = calls[a]
    BY <1>1 DEF Add
  <1> HIDE DEF slot
  <1>3. MainOf(calls) \in SUBSET CallIds /\ IsFiniteSet(CallIds)
    BY TableAssumption DEF TableAssumption, TableTypes, MainOf
  <1>4. IsFiniteSet(MainOf(calls))
    BY <1>3, FS_Subset
  <1>5. MainOf(calls') = IF call.secondary THEN MainOf(calls) ELSE MainOf(calls) \cup {slot}
    BY <1>1, <1>2 DEF MainOf
  <1>6. slot \notin MainOf(calls)
    BY <1>1 DEF MainOf
  <1>7. Cardinality(MainOf(calls) \cup {slot}) = Cardinality(MainOf(calls)) + 1
    BY <1>4, <1>6, FS_AddElement
  <1> QED BY <1>5, <1>7 DEF LiveMain

-----------------------------------------------------------------------------
(* No id is lost.                                                          *)

\* Every id below next_user_id is free, retired or held; with IInv, only those are.
IdsAreKept == 1..nextUserId - 1 \subseteq Members(free) \cup Members(retired) \cup Held

\* The last id and those before it.
LEMMA LastAndRest ==
    ASSUME NEW s \in Seq(Nat), s # <<>>
    PROVE  /\ Len(SubSeq(s, 1, Len(s) - 1)) = Len(s) - 1
           /\ Members(s) = Members(SubSeq(s, 1, Len(s) - 1)) \cup {s[Len(s)]}
  <1> DEFINE n == Len(s)
  <1>1. n \in Nat \ {0} /\ DOMAIN s = 1..n
    BY EmptySeq, LenProperties
  <1>2. /\ n - 1 \in Nat /\ n - 1 <= n /\ 1 \in Nat \ {0} /\ 1..n = (1..n - 1) \cup {n}
    <2> HIDE DEF n
    <2> QED BY <1>1
  <1>3. Members(SubSeq(s, 1, n - 1)) = {s[i] : i \in 1..n - 1}
    BY <1>2, PieceOfIds, Zenon
  <1>4. Len(SubSeq(s, 1, n - 1)) = n - 1
    <2>1. \A i \in 1..n - 1 : s[i] \in Nat
      BY <1>1
    <2> HIDE DEF n
    <2> QED BY <1>2, <2>1, SubSeqProperties
  <1> HIDE DEF n
  <1>5. Members(s) = {s[i] : i \in 1..n - 1} \cup {s[n]}
    BY <1>1, <1>2 DEF Members
  <1> QED BY <1>3, <1>4, <1>5 DEF n

\* set_users neither loses an id nor forgets one that it makes, and the free pool
\* grows by as much as the count.
LEMMA RegrownKeepsAll ==
    ASSUME free \in Seq(Nat), retired \in Seq(Nat), nextUserId \in Nat \ {0},
           NEW target \in Nat, users \in Nat,
           free' = Regrown(target).free, retired' = Regrown(target).retired,
           nextUserId' = Regrown(target).next
    PROVE  /\ Members(free') \cup Members(retired')
                = Members(free) \cup Members(retired) \cup nextUserId..nextUserId' - 1
           /\ nextUserId' \in Nat
           /\ Len(free') = Len(free) + IF target > users THEN target - users ELSE 0
  <1> DEFINE short == IF target > users THEN target - users ELSE 0
             n     == Len(retired)
             back  == IF short < n THEN short ELSE n
             fresh == short - back
             made  == [i \in 1..fresh |-> nextUserId + fresh - i]
             kept  == SubSeq(retired, 1, n - back)
             taken == SubSeq(retired, n - back + 1, n)
  <1>1. n \in Nat /\ DOMAIN retired = 1..n /\ \A i \in 1..n : retired[i] \in Nat
    BY LenProperties
  <1>2. /\ short \in Nat /\ back \in Nat /\ back <= n /\ fresh \in Nat
        /\ n - back \in Nat /\ n - back <= n /\ n - back + 1 \in Nat \ {0}
        /\ 1 \in Nat \ {0} /\ n <= n
    <2> HIDE DEF n
    <2> QED BY <1>1
  <1>3. /\ free' = made \o taken \o free /\ retired' = kept
        /\ nextUserId' = nextUserId + fresh
    BY DEF Regrown, FreshUserId
  <1>4. kept \in Seq(Nat) /\ Members(kept) = {retired[i] : i \in 1..n - back}
    BY <1>2, PieceOfIds, Zenon
  <1>5. \A m \in Nat \ {0} : /\ SubSeq(retired, m, n) \in Seq(Nat)
                              /\ Members(SubSeq(retired, m, n)) = {retired[i] : i \in m..n}
                              /\ Len(SubSeq(retired, m, n)) = IF m <= n THEN n - m + 1 ELSE 0
    <2> SUFFICES ASSUME NEW m \in Nat \ {0}
                 PROVE  /\ SubSeq(retired, m, n) \in Seq(Nat)
                        /\ Members(SubSeq(retired, m, n)) = {retired[i] : i \in m..n}
                        /\ Len(SubSeq(retired, m, n)) = IF m <= n THEN n - m + 1 ELSE 0
      OBVIOUS
    <2>1. \A i \in m..n : retired[i] \in Nat
      BY <1>1
    <2> HIDE DEF n
    <2>2. Len(SubSeq(retired, m, n)) = IF m <= n THEN n - m + 1 ELSE 0
      BY <1>1, <2>1, SubSeqProperties
    <2>3. n <= Len(retired)
      BY <1>1 DEF n
    <2> QED BY <1>1, <2>2, <2>3, PieceOfIds
  <1> HIDE DEF n, back
  <1>6. /\ taken \in Seq(Nat) /\ Members(taken) = {retired[i] : i \in n - back + 1..n}
        /\ Len(taken) = back
    BY <1>1, <1>2, <1>5
  <1> HIDE DEF short, fresh
  <1>7. made \in Seq(Nat) /\ DOMAIN made = 1..fresh /\ Len(made) = fresh
    <2>1. \A i \in 1..fresh : nextUserId + fresh - i \in Nat
      BY <1>2
    <2>2. made \in [1..fresh -> Nat]
      BY <2>1
    <2> HIDE DEF made
    <2>3. made \in Seq(Nat)
      BY <1>2, <2>2, SeqDef
    <2> QED BY <1>2, <2>2, <2>3, LenProperties
  <1>8. Members(made) = nextUserId..nextUserId + fresh - 1
    <2>1. \A i \in 1..fresh : made[i] \in nextUserId..nextUserId + fresh - 1
      BY <1>2
    <2>2. \A x \in nextUserId..nextUserId + fresh - 1 :
             nextUserId + fresh - x \in 1..fresh /\ made[nextUserId + fresh - x] = x
      BY <1>2
    <2> HIDE DEF made
    <2> QED BY <1>7, <2>1, <2>2 DEF Members
  <1> HIDE DEF made, kept, taken
  <1>9. 1..n = (1..n - back) \cup (n - back + 1..n)
    BY <1>1, <1>2
  <1>10. Members(retired) = Members(kept) \cup Members(taken)
    BY <1>1, <1>4, <1>6, <1>9 DEF Members
  <1> DEFINE joined == made \o taken
  <1>11. /\ joined \in Seq(Nat) /\ Members(joined) = Members(made) \cup Members(taken)
         /\ Len(joined) = fresh + back
    <2>1. joined \in Seq(Nat) /\ Members(joined) = Members(made) \cup Members(taken)
      BY <1>6, <1>7, JoinIds
    <2>2. Len(joined) = Len(made) + Len(taken)
      BY <1>6, <1>7, ConcatProperties
    <2> HIDE DEF joined
    <2> QED BY <1>6, <1>7, <2>1, <2>2
  <1>12. free' = joined \o free
    BY <1>3
  <1> HIDE DEF joined
  <1>13. Members(free') = Members(joined) \cup Members(free) /\ Len(free') = fresh + back + Len(free)
    <2>1. Members(joined \o free) = Members(joined) \cup Members(free)
      BY <1>11, JoinIds
    <2>2. Len(joined \o free) = Len(joined) + Len(free)
      BY <1>11, ConcatProperties
    <2> QED BY <1>11, <1>12, <2>1, <2>2
  <1>14. fresh + back + Len(free) = Len(free) + short
    <2>1. Len(free) \in Nat
      BY LenProperties
    <2> QED BY <1>2, <2>1 DEF fresh
  <1>15. Len(free') = Len(free) + short
    BY <1>13, <1>14
  <1> QED BY <1>2, <1>3, <1>8, <1>10, <1>11, <1>13, <1>15 DEF short

\* Where there are no circuits to run out of, no step loses an id.
LEMMA EffectKeepsIds ==
    ASSUME Circuits = {}, IInv, IdsAreKept, Effect
    PROVE  IdsAreKept'
  <1>1. /\ free \in Seq(Nat) /\ retired \in Seq(Nat) /\ nextUserId \in Nat \ {0}
        /\ 1..nextUserId - 1 \subseteq Members(free) \cup Members(retired) \cup Held
        /\ \A id \in DOMAIN calls : calls[id].uid \in Nat
    BY DEF IInv, Ids, PoolTypes, IdsAreKept, TableTypes, Call
  <1>2. \A x \in Nat : /\ Members(<<x>> \o free) = {x} \cup Members(free)
                       /\ Members(<<x>> \o retired) = {x} \cup Members(retired)
    BY <1>1, PushId
  <1>3. ASSUME NEW id, Leaves(id) PROVE IdsAreKept'
    <2> DEFINE uid == calls[id].uid
    <2>1. /\ Held' = Held \ {uid} /\ uid \in Nat /\ nextUserId' = nextUserId
      BY <1>1, <1>3, DropHolds DEF Leaves, LeavesTable, IInv
    <2>2. \/ uid = 0 /\ UNCHANGED <<free, retired>>
          \/ retired' = <<uid>> \o retired /\ free' = free
          \/ free' = <<uid>> \o free /\ retired' = retired
      BY <1>3 DEF Leaves, LeavesTable, ReturnUser
    <2> HIDE DEF uid
    <2>3. 0 \notin 1..nextUserId - 1
      OBVIOUS
    <2> QED BY <1>1, <1>2, <2>1, <2>2, <2>3 DEF IdsAreKept
  <1>4. ASSUME NEW uid, NEW pool, Draws(uid, pool)
        PROVE  /\ uid \in Nat /\ pool \in Seq(Nat) /\ Taken(uid, pool)
               /\ Members(free) \subseteq Members(pool) \cup {uid}
               /\ Members(<<uid>> \o pool) = {uid} \cup Members(pool)
    <2>1. Taken(uid, pool)
      BY <1>4, NoIdIsTaken, LastIdIsTaken DEF Draws, IInv
    <2>2. Members(free) \subseteq Members(pool) \cup {uid}
      BY <1>1, <1>4, LastAndRest DEF Draws
    <2> QED BY <2>1, <2>2, PushId DEF Taken
  <1>5. ASSUME NEW uid, NEW pool, NEW circuit, Enters(uid, pool, circuit) PROVE IdsAreKept'
    <2> DEFINE call == [uid |-> uid, circuit |-> circuit, secondary |-> FALSE]
    <2>1. /\ uid \in Nat /\ Members(free) \subseteq Members(pool) \cup {uid}
          /\ uid \notin Held
      BY <1>4, <1>5 DEF Enters, Taken
    <2>2. call \in Call /\ call.uid = uid /\ calls' = Add(Slot, call) /\ Unused # {}
      BY <1>5, <2>1 DEF Enters, Opens, Call
    <2> HIDE DEF call
    <2>3. Held' = Held \cup ({uid} \ {0})
      BY <2>1, <2>2, AddHolds DEF IInv
    <2>4. free' = pool /\ retired' = retired /\ nextUserId' = nextUserId
      BY <1>5 DEF Enters, Opens
    <2>5. 0 \notin 1..nextUserId - 1
      OBVIOUS
    <2> QED BY <1>1, <2>1, <2>3, <2>4, <2>5 DEF IdsAreKept
  <1>6. ASSUME NEW uid, NEW pool, Passes(uid, pool) PROVE IdsAreKept'
    <2>1. /\ uid \in Nat /\ Members(free) \subseteq Members(pool) \cup {uid}
          /\ Members(<<uid>> \o pool) = {uid} \cup Members(pool)
      BY <1>4, <1>6 DEF Passes
    <2>2. \/ retired' = <<uid>> \o retired /\ free' = pool
          \/ uid = 0 /\ free' = pool /\ retired' = retired
          \/ free' = <<uid>> \o pool /\ retired' = retired
      BY <1>6 DEF Passes, OpensAndEnds
    <2>3. Held' = Held /\ nextUserId' = nextUserId
      BY <1>6 DEF Passes, OpensAndEnds, Held
    <2>4. 0 \notin 1..nextUserId - 1
      OBVIOUS
    <2>5. Members(<<uid>> \o retired) = {uid} \cup Members(retired)
      BY <1>2, <2>1
    <2>6. CASE retired' = <<uid>> \o retired /\ free' = pool
      BY <1>1, <2>1, <2>3, <2>4, <2>5, <2>6 DEF IdsAreKept
    <2>7. CASE uid = 0 /\ free' = pool /\ retired' = retired
      BY <1>1, <2>1, <2>3, <2>4, <2>7 DEF IdsAreKept
    <2>8. CASE free' = <<uid>> \o pool /\ retired' = retired
      BY <1>1, <2>1, <2>3, <2>4, <2>8 DEF IdsAreKept
    <2> QED BY <2>2, <2>6, <2>7, <2>8
  <1>7. CASE Idles
    BY <1>1, <1>7 DEF Idles, pools, IdsAreKept, Held
  <1>8. CASE SpawnSecondary
    <2> DEFINE call == [uid |-> 0, circuit |-> 0, secondary |-> TRUE]
    <2>1. call \in Call /\ call.uid = 0 /\ calls' = Add(Slot, call) /\ Unused # {}
      BY <1>8 DEF SpawnSecondary, Call
    <2> HIDE DEF call
    <2>2. Held' = Held
      BY <2>1, AddHolds DEF IInv, Held
    <2> QED BY <1>1, <1>8, <2>2 DEF SpawnSecondary, Still, IdsAreKept
  <1>9. CASE ResetStats
    BY <1>1, <1>9 DEF ResetStats, pools, IdsAreKept, Held
  <1>10. CASE SetUsers
    <2>1. PICK target \in UserTargets :
            /\ free' = Regrown(target).free
            /\ retired' = Regrown(target).retired
            /\ nextUserId' = Regrown(target).next
      BY <1>10 DEF SetUsers
    <2>2. target \in Nat /\ users \in Nat /\ Held' = Held
      BY <1>10, UsersAssumption DEF SetUsers, UsersAssumption, IInv, LoopTypes, Held
    <2>3. /\ Members(free') \cup Members(retired')
                = Members(free) \cup Members(retired) \cup nextUserId..nextUserId' - 1
          /\ nextUserId' \in Nat
      BY <1>1, <2>1, <2>2, RegrownKeepsAll
    <2> QED BY <1>1, <2>2, <2>3 DEF IdsAreKept
  <1> QED BY <1>3, <1>5, <1>6, <1>7, <1>8, <1>9, <1>10 DEF Effect, Misses
-----------------------------------------------------------------------------
(* The population of the closed loop.                                      *)

\* In the closed loop the main calls have ids, and the secondary ones none; who
\* has none is free.
MainHaveIds ==
    Closed => \A id \in DOMAIN calls : calls[id].secondary <=> calls[id].uid = 0
EnoughIds == Closed => Len(free) + LiveMain >= users

\* The count is asked for when the loop waits.
KeptWhileWaiting ==
    Closed /\ phase \in {"top", "event"} /\ ~DoneCreating => LiveMain >= users

\* What joins a pool is one more.
LEMMA PushLen ==
    ASSUME NEW s \in Seq(Nat), NEW x \in Nat
    PROVE  Len(<<x>> \o s) = Len(s) + 1 /\ Len(s) \in Nat
  <1>1. <<x>> \in Seq(Nat) /\ Len(<<x>>) = 1
    OBVIOUS
  <1> QED BY <1>1, ConcatProperties, LenProperties

\* An id that leaves the free pool goes to a call that lives; one that comes back
\* goes there unless enough others live.
LEMMA EffectKeepsPopulation ==
    ASSUME Circuits = {}, IInv, MainHaveIds, EnoughIds, Effect
    PROVE  MainHaveIds' /\ EnoughIds'
  <1>1. /\ free \in Seq(Nat) /\ retired \in Seq(Nat) /\ nextUserId \in Nat \ {0}
        /\ TableTypes /\ users \in Nat /\ LiveMain \in Nat
        /\ Members(free) \subseteq 1..nextUserId - 1
        /\ Len(free) \in Nat
    BY LiveMainType, LenProperties DEF IInv, Ids, PoolTypes, LoopTypes, UserIdsAreOld
  <1> SUFFICES ASSUME mode' = "users" PROVE MainHaveIds' /\ EnoughIds'
    BY DEF MainHaveIds, EnoughIds, Closed
  <1>2. CASE mode # "users"
    BY <1>2 DEF Effect, Idles, Leaves, Enters, Passes, Misses, SpawnSecondary, SetUsers,
                ResetStats, Still, Closed
  <1>3. CASE mode = "users"
    <2>1. /\ \A id \in DOMAIN calls : calls[id].secondary <=> calls[id].uid = 0
          /\ Len(free) + LiveMain >= users
      BY <1>3 DEF MainHaveIds, EnoughIds, Closed
    <2>2. ASSUME NEW id, Leaves(id) PROVE MainHaveIds' /\ EnoughIds'
      <3> DEFINE left == Cardinality(MainOf(Drop(id)))
      <3>1. /\ left \in Nat /\ left = IF calls[id].secondary THEN LiveMain ELSE LiveMain - 1
            /\ calls' = Drop(id) /\ users' = users
        BY <1>1, <2>2, OneLess DEF Leaves, LeavesTable
      <3>2. LiveMain' = left
        BY <3>1 DEF LiveMain
      <3>3. calls[id].uid \in Nat /\ (calls[id].secondary <=> calls[id].uid = 0)
        BY <1>1, <2>1, <2>2 DEF Leaves, TableTypes, Call
      <3>4. ReturnUser(calls[id].uid, left)
        BY <2>2 DEF Leaves, LeavesTable
      <3> HIDE DEF left
      <3>5. Len(free') + left >= users
        <4>1. CASE calls[id].secondary
          BY <1>1, <2>1, <3>1, <3>3, <3>4, <4>1 DEF ReturnUser
        <4>2. CASE ~calls[id].secondary /\ left > users
          <5>1. free' = free
            BY <3>3, <3>4, <4>2 DEF ReturnUser
          <5> QED BY <1>1, <3>1, <4>2, <5>1
        <4>3. CASE ~calls[id].secondary /\ ~(left > users)
          <5>1. free' = <<calls[id].uid>> \o free
            BY <3>3, <3>4, <4>3 DEF ReturnUser
          <5>2. Len(free') = Len(free) + 1
            BY <1>1, <3>3, <5>1, PushLen
          <5> QED BY <1>1, <2>1, <3>1, <4>3, <5>2
        <4> QED BY <4>1, <4>2, <4>3
      <3>6. \A a \in DOMAIN calls' : a \in DOMAIN calls /\ calls'[a] = calls[a]
        BY <3>1 DEF Drop
      <3> QED BY <2>1, <3>1, <3>2, <3>5, <3>6 DEF MainHaveIds, EnoughIds
    <2>3. ASSUME NEW uid, NEW pool, Draws(uid, pool)
          PROVE  /\ uid \in Nat \ {0} /\ pool \in Seq(Nat)
                 /\ Len(pool) = Len(free) - 1 /\ Len(pool) \in Nat
      <3>1. /\ free # <<>> /\ uid = free[Len(free)] /\ pool = SubSeq(free, 1, Len(free) - 1)
        BY <1>3, <2>3 DEF Draws, Closed
      <3>2. uid \in Members(free) /\ pool \in Seq(Nat) /\ Len(pool) = Len(free) - 1
        BY <1>1, <3>1, PopId, LastAndRest
      <3> QED BY <1>1, <3>2, LenProperties
    <2>4. ASSUME NEW uid, NEW pool, NEW circuit, Enters(uid, pool, circuit)
          PROVE  MainHaveIds' /\ EnoughIds'
      <3> DEFINE call == [uid |-> uid, circuit |-> circuit, secondary |-> FALSE]
      <3>1. /\ uid \in Nat \ {0} /\ Len(pool) = Len(free) - 1 /\ Len(pool) \in Nat
            /\ free' = pool /\ users' = users /\ calls' = Add(Slot, call) /\ Unused # {}
        BY <2>3, <2>4 DEF Enters, Opens
      <3>2. call.uid = uid /\ ~call.secondary /\ call.secondary \in BOOLEAN
        OBVIOUS
      <3> HIDE DEF call
      <3>3. LiveMain' = LiveMain + 1
        BY <1>1, <3>1, <3>2, OneMore
      <3>4. EnoughIds'
        BY <1>1, <2>1, <3>1, <3>3 DEF EnoughIds
      <3>5. \A a \in DOMAIN calls' : calls'[a] = call \/ (a \in DOMAIN calls /\ calls'[a] = calls[a])
        BY <3>1 DEF Add
      <3> QED BY <2>1, <3>1, <3>2, <3>4, <3>5 DEF MainHaveIds
    <2>5. ASSUME NEW uid, NEW pool, Passes(uid, pool) PROVE MainHaveIds' /\ EnoughIds'
      <3>1. /\ uid \in Nat \ {0} /\ pool \in Seq(Nat) /\ Len(pool) = Len(free) - 1
            /\ Len(pool) \in Nat /\ Len(<<uid>> \o pool) = Len(pool) + 1
        BY <2>3, <2>5, PushLen DEF Passes
      <3>2. /\ calls' = calls /\ users' = users /\ LiveMain' = LiveMain
            /\ IF LiveMain > users THEN free' = pool ELSE free' = <<uid>> \o pool
        BY <2>5, <3>1 DEF Passes, OpensAndEnds, LiveMain
      <3>3. EnoughIds'
        <4>1. CASE LiveMain > users
          BY <1>1, <3>1, <3>2, <4>1 DEF EnoughIds
        <4>2. CASE ~(LiveMain > users)
          BY <1>1, <2>1, <3>1, <3>2, <4>2 DEF EnoughIds
        <4> QED BY <4>1, <4>2
      <3> QED BY <2>1, <3>2, <3>3 DEF MainHaveIds
    <2>6. CASE Idles \/ ResetStats
      <3>1. UNCHANGED <<calls, free, users>>
        BY <2>6 DEF Idles, ResetStats, pools, load
      <3>2. LiveMain' = LiveMain
        BY <3>1 DEF LiveMain
      <3> QED BY <2>1, <3>1, <3>2 DEF MainHaveIds, EnoughIds
    <2>7. CASE SpawnSecondary
      <3> DEFINE call == [uid |-> 0, circuit |-> 0, secondary |-> TRUE]
      <3>1. calls' = Add(Slot, call) /\ Unused # {} /\ UNCHANGED <<free, users>>
        BY <2>7 DEF SpawnSecondary, Still, load
      <3>2. call.uid = 0 /\ call.secondary /\ call.secondary \in BOOLEAN
        OBVIOUS
      <3> HIDE DEF call
      <3>3. LiveMain' = LiveMain
        BY <1>1, <3>1, <3>2, OneMore
      <3>4. \A a \in DOMAIN calls' : calls'[a] = call \/ (a \in DOMAIN calls /\ calls'[a] = calls[a])
        BY <3>1 DEF Add
      <3> QED BY <2>1, <3>1, <3>2, <3>3, <3>4 DEF MainHaveIds, EnoughIds
    <2>8. CASE SetUsers
      <3>1. PICK target \in UserTargets :
              /\ users' = target
              /\ free' = Regrown(target).free
              /\ retired' = Regrown(target).retired
              /\ nextUserId' = Regrown(target).next
        BY <2>8 DEF SetUsers
      <3>2. target \in Nat /\ calls' = calls
        BY <2>8, UsersAssumption DEF SetUsers, UsersAssumption
      <3>3. Len(free') = Len(free) + IF target > users THEN target - users ELSE 0
        BY <1>1, <3>1, <3>2, RegrownKeepsAll
      <3>4. LiveMain' = LiveMain
        BY <3>2 DEF LiveMain
      <3>5. Len(free') + LiveMain >= target
        BY <1>1, <2>1, <3>2, <3>3
      <3> QED BY <2>1, <3>1, <3>2, <3>4, <3>5 DEF MainHaveIds, EnoughIds
    <2> QED BY <2>2, <2>4, <2>5, <2>6, <2>7, <2>8 DEF Effect, Misses
  <1> QED BY <1>2, <1>3

\* The loop waits only when nothing is left to open.
LEMMA WaitsWhenKept ==
    ASSUME IInv, EnoughIds, KeptWhileWaiting, [Next]_vars
    PROVE  KeptWhileWaiting'
  <1>1. LiveMain \in Nat /\ users \in Nat /\ Len(<<>>) = 0
    BY LiveMainType DEF IInv, Ids, LoopTypes
  <1>2. CASE RefillOver
    <2>1. /\ UNCHANGED <<mode, calls, users, created>> /\ (soft => soft')
          /\ ~(Closed /\ LiveMain < users /\ ~DoneCreating /\ free # <<>>)
      BY <1>2 DEF RefillOver, Short, table, Still, load, started, IInv, LoopTypes
    <2>2. LiveMain' = LiveMain
      BY <2>1 DEF LiveMain
    <2>3. Closed /\ free = <<>> => LiveMain >= users
      BY <1>1 DEF EnoughIds
    <2> QED BY <1>1, <2>1, <2>2, <2>3 DEF KeptWhileWaiting, DoneCreating, Closed
  <1>3. CASE Top
    <2>1. phase = "top" /\ UNCHANGED <<mode, calls, users, created, soft>>
      BY <1>3 DEF Top, table, Still, load, started
    <2> QED BY <2>1 DEF KeptWhileWaiting, DoneCreating, Closed, LiveMain
  <1>4. CASE Asks \/ UNCHANGED vars
    <2>1. UNCHANGED <<mode, calls, users, created, soft, phase>>
      BY <1>4 DEF Asks, vars, load, started
    <2> QED BY <2>1 DEF KeptWhileWaiting, DoneCreating, Closed, LiveMain
  <1>5. CASE FailOne
    BY <1>5 DEF FailOne, KeptWhileWaiting
  <1>6. ASSUME phase' \in {"refill", "place", "failing", "done"} PROVE KeptWhileWaiting'
    BY <1>6 DEF KeptWhileWaiting
  <1>7. ASSUME NEW uid, NEW pool, NEW next \in {"refill", "place"}, StartCall(uid, pool, next)
        PROVE  phase' \in {"refill", "place", "failing", "done"}
    BY <1>7 DEF StartCall, GoTo
  <1>8. CASE Refill \/ PlaceCall \/ Commanded
    BY <1>6, <1>7, <1>8 DEF Refill, PlaceCall, Commanded
  <1>9. CASE FailingOver \/ PlacingOver
    BY <1>6, <1>9 DEF FailingOver, PlacingOver, IInv, LoopTypes
  <1>10. CASE Event
    <2>1. \/ Commanded \/ phase' \in {"refill", "place", "failing", "done"}
      BY <1>10 DEF Event, PacerTick, CallsClose, Incoming, SpawnSecondary, SetLoad, SetUsers,
                   ResetStats, GlobalTimeout, SocketError, TwinEnds, ExecStops, CallEnds, CallIsPinged, Serve,
                   Handled, GoTo, Fail, Quits, HardQuits
    <2> QED BY <1>6, <1>8, <2>1
  <1> QED BY <1>2, <1>3, <1>4, <1>5, <1>8, <1>9, <1>10 DEF Next, LoopStep, Over
-----------------------------------------------------------------------------
(* The counts.                                                             *)

\* What was created, or is set aside, and has neither ended nor lives.
Balance == created + aside - ended - LiveMain

\* The counts are counted modulo Wrap, so the balance is a multiple of it.
Balanced == \E k \in Int : Balance = k * Wrap

\* A counter that goes up, up to whole turns.
LEMMA UpToTurns ==
    ASSUME NEW n \in 0..Wrap - 1
    PROVE  \E k \in {0, 1} : (n + 1) % Wrap = n + 1 - k * Wrap
  <1>1. Wrap \in Nat /\ Wrap > 0
    BY CounterType
  <1>2. CASE n + 1 < Wrap
    <2>1. (n + 1) % Wrap = n + 1
      BY <1>1, <1>2
    <2> QED BY <1>1, <2>1
  <1>3. CASE n + 1 = Wrap
    <2>1. (n + 1) % Wrap = 0
      BY <1>1, <1>3
    <2> QED BY <1>1, <1>3, <2>1
  <1> QED BY <1>1, <1>2, <1>3

\* One that goes down.
LEMMA DownToTurns ==
    ASSUME NEW n \in 0..Wrap - 1
    PROVE  \E k \in {0, 1} : (n - 1) % Wrap = n - 1 + k * Wrap
  <1>1. Wrap \in Nat /\ Wrap > 0
    BY CounterType
  <1>2. CASE n > 0
    <2>1. (n - 1) % Wrap = n - 1
      BY <1>1, <1>2
    <2> QED BY <1>1, <2>1
  <1>3. CASE n = 0
    <2>1. (n - 1) % Wrap = Wrap - 1
      BY <1>1, <1>3
    <2> QED BY <1>1, <1>3, <2>1
  <1> QED BY <1>1, <1>2, <1>3

\* A rest is off by whole turns.
LEMMA RestIsTurnsOff ==
    ASSUME NEW n \in Nat
    PROVE  \E m \in Int : (n % Wrap) - n = m * Wrap
  <1> DEFINE q == n \div Wrap
  <1>1. Wrap \in Nat /\ Wrap > 0
    BY CounterType
  <1>2. q \in Int /\ n % Wrap \in Int /\ n = q * Wrap + (n % Wrap)
    BY <1>1
  <1> HIDE DEF q
  <1>3. (n % Wrap) - n = (-q) * Wrap /\ -q \in Int
    BY <1>1, <1>2
  <1> QED BY <1>3, Zenon

\* Turns more or less.
LEMMA TurnsAdd ==
    ASSUME NEW b \in Int, NEW k \in Int, b = k * Wrap, NEW i \in {0, 1}, NEW j \in {0, 1}
    PROVE  \E m \in Int : b - i * Wrap + j * Wrap = m * Wrap
  <1>1. Wrap \in Nat
    BY CounterType
  <1>2. b - i * Wrap + j * Wrap = (k - i + j) * Wrap
    BY <1>1
  <1> QED BY <1>2

\* Numbers that differ by whole turns have the same rest.
LEMMA SameRest ==
    ASSUME NEW x \in Int, NEW y \in Int, NEW k \in Int, x - y = k * Wrap
    PROVE  x % Wrap = y % Wrap
  <1>1. Wrap \in Nat /\ Wrap > 0
    BY CounterType
  <1> DEFINE q == x \div Wrap
             r == x % Wrap
             p == y \div Wrap
             s == y % Wrap
  <1>2. /\ q \in Int /\ r \in 0..Wrap - 1 /\ x = q * Wrap + r
        /\ p \in Int /\ s \in 0..Wrap - 1 /\ y = p * Wrap + s
    BY <1>1
  <1> HIDE DEF q, r, p, s
  <1>3. (q - p - k) * Wrap = s - r
    BY <1>1, <1>2
  <1> DEFINE m == q - p - k
  <1>4. m \in Int /\ m * Wrap = s - r
    BY <1>2, <1>3
  <1> HIDE DEF m
  <1>5. CASE m >= 1
    <2>1. (m - 1) * Wrap >= 0
      BY <1>1, <1>4, <1>5
    <2>2. m * Wrap >= Wrap
      BY <1>1, <1>4, <2>1
    <2> QED BY <1>1, <1>2, <1>4, <2>2
  <1>6. CASE m <= -1
    <2>1. (-1 - m) * Wrap >= 0
      BY <1>1, <1>4, <1>6
    <2>2. m * Wrap <= -Wrap
      BY <1>1, <1>4, <2>1
    <2> QED BY <1>1, <1>2, <1>4, <2>2
  <1>7. CASE m = 0
    BY <1>1, <1>2, <1>4, <1>7 DEF r, s
  <1> QED BY <1>4, <1>5, <1>6, <1>7

\* Each step adds as much to one side as to the other, but for whole turns.
LEMMA EffectKeepsBalance ==
    ASSUME IInv, Balanced, Effect
    PROVE  Balanced'
  <1>1. /\ created \in 0..Wrap - 1 /\ ended \in 0..Wrap - 1 /\ aside \in 0..Wrap - 1
        /\ TableTypes /\ LiveMain \in Nat /\ Wrap \in Nat
    BY LiveMainType, CounterType DEF IInv, Ids, LoopTypes
  <1>2. Balance \in Int
    BY <1>1 DEF Balance
  <1>3. PICK k \in Int : Balance = k * Wrap
    BY DEF Balanced
  <1>4. PICK i \in {0, 1} : (created + 1) % Wrap = created + 1 - i * Wrap
    BY <1>1, UpToTurns
  <1>5. PICK j \in {0, 1} : (ended + 1) % Wrap = ended + 1 - j * Wrap
    BY <1>1, UpToTurns
  <1>6. i * Wrap \in Int /\ j * Wrap \in Int
    BY <1>1
  <1>16. PICK g \in {0, 1} : (aside + 1) % Wrap = aside + 1 - g * Wrap
    BY <1>1, UpToTurns
  <1>17. PICK h \in {0, 1} : (aside - 1) % Wrap = aside - 1 + h * Wrap
    BY <1>1, DownToTurns
  <1>18. g * Wrap \in Int /\ h * Wrap \in Int
    BY <1>1
  <1>7. ASSUME \E a, b \in {0, 1} : Balance' = Balance - a * Wrap + b * Wrap
        PROVE  Balanced'
    <2>1. PICK a \in {0, 1}, b \in {0, 1} : Balance' = Balance - a * Wrap + b * Wrap
      BY <1>7
    <2>2. PICK m \in Int : Balance - a * Wrap + b * Wrap = m * Wrap
      BY <1>2, <1>3, TurnsAdd
    <2> QED BY <2>1, <2>2 DEF Balanced
  <1>8. 0 \in {0, 1} /\ 0 * Wrap = 0
    BY <1>1
  <1>9. ASSUME Balance' = Balance PROVE Balanced'
    BY <1>3, <1>9 DEF Balanced
  <1>10. ASSUME NEW id, Leaves(id) PROVE Balanced'
    <2> DEFINE left == Cardinality(MainOf(Drop(id)))
    <2>1. /\ left \in Nat /\ left = IF calls[id].secondary THEN LiveMain ELSE LiveMain - 1
          /\ calls' = Drop(id) /\ created' = created
      BY <1>1, <1>10, OneLess DEF Leaves, LeavesTable
    <2>2. LiveMain' = left
      BY <2>1 DEF LiveMain
    <2> HIDE DEF left
    <2>3. CASE calls[id].secondary
      <3>1. ended' = ended /\ aside' = aside
        BY <1>10, <2>3 DEF Leaves, CountsEnd, CountsPing
      <3> QED BY <1>9, <2>1, <2>2, <2>3, <3>1 DEF Balance
    <2>4. CASE ~calls[id].secondary /\ CountsEnd(id)
      <3>1. /\ ended' = ended + 1 - j * Wrap /\ LiveMain' = LiveMain - 1
            /\ created' = created /\ aside' = aside
        BY <1>5, <2>1, <2>2, <2>4 DEF CountsEnd
      <3>2. Balance' = Balance - 0 * Wrap + j * Wrap
        BY <1>1, <1>6, <1>8, <3>1 DEF Balance
      <3> QED BY <1>7, <1>8, <3>2
    <2>5. CASE ~calls[id].secondary /\ CountsPing(id)
      <3>1. /\ aside' = aside - 1 + h * Wrap /\ LiveMain' = LiveMain - 1
            /\ created' = created /\ ended' = ended
        BY <1>17, <2>1, <2>2, <2>5 DEF CountsPing
      <3>2. Balance' = Balance - 0 * Wrap + h * Wrap
        BY <1>1, <1>18, <1>8, <3>1 DEF Balance
      <3> QED BY <1>7, <1>8, <3>2
    <2> QED BY <1>10, <2>3, <2>4, <2>5 DEF Leaves
  <1>11. ASSUME NEW uid, NEW pool, NEW circuit, Enters(uid, pool, circuit) PROVE Balanced'
    <2> DEFINE call == [uid |-> uid, circuit |-> circuit, secondary |-> FALSE]
    <2>1. /\ calls' = Add(Slot, call) /\ Unused # {} /\ ended' = ended
          /\ created' = (created + 1) % Wrap /\ aside' = aside
      BY <1>11 DEF Enters, Opens, CountsOne
    <2>2. ~call.secondary /\ call.secondary \in BOOLEAN
      OBVIOUS
    <2> HIDE DEF call
    <2>3. LiveMain' = LiveMain + 1
      BY <1>1, <2>1, <2>2, OneMore
    <2>4. Balance' = Balance - i * Wrap + 0 * Wrap
      BY <1>1, <1>4, <1>6, <1>8, <2>1, <2>3 DEF Balance
    <2> QED BY <1>7, <1>8, <2>4
  <1>12. ASSUME NEW uid, NEW pool, Passes(uid, pool) PROVE Balanced'
    <2>1. /\ LiveMain' = LiveMain /\ ended' = (ended + 1) % Wrap
          /\ created' = (created + 1) % Wrap /\ aside' = aside
      BY <1>12 DEF Passes, OpensAndEnds, CountsOne, LiveMain
    <2>2. Balance' = Balance - i * Wrap + j * Wrap
      BY <1>1, <1>4, <1>5, <1>6, <2>1 DEF Balance
    <2> QED BY <1>7, <2>2
  <1>13. CASE SpawnSecondary
    <2> DEFINE call == [uid |-> 0, circuit |-> 0, secondary |-> TRUE]
    <2>1. calls' = Add(Slot, call) /\ Unused # {} /\ UNCHANGED <<created, aside, ended>>
      BY <1>13 DEF SpawnSecondary, Still, started
    <2>2. call.secondary /\ call.secondary \in BOOLEAN
      OBVIOUS
    <2> HIDE DEF call
    <2>3. LiveMain' = LiveMain
      BY <1>1, <2>1, <2>2, OneMore
    <2> QED BY <1>9, <2>1, <2>3 DEF Balance
  <1>14. CASE ResetStats
    <2>1. /\ created' = 0 /\ ended' = 0 /\ aside' = LiveMain % Wrap
          /\ LiveMain' = LiveMain
      BY <1>14 DEF ResetStats, LiveMain
    <2>2. PICK m \in Int : (LiveMain % Wrap) - LiveMain = m * Wrap
      BY <1>1, RestIsTurnsOff
    <2>3. Balance' = m * Wrap
      BY <1>1, <2>1, <2>2, CounterType DEF Balance
    <2> QED BY <2>3 DEF Balanced
  <1>15. CASE SetUsers \/ Idles
    <2>1. UNCHANGED <<calls, created, aside, ended>>
      BY <1>15 DEF SetUsers, Idles, started
    <2> QED BY <1>9, <2>1 DEF Balance, LiveMain
  <1>19. ASSUME NEW uid, NEW pool, Misses(uid, pool) PROVE Balanced'
    <2>1. /\ LiveMain' = LiveMain /\ ended' = (ended + 1) % Wrap
          /\ aside' = (aside + 1) % Wrap /\ created' = created
      BY <1>19 DEF Misses, Refused, LiveMain
    <2>2. Balance' = Balance - g * Wrap + j * Wrap
      BY <1>1, <1>5, <1>6, <1>16, <1>18, <2>1 DEF Balance
    <2> QED BY <1>7, <2>2
  <1> QED BY <1>10, <1>11, <1>12, <1>13, <1>14, <1>15, <1>19 DEF Effect

-----------------------------------------------------------------------------
(* How the run ends.                                                       *)

\* Only a stop that sets hard_stop and not soft_stopping may be followed by new
\* calls: at once where the pacer or refill_users is opening some, by
\* replacements in the closed loop.
StopsAreFinal ==
    /\ "stops" \in Outcomes => Modes \cap {"rate", "users"} = {}
    /\ "exec" \in Stops \/ ("twin" \in Stops /\ HardTwin) => "users" \notin Modes

\* Once hard_stop is set every live call is failing or gone, and no place that
\* opens calls is reached.
HaltInv ==
    /\ Closed /\ hard => soft
    /\ phase \in {"place", "event"} \/ (phase = "failing" /\ resume = "place") => ~hard
    /\ hard /\ phase # "failing" => DOMAIN calls = {}
    /\ phase = "failing" /\ (hard \/ resume = "done") => doomed = DOMAIN calls
    /\ phase = "done" => DOMAIN calls = {} \/ LiveMain = 0

\* Every call is to be failed.
LEMMA FailAllHalts ==
    ASSUME IInv, HaltInv, Fail(DOMAIN calls, "refill") \/ Fail(DOMAIN calls, "done"),
           Closed' /\ hard' => soft'
    PROVE  HaltInv'
  <1>1. phase' = "failing" /\ doomed' = DOMAIN calls /\ resume' \in {"refill", "done"} /\ calls' = calls
    BY DEF Fail, table
  <1> QED BY <1>1 DEF HaltInv

\* A handler goes on while nothing has stopped the run.
LEMMA GoesOn ==
    ASSUME HaltInv, ~hard, hard' = hard, phase' # "done", phase' = "failing" => resume' # "done"
    PROVE  HaltInv'
  <1> QED BY DEF HaltInv

\* start_call may stop the run for good: then every call is failing, the new one too.
LEMMA StartCallHalts ==
    ASSUME StopsAreFinal, IInv, HaltInv, ~hard, NEW uid, NEW pool, NEW next \in {"refill", "place"},
           StartCall(uid, pool, next), next = "place" => mode = "rate",
           UNCHANGED mode
    PROVE  HaltInv'
  <1>1. CASE hard' = hard
    <2>1. /\ phase' = next \/ (phase' = "failing" /\ resume' = next)
      BY DEF StartCall, GoTo
    <2> QED BY <1>1, <2>1, GoesOn
  <1>2. CASE hard' # hard
    <2>1. /\ "stops" \in Outcomes /\ phase' = "failing" /\ resume' = next
          /\ doomed' = DOMAIN calls \cup {Slot} /\ DOMAIN calls' = DOMAIN calls \cup {Slot}
      BY <1>2 DEF StartCall, Refused, Opens, Add
    <2>2. mode \in Modes
      BY DEF IInv, LoopTypes
    <2>3. mode # "rate" /\ mode # "users"
      BY <2>1, <2>2 DEF StopsAreFinal
    <2> QED BY <2>1, <2>3 DEF HaltInv, Closed
  <1> QED BY <1>1, <1>2

\* No step goes on opening calls once the run is stopped.
LEMMA NextHalts ==
    ASSUME StopsAreFinal, IInv, HaltInv, [Next]_vars
    PROVE  HaltInv'
  <1>1. mode \in Modes /\ hard \in BOOLEAN /\ soft \in BOOLEAN
    BY DEF IInv, LoopTypes
  <1>2. CASE Refill
    <2>1. ~hard
      BY <1>1, <1>2 DEF Refill, Short, DoneCreating, HaltInv
    <2> QED BY <1>2, <2>1, StartCallHalts DEF Refill, Still
  <1>3. CASE PlaceCall
    <2>1. ~hard /\ mode = "rate"
      BY <1>1, <1>3 DEF PlaceCall, HaltInv, IInv, PlacesUnpaused
    <2> QED BY <1>3, <2>1, StartCallHalts DEF PlaceCall, Still
  <1>4. CASE RefillOver
    <2>1. phase = "refill" /\ phase' = "top" /\ UNCHANGED <<mode, calls, hard, doomed, resume>> /\ (soft => soft')
      BY <1>1, <1>4 DEF RefillOver, Still, table
    <2> QED BY <2>1 DEF HaltInv, Closed
  <1>5. CASE Top
    <2>1. phase = "top" /\ UNCHANGED <<mode, calls, hard, soft, doomed, resume>>
      BY <1>5 DEF Top, Still, table
    <2>2. phase' \in {"done", "event"} /\ (phase' = "event" => ~hard)
          /\ (phase' = "done" => hard \/ LiveMain = 0)
      BY <1>1, <1>5 DEF Top
    <2>3. LiveMain' = LiveMain
      BY <2>1 DEF LiveMain
    <2> QED BY <2>1, <2>2, <2>3 DEF HaltInv, Closed
  <1>6. CASE FailOne
    <2>1. PICK id \in doomed : EndCall(id) /\ doomed' = doomed \ {id}
      BY <1>6 DEF FailOne
    <2>2. DOMAIN calls' = DOMAIN calls \ {id}
      BY <2>1 DEF EndCall, LeavesTable, Drop
    <2>3. phase = "failing" /\ UNCHANGED <<mode, hard, soft, phase, resume>>
      BY <1>6 DEF FailOne, Still
    <2> QED BY <2>1, <2>2, <2>3 DEF HaltInv, Closed
  <1>7. CASE FailingOver
    <2>1. /\ phase = "failing" /\ doomed = {} /\ phase' = resume
          /\ UNCHANGED <<mode, calls, hard, soft, doomed, resume>>
          /\ resume \in {"refill", "place", "done"}
      BY <1>7 DEF FailingOver, Still, table, IInv, LoopTypes
    <2> QED BY <2>1 DEF HaltInv, Closed
  <1>8. CASE PlacingOver
    <2>1. phase = "place" /\ phase' = "refill" /\ UNCHANGED hard
      BY <1>8 DEF PlacingOver
    <2>2. ~hard
      BY <2>1 DEF HaltInv
    <2> QED BY <2>1, <2>2, GoesOn
  <1>9. CASE Event
    <2>1. phase = "event"
      BY <1>9 DEF Event, PacerTick, CallsClose, Incoming, SpawnSecondary, Commanded, SetLoad,
                  SetUsers, ResetStats, GlobalTimeout, SocketError, TwinEnds, ExecStops, CallEnds,
                  CallIsPinged, Serve
    <2>2. ~hard
      BY <2>1 DEF HaltInv
    <2>3. CASE PacerTick \/ Incoming \/ SpawnSecondary \/ SetLoad \/ SetUsers \/ ResetStats
      BY <2>2, <2>3, GoesOn DEF PacerTick, Incoming, SpawnSecondary, SetLoad, SetUsers, ResetStats,
                                Handled, GoTo
    <2>4. CASE CallsClose
      BY <2>2, <2>4, GoesOn DEF CallsClose, Fail
    <2>5. CASE \E id \in CallIds : CallEnds(id) \/ CallIsPinged(id)
      BY <2>2, <2>5, GoesOn DEF CallEnds, CallIsPinged, Handled
    <2>6. CASE Commanded
      BY <2>2, <2>6, StartCallHalts DEF Commanded, Still
    <2>7. CASE GlobalTimeout \/ SocketError
      <3>1. hard' = hard /\ (Fail(DOMAIN calls, "refill") \/ Fail(DOMAIN calls, "done"))
        BY <2>7 DEF GlobalTimeout, SocketError
      <3> QED BY <2>2, <3>1, FailAllHalts
    <2>8. ASSUME Quits PROVE HaltInv'
      BY <2>2, <2>8, GoesOn DEF Quits, Handled
    <2>9. CASE TwinEnds
      <3>1. CASE HardTwin
        <4>1. mode # "users" /\ mode' = mode /\ Fail(DOMAIN calls, "refill")
          BY <1>1, <2>9, <3>1 DEF TwinEnds, StopsAreFinal
        <4> QED BY <4>1, FailAllHalts DEF Closed
      <3>2. CASE ~HardTwin
        BY <2>8, <2>9, <3>2 DEF TwinEnds
      <3> QED BY <3>1, <3>2
    <2>10. CASE ExecStops
      <3>1. mode # "users" /\ mode' = mode
        BY <1>1, <2>10 DEF ExecStops, StopsAreFinal
      <3>2. Quits \/ Fail(DOMAIN calls, "refill")
        BY <2>10 DEF ExecStops
      <3> QED BY <2>8, <3>1, <3>2, FailAllHalts DEF Closed
    <2>11. CASE \E request \in Stops : Serve(request)
      <3>1. Quits \/ HardQuits
        BY <2>11 DEF Serve
      <3>2. CASE HardQuits
        BY <3>2, FailAllHalts DEF HardQuits
      <3> QED BY <2>8, <3>1, <3>2
    <2> QED BY <1>9, <2>3, <2>4, <2>5, <2>6, <2>7, <2>9, <2>10, <2>11 DEF Event
  <1>10. CASE Asks \/ UNCHANGED vars
    <2>1. UNCHANGED <<mode, calls, hard, soft, phase, doomed, resume>>
      BY <1>10 DEF Asks, vars
    <2> QED BY <2>1 DEF HaltInv, Closed, LiveMain
  <1> QED BY <1>2, <1>3, <1>4, <1>5, <1>6, <1>7, <1>8, <1>9, <1>10 DEF Next, LoopStep, Over
-----------------------------------------------------------------------------
(* Theorems of ids, population, counts and the end.                        *)

\* Where no circuits run out, every id ever made is free, retired or with a live
\* call, whatever becomes of the user count and of the calls (return_user,
\* set_users, refill_users).
THEOREM UserIdsAreNeverLost ==
    ASSUME Circuits = {}
    PROVE  Spec => []NoUserIdIsLost
  <1>1. Init => IdsAreKept
    <2> SUFFICES ASSUME Init PROVE IdsAreKept
      OBVIOUS
    <2> DEFINE n == IF Closed THEN InitUsers ELSE 0
    <2>1. free = [i \in 1..n |-> i] /\ nextUserId = n + 1 /\ n \in Nat
      BY UsersAssumption DEF Init, UsersAssumption
    <2> HIDE DEF n
    <2>2. \A i \in 1..n : i \in DOMAIN free /\ free[i] = i
      BY <2>1
    <2> QED BY <2>1, <2>2 DEF IdsAreKept, Members
  <1>2. IInv /\ IdsAreKept /\ [Next]_vars => IdsAreKept'
    BY StepEffect, EffectKeepsIds
  <1>3. Spec => []IdsAreKept
    BY <1>1, <1>2, PoolInvariantHolds, PTL DEF Spec
  <1>4. IInv /\ IdsAreKept => NoUserIdIsLost
    BY DEF IInv, Ids, UserIdsAreOld, IdsAreKept, NoUserIdIsLost
  <1> QED BY <1>3, <1>4, PoolInvariantHolds, PTL

\* Where no circuits run out, the closed loop has as many calls as users asks for
\* whenever it waits for an event, until -m or a drain ends the opening of calls
\* (refill_users, return_user, set_users).
THEOREM PopulationIsAlwaysKept ==
    ASSUME Circuits = {}
    PROVE  Spec => []PopulationIsKept
  <1>1. Init => MainHaveIds /\ EnoughIds /\ KeptWhileWaiting
    <2> SUFFICES ASSUME Init PROVE MainHaveIds /\ EnoughIds /\ KeptWhileWaiting
      OBVIOUS
    <2> DEFINE n == IF Closed THEN InitUsers ELSE 0
    <2>1. /\ free = [i \in 1..n |-> i] /\ n \in Nat /\ users = n /\ phase = "refill"
          /\ calls = <<>>
      BY UsersAssumption DEF Init, UsersAssumption
    <2> HIDE DEF n
    <2>2. Len(free) = n
      <3>1. free \in [1..n -> Nat]
        BY <2>1
      <3>2. free \in Seq(Nat)
        BY <2>1, <3>1, SeqDef
      <3> QED BY <2>1, <3>2, LenProperties
    <2>3. LiveMain \in Nat
      BY <2>1, LiveMainType DEF TableTypes
    <2> QED BY <2>1, <2>2, <2>3 DEF MainHaveIds, EnoughIds, KeptWhileWaiting
  <1>2. IInv /\ MainHaveIds /\ EnoughIds /\ [Next]_vars => MainHaveIds' /\ EnoughIds'
    BY StepEffect, EffectKeepsPopulation
  <1>3. IInv /\ EnoughIds /\ KeptWhileWaiting /\ [Next]_vars => KeptWhileWaiting'
    BY WaitsWhenKept
  <1>4. KeptWhileWaiting => PopulationIsKept
    BY DEF KeptWhileWaiting, PopulationIsKept
  <1> QED BY <1>1, <1>2, <1>3, <1>4, PoolInvariantHolds, PTL DEF Spec

\* Every call that was created has been counted successful or failed, or is live,
\* whichever way it left the table, but for those a reset found live, those refused
\* a circuit and those a PING removed (start_call, complete_call, fail_call,
\* close_calls, on_unexpected_ping).
THEOREM CountsAlwaysAgree == Spec => []CountsAgree
  <1>1. Init => Balanced
    <2> SUFFICES ASSUME Init PROVE Balanced
      OBVIOUS
    <2>1. calls = <<>> /\ created = 0 /\ ended = 0 /\ aside = 0
      BY DEF Init
    <2>2. MainOf(calls) = {}
      BY <2>1 DEF MainOf
    <2>3. LiveMain = 0
      BY <2>2, FS_EmptySet DEF LiveMain
    <2>4. Balance = 0 /\ 0 * Wrap = 0
      BY <2>1, <2>3, CounterType DEF Balance
    <2> QED BY <2>4 DEF Balanced
  <1>2. IInv /\ Balanced /\ [Next]_vars => Balanced'
    BY StepEffect, EffectKeepsBalance
  <1>3. IInv /\ Balanced => CountsAgree
    <2> SUFFICES ASSUME IInv, Balanced PROVE CountsAgree
      OBVIOUS
    <2>1. /\ created \in Nat /\ ended \in Nat /\ aside \in Nat /\ LiveMain \in Nat
      BY LiveMainType, CounterType DEF IInv, Ids, LoopTypes
    <2>2. PICK k \in Int : Balance = k * Wrap
      BY DEF Balanced
    <2>3. created + aside - ended \in Int /\ (created + aside - ended) - LiveMain = k * Wrap
      BY <2>1, <2>2 DEF Balance
    <2> QED BY <2>1, <2>3, SameRest DEF CountsAgree
  <1> QED BY <1>1, <1>2, <1>3, PoolInvariantHolds, PTL DEF Spec

\* Unless a stop leaves a place that opens calls open, the run never ends with a
\* call neither successful nor failed (run_loop, fail_all).
THEOREM NoCallIsEverAbandoned ==
    ASSUME StopsAreFinal
    PROVE  Spec => []NoCallIsAbandoned
  <1>1. Init => HaltInv
    BY DEF Init, HaltInv
  <1>2. IInv /\ HaltInv /\ [Next]_vars => HaltInv'
    BY NextHalts
  <1>3. HaltInv => NoCallIsAbandoned
    <2>1. ASSUME DOMAIN calls = {} PROVE LiveMain = 0
      <3>1. MainOf(calls) = {}
        BY <2>1 DEF MainOf
      <3> QED BY <3>1, FS_EmptySet DEF LiveMain
    <2> QED BY <2>1 DEF HaltInv, NoCallIsAbandoned
  <1> QED BY <1>1, <1>2, <1>3, PoolInvariantHolds, PTL DEF Spec

-----------------------------------------------------------------------------
(* The names of circuits (TdmMap).                                         *)

CircuitMap(Width) == INSTANCE TdmMap

LEMMA Divided ==
    ASSUME NEW n \in Nat, NEW b \in Nat \ {0}
    PROVE  n \div b \in Nat /\ n % b \in 0..b - 1 /\ n = b * (n \div b) + (n % b)
  OBVIOUS

LEMMA Composed ==
    ASSUME NEW q \in Nat, NEW b \in Nat \ {0}, NEW r \in 0..b - 1
    PROVE  (b * q + r) \div b = q /\ (b * q + r) % b = r
  OBVIOUS

\* A number of two digits, the lower one below b.
LEMMA TwoDigits ==
    ASSUME NEW a \in Nat, NEW b \in Nat \ {0}, NEW p \in Nat, NEW r \in 0..b - 1
    PROVE  b * p + r \in Nat /\ (b * p + r < a * b <=> p < a)
  <1>1. b * p \in Nat /\ a * b \in Nat
    OBVIOUS
  <1>2. ASSUME p < a PROVE b * p + r < a * b
    <2>1. PICK k \in Nat : a = p + 1 + k
      <3>1. a - p - 1 \in Nat /\ a = p + 1 + (a - p - 1)
        BY <1>2
      <3> QED BY <3>1
    <2>2. a * b = b * p + b + k * b /\ k * b \in Nat
      BY <2>1
    <2> QED BY <1>1, <2>2
  <1>3. ASSUME ~(p < a) PROVE ~(b * p + r < a * b)
    <2>1. PICK k \in Nat : p = a + k
      <3>1. p - a \in Nat /\ p = a + (p - a)
        BY <1>3
      <3> QED BY <3>1
    <2>2. b * p = a * b + b * k /\ b * k \in Nat
      BY <2>1
    <2> QED BY <1>1, <2>2
  <1> QED BY <1>1, <1>2, <1>3

\* The number of the circuit with three digits.
Number(m, p, q, r) == (m.c + 1) * ((m.b + 1) * p + q) + r

\* The circuit of three digits has them for its name.
LEMMA NameOfDigits ==
    ASSUME NEW W, 2 ^ W \in Nat, NEW m \in [{"x", "a", "y", "b", "z", "c"} -> Nat],
           (m.a + 1) * (m.b + 1) * (m.c + 1) < 2 ^ W,
           NEW p \in 0..m.a, NEW q \in 0..m.b, NEW r \in 0..m.c
    PROVE  LET i == Number(m, p, q, r)
           IN  /\ i \in 0..CircuitMap(W)!Circuits(m) - 1
               /\ CircuitMap(W)!Circuit(m, i) = <<m.x + p, m.y + q, m.z + r>>
  <1> DEFINE a == m.a + 1
             b == m.b + 1
             c == m.c + 1
             h == (m.b + 1) * p + q
             i == Number(m, p, q, r)
             l == c * q + r
             bc == b * c
             M == 2 ^ W
  <1>0. /\ m.x \in Nat /\ m.y \in Nat /\ m.z \in Nat
        /\ m.a \in Nat /\ m.b \in Nat /\ m.c \in Nat
    OBVIOUS
  <1>1. /\ a \in Nat \ {0} /\ b \in Nat \ {0} /\ c \in Nat \ {0}
        /\ p \in 0..a - 1 /\ q \in 0..b - 1 /\ r \in 0..c - 1
        /\ p \in Nat /\ q \in Nat /\ r \in Nat
    BY <1>0
  <1>2. M \in Nat /\ a * b * c < M /\ h = b * p + q /\ i = c * h + r
    BY DEF Number
  <1>3. CircuitMap(W)!Circuits(m) = (((a * b) % M) * c) % M
    BY DEF CircuitMap!Circuits, CircuitMap!Times
  <1>4. CircuitMap(W)!Circuit(m, i) =
            <<m.x + ((i \div (bc % M)) % a), m.y + ((i \div c) % b), m.z + (i % c)>>
    BY DEF CircuitMap!Circuit, CircuitMap!Times
  <1> HIDE DEF a, b, c, h, i, M
  <1>5. a * b \in Nat /\ bc \in Nat /\ a * b * c \in Nat
    BY <1>1
  <1>6. a * b <= a * b * c /\ bc <= a * b * c
    <2>1. \A s \in Nat, t \in Nat \ {0} : s <= s * t
      <3> SUFFICES ASSUME NEW s \in Nat, NEW t \in Nat \ {0} PROVE s <= s * t
        OBVIOUS
      <3>1. PICK k \in Nat : t = k + 1
        <4>1. t - 1 \in Nat /\ t = (t - 1) + 1
          OBVIOUS
        <4> QED BY <4>1
      <3>2. s * t = s * k + s /\ s * k \in Nat
        BY <3>1
      <3> QED BY <3>2
    <2>2. a * b <= (a * b) * c /\ bc <= bc * a
      <3> HIDE DEF bc
      <3> QED BY <1>1, <1>5, <2>1
    <2>3. bc * a = a * b * c
      BY <1>1
    <2> QED BY <2>2, <2>3
  <1>7. (a * b) % M = a * b /\ bc % M = bc /\ (a * b * c) % M = a * b * c
    <2> HIDE DEF bc
    <2>1. \A s \in Nat : s < M => s % M = s
      BY <1>2
    <2>2. a * b < M /\ bc < M
      BY <1>2, <1>5, <1>6
    <2> QED BY <1>2, <1>5, <2>1, <2>2
  <1>8. CircuitMap(W)!Circuits(m) = a * b * c
    BY <1>3, <1>7
  <1>9. h \in Nat /\ h < a * b
    BY <1>1, <1>2, TwoDigits
  <1>10. i \in Nat /\ i < a * b * c
    <2> DEFINE ab == a * b
    <2>1. ab \in Nat /\ h < ab
      BY <1>5, <1>9
    <2> HIDE DEF ab
    <2>2. c * h + r \in Nat /\ c * h + r < ab * c
      BY <1>1, <1>9, <2>1, TwoDigits
    <2> QED BY <1>2, <2>2 DEF ab
  <1>11. i \div c = h /\ i % c = r
    BY <1>1, <1>2, <1>9, Composed
  <1>12. h % b = q
    BY <1>1, <1>2, Composed
  <1>13. i \div bc = p
    <2>1. l \in Nat /\ l < b * c
      BY <1>1, TwoDigits
    <2>2. i = bc * p + l
      BY <1>1, <1>2
    <2>3. bc \in Nat \ {0} /\ l \in 0..bc - 1
      BY <1>5, <2>1
    <2> HIDE DEF bc, l
    <2> QED BY <1>1, <2>2, <2>3, Composed
  <1>14. p % a = p
    BY <1>1
  <1>15. CircuitMap(W)!Circuit(m, i) = <<m.x + p, m.y + q, m.z + r>>
    BY <1>4, <1>7, <1>11, <1>12, <1>13, <1>14
  <1>16. i \in 0..CircuitMap(W)!Circuits(m) - 1
    BY <1>5, <1>8, <1>10
  <1> QED BY <1>15, <1>16 DEF i

\* Every circuit of the map is the one of three digits.
LEMMA DigitsOfCircuit ==
    ASSUME NEW W, 2 ^ W \in Nat, NEW m \in [{"x", "a", "y", "b", "z", "c"} -> Nat],
           (m.a + 1) * (m.b + 1) * (m.c + 1) < 2 ^ W,
           NEW i \in 0..CircuitMap(W)!Circuits(m) - 1
    PROVE  \E p \in 0..m.a, q \in 0..m.b, r \in 0..m.c :
               i = Number(m, p, q, r)
  <1> DEFINE a == m.a + 1
             b == m.b + 1
             c == m.c + 1
             ab == a * b
             M == 2 ^ W
             h == i \div c
             p == h \div b
  <1>0. m.a \in Nat /\ m.b \in Nat /\ m.c \in Nat
    OBVIOUS
  <1>1. a \in Nat \ {0} /\ b \in Nat \ {0} /\ c \in Nat \ {0}
    BY <1>0
  <1>2. M \in Nat /\ ab * c < M
    OBVIOUS
  <1>3. CircuitMap(W)!Circuits(m) = ((ab % M) * c) % M
    BY DEF CircuitMap!Circuits, CircuitMap!Times
  <1>4. i \in Nat /\ i < ab * c
    <2> HIDE DEF M, a, b, c
    <2>1. ab \in Nat
      BY <1>1
    <2> HIDE DEF ab
    <2>2. ab * c \in Nat /\ ab <= ab * c
      <3>1. PICK k \in Nat : c = k + 1
        <4>1. c - 1 \in Nat /\ c = (c - 1) + 1
          BY <1>1
        <4> QED BY <4>1
      <3>2. ab * c = ab * k + ab /\ ab * k \in Nat
        BY <2>1, <3>1
      <3> QED BY <2>1, <3>2
    <2>3. \A s \in Nat : s < M => s % M = s
      BY <1>2
    <2>4. ab % M = ab /\ (ab * c) % M = ab * c
      BY <1>2, <2>1, <2>2, <2>3
    <2> QED BY <1>3, <2>2, <2>4
  <1> HIDE DEF M, a, b, c
  <1>5. h \in Nat /\ i % c \in 0..c - 1 /\ i = c * h + (i % c)
    BY <1>1, <1>4, Divided
  <1>6. h < ab
    <2>1. ab \in Nat
      BY <1>1
    <2> HIDE DEF ab, h
    <2> QED BY <1>1, <1>4, <1>5, <2>1, TwoDigits
  <1> HIDE DEF h
  <1>7. p \in Nat /\ h % b \in 0..b - 1 /\ h = b * p + (h % b)
    BY <1>1, <1>5, Divided
  <1>8. p < a
    <2> HIDE DEF p
    <2> QED BY <1>1, <1>6, <1>7, TwoDigits
  <1> HIDE DEF p
  <1>9. p \in 0..m.a /\ h % b \in 0..m.b /\ i % c \in 0..m.c
    BY <1>0, <1>5, <1>7, <1>8 DEF a, b, c
  <1> DEFINE q == h % b
             r == i % c
  <1>10. i = Number(m, p, q, r)
    BY <1>5, <1>7 DEF b, c, Number
  <1> HIDE DEF q, r
  <1> QED BY <1>9, <1>10 DEF q, r

\* In any map of circuits whose number a count can hold, two circuits never have one
\* name, and every name of the map's ranges is some circuit's (TdmMap, circuit): what
\* makes a circuit's name a call's own while the call holds the circuit.  That 2 ^ W is
\* a number is a hypothesis only because no prover computes powers.
THEOREM CircuitsAreAlwaysTold ==
    ASSUME NEW W \in Nat, 2 ^ W \in Nat, NEW m \in [{"x", "a", "y", "b", "z", "c"} -> Nat]
    PROVE  CircuitMap(W)!CircuitsHaveTheirOwnNames(m)
  <1> DEFINE N == CircuitMap(W)!Circuits(m)
             Name(i) == CircuitMap(W)!Circuit(m, i)
             Names == (m.x .. m.x + m.a) \X (m.y .. m.y + m.b) \X (m.z .. m.z + m.c)
  <1> SUFFICES ASSUME (m.a + 1) * (m.b + 1) * (m.c + 1) < 2 ^ W
               PROVE  /\ \A i, j \in 0 .. N - 1 : Name(i) = Name(j) => i = j
                      /\ {Name(i) : i \in 0 .. N - 1} = Names
    BY DEF CircuitMap!CircuitsHaveTheirOwnNames
  <1>0. /\ m.x \in Nat /\ m.y \in Nat /\ m.z \in Nat
        /\ m.a \in Nat /\ m.b \in Nat /\ m.c \in Nat
    OBVIOUS
  <1>1. \A p \in 0..m.a, q \in 0..m.b, r \in 0..m.c :
            Number(m, p, q, r) \in 0..N - 1 /\ Name(Number(m, p, q, r)) = <<m.x + p, m.y + q, m.z + r>>
    BY NameOfDigits
  <1>2. ASSUME NEW i \in 0..N - 1
        PROVE  \E p \in 0..m.a, q \in 0..m.b, r \in 0..m.c : i = Number(m, p, q, r)
    BY DigitsOfCircuit
  <1> HIDE DEF N, Name
  <1>3. ASSUME NEW i \in 0..N - 1, NEW j \in 0..N - 1, Name(i) = Name(j) PROVE i = j
    <2>1. PICK p \in 0..m.a, q \in 0..m.b, r \in 0..m.c : i = Number(m, p, q, r)
      BY <1>2
    <2>2. PICK s \in 0..m.a, t \in 0..m.b, u \in 0..m.c : j = Number(m, s, t, u)
      BY <1>2
    <2>3. <<m.x + p, m.y + q, m.z + r>> = <<m.x + s, m.y + t, m.z + u>>
      BY <1>1, <1>3, <2>1, <2>2
    <2>4. p = s /\ q = t /\ r = u
      BY <1>0, <2>3
    <2> QED BY <2>1, <2>2, <2>4
  <1>4. ASSUME NEW i \in 0..N - 1 PROVE Name(i) \in Names
    <2>1. PICK p \in 0..m.a, q \in 0..m.b, r \in 0..m.c : i = Number(m, p, q, r)
      BY <1>2
    <2>2. Name(i) = <<m.x + p, m.y + q, m.z + r>>
      BY <1>1, <2>1
    <2>3. m.x + p \in m.x .. m.x + m.a /\ m.y + q \in m.y .. m.y + m.b /\ m.z + r \in m.z .. m.z + m.c
      BY <1>0
    <2> QED BY <2>2, <2>3
  <1>5. ASSUME NEW name \in Names PROVE \E i \in 0..N - 1 : name = Name(i)
    <2>1. PICK u \in m.x .. m.x + m.a, v \in m.y .. m.y + m.b, w \in m.z .. m.z + m.c :
              name = <<u, v, w>>
      OBVIOUS
    <2>2. u - m.x \in 0..m.a /\ v - m.y \in 0..m.b /\ w - m.z \in 0..m.c
      BY <1>0
    <2>3. name = <<m.x + (u - m.x), m.y + (v - m.y), m.z + (w - m.z)>>
      BY <1>0, <2>1
    <2> QED BY <1>1, <2>2, <2>3
  <1> HIDE DEF Names
  <1> QED BY <1>3, <1>4, <1>5
=============================================================================
