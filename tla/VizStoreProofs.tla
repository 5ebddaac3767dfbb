--------------------------- MODULE VizStoreProofs ---------------------------
(***************************************************************************)
(* Proofs about VizStore, for any set of transforms, writers and streams   *)
(* and any capacity of the channel. The idea of the first part: of a       *)
(* transform that a subscriber missed nothing of, at most one writer still *)
(* has changes to send, and whichever change is last under way, in a       *)
(* writer's hands or in the channel, brings the transform the store has    *)
(* now. The second part counts: every step moves an announcement from one  *)
(* of the three places it can be in to the next, so the total stays what   *)
(* the map says.                                                           *)
(***************************************************************************)
EXTENDS VizStore, Counting, SequenceTheorems, TLAPS

\* No change of u follows the one at place i of the channel.
LastOf(u, i) == \A j \in DOMAIN changeChan : j > i => changeChan[j].uuid /= u

Coming(s, u) ==
  /\ \A w, x \in Writer : w \in Unsent(u) /\ x \in Unsent(u) => w = x
  /\ \A w \in Writer : \A c \in pending[w] :
       c.uuid = u => c.transform = transforms[u]
  /\ Unsent(u) = {} =>
       \A i \in DOMAIN changeChan :
         changeChan[i].uuid = u /\ LastOf(u, i) => changeChan[i].transform = transforms[u]
  /\ Settled(u) => view[s][u] = transforms[u]

AllComing == \A s \in Subscriber : \A u \in Uuid : u \notin missed[s] => Coming(s, u)

Inv == TypeOK /\ AllComing

-----------------------------------------------------------------------------

LEMMA InitEstablishes == Init => Inv
<1> SUFFICES ASSUME Init PROVE Inv
  OBVIOUS
<1>1. Version # {} /\ Absent \in Version
  BY BoundAssumption DEF Version, Absent
<1>2. TypeOK
  BY <1>1, BoundAssumption DEF Init, TypeOK, Version, Absent
<1>3. AllComing
  BY DEF Init, AllComing, Coming, Settled, Unsent, Queued, Absent
<1>4. QED
  BY <1>2, <1>3 DEF Inv

\* A call leaves the lock with changes that bring what the map now holds, for
\* every transform it touched.
LEMMA UnlockKeeps ==
  ASSUME Inv, NEW w \in Writer, NEW C \in SUBSET Change, pending[w] = {},
         Unlock(w, C),
         transforms' \in [Uuid -> Version], sets' \in Version,
         todo' \in [Writer -> SUBSET Uuid],
         \A c \in C : c.transform = transforms'[c.uuid],
         \A u \in Uuid : (\A c \in C : c.uuid /= u) => transforms'[u] = transforms[u]
  PROVE  Inv'
<1> DEFINE U == {c.uuid : c \in C} \intersect RacedBy(w)
<1>1. U \subseteq Uuid
  BY DEF RacedBy
<1>2. /\ pending' = [pending EXCEPT ![w] = C]
      /\ missed' = [s \in Subscriber |-> missed[s] \union U]
      /\ UNCHANGED <<changeChan, view, fetching, dropped, balance>>
  BY DEF Unlock, AllMiss
<1> HIDE DEF U
<1>3. TypeOK'
  <2>1. pending' \in [Writer -> SUBSET Change]
    BY <1>2 DEF Inv, TypeOK
  <2>2. missed' \in [Subscriber -> SUBSET Uuid]
    BY <1>1, <1>2 DEF Inv, TypeOK
  <2>3. QED
    BY <1>2, <2>1, <2>2 DEF Inv, TypeOK, Change
<1>4. ASSUME NEW s \in Subscriber, NEW u \in Uuid, u \notin missed'[s]
      PROVE  Coming(s, u)'
  <2>1. u \notin missed[s] /\ u \notin U
    BY <1>2, <1>4
  <2>2. Coming(s, u)
    BY <2>1 DEF Inv, AllComing
  <2>3. CASE \E c \in C : c.uuid = u
    <3>1. u \notin RacedBy(w)
      BY <2>1, <2>3 DEF U
    <3>2. \A x \in Writer : x /= w => \A c \in pending[x] : c.uuid /= u
      BY <3>1 DEF RacedBy, Unsent
    <3>3. pending'[w] = C /\ \A x \in Writer : x /= w => pending'[x] = pending[x]
      BY <1>2 DEF Inv, TypeOK
    <3>4. \A x \in Writer : x \in Unsent(u)' <=> x = w
      BY <2>3, <3>2, <3>3 DEF Unsent
    <3>5. \A x \in Writer : \A c \in pending'[x] :
            c.uuid = u => c.transform = transforms'[u]
      BY <3>2, <3>3
    <3>6. QED
      BY <3>4, <3>5 DEF Coming, Settled
  <2>4. CASE \A c \in C : c.uuid /= u
    <3>1. pending'[w] = C /\ \A x \in Writer : x /= w => pending'[x] = pending[x]
      BY <1>2 DEF Inv, TypeOK
    <3>2. transforms'[u] = transforms[u]
      BY <2>4
    <3>3. Unsent(u)' = Unsent(u)
      BY <2>4, <3>1 DEF Unsent
    <3>4. \A x \in Writer : \A c \in pending'[x] :
            c.uuid = u => c.transform = transforms'[u]
      BY <2>2, <2>4, <3>1, <3>2 DEF Coming
    <3>5. QED
      BY <1>2, <2>2, <3>2, <3>3, <3>4 DEF Coming, Settled, Queued, LastOf
  <2>5. QED
    BY <2>3, <2>4
<1>5. QED
  BY <1>3, <1>4 DEF Inv, AllComing

LEMMA SetKeeps ==
  ASSUME Inv, NEW w \in Writer, NEW u \in Uuid, Set(w, u)
  PROVE  Inv'
<1> DEFINE c == [type |-> IF u \in Present THEN "UPDATED" ELSE "ADDED",
                 uuid |-> u, transform |-> sets + 1]
<1>1. sets + 1 \in Version
  BY BoundAssumption DEF Set, Inv, TypeOK, Version
<1>2. {c} \in SUBSET Change /\ c.uuid = u /\ c.transform = sets + 1
  BY <1>1 DEF Change
<1>3. /\ pending[w] = {} /\ Unlock(w, {c})
      /\ transforms' = [transforms EXCEPT ![u] = sets + 1]
      /\ sets' = sets + 1 /\ todo' = todo
  BY DEF Set, Idle
<1> HIDE DEF c
<1>4. /\ transforms' \in [Uuid -> Version] /\ transforms'[u] = sets + 1
      /\ \A v \in Uuid : v /= u => transforms'[v] = transforms[v]
      /\ todo' \in [Writer -> SUBSET Uuid]
  BY <1>1, <1>3 DEF Inv, TypeOK
<1>5. QED
  BY <1>1, <1>2, <1>3, <1>4, UnlockKeeps

LEMMA DropKeeps ==
  ASSUME Inv, NEW w \in Writer, NEW u \in Uuid, pending[w] = {}, Drop(w, u),
         todo' \in [Writer -> SUBSET Uuid]
  PROVE  Inv'
<1> DEFINE C == IF u \in Present THEN {Removed(u)} ELSE {}
<1>1. Absent \in Version
  BY BoundAssumption DEF Absent, Version
<1>2. Removed(u) \in Change /\ Removed(u).uuid = u /\ Removed(u).transform = Absent
  BY <1>1 DEF Removed, Change
<1>3. Unlock(w, C) /\ transforms' = [transforms EXCEPT ![u] = Absent] /\ sets' = sets
  BY DEF Drop
<1>4. /\ transforms' \in [Uuid -> Version] /\ transforms'[u] = Absent
      /\ \A v \in Uuid : v /= u => transforms'[v] = transforms[v]
      /\ sets' \in Version
      /\ u \notin Present => transforms[u] = Absent
  BY <1>1, <1>3 DEF Inv, TypeOK, Present
<1>5. /\ C \in SUBSET Change
      /\ \A c \in C : c.transform = transforms'[c.uuid]
      /\ \A v \in Uuid : (\A c \in C : c.uuid /= v) => transforms'[v] = transforms[v]
  BY <1>2, <1>4
<1> HIDE DEF C
<1>6. QED
  BY <1>3, <1>4, <1>5, UnlockKeeps

LEMMA ClearKeeps == ASSUME Inv, NEW w \in Writer, Clear(w) PROVE Inv'
<1> DEFINE C == {Removed(u) : u \in Present}
<1>1. Absent \in Version
  BY BoundAssumption DEF Absent, Version
<1>2. \A u \in Uuid : /\ Removed(u) \in Change
                      /\ Removed(u).uuid = u /\ Removed(u).transform = Absent
  BY <1>1 DEF Removed, Change
<1>3. /\ pending[w] = {} /\ Unlock(w, C) /\ sets' = sets /\ todo' = todo
      /\ transforms' = [u \in Uuid |-> Absent]
  BY DEF Clear, Idle
<1>4. /\ transforms' \in [Uuid -> Version]
      /\ \A u \in Uuid : transforms'[u] = Absent /\ (u \notin Present => transforms[u] = Absent)
      /\ sets' \in Version /\ todo' \in [Writer -> SUBSET Uuid]
  BY <1>1, <1>3 DEF Inv, TypeOK, Present
<1>5. /\ C \in SUBSET Change
      /\ \A c \in C : c.transform = transforms'[c.uuid]
      /\ \A v \in Uuid : (\A c \in C : c.uuid /= v) => transforms'[v] = transforms[v]
  BY <1>2, <1>4 DEF Present
<1> HIDE DEF C
<1>6. QED
  BY <1>3, <1>4, <1>5, UnlockKeeps

\* A change sent is the last of its transform in the channel; one dropped is
\* missed by all.
LEMMA EmitKeeps == ASSUME Inv, NEW w \in Writer, Emit(w) PROVE Inv'
<1>1. PICK c \in pending[w] :
        /\ pending' = [pending EXCEPT ![w] = @ \ {c}]
        /\ IF Len(changeChan) < BufferSize THEN Enqueue(c) ELSE Discard(c)
        /\ UNCHANGED <<transforms, sets, todo, view, fetching>>
  BY DEF Emit
<1>2. /\ c \in Change /\ c.uuid \in Uuid /\ changeChan \in Seq(Change)
      /\ pending'[w] = pending[w] \ {c}
      /\ \A x \in Writer : x /= w => pending'[x] = pending[x]
      /\ pending' \in [Writer -> SUBSET Change]
  BY <1>1 DEF Inv, TypeOK, Change
<1>3. \A u \in Uuid : /\ Unsent(u)' \subseteq Unsent(u)
                      /\ u /= c.uuid => Unsent(u)' = Unsent(u)
  BY <1>2 DEF Unsent
<1>4. CASE Len(changeChan) < BufferSize
  <2>1. /\ changeChan' = Append(changeChan, c)
        /\ UNCHANGED <<missed, dropped, balance>>
    BY <1>1, <1>4 DEF Enqueue
  <2> DEFINE n == Len(changeChan)
  <2>2. /\ n \in Nat /\ changeChan' \in Seq(Change) /\ Len(changeChan') = n + 1
        /\ DOMAIN changeChan = 1 .. n /\ DOMAIN changeChan' = 1 .. n + 1
        /\ changeChan'[n + 1] = c
        /\ \A i \in 1 .. n : changeChan'[i] = changeChan[i]
    BY <1>2, <2>1
  <2>3. TypeOK'
    BY <1>1, <1>2, <1>4, <2>1, <2>2, BoundAssumption DEF Inv, TypeOK
  <2> HIDE DEF n
  <2>4. ASSUME NEW s \in Subscriber, NEW u \in Uuid, u \notin missed'[s]
        PROVE  Coming(s, u)'
    <3>1. Coming(s, u)
      BY <2>1, <2>4 DEF Inv, AllComing
    <3>2. \A x \in Writer : \A d \in pending'[x] : d.uuid = u => d.transform = transforms'[u]
      BY <1>1, <1>2, <3>1 DEF Coming
    <3>3. Settled(u)' => c.uuid /= u /\ Settled(u)
      BY <1>3, <2>2 DEF Settled, Queued
    <3>4. ASSUME NEW i \in DOMAIN changeChan', changeChan'[i].uuid = u, LastOf(u, i)',
                 Unsent(u)' = {}
          PROVE  changeChan'[i].transform = transforms'[u]
      <4>1. CASE i = n + 1
        BY <1>1, <1>2, <2>2, <3>1, <3>4, <4>1 DEF Coming
      <4>2. CASE i /= n + 1
        <5>1. i \in 1 .. n /\ c.uuid /= u
          BY <2>2, <3>4, <4>2 DEF LastOf
        <5>2. LastOf(u, i)
          BY <2>2, <3>4, <5>1 DEF LastOf
        <5>3. QED
          BY <1>1, <1>3, <2>2, <3>1, <3>4, <5>1, <5>2 DEF Coming
      <4>3. QED
        BY <4>1, <4>2
    <3>5. QED
      BY <1>1, <1>3, <3>1, <3>2, <3>3, <3>4 DEF Coming
  <2>5. QED
    BY <2>3, <2>4 DEF Inv, AllComing
<1>5. CASE ~(Len(changeChan) < BufferSize)
  <2>1. /\ missed' = [s \in Subscriber |-> missed[s] \union {c.uuid}]
        /\ dropped' = dropped \union {c.uuid}
        /\ balance' = [balance EXCEPT ![c.uuid] = @ + Effect(c)]
        /\ changeChan' = changeChan
    BY <1>1, <1>5 DEF Discard, AllMiss, Spend
  <2>2. Effect(c) \in Int
    BY <1>2 DEF Effect, Change
  <2>3. TypeOK'
    <3>1. missed' \in [Subscriber -> SUBSET Uuid]
      BY <1>2, <2>1 DEF Inv, TypeOK
    <3>2. dropped' \subseteq Uuid
      BY <1>2, <2>1 DEF Inv, TypeOK
    <3>3. balance' \in [Uuid -> Int]
      BY <1>2, <2>1, <2>2 DEF Inv, TypeOK
    <3>4. QED
      BY <1>1, <1>2, <2>1, <3>1, <3>2, <3>3 DEF Inv, TypeOK
  <2>4. ASSUME NEW s \in Subscriber, NEW u \in Uuid, u \notin missed'[s]
        PROVE  Coming(s, u)'
    <3>1. u \notin missed[s] /\ u /= c.uuid
      BY <2>1, <2>4
    <3>2. Coming(s, u) /\ Unsent(u)' = Unsent(u)
      BY <1>3, <3>1 DEF Inv, AllComing
    <3>3. \A x \in Writer : \A d \in pending'[x] : d.uuid = u => d.transform = transforms'[u]
      BY <1>1, <1>2, <3>2 DEF Coming
    <3>4. QED
      BY <1>1, <2>1, <3>2, <3>3 DEF Coming, Settled, Queued, LastOf
  <2>5. QED
    BY <2>3, <2>4 DEF Inv, AllComing
<1>6. QED
  BY <1>4, <1>5

\* The stream that takes a change has seen it; the others missed it.
LEMMA ReceiveKeeps == ASSUME Inv, NEW s \in Subscriber, Receive(s) PROVE Inv'
<1> DEFINE c == Head(changeChan)
           n == Len(changeChan)
<1>1. /\ changeChan \in Seq(Change) /\ changeChan /= <<>>
      /\ changeChan' = Tail(changeChan)
      /\ view' = [view EXCEPT ![s][c.uuid] = c.transform]
      /\ missed' = [t \in Subscriber |-> IF t = s THEN missed[t]
                                         ELSE missed[t] \union {c.uuid}]
      /\ balance' = [balance EXCEPT ![c.uuid] = @ + Effect(c)]
      /\ UNCHANGED <<scene, fetching, dropped>>
  BY DEF Receive, Spend, Inv, TypeOK
<1>2. /\ c \in Change /\ c = changeChan[1]
      /\ n \in Nat /\ n >= 1 /\ Len(changeChan') = n - 1 /\ changeChan' \in Seq(Change)
      /\ DOMAIN changeChan = 1 .. n /\ DOMAIN changeChan' = 1 .. n - 1
      /\ \A i \in 1 .. n - 1 : changeChan'[i] = changeChan[i + 1]
  BY <1>1
<1> HIDE DEF c, n
<1>3. c.uuid \in Uuid /\ c.transform \in Version /\ Effect(c) \in Int
  BY <1>2 DEF Change, Effect
<1>4. TypeOK'
  <2>1. view' \in [Subscriber -> [Uuid -> Version]]
    BY <1>1, <1>3 DEF Inv, TypeOK
  <2>2. missed' \in [Subscriber -> SUBSET Uuid]
    BY <1>1, <1>3 DEF Inv, TypeOK
  <2>3. balance' \in [Uuid -> Int]
    BY <1>1, <1>3 DEF Inv, TypeOK
  <2>4. Len(changeChan') <= BufferSize
    BY <1>2, BoundAssumption DEF Inv, TypeOK, n
  <2>5. QED
    BY <1>1, <1>2, <2>1, <2>2, <2>3, <2>4 DEF Inv, TypeOK, scene
<1>5. ASSUME NEW t \in Subscriber, NEW u \in Uuid, u \notin missed'[t]
      PROVE  Coming(t, u)'
  <2>1. u \notin missed[t] /\ (u = c.uuid => t = s)
    BY <1>1, <1>5
  <2>2. /\ Coming(t, u) /\ Unsent(u)' = Unsent(u)
        /\ transforms' = transforms /\ pending' = pending
    BY <1>1, <2>1 DEF Inv, AllComing, Unsent, scene
  <2>3. ASSUME NEW i \in DOMAIN changeChan', changeChan'[i].uuid = u, LastOf(u, i)',
               Unsent(u) = {}
        PROVE  changeChan'[i].transform = transforms[u]
    <3>1. /\ i \in 1 .. n - 1 /\ i + 1 \in DOMAIN changeChan
          /\ changeChan'[i] = changeChan[i + 1]
      BY <1>2
    <3>2. LastOf(u, i + 1)
      <4> SUFFICES ASSUME NEW j \in DOMAIN changeChan, j > i + 1
                   PROVE  changeChan[j].uuid /= u
        BY DEF LastOf
      <4>1. j - 1 \in DOMAIN changeChan' /\ j - 1 > i /\ changeChan'[j - 1] = changeChan[j]
        BY <1>2, <3>1
      <4>2. QED
        BY <2>3, <4>1 DEF LastOf
    <3>3. QED
      BY <2>2, <2>3, <3>1, <3>2 DEF Coming
  <2>4. ASSUME Settled(u)' PROVE view'[t][u] = transforms[u]
    <3>1. Unsent(u) = {} /\ \A j \in DOMAIN changeChan : j > 1 => changeChan[j].uuid /= u
      <4>1. Unsent(u) = {} /\ \A j \in DOMAIN changeChan' : changeChan'[j].uuid /= u
        BY <2>2, <2>4 DEF Settled, Queued
      <4>2. \A j \in DOMAIN changeChan :
              j > 1 => j - 1 \in DOMAIN changeChan' /\ changeChan'[j - 1] = changeChan[j]
        BY <1>2
      <4>3. QED
        BY <4>1, <4>2
    <3>2. CASE u = c.uuid
      <4>1. c.transform = transforms[u]
        BY <1>2, <2>2, <3>1, <3>2 DEF Coming, LastOf
      <4>2. t = s /\ view'[t][u] = c.transform
        BY <1>1, <1>3, <2>1, <3>2 DEF Inv, TypeOK
      <4>3. QED
        BY <4>1, <4>2
    <3>3. CASE u /= c.uuid
      <4>1. Settled(u)
        <5>1. \A j \in DOMAIN changeChan : changeChan[j].uuid /= u
          BY <1>2, <3>1, <3>3
        <5>2. QED
          BY <3>1, <5>1 DEF Settled, Queued
      <4>2. view'[t][u] = view[t][u]
        BY <1>1, <1>3, <3>3 DEF Inv, TypeOK
      <4>3. QED
        BY <2>2, <4>1, <4>2 DEF Coming
    <3>4. QED
      BY <3>2, <3>3
  <2>5. QED
    BY <2>2, <2>3, <2>4 DEF Coming
<1>6. QED
  BY <1>4, <1>5 DEF Inv, AllComing

\* What a subscriber looks up is what the store has; it counts as known again
\* only when no change of it is under way.
LEMMA RefreshKeeps ==
  ASSUME Inv, NEW s \in Subscriber, NEW U \in SUBSET Uuid, Refreshed(s, U),
         UNCHANGED <<scene, changeChan, balance>>,
         view' \in [Subscriber -> [Uuid -> Version]],
         \A t \in Subscriber : \A u \in Uuid :
           view'[t][u] = IF t = s /\ u \in U THEN transforms[u] ELSE view[t][u],
         fetching' \in [Subscriber -> SUBSET Uuid], dropped' \subseteq Uuid
  PROVE  Inv'
<1>1. /\ missed' = [missed EXCEPT ![s] = {u \in @ : u \in U => ~Settled(u)}]
      /\ transforms' = transforms /\ pending' = pending /\ changeChan' = changeChan
      /\ sets' = sets /\ todo' = todo /\ balance' = balance
  BY DEF Refreshed, scene
<1>2. TypeOK'
  <2>1. missed' \in [Subscriber -> SUBSET Uuid]
    BY <1>1 DEF Inv, TypeOK
  <2>2. QED
    BY <1>1, <2>1 DEF Inv, TypeOK
<1>3. ASSUME NEW t \in Subscriber, NEW u \in Uuid, u \notin missed'[t]
      PROVE  Coming(t, u)'
  <2>1. u \in missed[t] => t = s /\ u \in U /\ Settled(u)
    BY <1>1, <1>3 DEF Inv, TypeOK
  <2>2. Settled(u)' = Settled(u) /\ Unsent(u)' = Unsent(u)
    BY <1>1 DEF Settled, Unsent, Queued
  <2>3. CASE u \in missed[t]
    BY <1>1, <2>1, <2>2, <2>3 DEF Coming, Settled, Unsent, Queued
  <2>4. CASE u \notin missed[t]
    <3>1. Coming(t, u)
      BY <2>4 DEF Inv, AllComing
    <3>2. QED
      BY <1>1, <2>2, <3>1 DEF Coming, LastOf
  <2>5. QED
    BY <2>3, <2>4
<1>4. QED
  BY <1>2, <1>3 DEF Inv, AllComing

LEMMA ListKeeps == ASSUME Inv, NEW s \in Subscriber, ListUUIDs(s) PROVE Inv'
<1>1. /\ fetching' = [fetching EXCEPT ![s] = Present]
      /\ view' = [view EXCEPT ![s] = [u \in Uuid |-> IF u \in Present THEN view[s][u]
                                                     ELSE Absent]]
      /\ Refreshed(s, Uuid \ Present) /\ dropped' = {}
      /\ UNCHANGED <<scene, changeChan, balance>>
  BY DEF ListUUIDs
<1>2. Absent \in Version /\ Present \subseteq Uuid
  BY BoundAssumption DEF Absent, Version, Present
<1>3. view' \in [Subscriber -> [Uuid -> Version]]
  BY <1>1, <1>2 DEF Inv, TypeOK
<1>4. \A t \in Subscriber : \A u \in Uuid :
        view'[t][u] = IF t = s /\ u \in Uuid \ Present THEN transforms[u] ELSE view[t][u]
  BY <1>1 DEF Inv, TypeOK, Present
<1>5. fetching' \in [Subscriber -> SUBSET Uuid]
  BY <1>1, <1>2 DEF Inv, TypeOK
<1>6. QED
  BY <1>1, <1>3, <1>4, <1>5, RefreshKeeps

LEMMA GetKeeps ==
  ASSUME Inv, NEW s \in Subscriber, NEW u \in Uuid, GetTransform(s, u)
  PROVE  Inv'
<1>1. /\ fetching' = [fetching EXCEPT ![s] = @ \ {u}]
      /\ view' = [view EXCEPT ![s][u] = transforms[u]]
      /\ Refreshed(s, {u}) /\ dropped' = dropped
      /\ UNCHANGED <<scene, changeChan, balance>>
  BY DEF GetTransform
<1>2. view' \in [Subscriber -> [Uuid -> Version]]
  BY <1>1 DEF Inv, TypeOK
<1>3. \A t \in Subscriber : \A v \in Uuid :
        view'[t][v] = IF t = s /\ v \in {u} THEN transforms[v] ELSE view[t][v]
  BY <1>1 DEF Inv, TypeOK
<1>4. fetching' \in [Subscriber -> SUBSET Uuid] /\ dropped' \subseteq Uuid
  BY <1>1 DEF Inv, TypeOK
<1>5. QED
  BY <1>1, <1>2, <1>3, <1>4, RefreshKeeps

\* A step that leaves alone all but the list of a "remove" command.
LEMMA TodoKeeps ==
  ASSUME Inv, todo' \in [Writer -> SUBSET Uuid],
         UNCHANGED <<transforms, sets, pending, changeChan, view, fetching, missed,
                     dropped, balance>>
  PROVE  Inv'
<1>1. TypeOK'
  BY DEF Inv, TypeOK
<1>2. ASSUME NEW s \in Subscriber, NEW u \in Uuid, u \notin missed'[s]
      PROVE  Coming(s, u)'
  <2>1. Coming(s, u)
    BY <1>2 DEF Inv, AllComing
  <2>2. QED
    BY <2>1 DEF Coming, Settled, Unsent, Queued, LastOf
<1>3. QED
  BY <1>1, <1>2 DEF Inv, AllComing

LEMMA InvCorrect == Spec => []Inv
<1>1. Inv /\ [Next]_vars => Inv'
  <2> SUFFICES ASSUME Inv, [Next]_vars PROVE Inv'
    OBVIOUS
  <2>1. ASSUME NEW w \in Writer, Clear(w) PROVE Inv'
    BY <2>1, ClearKeeps
  <2>2. ASSUME NEW w \in Writer, RemoveNext(w) PROVE Inv'
    <3>1. PICK u \in todo[w] : Drop(w, u) /\ todo' = [todo EXCEPT ![w] = @ \ {u}]
      BY <2>2 DEF RemoveNext
    <3>2. u \in Uuid /\ todo' \in [Writer -> SUBSET Uuid] /\ pending[w] = {}
      BY <2>2, <3>1 DEF RemoveNext, Inv, TypeOK
    <3>3. QED
      BY <3>1, <3>2, DropKeeps
  <2>3. ASSUME NEW w \in Writer, Emit(w) PROVE Inv'
    BY <2>3, EmitKeeps
  <2>4. ASSUME NEW w \in Writer, NEW u \in Uuid, Set(w, u) PROVE Inv'
    BY <2>4, SetKeeps
  <2>5. ASSUME NEW w \in Writer, NEW u \in Uuid, Remove(w, u) PROVE Inv'
    <3>1. pending[w] = {} /\ Drop(w, u) /\ todo' \in [Writer -> SUBSET Uuid]
      BY <2>5 DEF Remove, Idle, Inv, TypeOK
    <3>2. QED
      BY <3>1, DropKeeps
  <2>6. ASSUME NEW w \in Writer, NEW U \in SUBSET Uuid, RemoveAll(w, U) PROVE Inv'
    <3>1. todo' \in [Writer -> SUBSET Uuid]
      BY <2>6 DEF RemoveAll, Inv, TypeOK
    <3>2. QED
      BY <2>6, <3>1, TodoKeeps DEF RemoveAll
  <2>7. ASSUME NEW s \in Subscriber, Receive(s) PROVE Inv'
    BY <2>7, ReceiveKeeps
  <2>8. ASSUME NEW s \in Subscriber, ListUUIDs(s) PROVE Inv'
    BY <2>8, ListKeeps
  <2>9. ASSUME NEW s \in Subscriber, NEW u \in Uuid, GetTransform(s, u) PROVE Inv'
    BY <2>9, GetKeeps
  <2>10. CASE UNCHANGED vars
    <3>1. todo' \in [Writer -> SUBSET Uuid]
      BY <2>10 DEF vars, scene, Inv, TypeOK
    <3>2. QED
      BY <2>10, <3>1, TodoKeeps DEF vars, scene
  <2>11. QED
    BY <2>1, <2>2, <2>3, <2>4, <2>5, <2>6, <2>7, <2>8, <2>9, <2>10 DEF Next
<1>2. QED
  BY <1>1, InitEstablishes, PTL DEF Spec

-----------------------------------------------------------------------------

\* The store's variables keep their types, and the channel its capacity.
THEOREM StoreTyped == Spec => []TypeOK
<1>1. Inv => TypeOK
  BY DEF Inv
<1>2. QED
  BY <1>1, InvCorrect, PTL

\* However many writers race and streams compete, a subscriber's view of a
\* transform it missed no change of is the store's own (store.go:32-53).
THEOREM ViewsAgree == Spec => []ViewAgrees
<1>1. Inv => ViewAgrees
  BY DEF Inv, AllComing, Coming, ViewAgrees
<1>2. QED
  BY <1>1, InvCorrect, PTL

-----------------------------------------------------------------------------
(***************************************************************************)
(* What was announced and what is under way add up to what the store has.  *)
(***************************************************************************)

Announces == {"ADDED", "REMOVED"}

AddsUp(u) ==
  /\ \A t \in Announces : IsFiniteSet(Held(t, u))
  /\ balance[u] + UnderWay("ADDED", u) - UnderWay("REMOVED", u)
       = IF u \in Present THEN 1 ELSE 0

AllAddUp == \A u \in Uuid : AddsUp(u)

LEMMA WaitingIs ==
  ASSUME changeChan \in Seq(Change), NEW t, NEW u
  PROVE  /\ IsFiniteSet(Waiting(t, u)) /\ Cardinality(Waiting(t, u)) \in Nat
         /\ Waiting(t, u) \in SUBSET (1 .. Len(changeChan))
<1>1. DOMAIN changeChan = 1 .. Len(changeChan) /\ Len(changeChan) \in Nat
  OBVIOUS
<1>2. IsFiniteSet(1 .. Len(changeChan))
  BY <1>1, FS_Interval
<1>3. Waiting(t, u) \in SUBSET (1 .. Len(changeChan))
  BY <1>1 DEF Waiting
<1>4. QED
  BY <1>2, <1>3, FS_Subset, FS_CardinalityType

LEMMA InitAddsUp == ASSUME Init PROVE AllAddUp
<1> SUFFICES ASSUME NEW u \in Uuid PROVE AddsUp(u)
  BY DEF AllAddUp
<1>1. \A t : Waiting(t, u) = {} /\ Held(t, u) = {}
  BY DEF Init, Waiting, Held
<1>2. balance[u] = 0 /\ u \notin Present
  BY DEF Init, Present
<1>3. QED
  BY <1>1, <1>2, FS_EmptySet DEF AddsUp, UnderWay

\* A call leaves with at most one change of each transform.
LEMMA UnlockHolds ==
  ASSUME TypeOK, NEW w \in Writer, NEW C \in SUBSET Change, pending[w] = {},
         Unlock(w, C), \A c, d \in C : c.uuid = d.uuid => c = d,
         NEW t, NEW u \in Uuid, IsFiniteSet(Held(t, u))
  PROVE  /\ IsFiniteSet(Held(t, u)') /\ Waiting(t, u)' = Waiting(t, u)
         /\ (\E c \in C : c.uuid = u /\ c.type = t) =>
              Cardinality(Held(t, u)') = Cardinality(Held(t, u)) + 1
         /\ ~(\E c \in C : c.uuid = u /\ c.type = t) =>
              Cardinality(Held(t, u)') = Cardinality(Held(t, u))
<1>1. /\ pending'[w] = C /\ \A x \in Writer : x /= w => pending'[x] = pending[x]
      /\ changeChan' = changeChan
  BY DEF Unlock, TypeOK
<1>2. Waiting(t, u)' = Waiting(t, u)
  BY <1>1 DEF Waiting
<1>3. CASE \E c \in C : c.uuid = u /\ c.type = t
  <2>1. PICK c \in C : c.uuid = u /\ c.type = t
    BY <1>3
  <2>2. Held(t, u)' = Held(t, u) \union {<<w, c>>}
    <3>1. ASSUME NEW x \in Writer, NEW d \in Change, d.type = t, d.uuid = u
          PROVE  d \in pending'[x] <=> d \in pending[x] \/ (x = w /\ d = c)
      BY <1>1, <2>1, <3>1
    <3>2. QED
      BY <2>1, <3>1 DEF Held
  <2>3. <<w, c>> \notin Held(t, u)
    BY DEF Held
  <2>4. QED
    BY <1>2, <1>3, <2>2, <2>3, FS_AddElement
<1>4. CASE ~(\E c \in C : c.uuid = u /\ c.type = t)
  <2>1. Held(t, u)' = Held(t, u)
    <3>1. ASSUME NEW x \in Writer, NEW d \in Change, d.type = t, d.uuid = u
          PROVE  d \in pending'[x] <=> d \in pending[x]
      BY <1>1, <1>4, <3>1
    <3>2. QED
      BY <3>1 DEF Held
  <2>2. QED
    BY <1>2, <1>4, <2>1
<1>5. QED
  BY <1>3, <1>4

\* It announces what it added to the map and what it removed.
LEMMA UnlockAddsUp ==
  ASSUME TypeOK, AllAddUp, NEW w \in Writer, NEW C \in SUBSET Change, pending[w] = {},
         Unlock(w, C), \A c, d \in C : c.uuid = d.uuid => c = d,
         \A u \in Uuid :
           /\ (\E c \in C : c.uuid = u /\ c.type = "ADDED")
                <=> u \notin Present /\ u \in Present'
           /\ (\E c \in C : c.uuid = u /\ c.type = "REMOVED")
                <=> u \in Present /\ u \notin Present'
  PROVE  AllAddUp'
<1> SUFFICES ASSUME NEW u \in Uuid PROVE AddsUp(u)'
  BY DEF AllAddUp
<1> DEFINE P == u \in Present
           Q == u \in Present'
           m(t) == Cardinality(Waiting(t, u))
           h(t) == Cardinality(Held(t, u))
<1>1. AddsUp(u) /\ balance' = balance /\ balance[u] \in Int
  BY DEF AllAddUp, Unlock, TypeOK
<1>2. ASSUME NEW t \in Announces
      PROVE  /\ m(t) \in Nat /\ h(t) \in Nat /\ IsFiniteSet(Held(t, u)')
             /\ m(t)' = m(t)
             /\ (\E c \in C : c.uuid = u /\ c.type = t) => h(t)' = h(t) + 1
             /\ ~(\E c \in C : c.uuid = u /\ c.type = t) => h(t)' = h(t)
  <2>1. IsFiniteSet(Held(t, u)) /\ changeChan \in Seq(Change)
    BY <1>1 DEF AddsUp, TypeOK
  <2>2. QED
    BY <2>1, UnlockHolds, WaitingIs, FS_CardinalityType
<1>3. balance[u] + (m("ADDED") + h("ADDED")) - (m("REMOVED") + h("REMOVED"))
        = IF P THEN 1 ELSE 0
  BY <1>1 DEF AddsUp, UnderWay
<1>4. /\ (\E c \in C : c.uuid = u /\ c.type = "ADDED") <=> ~P /\ Q
      /\ (\E c \in C : c.uuid = u /\ c.type = "REMOVED") <=> P /\ ~Q
  OBVIOUS
<1>5. balance'[u] + (m("ADDED")' + h("ADDED")') - (m("REMOVED")' + h("REMOVED")')
        = IF Q THEN 1 ELSE 0
  <2>1. /\ m("ADDED") \in Nat /\ m("ADDED")' = m("ADDED")
        /\ m("REMOVED") \in Nat /\ m("REMOVED")' = m("REMOVED")
        /\ h("ADDED") \in Nat /\ h("REMOVED") \in Nat
        /\ ~P /\ Q => h("ADDED")' = h("ADDED") + 1
        /\ ~(~P /\ Q) => h("ADDED")' = h("ADDED")
        /\ P /\ ~Q => h("REMOVED")' = h("REMOVED") + 1
        /\ ~(P /\ ~Q) => h("REMOVED")' = h("REMOVED")
    BY <1>2, <1>4 DEF Announces
  <2> HIDE DEF P, Q, m, h
  <2>2. QED
    BY <1>1, <1>3, <2>1
<1>6. QED
  BY <1>2, <1>5 DEF AddsUp, UnderWay

LEMMA SetAddsUp ==
  ASSUME TypeOK, AllAddUp, NEW w \in Writer, NEW u \in Uuid, Set(w, u)
  PROVE  AllAddUp'
<1> DEFINE c == [type |-> IF u \in Present THEN "UPDATED" ELSE "ADDED",
                 uuid |-> u, transform |-> sets + 1]
<1>1. sets + 1 \in Version /\ sets + 1 /= Absent
  BY BoundAssumption DEF Set, TypeOK, Version, Absent
<1>2. /\ {c} \in SUBSET Change /\ c.uuid = u
      /\ c.type = IF u \in Present THEN "UPDATED" ELSE "ADDED"
  BY <1>1 DEF Change
<1>3. /\ pending[w] = {} /\ Unlock(w, {c})
      /\ transforms' = [transforms EXCEPT ![u] = sets + 1]
  BY DEF Set, Idle
<1> HIDE DEF c
<1>4. u \in Present' /\ \A v \in Uuid : v /= u => (v \in Present' <=> v \in Present)
  BY <1>1, <1>3 DEF TypeOK, Present
<1>5. ASSUME NEW v \in Uuid
      PROVE  /\ (\E d \in {c} : d.uuid = v /\ d.type = "ADDED")
                  <=> v \notin Present /\ v \in Present'
             /\ (\E d \in {c} : d.uuid = v /\ d.type = "REMOVED")
                  <=> v \in Present /\ v \notin Present'
  BY <1>2, <1>4
<1>6. QED
  BY <1>2, <1>3, <1>5, UnlockAddsUp

\* What goes from the map is announced as removed, and nothing else.
LEMMA RemovalAddsUp ==
  ASSUME TypeOK, AllAddUp, NEW w \in Writer, NEW U \in SUBSET Present, pending[w] = {},
         Unlock(w, {Removed(u) : u \in U}), Present' = Present \ U
  PROVE  AllAddUp'
<1> DEFINE C == {Removed(u) : u \in U}
<1>1. Absent \in Version /\ U \in SUBSET Uuid
  BY BoundAssumption DEF Absent, Version, Present
<1>2. \A u \in U : /\ Removed(u) \in Change
                   /\ Removed(u).uuid = u /\ Removed(u).type = "REMOVED"
  BY <1>1 DEF Removed, Change
<1>3. /\ C \in SUBSET Change
      /\ \A c, d \in C : c.uuid = d.uuid => c = d
      /\ \A c \in C : c.uuid \in U /\ c.type = "REMOVED"
      /\ \A u \in U : \E c \in C : c.uuid = u
  BY <1>2
<1>4. Unlock(w, C)
  OBVIOUS
<1> HIDE DEF C
<1>5. ASSUME NEW u \in Uuid
      PROVE  /\ (\E c \in C : c.uuid = u /\ c.type = "ADDED")
                  <=> u \notin Present /\ u \in Present'
             /\ (\E c \in C : c.uuid = u /\ c.type = "REMOVED")
                  <=> u \in Present /\ u \notin Present'
  <2>1. u \in U => u \in Present
    OBVIOUS
  <2>2. QED
    BY <1>3, <2>1
<1>6. QED
  BY <1>3, <1>4, <1>5, UnlockAddsUp

LEMMA DropAddsUp ==
  ASSUME TypeOK, AllAddUp, NEW w \in Writer, NEW u \in Uuid, pending[w] = {}, Drop(w, u)
  PROVE  AllAddUp'
<1> DEFINE U == IF u \in Present THEN {u} ELSE {}
<1>1. {Removed(v) : v \in U} = IF u \in Present THEN {Removed(u)} ELSE {}
  OBVIOUS
<1>2. U \in SUBSET Present /\ Present' = Present \ U
  BY DEF Drop, TypeOK, Present
<1> HIDE DEF U
<1>3. Unlock(w, {Removed(v) : v \in U})
  BY <1>1 DEF Drop
<1>4. QED
  BY <1>2, <1>3, RemovalAddsUp

LEMMA ClearAddsUp ==
  ASSUME TypeOK, AllAddUp, NEW w \in Writer, Clear(w) PROVE AllAddUp'
<1>1. pending[w] = {} /\ Unlock(w, {Removed(u) : u \in Present})
  BY DEF Clear, Idle
<1>2. Present' = Present \ Present /\ Present \in SUBSET Present
  BY DEF Clear, Present
<1>3. QED
  BY <1>1, <1>2, RemovalAddsUp

\* A change that is received or dropped moves from those under way to the balance.
LEMMA EffectIs ==
  ASSUME NEW c \in Change
  PROVE  /\ c.type = "ADDED" => Effect(c) = 1
         /\ c.type = "REMOVED" => Effect(c) = -1
         /\ c.type \notin Announces => Effect(c) = 0
BY DEF Effect, Announces

LEMMA EmitAddsUp ==
  ASSUME TypeOK, AllAddUp, NEW w \in Writer, Emit(w) PROVE AllAddUp'
<1>1. PICK c \in pending[w] :
        /\ pending' = [pending EXCEPT ![w] = @ \ {c}]
        /\ IF Len(changeChan) < BufferSize THEN Enqueue(c) ELSE Discard(c)
        /\ UNCHANGED <<transforms, sets, todo, view, fetching>>
  BY DEF Emit
<1>2. /\ c \in Change /\ c.uuid \in Uuid /\ changeChan \in Seq(Change)
      /\ pending'[w] = pending[w] \ {c}
      /\ \A x \in Writer : x /= w => pending'[x] = pending[x]
  BY <1>1 DEF TypeOK, Change
<1> SUFFICES ASSUME NEW u \in Uuid PROVE AddsUp(u)'
  BY DEF AllAddUp
<1> DEFINE m(t) == Cardinality(Waiting(t, u))
           h(t) == Cardinality(Held(t, u))
           P == u \in Present
           Mine(t) == c.uuid = u /\ c.type = t
<1>3. AddsUp(u) /\ balance[u] \in Int /\ Present' = Present
  BY <1>1 DEF AllAddUp, TypeOK, Present
<1>4. ASSUME NEW t \in Announces
      PROVE  /\ m(t) \in Nat /\ h(t) \in Nat /\ IsFiniteSet(Held(t, u)')
             /\ Mine(t) => h(t)' = h(t) - 1
             /\ ~Mine(t) => h(t)' = h(t)
  <2>1. IsFiniteSet(Held(t, u))
    BY <1>3 DEF AddsUp
  <2>2. m(t) \in Nat /\ h(t) \in Nat
    BY <1>2, <2>1, WaitingIs, FS_CardinalityType
  <2>3. Held(t, u)' = Held(t, u) \ {<<w, c>>}
    <3>1. ASSUME NEW x \in Writer, NEW d \in Change, d.type = t, d.uuid = u
          PROVE  d \in pending'[x] <=> d \in pending[x] /\ ~(x = w /\ d = c)
      BY <1>2, <3>1
    <3>2. QED
      BY <3>1 DEF Held
  <2>4. <<w, c>> \in Held(t, u) <=> Mine(t)
    BY <1>1, <1>2 DEF Held
  <2>5. /\ IsFiniteSet(Held(t, u) \ {<<w, c>>})
        /\ Mine(t) => Cardinality(Held(t, u) \ {<<w, c>>}) = h(t) - 1
        /\ ~Mine(t) => Cardinality(Held(t, u) \ {<<w, c>>}) = h(t)
    BY <2>1, <2>4, FS_RemoveElement
  <2>6. QED
    BY <2>2, <2>3, <2>5
<1>5. balance[u] + (m("ADDED") + h("ADDED")) - (m("REMOVED") + h("REMOVED"))
        = IF P THEN 1 ELSE 0
  BY <1>3 DEF AddsUp, UnderWay
<1>6. /\ Mine("ADDED") => Effect(c) = 1
      /\ Mine("REMOVED") => Effect(c) = -1
      /\ c.type \notin Announces => Effect(c) = 0
      /\ ~(Mine("ADDED") /\ Mine("REMOVED"))
  BY <1>2, EffectIs
<1>7. ASSUME NEW t \in Announces
      PROVE  /\ Len(changeChan) < BufferSize /\ Mine(t) => m(t)' = m(t) + 1
             /\ ~(Len(changeChan) < BufferSize /\ Mine(t)) => m(t)' = m(t)
  <2>1. CASE Len(changeChan) < BufferSize
    <3> DEFINE n == Len(changeChan)
    <3>1. changeChan' = Append(changeChan, c)
      BY <1>1, <2>1 DEF Enqueue
    <3>2. /\ n \in Nat /\ DOMAIN changeChan = 1 .. n /\ DOMAIN changeChan' = 1 .. n + 1
          /\ changeChan'[n + 1] = c
          /\ \A i \in 1 .. n : changeChan'[i] = changeChan[i]
      BY <1>2, <3>1
    <3> HIDE DEF n
    <3>3. \A i : i \in 1 .. n + 1 <=> i \in 1 .. n \/ i = n + 1
      BY <3>2
    <3>4. n + 1 \notin 1 .. n
      BY <3>2
    <3>5. /\ Mine(t) => Waiting(t, u)' = Waiting(t, u) \union {n + 1}
          /\ ~Mine(t) => Waiting(t, u)' = Waiting(t, u)
      BY <3>2, <3>3, <3>4 DEF Waiting
    <3>6. n + 1 \notin Waiting(t, u)
      BY <3>2, <3>4 DEF Waiting
    <3>7. IsFiniteSet(Waiting(t, u))
      BY <1>2, WaitingIs
    <3>8. Cardinality(Waiting(t, u) \union {n + 1}) = m(t) + 1
      BY <3>6, <3>7, FS_AddElement
    <3>9. QED
      BY <2>1, <3>5, <3>8
  <2>2. CASE ~(Len(changeChan) < BufferSize)
    BY <1>1, <2>2 DEF Discard, Waiting
  <2>3. QED
    BY <2>1, <2>2
<1>8. /\ Len(changeChan) < BufferSize => balance'[u] = balance[u]
      /\ ~(Len(changeChan) < BufferSize) /\ c.uuid = u => balance'[u] = balance[u] + Effect(c)
      /\ c.uuid /= u => balance'[u] = balance[u]
  BY <1>1, <1>2 DEF Enqueue, Discard, Spend, TypeOK
<1>9. balance'[u] + (m("ADDED")' + h("ADDED")') - (m("REMOVED")' + h("REMOVED")')
        = IF P THEN 1 ELSE 0
  <2> DEFINE A == Mine("ADDED")
             R == Mine("REMOVED")
             room == Len(changeChan) < BufferSize
  <2>1. /\ m("ADDED") \in Nat /\ h("ADDED") \in Nat
        /\ m("REMOVED") \in Nat /\ h("REMOVED") \in Nat
        /\ A => h("ADDED")' = h("ADDED") - 1
        /\ ~A => h("ADDED")' = h("ADDED")
        /\ R => h("REMOVED")' = h("REMOVED") - 1
        /\ ~R => h("REMOVED")' = h("REMOVED")
        /\ room /\ A => m("ADDED")' = m("ADDED") + 1
        /\ ~(room /\ A) => m("ADDED")' = m("ADDED")
        /\ room /\ R => m("REMOVED")' = m("REMOVED") + 1
        /\ ~(room /\ R) => m("REMOVED")' = m("REMOVED")
    BY <1>4, <1>7 DEF Announces
  <2>2. /\ room => balance'[u] = balance[u]
        /\ ~room /\ A => balance'[u] = balance[u] + 1
        /\ ~room /\ R => balance'[u] = balance[u] - 1
        /\ ~room /\ ~A /\ ~R => balance'[u] = balance[u]
        /\ ~(A /\ R)
    BY <1>3, <1>6, <1>8 DEF Announces
  <2> HIDE DEF A, R, room, P, m, h
  <2>3. QED
    BY <1>3, <1>5, <2>1, <2>2
<1>10. QED
  BY <1>3, <1>4, <1>9 DEF AddsUp, UnderWay

LEMMA ReceiveAddsUp ==
  ASSUME TypeOK, AllAddUp, NEW s \in Subscriber, Receive(s) PROVE AllAddUp'
<1> DEFINE c == Head(changeChan)
           n == Len(changeChan)
<1>1. /\ changeChan \in Seq(Change) /\ changeChan /= <<>>
      /\ changeChan' = Tail(changeChan)
      /\ balance' = [balance EXCEPT ![c.uuid] = @ + Effect(c)]
      /\ transforms' = transforms /\ pending' = pending
  BY DEF Receive, Spend, TypeOK, scene
<1>2. /\ c \in Change /\ c = changeChan[1]
      /\ n \in Nat /\ n >= 1
      /\ DOMAIN changeChan = 1 .. n /\ DOMAIN changeChan' = 1 .. n - 1
      /\ \A i \in 1 .. n - 1 : changeChan'[i] = changeChan[i + 1]
  BY <1>1
<1> HIDE DEF c, n
<1> SUFFICES ASSUME NEW u \in Uuid PROVE AddsUp(u)'
  BY DEF AllAddUp
<1> DEFINE m(t) == Cardinality(Waiting(t, u))
           h(t) == Cardinality(Held(t, u))
           P == u \in Present
           Mine(t) == c.uuid = u /\ c.type = t
<1>3. /\ AddsUp(u) /\ balance \in [Uuid -> Int] /\ balance[u] \in Int
      /\ Present' = Present /\ \A t : Held(t, u)' = Held(t, u)
  BY <1>1 DEF AllAddUp, TypeOK, Present, Held
<1>4. ASSUME NEW t \in Announces
      PROVE  /\ m(t) \in Nat /\ h(t) \in Nat /\ IsFiniteSet(Held(t, u)')
             /\ h(t)' = h(t)
             /\ Mine(t) => m(t)' = m(t) - 1
             /\ ~Mine(t) => m(t)' = m(t)
  <2> DEFINE S == Waiting(t, u) \ {1}
  <2>1. /\ IsFiniteSet(Waiting(t, u)) /\ m(t) \in Nat
        /\ Waiting(t, u) \in SUBSET (1 .. n)
    BY <1>1, WaitingIs DEF n
  <2>2. IsFiniteSet(Held(t, u))
    BY <1>3 DEF AddsUp
  <2>3. h(t) \in Nat
    BY <2>2, FS_CardinalityType
  <2>4. 1 \in Waiting(t, u) <=> Mine(t)
    BY <1>2 DEF Waiting
  <2>5. /\ IsFiniteSet(S)
        /\ Mine(t) => Cardinality(S) = m(t) - 1
        /\ ~Mine(t) => Cardinality(S) = m(t)
    BY <2>1, <2>4, FS_RemoveElement
  <2>6. S \in SUBSET Int /\ Waiting(t, u)' \in SUBSET Int
    BY <1>2, <2>1 DEF Waiting
  <2>7. ASSUME NEW i \in Int PROVE i \in Waiting(t, u)' <=> i + 1 \in S
    <3>1. i \in 1 .. n - 1 <=> i + 1 \in 1 .. n /\ i + 1 /= 1
      BY <1>2
    <3>2. QED
      BY <1>2, <3>1 DEF Waiting
  <2> HIDE DEF S
  <2>8. m(t)' = Cardinality(S)
    BY <2>5, <2>6, <2>7, ShiftCounts
  <2>9. QED
    BY <1>3, <2>1, <2>2, <2>3, <2>5, <2>8
<1>5. balance[u] + (m("ADDED") + h("ADDED")) - (m("REMOVED") + h("REMOVED"))
        = IF P THEN 1 ELSE 0
  BY <1>3 DEF AddsUp, UnderWay
<1>6. /\ Mine("ADDED") => balance'[u] = balance[u] + 1
      /\ Mine("REMOVED") => balance'[u] = balance[u] - 1
      /\ ~Mine("ADDED") /\ ~Mine("REMOVED") => balance'[u] = balance[u]
      /\ ~(Mine("ADDED") /\ Mine("REMOVED"))
  <2>1. /\ c.uuid = u => balance'[u] = balance[u] + Effect(c)
        /\ c.uuid /= u => balance'[u] = balance[u]
    BY <1>1, <1>2, <1>3 DEF Change
  <2>2. /\ c.type = "ADDED" => Effect(c) = 1
        /\ c.type = "REMOVED" => Effect(c) = -1
        /\ c.type \notin Announces => Effect(c) = 0
    BY <1>2, EffectIs
  <2>3. QED
    BY <1>3, <2>1, <2>2 DEF Announces
<1>7. balance'[u] + (m("ADDED")' + h("ADDED")') - (m("REMOVED")' + h("REMOVED")')
        = IF P THEN 1 ELSE 0
  <2> DEFINE A == Mine("ADDED")
             R == Mine("REMOVED")
  <2>1. /\ m("ADDED") \in Nat /\ h("ADDED") \in Nat /\ h("ADDED")' = h("ADDED")
        /\ m("REMOVED") \in Nat /\ h("REMOVED") \in Nat /\ h("REMOVED")' = h("REMOVED")
        /\ A => m("ADDED")' = m("ADDED") - 1
        /\ ~A => m("ADDED")' = m("ADDED")
        /\ R => m("REMOVED")' = m("REMOVED") - 1
        /\ ~R => m("REMOVED")' = m("REMOVED")
    BY <1>4 DEF Announces
  <2>2. /\ A => balance'[u] = balance[u] + 1
        /\ R => balance'[u] = balance[u] - 1
        /\ ~A /\ ~R => balance'[u] = balance[u]
        /\ ~(A /\ R)
    BY <1>6
  <2> HIDE DEF A, R, P, m, h
  <2>3. QED
    BY <1>3, <1>5, <2>1, <2>2
<1>8. QED
  BY <1>3, <1>4, <1>7 DEF AddsUp, UnderWay

\* A step that announces nothing.
LEMMA SilenceAddsUp ==
  ASSUME AllAddUp, UNCHANGED <<transforms, pending, changeChan, balance>>
  PROVE  AllAddUp'
BY DEF AllAddUp, AddsUp, UnderWay, Waiting, Held, Present

\* However writers race and streams compete, and whatever is dropped, a uuid is
\* announced as added once more than as removed while the store has it, and as
\* often when it has not: a stream that saw every change could count on them
\* (store.go:44-47).
THEOREM AnnouncementsAddUp == Spec => []ChangesAddUp
<1>1. Init => AllAddUp
  BY InitAddsUp
<1>2. ASSUME TypeOK, AllAddUp, [Next]_vars PROVE AllAddUp'
  <2>1. ASSUME NEW w \in Writer, Clear(w) PROVE AllAddUp'
    BY <1>2, <2>1, ClearAddsUp
  <2>2. ASSUME NEW w \in Writer, RemoveNext(w) PROVE AllAddUp'
    <3>1. PICK u \in todo[w] : Drop(w, u)
      BY <2>2 DEF RemoveNext
    <3>2. u \in Uuid /\ pending[w] = {}
      BY <1>2, <2>2, <3>1 DEF RemoveNext, TypeOK
    <3>3. QED
      BY <1>2, <3>1, <3>2, DropAddsUp
  <2>3. ASSUME NEW w \in Writer, Emit(w) PROVE AllAddUp'
    BY <1>2, <2>3, EmitAddsUp
  <2>4. ASSUME NEW w \in Writer, NEW u \in Uuid, Set(w, u) PROVE AllAddUp'
    BY <1>2, <2>4, SetAddsUp
  <2>5. ASSUME NEW w \in Writer, NEW u \in Uuid, Remove(w, u) PROVE AllAddUp'
    <3>1. pending[w] = {} /\ Drop(w, u)
      BY <2>5 DEF Remove, Idle
    <3>2. QED
      BY <1>2, <3>1, DropAddsUp
  <2>6. ASSUME NEW w \in Writer, NEW U \in SUBSET Uuid, RemoveAll(w, U) PROVE AllAddUp'
    BY <1>2, <2>6, SilenceAddsUp DEF RemoveAll
  <2>7. ASSUME NEW s \in Subscriber, Receive(s) PROVE AllAddUp'
    BY <1>2, <2>7, ReceiveAddsUp
  <2>8. ASSUME NEW s \in Subscriber, ListUUIDs(s) PROVE AllAddUp'
    BY <1>2, <2>8, SilenceAddsUp DEF ListUUIDs, scene
  <2>9. ASSUME NEW s \in Subscriber, NEW u \in Uuid, GetTransform(s, u) PROVE AllAddUp'
    BY <1>2, <2>9, SilenceAddsUp DEF GetTransform, scene
  <2>10. CASE UNCHANGED vars
    BY <1>2, <2>10, SilenceAddsUp DEF vars, scene
  <2>11. QED
    BY <1>2, <2>1, <2>2, <2>3, <2>4, <2>5, <2>6, <2>7, <2>8, <2>9, <2>10 DEF Next
<1>3. AllAddUp => ChangesAddUp
  BY DEF AllAddUp, AddsUp, ChangesAddUp
<1>4. Inv => TypeOK
  BY DEF Inv
<1>5. TypeOK /\ AllAddUp /\ [Next]_vars => AllAddUp'
  BY <1>2
<1> HIDE DEF AllAddUp
<1>6. QED
  BY <1>1, <1>3, <1>4, <1>5, InvCorrect, PTL DEF Spec
=============================================================================
