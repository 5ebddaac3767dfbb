------------------------------ MODULE VizStore ------------------------------
(***************************************************************************)
(* viz.Store and viz.StoreService (src/viz/store.go): goroutines set,      *)
(* remove and clear transforms; each change is made under s.mu and then    *)
(* sent, with the lock released, on one bounded channel that every stream  *)
(* of changes reads from.  A send that finds the channel full is dropped.  *)
(*                                                                         *)
(* A subscriber keeps a view of the scene: it applies the changes it       *)
(* receives and resyncs with ListUUIDs and GetTransform when it likes.     *)
(*                                                                         *)
(* A transform is the number of the Set that brought it, so that no two    *)
(* are equal; 0 stands for none.  Set of a nil transform or of one without *)
(* a uuid returns at once and is left out.                                 *)
(***************************************************************************)
EXTENDS Integers, Sequences, FiniteSets

CONSTANTS
  Uuid,
  Writer,      \* goroutines that call Set, Remove, Clear or DoCommand
  Subscriber,  \* readers of StreamTransformChanges
  BufferSize,  \* WithChangeBufferSize
  MaxSets      \* bound on the calls of Set

ASSUME BoundAssumption == BufferSize \in Nat \ {0} /\ MaxSets \in Nat

VARIABLES
  transforms,  \* s.transforms
  sets,        \* how many times Set was called
  changeChan,  \* s.changeChan
  pending,     \* the changes each writer made and has not sent yet
  todo,        \* the uuids a writer's "remove" command has yet to remove
  view,        \* the scene as each subscriber sees it
  fetching,    \* the uuids a resync has listed and not fetched yet
  missed,      \* uuids of which a subscriber may have missed a change
  dropped,     \* uuids of which a change was dropped since the last resync began
  balance      \* ADDED less REMOVED, over the changes received or dropped

scene == <<transforms, sets, pending, todo>>
vars == <<scene, changeChan, view, fetching, missed, dropped, balance>>

Absent == 0
Version == 0 .. MaxSets
Present == {u \in Uuid : transforms[u] /= Absent}

Change == [type : {"ADDED", "UPDATED", "REMOVED"}, uuid : Uuid, transform : Version]

Removed(u) == [type |-> "REMOVED", uuid |-> u, transform |-> Absent]

\* Changes of u that a writer is yet to send, or that wait in the channel.
Unsent(u) == {w \in Writer : \E c \in pending[w] : c.uuid = u}
Queued(u) == {i \in DOMAIN changeChan : changeChan[i].uuid = u}
Settled(u) == Unsent(u) = {} /\ Queued(u) = {}

\* How many changes of u of type t are under way: in the channel and to be sent.
Waiting(t, u) == {i \in DOMAIN changeChan : changeChan[i].type = t /\ changeChan[i].uuid = u}
Held(t, u) ==
  {h \in Writer \X Change : h[2] \in pending[h[1]] /\ h[2].type = t /\ h[2].uuid = u}
UnderWay(t, u) == Cardinality(Waiting(t, u)) + Cardinality(Held(t, u))

\* Two calls that change the same transform may send in either order.
RacedBy(w) == {u \in Uuid : Unsent(u) \ {w} /= {}}

Misses(s, U) == missed' = [missed EXCEPT ![s] = @ \union U]
AllMiss(U) == missed' = [s \in Subscriber |-> missed[s] \union U]

Effect(c) == CASE c.type = "ADDED" -> 1 [] c.type = "REMOVED" -> -1 [] OTHER -> 0
Spend(c) == balance' = [balance EXCEPT ![c.uuid] = @ + Effect(c)]

Init ==
  /\ transforms = [u \in Uuid |-> Absent]
  /\ sets = 0
  /\ changeChan = <<>>
  /\ pending = [w \in Writer |-> {}]
  /\ todo = [w \in Writer |-> {}]
  /\ view = [s \in Subscriber |-> [u \in Uuid |-> Absent]]
  /\ fetching = [s \in Subscriber |-> {}]
  /\ missed = [s \in Subscriber |-> {}]
  /\ dropped = {}
  /\ balance = [u \in Uuid |-> 0]

-----------------------------------------------------------------------------
(***************************************************************************)
(* Writers.                                                                *)
(***************************************************************************)

Idle(w) == pending[w] = {} /\ todo[w] = {}

\* Leave the lock with the changes C to send.
Unlock(w, C) ==
  /\ pending' = [pending EXCEPT ![w] = C]
  /\ AllMiss({c.uuid : c \in C} \intersect RacedBy(w))
  /\ UNCHANGED <<changeChan, view, fetching, dropped, balance>>

\* A plausible slip: a replacement is not announced.
SetQuietly(w, u) ==
  /\ Idle(w) /\ sets < MaxSets
  /\ sets' = sets + 1
  /\ transforms' = [transforms EXCEPT ![u] = sets + 1]
  /\ Unlock(w, IF u \in Present THEN {}
               ELSE {[type |-> "ADDED", uuid |-> u, transform |-> sets + 1]})
  /\ UNCHANGED todo

\* Set inserts or replaces a transform.
Set(w, u) ==
  /\ Idle(w) /\ sets < MaxSets
  /\ sets' = sets + 1
  /\ transforms' = [transforms EXCEPT ![u] = sets + 1]
  /\ Unlock(w, {[type |-> IF u \in Present THEN "UPDATED" ELSE "ADDED",
                 uuid |-> u, transform |-> sets + 1]})
  /\ UNCHANGED todo

\* A plausible slip: Remove does not look whether the uuid is known.
DropBlindly(w, u) ==
  /\ transforms' = [transforms EXCEPT ![u] = Absent]
  /\ Unlock(w, {Removed(u)})
  /\ UNCHANGED sets

\* The body of Remove: an unknown uuid changes and sends nothing.
Drop(w, u) ==
  /\ transforms' = [transforms EXCEPT ![u] = Absent]
  /\ Unlock(w, IF u \in Present THEN {Removed(u)} ELSE {})
  /\ UNCHANGED sets

Remove(w, u) == Idle(w) /\ Drop(w, u) /\ UNCHANGED todo

\* Clear empties the map and announces its entries, in the map's random order.
Clear(w) ==
  /\ Idle(w)
  /\ transforms' = [u \in Uuid |-> Absent]
  /\ Unlock(w, {Removed(u) : u \in Present})
  /\ UNCHANGED <<sets, todo>>

\* DoCommand {"remove": [...]} calls Remove for each uuid of its list.
RemoveAll(w, U) ==
  /\ Idle(w)
  /\ todo' = [todo EXCEPT ![w] = U]
  /\ UNCHANGED <<transforms, sets, pending, changeChan, view, fetching, missed,
                 dropped, balance>>

RemoveNext(w) ==
  /\ pending[w] = {}
  /\ \E u \in todo[w] : Drop(w, u) /\ todo' = [todo EXCEPT ![w] = @ \ {u}]

-----------------------------------------------------------------------------
(***************************************************************************)
(* The channel and its readers.                                            *)
(***************************************************************************)

Enqueue(c) ==
  /\ changeChan' = Append(changeChan, c)
  /\ UNCHANGED <<missed, dropped, balance>>

Discard(c) ==
  /\ AllMiss({c.uuid})
  /\ dropped' = dropped \union {c.uuid}
  /\ Spend(c)
  /\ UNCHANGED changeChan

\* A plausible slip: a plain send, which waits for room.
EmitBlocking(w) ==
  \E c \in pending[w] :
    /\ pending' = [pending EXCEPT ![w] = @ \ {c}]
    /\ Len(changeChan) < BufferSize /\ Enqueue(c)
    /\ UNCHANGED <<transforms, sets, todo, view, fetching>>

\* A plausible slip: the buffer's length is off by one.
EmitOneMore(w) ==
  \E c \in pending[w] :
    /\ pending' = [pending EXCEPT ![w] = @ \ {c}]
    /\ IF Len(changeChan) <= BufferSize THEN Enqueue(c) ELSE Discard(c)
    /\ UNCHANGED <<transforms, sets, todo, view, fetching>>

\* emit sends a change, or drops it when the channel is full.
Emit(w) ==
  \E c \in pending[w] :
    /\ pending' = [pending EXCEPT ![w] = @ \ {c}]
    /\ IF Len(changeChan) < BufferSize THEN Enqueue(c) ELSE Discard(c)
    /\ UNCHANGED <<transforms, sets, todo, view, fetching>>

\* A stream takes the next change; no other stream will see it.
Receive(s) ==
  /\ changeChan /= <<>> /\ fetching[s] = {}
  /\ LET c == Head(changeChan) IN
       /\ view' = [view EXCEPT ![s][c.uuid] = c.transform]
       /\ missed' = [t \in Subscriber |-> IF t = s THEN missed[t]
                                          ELSE missed[t] \union {c.uuid}]
       /\ Spend(c)
  /\ changeChan' = Tail(changeChan)
  /\ UNCHANGED <<scene, fetching, dropped>>

\* What s knows of the transforms in U is right again if no change is under way.
Refreshed(s, U) ==
  missed' = [missed EXCEPT ![s] = {u \in @ : u \in U => ~Settled(u)}]

\* ListUUIDs: the transforms that are not listed are gone.
ListUUIDs(s) ==
  /\ fetching[s] = {}
  /\ fetching' = [fetching EXCEPT ![s] = Present]
  /\ view' = [view EXCEPT ![s] = [u \in Uuid |-> IF u \in Present THEN view[s][u]
                                                 ELSE Absent]]
  /\ Refreshed(s, Uuid \ Present)
  /\ dropped' = {}
  /\ UNCHANGED <<scene, changeChan, balance>>

\* GetTransform, for one of the uuids listed; an error says it is gone by now.
GetTransform(s, u) ==
  /\ u \in fetching[s]
  /\ fetching' = [fetching EXCEPT ![s] = @ \ {u}]
  /\ view' = [view EXCEPT ![s][u] = transforms[u]]
  /\ Refreshed(s, {u})
  /\ UNCHANGED <<scene, changeChan, dropped, balance>>

Next ==
  \/ \E w \in Writer :
       \/ Clear(w) \/ RemoveNext(w) \/ Emit(w)
       \/ \E u \in Uuid : Set(w, u) \/ Remove(w, u)
       \/ \E U \in SUBSET Uuid : RemoveAll(w, U)
  \/ \E s \in Subscriber :
       \/ Receive(s) \/ ListUUIDs(s)
       \/ \E u \in Uuid : GetTransform(s, u)

Spec == Init /\ [][Next]_vars

\* A writer inside a call keeps running; nothing is asked of the subscribers.
Fairness == \A w \in Writer : WF_vars(Emit(w)) /\ WF_vars(RemoveNext(w))

FairSpec == Spec /\ Fairness

-----------------------------------------------------------------------------

\* Every variable has its type, and the channel respects its capacity.
TypeOK ==
  /\ transforms \in [Uuid -> Version]
  /\ sets \in Version
  /\ changeChan \in Seq(Change) /\ Len(changeChan) <= BufferSize
  /\ pending \in [Writer -> SUBSET Change]
  /\ todo \in [Writer -> SUBSET Uuid]
  /\ view \in [Subscriber -> [Uuid -> Version]]
  /\ fetching \in [Subscriber -> SUBSET Uuid]
  /\ missed \in [Subscriber -> SUBSET Uuid]
  /\ dropped \subseteq Uuid
  /\ balance \in [Uuid -> Int]

\* The view of a subscriber is the store's own, for every transform with no
\* change under way of which it missed none: nothing was dropped, taken by
\* another stream or sent out of order since it last looked the transform up
\* with no change of it under way (store.go:32-37, 44-53).
ViewAgrees ==
  \A s \in Subscriber : \A u \in Uuid \ missed[s] :
    Settled(u) => view[s][u] = transforms[u]

\* Announcements add up: in whatever order writers get to send and whatever is
\* dropped, each ADDED is followed by one REMOVED when the transform goes, and
\* by none before (store.go:44-47).
ChangesAddUp ==
  \A u \in Uuid : balance[u] + UnderWay("ADDED", u) - UnderWay("REMOVED", u)
                    = IF u \in Present THEN 1 ELSE 0

\* Set, Remove, Clear and DoCommand return although no subscriber ever reads
\* (store.go:49-51, 169-171).
CallsReturn == \A w \in Writer : ~Idle(w) ~> Idle(w)

\* "Subscribers can resync after a drop via ListUUIDs / GetTransform"
\* (store.go:35-36): once a subscriber has resynced, its view is right wherever
\* nothing was dropped since and no change is under way.
ResyncRestores ==
  \A s \in Subscriber : fetching[s] = {} =>
    \A u \in Uuid \ dropped : Settled(u) => view[s][u] = transforms[u]
=============================================================================
