---------------------------- MODULE InstanceCache ----------------------------
(***************************************************************************)
(* The entry of one object in co::InstanceCache: the instance data that a  *)
(* node has received of it, one stream per version, oldest first, and the  *)
(* number of map requests under way that rely on it.  A stream is ready    *)
(* once its last packet has come.  An entry without streams is one that    *)
(* does not exist.                                                         *)
(*                                                                         *)
(* There is one master, so that the data always has the same origin, and   *)
(* the cache is below its size limit: _releaseItems drops nothing.         *)
(***************************************************************************)
EXTENDS Naturals, Sequences

Stream(v, last) == [version |-> v, ready |-> last]
NoItem == [versions |-> <<>>, access |-> 0]
Cached(item) == item.versions # <<>>
Newest(item) == item.versions[Len(item.versions)]

(* add: a packet of version v.  Data that is there already or older is     *)
(* ignored; across a hole the old streams are dropped, unless they are in  *)
(* use, when the new data is not cached.                                   *)
Add(item, v, last) ==
    CASE ~Cached(item) \/ Newest(item).version + 1 = v ->
            [item EXCEPT !.versions = Append(@, Stream(v, last))]
      [] Cached(item) /\ Newest(item) = Stream(v, FALSE) ->
            [item EXCEPT !.versions[Len(item.versions)] = Stream(v, last)]
      [] Cached(item) /\ Newest(item).version + 1 < v /\ item.access = 0 ->
            [item EXCEPT !.versions = <<Stream(v, last)>>]
      [] OTHER -> item

\* operator[] and release
Pin(item) == IF Cached(item) THEN [item EXCEPT !.access = @ + 1] ELSE item
Release(item, count) == [item EXCEPT !.access = @ - count]

\* erase: nothing happens to data in use
Erase(item) == IF item.access = 0 THEN NoItem ELSE item

\* Mutant: data in use expires.
Expired_InUse(item) ==
    {[item EXCEPT !.versions = SubSeq(@, k + 1, Len(@))] :
        k \in {j \in 0..Len(item.versions) :
                   \A l \in 1..j : item.versions[l].ready}}

\* expire: streams that are complete, oldest first, as many as are too old
Expired(item) ==
    IF item.access # 0 THEN {item}
    ELSE {[item EXCEPT !.versions = SubSeq(@, k + 1, Len(@))] :
             k \in {j \in 0..Len(item.versions) :
                        \A l \in 1..j : item.versions[l].ready}}
==============================================================================
