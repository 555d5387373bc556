-------------------------- MODULE FileAccessProofs --------------------------
(***************************************************************************)
(* Proofs about FileAccess, for every number of processes, files,          *)
(* descriptors and calls, and both tracers.                                *)
(***************************************************************************)
EXTENDS FileAccess, TLAPS

(* The times that are set are in the past.                                 *)
TimesArePast ==
  \A a \in 1..Len(accesses) : accesses[a].OpenTime < now /\ accesses[a].CloseTime < now

IInv ==
  /\ TypeOK
  /\ LiveAccessesAreCached
  /\ AccessesDoNotOverlap
  /\ TimesArePast

(* What one step may do to the accesses that are already closed.           *)
ClosedKept ==
  \A a \in 1..Len(accesses) : accesses[a].CloseTime # 0 => accesses'[a] = accesses[a]

-----------------------------------------------------------------------------
LEMMA AccessFields ==
  ASSUME NEW acc \in Accesses
  PROVE  /\ acc.proc \in Pids /\ acc.file \in PathNames
         /\ acc.OpenTime \in Nat /\ acc.CloseTime \in Nat
         /\ acc.NumOpen \in Nat /\ acc.NumReads \in Nat /\ acc.NumWrites \in Nat
BY DEF Accesses

LEMMA NewAccessType ==
  ASSUME NEW p \in Pids, NEW f \in PathNames
  PROVE  /\ NewAccess(p, f) \in Accesses
         /\ NewAccess(p, f).proc = p /\ NewAccess(p, f).file = f
         /\ NewAccess(p, f).OpenTime = 0 /\ NewAccess(p, f).CloseTime = 0
BY DEF NewAccess, Accesses

(* LookupFileAccess returns an access of the process to the file, which is *)
(* not closed, and leaves the other accesses where they were.              *)
LEMMA LookupFinds ==
  ASSUME IInv, NEW p \in Pids, NEW f \in PathNames
  PROVE  /\ LookedUp(p, f) \in Seq(Accesses)
         /\ Lookup(p, f) \in 1..Len(LookedUp(p, f))
         /\ 1..Len(accesses) \subseteq 1..Len(LookedUp(p, f))
         /\ \A a \in 1..Len(accesses) : LookedUp(p, f)[a] = accesses[a]
         /\ \A a \in 1..Len(LookedUp(p, f)) : a # Lookup(p, f) => a \in 1..Len(accesses)
         /\ Cached(p, f) = 0 => Lookup(p, f) \notin 1..Len(accesses)
         /\ Cached(p, f) # 0 => Lookup(p, f) = Cached(p, f)
         /\ \A a \in 1..Len(LookedUp(p, f)) :
              Cached(p, f) = 0 /\ a # Lookup(p, f) => a < Lookup(p, f)
         /\ Access(p, f) \in Accesses
         /\ Access(p, f).proc = p /\ Access(p, f).file = f
         /\ Access(p, f).CloseTime = 0
         /\ Access(p, f).OpenTime < now
<1>1. accesses \in Seq(Accesses) /\ now \in Nat \ {0} /\ Cached(p, f) \in Nat
  BY DEF IInv, TypeOK, Cached
<1>2. CASE Cached(p, f) # 0
  <2>1. /\ LookedUp(p, f) = accesses
        /\ Lookup(p, f) = Cached(p, f)
    BY <1>2 DEF LookedUp, Lookup
  <2>2. /\ Cached(p, f) \in 1..Len(accesses)
        /\ accesses[Cached(p, f)].proc = p
        /\ accesses[Cached(p, f)].file = f
    BY <1>2 DEF IInv, LiveAccessesAreCached
  <2>3. accesses[Cached(p, f)].CloseTime = 0
    BY <2>2 DEF IInv, LiveAccessesAreCached
  <2>4. accesses[Cached(p, f)] \in Accesses /\ accesses[Cached(p, f)].OpenTime < now
    BY <1>1, <2>2 DEF IInv, TimesArePast
  <2>. QED
    BY <1>1, <1>2, <2>1, <2>2, <2>3, <2>4 DEF Access
<1>3. CASE Cached(p, f) = 0
  <2>. DEFINE new == NewAccess(p, f)
  <2>1. /\ LookedUp(p, f) = Append(accesses, new)
        /\ Lookup(p, f) = Len(accesses) + 1
    BY <1>3 DEF LookedUp, Lookup
  <2>2. /\ new \in Accesses /\ new.proc = p /\ new.file = f
        /\ new.OpenTime = 0 /\ new.CloseTime = 0
    BY NewAccessType
  <2>. HIDE DEF new
  <2>3. /\ Append(accesses, new) \in Seq(Accesses)
        /\ Len(accesses) \in Nat
        /\ Len(Append(accesses, new)) = Len(accesses) + 1
        /\ \A a \in 1..Len(accesses) : Append(accesses, new)[a] = accesses[a]
        /\ Append(accesses, new)[Len(accesses) + 1] = new
    BY <1>1, <2>2
  <2>4. Access(p, f) = new
    BY <2>1, <2>3 DEF Access
  <2>. QED
    BY <1>1, <1>3, <2>1, <2>2, <2>3, <2>4
<1>. QED
  BY <1>2, <1>3

(* A new access is not opened yet.                                         *)
LEMMA LookupNew ==
  ASSUME IInv, NEW p \in Pids, NEW f \in PathNames, Cached(p, f) = 0
  PROVE  Access(p, f).OpenTime = 0
<1>. DEFINE new == NewAccess(p, f)
<1>1. accesses \in Seq(Accesses) /\ new \in Accesses /\ new.OpenTime = 0
  BY NewAccessType DEF IInv, TypeOK
<1>2. Access(p, f) = Append(accesses, new)[Len(accesses) + 1]
  BY DEF Access, LookedUp, Lookup
<1>. HIDE DEF new
<1>. QED
  BY <1>1, <1>2

-----------------------------------------------------------------------------
(* A change of the access that was looked up, which closes it when it is   *)
(* removed from the cache, keeps the invariant.                            *)
LEMMA UpdateKeeps ==
  ASSUME IInv, NEW p \in Pids, NEW f \in PathNames, NEW kept \in BOOLEAN, NEW acc \in Accesses,
         acc.proc = p, acc.file = f,
         acc.OpenTime = Access(p, f).OpenTime \/ acc.OpenTime = now,
         acc.CloseTime = IF kept THEN 0 ELSE now,
         now' = now + 1,
         G_mapFilDesToPathName' \in [Returned -> PathNames],
         Update(p, f, acc, kept)
  PROVE  IInv' /\ ClosedKept
<1>. DEFINE L == LookedUp(p, f)
            k == Lookup(p, f)
            old == Access(p, f)
<1>1. now \in Nat \ {0} /\ accesses \in Seq(Accesses)
  BY DEF IInv, TypeOK
<1>2. /\ L \in Seq(Accesses) /\ k \in 1..Len(L)
      /\ 1..Len(accesses) \subseteq 1..Len(L)
      /\ \A a \in 1..Len(accesses) : L[a] = accesses[a]
      /\ \A a \in 1..Len(L) : a # k => a \in 1..Len(accesses)
  BY LookupFinds
<1>3. /\ Cached(p, f) = 0 => k \notin 1..Len(accesses)
      /\ Cached(p, f) # 0 => k = Cached(p, f)
      /\ \A a \in 1..Len(L) : Cached(p, f) = 0 /\ a # k => a < k
  BY LookupFinds
<1>4. old.OpenTime < now /\ old \in Accesses /\ old.CloseTime = 0
  BY LookupFinds
<1>5. /\ accesses' = [L EXCEPT ![k] = acc]
      /\ G_cacheFileAccesses' = [G_cacheFileAccesses EXCEPT ![p][f] = IF kept THEN k ELSE 0]
  BY DEF Update
<1>. HIDE DEF L, k, old
<1>6. /\ accesses' \in Seq(Accesses) /\ Len(accesses') = Len(L)
      /\ \A a \in 1..Len(L) : accesses'[a] = IF a = k THEN acc ELSE L[a]
  BY <1>2, <1>5
<1>7. \A a \in 1..Len(accesses') : a # k => a \in 1..Len(accesses) /\ accesses'[a] = accesses[a]
  BY <1>2, <1>6
<1>8. k \in 1..Len(accesses') /\ k \in Nat \ {0} /\ accesses'[k] = acc
  BY <1>2, <1>6
<1>9. /\ G_cacheFileAccesses' \in [Pids -> [PathNames -> Nat]]
      /\ \A q \in Pids, g \in PathNames :
           G_cacheFileAccesses'[q][g] =
             IF q = p /\ g = f THEN (IF kept THEN k ELSE 0) ELSE Cached(q, g)
  BY <1>5, <1>8 DEF IInv, TypeOK, Cached
<1>10. acc.OpenTime \in Nat /\ acc.OpenTime <= now /\ acc.CloseTime \in Nat /\ acc.CloseTime <= now
  BY <1>1, <1>4, AccessFields DEF old
<1>11. \A a \in 1..Len(accesses) :
         /\ accesses[a].OpenTime < now /\ accesses[a].CloseTime < now
         /\ accesses[a].OpenTime \in Nat /\ accesses[a].CloseTime \in Nat
         /\ accesses[a].proc \in Pids /\ accesses[a].file \in PathNames
  BY <1>1, AccessFields DEF IInv, TimesArePast
<1>12. \A a \in 1..Len(accesses) :
         a # k /\ accesses[a].proc = p /\ accesses[a].file = f => accesses[a].CloseTime # 0
  BY <1>3, <1>8 DEF IInv, LiveAccessesAreCached
<1>13. TypeOK'
  BY <1>1, <1>6, <1>9 DEF TypeOK
<1>14. LiveAccessesAreCached'
  <2>1. ASSUME NEW a \in 1..Len(accesses')
        PROVE  accesses'[a].CloseTime = 0 <=> G_cacheFileAccesses'[accesses'[a].proc][accesses'[a].file] = a
    <3>1. CASE a = k
      BY <1>1, <1>8, <1>9, <3>1
    <3>2. CASE a # k
      <4>1. a \in 1..Len(accesses) /\ accesses'[a] = accesses[a]
        BY <1>7, <3>2
      <4>2. CASE accesses[a].proc = p /\ accesses[a].file = f
        BY <1>8, <1>9, <1>12, <3>2, <4>1, <4>2
      <4>3. CASE ~(accesses[a].proc = p /\ accesses[a].file = f)
        BY <1>9, <1>11, <4>1, <4>3 DEF IInv, LiveAccessesAreCached
      <4>. QED  BY <4>2, <4>3
    <3>. QED  BY <3>1, <3>2
  <2>2. ASSUME NEW q \in Pids, NEW g \in PathNames, G_cacheFileAccesses'[q][g] # 0
        PROVE  /\ G_cacheFileAccesses'[q][g] \in 1..Len(accesses')
               /\ accesses'[G_cacheFileAccesses'[q][g]].proc = q
               /\ accesses'[G_cacheFileAccesses'[q][g]].file = g
    <3>1. CASE q = p /\ g = f
      BY <1>8, <1>9, <2>2, <3>1
    <3>2. CASE ~(q = p /\ g = f)
      <4>. DEFINE c == Cached(q, g)
      <4>1. G_cacheFileAccesses'[q][g] = c /\ c # 0
        BY <1>9, <2>2, <3>2
      <4>2. c \in 1..Len(accesses) /\ accesses[c].proc = q /\ accesses[c].file = g
        BY <4>1 DEF IInv, LiveAccessesAreCached
      <4>3. c # k
        <5>1. CASE Cached(p, f) = 0
          BY <1>3, <4>2, <5>1
        <5>2. CASE Cached(p, f) # 0
          <6>1. accesses[k].proc = p /\ accesses[k].file = f
            BY <1>3, <5>2 DEF IInv, LiveAccessesAreCached
          <6>. QED  BY <3>2, <4>2, <6>1
        <5>. QED  BY <5>1, <5>2
      <4>. HIDE DEF c
      <4>4. c \in 1..Len(accesses') /\ accesses'[c] = accesses[c]
        BY <1>2, <1>6, <4>2, <4>3
      <4>. QED  BY <4>1, <4>2, <4>4
    <3>. QED  BY <3>1, <3>2
  <2>. QED
    BY <2>1, <2>2 DEF LiveAccessesAreCached, Cached
<1>15. AccessesDoNotOverlap'
  <2>. SUFFICES ASSUME NEW a \in 1..Len(accesses'), NEW b \in 1..Len(accesses'), a < b,
                       accesses'[a].proc = accesses'[b].proc,
                       accesses'[a].file = accesses'[b].file
                PROVE  /\ accesses'[a].CloseTime # 0
                       /\ accesses'[b].OpenTime # 0 => accesses'[a].CloseTime < accesses'[b].OpenTime
    BY DEF AccessesDoNotOverlap
  <2>1. CASE a # k /\ b # k
    <3>1. /\ a \in 1..Len(accesses) /\ accesses'[a] = accesses[a]
          /\ b \in 1..Len(accesses) /\ accesses'[b] = accesses[b]
      BY <1>7, <2>1
    <3>. QED
      BY <3>1 DEF IInv, AccessesDoNotOverlap
  <2>2. CASE a # k /\ b = k
    <3>1. a \in 1..Len(accesses) /\ accesses'[a] = accesses[a] /\ accesses'[b] = acc
      BY <1>7, <1>8, <2>2
    <3>2. accesses[a].proc = p /\ accesses[a].file = f
      BY <3>1
    <3>3. accesses[a].CloseTime # 0 /\ accesses[a].CloseTime < now
      BY <1>11, <1>12, <2>2, <3>1, <3>2
    <3>4. CASE acc.OpenTime = now
      BY <3>1, <3>3, <3>4
    <3>5. CASE acc.OpenTime = old.OpenTime
      <4>1. CASE Cached(p, f) = 0
        <5>1. old.OpenTime = 0
          BY <4>1, LookupNew DEF old
        <5>. QED  BY <3>1, <3>3, <3>5, <5>1
      <4>2. CASE Cached(p, f) # 0
        <5>1. k \in 1..Len(accesses) /\ accesses[k].proc = p /\ accesses[k].file = f
          BY <1>3, <4>2 DEF IInv, LiveAccessesAreCached
        <5>2. old = accesses[k]
          BY <1>2, <5>1 DEF old, k, L, Access
        <5>. QED
          BY <2>2, <3>1, <3>2, <3>3, <3>5, <5>1, <5>2 DEF IInv, AccessesDoNotOverlap
      <4>. QED  BY <4>1, <4>2
    <3>. QED  BY <3>4, <3>5 DEF old
  <2>3. CASE a = k
    <3>1. /\ b \in 1..Len(accesses) /\ accesses'[b] = accesses[b]
          /\ accesses[b].proc = p /\ accesses[b].file = f
      BY <1>7, <1>8, <2>3
    <3>2. Cached(p, f) # 0
      BY <1>2, <1>3, <2>3, <3>1
    <3>3. k \in 1..Len(accesses) /\ accesses[k].proc = p /\ accesses[k].file = f
      BY <1>3, <3>2 DEF IInv, LiveAccessesAreCached
    <3>4. accesses[k].CloseTime = 0
      BY <1>3, <3>2, <3>3 DEF IInv, LiveAccessesAreCached
    <3>5. accesses[k].CloseTime # 0
      BY <2>3, <3>1, <3>3 DEF IInv, AccessesDoNotOverlap
    <3>. QED  BY <3>4, <3>5
  <2>. QED
    BY <2>1, <2>2, <2>3
<1>16. TimesArePast'
  <2>. SUFFICES ASSUME NEW a \in 1..Len(accesses')
                PROVE  accesses'[a].OpenTime < now + 1 /\ accesses'[a].CloseTime < now + 1
    BY DEF TimesArePast
  <2>1. CASE a # k
    <3>1. a \in 1..Len(accesses) /\ accesses'[a] = accesses[a]
      BY <1>7, <2>1
    <3>. QED  BY <1>1, <1>11, <3>1
  <2>2. CASE a = k
    BY <1>1, <1>8, <1>10, <2>2
  <2>. QED  BY <2>1, <2>2
<1>17. ClosedKept
  <2>. SUFFICES ASSUME NEW a \in 1..Len(accesses), accesses[a].CloseTime # 0
                PROVE  accesses'[a] = accesses[a]
    BY DEF ClosedKept
  <2>1. a # k
    <3>1. CASE Cached(p, f) = 0
      BY <1>3, <3>1
    <3>2. CASE Cached(p, f) # 0
      <4>1. k \in 1..Len(accesses) /\ accesses[k].proc = p /\ accesses[k].file = f
        BY <1>3, <3>2 DEF IInv, LiveAccessesAreCached
      <4>. QED  BY <1>3, <3>2, <4>1 DEF IInv, LiveAccessesAreCached
    <3>. QED  BY <3>1, <3>2
  <2>. QED
    BY <1>2, <1>6, <2>1
<1>. QED
  BY <1>13, <1>14, <1>15, <1>16, <1>17 DEF IInv

(* A call that touches no access.                                          *)
LEMMA NoAccessKeeps ==
  ASSUME IInv, now' = now + 1, NoAccess, G_mapFilDesToPathName' \in [Returned -> PathNames]
  PROVE  IInv' /\ ClosedKept
<1>1. /\ accesses' = accesses /\ G_cacheFileAccesses' = G_cacheFileAccesses
      /\ now \in Nat \ {0}
  BY DEF NoAccess, IInv, TypeOK
<1>2. TypeOK'
  BY <1>1 DEF IInv, TypeOK
<1>3. LiveAccessesAreCached' /\ AccessesDoNotOverlap'
  BY <1>1 DEF IInv, LiveAccessesAreCached, AccessesDoNotOverlap, Cached
<1>4. TimesArePast'
  <2>. SUFFICES ASSUME NEW a \in 1..Len(accesses)
                PROVE  accesses[a].OpenTime < now + 1 /\ accesses[a].CloseTime < now + 1
    BY <1>1 DEF TimesArePast
  <2>1. accesses[a].OpenTime \in Nat /\ accesses[a].CloseTime \in Nat
    BY AccessFields DEF IInv, TypeOK
  <2>. QED
    BY <1>1, <2>1 DEF IInv, TimesArePast
<1>. QED
  BY <1>1, <1>2, <1>3, <1>4 DEF IInv, ClosedKept

-----------------------------------------------------------------------------
(* Each operation on the access that is looked up.                         *)
LEMMA OperationsKeep ==
  ASSUME IInv, NEW p \in Pids, NEW f \in PathNames, now' = now + 1,
         G_mapFilDesToPathName' \in [Returned -> PathNames],
         \/ SetOpenTime(p, f) \/ SetCloseTime(p, f)
         \/ SetRead(p, f) \/ SetWritten(p, f) \/ JustLookup(p, f)
  PROVE  IInv' /\ ClosedKept
<1>. DEFINE acc == Access(p, f)
<1>1. /\ acc \in Accesses /\ acc.proc = p /\ acc.file = f
      /\ acc.CloseTime = 0 /\ acc.OpenTime < now
  BY LookupFinds
<1>2. now \in Nat \ {0}
  BY DEF IInv, TypeOK
<1>3. /\ acc.OpenTime \in Nat /\ acc.NumOpen \in Nat
      /\ acc.NumReads \in Nat /\ acc.NumWrites \in Nat
  BY <1>1, AccessFields
<1>. HIDE DEF acc
<1>4. CASE SetOpenTime(p, f)
  <2>. DEFINE new == [acc EXCEPT !.NumOpen = @ + 1,
                                 !.OpenTime = IF @ = 0 \/ now < @ THEN now ELSE @]
  <2>1. Update(p, f, new, TRUE)
    BY <1>4 DEF SetOpenTime, acc
  <2>2. /\ new \in Accesses /\ new.proc = p /\ new.file = f /\ new.CloseTime = 0
        /\ new.OpenTime = acc.OpenTime \/ new.OpenTime = now
    <3>. DEFINE t == IF acc.OpenTime = 0 \/ now < acc.OpenTime THEN now ELSE acc.OpenTime
                n == acc.NumOpen + 1
    <3>1. t \in Nat /\ n \in Nat /\ (t = acc.OpenTime \/ t = now)
      BY <1>2, <1>3
    <3>2. new = [acc EXCEPT !.NumOpen = n, !.OpenTime = t]
      BY <1>1 DEF Accesses
    <3>. HIDE DEF t, n, new
    <3>. QED  BY <1>1, <3>1, <3>2 DEF Accesses
  <2>. HIDE DEF new
  <2>. QED  BY <2>1, <2>2, UpdateKeeps DEF acc
<1>5. CASE SetCloseTime(p, f)
  <2>. DEFINE new == [acc EXCEPT !.CloseTime = IF @ = 0 \/ now < @ THEN now ELSE @]
  <2>1. Update(p, f, new, FALSE)
    BY <1>5 DEF SetCloseTime, acc
  <2>2. /\ new \in Accesses /\ new.proc = p /\ new.file = f /\ new.CloseTime = now
        /\ new.OpenTime = acc.OpenTime
    BY <1>1, <1>2 DEF Accesses
  <2>. HIDE DEF new
  <2>. QED  BY <2>1, <2>2, UpdateKeeps DEF acc
<1>6. CASE SetRead(p, f)
  <2>. DEFINE new == [acc EXCEPT !.NumReads = @ + 1]
  <2>1. Update(p, f, new, TRUE)
    BY <1>6 DEF SetRead, acc
  <2>2. /\ new \in Accesses /\ new.proc = p /\ new.file = f /\ new.CloseTime = 0
        /\ new.OpenTime = acc.OpenTime
    BY <1>1, <1>3 DEF Accesses
  <2>. HIDE DEF new
  <2>. QED  BY <2>1, <2>2, UpdateKeeps DEF acc
<1>7. CASE SetWritten(p, f)
  <2>. DEFINE new == [acc EXCEPT !.NumWrites = @ + 1]
  <2>1. Update(p, f, new, TRUE)
    BY <1>7 DEF SetWritten, acc
  <2>2. /\ new \in Accesses /\ new.proc = p /\ new.file = f /\ new.CloseTime = 0
        /\ new.OpenTime = acc.OpenTime
    BY <1>1, <1>3 DEF Accesses
  <2>. HIDE DEF new
  <2>. QED  BY <2>1, <2>2, UpdateKeeps DEF acc
<1>8. CASE JustLookup(p, f)
  <2>1. Update(p, f, acc, TRUE)
    BY <1>8 DEF JustLookup, acc
  <2>. QED  BY <1>1, <2>1, UpdateKeeps DEF acc
<1>. QED
  BY <1>4, <1>5, <1>6, <1>7, <1>8

(* The path name of a descriptor.                                          *)
LEMMA PathNameType ==
  ASSUME TypeOK, NEW d \in Returned, NEW shown \in PathNames
  PROVE  PathName(d, shown) \in PathNames
BY DEF PathName, TypeOK, PathNames

-----------------------------------------------------------------------------
LEMMA InitInv == AccessInit => IInv
<1>. SUFFICES ASSUME AccessInit PROVE IInv
  OBVIOUS
<1>1. accesses = <<>> /\ now = 1 /\ accesses \in Seq(Accesses) /\ Len(accesses) = 0
  BY DEF AccessInit
<1>2. \A p \in Pids, f \in PathNames : Cached(p, f) = 0
  BY DEF AccessInit, Cached
<1>3. TypeOK
  BY <1>1 DEF AccessInit, TypeOK, PathNames
<1>. QED
  BY <1>1, <1>2, <1>3 DEF IInv, LiveAccessesAreCached, AccessesDoNotOverlap, TimesArePast

LEMMA NextInv == IInv /\ AccessNext => IInv' /\ ClosedKept
<1>. SUFFICES ASSUME IInv, AccessNext PROVE IInv' /\ ClosedKept
  OBVIOUS
<1>1. TypeOK /\ now' = now + 1
  BY DEF IInv, AccessNext, Tick
<1>2. CASE \E p \in Pids, f \in Files, call \in {"open", "openat"} :
             \/ \E d \in Fds : Open(p, call, d, f, FALSE)
             \/ \E missing \in BOOLEAN : Open(p, call, -1, f, missing)
  <2>1. PICK p \in Pids, r \in Returned, f \in Files, call \in {"open", "openat"},
             missing \in BOOLEAN : Open(p, call, r, f, missing)
    BY <1>2 DEF Returned
  <2>2. f \in PathNames /\ PathName(r, f) \in PathNames
    BY <1>1, PathNameType DEF PathNames
  <2>3. G_mapFilDesToPathName' \in [Returned -> PathNames]
    BY <1>1, <2>1, <2>2 DEF Open, TypeOK
  <2>4. NoAccess \/ \E g \in PathNames : SetOpenTime(p, g)
    BY <2>1, <2>2 DEF Open
  <2>. QED
    BY <1>1, <2>3, <2>4, NoAccessKeeps, OperationsKeep
<1>3. CASE \E p \in Pids, d \in Fds, shown \in PathNames, valid \in BOOLEAN :
             Close(p, d, shown, valid) \/ Read(p, d, shown, valid) \/ Write(p, d, shown, valid)
  <2>1. PICK p \in Pids, d \in Fds, shown \in PathNames, valid \in BOOLEAN :
               Close(p, d, shown, valid) \/ Read(p, d, shown, valid) \/ Write(p, d, shown, valid)
    BY <1>3
  <2>2. G_mapFilDesToPathName' \in [Returned -> PathNames]
    BY <1>1, <2>1 DEF Close, Read, Write, TypeOK
  <2>3. PathName(d, shown) \in PathNames
    BY <1>1, PathNameType DEF Returned
  <2>4. CASE Close(p, d, shown, valid)
    BY <1>1, <2>2, <2>3, <2>4, NoAccessKeeps, OperationsKeep DEF Close
  <2>5. CASE Read(p, d, shown, valid)
    BY <1>1, <2>2, <2>3, <2>5, NoAccessKeeps, OperationsKeep DEF Read
  <2>6. CASE Write(p, d, shown, valid)
    BY <1>1, <2>2, <2>3, <2>6, OperationsKeep DEF Write
  <2>. QED
    BY <2>1, <2>4, <2>5, <2>6
<1>4. CASE OtherCall
  BY <1>1, <1>4, NoAccessKeeps DEF OtherCall, TypeOK
<1>. QED
  BY <1>2, <1>3, <1>4 DEF AccessNext

LEMMA StepInv == IInv /\ [AccessNext]_accessVars => IInv' /\ ClosedKept
<1>1. IInv /\ UNCHANGED accessVars => IInv' /\ ClosedKept
  BY DEF IInv, accessVars, TypeOK, LiveAccessesAreCached, AccessesDoNotOverlap,
         TimesArePast, Cached, ClosedKept
<1>. QED
  BY <1>1, NextInv

(* The accesses, the cache and the table of descriptors are well formed    *)
(* after any calls.                                                        *)
THEOREM TypeCorrect == AccessSpec => []TypeOK
<1>1. IInv => TypeOK
  BY DEF IInv
<1>. QED
  BY <1>1, InitInv, StepInv, PTL DEF AccessSpec

(* Whatever the calls and their results, the cache holds exactly the       *)
(* accesses that SetCloseTime has not closed.                              *)
THEOREM CacheExact == AccessSpec => []LiveAccessesAreCached
<1>1. IInv => LiveAccessesAreCached
  BY DEF IInv
<1>. QED
  BY <1>1, InitInv, StepInv, PTL DEF AccessSpec

(* Two accesses of a process to a file are one after the other in time,    *)
(* as SetOpenTime and SetCloseTime record it.                              *)
THEOREM NoOverlap == AccessSpec => []AccessesDoNotOverlap
<1>1. IInv => AccessesDoNotOverlap
  BY DEF IInv
<1>. QED
  BY <1>1, InitInv, StepInv, PTL DEF AccessSpec

(* GetFileAccess never returns an access again once SetCloseTime has       *)
(* closed it, so that what it records is final.                            *)
THEOREM ClosedIsFinal == AccessSpec => ClosedAccessIsFinal
<1>1. IInv /\ [AccessNext]_accessVars =>
        [ \A a \in 1..Len(accesses) :
            accesses[a].CloseTime # 0 => accesses'[a] = accesses[a] ]_accessVars
  BY StepInv DEF ClosedKept
<1>. QED
  BY <1>1, InitInv, StepInv, PTL DEF AccessSpec, ClosedAccessIsFinal

=============================================================================
