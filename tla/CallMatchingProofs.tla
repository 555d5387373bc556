------------------------ MODULE CallMatchingProofs --------------------------
(***************************************************************************)
(* Proofs about CallMatching, for every log, tracer and set of models.     *)
(***************************************************************************)
EXTENDS CallMatching, SequenceTheorems, TLAPS

Member(stack, c) == \E i \in 1..Len(stack) : stack[i] = c

Increasing(stack) == \A i, j \in 1..Len(stack) : i < j => stack[i] < stack[j]

(* What a stack holds, in terms of the cores cs: halves of its process and *)
(* function, unfinished, or matched when they were pushed more than once.  *)
StacksRefer(cs) ==
  \A p \in Pids, n \in Names : \A c :
    Member(m_mapStacks[p][n], c) =>
      /\ c \in 1..Len(cs)
      /\ cs[c].pid = p /\ cs[c].funcNam = n
      /\ cs[c].status \in {"unfinished", "matched"}

(* The text that waits is a line of a log.                                 *)
HeldOK == \A i \in 1..Len(oneLine) : WellFormed(oneLine[i])

IInv == TypeOK /\ HeldOK /\ HalvesAgree(cores) /\ StacksRefer(cores)

-----------------------------------------------------------------------------
(* A stack with one more element, and without its last one.                *)
LEMMA Pushed ==
  ASSUME NEW s \in Seq(Nat), NEW c \in Nat
  PROVE  /\ Append(s, c) \in Seq(Nat)
         /\ \A x : Member(Append(s, c), x) <=> Member(s, x) \/ x = c
         /\ Increasing(s) /\ (\A x : Member(s, x) => x < c) => Increasing(Append(s, c))
<1>. DEFINE t == Append(s, c)
<1>1. /\ t \in Seq(Nat) /\ Len(s) \in Nat /\ Len(t) = Len(s) + 1
      /\ \A i \in 1..Len(s) : t[i] = s[i]
      /\ t[Len(s) + 1] = c
  OBVIOUS
<1>. HIDE DEF t
<1>2. /\ 1..Len(t) = 1..Len(s) \cup {Len(s) + 1}
      /\ \A i \in 1..Len(s) : i < Len(s) + 1 /\ ~(Len(s) + 1 < i)
      /\ ~(Len(s) + 1 < Len(s) + 1)
  BY <1>1
<1>3. \A x : Member(t, x) <=> Member(s, x) \/ x = c
  BY <1>1, <1>2, Zenon DEF Member
<1>4. ASSUME Increasing(s), \A x : Member(s, x) => x < c
      PROVE  Increasing(t)
  <2>1. \A i \in 1..Len(s) : s[i] < c
    BY <1>4, Zenon DEF Member
  <2>2. ASSUME NEW i \in 1..Len(t), NEW j \in 1..Len(t), i < j
        PROVE  t[i] < t[j]
    <3>1. CASE j = Len(s) + 1 /\ i \in 1..Len(s)
      BY <1>1, <2>1, <3>1, Zenon
    <3>2. CASE j \in 1..Len(s) /\ i \in 1..Len(s)
      BY <1>1, <1>4, <2>2, <3>2, Zenon DEF Increasing
    <3>. QED  BY <1>2, <2>2, <3>1, <3>2, Zenon
  <2>. QED  BY <2>2, Zenon DEF Increasing
<1>. QED  BY <1>1, <1>3, <1>4, Zenon DEF t

LEMMA Front ==
  ASSUME NEW s \in Seq(Nat), NEW n \in Nat, Len(s) = n + 1
  PROVE  /\ SubSeq(s, 1, n) \in Seq(Nat) /\ Len(SubSeq(s, 1, n)) = n
         /\ \A i \in 1..n : SubSeq(s, 1, n)[i] = s[i] /\ s[i] \in Nat
         /\ 1..Len(s) = 1..n \cup {Len(s)}
         /\ \A i \in 1..n : i < Len(s)
         /\ s[Len(s)] \in Nat
OBVIOUS

LEMMA NotEmpty ==
  ASSUME NEW s \in Seq(Nat), s # <<>>
  PROVE  Len(s) - 1 \in Nat /\ Len(s) = (Len(s) - 1) + 1
OBVIOUS

LEMMA Popped ==
  ASSUME NEW s \in Seq(Nat), s # <<>>
  PROVE  LET t == SubSeq(s, 1, Len(s) - 1)
             u == s[Len(s)]
         IN  /\ t \in Seq(Nat)
             /\ Member(s, u)
             /\ \A x : Member(t, x) => Member(s, x)
             /\ Increasing(s) =>
                  /\ Increasing(t)
                  /\ \A x : Member(t, x) <=> Member(s, x) /\ x # u
<1>. DEFINE n == Len(s) - 1
            t == SubSeq(s, 1, Len(s) - 1)
            u == s[Len(s)]
<1>1. n \in Nat /\ Len(s) = n + 1
  BY NotEmpty, Zenon
<1>2. t = SubSeq(s, 1, n)
  OBVIOUS
<1>8. u = s[Len(s)]
  OBVIOUS
<1>. HIDE DEF n, t, u
<1>3. t \in Seq(Nat) /\ Len(t) = n /\ \A i \in 1..n : t[i] = s[i]
  <2>1. /\ SubSeq(s, 1, n) \in Seq(Nat) /\ Len(SubSeq(s, 1, n)) = n
        /\ \A i \in 1..n : SubSeq(s, 1, n)[i] = s[i]
    BY <1>1, Front, Zenon
  <2>. QED  BY <1>2, <2>1
<1>4. /\ 1..Len(s) = 1..n \cup {Len(s)}
      /\ \A i \in 1..n : i < Len(s) /\ s[i] \in Nat
      /\ u \in Nat
  <2>1. /\ 1..Len(s) = 1..n \cup {Len(s)}
        /\ \A i \in 1..n : i < Len(s) /\ s[i] \in Nat
        /\ s[Len(s)] \in Nat
    BY <1>1, Front, Zenon
  <2>. QED  BY <1>8, <2>1
<1>5. Member(s, u)
  BY <1>4, <1>8, Zenon DEF Member
<1>6. \A x : Member(t, x) => Member(s, x)
  BY <1>3, <1>4, Zenon DEF Member
<1>7. ASSUME Increasing(s)
      PROVE  Increasing(t) /\ \A x : Member(t, x) <=> Member(s, x) /\ x # u
  <2>1. Increasing(t)
    BY <1>3, <1>4, <1>7, Zenon DEF Increasing
  <2>2. \A i \in 1..n : s[i] # u
    <3>1. \A i \in 1..n : s[i] < u /\ s[i] \in Nat /\ u \in Nat
      BY <1>4, <1>7, <1>8, Zenon DEF Increasing
    <3>. QED  BY <3>1
  <2>3. \A x : Member(t, x) <=> Member(s, x) /\ x # u
    BY <1>3, <1>4, <1>8, <2>2, Zenon DEF Member
  <2>. QED  BY <2>1, <2>3
<1>. QED  BY <1>3, <1>5, <1>6, <1>7, Zenon DEF t, u

(* A map of stacks with a new value for one of them.                       *)
LEMMA MapExcept ==
  ASSUME NEW P, NEW N, NEW T, NEW f \in [P -> [N -> T]],
         NEW p \in P, NEW n \in N, NEW v \in T,
         NEW g, g = [f EXCEPT ![p][n] = v]
  PROVE  /\ g \in [P -> [N -> T]]
         /\ g[p][n] = v
         /\ \A q \in P, m \in N : ~(q = p /\ m = n) => g[q][m] = f[q][m]
OBVIOUS

-----------------------------------------------------------------------------
(* ParseLine makes a well-formed core.                                     *)
LEMMA ParsedCore ==
  ASSUME TypeOK, NEW first \in Lines, WellFormed(first), first.kind \notin {"signal", "exit"},
         NEW last
  PROVE  /\ ParseLine(first, last) \in Cores
         /\ ParseLine(first, last).half = 0
         /\ ParseLine(first, last).status \in {"plain", "unfinished", "resumed"}
<1>1. /\ first.shown \in Pids \cup {Nothing}
      /\ first.kind # "text" => first.func \in Functions
  BY DEF Lines, WellFormed, CallKinds
<1>2. LinePid(first) \in Pids
  BY <1>1, CallMatchingAssumption DEF LinePid
<1>3. SetFunction(first) \in Names
  BY <1>1, Zenon DEF SetFunction, Names
<1>4. numLine + 1 \in Nat
  BY DEF TypeOK
<1>. QED
  BY <1>2, <1>3, <1>4 DEF ParseLine, Cores, BatchStatus

-----------------------------------------------------------------------------
(* The state of the matching, apart from the cores.                        *)
RestOK ==
  /\ m_mapStacks \in [Pids -> [Names -> Seq(Nat)]]
  /\ yielded \in Seq(Nat)
  /\ raised \in BOOLEAN

LEMMA CoreFields ==
  ASSUME NEW cs \in Seq(Cores), NEW c \in 1..Len(cs)
  PROVE  /\ c \in Nat
         /\ cs[c] \in Cores
         /\ cs[c].pid \in Pids /\ cs[c].funcNam \in Names
         /\ cs[c].status \in BatchStatus /\ cs[c].half \in Nat
<1>1. c \in Nat /\ cs[c] \in Cores
  OBVIOUS
<1>. QED
  BY <1>1 DEF Cores

LEMMA KeepType ==
  ASSUME yielded \in Seq(Nat), NEW c \in Nat, NEW kept \in BOOLEAN, Keep(c, kept)
  PROVE  yielded' \in Seq(Nat)
BY DEF Keep

(* The stack of p and n gains the core c: an increasing stack remains so    *)
(* when c is newer.                                                        *)
StacksGain(p, n, c) ==
  \A q \in Pids, m \in Names : \A x :
    Member(m_mapStacks'[q][m], x) <=>
      Member(m_mapStacks[q][m], x) \/ (q = p /\ m = n /\ x = c)

StacksGrow(c) ==
  \A q \in Pids, m \in Names :
    Increasing(m_mapStacks[q][m]) /\ (\A x : Member(m_mapStacks[q][m], x) => x < c)
      => Increasing(m_mapStacks'[q][m])

(* The stack of p and n loses the core u.                                  *)
StacksLose(p, n, u) ==
  \A q \in Pids, m \in Names :
    Increasing(m_mapStacks[q][m]) =>
      /\ Increasing(m_mapStacks'[q][m])
      /\ \A x : Member(m_mapStacks'[q][m], x) <=>
                  Member(m_mapStacks[q][m], x) /\ ~(q = p /\ m = n /\ x = u)

StacksShrink ==
  \A q \in Pids, m \in Names : \A x :
    Member(m_mapStacks'[q][m], x) => Member(m_mapStacks[q][m], x)

(* PushBatch adds a core to the stack of its own process and function.     *)
LEMMA StacksPushed ==
  ASSUME RestOK, NEW cs \in Seq(Cores), NEW c \in 1..Len(cs), PushBatch(cs, c)
  PROVE  /\ m_mapStacks' \in [Pids -> [Names -> Seq(Nat)]]
         /\ StacksGain(cs[c].pid, cs[c].funcNam, c) /\ StacksGrow(c)
<1>. DEFINE p == cs[c].pid
            n == cs[c].funcNam
            s == m_mapStacks[p][n]
            t == Append(s, c)
<1>1. c \in Nat /\ p \in Pids /\ n \in Names
  BY CoreFields, Zenon
<1>2. m_mapStacks' = [m_mapStacks EXCEPT ![p][n] = t]
  BY Zenon DEF PushBatch
<1>3. m_mapStacks \in [Pids -> [Names -> Seq(Nat)]]
  BY Zenon DEF RestOK
<1>. HIDE DEF p, n
<1>4. s \in Seq(Nat)
  BY <1>1, <1>3
<1>. HIDE DEF s
<1>5. /\ t \in Seq(Nat)
      /\ \A x : Member(t, x) <=> Member(s, x) \/ x = c
      /\ Increasing(s) /\ (\A x : Member(s, x) => x < c) => Increasing(t)
  BY <1>1, <1>4, Pushed, Zenon
<1>. HIDE DEF t
<1>6. /\ m_mapStacks' \in [Pids -> [Names -> Seq(Nat)]]
      /\ m_mapStacks'[p][n] = t
      /\ \A q \in Pids, m \in Names :
           ~(q = p /\ m = n) => m_mapStacks'[q][m] = m_mapStacks[q][m]
  BY <1>1, <1>2, <1>3, <1>5, MapExcept
<1>7. ASSUME NEW q \in Pids, NEW m \in Names
      PROVE  /\ \A x : Member(m_mapStacks'[q][m], x) <=>
                          Member(m_mapStacks[q][m], x) \/ (q = p /\ m = n /\ x = c)
             /\ Increasing(m_mapStacks[q][m]) /\ (\A x : Member(m_mapStacks[q][m], x) => x < c)
                  => Increasing(m_mapStacks'[q][m])
  <2>1. CASE ~(q = p /\ m = n)
    BY <1>6, <2>1, Zenon
  <2>2. CASE q = p /\ m = n
    BY <1>5, <1>6, <2>2, Zenon DEF s
  <2>. QED  BY <2>1, <2>2
<1>. QED  BY <1>6, <1>7, Zenon DEF p, n, StacksGain, StacksGrow

(* MergePopBatch takes the core on the top of a stack away from it.        *)
LEMMA StacksPopped ==
  ASSUME RestOK, NEW cs \in Seq(Cores), NEW c \in 1..Len(cs),
         Stack(cs, c) # <<>>, Pop(cs, c), NEW u, u = Unfinished(cs, c)
  PROVE  /\ m_mapStacks' \in [Pids -> [Names -> Seq(Nat)]]
         /\ Member(m_mapStacks[cs[c].pid][cs[c].funcNam], u)
         /\ StacksLose(cs[c].pid, cs[c].funcNam, u) /\ StacksShrink
<1>. DEFINE p == cs[c].pid
            n == cs[c].funcNam
            s == m_mapStacks[p][n]
            t == SubSeq(s, 1, Len(s) - 1)
<1>1. p \in Pids /\ n \in Names
  BY CoreFields, Zenon
<1>2. m_mapStacks' = [m_mapStacks EXCEPT ![p][n] = t]
  BY Zenon DEF Pop
<1>3. m_mapStacks \in [Pids -> [Names -> Seq(Nat)]]
  BY Zenon DEF RestOK
<1>4. s # <<>> /\ u = s[Len(s)]
  BY Zenon DEF Stack, Unfinished
<1>. HIDE DEF p, n
<1>5. s \in Seq(Nat)
  BY <1>1, <1>3
<1>. HIDE DEF s
<1>6. /\ t \in Seq(Nat)
      /\ Member(s, u)
      /\ \A x : Member(t, x) => Member(s, x)
      /\ Increasing(s) => Increasing(t) /\ \A x : Member(t, x) <=> Member(s, x) /\ x # u
  BY <1>4, <1>5, Popped
<1>. HIDE DEF t
<1>7. /\ m_mapStacks' \in [Pids -> [Names -> Seq(Nat)]]
      /\ m_mapStacks'[p][n] = t
      /\ \A q \in Pids, m \in Names :
           ~(q = p /\ m = n) => m_mapStacks'[q][m] = m_mapStacks[q][m]
  BY <1>1, <1>2, <1>3, <1>6, MapExcept
<1>8. ASSUME NEW q \in Pids, NEW m \in Names
      PROVE  /\ \A x : Member(m_mapStacks'[q][m], x) => Member(m_mapStacks[q][m], x)
             /\ Increasing(m_mapStacks[q][m]) =>
                  /\ Increasing(m_mapStacks'[q][m])
                  /\ \A x : Member(m_mapStacks'[q][m], x) <=>
                              Member(m_mapStacks[q][m], x) /\ ~(q = p /\ m = n /\ x = u)
  <2>1. CASE ~(q = p /\ m = n)
    BY <1>7, <2>1, Zenon
  <2>2. CASE q = p /\ m = n
    BY <1>6, <1>7, <2>2, Zenon DEF s
  <2>. QED  BY <2>1, <2>2
<1>. QED  BY <1>6, <1>7, <1>8, Zenon DEF p, n, s, StacksLose, StacksShrink

(* PushBatch pushes an unfinished core.                                    *)
LEMMA PushKeepsStacks ==
  ASSUME RestOK, NEW cs \in Seq(Cores), NEW c \in 1..Len(cs),
         StacksRefer(cs), PushBatch(cs, c)
  PROVE  /\ m_mapStacks' \in [Pids -> [Names -> Seq(Nat)]]
         /\ StacksRefer(cores)'
<1>1. cores' = cs /\ cs[c].status = "unfinished"
  BY DEF PushBatch
<1>2. m_mapStacks' \in [Pids -> [Names -> Seq(Nat)]]
  BY StacksPushed, Zenon
<1>4. StacksGain(cs[c].pid, cs[c].funcNam, c)
  BY StacksPushed, Zenon
<1>3. ASSUME NEW q \in Pids, NEW m \in Names, NEW x, Member(m_mapStacks'[q][m], x)
      PROVE  /\ x \in 1..Len(cs) /\ cs[x].pid = q /\ cs[x].funcNam = m
             /\ cs[x].status \in {"unfinished", "matched"}
  <2>1. \/ Member(m_mapStacks[q][m], x)
        \/ q = cs[c].pid /\ m = cs[c].funcNam /\ x = c
    BY <1>3, <1>4, Zenon DEF StacksGain
  <2>. QED  BY <1>1, <2>1 DEF StacksRefer
<1>. QED
  BY <1>1, <1>2, <1>3 DEF StacksRefer

(* What MergePopBatch does to the cores: it takes an unfinished core u of   *)
(* the same process and function, and links it and the resumed core c.     *)
LEMMA MergeCores ==
  ASSUME RestOK, NEW cs \in Seq(Cores), NEW c \in 1..Len(cs), c = Len(cs),
         NEW kept \in BOOLEAN, StacksRefer(cs), MergePopBatch(cs, c, kept)
  PROVE  LET u == Unfinished(cs, c)
         IN  /\ Stack(cs, c) # <<>> /\ Pop(cs, c)
             /\ cs[c].status = "resumed" /\ cs[u].status = "unfinished"
             /\ c \in Nat /\ cs[c].pid \in Pids /\ cs[c].funcNam \in Names
             /\ u \in 1..Len(cs) /\ u \in Nat /\ u < c
             /\ cs[u].pid = cs[c].pid /\ cs[u].funcNam = cs[c].funcNam
             /\ cores' \in Seq(Cores) /\ Len(cores') = Len(cs)
             /\ \A d \in 1..Len(cs) : d \notin {u, c} => cores'[d] = cs[d]
             /\ cores'[u].status = "matched" /\ cores'[u].half = c
             /\ cores'[u].pid = cs[c].pid /\ cores'[u].funcNam = cs[c].funcNam
             /\ cores'[c].status = "merged" /\ cores'[c].half = u
             /\ cores'[c].pid = cs[c].pid /\ cores'[c].funcNam = cs[c].funcNam
             /\ \A d \in 1..Len(cs) : cores'[d].numLine = cs[d].numLine
<1>. DEFINE u == Unfinished(cs, c)
<1>1. Stack(cs, c) # <<>> /\ Pop(cs, c) /\ cs[c].status = "resumed" /\ cs[u].status = "unfinished"
  BY DEF MergePopBatch
<1>2. Member(m_mapStacks[cs[c].pid][cs[c].funcNam], u)
  BY <1>1, StacksPopped, Zenon
<1>3. /\ c \in Nat /\ cs[c] \in Cores
      /\ cs[c].pid \in Pids /\ cs[c].funcNam \in Names
  BY CoreFields, Zenon
<1>4. u \in 1..Len(cs) /\ cs[u].pid = cs[c].pid /\ cs[u].funcNam = cs[c].funcNam
  BY <1>2, <1>3 DEF StacksRefer
<1>5. u \in Nat /\ cs[u] \in Cores /\ u < c
  <2>1. u \in Nat /\ cs[u] \in Cores
    BY <1>4, CoreFields
  <2>2. u # c
    BY <1>1
  <2>. QED  BY <1>3, <1>4, <2>1, <2>2
<1>. DEFINE newU == [cs[u] EXCEPT !.status = "matched", !.half = c]
            newC == [cs[c] EXCEPT !.status = "merged",  !.half = u]
<1>6. newU \in Cores /\ newC \in Cores
  BY <1>3, <1>5 DEF Cores, BatchStatus
<1>7. /\ newU.status = "matched" /\ newU.half = c
      /\ newU.pid = cs[c].pid /\ newU.funcNam = cs[c].funcNam
      /\ newC.status = "merged" /\ newC.half = u
      /\ newC.pid = cs[c].pid /\ newC.funcNam = cs[c].funcNam
      /\ newU.numLine = cs[u].numLine /\ newC.numLine = cs[c].numLine
  BY <1>3, <1>4, <1>5 DEF Cores
<1>8. cores' = [[cs EXCEPT ![u] = newU] EXCEPT ![c] = newC]
  <2>1. cores' = [cs EXCEPT ![u].status = "matched", ![u].half = c,
                            ![c].status = "merged",  ![c].half = u]
    BY DEF MergePopBatch
  <2>2. cs \in Seq(Cores) /\ u # c
    BY <1>1
  <2>. QED  BY <1>4, <2>1, <2>2
<1>9. /\ cores' \in Seq(Cores) /\ Len(cores') = Len(cs)
      /\ \A d \in 1..Len(cs) : cores'[d] = IF d = c THEN newC ELSE IF d = u THEN newU ELSE cs[d]
  BY <1>4, <1>5, <1>6, <1>8
<1>. HIDE DEF newU, newC
<1>10. \A d \in 1..Len(cs) : cores'[d].numLine = cs[d].numLine
  BY <1>7, <1>9
<1>11. /\ \A d \in 1..Len(cs) : d \notin {u, c} => cores'[d] = cs[d]
       /\ cores'[u] = newU /\ cores'[c] = newC
  BY <1>4, <1>5, <1>9
<1>. QED  BY <1>1, <1>3, <1>4, <1>5, <1>7, <1>9, <1>10, <1>11

(* No other core was linked to one of the two: the halves still agree.     *)
LEMMA MergeLinksHalves ==
  ASSUME RestOK, NEW cs \in Seq(Cores), NEW c \in 1..Len(cs), c = Len(cs),
         NEW kept \in BOOLEAN,
         HalvesAgree(cs), StacksRefer(cs), MergePopBatch(cs, c, kept)
  PROVE  /\ cores' \in Seq(Cores) /\ Len(cores') = Len(cs)
         /\ HalvesAgree(cores')
         /\ StacksRefer(cores)'
<1>. DEFINE u == Unfinished(cs, c)
<1>1. /\ Stack(cs, c) # <<>> /\ Pop(cs, c)
      /\ cs[c].status = "resumed" /\ cs[u].status = "unfinished"
      /\ c \in Nat /\ cs[c].pid \in Pids /\ cs[c].funcNam \in Names
      /\ u \in 1..Len(cs) /\ u \in Nat /\ u < c
      /\ cs[u].pid = cs[c].pid /\ cs[u].funcNam = cs[c].funcNam
  BY MergeCores
<1>2. /\ cores' \in Seq(Cores) /\ Len(cores') = Len(cs)
      /\ \A d \in 1..Len(cs) : d \notin {u, c} => cores'[d] = cs[d]
      /\ cores'[u].status = "matched" /\ cores'[u].half = c
      /\ cores'[u].pid = cs[c].pid /\ cores'[u].funcNam = cs[c].funcNam
      /\ cores'[c].status = "merged" /\ cores'[c].half = u
      /\ cores'[c].pid = cs[c].pid /\ cores'[c].funcNam = cs[c].funcNam
  BY MergeCores
<1>. HIDE DEF u
<1>3. HalvesAgree(cores')
  <2>. SUFFICES ASSUME NEW d \in 1..Len(cs)
                PROVE  LET core == cores'[d]
                           half == cores'[core.half]
                       IN  /\ core.status \in {"matched", "merged"} =>
                                /\ core.half \in 1..Len(cs)
                                /\ half.half = d
                                /\ half.pid = core.pid /\ half.funcNam = core.funcNam
                           /\ core.status = "merged"  => core.half < d /\ half.status = "matched"
                           /\ core.status = "matched" => d < core.half /\ half.status = "merged"
    BY <1>2 DEF HalvesAgree
  <2>1. CASE d = c
    BY <1>1, <1>2, <2>1
  <2>2. CASE d = u
    BY <1>1, <1>2, <2>2
  <2>3. CASE d # c /\ d # u
    <3>1. cores'[d] = cs[d]
      BY <1>2, <2>3
    <3>2. CASE cs[d].status \notin {"matched", "merged"}
      BY <3>1, <3>2
    <3>3. CASE cs[d].status \in {"matched", "merged"}
      <4>1. cs[d].half \in 1..Len(cs) /\ cs[cs[d].half].status \in {"matched", "merged"}
        BY <3>3 DEF HalvesAgree
      <4>2. cores'[cs[d].half] = cs[cs[d].half]
        BY <1>1, <1>2, <4>1
      <4>. QED  BY <3>1, <4>1, <4>2 DEF HalvesAgree
    <3>. QED  BY <3>2, <3>3
  <2>. QED  BY <2>1, <2>2, <2>3
<1>4. ASSUME NEW q \in Pids, NEW m \in Names, NEW x, Member(m_mapStacks'[q][m], x)
      PROVE  /\ x \in 1..Len(cores') /\ cores'[x].pid = q /\ cores'[x].funcNam = m
             /\ cores'[x].status \in {"unfinished", "matched"}
  <2>1. Member(m_mapStacks[q][m], x)
    <3>1. StacksShrink
      BY <1>1, StacksPopped, Zenon
    <3>. QED  BY <1>4, <3>1, Zenon DEF StacksShrink
  <2>2. /\ x \in 1..Len(cs) /\ cs[x].pid = q /\ cs[x].funcNam = m
        /\ cs[x].status \in {"unfinished", "matched"}
    BY <2>1 DEF StacksRefer
  <2>3. x # c
    BY <1>1, <2>2
  <2>4. CASE x = u
    BY <1>1, <1>2, <2>2, <2>4, Zenon
  <2>5. CASE x # u
    <3>1. cores'[x] = cs[x]
      BY <1>2, <2>2, <2>3, <2>5, Zenon
    <3>. QED  BY <1>2, <2>2, <3>1, Zenon
  <2>. QED  BY <2>4, <2>5
<1>5. StacksRefer(cores)'
  BY <1>4 DEF StacksRefer
<1>. QED  BY <1>2, <1>3, <1>5

(* Every outcome of BatchLetFactory keeps the cores and stacks consistent. *)
LEMMA FactoryKeeps ==
  ASSUME RestOK, NEW cs \in Seq(Cores), NEW c \in 1..Len(cs), c = Len(cs),
         NEW kept \in BOOLEAN,
         HalvesAgree(cs), StacksRefer(cs), BatchLetFactory(cs, c, kept)
  PROVE  /\ cores' \in Seq(Cores) /\ Len(cores') = Len(cs)
         /\ RestOK'
         /\ HalvesAgree(cores')
         /\ StacksRefer(cores)'
<1>1. c \in Nat
  BY CoreFields
<1>2. ASSUME cores' = cs, UNCHANGED m_mapStacks
      PROVE  /\ cores' \in Seq(Cores) /\ Len(cores') = Len(cs)
             /\ m_mapStacks' \in [Pids -> [Names -> Seq(Nat)]]
             /\ HalvesAgree(cores') /\ StacksRefer(cores)'
  BY <1>2 DEF RestOK, StacksRefer
<1>3. CASE UnknownFunction(cs, c)
  BY <1>1, <1>2, <1>3, KeepType DEF UnknownFunction, RestOK
<1>4. CASE IgnoredFunction(cs, c)
  BY <1>2, <1>4 DEF IgnoredFunction, RestOK
<1>5. CASE UnfinishedIsOk(cs, c, kept)
  BY <1>1, <1>2, <1>5, KeepType DEF UnfinishedIsOk, RestOK
<1>6. CASE PushBatch(cs, c)
  <2>1. cores' = cs /\ Keep(c, TRUE) /\ UNCHANGED raised
    BY <1>6 DEF PushBatch
  <2>. QED
    BY <1>1, <1>6, <2>1, PushKeepsStacks, KeepType DEF RestOK
<1>7. CASE MergePopBatch(cs, c, kept)
  <2>1. Keep(c, kept) /\ UNCHANGED raised /\ Stack(cs, c) # <<>> /\ Pop(cs, c)
    BY <1>7 DEF MergePopBatch
  <2>2. RestOK'
    BY <1>1, <2>1, StacksPopped, KeepType DEF RestOK
  <2>. QED
    BY <1>7, <2>2, MergeLinksHalves
<1>8. CASE MergeRaises(cs, c)
  <2>1. cores' = cs /\ Stack(cs, c) # <<>> /\ Pop(cs, c) /\ raised' = TRUE /\ UNCHANGED yielded
    BY <1>8 DEF MergeRaises
  <2>2. RestOK'
    BY <2>1, StacksPopped, Zenon DEF RestOK
  <2>3. StacksShrink
    BY <2>1, StacksPopped, Zenon
  <2>4. ASSUME NEW q \in Pids, NEW m \in Names, NEW x, Member(m_mapStacks'[q][m], x)
        PROVE  /\ x \in 1..Len(cores') /\ cores'[x].pid = q /\ cores'[x].funcNam = m
               /\ cores'[x].status \in {"unfinished", "matched"}
    <3>1. Member(m_mapStacks[q][m], x)
      BY <2>3, <2>4, Zenon DEF StacksShrink
    <3>. QED  BY <2>1, <3>1 DEF StacksRefer
  <2>5. StacksRefer(cores)'
    BY <2>4 DEF StacksRefer
  <2>. QED  BY <2>1, <2>2, <2>5
<1>9. CASE ResumedAlone(cs, c)
  BY <1>1, <1>2, <1>9, KeepType DEF ResumedAlone, RestOK
<1>10. CASE WholeCall(cs, c, kept)
  BY <1>1, <1>2, <1>10, KeepType DEF WholeCall, RestOK
<1>. QED
  BY <1>3, <1>4, <1>5, <1>6, <1>7, <1>8, <1>9, <1>10 DEF BatchLetFactory

(* A new core, which has no other half, leaves the older ones consistent.  *)
LEMMA NewCoreKeeps ==
  ASSUME IInv, NEW core \in Cores, core.half = 0, core.status \notin {"matched", "merged"}
  PROVE  /\ Append(cores, core) \in Seq(Cores)
         /\ Len(Append(cores, core)) = Len(cores) + 1
         /\ \A c \in 1..Len(cores) : Append(cores, core)[c] = cores[c]
         /\ Append(cores, core)[Len(cores) + 1] = core
         /\ HalvesAgree(Append(cores, core))
         /\ StacksRefer(Append(cores, core))
<1>. DEFINE cs == Append(cores, core)
<1>1. cores \in Seq(Cores) /\ Len(cores) \in Nat
  BY DEF IInv, TypeOK
<1>2. /\ cs \in Seq(Cores) /\ Len(cs) = Len(cores) + 1
      /\ \A c \in 1..Len(cores) : cs[c] = cores[c]
      /\ cs[Len(cores) + 1] = core
  BY <1>1
<1>. HIDE DEF cs
<1>3. HalvesAgree(cs)
  BY <1>1, <1>2 DEF IInv, HalvesAgree
<1>4. ASSUME NEW q \in Pids, NEW m \in Names, NEW x, Member(m_mapStacks[q][m], x)
      PROVE  /\ x \in 1..Len(cs) /\ cs[x].pid = q /\ cs[x].funcNam = m
             /\ cs[x].status \in {"unfinished", "matched"}
  <2>1. /\ x \in 1..Len(cores) /\ cores[x].pid = q /\ cores[x].funcNam = m
        /\ cores[x].status \in {"unfinished", "matched"}
    BY <1>4 DEF IInv, StacksRefer
  <2>. QED  BY <1>1, <1>2, <2>1
<1>5. StacksRefer(cs)
  BY <1>4 DEF StacksRefer
<1>. QED  BY <1>2, <1>3, <1>5 DEF cs

LEMMA SeenLine ==
  ASSUME NEW line \in Lines, WellFormed(line)
  PROVE  Seen(line) \in Lines /\ WellFormed(Seen(line))
<1>1. /\ Seen(line) \in Lines /\ Seen(line).kind = line.kind /\ Seen(line).func = line.func
      /\ Seen(line).closed = line.closed /\ Seen(line).shown = line.shown
  BY CallMatchingAssumption DEF Lines, Seen
<1>. QED  BY <1>1, Zenon DEF WellFormed

(* In one turn of the loop, either nothing is parsed or the lines from     *)
(* first to last are.                                                      *)
Turn ==
  \/ UNCHANGED coreVars
  \/ \E first, last \in Lines, kept \in BOOLEAN :
       WellFormed(first) /\ ~raised /\ CreateBatchCore(first, last, kept)

TextOK ==
  /\ numLine \in Nat /\ ended \in BOOLEAN
  /\ oneLine \in Seq(Lines) /\ Len(oneLine) <= 1 /\ HeldOK

LEMMA AnyLineType ==
  ASSUME NEW line \in AnyLine
  PROVE  line \in Lines /\ WellFormed(line)
<1>. DEFINE Kinds == CallKinds \cup {"signal", "exit", "text"}
            Fields == Functions \cup {Nothing}
<1>1. /\ line \in [kind : Kinds, pid : {G_topProcessId}, shown : Pids \cup {Nothing},
                   func : Fields, begin : {0}, closed : BOOLEAN]
      /\ WellFormed(line)
  BY Zenon DEF AnyLine
<1>2. {G_topProcessId} \subseteq Pids
  BY CallMatchingAssumption
<1>. HIDE DEF Kinds, Fields
<1>3. line \in [kind : Kinds, pid : Pids, shown : Pids \cup {Nothing},
                func : Fields, begin : Nat, closed : BOOLEAN]
  BY <1>1, <1>2
<1>. QED  BY <1>1, <1>3, Zenon DEF Lines, Kinds, Fields

LEMMA TurnOfLoop ==
  ASSUME IInv, ReaderNext
  PROVE  Turn /\ TextOK'
<1>0. /\ numLine \in Nat /\ ended \in BOOLEAN
      /\ oneLine \in Seq(Lines) /\ Len(oneLine) <= 1 /\ HeldOK
  BY DEF IInv, TypeOK
<1>1. oneLine # <<>> => Head(oneLine) \in Lines /\ WellFormed(Head(oneLine))
  <2>. SUFFICES ASSUME oneLine # <<>>
                PROVE  Head(oneLine) \in Lines /\ WellFormed(Head(oneLine))
    OBVIOUS
  <2>1. 1 \in 1..Len(oneLine) /\ Head(oneLine) = oneLine[1] /\ oneLine[1] \in Lines
    BY <1>0
  <2>. QED  BY <1>0, <2>1 DEF HeldOK
<1>2. ASSUME NEW line \in AnyLine, NEW kept \in BOOLEAN, ReadLine(line, kept)
      PROVE  Turn /\ TextOK'
  <2>1. line \in Lines /\ WellFormed(line)
    BY AnyLineType
  <2>2. Seen(line) \in Lines /\ WellFormed(Seen(line))
    BY <2>1, SeenLine
  <2>3. First(line) \in Lines /\ WellFormed(First(line))
    BY <1>1, <2>2 DEF First
  <2>4. numLine' \in Nat /\ ended' \in BOOLEAN /\ ~raised
    BY <1>0, <1>2 DEF ReadLine
  <2>5. CASE oneLine' = <<>> /\ CreateBatchCore(First(line), Seen(line), kept)
    <3>1. TextOK'
      BY <2>4, <2>5 DEF TextOK, HeldOK
    <3>. QED  BY <2>2, <2>3, <2>4, <2>5, <3>1 DEF Turn
  <2>6. CASE oneLine' = <<First(line)>> /\ UNCHANGED coreVars
    <3>1. /\ oneLine' \in Seq(Lines) /\ Len(oneLine') = 1
          /\ \A i \in 1..Len(oneLine') : oneLine'[i] = First(line)
      BY <2>3, <2>6
    <3>2. HeldOK'
      BY <2>3, <3>1 DEF HeldOK
    <3>3. TextOK'
      BY <2>4, <3>1, <3>2 DEF TextOK
    <3>. QED  BY <2>6, <3>3 DEF Turn
  <2>. QED  BY <1>2, <2>5, <2>6 DEF ReadLine
<1>3. ASSUME NEW kept \in BOOLEAN, EndOfLog(kept)
      PROVE  Turn /\ TextOK'
  <2>1. numLine' \in Nat /\ ended' \in BOOLEAN /\ ~raised /\ oneLine' = <<>>
    BY <1>0, <1>3 DEF EndOfLog
  <2>2. TextOK'
    BY <2>1 DEF TextOK, HeldOK
  <2>3. CASE oneLine = <<>> /\ UNCHANGED coreVars
    BY <2>2, <2>3 DEF Turn
  <2>4. CASE oneLine # <<>> /\ CreateBatchCore(Head(oneLine), Head(oneLine), kept)
    BY <1>1, <2>1, <2>2, <2>4 DEF Turn
  <2>. QED  BY <1>3, <2>3, <2>4 DEF EndOfLog
<1>. QED  BY <1>2, <1>3 DEF ReaderNext

LEMMA LineKeepsIInv ==
  ASSUME IInv, ReaderNext
  PROVE  IInv'
<1>. USE DEF IInv
<1>1. /\ RestOK /\ allParsed \in BOOLEAN
      /\ cores \in Seq(Cores) /\ Len(cores) \in Nat
  BY DEF RestOK, TypeOK
<1>0. Turn /\ TextOK'
  BY TurnOfLoop
<1>2. ASSUME cores' \in Seq(Cores), batchCore' \in {0, Len(cores')}, RestOK',
             allParsed' \in BOOLEAN
      PROVE  TypeOK' /\ HeldOK'
  BY <1>0, <1>2 DEF RestOK, TypeOK, TextOK
<1>3. ASSUME UNCHANGED <<batchCore, cores, m_mapStacks, yielded, raised>>,
             allParsed' \in BOOLEAN
      PROVE  IInv'
  <2>1. TypeOK' /\ HeldOK'
    BY <1>1, <1>2, <1>3 DEF TypeOK, RestOK
  <2>. QED  BY <1>3, <2>1 DEF StacksRefer
<1>4. ASSUME NEW first \in Lines, NEW last \in Lines, NEW kept \in BOOLEAN, WellFormed(first),
             ReadCall(first, last, kept)
      PROVE  IInv'
  <2>. DEFINE core == ParseLine(first, last)
              cs == Append(cores, core)
              c  == Len(cores) + 1
  <2>1. /\ batchCore' = c /\ BatchLetFactory(cs, c, kept) /\ allParsed' = allParsed
        /\ first.kind \notin {"signal", "exit"}
    BY <1>4 DEF ReadCall
  <2>2. cs \in Seq(Cores) /\ Len(cs) = c /\ HalvesAgree(cs) /\ StacksRefer(cs)
    <3>1. core \in Cores /\ core.half = 0 /\ core.status \notin {"matched", "merged"}
      BY <1>4, <2>1, ParsedCore
    <3>. HIDE DEF core
    <3>. QED  BY <3>1, NewCoreKeeps
  <2>3. c \in 1..Len(cs)
    BY <1>1, <2>2
  <2>. HIDE DEF cs, c
  <2>. QED
    BY <1>1, <1>2, <2>1, <2>2, <2>3, FactoryKeeps
<1>5. ASSUME NEW first, ReadEvent(first)
      PROVE  IInv'
  <2>1. TypeOK' /\ HeldOK'
    BY <1>1, <1>2, <1>5 DEF ReadEvent, RestOK
  <2>. QED  BY <1>5, <2>1 DEF ReadEvent, StacksRefer
<1>6. ASSUME NEW first, NEW kept \in BOOLEAN, ReadUnparsable(first, kept)
      PROVE  IInv'
  <2>0. allParsed' \in BOOLEAN
    BY <1>6 DEF ReadUnparsable
  <2>1. CASE batchCore = 0
    BY <1>3, <1>6, <2>0, <2>1 DEF ReadUnparsable
  <2>2. CASE batchCore # 0
    <3>1. batchCore = Len(cores) /\ batchCore \in 1..Len(cores)
      BY <1>1, <2>2 DEF TypeOK
    <3>2. BatchLetFactory(cores, batchCore, kept) /\ UNCHANGED batchCore
      BY <1>6, <2>2 DEF ReadUnparsable
    <3>. QED
      BY <1>1, <1>2, <2>0, <3>1, <3>2, FactoryKeeps
  <2>. QED  BY <2>1, <2>2
<1>7. UNCHANGED coreVars => IInv'
  BY <1>1, <1>3 DEF coreVars
<1>. QED  BY <1>0, <1>4, <1>5, <1>6, <1>7 DEF Turn, CreateBatchCore

LEMMA InitIInv == ReaderInit => IInv
<1>. SUFFICES ASSUME ReaderInit PROVE IInv
  OBVIOUS
<1>1. cores \in Seq(Cores) /\ Len(cores) = 0 /\ yielded \in Seq(Nat)
  BY DEF ReaderInit
<1>2. \A p \in Pids, n \in Names : \A c : ~Member(m_mapStacks[p][n], c)
  BY DEF ReaderInit, Member
<1>3. m_mapStacks \in [Pids -> [Names -> Seq(Nat)]]
  BY DEF ReaderInit
<1>4. TypeOK
  <2>1. oneLine \in Seq(Lines) /\ Len(oneLine) <= 1
    BY DEF ReaderInit
  <2>2. /\ numLine \in Nat /\ batchCore \in {0, Len(cores)}
        /\ raised \in BOOLEAN /\ ended \in BOOLEAN /\ allParsed \in BOOLEAN
    BY DEF ReaderInit
  <2>. QED  BY <1>1, <1>3, <2>1, <2>2, Zenon DEF TypeOK
<1>5. HalvesAgree(cores)
  BY <1>1 DEF HalvesAgree
<1>6. StacksRefer(cores)
  BY <1>2 DEF StacksRefer
<1>7. HeldOK
  BY DEF ReaderInit, HeldOK
<1>. QED  BY <1>4, <1>5, <1>6, <1>7 DEF IInv

LEMMA NextIInv == IInv /\ [ReaderNext]_readerVars => IInv'
<1>1. CASE UNCHANGED readerVars
  BY <1>1 DEF readerVars, coreVars, IInv, TypeOK, StacksRefer, HeldOK
<1>. QED
  BY <1>1, LineKeepsIInv

(* The state of the loop is well formed after any log: whatever lines the  *)
(* tracer writes, ParseLine, PushBatch and MergePopBatch keep their types. *)
THEOREM TypeCorrect == ReaderSpec => []TypeOK
BY InitIInv, NextIInv, PTL DEF ReaderSpec, IInv

(* MergePopBatch puts two halves together at most once, and only halves of *)
(* one process and function, the unfinished one before the resumed one.    *)
THEOREM HalvesAlwaysAgree == ReaderSpec => []MatchedHalvesAgree
BY InitIInv, NextIInv, PTL DEF ReaderSpec, IInv, MatchedHalvesAgree

-----------------------------------------------------------------------------
(* Logs whose lines can all be parsed.                                     *)

(* The call c, one of the first k, waits in the stack of p and n.          *)
AwaitedIn(cs, k, c, p, n) ==
  c <= k /\ Awaited(cs[c]) /\ cs[c].pid = p /\ cs[c].funcNam = n

(* The stacks hold the awaited calls among the first k cores of cs.        *)
HoldAwaited(cs, k) ==
  \A p \in Pids, n \in Names :
    /\ Increasing(m_mapStacks[p][n])
    /\ \A c \in 1..Len(cs) :
         Member(m_mapStacks[p][n], c) <=> AwaitedIn(cs, k, c, p, n)

(* The same of the stacks and the cores after a step.                      *)
LEMMA HoldNext ==
  ASSUME \A p \in Pids, n \in Names : Increasing(m_mapStacks'[p][n]),
         NEW cs, cores' = cs,
         \A p \in Pids, n \in Names : \A c \in 1..Len(cs) :
           Member(m_mapStacks'[p][n], c) <=> AwaitedIn(cs, Len(cs), c, p, n)
  PROVE  HoldAwaited(cores, Len(cores))'
<1>1. \A p \in Pids, n \in Names : \A c \in 1..Len(cores') :
        Member(m_mapStacks'[p][n], c) <=> AwaitedIn(cores', Len(cores'), c, p, n)
  OBVIOUS
<1>2. \A p \in Pids, n \in Names :
        /\ Increasing(m_mapStacks'[p][n])
        /\ \A c \in 1..Len(cores') :
             Member(m_mapStacks'[p][n], c) <=> AwaitedIn(cores', Len(cores'), c, p, n)
  BY <1>1, Zenon
<1>. QED  BY <1>2 DEF HoldAwaited, AwaitedIn, Awaited

PInv == allParsed => ~raised /\ HoldAwaited(cores, Len(cores))

LEMMA HoldAwaitedDef ==
  ASSUME cores \in Seq(Cores), HoldAwaited(cores, Len(cores))
  PROVE  StacksHoldAwaited
<1>1. ASSUME NEW p \in Pids, NEW n \in Names
      PROVE  LET stack == m_mapStacks[p][n]
             IN  /\ \A i, j \in 1..Len(stack) : i < j => stack[i] < stack[j]
                 /\ \A c \in 1..Len(cores) :
                      (\E i \in 1..Len(stack) : stack[i] = c)
                        <=> Awaited(cores[c]) /\ cores[c].pid = p /\ cores[c].funcNam = n
  <2>1. Increasing(m_mapStacks[p][n])
    BY Zenon DEF HoldAwaited
  <2>2. ASSUME NEW c \in 1..Len(cores)
        PROVE  Member(m_mapStacks[p][n], c)
                 <=> Awaited(cores[c]) /\ cores[c].pid = p /\ cores[c].funcNam = n
    <3>1. c <= Len(cores)
      OBVIOUS
    <3>2. Member(m_mapStacks[p][n], c) <=> AwaitedIn(cores, Len(cores), c, p, n)
      BY Zenon DEF HoldAwaited
    <3>. QED  BY <3>1, <3>2, Zenon DEF AwaitedIn
  <2>. QED  BY <2>1, <2>2, Zenon DEF Increasing, Member
<1>. QED  BY <1>1, Zenon DEF StacksHoldAwaited

(* An outcome that touches no stack was given a core nobody awaits.        *)
LEMMA UntouchedHold ==
  ASSUME NEW cs \in Seq(Cores), NEW c \in 1..Len(cs), c = Len(cs),
         HoldAwaited(cs, Len(cs) - 1), ~Awaited(cs[c]),
         cores' = cs, UNCHANGED m_mapStacks
  PROVE  HoldAwaited(cores, Len(cores))'
<1>1. ASSUME NEW p \in Pids, NEW n \in Names
      PROVE  Increasing(m_mapStacks[p][n])
  BY Zenon DEF HoldAwaited
<1>2. ASSUME NEW p \in Pids, NEW n \in Names, NEW d \in 1..Len(cs)
      PROVE  Member(m_mapStacks[p][n], d) <=> AwaitedIn(cs, Len(cs), d, p, n)
  <2>1. Member(m_mapStacks[p][n], d) <=> AwaitedIn(cs, Len(cs) - 1, d, p, n)
    BY Zenon DEF HoldAwaited
  <2>2. d <= Len(cs) /\ (d <= Len(cs) - 1 \/ d = c)
    OBVIOUS
  <2>. QED  BY <2>1, <2>2, Zenon DEF AwaitedIn
<1>. QED
  BY <1>1, <1>2, HoldNext, Zenon

(* The awaited core that PushBatch adds is newer than all the others.      *)
LEMMA PushHold ==
  ASSUME RestOK, NEW cs \in Seq(Cores), NEW c \in 1..Len(cs), c = Len(cs),
         StacksRefer(cs), HoldAwaited(cs, Len(cs) - 1), PushBatch(cs, c)
  PROVE  HoldAwaited(cores, Len(cores))'
<1>1. cores' = cs /\ Awaited(cs[c])
  <2>1. cs[c].funcNam \in Names
    BY CoreFields, Zenon
  <2>2. G_batchModels[cs[c].funcNam] \in Models
    BY <2>1, CallMatchingAssumption
  <2>. QED  BY <2>2 DEF PushBatch, HasClass, Model, Models, Awaited
<1>2. StacksGain(cs[c].pid, cs[c].funcNam, c) /\ StacksGrow(c)
  BY StacksPushed, Zenon
<1>3. ASSUME NEW q \in Pids, NEW m \in Names, NEW x, Member(m_mapStacks[q][m], x)
      PROVE  x < c
  <2>1. x \in 1..Len(cs)
    BY <1>3, Zenon DEF StacksRefer
  <2>2. x <= Len(cs) - 1
    BY <1>3, <2>1, Zenon DEF HoldAwaited, AwaitedIn
  <2>. QED  BY <2>1, <2>2
<1>4. ASSUME NEW q \in Pids, NEW m \in Names
      PROVE  Increasing(m_mapStacks'[q][m])
  <2>1. Increasing(m_mapStacks[q][m])
    BY Zenon DEF HoldAwaited
  <2>. QED  BY <1>2, <1>3, <2>1, Zenon DEF StacksGrow
<1>5. ASSUME NEW q \in Pids, NEW m \in Names, NEW d \in 1..Len(cs)
      PROVE  Member(m_mapStacks'[q][m], d) <=> AwaitedIn(cs, Len(cs), d, q, m)
  <2>1. Member(m_mapStacks[q][m], d) <=> AwaitedIn(cs, Len(cs) - 1, d, q, m)
    BY Zenon DEF HoldAwaited
  <2>2. Member(m_mapStacks'[q][m], d) <=>
          \/ Member(m_mapStacks[q][m], d)
          \/ q = cs[c].pid /\ m = cs[c].funcNam /\ d = c
    BY <1>2, Zenon DEF StacksGain
  <2>3. d <= Len(cs) /\ (d <= Len(cs) - 1 <=> d # c)
    OBVIOUS
  <2>4. CASE d = c
    <3>1. ~Member(m_mapStacks[q][m], d)
      BY <2>1, <2>3, <2>4, Zenon DEF AwaitedIn
    <3>2. Member(m_mapStacks'[q][m], d) <=> q = cs[d].pid /\ m = cs[d].funcNam
      BY <2>2, <2>4, <3>1, Zenon
    <3>3. d <= Len(cs) /\ Awaited(cs[d])
      BY <1>1, <2>3, <2>4
    <3>. QED  BY <3>2, <3>3 DEF AwaitedIn
  <2>5. CASE d # c
    <3>1. Member(m_mapStacks'[q][m], d) <=> AwaitedIn(cs, Len(cs) - 1, d, q, m)
      BY <2>1, <2>2, <2>5, Zenon
    <3>. QED  BY <2>3, <2>5, <3>1, Zenon DEF AwaitedIn
  <2>. QED  BY <2>4, <2>5, Zenon
<1>. QED
  BY <1>1, <1>4, <1>5, HoldNext, Zenon

(* MergePopBatch takes the latest awaited call away: the stack was         *)
(* increasing, so that call is not in the rest of it.                      *)
LEMMA MergeHold ==
  ASSUME RestOK, NEW cs \in Seq(Cores), NEW c \in 1..Len(cs), c = Len(cs),
         NEW kept \in BOOLEAN,
         StacksRefer(cs), HoldAwaited(cs, Len(cs) - 1), MergePopBatch(cs, c, kept)
  PROVE  HoldAwaited(cores, Len(cores))'
<1>. DEFINE u == Unfinished(cs, c)
<1>1. /\ Stack(cs, c) # <<>> /\ Pop(cs, c)
      /\ cs[c].status = "resumed"
      /\ cs[u].pid = cs[c].pid /\ cs[u].funcNam = cs[c].funcNam
  BY MergeCores
<1>2. /\ Len(cores') = Len(cs)
      /\ \A d \in 1..Len(cs) : d \notin {u, c} => cores'[d] = cs[d]
      /\ cores'[u].status = "matched" /\ cores'[c].status = "merged"
  BY MergeCores
<1>3. StacksLose(cs[c].pid, cs[c].funcNam, u)
  BY <1>1, StacksPopped, Zenon
<1>. HIDE DEF u
<1>5. ASSUME NEW q \in Pids, NEW m \in Names
      PROVE  /\ Increasing(m_mapStacks'[q][m])
             /\ \A x : Member(m_mapStacks'[q][m], x) <=>
                         /\ Member(m_mapStacks[q][m], x)
                         /\ ~(q = cs[c].pid /\ m = cs[c].funcNam /\ x = u)
  <2>1. Increasing(m_mapStacks[q][m])
    BY Zenon DEF HoldAwaited
  <2>. QED  BY <1>3, <2>1, Zenon DEF StacksLose
<1>4. ASSUME NEW q \in Pids, NEW m \in Names, NEW d \in 1..Len(cs)
      PROVE  Member(m_mapStacks'[q][m], d) <=> AwaitedIn(cores', Len(cs), d, q, m)
  <2>1. Member(m_mapStacks[q][m], d) <=> AwaitedIn(cs, Len(cs) - 1, d, q, m)
    BY Zenon DEF HoldAwaited
  <2>2. Member(m_mapStacks'[q][m], d) <=>
          /\ Member(m_mapStacks[q][m], d)
          /\ ~(q = cs[c].pid /\ m = cs[c].funcNam /\ d = u)
    BY <1>5, Zenon
  <2>3. d <= Len(cs) /\ (d # c => d <= Len(cs) - 1)
    OBVIOUS
  <2>4. CASE d = u
    <3>1. ~Awaited(cores'[d])
      BY <1>2, <2>4 DEF Awaited
    <3>2. Member(m_mapStacks[q][m], d) => q = cs[c].pid /\ m = cs[c].funcNam
      BY <1>1, <2>1, <2>4, Zenon DEF AwaitedIn
    <3>3. ~Member(m_mapStacks'[q][m], d)
      BY <2>2, <2>4, <3>2, Zenon
    <3>. QED  BY <3>1, <3>3, Zenon DEF AwaitedIn
  <2>5. CASE d = c
    <3>1. ~Awaited(cores'[d]) /\ ~Awaited(cs[d])
      BY <1>1, <1>2, <2>5 DEF Awaited
    <3>. QED  BY <2>1, <2>2, <3>1, Zenon DEF AwaitedIn
  <2>6. CASE d # u /\ d # c
    <3>1. cores'[d] = cs[d]
      BY <1>2, <2>6
    <3>2. Member(m_mapStacks'[q][m], d) <=> AwaitedIn(cs, Len(cs) - 1, d, q, m)
      BY <2>1, <2>2, <2>6, Zenon
    <3>. QED  BY <2>3, <2>6, <3>1, <3>2, Zenon DEF AwaitedIn
  <2>. QED  BY <2>4, <2>5, <2>6, Zenon
<1>. QED
  BY <1>2, <1>4, <1>5, HoldNext, Zenon

(* The sanity check of MergePopBatch finds an awaited call, so it passes.  *)
LEMMA TopIsAwaited ==
  ASSUME RestOK, NEW cs \in Seq(Cores), NEW c \in 1..Len(cs),
         StacksRefer(cs), HoldAwaited(cs, Len(cs) - 1), Stack(cs, c) # <<>>
  PROVE  cs[Unfinished(cs, c)].status = "unfinished"
<1>. DEFINE p == cs[c].pid
            n == cs[c].funcNam
            u == Unfinished(cs, c)
<1>1. p \in Pids /\ n \in Names
  BY CoreFields, Zenon
<1>2. Member(m_mapStacks[p][n], u)
  <2>1. m_mapStacks[p][n] \in Seq(Nat)
    BY <1>1 DEF RestOK
  <2>2. m_mapStacks[p][n] # <<>>
    BY Zenon DEF Stack
  <2>3. Member(m_mapStacks[p][n], m_mapStacks[p][n][Len(m_mapStacks[p][n])])
    BY <2>1, <2>2, Popped
  <2>. QED  BY <2>3, Zenon DEF Unfinished, Stack
<1>. HIDE DEF p, n, u
<1>3. u \in 1..Len(cs)
  BY <1>1, <1>2, Zenon DEF StacksRefer
<1>4. Awaited(cs[u])
  BY <1>1, <1>2, <1>3, Zenon DEF HoldAwaited, AwaitedIn
<1>. QED  BY <1>4 DEF Awaited, u

LEMMA FactoryHold ==
  ASSUME RestOK, ~raised, NEW cs \in Seq(Cores), NEW c \in 1..Len(cs), c = Len(cs),
         NEW kept \in BOOLEAN,
         StacksRefer(cs), HoldAwaited(cs, Len(cs) - 1), BatchLetFactory(cs, c, kept)
  PROVE  ~raised' /\ HoldAwaited(cores, Len(cores))'
<1>2. ASSUME ~Awaited(cs[c]), cores' = cs, UNCHANGED <<m_mapStacks, raised>>
      PROVE  ~raised' /\ HoldAwaited(cores, Len(cores))'
  BY <1>2, UntouchedHold
<1>3. CASE UnknownFunction(cs, c)
  BY <1>2, <1>3 DEF UnknownFunction, Model, Awaited
<1>4. CASE IgnoredFunction(cs, c)
  BY <1>2, <1>4 DEF IgnoredFunction, Model, Awaited
<1>5. CASE UnfinishedIsOk(cs, c, kept)
  BY <1>2, <1>5 DEF UnfinishedIsOk, Model, Awaited
<1>6. CASE PushBatch(cs, c)
  <2>1. UNCHANGED raised
    BY <1>6 DEF PushBatch
  <2>. QED  BY <1>6, <2>1, PushHold
<1>7. CASE MergePopBatch(cs, c, kept)
  <2>1. UNCHANGED raised
    BY <1>7 DEF MergePopBatch
  <2>. QED  BY <1>7, <2>1, MergeHold
<1>8. CASE MergeRaises(cs, c)
  BY <1>8, TopIsAwaited DEF MergeRaises
<1>9. CASE ResumedAlone(cs, c)
  BY <1>2, <1>9 DEF ResumedAlone, Awaited
<1>10. CASE WholeCall(cs, c, kept)
  BY <1>2, <1>10 DEF WholeCall, Awaited
<1>. QED
  BY <1>3, <1>4, <1>5, <1>6, <1>7, <1>8, <1>9, <1>10 DEF BatchLetFactory

(* A new core is not on the stacks yet.                                    *)
LEMMA NewCoreHold ==
  ASSUME IInv, HoldAwaited(cores, Len(cores)), NEW cs, Len(cs) = Len(cores) + 1,
         \A d \in 1..Len(cores) : cs[d] = cores[d]
  PROVE  HoldAwaited(cs, Len(cs) - 1)
<1>1. Len(cores) \in Nat /\ Len(cs) - 1 = Len(cores)
  BY DEF IInv, TypeOK
<1>2. ASSUME NEW p \in Pids, NEW n \in Names
      PROVE  Increasing(m_mapStacks[p][n])
  BY Zenon DEF HoldAwaited
<1>3. ASSUME NEW p \in Pids, NEW n \in Names, NEW d \in 1..Len(cs)
      PROVE  Member(m_mapStacks[p][n], d) <=> AwaitedIn(cs, Len(cs) - 1, d, p, n)
  <2>1. CASE d \in 1..Len(cores)
    <3>1. cs[d] = cores[d]
      BY <2>1, Zenon
    <3>2. Member(m_mapStacks[p][n], d) <=> AwaitedIn(cores, Len(cores), d, p, n)
      BY <2>1, Zenon DEF HoldAwaited
    <3>. QED  BY <1>1, <3>1, <3>2, Zenon DEF AwaitedIn
  <2>2. CASE d \notin 1..Len(cores)
    <3>1. ~Member(m_mapStacks[p][n], d)
      BY <2>2, Zenon DEF IInv, StacksRefer
    <3>2. ~(d <= Len(cores))
      BY <1>1, <2>2
    <3>. QED  BY <1>1, <3>1, <3>2, Zenon DEF AwaitedIn
  <2>. QED  BY <2>1, <2>2, Zenon
<1>. QED  BY <1>2, <1>3, Zenon DEF HoldAwaited

LEMMA LineKeepsPInv ==
  ASSUME IInv, PInv, ReaderNext
  PROVE  PInv'
<1>. SUFFICES ASSUME allParsed'
              PROVE  ~raised' /\ HoldAwaited(cores, Len(cores))'
  BY DEF PInv
<1>0. Turn
  BY TurnOfLoop
<1>1. RestOK /\ cores \in Seq(Cores) /\ Len(cores) \in Nat /\ StacksRefer(cores)
  BY DEF IInv, TypeOK, RestOK
<1>2. CASE UNCHANGED coreVars
  BY <1>2 DEF coreVars, PInv, HoldAwaited, Awaited
<1>3. ASSUME NEW first \in Lines, NEW last \in Lines, NEW kept \in BOOLEAN, WellFormed(first),
             ReadCall(first, last, kept)
      PROVE  ~raised' /\ HoldAwaited(cores, Len(cores))'
  <2>. DEFINE core == ParseLine(first, last)
              cs == Append(cores, core)
              c  == Len(cores) + 1
  <2>0. /\ batchCore' = c /\ BatchLetFactory(cs, c, kept) /\ first.kind \notin {"signal", "exit"}
        /\ allParsed
    BY <1>3 DEF ReadCall
  <2>1. ~raised /\ HoldAwaited(cores, Len(cores))
    BY <2>0 DEF PInv
  <2>2. /\ cs \in Seq(Cores) /\ Len(cs) = c /\ StacksRefer(cs)
        /\ \A d \in 1..Len(cores) : cs[d] = cores[d]
    <3>1. core \in Cores /\ core.half = 0 /\ core.status \notin {"matched", "merged"}
      BY <1>3, <2>0, ParsedCore DEF IInv
    <3>. HIDE DEF core
    <3>. QED  BY <3>1, NewCoreKeeps
  <2>3. c \in 1..Len(cs) /\ Len(cs) = Len(cores) + 1
    BY <1>1, <2>2
  <2>. HIDE DEF cs, c
  <2>4. HoldAwaited(cs, Len(cs) - 1)
    BY <2>1, <2>2, <2>3, NewCoreHold
  <2>5. c = Len(cs)
    BY <2>2
  <2>. QED
    BY <1>1, <2>0, <2>1, <2>2, <2>3, <2>4, <2>5, FactoryHold
<1>4. ASSUME NEW first, ReadEvent(first)
      PROVE  ~raised' /\ HoldAwaited(cores, Len(cores))'
  BY <1>4 DEF ReadEvent, PInv, HoldAwaited, Awaited
<1>. QED  BY <1>0, <1>2, <1>3, <1>4 DEF Turn, CreateBatchCore, ReadUnparsable

LEMMA InitPInv == ReaderInit => PInv
<1>. SUFFICES ASSUME ReaderInit PROVE ~raised /\ HoldAwaited(cores, Len(cores))
  BY DEF PInv
<1>1. Len(cores) = 0 /\ \A p \in Pids, n \in Names : m_mapStacks[p][n] = <<>>
  BY DEF ReaderInit
<1>2. ASSUME NEW p \in Pids, NEW n \in Names
      PROVE  Increasing(m_mapStacks[p][n])
  BY <1>1 DEF Increasing
<1>. QED  BY <1>1, <1>2 DEF ReaderInit, HoldAwaited

LEMMA NextPInv == IInv /\ PInv /\ [ReaderNext]_readerVars => PInv'
<1>1. CASE UNCHANGED readerVars
  BY <1>1 DEF readerVars, coreVars, PInv, HoldAwaited, Awaited
<1>. QED
  BY <1>1, LineKeepsPInv

(* When all the lines can be parsed, the "Unfinished status is not plain"  *)
(* exception of MergePopBatch never ends the analysis.                     *)
THEOREM ParsableNeverRaises == ReaderSpec => []NeverRaises
<1>1. PInv => NeverRaises
  BY DEF PInv, NeverRaises
<1>. QED
  BY <1>1, InitIInv, NextIInv, InitPInv, NextPInv, PTL DEF ReaderSpec

(* When all the lines can be parsed, the stacks of UnfinishedBatches hold  *)
(* every call that waits for its second half, once and in the order of the *)
(* log, and no other call.                                                 *)
THEOREM ParsableStacksExact == ReaderSpec => []StacksHoldAwaited
<1>1. IInv /\ PInv => StacksHoldAwaited
  <2>. SUFFICES ASSUME IInv, PInv PROVE StacksHoldAwaited
    OBVIOUS
  <2>1. cores \in Seq(Cores)
    BY DEF IInv, TypeOK
  <2>2. CASE allParsed
    BY <2>1, <2>2, HoldAwaitedDef DEF PInv
  <2>3. CASE ~allParsed
    BY <2>3 DEF StacksHoldAwaited
  <2>. QED  BY <2>2, <2>3
<1>. QED
  BY <1>1, InitIInv, NextIInv, InitPInv, NextPInv, PTL DEF ReaderSpec

-----------------------------------------------------------------------------
(* What one step does to the cores made before it.                         *)
CoreAdvances(core, next) ==
  \/ next = core
  \/ core.status = "unfinished" /\ next.status = "matched"
  \/ core.status = "resumed"    /\ next.status = "merged"

LEMMA FactoryAdvances ==
  ASSUME RestOK, NEW cs \in Seq(Cores), NEW c \in 1..Len(cs), c = Len(cs),
         NEW kept \in BOOLEAN, StacksRefer(cs), BatchLetFactory(cs, c, kept)
  PROVE  \A d \in 1..Len(cs) : CoreAdvances(cs[d], cores'[d])
<1>1. CASE cores' = cs
  BY <1>1 DEF CoreAdvances
<1>2. CASE MergePopBatch(cs, c, kept)
  <2>. DEFINE u == Unfinished(cs, c)
  <2>1. /\ cs[c].status = "resumed" /\ cs[u].status = "unfinished"
        /\ \A d \in 1..Len(cs) : d \notin {u, c} => cores'[d] = cs[d]
        /\ cores'[u].status = "matched" /\ cores'[c].status = "merged"
    BY <1>2, MergeCores
  <2>. HIDE DEF u
  <2>. QED  BY <2>1 DEF CoreAdvances
<1>3. cores' = cs \/ MergePopBatch(cs, c, kept)
  BY DEF BatchLetFactory, UnknownFunction, IgnoredFunction, UnfinishedIsOk, PushBatch,
         MergeRaises, ResumedAlone, WholeCall
<1>. QED  BY <1>1, <1>2, <1>3

CoresAdvance == \A d \in 1..Len(cores) : CoreAdvances(cores[d], cores'[d])

LEMMA LineAdvances ==
  ASSUME IInv, ReaderNext
  PROVE  CoresAdvance
<1>. USE DEF CoresAdvance
<1>0. Turn
  BY TurnOfLoop
<1>1. RestOK /\ cores \in Seq(Cores) /\ Len(cores) \in Nat /\ StacksRefer(cores)
  BY DEF IInv, RestOK, TypeOK
<1>2. ASSUME UNCHANGED cores
      PROVE  \A d \in 1..Len(cores) : CoreAdvances(cores[d], cores'[d])
  BY <1>2 DEF CoreAdvances
<1>3. ASSUME NEW first \in Lines, NEW last \in Lines, NEW kept \in BOOLEAN, WellFormed(first),
             ReadCall(first, last, kept)
      PROVE  CoresAdvance
  <2>. DEFINE core == ParseLine(first, last)
              cs == Append(cores, core)
              c  == Len(cores) + 1
  <2>1. BatchLetFactory(cs, c, kept) /\ first.kind \notin {"signal", "exit"}
    BY <1>3 DEF ReadCall
  <2>2. /\ cs \in Seq(Cores) /\ Len(cs) = c /\ StacksRefer(cs)
        /\ \A d \in 1..Len(cores) : cs[d] = cores[d]
    <3>1. core \in Cores /\ core.half = 0 /\ core.status \notin {"matched", "merged"}
      BY <1>3, <2>1, ParsedCore DEF IInv
    <3>. HIDE DEF core
    <3>. QED  BY <3>1, NewCoreKeeps
  <2>3. c \in 1..Len(cs) /\ \A d \in 1..Len(cores) : d \in 1..Len(cs)
    BY <1>1, <2>2
  <2>. HIDE DEF cs, c
  <2>4. \A d \in 1..Len(cs) : CoreAdvances(cs[d], cores'[d])
    BY <1>1, <2>1, <2>2, <2>3, FactoryAdvances
  <2>. QED  BY <2>2, <2>3, <2>4
<1>4. ASSUME NEW first, NEW kept \in BOOLEAN, ReadUnparsable(first, kept)
      PROVE  CoresAdvance
  <2>1. CASE batchCore = 0
    BY <1>2, <1>4, <2>1 DEF ReadUnparsable
  <2>2. CASE batchCore # 0
    <3>1. batchCore = Len(cores) /\ batchCore \in 1..Len(cores)
      BY <1>1, <2>2 DEF IInv, TypeOK
    <3>2. BatchLetFactory(cores, batchCore, kept)
      BY <1>4, <2>2 DEF ReadUnparsable
    <3>. QED  BY <1>1, <3>1, <3>2, FactoryAdvances
  <2>. QED  BY <2>1, <2>2
<1>5. \A first : ReadEvent(first) => UNCHANGED cores
  BY DEF ReadEvent
<1>6. UNCHANGED coreVars => UNCHANGED cores
  BY DEF coreVars
<1>. QED  BY <1>0, <1>2, <1>3, <1>4, <1>5, <1>6 DEF Turn, CreateBatchCore

(* Whatever the log, a core that is matched or merged keeps its status and *)
(* its other half: MergePopBatch only links cores that had none.           *)
THEOREM LinksFinal == ReaderSpec => LinksAreFinal
<1>1. IInv /\ [ReaderNext]_readerVars =>
        [ \A c \in 1..Len(cores) :
            \/ cores'[c] = cores[c]
            \/ cores[c].status = "unfinished" /\ cores'[c].status = "matched"
            \/ cores[c].status = "resumed"    /\ cores'[c].status = "merged" ]_readerVars
  <2>1. IInv /\ ReaderNext => CoresAdvance
    BY LineAdvances
  <2>. QED  BY <2>1, Zenon DEF CoresAdvance, CoreAdvances
<1>. QED
  BY <1>1, InitIInv, NextIInv, PTL DEF ReaderSpec, LinksAreFinal

-----------------------------------------------------------------------------
(* The cores of the batches yielded were made before, in this order.       *)
YieldInv ==
  allParsed =>
    /\ \A i, j \in 1..Len(yielded) : i < j => yielded[i] < yielded[j]
    /\ \A i \in 1..Len(yielded) : yielded[i] <= Len(cores)

LEMMA FactoryYields ==
  ASSUME NEW cs, NEW c, NEW kept \in BOOLEAN, BatchLetFactory(cs, c, kept)
  PROVE  yielded' = yielded \/ yielded' = Append(yielded, c)
BY DEF BatchLetFactory, UnknownFunction, IgnoredFunction, UnfinishedIsOk, PushBatch,
       MergePopBatch, MergeRaises, ResumedAlone, WholeCall, Keep

LEMMA LineKeepsYieldInv ==
  ASSUME IInv, YieldInv, ReaderNext
  PROVE  YieldInv'
<1>. SUFFICES ASSUME allParsed'
              PROVE  YieldInv'
  BY DEF YieldInv
<1>0. Turn
  BY TurnOfLoop
<1>1. UNCHANGED coreVars => YieldInv'
  BY DEF coreVars, YieldInv
<1>2. yielded \in Seq(Nat) /\ Len(yielded) \in Nat /\ Len(cores) \in Nat
  BY DEF IInv, TypeOK
<1>3. ASSUME NEW first \in Lines, NEW last \in Lines, NEW kept \in BOOLEAN, WellFormed(first),
             ReadCall(first, last, kept)
      PROVE  YieldInv'
  <2>. DEFINE core == ParseLine(first, last)
              cs == Append(cores, core)
              c  == Len(cores) + 1
  <2>1. BatchLetFactory(cs, c, kept) /\ first.kind \notin {"signal", "exit"} /\ allParsed
    BY <1>3 DEF ReadCall
  <2>2. Len(cores') = c
    <3>1. cs \in Seq(Cores) /\ Len(cs) = c /\ HalvesAgree(cs) /\ StacksRefer(cs)
      <4>1. core \in Cores /\ core.half = 0 /\ core.status \notin {"matched", "merged"}
        BY <1>3, <2>1, ParsedCore DEF IInv
      <4>. HIDE DEF core
      <4>. QED  BY <4>1, NewCoreKeeps
    <3>2. RestOK /\ c \in 1..Len(cs)
      BY <1>2, <3>1 DEF IInv, TypeOK, RestOK
    <3>. HIDE DEF cs, c
    <3>. QED  BY <2>1, <3>1, <3>2, FactoryKeeps
  <2>3. CASE yielded' = yielded
    BY <1>2, <2>1, <2>2, <2>3 DEF YieldInv
  <2>4. CASE yielded' = Append(yielded, c)
    <3>1. /\ Len(yielded') = Len(yielded) + 1 /\ yielded'[Len(yielded) + 1] = c
          /\ \A i \in 1..Len(yielded) : yielded'[i] = yielded[i] /\ yielded[i] \in Nat
      BY <1>2, <2>4
    <3>2. \A i \in 1..Len(yielded) : yielded[i] < c
      BY <1>2, <2>1, <3>1 DEF YieldInv
    <3>3. /\ \A i, j \in 1..Len(yielded) : i < j => yielded[i] < yielded[j]
          /\ c \in Nat
      BY <1>2, <2>1 DEF YieldInv
    <3>. HIDE DEF c
    <3>4. ASSUME NEW i \in 1..Len(yielded'), NEW j \in 1..Len(yielded'), i < j
          PROVE  yielded'[i] < yielded'[j]
      <4>1. i \in 1..Len(yielded)
        BY <1>2, <3>1, <3>4
      <4>2. CASE j = Len(yielded) + 1
        BY <3>1, <3>2, <4>1, <4>2
      <4>3. CASE j \in 1..Len(yielded)
        BY <3>1, <3>3, <3>4, <4>1, <4>3
      <4>. QED  BY <1>2, <3>1, <4>2, <4>3
    <3>5. ASSUME NEW i \in 1..Len(yielded')
          PROVE  yielded'[i] <= Len(cores')
      <4>1. CASE i = Len(yielded) + 1
        BY <2>2, <3>1, <3>3, <4>1
      <4>2. CASE i \in 1..Len(yielded)
        <5>1. yielded'[i] \in Nat /\ yielded'[i] < c
          BY <3>1, <3>2, <4>2
        <5>. QED  BY <2>2, <3>3, <5>1
      <4>. QED  BY <1>2, <3>1, <4>1, <4>2
    <3>. QED  BY <3>4, <3>5 DEF YieldInv
  <2>. QED  BY <2>1, <2>3, <2>4, FactoryYields
<1>4. ASSUME NEW first, ReadEvent(first)
      PROVE  YieldInv'
  BY <1>4 DEF ReadEvent, YieldInv
<1>. QED  BY <1>0, <1>1, <1>3, <1>4 DEF Turn, CreateBatchCore, ReadUnparsable

(* When all the lines can be parsed, each call is yielded once at most, in *)
(* the order of the log: batchCore never is the core of an earlier line.   *)
THEOREM ParsableYielded == ReaderSpec => []ParsableYieldedOnce
<1>1. ReaderInit => YieldInv
  BY DEF ReaderInit, YieldInv
<1>2. IInv /\ YieldInv /\ [ReaderNext]_readerVars => YieldInv'
  <2>1. CASE UNCHANGED readerVars
    BY <2>1 DEF readerVars, coreVars, YieldInv
  <2>. QED  BY <2>1, LineKeepsYieldInv
<1>3. YieldInv => ParsableYieldedOnce
  BY DEF YieldInv, ParsableYieldedOnce, CallsYieldedOnce
<1>. QED
  BY <1>1, <1>2, <1>3, InitIInv, NextIInv, PTL DEF ReaderSpec

=============================================================================
