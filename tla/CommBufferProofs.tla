-------------------------- MODULE CommBufferProofs --------------------------
(***************************************************************************)
(* The buffer of Communication is correct for any number of commands and   *)
(* retries: the registered commands go out once and in order, whatever     *)
(* single commands and exceptions come between; and when answers are not   *)
(* late and callers collect before they call single_read, a call returns   *)
(* the answers of its own reads.                                           *)
(***************************************************************************)
EXTENDS CommBuffer, TLAPS, SequenceTheorems, FiniteSetTheorems

-----------------------------------------------------------------------------
\* The commands of s that are in K: their numbers, and that these increase;
\* and that no number comes twice.
Those(s, K) == {s[i].id : i \in {k \in DOMAIN s : s[k] \in K}}
Ordered(s, K) ==
  \A i, j \in DOMAIN s : i < j /\ s[i] \in K /\ s[j] \in K => s[i].id < s[j].id
Apart(s) == \A i, j \in DOMAIN s : i < j => s[i].id # s[j].id
Before(S, T) == \A x \in S, y \in T : x < y

ReadCmds == {c \in Cmd : c.read}
BatchCmds == {c \in Cmd : c.by = "batch"}

LEMMA Number == ASSUME NEW c \in Cmd PROVE c.id \in Nat
BY CommBufferAssumption DEF Cmd

LEMMA Numbers ==
  ASSUME NEW s \in Seq(Cmd)
  PROVE  /\ IdsOf(s) = Those(s, Cmd) /\ ReadsOf(s) = Those(s, ReadCmds)
         /\ BatchOf(s) = Those(s, BatchCmds)
         /\ \A K : Those(s, K) \subseteq 1..MaxCmds /\ Those(s, K) \subseteq IdsOf(s)
<1>1. DOMAIN s = 1..Len(s) /\ \A k \in DOMAIN s : s[k] \in Cmd
  BY LenProperties, ElementOfSeq
<1> QED
  BY <1>1 DEF IdsOf, ReadsOf, BatchOf, Those, ReadCmds, BatchCmds, Cmd

LEMMA Empty ==
  ASSUME NEW K
  PROVE  Those(<<>>, K) = {} /\ Ordered(<<>>, K) /\ Apart(<<>>) /\ <<>> \in Seq(Cmd)
BY EmptySeq DEF Those, Ordered, Apart

LEMMA One ==
  ASSUME NEW c \in Cmd, NEW K
  PROVE  /\ Those(<<c>>, K) = (IF c \in K THEN {c.id} ELSE {})
         /\ Ordered(<<c>>, K) /\ Apart(<<c>>) /\ <<c>> \in Seq(Cmd)
<1>1. DOMAIN <<c>> = {1} /\ <<c>>[1] = c
  OBVIOUS
<1> HIDE DEF Cmd
<1> DEFINE s == <<c>>
<1>2. s \in Seq(Cmd) /\ DOMAIN s = {1} /\ s[1] = c
  BY <1>1
<1> HIDE DEF s
<1>3. /\ Those(s, K) = (IF c \in K THEN {c.id} ELSE {})
      /\ Ordered(s, K) /\ Apart(s)
  BY <1>2 DEF Those, Ordered, Apart
<1> QED
  BY <1>2, <1>3 DEF s

LEMMA Concat ==
  ASSUME NEW s \in Seq(Cmd), NEW t \in Seq(Cmd), NEW K
  PROVE  /\ s \o t \in Seq(Cmd)
         /\ Those(s \o t, K) = Those(s, K) \cup Those(t, K)
         /\ Ordered(s \o t, K) <=> Ordered(s, K) /\ Ordered(t, K) /\ Before(Those(s, K), Those(t, K))
         /\ Apart(s \o t) <=> Apart(s) /\ Apart(t) /\ IdsOf(s) \cap IdsOf(t) = {}
<1> DEFINE st == s \o t
           m == Len(s)
           n == Len(t)
<1>1. /\ m \in Nat /\ n \in Nat /\ DOMAIN s = 1..m /\ DOMAIN t = 1..n
      /\ \A i \in 1..m : s[i].id \in Nat
      /\ \A i \in 1..n : t[i].id \in Nat
  <2>1. /\ m \in Nat /\ n \in Nat /\ DOMAIN s = 1..m /\ DOMAIN t = 1..n
        /\ \A i \in 1..m : s[i] \in Cmd
        /\ \A i \in 1..n : t[i] \in Cmd
    BY LenProperties, ElementOfSeq
  <2> QED
    BY <2>1, Number
<1>2. /\ st \in Seq(Cmd) /\ DOMAIN st = 1..(m + n)
      /\ \A i \in 1..m : st[i] = s[i]
      /\ \A i \in 1..n : st[m + i] = t[i]
  BY <1>1, ConcatProperties
<1> HIDE DEF m, n, st
<1>3. \A i \in 1..(m + n) : i \in 1..m \/ \E k \in 1..n : i = m + k
  <2> SUFFICES ASSUME NEW i \in 1..(m + n), i \notin 1..m
               PROVE  \E k \in 1..n : i = m + k
    OBVIOUS
  <2>1. i - m \in 1..n /\ i = m + (i - m)
    BY <1>1
  <2> QED
    BY <2>1
<1>4. (1..m) \subseteq 1..(m + n) /\ \A k \in 1..n : m + k \in 1..(m + n)
  BY <1>1
<1>5. Those(st, K) = Those(s, K) \cup Those(t, K)
  <2>1. ASSUME NEW x \in Those(st, K) PROVE x \in Those(s, K) \cup Those(t, K)
    <3>1. PICK i \in 1..(m + n) : st[i] \in K /\ x = st[i].id
      BY <1>2 DEF Those
    <3> QED
      BY <1>1, <1>2, <1>3, <3>1 DEF Those
  <2>2. ASSUME NEW x \in Those(s, K) \cup Those(t, K) PROVE x \in Those(st, K)
    <3>1. \/ \E i \in 1..m : s[i] \in K /\ x = s[i].id
          \/ \E i \in 1..n : t[i] \in K /\ x = t[i].id
      BY <1>1 DEF Those
    <3> QED
      BY <1>1, <1>2, <1>4, <3>1 DEF Those
  <2> QED
    BY <2>1, <2>2
<1>6. ASSUME Ordered(st, K)
      PROVE  Ordered(s, K) /\ Ordered(t, K) /\ Before(Those(s, K), Those(t, K))
  <2>1. Ordered(s, K)
    BY <1>1, <1>2, <1>4, <1>6 DEF Ordered
  <2>2. Ordered(t, K)
    <3> SUFFICES ASSUME NEW i \in 1..n, NEW j \in 1..n, i < j, t[i] \in K, t[j] \in K
                 PROVE  t[i].id < t[j].id
      BY <1>1 DEF Ordered
    <3>1. m + i < m + j
      BY <1>1
    <3> QED
      BY <1>2, <1>4, <1>6, <3>1 DEF Ordered
  <2>3. Before(Those(s, K), Those(t, K))
    <3> SUFFICES ASSUME NEW i \in 1..m, NEW j \in 1..n, s[i] \in K, t[j] \in K
                 PROVE  s[i].id < t[j].id
      BY <1>1 DEF Before, Those
    <3>1. i < m + j
      BY <1>1
    <3> QED
      BY <1>2, <1>4, <1>6, <3>1 DEF Ordered
  <2> QED
    BY <2>1, <2>2, <2>3
<1>7. ASSUME Ordered(s, K), Ordered(t, K), Before(Those(s, K), Those(t, K))
      PROVE  Ordered(st, K)
  <2> SUFFICES ASSUME NEW i \in 1..(m + n), NEW j \in 1..(m + n), i < j, st[i] \in K, st[j] \in K
               PROVE  st[i].id < st[j].id
    BY <1>2 DEF Ordered
  <2>1. CASE i \in 1..m /\ j \in 1..m
    BY <1>1, <1>2, <1>7, <2>1 DEF Ordered
  <2>2. ASSUME i \in 1..m, NEW k \in 1..n, j = m + k PROVE st[i].id < st[j].id
    BY <1>1, <1>2, <1>7, <2>2 DEF Before, Those
  <2>3. ASSUME NEW l \in 1..n, i = m + l, NEW k \in 1..n, j = m + k PROVE st[i].id < st[j].id
    <3>1. l < k
      BY <1>1, <2>3
    <3> QED
      BY <1>1, <1>2, <1>7, <2>3, <3>1 DEF Ordered
  <2>4. ASSUME NEW l \in 1..n, i = m + l PROVE j \notin 1..m
    BY <1>1, <2>4
  <2> QED
    BY <1>3, <2>1, <2>2, <2>3, <2>4
<1>8. ASSUME Apart(st)
      PROVE  Apart(s) /\ Apart(t) /\ IdsOf(s) \cap IdsOf(t) = {}
  <2>1. Apart(s)
    <3> SUFFICES ASSUME NEW i \in 1..m, NEW j \in 1..m, i < j PROVE s[i].id # s[j].id
      BY <1>1 DEF Apart
    <3>1. i \in DOMAIN st /\ j \in DOMAIN st /\ st[i] = s[i] /\ st[j] = s[j]
      BY <1>2, <1>4
    <3> QED
      BY <1>8, <3>1 DEF Apart
  <2>2. Apart(t)
    <3> SUFFICES ASSUME NEW i \in 1..n, NEW j \in 1..n, i < j PROVE t[i].id # t[j].id
      BY <1>1 DEF Apart
    <3>1. m + i < m + j
      BY <1>1
    <3> QED
      BY <1>2, <1>4, <1>8, <3>1 DEF Apart
  <2>3. IdsOf(s) \cap IdsOf(t) = {}
    <3> SUFFICES ASSUME NEW i \in 1..m, NEW j \in 1..n PROVE s[i].id # t[j].id
      BY <1>1 DEF IdsOf
    <3>1. i < m + j
      BY <1>1
    <3> QED
      BY <1>2, <1>4, <1>8, <3>1 DEF Apart
  <2> QED
    BY <2>1, <2>2, <2>3
<1>9. ASSUME Apart(s), Apart(t), IdsOf(s) \cap IdsOf(t) = {}
      PROVE  Apart(st)
  <2> SUFFICES ASSUME NEW i \in 1..(m + n), NEW j \in 1..(m + n), i < j
               PROVE  st[i].id # st[j].id
    BY <1>2 DEF Apart
  <2>1. CASE i \in 1..m /\ j \in 1..m
    <3>1. i \in DOMAIN s /\ j \in DOMAIN s /\ st[i] = s[i] /\ st[j] = s[j]
      BY <1>1, <1>2, <2>1
    <3> QED
      BY <1>9, <3>1 DEF Apart
  <2>2. ASSUME i \in 1..m, NEW k \in 1..n, j = m + k PROVE st[i].id # st[j].id
    BY <1>1, <1>2, <1>9, <2>2 DEF IdsOf
  <2>3. ASSUME NEW l \in 1..n, i = m + l, NEW k \in 1..n, j = m + k PROVE st[i].id # st[j].id
    <3>1. l < k
      BY <1>1, <2>3
    <3>2. l \in DOMAIN t /\ k \in DOMAIN t /\ st[i] = t[l] /\ st[j] = t[k]
      BY <1>1, <1>2, <2>3
    <3> QED
      BY <1>9, <3>1, <3>2 DEF Apart
  <2>4. ASSUME NEW l \in 1..n, i = m + l PROVE j \notin 1..m
    BY <1>1, <2>4
  <2> QED
    BY <1>3, <2>1, <2>2, <2>3, <2>4
<1> QED
  BY <1>2, <1>5, <1>6, <1>7, <1>8, <1>9 DEF st

\* A sequence is its head and its tail, and is cut anywhere.
LEMMA HeadTail ==
  ASSUME NEW s \in Seq(Cmd), s # <<>>
  PROVE  Head(s) \in Cmd /\ Tail(s) \in Seq(Cmd) /\ s = <<Head(s)>> \o Tail(s)
<1>1. Len(s) \in Nat \ {0} /\ DOMAIN s = 1..Len(s) /\ Head(s) = s[1] /\ s[1] \in Cmd
  BY EmptySeq, LenProperties, ElementOfSeq
<1>2. /\ Tail(s) \in Seq(Cmd) /\ Len(Tail(s)) = Len(s) - 1
      /\ \A i \in 1..(Len(s) - 1) : Tail(s)[i] = s[i + 1]
  BY HeadTailProperties
<1> DEFINE u == <<Head(s)>>
           t == Tail(s)
<1>3. u \in Seq(Cmd) /\ Len(u) = 1 /\ u[1] = s[1]
  BY <1>1
<1>4. t \in Seq(Cmd) /\ Len(t) = Len(s) - 1 /\ \A i \in 1..(Len(s) - 1) : t[i] = s[i + 1]
  BY <1>2
<1> HIDE DEF u, t
<1>0. /\ u \o t \in Seq(Cmd) /\ Len(u \o t) = Len(u) + Len(t)
      /\ \A i \in 1..(Len(u) + Len(t)) : (u \o t)[i] = IF i <= Len(u) THEN u[i] ELSE t[i - Len(u)]
  BY <1>3, <1>4, ConcatProperties
<1>5. u \o t \in Seq(Cmd) /\ Len(u \o t) = Len(s)
  BY <1>0, <1>1, <1>3, <1>4
<1>6. ASSUME NEW i \in 1..Len(s) PROVE (u \o t)[i] = s[i]
  <2>1. i \in 1..(Len(u) + Len(t)) /\ (i <= Len(u) <=> i = 1) /\ Len(u) = 1
    BY <1>1, <1>3, <1>4
  <2>2. (u \o t)[i] = IF i = 1 THEN u[1] ELSE t[i - 1]
    BY <1>0, <2>1
  <2>3. i # 1 => i - 1 \in 1..(Len(s) - 1) /\ (i - 1) + 1 = i
    BY <1>1
  <2> QED
    BY <1>3, <1>4, <2>2, <2>3
<1>7. u \o t = s
  BY <1>5, <1>6, SeqEqual
<1> QED
  BY <1>1, <1>2, <1>7 DEF u, t

LEMMA Cut ==
  ASSUME NEW s \in Seq(Cmd), NEW n \in 0..Len(s)
  PROVE  /\ SubSeq(s, 1, n) \in Seq(Cmd) /\ SubSeq(s, n + 1, Len(s)) \in Seq(Cmd)
         /\ Len(SubSeq(s, 1, n)) = n
         /\ s = SubSeq(s, 1, n) \o SubSeq(s, n + 1, Len(s))
<1>1. Len(s) \in Nat /\ n \in Nat /\ \A i \in 1..Len(s) : s[i] \in Cmd
  BY LenProperties, ElementOfSeq
<1>2. /\ SubSeq(s, 1, n) \in Seq(Cmd) /\ Len(SubSeq(s, 1, n)) = n
      /\ \A i \in 1..n : SubSeq(s, 1, n)[i] = s[i]
  BY <1>1, SubSeqProperties
<1>3. /\ SubSeq(s, n + 1, Len(s)) \in Seq(Cmd) /\ Len(SubSeq(s, n + 1, Len(s))) = Len(s) - n
      /\ \A i \in 1..(Len(s) - n) : SubSeq(s, n + 1, Len(s))[i] = s[n + i]
  BY <1>1, SubSeqProperties
<1> DEFINE a == SubSeq(s, 1, n)
           b == SubSeq(s, n + 1, Len(s))
<1>4. /\ a \in Seq(Cmd) /\ Len(a) = n /\ \A i \in 1..n : a[i] = s[i]
      /\ b \in Seq(Cmd) /\ Len(b) = Len(s) - n /\ \A i \in 1..(Len(s) - n) : b[i] = s[n + i]
  BY <1>2, <1>3
<1> HIDE DEF a, b
<1>5. n + (Len(s) - n) = Len(s)
  BY <1>1
<1>6. a \o b \in Seq(Cmd) /\ Len(a \o b) = Len(s)
  <2>1. a \o b \in Seq(Cmd) /\ Len(a \o b) = Len(a) + Len(b)
    BY <1>4, ConcatProperties
  <2> QED
    BY <1>4, <1>5, <2>1
<1>7. ASSUME NEW i \in 1..Len(s) PROVE (a \o b)[i] = s[i]
  <2>1. (a \o b)[i] = IF i <= n THEN a[i] ELSE b[i - n]
    BY <1>4, <1>5, ConcatProperties
  <2>2. IF i <= n THEN i \in 1..n ELSE i - n \in 1..(Len(s) - n) /\ n + (i - n) = i
    BY <1>1
  <2> QED
    BY <1>4, <2>1, <2>2
<1>8. a \o b = s
  BY <1>6, <1>7, SeqEqual
<1> QED
  BY <1>2, <1>3, <1>8 DEF a, b

\* Numbers that increase are as many as the commands.
LEMMA Count ==
  ASSUME NEW s \in Seq(Cmd), Ordered(s, Cmd)
  PROVE  IsFiniteSet(IdsOf(s)) /\ Cardinality(IdsOf(s)) = Len(s)
<1> DEFINE f == [i \in 1..Len(s) |-> s[i].id]
<1>1. Len(s) \in Nat /\ DOMAIN s = 1..Len(s) /\ \A i \in 1..Len(s) : s[i] \in Cmd /\ s[i].id \in Nat
  BY LenProperties, ElementOfSeq, Number
<1>2. \A i, j \in 1..Len(s) : i # j => s[i].id # s[j].id
  <2> SUFFICES ASSUME NEW i \in 1..Len(s), NEW j \in 1..Len(s), i # j PROVE s[i].id # s[j].id
    OBVIOUS
  <2>1. i < j \/ j < i
    BY <1>1
  <2>2. s[i].id < s[j].id \/ s[j].id < s[i].id
    BY <1>1, <2>1 DEF Ordered
  <2> QED
    BY <1>1, <2>2
<1>3. f \in Bijection(1..Len(s), IdsOf(s))
  <2>1. f \in [1..Len(s) -> IdsOf(s)]
    BY <1>1 DEF IdsOf
  <2>2. \A y \in IdsOf(s) : \E i \in 1..Len(s) : f[i] = y
    BY <1>1 DEF IdsOf
  <2>3. \A i, j \in 1..Len(s) : f[i] = f[j] => i = j
    BY <1>2
  <2> QED
    BY <2>1, <2>2, <2>3 DEF Bijection, Injection, Surjection, IsInjective
<1>4. ExistsBijection(1..Len(s), IdsOf(s))
  BY <1>3 DEF ExistsBijection
<1> QED
  BY <1>1, <1>4, FS_NatBijection, FS_CountingElements

LEMMA AppendOne ==
  ASSUME NEW s \in Seq(Cmd), NEW c \in Cmd
  PROVE  Append(s, c) = s \o <<c>> /\ Append(s, c) \in Seq(Cmd)
<1> DEFINE t == Append(s, c)
           o == <<c>>
<1>1. /\ Len(s) \in Nat /\ t \in Seq(Cmd) /\ Len(t) = Len(s) + 1
      /\ \A i \in 1..Len(s) : t[i] = s[i]
      /\ t[Len(s) + 1] = c
  BY AppendProperties, LenProperties
<1>2. o \in Seq(Cmd) /\ Len(o) = 1 /\ o[1] = c
  OBVIOUS
<1> HIDE DEF t, o
<1>3. /\ s \o o \in Seq(Cmd) /\ Len(s \o o) = Len(s) + Len(o)
      /\ \A i \in 1..(Len(s) + Len(o)) : (s \o o)[i] = IF i <= Len(s) THEN s[i] ELSE o[i - Len(s)]
  BY <1>2, ConcatProperties
<1>4. ASSUME NEW i \in 1..Len(t) PROVE t[i] = (s \o o)[i]
  <2>1. CASE i \in 1..Len(s)
    <3>1. i \in 1..(Len(s) + Len(o)) /\ i <= Len(s)
      BY <1>1, <1>2, <2>1
    <3> QED
      BY <1>1, <1>3, <2>1, <3>1
  <2>2. CASE i = Len(s) + 1
    <3>1. (s \o o)[i] = o[i - Len(s)] /\ i - Len(s) = 1
      BY <1>1, <1>2, <1>3, <2>2
    <3> QED
      BY <1>1, <1>2, <2>2, <3>1
  <2>3. Len(s) \in Nat /\ i \in 1..(Len(s) + 1)
    BY <1>1
  <2>4. i \in 1..Len(s) \/ i = Len(s) + 1
    BY <2>3
  <2> QED
    BY <2>1, <2>2, <2>4
<1>5. Len(t) = Len(s \o o)
  BY <1>1, <1>2, <1>3
<1>6. t = s \o o
  BY <1>1, <1>3, <1>4, <1>5, SeqEqual
<1> QED
  BY <1>1, <1>6 DEF t, o

-----------------------------------------------------------------------------
\* Types: while nothing is read the call is Idle, and the commands made so far
\* have the numbers up to ncmds.
TypeInv == TypeOK /\ (Returned => call = Idle) /\ (call.kind = "raw_sequence" => raws > 0)

LEMMA NewCommand ==
  ASSUME TypeInv, ncmds < MaxCmds, NEW rd \in BOOLEAN, NEW by \in {"batch", "single", "raw"}
  PROVE  /\ NewCmd(ncmds + 1, rd, by) \in Cmd /\ ncmds + 1 \in 1..MaxCmds
         /\ NewCmd(ncmds + 1, rd, by).id = ncmds + 1
         /\ NewCmd(ncmds + 1, rd, by) \in ReadCmds <=> rd
         /\ NewCmd(ncmds + 1, rd, by) \in BatchCmds <=> by = "batch"
<1>1. ncmds + 1 \in 1..MaxCmds
  BY CommBufferAssumption DEF TypeInv, TypeOK
<1> QED
  BY <1>1 DEF NewCmd, Cmd, ReadCmds, BatchCmds

LEMMA ReadsType == ASSUME NEW s \in Seq(Cmd) PROVE ReadsOf(s) \subseteq 1..MaxCmds
BY Numbers

LEMMA BeginType ==
  ASSUME TypeInv, NEW kind \in {"single_read", "read_results", "raw_sequence"},
         NEW tmp \in Seq(Cmd), NEW tmpBytes \in Nat, NEW want, want \subseteq 1..MaxCmds,
         BeginReading(kind, tmp, tmpBytes, want)
  PROVE  call' \in Reading /\ call'.kind = kind
<1>1. call' = [kind |-> kind, tmp |-> tmp, tmpBytes |-> tmpBytes, want |-> want,
               ret |-> <<>>, retries |-> 0]
  BY DEF BeginReading
<1>2. 0 \in 0..MaxRetries /\ <<>> \in Seq(Cmd) /\ want \in SUBSET (1..MaxCmds)
      /\ kind \in {"none", "single_read", "read_results", "raw_sequence"}
  BY CommBufferAssumption, EmptySeq
<1> HIDE DEF BeginReading
<1> QED
  BY <1>1, <1>2 DEF Reading

\* A sending that raises, whatever went out.
LEMMA MaySend ==
  ASSUME pending \in Seq(Cmd), NEW s \in Seq(Cmd), MayHaveSent(s)
  PROVE  pending' \in Seq(Cmd)
<1>1. PICK n \in 0..Len(s) : pending' = pending \o SubSeq(s, 1, n)
  BY DEF MayHaveSent
<1>2. SubSeq(s, 1, n) \in Seq(Cmd)
  BY <1>1, Cut
<1> QED
  BY <1>1, <1>2, ConcatProperties

LEMMA TypeInit == Init => TypeInv
<1> SUFFICES ASSUME Init PROVE TypeInv
  OBVIOUS
<1>1. <<>> \in Seq(Cmd)
  BY EmptySeq
<1>2. Idle \in Reading /\ Idle.kind = "none"
  BY <1>1, CommBufferAssumption DEF Idle, Reading
<1>3. /\ buffer \in Seq(Cmd) /\ readBytes \in Nat /\ pending \in Seq(Cmd) /\ dp1 \in Seq(Cmd)
      /\ sent \in Seq(Cmd) /\ call = Idle
  BY <1>1 DEF Init
<1>4. ncmds \in 0..MaxCmds /\ raws \in 0..MaxRaw
  BY CommBufferAssumption DEF Init
<1>5. registered \subseteq 1..MaxCmds /\ unread \subseteq 1..MaxCmds /\ failed \in BOOLEAN
  BY DEF Init
<1>6. result \in [want : SUBSET (1..MaxCmds), ret : Seq(Cmd), trusted : BOOLEAN]
  <2>1. result = [want |-> {}, ret |-> <<>>, trusted |-> FALSE]
    BY DEF Init
  <2>2. {} \in SUBSET (1..MaxCmds) /\ FALSE \in BOOLEAN
    OBVIOUS
  <2> QED
    BY <1>1, <2>1, <2>2
<1> QED
  BY <1>2, <1>3, <1>4, <1>5, <1>6 DEF TypeInv, TypeOK

LEMMA TypeStep == TypeInv /\ [Next]_vars => TypeInv'
<1> SUFFICES ASSUME TypeInv, [Next]_vars PROVE TypeInv'
  OBVIOUS
<1> USE CommBufferAssumption
<1>0. /\ buffer \in Seq(Cmd) /\ readBytes \in Nat /\ pending \in Seq(Cmd) /\ dp1 \in Seq(Cmd)
      /\ sent \in Seq(Cmd) /\ ncmds \in 0..MaxCmds
      /\ call \in Reading /\ call.tmp \in Seq(Cmd) /\ call.ret \in Seq(Cmd) /\ call.tmpBytes \in Nat
      /\ call.want \subseteq 1..MaxCmds /\ call.retries \in 0..MaxRetries
      /\ unread \subseteq 1..MaxCmds /\ registered \subseteq 1..MaxCmds
      /\ failed \in BOOLEAN /\ raws \in 0..MaxRaw /\ <<>> \in Seq(Cmd)
  BY EmptySeq DEF TypeInv, TypeOK, Reading
<1>1. ReadsOf(buffer) \subseteq 1..MaxCmds
  BY <1>0, ReadsType
<1>2. Idle \in Reading /\ Idle.kind = "none"
  BY <1>0 DEF Idle, Reading
<1>3. CASE UNCHANGED vars
  BY <1>3 DEF vars, TypeInv, TypeOK, Returned
<1>4. CASE DeviceExecutes
  <2>1. Head(pending) \in Cmd /\ Tail(pending) \in Seq(Cmd)
    BY <1>0, <1>4, HeadTail DEF DeviceExecutes
  <2>2. dp1' \in Seq(Cmd)
    BY <1>0, <1>4, <2>1, AppendOne DEF DeviceExecutes
  <2> QED
    BY <1>4, <2>1, <2>2 DEF DeviceExecutes, TypeInv, TypeOK, Returned
<1>5. ASSUME NEW rd \in BOOLEAN, Register(rd) PROVE TypeInv'
  <2> DEFINE c == NewCmd(ncmds + 1, rd, "batch")
  <2>1. c \in Cmd /\ c.id \in 1..MaxCmds
    BY <1>5, NewCommand DEF Register
  <2>2. buffer' = Append(buffer, c) /\ registered' = registered \cup {c.id}
    BY <1>5 DEF Register
  <2>3. buffer' \in Seq(Cmd) /\ registered' \subseteq 1..MaxCmds
    BY <1>0, <2>1, <2>2, AppendOne
  <2>4. ncmds' \in 0..MaxCmds /\ readBytes' \in Nat
    BY <1>0, <1>5 DEF Register
  <2> QED
    BY <1>5, <2>3, <2>4 DEF Register, TypeInv, TypeOK, Returned
<1>6. CASE Flush
  <2>1. pending \o buffer \in Seq(Cmd) /\ sent \o buffer \in Seq(Cmd)
    BY <1>0, ConcatProperties
  <2> QED
    BY <1>0, <1>1, <1>6, <2>1 DEF Flush, DoWriteDp0, TypeInv, TypeOK, Returned
<1>7. CASE ReadResults
  <2>0. BeginReading("read_results", buffer, 0, unread)
    BY <1>7 DEF ReadResults
  <2>1. call' \in Reading /\ call'.kind = "read_results"
    BY <1>0, <2>0, BeginType
  <2> QED
    BY <1>0, <1>7, <2>1 DEF ReadResults, TypeInv, TypeOK, Returned
<1>8. CASE FlushAndReadResults
  <2>1. pending \o buffer \in Seq(Cmd) /\ sent \o buffer \in Seq(Cmd)
    BY <1>0, ConcatProperties
  <2>0. BeginReading("read_results", <<>>, 0, unread \cup ReadsOf(buffer))
        /\ unread \cup ReadsOf(buffer) \subseteq 1..MaxCmds
    BY <1>0, <1>1, <1>8 DEF FlushAndReadResults
  <2>2. call' \in Reading /\ call'.kind = "read_results"
    BY <1>0, <2>0, BeginType
  <2> QED
    BY <1>0, <1>8, <2>1, <2>2 DEF FlushAndReadResults, DoWriteDp0, TypeInv, TypeOK, Returned
<1>9. CASE SingleWrite
  <2> DEFINE c == NewCmd(ncmds + 1, FALSE, "single")
  <2>1. c \in Cmd
    BY <1>9, NewCommand DEF SingleWrite
  <2>2. <<c>> \in Seq(Cmd)
    BY <2>1, One
  <2>3. pending \o <<c>> \in Seq(Cmd) /\ sent \o <<c>> \in Seq(Cmd)
    BY <1>0, <2>2, ConcatProperties
  <2>4. ncmds' \in 0..MaxCmds
    BY <1>0, <1>9 DEF SingleWrite
  <2> QED
    BY <1>9, <2>3, <2>4 DEF SingleWrite, DoWriteDp0, TypeInv, TypeOK, Returned
<1>10. CASE SingleWriteRaises
  <2> DEFINE c == NewCmd(ncmds + 1, FALSE, "single")
  <2>1. c \in Cmd
    BY <1>10, NewCommand DEF SingleWriteRaises
  <2>2. <<c>> \in Seq(Cmd)
    BY <2>1, One
  <2>3. buffer' \in Seq(Cmd)
    BY <1>0, <1>10, <2>2 DEF SingleWriteRaises
  <2>4. ncmds' \in 0..MaxCmds
    BY <1>0, <1>10 DEF SingleWriteRaises
  <2>5. pending' \in Seq(Cmd)
    <3> DEFINE b == buffer'
    <3>1. b \in Seq(Cmd) /\ MayHaveSent(b)
      BY <1>10, <2>3 DEF SingleWriteRaises
    <3> HIDE DEF b
    <3> QED
      BY <1>0, <3>1, MaySend
  <2> QED
    BY <1>10, <2>3, <2>4, <2>5 DEF SingleWriteRaises, TypeInv, TypeOK, Returned
<1>11. CASE SingleRead
  <2> DEFINE c == NewCmd(ncmds + 1, TRUE, "single")
  <2>1. c \in Cmd /\ c.id \in 1..MaxCmds
    BY <1>11, NewCommand DEF SingleRead
  <2>2. <<c>> \in Seq(Cmd)
    BY <2>1, One
  <2>3. pending \o <<c>> \in Seq(Cmd) /\ sent \o <<c>> \in Seq(Cmd)
    BY <1>0, <2>2, ConcatProperties
  <2>4. ncmds' \in 0..MaxCmds
    BY <1>0, <1>11 DEF SingleRead
  <2>0. BeginReading("single_read", buffer, readBytes, {c.id}) /\ {c.id} \subseteq 1..MaxCmds
    BY <1>11, <2>1 DEF SingleRead
  <2>5. call' \in Reading /\ call'.kind = "single_read"
    BY <1>0, <2>0, BeginType
  <2> QED
    BY <1>0, <1>11, <2>3, <2>4, <2>5 DEF SingleRead, DoWriteDp0, TypeInv, TypeOK, Returned
<1>12. CASE SingleReadRaises
  <2> DEFINE c == NewCmd(ncmds + 1, TRUE, "single")
  <2>1. c \in Cmd
    BY <1>12, NewCommand DEF SingleReadRaises
  <2>2. <<c>> \in Seq(Cmd)
    BY <2>1, One
  <2>3. ncmds' \in 0..MaxCmds
    BY <1>0, <1>12 DEF SingleReadRaises
  <2>4. buffer' \in Seq(Cmd)
    BY <1>12, <2>2 DEF SingleReadRaises
  <2>5. pending' \in Seq(Cmd)
    <3> DEFINE b == buffer'
    <3>1. b \in Seq(Cmd) /\ MayHaveSent(b)
      BY <1>12, <2>4 DEF SingleReadRaises
    <3> HIDE DEF b
    <3> QED
      BY <1>0, <3>1, MaySend
  <2> QED
    BY <1>12, <2>3, <2>4, <2>5 DEF SingleReadRaises, TypeInv, TypeOK, Returned
<1>13. CASE RawSequence
  <2>1. PICK rd \in BOOLEAN :
          LET all == Append(buffer, NewCmd(ncmds + 1, rd, "raw"))
          IN /\ DoWriteDp0(all)
             /\ readBytes' = IF rd THEN readBytes + 1 ELSE readBytes
             /\ BeginReading("raw_sequence", all, 0, unread \cup ReadsOf(all))
             /\ buffer' = <<>>
    BY <1>13 DEF RawSequence
  <2> DEFINE all == Append(buffer, NewCmd(ncmds + 1, rd, "raw"))
  <2>2. all \in Seq(Cmd)
    BY <1>0, <1>13, NewCommand, AppendOne DEF RawSequence
  <2>3. ReadsOf(all) \subseteq 1..MaxCmds /\ pending \o all \in Seq(Cmd) /\ sent \o all \in Seq(Cmd)
    BY <1>0, <2>2, ReadsType, ConcatProperties
  <2>4. DoWriteDp0(all) /\ BeginReading("raw_sequence", all, 0, unread \cup ReadsOf(all)) /\ buffer' = <<>>
        /\ readBytes' \in Nat
    BY <1>0, <2>1
  <2> HIDE DEF all
  <2>5. call' \in Reading /\ call'.kind = "raw_sequence"
    <3>1. unread \cup ReadsOf(all) \subseteq 1..MaxCmds
      BY <1>0, <2>3
    <3> QED
      BY <2>2, <2>4, <3>1, BeginType
  <2>6. ncmds' \in 0..MaxCmds /\ raws' \in 0..MaxRaw /\ raws' > 0
    BY <1>0, <1>13 DEF RawSequence
  <2> QED
    BY <1>0, <1>13, <2>3, <2>4, <2>5, <2>6 DEF RawSequence, DoWriteDp0, TypeInv, TypeOK, Returned
<1>14. CASE Retry
  <2> DEFINE room == readBytes - Len(call.ret)
             n == IF Len(dp1) < room THEN Len(dp1) ELSE room
  <2>1. Len(dp1) \in Nat /\ Len(call.ret) \in Nat
    BY <1>0, LenProperties
  <2>0. Len(call.ret) < readBytes /\ call.retries < MaxRetries
    BY <1>14 DEF Retry
  <2>2. n \in 0..Len(dp1)
    <3> DEFINE d == Len(dp1)
               l == Len(call.ret)
    <3>1. d \in Nat /\ l \in Nat /\ l < readBytes
      BY <2>0, <2>1
    <3> HIDE DEF d, l
    <3>2. (IF d < readBytes - l THEN d ELSE readBytes - l) \in 0..d
      BY <1>0, <3>1
    <3> QED
      BY <3>2 DEF d, l
  <2>3. /\ call' = [call EXCEPT !.ret = @ \o SubSeq(dp1, 1, n), !.retries = @ + 1]
        /\ dp1' = SubSeq(dp1, n + 1, Len(dp1))
    BY <1>14 DEF Retry
  <2> HIDE DEF n
  <2>4. SubSeq(dp1, 1, n) \in Seq(Cmd) /\ dp1' \in Seq(Cmd)
    BY <1>0, <2>2, <2>3, Cut
  <2>5. call.ret \o SubSeq(dp1, 1, n) \in Seq(Cmd)
    BY <1>0, <2>4, ConcatProperties
  <2>6. call.retries + 1 \in 0..MaxRetries
    BY <1>0, <2>0
  <2>7. call' \in Reading /\ call'.kind = call.kind
    BY <1>0, <2>3, <2>5, <2>6 DEF Reading
  <2> QED
    BY <1>14, <2>4, <2>7 DEF Retry, TypeInv, TypeOK, Returned
<1>15. CASE FinishReading
  <2>1. result' \in [want : SUBSET (1..MaxCmds), ret : Seq(Cmd), trusted : BOOLEAN]
    BY <1>0, <1>15 DEF FinishReading, Trusted
  <2>2. buffer' \in Seq(Cmd) /\ readBytes' \in Nat
    BY <1>0, <1>15 DEF FinishReading
  <2> QED
    BY <1>2, <1>15, <2>1, <2>2 DEF FinishReading, TypeInv, TypeOK, Returned
<1>16. CASE ReadRaises
  BY <1>2, <1>16 DEF ReadRaises, TypeInv, TypeOK, Returned
<1>17. CASE FlushRaises
  <2>1. pending' \in Seq(Cmd)
    BY <1>0, <1>17, MaySend DEF FlushRaises
  <2> QED
    BY <1>17, <2>1 DEF FlushRaises, TypeInv, TypeOK, Returned
<1>18. CASE RawSequenceRaises
  <2>1. PICK rd \in BOOLEAN :
          /\ buffer' = Append(buffer, NewCmd(ncmds + 1, rd, "raw"))
          /\ readBytes' = IF rd THEN readBytes + 1 ELSE readBytes
    BY <1>18 DEF RawSequenceRaises
  <2>2. buffer' \in Seq(Cmd) /\ readBytes' \in Nat
    BY <1>0, <1>18, <2>1, NewCommand, AppendOne DEF RawSequenceRaises
  <2>3. pending' \in Seq(Cmd)
    <3> DEFINE b == buffer'
    <3>1. b \in Seq(Cmd) /\ MayHaveSent(b)
      BY <1>18, <2>2 DEF RawSequenceRaises
    <3> HIDE DEF b
    <3> QED
      BY <1>0, <3>1, MaySend
  <2>4. ncmds' \in 0..MaxCmds /\ raws' \in 0..MaxRaw
    BY <1>0, <1>18 DEF RawSequenceRaises
  <2> QED
    BY <1>18, <2>2, <2>3, <2>4 DEF RawSequenceRaises, TypeInv, TypeOK, Returned
<1> QED
  BY <1>3, <1>4, <1>5, <1>6, <1>7, <1>8, <1>9, <1>10, <1>11, <1>12, <1>13, <1>14, <1>15, <1>16,
     <1>17, <1>18 DEF Next

LEMMA TypeInvHolds == Spec => []TypeInv
BY TypeInit, TypeStep, PTL DEF Spec

\* Every variable keeps its type, for any number of commands and retries.
THEOREM TypeCorrect == Spec => []TypeOK
<1>1. TypeInv => TypeOK
  BY DEF TypeInv
<1> QED
  BY <1>1, TypeInvHolds, PTL

-----------------------------------------------------------------------------
\* The commands sent and those held, of which there were n: no number twice,
\* and the registered ones in the order in which they were made.
Good(s, h, n) ==
  /\ Apart(s) /\ Apart(h) /\ IdsOf(s) \cap IdsOf(h) = {}
  /\ Ordered(s, BatchCmds) /\ Ordered(h, BatchCmds)
  /\ Before(Those(s, BatchCmds), Those(h, BatchCmds))
  /\ IdsOf(s) \subseteq 1..n /\ IdsOf(h) \subseteq 1..n

LEMMA IdsConcat ==
  ASSUME NEW s \in Seq(Cmd), NEW t \in Seq(Cmd)
  PROVE  /\ IdsOf(s \o t) = IdsOf(s) \cup IdsOf(t)
         /\ ReadsOf(s \o t) = ReadsOf(s) \cup ReadsOf(t)
         /\ BatchOf(s \o t) = BatchOf(s) \cup BatchOf(t)
<1>1. s \o t \in Seq(Cmd)
  BY ConcatProperties
<1>2. /\ Those(s \o t, Cmd) = Those(s, Cmd) \cup Those(t, Cmd)
      /\ Those(s \o t, ReadCmds) = Those(s, ReadCmds) \cup Those(t, ReadCmds)
      /\ Those(s \o t, BatchCmds) = Those(s, BatchCmds) \cup Those(t, BatchCmds)
  BY Concat
<1> QED
  BY <1>1, <1>2, Numbers

LEMMA IdsEmpty == IdsOf(<<>>) = {} /\ ReadsOf(<<>>) = {} /\ BatchOf(<<>>) = {}
BY DEF IdsOf, ReadsOf, BatchOf

LEMMA IdsOne ==
  ASSUME NEW c \in Cmd
  PROVE  /\ <<c>> \in Seq(Cmd) /\ IdsOf(<<c>>) = {c.id}
         /\ ReadsOf(<<c>>) = (IF c \in ReadCmds THEN {c.id} ELSE {})
         /\ BatchOf(<<c>>) = (IF c \in BatchCmds THEN {c.id} ELSE {})
<1>1. /\ <<c>> \in Seq(Cmd) /\ Those(<<c>>, Cmd) = {c.id}
      /\ Those(<<c>>, ReadCmds) = (IF c \in ReadCmds THEN {c.id} ELSE {})
      /\ Those(<<c>>, BatchCmds) = (IF c \in BatchCmds THEN {c.id} ELSE {})
  BY One
<1> QED
  BY <1>1, Numbers

LEMMA GoodSend ==
  ASSUME NEW s \in Seq(Cmd), NEW h \in Seq(Cmd), NEW n, Good(s, h, n)
  PROVE  Good(s \o h, <<>>, n)
<1>1. /\ Apart(s \o h) /\ Ordered(s \o h, BatchCmds) /\ IdsOf(s \o h) \subseteq 1..n
  BY Concat, IdsConcat DEF Good
<1>2. /\ Apart(<<>>) /\ Ordered(<<>>, BatchCmds) /\ Those(<<>>, BatchCmds) = {} /\ IdsOf(<<>>) = {}
  BY Empty, IdsEmpty
<1> QED
  BY <1>1, <1>2 DEF Good, Before

LEMMA GoodDrop ==
  ASSUME NEW s, NEW h, NEW n, Good(s, h, n)
  PROVE  Good(s, <<>>, n)
<1>1. /\ Apart(<<>>) /\ Ordered(<<>>, BatchCmds) /\ Those(<<>>, BatchCmds) = {} /\ IdsOf(<<>>) = {}
  BY Empty, IdsEmpty
<1> QED
  BY <1>1 DEF Good, Before

LEMMA GoodHold ==
  ASSUME NEW s \in Seq(Cmd), NEW h \in Seq(Cmd), NEW n \in Nat, Good(s, h, n),
         NEW c \in Cmd, c.id = n + 1
  PROVE  Good(s, h \o <<c>>, n + 1)
<1> DEFINE o == <<c>>
<1>1. /\ o \in Seq(Cmd) /\ IdsOf(o) = {n + 1} /\ Those(o, BatchCmds) \subseteq {n + 1}
      /\ Apart(o) /\ Ordered(o, BatchCmds)
  <2>1. o \in Seq(Cmd) /\ IdsOf(o) = {n + 1}
    BY IdsOne
  <2>2. Those(o, BatchCmds) \subseteq IdsOf(o)
    BY <2>1, Numbers
  <2>3. Apart(o) /\ Ordered(o, BatchCmds)
    BY One
  <2> QED
    BY <2>1, <2>2, <2>3
<1> HIDE DEF o
<1>2. /\ Those(s, BatchCmds) \subseteq 1..n /\ Those(h, BatchCmds) \subseteq 1..n
      /\ IdsOf(s) \subseteq 1..n /\ IdsOf(h) \subseteq 1..n
  BY Numbers DEF Good
<1>3. \A x \in 1..n : x < n + 1 /\ x \in 1..(n + 1)
  OBVIOUS
<1>4. n + 1 \in 1..(n + 1) /\ n + 1 \notin 1..n
  OBVIOUS
<1>5. IdsOf(h \o o) = IdsOf(h) \cup {n + 1}
  BY <1>1, IdsConcat
<1>6. Apart(h \o o)
  <2>1. IdsOf(h) \cap IdsOf(o) = {}
    BY <1>1, <1>2, <1>4
  <2> QED
    BY <1>1, <2>1, Concat DEF Good
<1>7. Those(h \o o, BatchCmds) = Those(h, BatchCmds) \cup Those(o, BatchCmds)
  BY <1>1, Concat
<1>8. Ordered(h \o o, BatchCmds)
  <2>1. Before(Those(h, BatchCmds), Those(o, BatchCmds))
    BY <1>1, <1>2, <1>3 DEF Before
  <2> QED
    BY <1>1, <2>1, Concat DEF Good
<1>9. Before(Those(s, BatchCmds), Those(h \o o, BatchCmds))
  BY <1>1, <1>2, <1>3, <1>7 DEF Before, Good
<1>10. IdsOf(s) \cap IdsOf(h \o o) = {}
  BY <1>2, <1>4, <1>5 DEF Good
<1>11. IdsOf(s) \subseteq 1..(n + 1) /\ IdsOf(h \o o) \subseteq 1..(n + 1)
  BY <1>2, <1>3, <1>4, <1>5
<1>12. Good(s, h \o o, n + 1)
  BY <1>6, <1>8, <1>9, <1>10, <1>11 DEF Good
<1> QED
  BY <1>12 DEF o

LEMMA GoodSingle ==
  ASSUME NEW s \in Seq(Cmd), NEW h \in Seq(Cmd), NEW n \in Nat, Good(s, h, n),
         NEW c \in Cmd, c.id = n + 1, c \notin BatchCmds
  PROVE  Good(s \o <<c>>, h, n + 1)
<1> DEFINE o == <<c>>
<1>1. /\ o \in Seq(Cmd) /\ IdsOf(o) = {n + 1} /\ Those(o, BatchCmds) = {}
      /\ Apart(o) /\ Ordered(o, BatchCmds)
  BY One, IdsOne
<1> HIDE DEF o
<1>2. IdsOf(s) \subseteq 1..n /\ IdsOf(h) \subseteq 1..n
  BY DEF Good
<1>3. \A x \in 1..n : x \in 1..(n + 1)
  OBVIOUS
<1>4. n + 1 \in 1..(n + 1) /\ n + 1 \notin 1..n
  OBVIOUS
<1>5. IdsOf(s \o o) = IdsOf(s) \cup {n + 1}
  BY <1>1, IdsConcat
<1>6. Apart(s \o o)
  <2>1. IdsOf(s) \cap IdsOf(o) = {}
    BY <1>1, <1>2, <1>4
  <2> QED
    BY <1>1, <2>1, Concat DEF Good
<1>7. Those(s \o o, BatchCmds) = Those(s, BatchCmds)
  <2>1. Those(s \o o, BatchCmds) = Those(s, BatchCmds) \cup Those(o, BatchCmds)
    <3>1. o \in Seq(Cmd)
      BY <1>1
    <3> HIDE DEF BatchCmds
    <3> QED
      BY <3>1, Concat
  <2> QED
    BY <1>1, <2>1
<1>8. Ordered(s \o o, BatchCmds)
  <2>1. Before(Those(s, BatchCmds), Those(o, BatchCmds))
    BY <1>1 DEF Before
  <2> QED
    BY <1>1, <2>1, Concat DEF Good
<1>9. IdsOf(s \o o) \cap IdsOf(h) = {}
  BY <1>2, <1>4, <1>5 DEF Good
<1>10. IdsOf(s \o o) \subseteq 1..(n + 1) /\ IdsOf(h) \subseteq 1..(n + 1)
  BY <1>2, <1>3, <1>4, <1>5
<1>11. Good(s \o o, h, n + 1)
  BY <1>6, <1>7, <1>8, <1>9, <1>10 DEF Good
<1> QED
  BY <1>11 DEF o

-----------------------------------------------------------------------------
\* As long as raw_sequence was not called: every registered command was sent
\* or is held, once and in order; while single_read reads, what is held is
\* what it put aside.
Accounted == ~failed => registered = BatchOf(sent) \cup BatchOf(Held)
SendInv ==
  raws = 0 =>
    /\ Good(sent, Held, ncmds)
    /\ Accounted
    /\ call.kind = "single_read" => buffer = <<>>

LEMMA SendInit == Init => SendInv
<1> SUFFICES ASSUME Init PROVE SendInv
  OBVIOUS
<1>1. sent = <<>> /\ Held = <<>> /\ ncmds = 0 /\ registered = {} /\ buffer = <<>>
  BY DEF Init, Held, Idle
<1>2. Good(<<>>, <<>>, 0)
  BY Empty, IdsEmpty DEF Good, Before
<1> QED
  BY <1>1, <1>2, IdsEmpty DEF SendInv, Accounted

LEMMA SendStep == TypeInv /\ SendInv /\ [Next]_vars => SendInv'
<1> SUFFICES ASSUME TypeInv, SendInv, [Next]_vars, raws' = 0
             PROVE  Good(sent', Held', ncmds') /\ Accounted'
                    /\ (call.kind = "single_read" => buffer = <<>>)'
  BY DEF SendInv
<1>0. /\ buffer \in Seq(Cmd) /\ sent \in Seq(Cmd) /\ ncmds \in Nat /\ raws \in Nat
      /\ failed \in BOOLEAN /\ call.tmp \in Seq(Cmd) /\ Held \in Seq(Cmd)
      /\ (Returned => call = Idle) /\ (call.kind = "raw_sequence" => raws > 0)
      /\ call.kind \in {"none", "single_read", "read_results", "raw_sequence"}
  BY CommBufferAssumption DEF TypeInv, TypeOK, Reading, Held
<1>1. raws = 0
  <2>1. RawSequence \/ RawSequenceRaises => raws' = raws + 1
    BY DEF RawSequence, RawSequenceRaises
  <2>2. RawSequence \/ RawSequenceRaises \/ raws' = raws
    BY DEF Next, vars, DeviceExecutes, Register, Flush, FlushRaises, ReadResults, FlushAndReadResults,
       SingleWrite, SingleWriteRaises, SingleRead, SingleReadRaises, Retry, FinishReading,
       ReadRaises
  <2> QED
    BY <1>0, <2>1, <2>2
<1>2. Good(sent, Held, ncmds) /\ Accounted /\ (call.kind = "single_read" => buffer = <<>>)
  BY <1>1 DEF SendInv
<1>3. Returned => Held = buffer
  BY DEF Returned, Held
<1>4. CASE UNCHANGED <<buffer, call, ncmds, sent, registered, failed>>
  <2>1. Held' = Held
    BY <1>4 DEF Held
  <2> QED
    BY <1>2, <1>4, <2>1 DEF Accounted
<1>5. CASE UNCHANGED vars
  BY <1>4, <1>5 DEF vars
<1>6. CASE DeviceExecutes
  BY <1>4, <1>6 DEF DeviceExecutes
<1>7. ASSUME NEW rd \in BOOLEAN, Register(rd)
      PROVE  Good(sent', Held', ncmds') /\ Accounted' /\ (call.kind = "single_read" => buffer = <<>>)'
  <2> DEFINE c == NewCmd(ncmds + 1, rd, "batch")
  <2>1. c \in Cmd /\ c.id = ncmds + 1 /\ c \in BatchCmds
    BY <1>7, NewCommand DEF Register
  <2>2. /\ buffer' = Append(buffer, c) /\ registered' = registered \cup {c.id}
        /\ UNCHANGED <<sent, failed, call>> /\ ncmds' = ncmds + 1
        /\ Held = buffer /\ Held' = buffer' /\ call'.kind = "none"
    BY <1>7 DEF Register, Held, Returned
  <2> HIDE DEF c
  <2>3. buffer' = buffer \o <<c>>
    BY <1>0, <2>1, <2>2, AppendOne
  <2>4. Good(sent, buffer \o <<c>>, ncmds + 1)
    BY <1>0, <1>2, <2>1, <2>2, GoodHold
  <2>5. BatchOf(buffer \o <<c>>) = BatchOf(buffer) \cup {c.id}
    <3>1. <<c>> \in Seq(Cmd) /\ BatchOf(<<c>>) = {c.id}
      BY <2>1, IdsOne
    <3>2. BatchOf(buffer \o <<c>>) = BatchOf(buffer) \cup BatchOf(<<c>>)
      BY <1>0, <3>1, IdsConcat
    <3> QED
      BY <3>1, <3>2
  <2> QED
    BY <1>2, <2>2, <2>3, <2>4, <2>5 DEF Accounted
<1>8. ASSUME DoWriteDp0(buffer), buffer' = <<>>, UNCHANGED <<ncmds, registered, failed>>,
             Returned, call'.kind \in {"none", "read_results"}
      PROVE  Good(sent', Held', ncmds') /\ Accounted' /\ (call.kind = "single_read" => buffer = <<>>)'
  <2>1. Held = buffer /\ Held' = <<>> /\ sent' = sent \o buffer
    BY <1>8 DEF Held, Returned, DoWriteDp0
  <2>2. Good(sent \o buffer, <<>>, ncmds)
    BY <1>0, <1>2, <2>1, GoodSend
  <2>3. BatchOf(sent \o buffer) = BatchOf(sent) \cup BatchOf(buffer)
    BY <1>0, IdsConcat
  <2> QED
    BY <1>2, <1>8, <2>1, <2>2, <2>3, IdsEmpty DEF Accounted
<1>9. CASE Flush
  BY <1>8, <1>9 DEF Flush, Returned
<1>10. CASE ReadResults
  <2>1. Held' = Held /\ UNCHANGED <<sent, ncmds, registered, failed>> /\ call'.kind = "read_results"
    BY <1>3, <1>10 DEF ReadResults, BeginReading, Held
  <2> QED
    BY <1>2, <2>1 DEF Accounted
<1>11. CASE FlushAndReadResults
  BY <1>8, <1>11 DEF FlushAndReadResults, BeginReading
<1>12. ASSUME NEW c \in Cmd, c.id = ncmds + 1, c \notin BatchCmds, DoWriteDp0(<<c>>),
              ncmds' = ncmds + 1, UNCHANGED <<registered, failed>>, Held' = Held
       PROVE  Good(sent', Held', ncmds') /\ Accounted'
  <2>1. Good(sent \o <<c>>, Held, ncmds + 1)
    BY <1>0, <1>2, <1>12, GoodSingle
  <2>2. BatchOf(sent \o <<c>>) = BatchOf(sent)
    <3>1. <<c>> \in Seq(Cmd) /\ BatchOf(<<c>>) = {}
      BY <1>12, IdsOne
    <3>2. BatchOf(sent \o <<c>>) = BatchOf(sent) \cup BatchOf(<<c>>)
      BY <1>0, <3>1, IdsConcat
    <3> QED
      BY <3>1, <3>2
  <2> QED
    BY <1>2, <1>12, <2>1, <2>2 DEF Accounted, DoWriteDp0
<1>13. CASE SingleWrite
  <2> DEFINE c == NewCmd(ncmds + 1, FALSE, "single")
  <2>1. c \in Cmd /\ c.id = ncmds + 1 /\ c \notin BatchCmds
    BY <1>13, NewCommand DEF SingleWrite
  <2>2. /\ DoWriteDp0(<<c>>) /\ ncmds' = ncmds + 1 /\ UNCHANGED <<registered, failed, call, buffer>>
        /\ Held' = Held
    BY <1>13 DEF SingleWrite, Held
  <2> HIDE DEF c
  <2> QED
    BY <1>2, <1>12, <2>1, <2>2
<1>14. ASSUME NEW c \in Cmd, c.id = ncmds + 1, ncmds' = ncmds + 1, buffer' \in {<<>>, <<c>>},
              sent' = sent, failed' = TRUE, call' = call, Returned
       PROVE  Good(sent', Held', ncmds') /\ Accounted' /\ (call.kind = "single_read" => buffer = <<>>)'
  <2>1. Held' = buffer' /\ call'.kind = "none"
    BY <1>14 DEF Held, Returned
  <2>2. Good(sent, <<>>, ncmds)
    BY <1>2, GoodDrop
  <2>3. Good(sent, <<>> \o <<c>>, ncmds + 1)
    BY <1>0, <1>14, <2>2, EmptySeq, GoodHold
  <2>4. <<>> \o <<c>> = <<c>>
    BY <1>14, IdsOne, ConcatEmptySeq
  <2>5. Good(sent, <<>>, ncmds + 1)
    BY <2>3, GoodDrop
  <2> QED
    BY <1>14, <2>1, <2>3, <2>4, <2>5 DEF Accounted
<1>15. CASE SingleWriteRaises
  <2> DEFINE c == NewCmd(ncmds + 1, FALSE, "single")
  <2>1. c \in Cmd /\ c.id = ncmds + 1
    BY <1>15, NewCommand DEF SingleWriteRaises
  <2>2. /\ ncmds' = ncmds + 1 /\ buffer' \in {<<>>, <<c>>} /\ sent' = sent /\ failed' = TRUE
        /\ call' = call /\ Returned
    BY <1>15 DEF SingleWriteRaises
  <2> HIDE DEF c
  <2> QED
    BY <1>14, <2>1, <2>2
<1>16. CASE SingleRead
  <2> DEFINE c == NewCmd(ncmds + 1, TRUE, "single")
  <2>1. c \in Cmd /\ c.id = ncmds + 1 /\ c \notin BatchCmds
    BY <1>16, NewCommand DEF SingleRead
  <2>2. /\ DoWriteDp0(<<c>>) /\ ncmds' = ncmds + 1 /\ UNCHANGED <<registered, failed>>
        /\ Held' = Held /\ buffer' = <<>>
    BY <1>3, <1>16 DEF SingleRead, BeginReading, Held
  <2> HIDE DEF c
  <2> QED
    BY <1>12, <2>1, <2>2
<1>17. CASE SingleReadRaises
  <2> DEFINE c == NewCmd(ncmds + 1, TRUE, "single")
  <2>1. c \in Cmd /\ c.id = ncmds + 1
    BY <1>17, NewCommand DEF SingleReadRaises
  <2>2. /\ ncmds' = ncmds + 1 /\ buffer' = <<c>> /\ sent' = sent /\ failed' = TRUE
        /\ call' = call /\ Returned
    BY <1>17 DEF SingleReadRaises
  <2> HIDE DEF c
  <2> QED
    BY <1>14, <2>1, <2>2
<1>18. CASE RawSequence
  BY <1>1, <1>18 DEF RawSequence
<1>19. CASE Retry
  <2>1. call'.kind = call.kind /\ call'.tmp = call.tmp
    <3> DEFINE n == IF Len(dp1) < readBytes - Len(call.ret) THEN Len(dp1) ELSE readBytes - Len(call.ret)
    <3>1. call' = [call EXCEPT !.ret = @ \o SubSeq(dp1, 1, n), !.retries = @ + 1]
      BY <1>19 DEF Retry
    <3>2. call \in Reading
      BY DEF TypeInv, TypeOK
    <3> HIDE DEF n
    <3> QED
      BY <3>1, <3>2 DEF Reading
  <2>2. Held' = Held /\ UNCHANGED <<buffer, sent, ncmds, registered, failed>>
    BY <1>19, <2>1 DEF Retry, Held
  <2> QED
    BY <1>2, <2>1, <2>2 DEF Accounted
<1>20. CASE FinishReading
  <2>1. call'.kind = "none" /\ UNCHANGED <<sent, ncmds, registered, failed>>
    BY <1>20 DEF FinishReading, Idle
  <2>2. Held' = Held
    BY <1>0, <1>1, <1>20, <2>1 DEF FinishReading, Held, Returned
  <2> QED
    BY <1>2, <2>1, <2>2 DEF Accounted
<1>21. CASE ReadRaises
  <2>1. call'.kind = "none" /\ UNCHANGED <<buffer, sent, ncmds>> /\ failed' = TRUE /\ Held' = buffer
    BY <1>21 DEF ReadRaises, Idle, Held
  <2>2. buffer = Held \/ buffer = <<>>
    BY <1>0, <1>1, <1>2 DEF Held
  <2>3. Good(sent, <<>>, ncmds)
    BY <1>2, GoodDrop
  <2> QED
    BY <1>2, <2>1, <2>2, <2>3 DEF Accounted
<1>22. CASE FlushRaises
  <2>1. UNCHANGED <<buffer, call, sent, ncmds>> /\ failed' = TRUE /\ Held' = Held
    BY <1>22 DEF FlushRaises, Held
  <2> QED
    BY <1>2, <2>1 DEF Accounted
<1>23. CASE RawSequenceRaises
  BY <1>1, <1>23 DEF RawSequenceRaises
<1> QED
  BY <1>5, <1>6, <1>7, <1>9, <1>10, <1>11, <1>13, <1>15, <1>16, <1>17, <1>18, <1>19, <1>20, <1>21,
     <1>22, <1>23 DEF Next

\* Communication.flush and the calls beside it, for any number of commands, with
\* exceptions or without: none is lost unless a call raised, none is in two sendings
\* that returned, none overtakes another.
THEOREM SentOnceAndInOrder == Spec => []SentOnce
<1>1. TypeInv /\ SendInv => SentOnce
  <2> SUFFICES ASSUME TypeInv, SendInv, raws = 0
               PROVE  /\ ~failed => registered = BatchOf(Outgoing)
                      /\ \A i, j \in DOMAIN Outgoing : i < j =>
                           /\ Outgoing[i].id # Outgoing[j].id
                           /\ Outgoing[i].by = "batch" /\ Outgoing[j].by = "batch"
                                => Outgoing[i].id < Outgoing[j].id
    BY DEF SentOnce
  <2>1. sent \in Seq(Cmd) /\ Held \in Seq(Cmd)
    BY DEF TypeInv, TypeOK, Reading, Held
  <2>2. Good(sent, Held, ncmds) /\ Accounted
    BY DEF SendInv
  <2>3. Outgoing \in Seq(Cmd) /\ Apart(Outgoing) /\ Ordered(Outgoing, BatchCmds)
    BY <2>1, <2>2, Concat DEF Good, Outgoing
  <2>4. BatchOf(Outgoing) = BatchOf(sent) \cup BatchOf(Held)
    BY <2>1, IdsConcat DEF Outgoing
  <2>5. \A i \in DOMAIN Outgoing : Outgoing[i] \in Cmd
    BY <2>3, LenProperties, ElementOfSeq
  <2> HIDE DEF Outgoing
  <2> QED
    BY <2>2, <2>3, <2>4, <2>5 DEF Accounted, Apart, Ordered, BatchCmds
<1> QED
  BY <1>1, TypeInit, TypeStep, SendInit, SendStep, PTL DEF Spec

-----------------------------------------------------------------------------
\* The answers a, the commands p the device has and the commands h held, of
\* which there were n: the reads are in the order in which they were made.
Flow(a, p, h, n) ==
  /\ Ordered(a, Cmd) /\ Ordered(p, ReadCmds) /\ Ordered(h, ReadCmds)
  /\ Before(IdsOf(a), ReadsOf(p)) /\ Before(IdsOf(a) \cup ReadsOf(p), ReadsOf(h))
  /\ IdsOf(a) \subseteq 1..n /\ ReadsOf(p) \subseteq 1..n /\ ReadsOf(h) \subseteq 1..n

\* While nothing is Late, nothing has raised and raw_sequence has not returned:
\* the answers on their way are those somebody has still to collect, and
\* _read_bytes counts what the next call will collect.
Answers == call.ret \o dp1
Owed == IdsOf(Answers) \cup ReadsOf(pending) = unread \cup call.want
AtRest == readBytes = Cardinality(unread \cup ReadsOf(buffer))
Fetching ==
  /\ unread = {} /\ readBytes = Cardinality(call.want)
  /\ Len(call.ret) <= readBytes
  /\ call.retries = MaxRetries => Len(call.ret) = readBytes
  /\ call.kind = "read_results" => call.tmpBytes = 0 /\ ReadsOf(buffer) = {}
  /\ call.kind = "single_read" =>
       /\ buffer = <<>> /\ call.tmpBytes = Cardinality(ReadsOf(call.tmp))
       /\ Ordered(call.tmp, ReadCmds) /\ ReadsOf(call.tmp) \subseteq 1..ncmds
ReadInv ==
  Trusted =>
    /\ Flow(Answers, pending, buffer, ncmds)
    /\ Owed
    /\ Returned => AtRest
    /\ ~Returned => Fetching

LEMMA Joined ==
  ASSUME NEW s \in Seq(Cmd), NEW t \in Seq(Cmd)
  PROVE  /\ s \o t \in Seq(Cmd)
         /\ IdsOf(s \o t) = IdsOf(s) \cup IdsOf(t)
         /\ ReadsOf(s \o t) = ReadsOf(s) \cup ReadsOf(t)
         /\ Ordered(s \o t, Cmd) <=> Ordered(s, Cmd) /\ Ordered(t, Cmd) /\ Before(IdsOf(s), IdsOf(t))
         /\ Ordered(s \o t, ReadCmds) <=>
              Ordered(s, ReadCmds) /\ Ordered(t, ReadCmds) /\ Before(ReadsOf(s), ReadsOf(t))
<1>1. /\ IdsOf(s) = Those(s, Cmd) /\ ReadsOf(s) = Those(s, ReadCmds)
      /\ IdsOf(t) = Those(t, Cmd) /\ ReadsOf(t) = Those(t, ReadCmds)
  BY Numbers
<1>2. /\ s \o t \in Seq(Cmd)
      /\ IdsOf(s \o t) = IdsOf(s) \cup IdsOf(t)
      /\ ReadsOf(s \o t) = ReadsOf(s) \cup ReadsOf(t)
  BY IdsConcat, ConcatProperties
<1>3. Ordered(s \o t, Cmd) <=>
        Ordered(s, Cmd) /\ Ordered(t, Cmd) /\ Before(Those(s, Cmd), Those(t, Cmd))
  BY Concat
<1>4. Ordered(s \o t, ReadCmds) <=>
        Ordered(s, ReadCmds) /\ Ordered(t, ReadCmds) /\ Before(Those(s, ReadCmds), Those(t, ReadCmds))
  BY Concat
<1> QED
  BY <1>1, <1>2, <1>3, <1>4

LEMMA OneRead ==
  ASSUME NEW c \in Cmd
  PROVE  /\ <<c>> \in Seq(Cmd) /\ IdsOf(<<c>>) = {c.id}
         /\ ReadsOf(<<c>>) = (IF c.read THEN {c.id} ELSE {})
         /\ Ordered(<<c>>, Cmd) /\ Ordered(<<c>>, ReadCmds)
<1>1. c \in ReadCmds <=> c.read
  BY DEF ReadCmds
<1> QED
  BY <1>1, One, IdsOne

LEMMA Nothing ==
  /\ <<>> \in Seq(Cmd) /\ IdsOf(<<>>) = {} /\ ReadsOf(<<>>) = {}
  /\ Ordered(<<>>, Cmd) /\ Ordered(<<>>, ReadCmds)
BY Empty, IdsEmpty

LEMMA Regroup ==
  ASSUME NEW s \in Seq(Cmd), NEW t \in Seq(Cmd), NEW u \in Seq(Cmd)
  PROVE  (s \o t) \o u = s \o (t \o u)
BY ConcatAssociative

\* The device executes a command.
LEMMA FlowExecute ==
  ASSUME NEW a \in Seq(Cmd), NEW p \in Seq(Cmd), NEW h, NEW n, Flow(a, p, h, n), p # <<>>
  PROVE  LET b == IF Head(p).read THEN Append(a, Head(p)) ELSE a
         IN /\ Flow(b, Tail(p), h, n)
            /\ IdsOf(b) \cup ReadsOf(Tail(p)) = IdsOf(a) \cup ReadsOf(p)
<1> DEFINE c == Head(p)
           t == Tail(p)
           o == <<c>>
<1>1. c \in Cmd /\ t \in Seq(Cmd) /\ p = o \o t
  BY HeadTail
<1>2. /\ o \in Seq(Cmd) /\ IdsOf(o) = {c.id} /\ ReadsOf(o) = (IF c.read THEN {c.id} ELSE {})
      /\ Ordered(o, Cmd) /\ Append(a, c) = a \o o
  BY <1>1, OneRead, AppendOne
<1> HIDE DEF c, t, o
<1>3. ReadsOf(p) = ReadsOf(o) \cup ReadsOf(t)
  BY <1>1, <1>2, Joined
<1>4. Ordered(t, ReadCmds) /\ Before(ReadsOf(o), ReadsOf(t))
  BY <1>1, <1>2, Joined DEF Flow
<1>5. CASE c.read
  <2>1. IdsOf(a \o o) = IdsOf(a) \cup {c.id} /\ ReadsOf(p) = {c.id} \cup ReadsOf(t)
    BY <1>2, <1>3, <1>5, Joined
  <2>2. Before(IdsOf(a), IdsOf(o))
    BY <1>2, <2>1 DEF Flow, Before
  <2>3. Ordered(a \o o, Cmd)
    BY <1>2, <2>2, Joined DEF Flow
  <2>4. Before(IdsOf(a \o o), ReadsOf(t)) /\ Before(IdsOf(a \o o) \cup ReadsOf(t), ReadsOf(h))
    BY <1>2, <1>4, <1>5, <2>1 DEF Flow, Before
  <2>5. Flow(a \o o, t, h, n)
    BY <1>4, <2>1, <2>3, <2>4 DEF Flow
  <2>6. IdsOf(a \o o) \cup ReadsOf(t) = IdsOf(a) \cup ReadsOf(p)
    BY <2>1
  <2> QED
    BY <1>2, <1>5, <2>5, <2>6 DEF c, t
<1>6. CASE ~c.read
  <2>1. ReadsOf(p) = ReadsOf(t)
    BY <1>2, <1>3, <1>6
  <2>2. Flow(a, t, h, n)
    BY <1>4, <2>1 DEF Flow
  <2> QED
    BY <1>6, <2>1, <2>2 DEF c, t
<1> QED
  BY <1>5, <1>6

\* What is held is sent.
LEMMA FlowSend ==
  ASSUME NEW a \in Seq(Cmd), NEW p \in Seq(Cmd), NEW h \in Seq(Cmd), NEW n, Flow(a, p, h, n)
  PROVE  Flow(a, p \o h, <<>>, n) /\ ReadsOf(p \o h) = ReadsOf(p) \cup ReadsOf(h)
<1>1. ReadsOf(p \o h) = ReadsOf(p) \cup ReadsOf(h)
  BY Joined
<1>2. Before(ReadsOf(p), ReadsOf(h)) /\ Before(IdsOf(a), ReadsOf(p \o h))
  BY <1>1 DEF Flow, Before
<1>3. Ordered(p \o h, ReadCmds)
  BY <1>2, Joined DEF Flow
<1>4. Before(IdsOf(a) \cup ReadsOf(p \o h), ReadsOf(<<>>))
  BY Nothing DEF Before
<1> QED
  BY <1>1, <1>2, <1>3, <1>4, Nothing DEF Flow

\* A new command, number n + 1, is held.
LEMMA FlowHold ==
  ASSUME NEW a \in Seq(Cmd), NEW p \in Seq(Cmd), NEW h \in Seq(Cmd), NEW n \in Nat, Flow(a, p, h, n),
         NEW c \in Cmd, c.id = n + 1
  PROVE  /\ Flow(a, p, h \o <<c>>, n + 1)
         /\ ReadsOf(h \o <<c>>) = ReadsOf(h) \cup (IF c.read THEN {n + 1} ELSE {})
<1> DEFINE o == <<c>>
<1>1. /\ o \in Seq(Cmd) /\ ReadsOf(o) = (IF c.read THEN {n + 1} ELSE {}) /\ Ordered(o, ReadCmds)
  BY OneRead
<1> HIDE DEF o
<1>2. \A x \in 1..n : x < n + 1 /\ x \in 1..(n + 1)
  OBVIOUS
<1>3. n + 1 \in 1..(n + 1)
  OBVIOUS
<1>4. ReadsOf(o) \subseteq {n + 1}
  BY <1>1
<1>5. ReadsOf(h \o o) = ReadsOf(h) \cup ReadsOf(o)
  BY <1>1, Joined
<1>6. Before(ReadsOf(h), ReadsOf(o)) /\ Before(IdsOf(a) \cup ReadsOf(p), ReadsOf(o))
  BY <1>2, <1>4 DEF Flow, Before
<1>7. Ordered(h \o o, ReadCmds)
  BY <1>1, <1>6, Joined DEF Flow
<1>8. Before(IdsOf(a) \cup ReadsOf(p), ReadsOf(h \o o))
  BY <1>5, <1>6 DEF Flow, Before
<1>9. /\ IdsOf(a) \subseteq 1..(n + 1) /\ ReadsOf(p) \subseteq 1..(n + 1)
      /\ ReadsOf(h \o o) \subseteq 1..(n + 1)
  BY <1>2, <1>3, <1>4, <1>5 DEF Flow
<1>10. Flow(a, p, h \o o, n + 1)
  BY <1>7, <1>8, <1>9 DEF Flow
<1> QED
  BY <1>1, <1>5, <1>10 DEF o

\* A new write is sent past what is held.
LEMMA FlowWrite ==
  ASSUME NEW a \in Seq(Cmd), NEW p \in Seq(Cmd), NEW h \in Seq(Cmd), NEW n \in Nat, Flow(a, p, h, n),
         NEW c \in Cmd, ~c.read
  PROVE  Flow(a, p \o <<c>>, h, n + 1) /\ ReadsOf(p \o <<c>>) = ReadsOf(p)
<1> DEFINE o == <<c>>
<1>1. o \in Seq(Cmd) /\ ReadsOf(o) = {} /\ Ordered(o, ReadCmds)
  BY OneRead
<1> HIDE DEF o
<1>2. \A x \in 1..n : x \in 1..(n + 1)
  OBVIOUS
<1>3. ReadsOf(p \o o) = ReadsOf(p)
  <2>1. ReadsOf(p \o o) = ReadsOf(p) \cup ReadsOf(o)
    BY <1>1, Joined
  <2> QED
    BY <1>1, <2>1
<1>4. Ordered(p \o o, ReadCmds)
  BY <1>1, Joined DEF Flow, Before
<1>5. Flow(a, p \o o, h, n + 1)
  BY <1>2, <1>3, <1>4 DEF Flow
<1> QED
  BY <1>3, <1>5 DEF o

\* A new read is sent when no answer is on its way.
LEMMA FlowRead ==
  ASSUME NEW a \in Seq(Cmd), NEW p \in Seq(Cmd), NEW h, NEW n \in Nat, Flow(a, p, h, n),
         IdsOf(a) = {}, ReadsOf(p) = {}, NEW c \in Cmd, c.id = n + 1, c.read
  PROVE  Flow(a, p \o <<c>>, <<>>, n + 1) /\ ReadsOf(p \o <<c>>) = {n + 1}
<1> DEFINE o == <<c>>
<1>1. o \in Seq(Cmd) /\ ReadsOf(o) = {n + 1} /\ Ordered(o, ReadCmds)
  BY OneRead
<1> HIDE DEF o
<1>2. n + 1 \in 1..(n + 1)
  OBVIOUS
<1>3. ReadsOf(p \o o) = {n + 1}
  <2>1. ReadsOf(p \o o) = ReadsOf(p) \cup ReadsOf(o)
    BY <1>1, Joined
  <2> QED
    BY <1>1, <2>1
<1>4. Ordered(p \o o, ReadCmds)
  BY <1>1, Joined DEF Flow, Before
<1>5. Flow(a, p \o o, <<>>, n + 1)
  BY <1>2, <1>3, <1>4, Nothing DEF Flow, Before
<1> QED
  BY <1>3, <1>5 DEF o

\* The answers owed have all been fetched: nothing is left on its way.
LEMMA FlowDone ==
  ASSUME NEW r \in Seq(Cmd), NEW d \in Seq(Cmd), NEW p \in Seq(Cmd), NEW h, NEW n,
         Flow(r \o d, p, h, n), NEW want, IdsOf(r \o d) \cup ReadsOf(p) = want,
         IsFiniteSet(want), Len(r) = Cardinality(want)
  PROVE  IdsOf(r) = want /\ Ordered(r, Cmd) /\ IdsOf(d) = {} /\ ReadsOf(p) = {} /\ Ordered(d, Cmd)
<1>1. /\ IdsOf(r \o d) = IdsOf(r) \cup IdsOf(d) /\ Ordered(r, Cmd) /\ Ordered(d, Cmd)
      /\ Before(IdsOf(r), IdsOf(d))
  BY Joined DEF Flow
<1>2. Cardinality(IdsOf(r)) = Cardinality(want)
  BY <1>1, Count
<1>3. IdsOf(r) \in SUBSET want
  BY <1>1
<1>4. IdsOf(r) = want
  BY <1>2, <1>3, FS_Subset
<1>5. want \subseteq Nat
  <2>1. IdsOf(r) \subseteq 1..MaxCmds
    BY Numbers
  <2> QED
    BY <1>4, <2>1, CommBufferAssumption
<1>6. \A x \in Nat : ~(x < x)
  OBVIOUS
<1>7. IdsOf(d) = {}
  BY <1>1, <1>4, <1>5, <1>6 DEF Before
<1>8. ReadsOf(p) = {}
  BY <1>1, <1>4, <1>5, <1>6 DEF Flow, Before
<1> QED
  BY <1>1, <1>4, <1>7, <1>8

LEMMA Cards ==
  ASSUME NEW n \in Nat, NEW S, S \subseteq 1..n
  PROVE  /\ IsFiniteSet(S) /\ Cardinality(S) \in Nat
         /\ Cardinality(S \cup {n + 1}) = Cardinality(S) + 1
<1>1. IsFiniteSet(1..n)
  BY FS_Interval
<1>2. IsFiniteSet(S)
  BY <1>1, FS_Subset
<1>3. n + 1 \notin S
  OBVIOUS
<1> QED
  BY <1>2, <1>3, FS_AddElement, FS_CardinalityType

-----------------------------------------------------------------------------
LEMMA ReadInit == Init => ReadInv
<1> SUFFICES ASSUME Init PROVE ReadInv
  OBVIOUS
<1>1. /\ buffer = <<>> /\ pending = <<>> /\ dp1 = <<>> /\ ncmds = 0 /\ unread = {} /\ readBytes = 0
      /\ call.kind = "none" /\ call.ret = <<>> /\ call.want = {}
  BY DEF Init, Idle
<1>2. Answers = <<>>
  BY <1>1 DEF Answers
<1>3. Flow(<<>>, <<>>, <<>>, 0)
  BY Nothing DEF Flow, Before
<1>4. Cardinality({}) = 0
  BY FS_EmptySet
<1> QED
  BY <1>1, <1>2, <1>3, <1>4, Nothing DEF ReadInv, Owed, AtRest, Returned

\* A reading call begins with nothing fetched.
LEMMA Beginning ==
  ASSUME TypeInv, Returned, NEW kind \in {"single_read", "read_results", "raw_sequence"},
         NEW tmp, NEW tmpBytes, NEW want, BeginReading(kind, tmp, tmpBytes, want), dp1' = dp1
  PROVE  /\ Answers' = Answers /\ ~Returned' /\ call.want = {}
         /\ call'.kind = kind /\ call'.tmp = tmp /\ call'.tmpBytes = tmpBytes /\ call'.want = want
         /\ Len(call'.ret) = 0 /\ call'.retries # MaxRetries
<1>1. /\ call'.kind = kind /\ call'.tmp = tmp /\ call'.tmpBytes = tmpBytes /\ call'.want = want
      /\ call'.ret = <<>> /\ call'.retries = 0
  BY DEF BeginReading
<1>2. call.ret = <<>> /\ call.want = {}
  BY DEF TypeInv, Idle
<1>3. MaxRetries # 0
  BY CommBufferAssumption
<1> QED
  BY <1>1, <1>2, <1>3 DEF Answers, Returned

LEMMA ReadStep ==
  ASSUME ~Late, Orderly, TypeInv, TypeInv', ReadInv, [Next]_vars
  PROVE  ReadInv'
<1> DEFINE Clean == /\ Flow(Answers, pending, buffer, ncmds)
                    /\ Owed
                    /\ Returned => AtRest
                    /\ ~Returned => Fetching
<1> SUFFICES ASSUME Trusted' PROVE Clean'
  BY DEF ReadInv
<1>0. /\ buffer \in Seq(Cmd) /\ pending \in Seq(Cmd) /\ dp1 \in Seq(Cmd) /\ ncmds \in Nat
      /\ raws \in Nat /\ failed \in BOOLEAN /\ readBytes \in Nat
      /\ call.tmp \in Seq(Cmd) /\ call.ret \in Seq(Cmd) /\ call.retries \in 0..MaxRetries
      /\ call.kind \in {"none", "single_read", "read_results", "raw_sequence"}
      /\ (call.kind = "raw_sequence" => raws > 0)
  BY CommBufferAssumption DEF TypeInv, TypeOK, Reading
<1>1. Answers \in Seq(Cmd)
  BY <1>0, ConcatProperties DEF Answers
<1>2. Returned => call.want = {} /\ call.ret = <<>> /\ call.kind = "none"
  BY DEF TypeInv, Idle, Returned
<1>3. ~failed' /\ (raws' = 0 \/ (raws' = 1 /\ call'.kind = "raw_sequence"))
  BY DEF Trusted
<1>10. ASSUME Clean, UNCHANGED <<buffer, readBytes, pending, dp1, call, ncmds, unread>>
       PROVE  Clean'
  BY <1>10 DEF Answers, Owed, AtRest, Fetching, Returned
<1>11. ASSUME UNCHANGED vars PROVE Clean'
  <2>1. Trusted
    BY <1>3, <1>11 DEF Trusted, vars
  <2> QED
    BY <1>10, <1>11, <2>1 DEF ReadInv, vars
<1>12. ASSUME UNCHANGED <<failed, raws, call>> PROVE Clean
  <2>1. Trusted
    BY <1>3, <1>12 DEF Trusted
  <2> QED
    BY <2>1 DEF ReadInv
<1>13. ASSUME UNCHANGED <<failed, raws>>, Returned, call'.kind # "raw_sequence" PROVE Clean
  <2>1. Trusted
    BY <1>3, <1>13 DEF Trusted
  <2> QED
    BY <2>1 DEF ReadInv
<1>14. ASSUME NEW S, S \subseteq IdsOf(Answers) \cup ReadsOf(pending) \cup ReadsOf(buffer), Clean
       PROVE  S \subseteq 1..ncmds
  BY <1>14 DEF Flow
<1>15. CASE DeviceExecutes
  <2>0. Clean /\ pending # <<>> /\ pending' = Tail(pending)
        /\ UNCHANGED <<buffer, readBytes, call, ncmds, unread>>
    BY <1>12, <1>15 DEF DeviceExecutes
  <2> DEFINE c == Head(pending)
  <2>1. c \in Cmd
    BY <1>0, <2>0, HeadTail
  <2>2. dp1' = IF c.read THEN Append(dp1, c) ELSE dp1
    BY <1>15 DEF DeviceExecutes
  <2>3. Answers' = IF c.read THEN Append(Answers, c) ELSE Answers
    <3> HIDE DEF c
    <3>1. <<c>> \in Seq(Cmd) /\ Append(dp1, c) = dp1 \o <<c>> /\ Append(Answers, c) = Answers \o <<c>>
      BY <1>0, <1>1, <2>1, OneRead, AppendOne
    <3>2. call.ret \o (dp1 \o <<c>>) = Answers \o <<c>>
      BY <1>0, <3>1, Regroup DEF Answers
    <3> QED
      BY <2>0, <2>2, <3>1, <3>2 DEF Answers
  <2>4. /\ Flow(Answers', pending', buffer, ncmds)
        /\ IdsOf(Answers') \cup ReadsOf(pending') = IdsOf(Answers) \cup ReadsOf(pending)
    BY <1>0, <1>1, <2>0, <2>3, FlowExecute
  <2> QED
    BY <2>0, <2>4 DEF Owed, AtRest, Fetching, Returned
<1>16. ASSUME NEW rd \in BOOLEAN, Register(rd) PROVE Clean'
  <2> DEFINE c == NewCmd(ncmds + 1, rd, "batch")
  <2>0. Clean /\ Returned /\ ncmds < MaxCmds
    BY <1>12, <1>16 DEF Register
  <2>1. c \in Cmd /\ c.id = ncmds + 1 /\ (c.read <=> rd)
    BY <2>0, NewCommand DEF ReadCmds
  <2>2. /\ buffer' = Append(buffer, c) /\ ncmds' = ncmds + 1
        /\ readBytes' = (IF rd THEN readBytes + 1 ELSE readBytes)
        /\ UNCHANGED <<pending, dp1, call, unread>> /\ Answers' = Answers
    BY <1>16 DEF Register, Answers
  <2> HIDE DEF c
  <2>3. buffer' = buffer \o <<c>>
    BY <1>0, <2>1, <2>2, AppendOne
  <2>4. /\ Flow(Answers, pending, buffer', ncmds + 1)
        /\ ReadsOf(buffer') = ReadsOf(buffer) \cup (IF rd THEN {ncmds + 1} ELSE {})
    BY <1>0, <1>1, <2>0, <2>1, <2>3, FlowHold
  <2>5. unread \cup ReadsOf(buffer) \subseteq 1..ncmds
    BY <1>14, <2>0 DEF Owed
  <2>6. Cardinality(unread \cup ReadsOf(buffer) \cup {ncmds + 1})
          = Cardinality(unread \cup ReadsOf(buffer)) + 1
    BY <1>0, <2>5, Cards
  <2>7. AtRest'
    <3>1. CASE rd
      <4>1. unread \cup ReadsOf(buffer') = unread \cup ReadsOf(buffer) \cup {ncmds + 1}
        BY <2>4, <3>1
      <4> QED
        BY <2>0, <2>2, <2>6, <3>1, <4>1 DEF AtRest
    <3>2. CASE ~rd
      BY <2>0, <2>2, <2>4, <3>2 DEF AtRest
    <3> QED
      BY <3>1, <3>2
  <2> QED
    BY <2>0, <2>2, <2>4, <2>7 DEF Owed, Returned
<1>17. CASE Flush
  <2>0. /\ Clean /\ Returned /\ pending' = pending \o buffer /\ buffer' = <<>>
        /\ unread' = unread \cup ReadsOf(buffer)
        /\ UNCHANGED <<readBytes, dp1, call, ncmds>> /\ Answers' = Answers
    BY <1>12, <1>17 DEF Flush, DoWriteDp0, Answers
  <2>1. /\ Flow(Answers, pending', <<>>, ncmds)
        /\ ReadsOf(pending') = ReadsOf(pending) \cup ReadsOf(buffer)
    BY <1>0, <1>1, <2>0, FlowSend
  <2>2. Owed' /\ AtRest'
    <3>1. unread' \cup ReadsOf(buffer') = unread \cup ReadsOf(buffer)
      BY <2>0, Nothing
    <3> QED
      BY <1>2, <2>0, <2>1, <3>1 DEF Owed, AtRest
  <2> QED
    BY <2>0, <2>1, <2>2 DEF Returned
<1>18. CASE ReadResults
  <2>0. /\ Returned /\ ReadsOf(buffer) = {} /\ BeginReading("read_results", buffer, 0, unread)
        /\ unread' = {} /\ UNCHANGED <<buffer, readBytes, pending, dp1, ncmds, failed, raws>>
    BY <1>18 DEF ReadResults
  <2>1. /\ Answers' = Answers /\ ~Returned' /\ call.want = {}
        /\ call'.kind = "read_results" /\ call'.tmpBytes = 0 /\ call'.want = unread
        /\ Len(call'.ret) = 0 /\ call'.retries # MaxRetries
    BY <2>0, Beginning
  <2>2. Clean
    BY <1>13, <2>0, <2>1
  <2>3. unread \cup ReadsOf(buffer) = unread
    BY <2>0
  <2>4. Fetching'
    BY <1>0, <2>0, <2>1, <2>2, <2>3 DEF Fetching, AtRest
  <2> QED
    BY <2>0, <2>1, <2>2, <2>4 DEF Owed
<1>19. CASE FlushAndReadResults
  <2> DEFINE want == unread \cup ReadsOf(buffer)
  <2>0. /\ Returned /\ pending' = pending \o buffer /\ BeginReading("read_results", <<>>, 0, want)
        /\ buffer' = <<>> /\ unread' = {} /\ UNCHANGED <<readBytes, dp1, ncmds, failed, raws>>
    BY <1>19 DEF FlushAndReadResults, DoWriteDp0
  <2>1. /\ Answers' = Answers /\ ~Returned' /\ call.want = {}
        /\ call'.kind = "read_results" /\ call'.tmpBytes = 0 /\ call'.want = want
        /\ Len(call'.ret) = 0 /\ call'.retries # MaxRetries
    BY <2>0, Beginning
  <2>2. Clean
    BY <1>13, <2>0, <2>1
  <2>3. /\ Flow(Answers, pending', <<>>, ncmds)
        /\ ReadsOf(pending') = ReadsOf(pending) \cup ReadsOf(buffer)
    BY <1>0, <1>1, <2>0, <2>2, FlowSend
  <2>4. Fetching'
    BY <1>0, <2>0, <2>1, <2>2, Nothing DEF Fetching, AtRest
  <2> QED
    BY <2>0, <2>1, <2>2, <2>3, <2>4 DEF Owed
<1>20. CASE SingleWrite
  <2> DEFINE c == NewCmd(ncmds + 1, FALSE, "single")
  <2>0. /\ Clean /\ Returned /\ ncmds < MaxCmds /\ ncmds' = ncmds + 1
        /\ UNCHANGED <<buffer, readBytes, dp1, call, unread>> /\ Answers' = Answers
        /\ pending' = pending \o <<c>>
    BY <1>12, <1>20 DEF SingleWrite, DoWriteDp0, Answers
  <2>1. c \in Cmd /\ ~c.read
    BY <2>0, NewCommand DEF ReadCmds
  <2> HIDE DEF c
  <2>2. Flow(Answers, pending', buffer, ncmds + 1) /\ ReadsOf(pending') = ReadsOf(pending)
    BY <1>0, <1>1, <2>0, <2>1, FlowWrite
  <2> QED
    BY <2>0, <2>2 DEF Owed, AtRest, Returned
<1>21. CASE SingleWriteRaises
  BY <1>3, <1>21 DEF SingleWriteRaises
<1>22. CASE SingleRead
  <2> DEFINE c == NewCmd(ncmds + 1, TRUE, "single")
  <2>0. /\ Returned /\ ncmds < MaxCmds /\ unread = {} /\ ncmds' = ncmds + 1
        /\ pending' = pending \o <<c>> /\ BeginReading("single_read", buffer, readBytes, {c.id})
        /\ buffer' = <<>> /\ readBytes' = 1 /\ UNCHANGED <<dp1, unread, failed, raws>>
    BY <1>22 DEF SingleRead, DoWriteDp0
  <2>1. c \in Cmd /\ c.id = ncmds + 1 /\ c.read
    BY <2>0, NewCommand DEF ReadCmds
  <2> HIDE DEF c
  <2>2. /\ Answers' = Answers /\ ~Returned' /\ call.want = {} /\ call'.kind = "single_read"
        /\ call'.tmp = buffer /\ call'.tmpBytes = readBytes /\ call'.want = {ncmds + 1}
        /\ Len(call'.ret) = 0 /\ call'.retries # MaxRetries
    BY <2>0, <2>1, Beginning
  <2>3. Clean
    BY <1>13, <2>0, <2>2
  <2>4. IdsOf(Answers) = {} /\ ReadsOf(pending) = {}
    BY <2>0, <2>2, <2>3 DEF Owed
  <2>5. Flow(Answers, pending', <<>>, ncmds + 1) /\ ReadsOf(pending') = {ncmds + 1}
    <3>1. Flow(Answers, pending, buffer, ncmds)
      BY <2>3
    <3> HIDE DEF Clean
    <3>2. Flow(Answers, pending \o <<c>>, <<>>, ncmds + 1) /\ ReadsOf(pending \o <<c>>) = {ncmds + 1}
      BY <1>0, <1>1, <2>1, <2>4, <3>1, FlowRead
    <3> QED
      BY <2>0, <3>2
  <2>6. Cardinality({ncmds + 1}) = 1
    BY FS_Singleton
  <2>7. readBytes = Cardinality(ReadsOf(buffer))
    <3>1. unread \cup ReadsOf(buffer) = ReadsOf(buffer)
      BY <2>0
    <3> QED
      BY <2>0, <2>3, <3>1 DEF AtRest
  <2>8. Ordered(buffer, ReadCmds) /\ ReadsOf(buffer) \subseteq 1..(ncmds + 1)
    <3>1. \A x \in 1..ncmds : x \in 1..(ncmds + 1)
      BY <1>0
    <3> QED
      BY <2>3, <3>1 DEF Flow
  <2>9. Fetching'
    BY <2>0, <2>2, <2>6, <2>7, <2>8 DEF Fetching
  <2> QED
    BY <2>0, <2>2, <2>4, <2>5, <2>9 DEF Owed
<1>23. CASE SingleReadRaises
  BY <1>3, <1>23 DEF SingleReadRaises
<1>24. CASE RawSequence
  <2>1. PICK rd \in BOOLEAN :
          LET all == Append(buffer, NewCmd(ncmds + 1, rd, "raw"))
          IN /\ DoWriteDp0(all)
             /\ readBytes' = IF rd THEN readBytes + 1 ELSE readBytes
             /\ BeginReading("raw_sequence", all, 0, unread \cup ReadsOf(all))
             /\ buffer' = <<>>
    BY <1>24 DEF RawSequence
  <2> DEFINE c == NewCmd(ncmds + 1, rd, "raw")
             all == Append(buffer, c)
             want == unread \cup ReadsOf(all)
  <2>2. /\ pending' = pending \o all /\ readBytes' = (IF rd THEN readBytes + 1 ELSE readBytes)
        /\ BeginReading("raw_sequence", all, 0, want) /\ buffer' = <<>>
    BY <2>1 DEF DoWriteDp0
  <2>3. /\ Returned /\ ncmds < MaxCmds /\ ncmds' = ncmds + 1 /\ raws' = raws + 1 /\ failed' = failed
        /\ dp1' = dp1 /\ unread' = {}
    BY <1>24 DEF RawSequence
  <2>4. c \in Cmd /\ c.id = ncmds + 1 /\ (c.read <=> rd)
    BY <2>3, NewCommand DEF ReadCmds
  <2> HIDE DEF c
  <2>5. all \in Seq(Cmd) /\ all = buffer \o <<c>>
    BY <1>0, <2>4, AppendOne
  <2> HIDE DEF all
  <2>6. /\ Answers' = Answers /\ ~Returned' /\ call.want = {} /\ call'.kind = "raw_sequence"
        /\ call'.want = want /\ Len(call'.ret) = 0 /\ call'.retries # MaxRetries
    BY <2>2, <2>3, Beginning
  <2>7. Clean
    <3>1. raws = 0 /\ ~failed
      BY <1>0, <1>3, <2>3
    <3> QED
      BY <3>1 DEF Trusted, ReadInv
  <2>8. /\ Flow(Answers, pending, all, ncmds + 1)
        /\ ReadsOf(all) = ReadsOf(buffer) \cup (IF rd THEN {ncmds + 1} ELSE {})
    BY <1>0, <1>1, <2>4, <2>5, <2>7, FlowHold
  <2>9. Flow(Answers, pending', <<>>, ncmds + 1) /\ ReadsOf(pending') = ReadsOf(pending) \cup ReadsOf(all)
    <3>1. Flow(Answers, pending \o all, <<>>, ncmds + 1) /\ ReadsOf(pending \o all) = ReadsOf(pending) \cup ReadsOf(all)
      <4>1. Flow(Answers, pending, all, ncmds + 1) /\ all \in Seq(Cmd)
        BY <2>5, <2>8
      <4> HIDE DEF Clean
      <4> QED
        BY <1>0, <1>1, <4>1, FlowSend
    <3> QED
      BY <2>2, <3>1
  <2>10. readBytes' = Cardinality(want)
    <3>1. unread \cup ReadsOf(buffer) \subseteq 1..ncmds
      BY <1>14, <2>7 DEF Owed
    <3>2. Cardinality(unread \cup ReadsOf(buffer) \cup {ncmds + 1})
            = Cardinality(unread \cup ReadsOf(buffer)) + 1
      BY <1>0, <3>1, Cards
    <3>3. readBytes = Cardinality(unread \cup ReadsOf(buffer))
      BY <2>3, <2>7 DEF AtRest
    <3>4. CASE rd
      <4>1. want = unread \cup ReadsOf(buffer) \cup {ncmds + 1}
        BY <2>8, <3>4
      <4> QED
        BY <2>2, <3>2, <3>3, <3>4, <4>1
    <3>5. CASE ~rd
      BY <2>2, <2>8, <3>3, <3>5
    <3> QED
      BY <3>4, <3>5
  <2>11. Owed'
    BY <2>3, <2>6, <2>7, <2>9 DEF Owed
  <2> HIDE DEF want
  <2>12. readBytes' \in Nat
    BY DEF TypeInv, TypeOK
  <2>13. Fetching'
    BY <2>3, <2>6, <2>10, <2>12 DEF Fetching
  <2> QED
    BY <2>2, <2>3, <2>6, <2>9, <2>11, <2>13
<1>25. CASE Retry
  <2> DEFINE room == readBytes - Len(call.ret)
             n == IF Len(dp1) < room THEN Len(dp1) ELSE room
             new == SubSeq(dp1, 1, n)
             rest == SubSeq(dp1, n + 1, Len(dp1))
  <2>0. /\ ~Returned /\ Len(call.ret) < readBytes /\ call.retries < MaxRetries
        /\ call.retries + 1 < MaxRetries \/ ReadsOf(pending) = {}
        /\ call' = [call EXCEPT !.ret = @ \o new, !.retries = @ + 1] /\ dp1' = rest
        /\ UNCHANGED <<buffer, readBytes, pending, ncmds, unread, failed, raws>>
    BY <1>25 DEF Retry
  <2>1. Len(dp1) \in Nat /\ Len(call.ret) \in Nat
    BY <1>0, LenProperties
  <2>2. n \in 0..Len(dp1) /\ n <= room /\ (n = Len(dp1) \/ n = room) /\ n + Len(call.ret) <= readBytes
    <3> DEFINE d == Len(dp1)
               l == Len(call.ret)
    <3>1. d \in Nat /\ l \in Nat /\ l < readBytes
      BY <2>0, <2>1
    <3> HIDE DEF d, l
    <3>2. LET m == IF d < readBytes - l THEN d ELSE readBytes - l
          IN m \in 0..d /\ m <= readBytes - l /\ (m = d \/ m = readBytes - l) /\ m + l <= readBytes
      BY <1>0, <3>1
    <3> QED
      BY <3>2 DEF d, l
  <2>3. new \in Seq(Cmd) /\ rest \in Seq(Cmd) /\ Len(new) = n /\ dp1 = new \o rest
    BY <1>0, <2>2, Cut
  <2>4. room + Len(call.ret) = readBytes
    BY <1>0, <2>1
  <2> HIDE DEF n, new, rest, room
  <2>5. /\ call'.ret = call.ret \o new /\ call'.retries = call.retries + 1
        /\ call'.kind = call.kind /\ call'.want = call.want /\ call'.tmp = call.tmp
        /\ call'.tmpBytes = call.tmpBytes
    <3>1. call \in Reading
      BY DEF TypeInv, TypeOK
    <3> QED
      BY <2>0, <3>1 DEF Reading
  <2>6. Answers' = Answers
    <3>1. (call.ret \o new) \o rest = call.ret \o (new \o rest)
      <4>1. call.ret \in Seq(Cmd) /\ new \in Seq(Cmd) /\ rest \in Seq(Cmd)
        BY <1>0, <2>3
      <4> QED
        BY <4>1, Regroup
    <3> QED
      BY <2>0, <2>3, <2>5, <3>1 DEF Answers
  <2>7. Clean
    <3>1. Trusted
      BY <1>3, <2>0, <2>5 DEF Trusted
    <3> QED
      BY <3>1 DEF ReadInv
  <2>8. call.ret \o new \in Seq(Cmd) /\ Len(call.ret \o new) = Len(call.ret) + n
    BY <1>0, <2>3, ConcatProperties
  <2>9. Len(call'.ret) <= readBytes
    BY <2>1, <2>2, <2>5, <2>8
  <2>10. ASSUME call'.retries = MaxRetries PROVE Len(call'.ret) = readBytes
    <3>1. ReadsOf(pending) = {}
      BY <1>0, <2>0, <2>5, <2>10, CommBufferAssumption
    <3>2. IdsOf(Answers) = call.want /\ readBytes = Cardinality(call.want)
      BY <2>0, <2>7, <3>1 DEF Owed, Fetching
    <3>3. Len(Answers) = readBytes
      BY <1>1, <2>7, <3>2, Count DEF Flow
    <3>4. Len(Answers) = Len(call.ret) + Len(dp1)
      BY <1>0, ConcatProperties DEF Answers
    <3>5. n = readBytes - Len(call.ret)
      BY <1>0, <2>1, <2>2, <3>3, <3>4 DEF room
    <3> QED
      BY <1>0, <2>1, <2>5, <2>8, <3>5
  <2>11. Fetching'
    BY <2>0, <2>5, <2>7, <2>9, <2>10 DEF Fetching
  <2> QED
    BY <2>0, <2>5, <2>6, <2>7, <2>11 DEF Owed, Returned
<1>26. CASE FinishReading
  <2>0. /\ ~Returned
        /\ Len(call.ret) >= readBytes \/ call.retries >= MaxRetries
        /\ buffer' = (IF call.kind = "read_results" THEN buffer ELSE call.tmp)
        /\ readBytes' = call.tmpBytes /\ call' = Idle
        /\ UNCHANGED <<pending, dp1, ncmds, unread, failed, raws>>
    BY <1>26 DEF FinishReading
  <2>1. call'.kind = "none" /\ call'.ret = <<>> /\ call'.want = {} /\ Returned'
    BY <2>0 DEF Idle, Returned
  <2>2. raws = 0 /\ ~failed /\ call.kind \in {"single_read", "read_results"}
    BY <1>0, <1>3, <2>0, <2>1 DEF Returned
  <2>3. Clean /\ Fetching
    <3>1. Trusted
      BY <2>2 DEF Trusted
    <3> QED
      BY <2>0, <3>1 DEF ReadInv
  <2>4. Len(call.ret) = Cardinality(call.want)
    <3>1. Len(call.ret) \in Nat
      BY <1>0, LenProperties
    <3> QED
      BY <1>0, <2>0, <2>3, <3>1, CommBufferAssumption DEF Fetching
  <2>5. IsFiniteSet(call.want)
    <3>1. call.want \subseteq 1..ncmds
      BY <1>14, <2>3 DEF Owed
    <3> QED
      BY <1>0, <3>1, Cards
  <2>6. IdsOf(dp1) = {} /\ ReadsOf(pending) = {} /\ Ordered(dp1, Cmd)
    <3>1. IdsOf(call.ret \o dp1) \cup ReadsOf(pending) = call.want
      BY <2>3 DEF Owed, Fetching, Answers
    <3>2. Flow(call.ret \o dp1, pending, buffer, ncmds)
      BY <2>3 DEF Answers
    <3> QED
      BY <1>0, <2>4, <2>5, <3>1, <3>2, FlowDone
  <2>7. Answers' = dp1
    BY <1>0, <2>0, <2>1, ConcatEmptySeq DEF Answers
  <2>8. /\ Ordered(buffer', ReadCmds) /\ ReadsOf(buffer') \subseteq 1..ncmds
        /\ readBytes' = Cardinality(ReadsOf(buffer'))
    <3>1. CASE call.kind = "single_read"
      BY <2>0, <2>3, <3>1 DEF Fetching
    <3>2. CASE call.kind = "read_results"
      BY <2>0, <2>3, <3>2, FS_EmptySet DEF Fetching, Flow
    <3> QED
      BY <2>2, <3>1, <3>2
  <2>9. Flow(dp1, pending, buffer', ncmds)
    BY <2>3, <2>6, <2>8 DEF Flow, Before
  <2>10. unread = {} /\ unread \cup ReadsOf(buffer') = ReadsOf(buffer')
    BY <2>3 DEF Fetching
  <2> QED
    BY <2>0, <2>1, <2>6, <2>7, <2>8, <2>9, <2>10 DEF Owed, AtRest
<1>27. CASE ReadRaises
  BY <1>3, <1>27 DEF ReadRaises
<1>28. CASE FlushRaises
  BY <1>3, <1>28 DEF FlushRaises
<1>29. CASE RawSequenceRaises
  BY <1>3, <1>29 DEF RawSequenceRaises
<1> HIDE DEF Clean
<1> QED
  BY <1>11, <1>15, <1>16, <1>17, <1>18, <1>19, <1>20, <1>21, <1>22, <1>23, <1>24, <1>25, <1>26, <1>27,
     <1>28, <1>29 DEF Next

\* What the latest call returned: its own answers, in order.
LEMMA ResultStep ==
  ASSUME TypeInv, ReadInv, ResultsMatch, [Next]_vars
  PROVE  ResultsMatch'
<1>1. CASE result' = result
  BY <1>1 DEF ResultsMatch
<1>2. CASE FinishReading
  <2> SUFFICES ASSUME Trusted
               PROVE  /\ IdsOf(call.ret) = call.want
                      /\ \A i, j \in DOMAIN call.ret : i < j => call.ret[i].id < call.ret[j].id
    BY <1>2 DEF FinishReading, ResultsMatch
  <2>1. /\ call.ret \in Seq(Cmd) /\ dp1 \in Seq(Cmd) /\ pending \in Seq(Cmd) /\ ncmds \in Nat
        /\ readBytes \in Nat /\ call.retries \in 0..MaxRetries
    BY CommBufferAssumption DEF TypeInv, TypeOK, Reading
  <2>2. /\ Len(call.ret) >= readBytes \/ call.retries >= MaxRetries
        /\ Fetching /\ Owed /\ Flow(call.ret \o dp1, pending, buffer, ncmds)
    BY <1>2 DEF FinishReading, ReadInv, Answers
  <2>3. Len(call.ret) = Cardinality(call.want)
    <3>1. Len(call.ret) \in Nat
      BY <2>1, LenProperties
    <3> QED
      BY <2>1, <2>2, <3>1, CommBufferAssumption DEF Fetching
  <2>4. IdsOf(call.ret \o dp1) \cup ReadsOf(pending) = call.want
    BY <2>2 DEF Owed, Fetching, Answers
  <2>5. IsFiniteSet(call.want)
    <3>1. call.want \subseteq 1..ncmds
      BY <2>2, <2>4 DEF Flow
    <3> QED
      BY <2>1, <3>1, Cards
  <2>6. IdsOf(call.ret) = call.want /\ Ordered(call.ret, Cmd)
    BY <2>1, <2>2, <2>3, <2>4, <2>5, FlowDone
  <2>7. \A i \in DOMAIN call.ret : call.ret[i] \in Cmd
    BY <2>1, LenProperties, ElementOfSeq
  <2> QED
    BY <2>6, <2>7 DEF Ordered
<1>3. FinishReading \/ result' = result
  BY DEF Next, vars, DeviceExecutes, Register, Flush, FlushRaises, ReadResults, FlushAndReadResults,
     SingleWrite, SingleWriteRaises, SingleRead, SingleReadRaises, RawSequence, RawSequenceRaises,
     Retry, ReadRaises
<1> QED
  BY <1>1, <1>2, <1>3

\* _read_all_bytes, when answers are not late and callers collect in order: a
\* call returns the answers of its own reads and no other's, for any number of
\* commands and retries.
THEOREM ResultsAreOnesOwn ==
  ASSUME ~Late, Orderly
  PROVE  Spec => []ResultsMatch
<1>1. Init => ResultsMatch
  BY DEF Init, ResultsMatch
<1>2. TypeInv /\ ReadInv /\ [Next]_vars => ReadInv'
  BY TypeStep, ReadStep
<1>3. TypeInv /\ ReadInv /\ ResultsMatch /\ [Next]_vars => ResultsMatch'
  BY ResultStep
<1> QED
  BY <1>1, <1>2, <1>3, TypeInit, TypeStep, ReadInit, PTL DEF Spec
=============================================================================
